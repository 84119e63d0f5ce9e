------------------------------- MODULE BytePipe -------------------------------
(****************************************************************************)
(* What a run's fd 0 promises, whatever carries it: a bounded pipe of bytes   *)
(* with an end.  A byte is its number: what is taken is 1, 2, 3 and so on.     *)
(****************************************************************************)
EXTENDS Naturals, Sequences

CONSTANTS Capacity, MaxBytes

VARIABLES
  sent,    \* bytes put into the pipe
  got,     \* bytes the reader has taken
  shut,    \* the writer has closed its end
  ended    \* the reader was told of the end

vars == <<sent, got, shut, ended>>

Init == sent = 0 /\ got = << >> /\ shut = FALSE /\ ended = FALSE

\* A pipe that is shut takes nothing more.
Put ==
  /\ ~shut
  /\ \E n \in 1 .. Capacity :
       /\ sent + n <= MaxBytes
       /\ sent + n - Len(got) <= Capacity
       /\ sent' = sent + n
  /\ UNCHANGED <<got, shut, ended>>

Take ==
  /\ \E n \in 1 .. Capacity :
       /\ Len(got) + n <= sent
       /\ got' = got \o [i \in 1 .. n |-> Len(got) + i]
  /\ UNCHANGED <<sent, shut, ended>>

Shut == shut' = TRUE /\ UNCHANGED <<sent, got, ended>>

\* The end is told only with nothing left to take.
End == shut /\ Len(got) = sent /\ ended' = TRUE /\ UNCHANGED <<sent, got, shut>>

Next == Put \/ Take \/ Shut \/ End

Spec == Init /\ [][Next]_vars
===============================================================================
