------------------------------ MODULE SyncPipes ------------------------------
(***************************************************************************)
(* A synchronous child of the host (spawn of src/node-lib/binding/         *)
(* spawn_sync.ts): its stdio is made in the kernel before the fork, the    *)
(* host starts it and calls back into drainSyncPipes, which writes its     *)
(* input and reads its output under one poll until every pipe has ended,   *)
(* the deadline has passed or too much is kept; then the host waits for    *)
(* its end.                                                                *)
(*                                                                         *)
(* The kernel and the child are external: a pipe is a count of the bytes   *)
(* in it and who has its ends open.  A child's descendants may hold its    *)
(* pipes after it has ended, and write for ever.                           *)
(***************************************************************************)
EXTENDS Naturals

CONSTANTS Inputs,      \* the pipes the child reads
          Outputs,     \* the pipes it writes
          Room,        \* bytes a pipe holds
          ReadBytes,   \* the room of one read
          InputBytes,  \* bytes given for each input
          MaxBuffer    \* the limit on what is kept, where there is one

ASSUME SyncPipesBounds ==
  /\ Inputs \cup Outputs \subseteq Nat /\ Inputs \cap Outputs = {}
  /\ {Room, ReadBytes, InputBytes, MaxBuffer} \subseteq Nat \ {0}

VARIABLES spawn,   \* the call
          pipe,    \* its pipes
          kernel,  \* the kernel's
          child    \* the child

pipeVars == <<spawn, pipe, kernel, child>>

Pipes == Inputs \cup Outputs

NewPipes == [p \in Pipes |-> [reading |-> p \in Outputs, writing |-> p \in Inputs,
                               left |-> IF p \in Inputs THEN InputBytes ELSE 0]]

PipesInit ==
  /\ \E timed, limited \in BOOLEAN :
       spawn = [pc |-> "idle", timed |-> timed, limited |-> limited, late |-> FALSE,
                ready |-> {}, buffered |-> 0, error |-> "none", pipeError |-> "none",
                answer |-> "none", result |-> "none"]
  /\ pipe = NewPipes
  /\ kernel = [p \in Pipes |-> [bytes |-> 0, ours |-> FALSE, made |-> FALSE, theirs |-> FALSE,
                                shut |-> FALSE, refused |-> FALSE]]
  /\ child = [state |-> "none", killed |-> FALSE]

-----------------------------------------------------------------------------
(* prepareChildStdio's closes *)
Closed(k) == [p \in Pipes |-> [k[p] EXCEPT !.ours = FALSE, !.made = FALSE]]

(* Mutation: the ends made for the child are kept open here. *)
MadeKept == [p \in Pipes |-> [kernel[p] EXCEPT !.ours = TRUE, !.made = TRUE, !.theirs = TRUE]]
(* After the fork and closeMade: the child has its own copies. *)
HandedOver == [p \in Pipes |-> [kernel[p] EXCEPT !.ours = TRUE, !.theirs = TRUE]]

Fork == /\ spawn.pc = "idle"
        /\ kernel' = HandedOver
        /\ child' = [child EXCEPT !.state = "forked"]
        /\ spawn' = [spawn EXCEPT !.pc = "forked"]
        /\ UNCHANGED pipe

(* The pipes are made and closed again, or were never all made. *)
ForkFails == /\ spawn.pc = "idle"
             /\ spawn' = [spawn EXCEPT !.pc = "returned", !.result = "EPERM"]
             /\ UNCHANGED <<pipe, kernel, child>>

HostStarts == /\ spawn.pc = "forked"
              /\ child' = [child EXCEPT !.state = "running"]
              /\ spawn' = [spawn EXCEPT !.pc = "sweep"]
              /\ UNCHANGED <<pipe, kernel>>

(* The host starts nothing, or throws: closeAll, and a child that was not  *)
(* handed its image is ended here.                                         *)
HostRefuses ==
  /\ spawn.pc \in {"forked", "ending"}
  /\ spawn' = [spawn EXCEPT !.pc = "returned", !.result = "ENOSYS"]
  /\ \E handed \in BOOLEAN :
       child' = [child EXCEPT !.state = IF handed THEN @ ELSE "ended"]
  /\ kernel' = Closed(kernel)
  /\ UNCHANGED pipe

-----------------------------------------------------------------------------
(* drainSyncPipes *)
(* fail: any pipe's error is "EIO" here *)
Failed(p) == [p EXCEPT !.reading = FALSE, !.writing = FALSE]

(* end: the runner's own error and the kill; closePipes *)
End(s, e) == /\ spawn' = [s EXCEPT !.error = e, !.pc = "ending", !.ready = {}]
             /\ child' = [child EXCEPT !.killed = TRUE]
Finish(s) == spawn' = [s EXCEPT !.pc = "ending"] /\ UNCHANGED child
ClosePipes(k) == /\ kernel' = Closed(k)
                 /\ pipe' = NewPipes

(* A round: the inputs that are all sent are shut down, a failure of which *)
(* is the pipe's; the loop ends with its last pipe, or late.               *)
Sent == {p \in Inputs : pipe[p].writing /\ pipe[p].left = 0}
ShutDown(bad) ==
  [p \in Pipes |-> IF p \in bad THEN Failed(pipe[p])
                   ELSE [pipe[p] EXCEPT !.writing = @ /\ p \notin Sent]]
Asked(ps) == {p \in Pipes : ps[p].reading \/ ps[p].writing}

Sweep ==
  /\ spawn.pc = "sweep"
  /\ \E bad \in {{}, Sent} :
       LET ps == ShutDown(bad)
           s == [spawn EXCEPT !.pipeError = IF bad = {} THEN @ ELSE "EIO"]
           shut == [p \in Pipes |-> [kernel[p] EXCEPT !.shut = @ \/ p \in Sent \ bad]]
       IN \/ Asked(ps) = {} /\ Finish(s) /\ ClosePipes(kernel)
          \/ Asked(ps) # {} /\ spawn.late /\ End(s, "ETIMEDOUT") /\ ClosePipes(kernel)
          \/ /\ Asked(ps) # {} /\ ~spawn.late
             /\ spawn' = [s EXCEPT !.pc = "poll"]
             /\ pipe' = ps /\ kernel' = shut
             /\ UNCHANGED child

Ended(p) == ~kernel[p].theirs /\ ~kernel[p].made
Ready == {p \in Asked(pipe) : \/ Ended(p)
                              \/ pipe[p].reading /\ kernel[p].bytes > 0
                              \/ pipe[p].writing /\ kernel[p].bytes < Room}

PollReady == /\ spawn.pc = "poll" /\ Ready # {}
             /\ spawn' = [spawn EXCEPT !.pc = "serve", !.ready = Ready]
             /\ UNCHANGED <<pipe, kernel, child>>

(* Interrupted while it blocks, or at its timeout *)
PollAgain == /\ spawn.pc = "poll" /\ Ready = {}
             /\ spawn' = [spawn EXCEPT !.pc = "sweep"]
             /\ UNCHANGED <<pipe, kernel, child>>

PollFails == /\ spawn.pc = "poll"
             /\ spawn' = [spawn EXCEPT !.pc = "sweep", !.pipeError = "EIO"]
             /\ pipe' = [p \in Pipes |-> Failed(pipe[p])]
             /\ UNCHANGED <<kernel, child>>

(* One send or one read of each ready pipe in turn, then the next round *)
First == CHOOSE p \in spawn.ready : \A q \in spawn.ready : p <= q
Served == LET rest == spawn.ready \ {First}
          IN [spawn EXCEPT !.ready = rest, !.pc = IF rest = {} THEN "sweep" ELSE @]

SendInput ==
  /\ spawn.pc = "serve" /\ pipe[First].writing
  /\ ~Ended(First) /\ kernel[First].bytes < Room
  /\ \E n \in 1..pipe[First].left :
       /\ kernel[First].bytes + n <= Room
       /\ pipe' = [pipe EXCEPT ![First].left = @ - n]
       /\ kernel' = [kernel EXCEPT ![First].bytes = @ + n]
  /\ spawn' = Served
  /\ UNCHANGED child

Over(kept) == kept > MaxBuffer

ReadOutput ==
  /\ spawn.pc = "serve" /\ pipe[First].reading /\ kernel[First].bytes > 0
  /\ LET n == IF kernel[First].bytes < ReadBytes THEN kernel[First].bytes ELSE ReadBytes
         s == IF spawn.limited THEN [Served EXCEPT !.buffered = @ + n] ELSE Served
         read == [kernel EXCEPT ![First].bytes = @ - n]
     IN IF Over(s.buffered) THEN End(s, "ENOBUFS") /\ ClosePipes(read)
        ELSE spawn' = s /\ kernel' = read /\ UNCHANGED <<pipe, child>>

(* Mutation: a pipe whose other end is gone is done with. *)
HungUp(p) == Ended(p)
AtEnd(p) == Ended(p) /\ kernel[p].bytes = 0

ReadEnd == /\ spawn.pc = "serve" /\ pipe[First].reading /\ AtEnd(First)
           /\ pipe' = [pipe EXCEPT ![First].reading = FALSE]
           /\ spawn' = Served
           /\ UNCHANGED <<kernel, child>>

Transfer == SendInput \/ ReadOutput \/ ReadEnd

(* EAGAIN or EINTR, which a pipe nobody reads any more does not answer; or *)
(* an error: the pipe is done with, both ways                              *)
NobodyReads == pipe[First].writing /\ Ended(First)

ServeAgain == /\ spawn.pc = "serve" /\ ~NobodyReads
              /\ spawn' = Served
              /\ UNCHANGED <<pipe, kernel, child>>

ServeFails == /\ spawn.pc = "serve"
              /\ spawn' = [Served EXCEPT !.pipeError = "EIO"]
              /\ pipe' = [pipe EXCEPT ![First] = Failed(@)]
              /\ UNCHANGED <<kernel, child>>

-----------------------------------------------------------------------------
(* The host's wait, with the timeout it was given *)
HostKills == /\ spawn.pc = "ending" /\ spawn.late /\ child.state = "running"
             /\ spawn.answer = "none"
             /\ spawn' = [spawn EXCEPT !.answer = "ETIMEDOUT"]
             /\ child' = [child EXCEPT !.killed = TRUE]
             /\ UNCHANGED <<pipe, kernel>>

(* Mutation: a pipe's error before the runner's. *)
PipeErrorFirst == IF spawn.pipeError # "none" THEN spawn.pipeError
                  ELSE IF spawn.error # "none" THEN spawn.error ELSE spawn.answer
GetError == IF "ETIMEDOUT" \in {spawn.error, spawn.answer} THEN "ETIMEDOUT"
            ELSE IF spawn.error # "none" THEN spawn.error ELSE spawn.pipeError

HostAnswers == /\ spawn.pc = "ending" /\ child.state = "ended"
               /\ spawn' = [spawn EXCEPT !.pc = "returned", !.result = GetError]
               /\ kernel' = Closed(kernel)
               /\ UNCHANGED <<pipe, child>>

(* The deadline, counted from the spawn *)
TimePasses == /\ spawn.timed /\ ~spawn.late /\ spawn.pc \notin {"idle", "returned"}
              /\ spawn' = [spawn EXCEPT !.late = TRUE]
              /\ UNCHANGED <<pipe, kernel, child>>

-----------------------------------------------------------------------------
(* The child and its descendants *)
ChildWrites == /\ child.state \in {"running", "ended"}
               /\ \E p \in Outputs :
                    /\ kernel[p].theirs
                    /\ \/ /\ kernel[p].ours /\ kernel[p].bytes < Room
                          /\ kernel' = [kernel EXCEPT ![p].bytes = @ + 1]
                       \/ /\ ~kernel[p].ours /\ ~kernel[p].refused
                          /\ kernel' = [kernel EXCEPT ![p].refused = TRUE]
               /\ UNCHANGED <<spawn, pipe, child>>

ChildReads == /\ child.state \in {"running", "ended"}
              /\ \E p \in Inputs : /\ kernel[p].theirs /\ kernel[p].bytes > 0
                                   /\ kernel' = [kernel EXCEPT ![p].bytes = @ - 1]
              /\ UNCHANGED <<spawn, pipe, child>>

ChildCloses == /\ child.state \in {"running", "ended"}
               /\ \E p \in Pipes : /\ kernel[p].theirs
                                   /\ kernel' = [kernel EXCEPT ![p].theirs = FALSE]
               /\ UNCHANGED <<spawn, pipe, child>>

ChildEnds == /\ child.state = "running"
             /\ child' = [child EXCEPT !.state = "ended"]
             /\ UNCHANGED <<spawn, pipe, kernel>>

-----------------------------------------------------------------------------
DrainStep == \/ Sweep \/ PollReady \/ PollAgain \/ PollFails
             \/ Transfer \/ ServeAgain \/ ServeFails
HostStep == \/ Fork \/ ForkFails \/ HostStarts \/ HostRefuses \/ HostKills \/ HostAnswers
            \/ TimePasses
ChildStep == ChildWrites \/ ChildReads \/ ChildCloses \/ ChildEnds
(* What a child does after the call has returned is not followed. *)
PipesNext == DrainStep \/ HostStep \/ (spawn.pc # "returned" /\ ChildStep)
=============================================================================
