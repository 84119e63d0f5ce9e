----------------------------- MODULE GuestTimers -----------------------------
(***************************************************************************)
(* The timers a guest sets through its globals or the timers module, and   *)
(* which of them hold its run: src/guest-timers.ts.  The realm's own       *)
(* timers (the host's setTimeout) are external; a timer is queued there    *)
(* until it fires or is cleared, whatever the guest's view of it is, and a *)
(* host whose timers are Node's queues it again at refresh().              *)
(***************************************************************************)
EXTENDS RunNames

CONSTANT Timers        \* the timers ever set

VARIABLES timer,       \* whose each timer is, whether it repeats, is queued, was cleared
          held         \* the union of the processes' sets of pending timers

timerVars == <<timer, held>>

TimersTypeOK ==
  /\ timer \in [Timers -> [of : Tokens \cup {Unset}, repeats : BOOLEAN, queued : BOOLEAN,
                           cleared : BOOLEAN]]
  /\ held \subseteq Timers

TimersInit == /\ timer = [x \in Timers |-> [of |-> Unset, repeats |-> FALSE, queued |-> FALSE,
                                            cleared |-> FALSE]]
              /\ held = {}

HeldBy(t) == {x \in held : timer[x].of = t}

(* setTimeout and setImmediate, or setInterval: the new timer is tracked. *)
SetTimer(x, t, repeats) ==
  /\ timer[x].of = Unset
  /\ timer' = [timer EXCEPT ![x] = [of |-> t, repeats |-> repeats, queued |-> TRUE,
                                       cleared |-> FALSE]]
  /\ held' = held \cup {x}

(* A timeout lets go before it calls the guest; an interval stays queued and held. *)
Fire(x) ==
  /\ timer[x].queued
  /\ timer' = [timer EXCEPT ![x].queued = timer[x].repeats]
  /\ held' = IF timer[x].repeats THEN held ELSE held \ {x}

ClearTimer(x) ==
  /\ timer[x].of # Unset
  /\ timer' = [timer EXCEPT ![x].queued = FALSE, ![x].cleared = TRUE]
  /\ held' = held \ {x}

(* The tracked handle's own ref and unref, at any time after it was made. *)
RefTimer(x) == timer[x].of # Unset /\ held' = held \cup {x} /\ UNCHANGED timer
UnrefTimer(x) == timer[x].of # Unset /\ held' = held \ {x} /\ UNCHANGED timer

(***************************************************************************)
(* The host's own refresh(), which the tracked handle of a Node host keeps *)
(* (a browser's handle is given one that does nothing): a timer that is    *)
(* pending or has fired starts again, a cleared one does not.              *)
(***************************************************************************)
RefreshTimeout(x) == /\ timer[x].of # Unset /\ ~timer[x].cleared
                     /\ timer' = [timer EXCEPT ![x].queued = TRUE]
                     /\ UNCHANGED held

(* stopGuestTimers: what the process still holds is cleared, and only that. *)
StoppedTimers(t) == [x \in Timers |-> IF x \in HeldBy(t)
                                      THEN [timer[x] EXCEPT !.queued = FALSE, !.cleared = TRUE]
                                      ELSE timer[x]]
=============================================================================
