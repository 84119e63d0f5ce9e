------------------------------- MODULE LoopWork -------------------------------
(***************************************************************************)
(* A run's life as its record sees it (src/process-tokens.ts) and its end  *)
(* (__endOwnedProcess of src/node-lib/binding/handles.ts), over what can   *)
(* hold its loop: handles, timers and message ports.                       *)
(*                                                                         *)
(* The end is one synchronous sweep, asked for by process.exit, by a kill  *)
(* or stopProcess, and by the run's own `finally`, in any number and in    *)
(* any order.  Guest code may still run after it: exit returns silently in *)
(* an asynchronous frame, and promise continuations are not cut.           *)
(***************************************************************************)
EXTENDS OwnedHandles, GuestTimers, GuestPorts

ASSUME KindsAssumption == /\ Handles \cap Timers = {} /\ Handles \cap Ports = {}
                          /\ Timers \cap Ports = {}

VARIABLES phase,       \* the run record and the run's `finally`
          ending,      \* the kept completion of each process's end
          awaited,     \* the completion the run's `finally` awaits
          outcome,     \* how that await ended
          broken,      \* handles whose teardown rejected
          threw,       \* history: handles whose close threw at an end
          ended,       \* history: processes an end was asked for
          owed,        \* history: bindings' handles closed by ends up to the `finally`
          late         \* history: what came to a process after its last end

endVars == <<phase, ending, awaited, outcome, broken, threw, ended, owed>>
vars == <<handleVars, timerVars, port, endVars, late>>

Completions == [failed : BOOLEAN, awaits : SUBSET Handles]
Resolved == [failed |-> FALSE, awaits |-> {}]

Recorded(t) == phase[t] \in {"running", "finally"}

(* What may be executing: some launched run's guest code, or no run's. *)
Currents == {Null} \cup {t \in Tokens : phase[t] # "none"}

Init == /\ HandlesInit /\ TimersInit /\ PortsInit
        /\ phase = [t \in Tokens |-> "none"]
        /\ ending = [t \in Tokens |-> Resolved]
        /\ awaited = [t \in Tokens |-> Resolved]
        /\ outcome = [t \in Tokens |-> "none"]
        /\ broken = {} /\ threw = {} /\ ended = {} /\ late = {}
        /\ owed = [t \in Tokens |-> {}]

(* History: x is t's now. *)
Comes(x, t) == late' = IF t \in ended THEN late \cup {x} ELSE late

-----------------------------------------------------------------------------
(* __recordRun *)
Launch(t) == /\ phase[t] = "none"
             /\ phase' = [phase EXCEPT ![t] = "running"]
             /\ UNCHANGED <<handleVars, timerVars, port, late, ending, awaited,
                            outcome, broken, threw, ended, owed>>

(* The handles of the current run *)
MakeHandle(h, c) ==
  /\ \E active, server \in BOOLEAN : RegisterHandle(h, c, active, server)
  /\ Comes(h, c)

MakeRequest(r, h, c) == HoldRequest(r, h, c) /\ Comes(r, OwnerOf(h))

MakeTimer(h, c) == NewTimer(h, c) /\ Comes(h, c)
Refresh(h, c) == RefreshTimer(h, c) /\ Comes(h, home[h])
Reuse(h, c) == ReuseTimer(h, c) /\ Comes(h, home[h])
Adopt(h, t) == AdoptHandle(h, t) /\ Comes(h, t)

HandleStep ==
  /\ \/ \E h \in Handles, c \in Currents :
           \/ MakeHandle(h, c) \/ MakeTimer(h, c) \/ Refresh(h, c) \/ Reuse(h, c)
           \/ Adopt(h, c)
           \/ \E r \in Handles : MakeRequest(r, h, c)
     \/ \E h \in Handles :
           /\ \/ StartHandle(h) \/ StopHandle(h) \/ RefHandle(h) \/ UnrefHandle(h)
              \/ FireTimer(h) \/ CloseHandle(h)
           /\ UNCHANGED late
  /\ UNCHANGED <<timerVars, port, endVars>>

TimerStep ==
  /\ \E x \in Timers :
       \/ \E t \in Currents \ {Null}, repeats \in BOOLEAN :
             SetTimer(x, t, repeats) /\ Comes(x, t)
       \/ (Fire(x) \/ ClearTimer(x) \/ RefreshTimeout(x)) /\ UNCHANGED late
       \/ RefTimer(x) /\ Comes(x, timer[x].of)
       \/ UnrefTimer(x) /\ UNCHANGED late
  /\ UNCHANGED <<handleVars, port, endVars>>

PortStep ==
  /\ \E p \in Ports :
       \/ \E t \in Currents \ {Null} : TrackPort(p, t) /\ Comes(p, t)
       \/ /\ AddListener(p) \/ RemoveListener(p) \/ RefPort(p) \/ UnrefPort(p) \/ ClosePort(p)
          /\ UNCHANGED late
  /\ UNCHANGED <<handleVars, timerVars, endVars>>

-----------------------------------------------------------------------------
\* Mutant of ReleasedAtEnd: only what holds the loop is closed.
ReferencedReleasedAtEnd(c, t, kept) ==
  LET gone == c.owners[t] \ kept
  IN  [heldBy |-> [h \in Handles |-> IF h \in gone THEN Unset ELSE c.heldBy[h]],
       refHeld |-> c.refHeld \ gone, active |-> c.active \ gone,
       owners |-> [c.owners EXCEPT ![t] = {}],
       allOwned |-> [c.allOwned EXCEPT ![t] = @ \ gone]]

(***************************************************************************)
(* The sweep: every handle the process owns is closed, its servers first.  *)
(* A request or a timer is released by its close.  A binding's handle is   *)
(* released at once, or at the end of a teardown that its close begins     *)
(* (slow), or its close throws, before the release (kept) or after it.     *)
(***************************************************************************)
ReleasedAtEnd(c, t, kept) ==
  LET gone == c.allOwned[t] \ kept
  IN  IF c.allOwned[t] = {} THEN c
      ELSE [heldBy |-> [h \in Handles |-> IF h \in gone THEN Unset ELSE c.heldBy[h]],
            refHeld |-> c.refHeld \ gone, active |-> c.active \ gone,
            owners |-> [c.owners EXCEPT ![t] = {}],
            allOwned |-> [c.allOwned EXCEPT ![t] = {}]]

\* Mutant of EndingWith: an end forgets what the end before it left unfinished.
EndingAlone(t, failures, releases) ==
  IF failures = {} /\ releases = {} THEN ending[t]
  ELSE [failed |-> failures # {}, awaits |-> releases]

(* What the sweep's outcome joins of the process's earlier ends. *)
EndingWith(t, failures, releases) ==
  [failed |-> ending[t].failed \/ failures # {}, awaits |-> ending[t].awaits \cup releases]

(* __stopOwnedProcess: a run whose record is released keeps its timers and ports. *)
StopWork(t) ==
  IF Recorded(t)
  THEN /\ timer' = StoppedTimers(t) /\ held' = held \ HeldBy(t) /\ port' = StoppedPorts(t)
       /\ late' = late \ (count.allOwned[t] \cup HeldBy(t) \cup OpenPorts(t))
  ELSE /\ UNCHANGED <<timer, held, port>>
       /\ late' = late \ count.allOwned[t]

(* The bindings' own handles of a process: the close of one may throw or take time. *)
Answerable(t) == count.allOwned[t] \cap wraps

(* How the closes of one sweep come out. *)
Closes(t) ==
  {out \in [slow : SUBSET Answerable(t), failures : SUBSET Answerable(t), kept : SUBSET Answerable(t)] :
         out.slow \cap out.failures = {} /\ out.kept \subseteq out.failures}

EndOwnedProcess(t, out) ==
  LET owned == count.allOwned[t]
  IN  /\ count' = ReleasedAtEnd(count, t, out.slow \cup out.kept)
      /\ stage' = [h \in Handles |-> CASE h \in out.slow -> "closing"
                                       [] h \in owned \ out.slow -> "closed"
                                       [] OTHER -> stage[h]]
      /\ listening' = listening \ owned
      /\ StopWork(t)
      /\ ending' = [ending EXCEPT ![t] = EndingWith(t, out.failures, out.slow)]
      /\ threw' = threw \cup out.failures
      /\ ended' = ended \cup {t}
      /\ UNCHANGED <<home, wanted, wraps, broken, outcome>>

(* process.exit, a kill, stopProcess *)
End(t, out) ==
  /\ phase[t] # "none"
  /\ EndOwnedProcess(t, out)
  /\ owed' = IF phase[t] = "running" THEN [owed EXCEPT ![t] = @ \cup Answerable(t)] ELSE owed
  /\ UNCHANGED <<phase, awaited>>

(* The run's `finally`: it ends the process and awaits the completion. *)
BeginFinally(t, out) ==
  /\ phase[t] = "running"
  /\ EndOwnedProcess(t, out)
  /\ owed' = [owed EXCEPT ![t] = @ \cup Answerable(t)]
  /\ awaited' = [awaited EXCEPT ![t] = EndingWith(t, out.failures, out.slow)]
  /\ phase' = [phase EXCEPT ![t] = "finally"]

Settled(promise) == \A h \in promise.awaits : stage[h] # "closing"

(* The record is released, the process reaped and its end forgotten. *)
Finish(t) ==
  /\ phase[t] = "finally" /\ Settled(awaited[t])
  /\ outcome' = [outcome EXCEPT ![t] =
       IF awaited[t].failed \/ awaited[t].awaits \cap broken # {} THEN "failed" ELSE "clean"]
  /\ ending' = [ending EXCEPT ![t] = Resolved]
  /\ phase' = [phase EXCEPT ![t] = "finished"]
  /\ UNCHANGED <<handleVars, timerVars, port, late, awaited, broken, threw, ended, owed>>

(* A release that outlived its close settles. *)
TeardownDone(h, fails) ==
  /\ stage[h] = "closing"
  /\ count' = Released(count, h)
  /\ stage' = [stage EXCEPT ![h] = "closed"]
  /\ broken' = IF fails THEN broken \cup {h} ELSE broken
  /\ UNCHANGED <<listening, home, wanted, wraps, timerVars, port, late, phase, ending,
                 awaited, outcome, threw, ended, owed>>

EndStep == \E t \in Tokens :
  \/ Launch(t) \/ Finish(t)
  \/ \E out \in Closes(t) : End(t, out) \/ BeginFinally(t, out)

TeardownStep == \E h \in Handles, fails \in BOOLEAN : TeardownDone(h, fails)

Next == HandleStep \/ TimerStep \/ PortStep \/ EndStep \/ TeardownStep

Spec == Init /\ [][Next]_vars

-----------------------------------------------------------------------------

(* The tables keep their types, whatever is called in whatever order. *)
TypeOK ==
  /\ count \in Counts /\ stage \in [Handles -> Stages] /\ listening \subseteq Handles
  /\ home \in [Handles -> Tokens \cup {Null, Unset}] /\ wanted \subseteq Handles
  /\ TimersTypeOK /\ PortsTypeOK
  /\ phase \in [Tokens -> {"none", "running", "finally", "finished"}]
  /\ ending \in [Tokens -> Completions] /\ awaited \in [Tokens -> Completions]
  /\ outcome \in [Tokens -> {"none", "clean", "failed"}]
  /\ wraps \subseteq Handles /\ broken \subseteq wraps /\ threw \subseteq wraps /\ ended \subseteq Tokens
  /\ owed \in [Tokens -> SUBSET Handles]
  /\ late \subseteq Handles \cup Timers \cup Ports

(***************************************************************************)
(* The number the `node` command asks for is exact: a run is counted as    *)
(* held by precisely the open handles that are its own, referenced and     *)
(* active, and what it will close at its end is precisely what is its own, *)
(* through every order of register, start, stop, ref, unref, adopt,        *)
(* request, re-arm and release of handles.ts.                              *)
(***************************************************************************)
LoopIsHeldByItsOwn ==
  \A t \in Tokens, h \in Handles :
    stage[h] \in {"open", "fired"} =>
      /\ h \in count.owners[t] <=> count.heldBy[h] = t /\ h \in count.refHeld \cap count.active
      /\ h \in count.allOwned[t] <=> count.heldBy[h] = t

(***************************************************************************)
(* Ending a process takes everything that held it and everything it owned: *)
(* handles referenced or not, the timers it holds, its ports referenced or *)
(* not.  What it has after the end came to it later (handles.ts, the       *)
(* comment on __endOwnedProcess).                                          *)
(***************************************************************************)
EndLeavesNothing ==
  \A t \in ended :
    /\ count.allOwned[t] \cup HeldBy(t) \cup OpenPorts(t) \subseteq late
    /\ count.owners[t] \subseteq late \cup threw \cup {h \in Handles : stage[h] = "closing"}

(***************************************************************************)
(* The run is not reported finished while a release its end began goes on, *)
(* and a failure of any of its ends up to the one its `finally` awaits,    *)
(* whoever asked for it, fails the run (handles.ts, `endings`).            *)
(***************************************************************************)
EndIsReported ==
  \A t \in Tokens : phase[t] = "finished" =>
    \A h \in owed[t] : /\ stage[h] # "closing"
                       /\ h \in threw \cup broken => outcome[t] = "failed"

(***************************************************************************)
(* guest-timers.ts:8-9: a timer "is held here until it fires, is cleared,  *)
(* or is unref'd", so one that holds its run is still to fire.  It fails:  *)
(* ref() (guest-timers.ts:91) puts a timer that fired, or was cleared,     *)
(* back among those that hold, and nothing will take it out by itself.     *)
(***************************************************************************)
HeldTimerIsPending == \A x \in held : timer[x].queued

=============================================================================
