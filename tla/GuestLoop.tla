------------------------------- MODULE GuestLoop -------------------------------
(****************************************************************************)
(* The worker realm's guest execution loop (src/guest-loop.ts): the brackets  *)
(* round guest code, the nextTick queue and its drains, the turn of a native  *)
(* await's continuation, and the account of active time.                      *)
(*                                                                           *)
(* `stack` is the JavaScript stack, a frame per entry into guest code or into *)
(* a drain; the realm runs a microtask, or a task of its own, only when it is *)
(* empty.  What the guest code on top does is any sequence of the operations  *)
(* below; an exception leaves one frame, and the code it lands in may go on   *)
(* or throw in its turn.                                                      *)
(****************************************************************************)
EXTENDS Integers, Sequences

CONSTANTS
  MaxTicks,   \* bound: ticks queued
  MaxStack,   \* bound: frames on the stack, a tick run on the last of them apart
  MaxMicro,   \* bound: microtasks the guest keeps queued
  MaxTime     \* bound: the clock

ASSUME LoopAssumption ==
  /\ MaxTicks \in Nat /\ MaxStack \in Nat \ {0}
  /\ MaxMicro \in Nat /\ MaxTime \in Nat

VARIABLES
  stack,               \* the frames, the outermost first
  micro,               \* the realm's microtasks
  depth, callbackDepth, continuation, continuationFromTheLoop,
  ticks,               \* the queue; a tick's `by` is the frame that queued it, 0 once that returned
  tickDrainScheduled, drainingTicks,
  now, active, activeSince,
  entryAccount,        \* ms by kind, once `counting`
  counting, outerKind,
  ran,                 \* history: the ticks run, in order
  queued,              \* history: how many were queued
  spent,               \* history: the time the clock ran inside guest code
  uncounted            \* history: the active time when counting began

tickVars == <<ticks, tickDrainScheduled, drainingTicks>>
timeVars == <<active, activeSince, entryAccount, outerKind>>
clockVars == <<now, spent, counting, uncounted>>
vars == <<stack, micro, depth, callbackDepth, continuation, continuationFromTheLoop,
          tickVars, timeVars, clockVars, ran, queued>>

Kinds == {"callback", "bracket", "ticks", "await", "other"}

\* `drain`: the frame is in drainGuestNextTicks, `taken` ticks into it.  `from`: the
\* code's fromTheLoop.
Plain(kind) == [kind |-> kind, drain |-> FALSE, from |-> FALSE, taken |-> 0]

Init ==
  /\ stack = <<>> /\ micro = <<>>
  /\ depth = 0 /\ callbackDepth = 0
  /\ continuation = FALSE /\ continuationFromTheLoop = FALSE
  /\ ticks = <<>> /\ tickDrainScheduled = FALSE /\ drainingTicks = FALSE
  /\ now = 0 /\ active = 0 /\ activeSince = 0
  /\ entryAccount = [k \in Kinds |-> 0] /\ counting = FALSE /\ outerKind = "other"
  /\ ran = <<>> /\ queued = 0 /\ spent = 0 /\ uncounted = 0

Top == stack[Len(stack)]
Under == SubSeq(stack, 1, Len(stack) - 1)
Running == stack # <<>> /\ ~Top.drain    \* guest code is on top

----------------------------------------------------------------------------
(* The account of active time                                               *)

\* countEntry, where the account is on.
Count(kind, ms) ==
  entryAccount' = IF counting THEN [entryAccount EXCEPT ![kind] = @ + ms] ELSE entryAccount

Begin(kind) ==
  /\ activeSince' = IF depth = 0 /\ ~continuation THEN now ELSE activeSince
  /\ outerKind' = IF depth = 0 /\ ~continuation /\ counting THEN kind ELSE outerKind
  /\ depth' = depth + 1
  /\ UNCHANGED <<active, entryAccount>>

End ==
  /\ depth' = depth - 1
  /\ IF depth = 1 /\ ~continuation
     THEN active' = active + (now - activeSince) /\ Count(outerKind, now - activeSince)
     ELSE UNCHANGED <<active, entryAccount>>
  /\ UNCHANGED <<activeSince, outerKind>>

----------------------------------------------------------------------------
(* Entering guest code                                                      *)

\* Mutant of FromTheLoop: only the brackets are asked.
FromTheLoopByDepth == depth = 0 /\ ~continuation

FromTheLoop == depth = 0 /\ ~continuation /\ ticks = <<>>

\* Guest code entered with no bracket (a listener on a realm's own event target, a
\* native await's continuation), under withGuestExecution, or under withGuestCallback.
Enter(kind) ==
  /\ Len(stack) < MaxStack
  /\ stack' = Append(stack, [Plain(kind) EXCEPT
                 !.from = kind = "callback" /\ FromTheLoop])
  /\ IF kind = "bare" THEN UNCHANGED <<depth, timeVars>> ELSE Begin(kind)
  /\ callbackDepth' = callbackDepth + (IF kind = "callback" THEN 1 ELSE 0)
  /\ UNCHANGED <<continuation, continuationFromTheLoop, tickVars, clockVars, ran, queued>>

\* A task of the realm: an event, a timer, a message, a module's body.
Task(kind) == stack = <<>> /\ micro = <<>> /\ Enter(kind) /\ UNCHANGED micro

\* Guest code calls into the engine, which calls guest code.
Call(kind) == Running /\ Enter(kind) /\ UNCHANGED micro

----------------------------------------------------------------------------
(* Ticks                                                                    *)

\* scheduleTickDrain, the queue being q and a drain under way or not.
Schedule(q, draining) ==
  IF tickDrainScheduled \/ draining \/ q = <<>>
  THEN UNCHANGED <<tickDrainScheduled, micro>>
  ELSE tickDrainScheduled' = TRUE /\ micro' = Append(micro, "drain")

QueueGuestNextTick ==
  /\ Running /\ queued < MaxTicks
  /\ queued' = queued + 1
  /\ ticks' = Append(ticks, [n |-> queued + 1, by |-> Len(stack)])
  /\ Schedule(ticks', drainingTicks)
  /\ UNCHANGED <<stack, depth, callbackDepth, continuation, continuationFromTheLoop,
                 drainingTicks, timeVars, clockVars, ran>>

\* The guest queues a microtask of its own, or causes one of the engine's binding tasks.
QueueMicrotask(task) ==
  /\ Running /\ Len(micro) < MaxMicro
  /\ micro' = Append(micro, task)
  /\ UNCHANGED <<stack, depth, callbackDepth, continuation, continuationFromTheLoop,
                 tickVars, timeVars, clockVars, ran, queued>>

\* The ticks of the code at this place of the stack, once it has returned.
Returned(q, at) == [i \in 1 .. Len(q) |-> IF q[i].by = at THEN [q[i] EXCEPT !.by = 0] ELSE q[i]]

\* Leaving a frame: its bracket ends, unless it has none.
Leave(frame) ==
  /\ IF frame.kind = "bare" THEN UNCHANGED <<depth, timeVars>> ELSE End
  /\ callbackDepth' = callbackDepth - (IF frame.kind = "callback" THEN 1 ELSE 0)

\* Mutant of EndDrain: what a throwing tick leaves behind is not scheduled again.
EndDrainUnscheduled(frame, q) ==
  /\ ticks' = SubSeq(q, frame.taken + 1, Len(q))
  /\ drainingTicks' = FALSE
  /\ UNCHANGED <<tickDrainScheduled, micro>>
  /\ Leave(frame)

\* Mutant of EndDrain: the ticks run stay in the queue.
EndDrainKeepingTicks(frame, q) ==
  /\ ticks' = q
  /\ drainingTicks' = FALSE
  /\ Schedule(ticks', FALSE)
  /\ Leave(frame)

\* drainGuestNextTicks's finally, the queue being q; the frame that drained is left.
EndDrain(frame, q) ==
  /\ ticks' = SubSeq(q, frame.taken + 1, Len(q))
  /\ drainingTicks' = FALSE
  /\ Schedule(ticks', FALSE)
  /\ Leave(frame)

RunTick ==
  /\ stack # <<>> /\ Top.drain /\ Top.taken < Len(ticks)
  /\ stack' = Append([stack EXCEPT ![Len(stack)].taken = @ + 1], Plain("tick"))
  /\ ran' = Append(ran, ticks[Top.taken + 1].n)
  /\ UNCHANGED <<micro, depth, callbackDepth, continuation, continuationFromTheLoop,
                 tickVars, timeVars, clockVars, queued>>

Drained ==
  /\ stack # <<>> /\ Top.drain /\ Top.taken = Len(ticks)
  /\ stack' = Under
  /\ EndDrain(Top, ticks)
  /\ UNCHANGED <<continuation, continuationFromTheLoop, clockVars, ran, queued>>

\* The code on top returns; what entered it drains the ticks, or leaves.
Return ==
  /\ Running
  /\ ticks' = Returned(ticks, Len(stack))
  /\ IF Top.kind = "callback" /\ Top.from /\ callbackDepth = 1 /\ ~drainingTicks
     THEN /\ stack' = [stack EXCEPT ![Len(stack)].drain = TRUE]
          /\ drainingTicks' = TRUE
          /\ UNCHANGED <<depth, callbackDepth, timeVars>>
     ELSE /\ stack' = Under
          /\ IF Top.kind = "tick" THEN UNCHANGED <<depth, callbackDepth, timeVars>> ELSE Leave(Top)
          /\ UNCHANGED drainingTicks
  /\ UNCHANGED <<micro, tickDrainScheduled, continuation, continuationFromTheLoop,
                 clockVars, ran, queued>>

\* It throws: a callback leaves without a drain, and a tick takes its drain with it.
Throw ==
  /\ Running
  /\ IF Top.kind = "tick"
     THEN /\ stack' = SubSeq(stack, 1, Len(stack) - 2)
          /\ EndDrain(stack[Len(stack) - 1], Returned(ticks, Len(stack)))
     ELSE /\ stack' = Under
          /\ ticks' = Returned(ticks, Len(stack))
          /\ Leave(Top)
          /\ UNCHANGED <<tickDrainScheduled, drainingTicks, micro>>
  /\ UNCHANGED <<continuation, continuationFromTheLoop, clockVars, ran, queued>>

----------------------------------------------------------------------------
(* Microtasks                                                               *)

RunDrain ==
  /\ Head(micro) = "drain" /\ micro' = Tail(micro)
  /\ tickDrainScheduled' = FALSE
  /\ stack' = <<[Plain("ticks") EXCEPT !.drain = TRUE]>>
  /\ drainingTicks' = TRUE
  /\ Begin("ticks")
  /\ UNCHANGED <<callbackDepth, continuation, continuationFromTheLoop, ticks, clockVars, ran, queued>>

\* Mutant of EndContinuation: the span is the continuation's only where it began it.
EndContinuationOfItsOwn ==
  /\ Head(micro) = "endContinuation" /\ micro' = Tail(micro)
  /\ continuation' = FALSE
  /\ IF continuationFromTheLoop
     THEN active' = active + (now - activeSince) /\ Count("await", now - activeSince)
     ELSE UNCHANGED <<active, entryAccount>>
  /\ UNCHANGED <<stack, depth, callbackDepth, continuationFromTheLoop, tickVars,
                 activeSince, outerKind, clockVars, ran, queued>>

EndContinuation ==
  /\ Head(micro) = "endContinuation" /\ micro' = Tail(micro)
  /\ continuation' = FALSE
  /\ IF depth = 0
     THEN /\ active' = active + (now - activeSince)
          /\ Count(IF continuationFromTheLoop THEN "await" ELSE outerKind, now - activeSince)
     ELSE UNCHANGED <<active, entryAccount>>
  /\ UNCHANGED <<stack, depth, callbackDepth, continuationFromTheLoop, tickVars,
                 activeSince, outerKind, clockVars, ran, queued>>

\* A guest microtask: queueMicrotask's under a bracket, a native await's under none.
\* The engine's binding task has no bracket, and makes a callback.
RunTask ==
  /\ micro' = Tail(micro)
  /\ \/ Head(micro) = "guest" /\ (Enter("bare") \/ Enter("bracket"))
     \/ Head(micro) = "binding" /\ Enter("callback")

RunMicrotask == stack = <<>> /\ micro # <<>> /\ (RunDrain \/ EndContinuation \/ RunTask)

\* A compiled function's await resumes, or its catch or finally restores its frame.
ResumeGuestTurn ==
  /\ Running /\ ~continuation
  /\ continuation' = TRUE
  /\ continuationFromTheLoop' = (depth = 0)
  /\ activeSince' = IF depth = 0 THEN now ELSE activeSince
  /\ micro' = Append(micro, "endContinuation")
  /\ UNCHANGED <<stack, depth, callbackDepth, tickVars, active, entryAccount, outerKind,
                 clockVars, ran, queued>>

----------------------------------------------------------------------------
InGuest == depth > 0 \/ continuation

Elapse ==
  /\ now < MaxTime
  /\ now' = now + 1
  /\ spent' = spent + (IF InGuest THEN 1 ELSE 0)
  /\ UNCHANGED <<stack, micro, depth, callbackDepth, continuation, continuationFromTheLoop,
                 tickVars, timeVars, counting, uncounted, ran, queued>>

EnableGuestEntryAccount ==
  /\ ~counting /\ MaxTime > 0
  /\ counting' = TRUE /\ uncounted' = active
  /\ UNCHANGED <<stack, micro, depth, callbackDepth, continuation, continuationFromTheLoop,
                 tickVars, timeVars, now, spent, ran, queued>>

Entries == {"bare", "bracket", "callback"}

Next ==
  \/ \E kind \in Entries : Task(kind) \/ Call(kind)
  \/ QueueGuestNextTick
  \/ \E task \in {"guest", "binding"} : QueueMicrotask(task)
  \/ RunTick \/ Drained \/ Return \/ Throw
  \/ RunMicrotask
  \/ ResumeGuestTurn
  \/ Elapse \/ EnableGuestEntryAccount

Spec == Init /\ [][Next]_vars

\* JavaScript runs on: a microtask that is due is run, a drain goes on, and code that
\* gets control back again and again returns in the end.
Fairness ==
  /\ WF_vars(RunMicrotask) /\ WF_vars(RunTick \/ Drained)
  /\ \A at \in 1 .. MaxStack + 1 : SF_vars(Len(stack) = at /\ (Return \/ Throw))

FairSpec == Spec /\ Fairness
----------------------------------------------------------------------------
(* Properties                                                               *)

\* Ticks run in the order they were queued, each once, whatever throws, whichever of
\* a callback's drain and the microtask's gets to them.
TicksInOrder == \A i \in 1 .. Len(ran) : ran[i] = i

\* No tick runs while the code that queued it is still on the stack: what a program
\* queues and then prepares for (a listener for spawn's error) is ready.
TicksWaitForTheirCode ==
  [][Len(ran') > Len(ran) => ticks[Top.taken + 1].by = 0]_vars

\* Every tick queued runs.
TicksRun == \A n \in 1 .. MaxTicks : queued >= n ~> Len(ran) >= n

Accounted == entryAccount["callback"] + entryAccount["bracket"] + entryAccount["ticks"]
             + entryAccount["await"] + entryAccount["other"]

\* The active time read at any moment is the time spent inside guest code: nested
\* brackets and a continuation that outlives its bracket are counted once.  The
\* entries' account holds all of it since it was turned on, that of the span it was
\* turned on in included.
TimeIsCountedOnce ==
  /\ active + (IF InGuest THEN now - activeSince ELSE 0) = spent
  /\ counting => active - uncounted = Accounted

================================================================================
