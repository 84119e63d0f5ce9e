-------------------------------- MODULE NodeRun --------------------------------
(****************************************************************************)
(* One run of the engine's Node (launchNode, src/shims/child_process.ts): the *)
(* entry, the wait for the program's loop to empty, beforeExit and exit,       *)
(* process.exit called anywhere, uncaught exceptions, signals, and the status *)
(* the run is reported with.                                                  *)
(*                                                                           *)
(* `stack` is the guest code on the JavaScript stack; an engine function that *)
(* has called it goes on when its frame is left, by the frame's kind.  `raise`*)
(* is an exception on its way out: the program's own error, or the stop       *)
(* process.exit throws.  Guest code does anything, `fuel` times; an empty     *)
(* stack is the realm's loop, where the launcher, a callback of the program's *)
(* work or one of its microtasks runs next.                                   *)
(****************************************************************************)
EXTENDS Integers, Sequences

CONSTANTS
  Statuses,   \* the statuses a program gives, 0 among them
  MaxWork,    \* bound: timers, handles and other references open at once
  MaxMicro,   \* bound: microtasks queued
  Fuel,       \* bound: what guest code does, its returns apart
  MaxStack    \* bound: guest frames

ASSUME RunAssumption ==
  /\ Statuses \subseteq 0 .. 255 /\ 0 \in Statuses
  /\ MaxWork \in Nat /\ MaxMicro \in Nat /\ Fuel \in Nat /\ MaxStack \in Nat \ {0}

Undef == -1          \* process.exitCode undefined; process.exit with no argument
NotYet == -2         \* a promise not settled
Rejected == -3       \* the run's promise rejected, with the failure of its teardown
Killed == 143        \* 128 + SIGTERM
Or0(code) == IF code = Undef THEN 0 ELSE code

VARIABLES
  named,               \* the run is a registered process: its loop's references are known
  held,                \* its caller holds it, under a signal
  phase,               \* where the launcher is
  stack, raise,
  exitCalled, emittingExit, exitEnded, drainedExit, fatalExit, silentExit, nestedEnd,
  exitCode,            \* the launcher's exitCode
  progExit,            \* process.exitCode
  exiting,             \* process._exiting
  terminating,         \* a signal's default action ends the process
  syncExecution,
  settled,             \* exitPromise
  status,              \* what the run is reported with
  settling,            \* the entry returned a promise still pending
  aborted,             \* the caller's signal
  printed,             \* the program has written
  work, micro, closing,
  fuel,
  chosen,              \* history: the program set a status or called process.exit
  fatal                \* history: an error nobody handled, before process.exit was called or
                       \* after the loop drained, or one the handler threw

exitVars == <<exitCalled, emittingExit, exitEnded, drainedExit, fatalExit, silentExit,
              nestedEnd, exitCode, progExit, exiting, terminating, settled>>
runVars == <<status, settling, aborted, printed>>
loopVars == <<work, micro, closing>>
vars == <<named, held, phase, stack, raise, exitVars, syncExecution, runVars, loopVars, fuel,
          chosen, fatal>>

\* `sync`: what syncExecution goes back to after an exit the engine called.
Frame(kind, sync) == [kind |-> kind, sync |-> sync]

Top == stack[Len(stack)]
Under == SubSeq(stack, 1, Len(stack) - 1)
Loop == stack = <<>>
Fixed == UNCHANGED <<named, held>>

Init ==
  /\ named \in BOOLEAN /\ held \in BOOLEAN
  /\ phase = "entry" /\ stack = <<Frame("entry", FALSE)>> /\ raise = "none"
  /\ exitCalled = FALSE /\ emittingExit = FALSE /\ exitEnded = FALSE /\ drainedExit = FALSE
  /\ fatalExit = FALSE /\ silentExit = FALSE /\ nestedEnd = FALSE
  /\ exitCode = 0 /\ progExit = Undef /\ exiting = FALSE /\ terminating = FALSE
  /\ syncExecution = TRUE /\ settled = NotYet /\ status = NotYet
  /\ settling = FALSE /\ aborted = FALSE /\ printed = FALSE
  /\ work = 0 /\ micro = 0 /\ closing = FALSE /\ fuel = Fuel
  /\ chosen = FALSE /\ fatal = FALSE

----------------------------------------------------------------------------
(* process.exit                                                             *)

\* The finally of proc.exit's emission: the process has ended, with `code` unless a
\* nested exit ended it, and exitPromise is settled; what it holds is closed.
FinishExit(prog, code) ==
  LET last == IF nestedEnd THEN code ELSE Or0(prog)
  IN  /\ emittingExit' = FALSE
      /\ exitEnded' = TRUE
      /\ exitCode' = last
      /\ settled' = IF settled = NotYet THEN last ELSE settled
      /\ closing' = named

\* process.exit after it was called, or after the loop drained: the status is taken
\* and the process ends, unless it had.
ExitAgain(prog, code) ==
  /\ exitCalled
  /\ progExit' = prog
  /\ exitCode' = IF exitEnded THEN exitCode ELSE code
  /\ exitEnded' = TRUE
  /\ nestedEnd' = (nestedEnd \/ ~exitEnded)
  /\ raise' = IF (~exitEnded /\ emittingExit) \/ syncExecution THEN "stop" ELSE "none"
  /\ closing' = (closing \/ (named /\ (exitEnded \/ ~emittingExit)))
  /\ UNCHANGED <<stack, exitCalled, emittingExit, drainedExit, fatalExit, silentExit, exiting,
                 terminating, settled, syncExecution>>

\* process.exit the first time: `exit` is emitted, unless the process was exiting,
\* its own handler threw or a signal ends it.  `below` is the stack the listeners run on.
ExitFirst(prog, code, silent, dying, below, sync, engine) ==
  /\ ~exitCalled
  /\ exitCalled' = TRUE /\ progExit' = prog
  /\ exiting' = TRUE
  /\ IF ~silent /\ ~exiting /\ ~dying
     THEN /\ stack' = Append(below, Frame("exitEmit", sync))
          /\ emittingExit' = TRUE /\ exitCode' = code
          /\ syncExecution' = (sync /\ ~engine)
          /\ raise' = "none"
          /\ UNCHANGED <<exitEnded, settled, closing>>
     ELSE /\ FinishExit(prog, code)
          /\ stack' = below
          /\ raise' = IF sync /\ ~engine THEN "stop" ELSE "none"
          /\ syncExecution' = sync
  /\ UNCHANGED <<drainedExit, nestedEnd>>

\* Guest code calls process.exit.
CallExit(given) ==
  LET prog == IF given = Undef \/ exitEnded THEN progExit ELSE given
  IN  \/ ExitAgain(prog, Or0(prog))
      \/ /\ Len(stack) < MaxStack
         /\ ExitFirst(prog, Or0(prog), silentExit, terminating, stack, syncExecution, FALSE)
         /\ UNCHANGED <<fatalExit, silentExit, terminating>>

----------------------------------------------------------------------------
(* Uncaught exceptions                                                      *)

\* The program's listener or capture callback takes it.
Handled(below, sync) ==
  /\ Len(below) < MaxStack
  /\ stack' = Append(below, Frame("handler", FALSE))
  /\ raise' = "none"
  /\ syncExecution' = sync
  /\ UNCHANGED <<exitVars, closing, fatal>>

\* Nobody does: printed, and the process exits 1, or with the status it had been
\* given when it was exiting already.  Once exit was called only a drained
\* process's status is changed by it.
Unhandled(below, sync) ==
  /\ fatal' = (fatal \/ (~exitEnded /\ (~exitCalled \/ drainedExit)))
  /\ IF exitCalled
     THEN /\ exitCode' = IF drainedExit /\ ~exitEnded /\ progExit = Undef THEN 1 ELSE exitCode
          /\ stack' = below /\ raise' = "none" /\ syncExecution' = sync
          /\ UNCHANGED <<exitCalled, emittingExit, exitEnded, drainedExit, fatalExit,
                         silentExit, nestedEnd, progExit, exiting, terminating, settled,
                         closing>>
     ELSE LET code == IF exiting /\ progExit # Undef THEN progExit ELSE 1
              prog == IF exitEnded THEN progExit ELSE code
          IN  /\ silentExit' = (silentExit \/ exiting)
              /\ fatalExit' = (fatalExit \/ ~exiting)
              /\ ExitFirst(prog, Or0(prog), silentExit', terminating, below, sync, TRUE)
              /\ UNCHANGED terminating

Uncaught(below, sync) == Handled(below, sync) \/ Unhandled(below, sync)

\* A throw out of the program's own handler: printed, and it exits 7 with no `exit`.
HandlerThrew ==
  /\ fatal' = (fatal \/ ~exitEnded)
  /\ IF exitCalled
     THEN /\ exitCode' = IF exitEnded THEN exitCode ELSE 7
          /\ progExit' = IF exitEnded THEN progExit ELSE 7
          /\ exitEnded' = TRUE
          /\ stack' = Under /\ raise' = "none"
          /\ UNCHANGED <<exitCalled, emittingExit, drainedExit, fatalExit, silentExit,
                         nestedEnd, exiting, terminating, settled, syncExecution, closing>>
     ELSE LET prog == IF exitEnded THEN progExit ELSE 7
          IN  /\ silentExit' = TRUE
              /\ ExitFirst(prog, Or0(prog), TRUE, terminating, Under, syncExecution, TRUE)
              /\ UNCHANGED <<fatalExit, terminating>>

----------------------------------------------------------------------------
(* What guest code does                                                     *)

Running == stack # <<>> /\ raise = "none"
Quiet == UNCHANGED <<phase, runVars, micro, work, fuel, chosen>>

Burn == Running /\ fuel > 0 /\ fuel' = fuel - 1

\* appendStdout and appendStderr: a process that has ended writes nothing.
AppendOutput ==
  /\ Burn
  /\ printed' = (printed \/ ~exitEnded)
  /\ UNCHANGED <<phase, stack, raise, exitVars, syncExecution, status, settling, aborted,
                 loopVars, chosen, fatal>>

SetExitCode(code) ==
  /\ Burn
  /\ progExit' = code /\ chosen' = TRUE
  /\ UNCHANGED <<phase, stack, raise, exitCalled, emittingExit, exitEnded, drainedExit,
                 fatalExit, silentExit, nestedEnd, exitCode, exiting, terminating, settled,
                 syncExecution, runVars, loopVars, fatal>>

Start ==
  /\ Burn
  /\ \/ work < MaxWork /\ work' = work + 1 /\ UNCHANGED micro
     \/ micro < MaxMicro /\ micro' = micro + 1 /\ UNCHANGED work
  /\ UNCHANGED <<phase, stack, raise, exitVars, syncExecution, runVars, closing, chosen, fatal>>

Exit(given) ==
  /\ Burn
  /\ CallExit(given)
  /\ chosen' = TRUE
  /\ UNCHANGED <<phase, runVars, work, micro, fatal>>

\* process.kill of its own pid: its handler, or the default action.
Signal ==
  /\ Burn /\ ~exitEnded
  /\ \/ /\ Len(stack) < MaxStack
        /\ stack' = Append(stack, Frame("signal", FALSE))
        /\ UNCHANGED <<raise, exitVars, syncExecution, closing, chosen>>
     \/ /\ terminating' = TRUE /\ chosen' = TRUE
        /\ \/ ExitAgain(Killed, Killed)
           \/ /\ ExitFirst(Killed, Killed, silentExit, TRUE, stack, syncExecution, FALSE)
              /\ UNCHANGED <<fatalExit, silentExit>>
  /\ UNCHANGED <<phase, runVars, work, micro, fatal>>

Throw ==
  /\ Burn
  /\ raise' = "error"
  /\ UNCHANGED <<phase, stack, exitVars, syncExecution, runVars, loopVars, chosen, fatal>>

\* The program catches what is on its way, the stop included.
Catch ==
  /\ stack # <<>> /\ raise # "none" /\ fuel > 0 /\ fuel' = fuel - 1
  /\ raise' = "none"
  /\ UNCHANGED <<phase, stack, exitVars, syncExecution, runVars, loopVars, chosen, fatal>>

----------------------------------------------------------------------------
(* Leaving a frame                                                          *)

\* The listeners proc.exit called are done.
LeaveExitEmit ==
  /\ Top.kind = "exitEmit"
  /\ IF raise = "error" /\ ~fatalExit /\ ~terminating
     THEN \* the throw leaves process.exit: the process runs on, still exiting
          /\ emittingExit' = FALSE /\ exitCalled' = FALSE
          /\ stack' = Under /\ raise' = "error"
          /\ syncExecution' = Top.sync
          /\ UNCHANGED <<exitEnded, drainedExit, fatalExit, silentExit, nestedEnd, exitCode,
                         progExit, exiting, terminating, settled, closing>>
     ELSE /\ FinishExit(progExit, exitCode)
          /\ stack' = Under
          /\ raise' = IF syncExecution THEN "stop" ELSE "none"
          /\ syncExecution' = Top.sync
          /\ UNCHANGED <<exitCalled, drainedExit, fatalExit, silentExit, nestedEnd, progExit,
                         exiting, terminating>>
  /\ Quiet /\ UNCHANGED fatal

\* Any other frame, left without an error of the program's.
LeaveQuietly ==
  /\ Top.kind # "exitEmit" /\ raise # "error"
  /\ stack' = Under
  \* out of a signal's handler the stop goes on to its caller; elsewhere it stops there
  /\ raise' = IF Top.kind = "signal" THEN raise ELSE "none"
  /\ phase' = IF Top.kind = "entry" /\ raise = "stop" THEN "await" ELSE phase
  /\ syncExecution' = IF Top.kind = "entry" THEN FALSE ELSE syncExecution
  /\ settling' \in IF Top.kind = "entry" /\ raise = "none" THEN BOOLEAN ELSE {settling}
  /\ UNCHANGED <<exitVars, status, aborted, printed, loopVars, fuel, chosen, fatal>>

\* Left with one: the process's uncaught exception, or its handler's.  After the run
\* has returned its reports are detached, and the realm's own take it.
LeaveThrowing ==
  /\ Top.kind # "exitEmit" /\ raise = "error"
  /\ \/ /\ phase = "returned"
        /\ stack' = Under /\ raise' = "none"
        /\ UNCHANGED <<exitVars, syncExecution, closing, fatal, phase>>
     \/ /\ phase # "returned" /\ Top.kind = "handler"
        /\ HandlerThrew /\ UNCHANGED phase
     \/ /\ phase # "returned" /\ Top.kind \in {"entry", "turn", "signal", "drainEmit", "before"}
        /\ Uncaught(Under, Top.kind # "entry" /\ syncExecution)
        /\ phase' = IF Top.kind = "before" THEN "look" ELSE phase
  /\ UNCHANGED <<runVars, micro, work, fuel, chosen>>

Leave == Fixed /\ stack # <<>> /\ (LeaveExitEmit \/ LeaveQuietly \/ LeaveThrowing)

----------------------------------------------------------------------------
(* The loop                                                                 *)

\* The places where the launcher awaits something; between them it goes on at once.
Awaiting == Loop /\ phase \in {"settling", "settle", "check", "again", "wait", "ending", "await",
                              "teardown", "returned"}

\* A callback of the program's work, its microtasks run first, a microtask, or a continuation that
\* nothing referenced (a promise of the host's).
Turn ==
  /\ Awaiting /\ Fixed
  /\ \/ micro = 0 /\ work > 0 /\ work' \in {work - 1, work} /\ UNCHANGED <<micro, fuel>>
     \/ micro > 0 /\ micro' = micro - 1 /\ UNCHANGED <<work, fuel>>
     \/ fuel > 0 /\ fuel' = fuel - 1 /\ UNCHANGED <<work, micro>>
  /\ stack' = <<Frame("turn", FALSE)>>
  /\ UNCHANGED <<phase, raise, exitVars, syncExecution, runVars, closing, chosen, fatal>>

\* What an ended process held is closed.
CloseHandles ==
  /\ Awaiting /\ closing /\ work > 0 /\ work' = 0
  /\ UNCHANGED <<phase, stack, raise, exitVars, syncExecution, runVars, micro, closing, fuel,
                 chosen, fatal>>

Abort ==
  /\ Awaiting /\ ~aborted /\ aborted' = TRUE
  /\ UNCHANGED <<phase, stack, raise, exitVars, syncExecution, status, settling, printed,
                 loopVars, fuel, chosen, fatal>>

----------------------------------------------------------------------------
(* The launcher                                                             *)

\* The launcher goes from one place to another, and changes nothing else.
Go(from, to) ==
  /\ Loop /\ phase = from /\ phase' = to
  /\ UNCHANGED <<stack, raise, exitVars, syncExecution, runVars, loopVars, fuel, chosen, fatal>>

\* The run's answer: what it held is closed first, and a registered one awaits that
\* (__endOwnedProcess).
Answer(from, code) ==
  /\ Loop /\ phase = from /\ phase' = IF named THEN "teardown" ELSE "returned"
  /\ status' = code
  /\ closing' = TRUE
  /\ UNCHANGED <<stack, raise, exitVars, syncExecution, settling, aborted, printed, work, micro,
                 fuel, chosen, fatal>>

Entered ==
  \/ (exitCalled /\ Go("entry", "await"))
  \/ (~exitCalled /\ settling /\ Go("entry", "settling"))
  \/ (~exitCalled /\ ~settling /\ Go("entry", "early"))

\* Mutant of Settling: the wait is not raced with the program's exit.
SettlingUnraced ==
  \/ (~exitCalled /\ Go("settling", "early"))
  \/ (~exitCalled /\ Answer("settling", 1))

\* A top-level await: it settles, fails, or the program exits meanwhile.
Settling ==
  \/ (~exitCalled /\ Go("settling", "early"))
  \/ (~exitCalled /\ Answer("settling", 1))
  \/ (settled # NotYet /\ Go("settling", "await"))

\* A held or unregistered program that printed and holds nothing is done, once its
\* microtasks have run.
Early ==
  \/ ((held \/ ~named) /\ printed /\ work = 0 /\ Go("early", "settle"))
  \/ (~((held \/ ~named) /\ printed /\ work = 0) /\ Go("early", "look"))
  \/ (micro = 0 /\ exitCalled /\ Go("settle", "await"))
  \/ (micro = 0 /\ ~exitCalled /\ (held \/ work = 0) /\ Answer("settle", Or0(progExit)))
  \/ (micro = 0 /\ ~exitCalled /\ ~held /\ work > 0 /\ Go("settle", "look"))

\* One look of the wait: a registered run whose references are gone goes on to its
\* checkpoint; any other waits.
Look ==
  \/ ((exitCalled \/ aborted) /\ Go("look", "over"))
  \/ (~exitCalled /\ ~aborted /\ named /\ ~held /\ work = 0 /\ Go("look", "check"))
  \/ (~exitCalled /\ ~aborted /\ ~(named /\ ~held /\ work = 0) /\ Go("look", "wait"))

\* beforeExit, once the microtasks have run and there still is nothing.
EmitBeforeExit ==
  /\ Loop /\ phase = "check" /\ micro = 0
  /\ ~exitCalled /\ ~aborted /\ work = 0
  /\ phase' = "before"
  /\ stack' = <<Frame("before", FALSE)>>
  /\ UNCHANGED <<raise, exitVars, syncExecution, runVars, loopVars, fuel, chosen, fatal>>

Check ==
  \/ (micro = 0 /\ (exitCalled \/ aborted) /\ Go("check", "over"))
  \/ (micro = 0 /\ ~exitCalled /\ ~aborted /\ work > 0 /\ Go("check", "wait"))
  \/ EmitBeforeExit
  \/ (exitCalled /\ Go("before", "over"))
  \/ (~exitCalled /\ Go("before", "again"))

\* Mutant of Again: the references are not looked at again after beforeExit.
AgainBlind == micro = 0 /\ Go("again", "over")

\* The second checkpoint, after beforeExit.
Again ==
  \/ (micro = 0 /\ (exitCalled \/ aborted \/ work = 0) /\ Go("again", "over"))
  \/ (micro = 0 /\ ~exitCalled /\ ~aborted /\ work > 0 /\ Go("again", "wait"))

\* The wait's tick, a task of its own, or the program's exit.  At the tick an unregistered
\* run ends at an empty look after it printed, or after its silence, and any run whose
\* references are gone by then ends where it is a minute old (MAX_TOTAL_MS).
Wait ==
  \/ ((exitCalled \/ aborted) /\ Go("wait", "over"))
  \/ (micro = 0 /\ ~exitCalled /\ ~aborted /\ ~held /\ work = 0 /\ Go("wait", "over"))
  \/ (micro = 0 /\ ~exitCalled /\ ~aborted /\ Go("wait", "look"))

\* The loop drained: `exit` is emitted, the run marked as exited first.
EmitDrained ==
  /\ Loop /\ phase = "over" /\ ~exitCalled /\ ~aborted
  /\ phase' = "draining"
  /\ exitCalled' = TRUE /\ drainedExit' = TRUE
  /\ exitCode' = Or0(progExit)
  /\ emittingExit' = TRUE /\ exiting' = TRUE
  /\ stack' = <<Frame("drainEmit", FALSE)>>
  /\ UNCHANGED <<raise, exitEnded, fatalExit, silentExit, nestedEnd, progExit, terminating,
                 settled, syncExecution, runVars, loopVars, fuel, chosen, fatal>>

\* Mutant of DrainedListenersDone: the status is the program's, whatever a listener's
\* exit or an exception made it.
DrainedStatusOfTheProgram ==
  /\ Loop /\ phase = "draining" /\ phase' = "ending"
  /\ emittingExit' = FALSE
  /\ exitCode' = Or0(progExit)
  /\ UNCHANGED <<stack, raise, exitCalled, exitEnded, drainedExit, fatalExit, silentExit,
                 nestedEnd, progExit, exiting, terminating, settled, syncExecution,
                 runVars, loopVars, fuel, chosen, fatal>>

DrainedListenersDone ==
  /\ Loop /\ phase = "draining" /\ phase' = "ending"
  /\ emittingExit' = FALSE
  /\ exitCode' = IF ~nestedEnd /\ progExit # Undef THEN progExit ELSE exitCode
  /\ UNCHANGED <<stack, raise, exitCalled, exitEnded, drainedExit, fatalExit, silentExit,
                 nestedEnd, progExit, exiting, terminating, settled, syncExecution,
                 runVars, loopVars, fuel, chosen, fatal>>

\* endExit: the listeners' microtasks have run.
EndExit ==
  /\ Loop /\ phase = "ending" /\ micro = 0 /\ phase' = "await"
  /\ exitEnded' = TRUE
  /\ settled' = exitCode
  /\ UNCHANGED <<stack, raise, exitCalled, emittingExit, drainedExit, fatalExit, silentExit,
                 nestedEnd, exitCode, progExit, exiting, terminating, syncExecution,
                 runVars, loopVars, fuel, chosen, fatal>>

Drain ==
  \/ EmitDrained \/ DrainedListenersDone \/ EndExit
  \/ (exitCalled /\ Go("over", "await"))
  \/ (~exitCalled /\ aborted /\ Answer("over", Or0(progExit)))

Return == settled # NotYet /\ Answer("await", settled)

\* The native teardown is done: the run is answered, or fails where that failed.
TornDown ==
  /\ Loop /\ phase = "teardown" /\ phase' = "returned"
  /\ status' \in {status, Rejected}
  /\ UNCHANGED <<stack, raise, exitVars, syncExecution, settling, aborted, printed, loopVars,
                 fuel, chosen, fatal>>

Launcher ==
  /\ Fixed
  /\ Entered \/ Settling \/ Early \/ Look \/ Check \/ Again \/ Wait \/ Drain \/ Return
     \/ TornDown

Guest ==
  \/ AppendOutput \/ Start \/ Signal \/ Throw \/ Catch
  \/ \E code \in Statuses \cup {Undef} : SetExitCode(code) \/ Exit(code)

Next ==
  /\ Guest \/ Leave \/ Turn \/ CloseHandles \/ Abort \/ Launcher
  /\ Fixed

Spec == Init /\ [][Next]_vars

\* Guest code returns and microtasks run.  The launcher's own continuations wait in
\* the realm's queues behind a finite number of others, so a callback that keeps
\* coming does not keep them from running: strong fairness.
Fairness ==
  /\ WF_vars(Leave) /\ SF_vars(Launcher)
  /\ WF_vars(Turn /\ micro' < micro)

FairSpec == Spec /\ Fairness
----------------------------------------------------------------------------
(* Properties                                                               *)

\* A run that dies of an error nobody handled does not report success, unless the
\* program set its status or called process.exit itself.
FatalIsNotSuccess == settled = 0 /\ fatal => chosen

\* A run that ends by itself cuts nothing: at its end no reference is open and no microtask
\* waits that could open one, beforeExit's own and the last checkpoint's included, whether
\* its references say so, its silence, or the minute it has run.  A run its caller holds is
\* its caller's to end, and one answered early, for having printed, holds nothing.
EndCutsNothing ==
  [][LET drains == drainedExit' /\ ~drainedExit
     IN  /\ drains => ~held /\ work = 0 /\ micro = 0
         /\ ~held /\ phase = "settle" /\ phase' \in {"teardown", "returned"} => work = 0]_vars

\* Every run is answered.  One whose program exited: no order of nested exits, throwing
\* listeners, handlers and signals leaves an exit called and the run waiting for it.  And
\* a registered one that nobody holds, whose work is over and whose top-level await
\* settles.
EveryRunReturns ==
  /\ Loop /\ exitCalled ~> phase = "returned"
  /\ named /\ ~held /\ <>[](work = 0 /\ micro = 0) => <>(phase = "returned")
================================================================================
