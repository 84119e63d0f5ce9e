----------------------------- MODULE NodeRunProofs -----------------------------
(****************************************************************************)
(* What is proved of a run of the engine's Node: a fatal error is not reported *)
(* as a success nobody asked for, and a run that ends by itself cuts nothing.  *)
(****************************************************************************)
EXTENDS NodeRun, TLAPS

----------------------------------------------------------------------------
(* The stack                                                                *)

Kinds == {"entry", "turn", "signal", "handler", "before", "drainEmit", "exitEmit"}
Frames == [kind : Kinds, sync : BOOLEAN]

\* No process.exit is emitting in s.
Clear(s) == \A k \in 1 .. Len(s) : s[k].kind # "exitEmit"

StackType == stack \in Seq(Frames) /\ syncExecution \in BOOLEAN

\* What is under the last m frames gone.
LEMMA CutIs ==
  ASSUME NEW S, NEW s \in Seq(S), NEW m \in 0 .. Len(s)
  PROVE  /\ SubSeq(s, 1, m) \in Seq(S) /\ Len(SubSeq(s, 1, m)) = m
         /\ \A k \in 1 .. m : SubSeq(s, 1, m)[k] = s[k]
  OBVIOUS

\* A frame left: what was under it is as it was.
LEMMA Pop ==
  ASSUME StackType, stack # <<>>
  PROVE  /\ Under \in Seq(Frames)
         /\ Clear(stack) => Clear(Under)
         /\ Top \in Frames
         /\ Clear(stack) => Top.kind # "exitEmit"
  <1>1. stack \in Seq(Frames) /\ Len(stack) \in Nat \ {0}
    BY DEF StackType
  <1>2. Len(stack) - 1 \in 0 .. Len(stack)
    BY <1>1
  <1>3. /\ Under \in Seq(Frames) /\ Len(Under) = Len(stack) - 1
        /\ \A k \in 1 .. Len(stack) - 1 : Under[k] = stack[k]
    BY <1>1, <1>2, CutIs DEF Under
  <1>4. Top \in Frames /\ (Clear(stack) => Top.kind # "exitEmit")
    BY <1>1 DEF Top, Clear
  <1>5. Clear(stack) => Clear(Under)
    BY <1>1, <1>3 DEF Clear
  <1> QED
    BY <1>3, <1>4, <1>5

\* Guest code entered.
LEMMA Push ==
  ASSUME NEW s \in Seq(Frames), NEW kind \in Kinds, NEW sync \in BOOLEAN
  PROVE  /\ Append(s, Frame(kind, sync)) \in Seq(Frames)
         /\ <<Frame(kind, sync)>> \in Seq(Frames)
         /\ kind # "exitEmit" => Clear(<<Frame(kind, sync)>>)
         /\ kind # "exitEmit" /\ Clear(s) => Clear(Append(s, Frame(kind, sync)))
  <1>1. Frame(kind, sync) \in Frames /\ Frame(kind, sync).kind = kind
    BY DEF Frame, Frames
  <1> DEFINE f == Frame(kind, sync)
  <1> HIDE DEF f
  <1>2. Append(s, f) \in Seq(Frames) /\ Len(Append(s, f)) = Len(s) + 1 /\ Len(s) \in Nat
    BY <1>1 DEF f
  <1>3. \A k \in 1 .. Len(s) + 1 : Append(s, f)[k] = IF k = Len(s) + 1 THEN f ELSE s[k]
    BY <1>1 DEF f
  <1>4. <<f>> \in Seq(Frames) /\ Len(<<f>>) = 1 /\ <<f>>[1] = f
    BY <1>1 DEF f
  <1>5. kind # "exitEmit" => Clear(<<f>>)
    BY <1>1, <1>4 DEF Clear, f
  <1>6. kind # "exitEmit" /\ Clear(s) => Clear(Append(s, f))
    BY <1>1, <1>2, <1>3 DEF Clear, f
  <1> QED
    BY <1>2, <1>4, <1>5, <1>6 DEF f

----------------------------------------------------------------------------
(* The status                                                               *)

\* The process has ended once its promise is settled, and a drained run is one
\* that exited: no listener of a process.exit is under it, whose throw would undo it.
Ended ==
  /\ settled # NotYet => exitEnded
  /\ drainedExit => /\ exitCalled
                    /\ Clear(stack)
  /\ phase \in {"draining", "ending"} => drainedExit

\* As long as the program chose no status, the only ones are the engine's, 1 and 7;
\* and after a fatal error there is one, process.exitCode or, for a drained run, the
\* launcher's own, which is what the run will be settled with.
Unchosen ==
  ~chosen =>
    /\ ~nestedEnd
    /\ progExit \in {Undef, 1, 7}
    /\ fatal => \/ progExit # Undef
                \/ drainedExit /\ exitCode = 1
    /\ phase = "ending" /\ progExit # Undef => exitCode = progExit
    /\ fatal => settled # 0

StatusInv == StackType /\ Ended /\ Unchosen

\* Nothing of an exit changes: what the stack and the launcher do besides is all that
\* has to be looked at.
LEMMA NoExit ==
  ASSUME StatusInv, UNCHANGED <<exitVars, chosen, fatal>>, StackType',
         Clear(stack) => Clear(stack'),
         phase' \in {"draining", "ending"} => phase' = phase
  PROVE  StatusInv'
  <1>1. Ended'
    BY DEF StatusInv, Ended, exitVars
  <1>2. Unchosen'
    BY DEF StatusInv, Unchosen, exitVars
  <1> QED
    BY <1>1, <1>2 DEF StatusInv

\* process.exit again, which only the program or a signal does.
LEMMA AgainStatus ==
  ASSUME StatusInv, NEW prog, NEW code, ExitAgain(prog, code), chosen' = TRUE,
         UNCHANGED phase
  PROVE  StatusInv'
  <1>1. StackType'
    BY DEF StatusInv, StackType, ExitAgain
  <1>2. Ended'
    BY DEF StatusInv, Ended, ExitAgain
  <1>3. Unchosen'
    BY DEF Unchosen
  <1> QED
    BY <1>1, <1>2, <1>3 DEF StatusInv

\* process.exit the first time: the run has not drained.  Where nothing was chosen it is
\* the engine's own, with a status of its own unless the process had ended.
LEMMA FirstStatus ==
  ASSUME StatusInv, NEW prog, NEW code, NEW silent, NEW dying,
         NEW below \in Seq(Frames), NEW sync \in BOOLEAN, NEW engine \in BOOLEAN,
         ExitFirst(prog, code, silent, dying, below, sync, engine),
         phase' \in {"draining", "ending"} => phase' = phase,
         ~chosen' => ~chosen /\ prog \in {Undef, 1, 7} /\ (fatal' => prog # Undef),
         fatal' => fatal \/ ~exitEnded
  PROVE  StatusInv'
  <1>1. ~exitCalled /\ exitCalled' = TRUE /\ progExit' = prog
        /\ UNCHANGED <<drainedExit, nestedEnd>>
    BY DEF ExitFirst
  <1>2. ~drainedExit /\ phase' \notin {"draining", "ending"}
    BY <1>1 DEF StatusInv, Ended
  <1>3. CASE ~silent /\ ~exiting /\ ~dying
    <2>1. /\ stack' = Append(below, Frame("exitEmit", sync)) /\ syncExecution' = (sync /\ ~engine)
          /\ UNCHANGED <<exitEnded, settled>>
      BY <1>3 DEF ExitFirst
    <2>2. StackType'
      <3>1. \A kind \in Kinds : Append(below, Frame(kind, sync)) \in Seq(Frames)
        BY Push
      <3>2. stack' \in Seq(Frames)
        BY <2>1, <3>1 DEF Kinds
      <3>3. syncExecution' \in BOOLEAN
        BY <2>1, Zenon
      <3> QED
        BY <3>2, <3>3 DEF StackType
    <2>3. Ended'
      BY <1>1, <1>2, <2>1 DEF StatusInv, Ended
    <2>4. Unchosen'
      BY <1>1, <1>2, <2>1 DEF StatusInv, Ended, Unchosen, NotYet, Undef
    <2> QED
      BY <2>2, <2>3, <2>4 DEF StatusInv
  <1>4. CASE ~(~silent /\ ~exiting /\ ~dying)
    <2>1. FinishExit(prog, code) /\ stack' = below /\ syncExecution' = sync
      BY <1>4 DEF ExitFirst
    <2>2. StackType'
      BY <2>1 DEF StackType
    <2>3. Ended'
      BY <1>1, <1>2, <2>1 DEF StatusInv, Ended, FinishExit
    <2>4. Unchosen'
      BY <1>1, <1>2, <2>1 DEF StatusInv, Ended, Unchosen, FinishExit, NotYet, Undef, Or0
    <2> QED
      BY <2>2, <2>3, <2>4 DEF StatusInv
  <1> QED
    BY <1>3, <1>4

\* An uncaught exception, out of a frame or of a turn.
LEMMA UncaughtStatus ==
  ASSUME StatusInv, NEW below \in Seq(Frames), Clear(stack) => Clear(below),
         NEW sync \in BOOLEAN, Uncaught(below, sync), UNCHANGED chosen,
         phase' \in {"draining", "ending"} => phase' = phase
  PROVE  StatusInv'
  <1>1. CASE Handled(below, sync)
    <2>1. /\ stack' = Append(below, Frame("handler", FALSE)) /\ syncExecution' = sync
          /\ UNCHANGED <<exitVars, fatal>>
      BY <1>1 DEF Handled
    <2>2. /\ Append(below, Frame("handler", FALSE)) \in Seq(Frames)
          /\ Clear(below) => Clear(Append(below, Frame("handler", FALSE)))
      BY Push DEF Kinds
    <2>3. StackType' /\ (Clear(stack) => Clear(stack'))
      BY <2>1, <2>2 DEF StackType
    <2> QED
      BY <2>1, <2>3, NoExit
  <1>2. CASE Unhandled(below, sync) /\ exitCalled
    <2>1. /\ exitCode' = IF drainedExit /\ ~exitEnded /\ progExit = Undef THEN 1 ELSE exitCode
          /\ stack' = below /\ syncExecution' = sync
          /\ fatal' => fatal \/ (~exitEnded /\ drainedExit)
          /\ UNCHANGED <<exitCalled, exitEnded, drainedExit, nestedEnd, progExit, settled>>
      BY <1>2 DEF Unhandled
    <2>2. StackType'
      BY <2>1 DEF StackType
    <2>3. Ended'
      BY <2>1 DEF StatusInv, Ended
    <2>4. Unchosen'
      BY <2>1 DEF StatusInv, Ended, Unchosen, NotYet, Undef
    <2> QED
      BY <2>2, <2>3, <2>4 DEF StatusInv
  <1>3. CASE Unhandled(below, sync) /\ ~exitCalled
    <2> DEFINE code == IF exiting /\ progExit # Undef THEN progExit ELSE 1
               prog == IF exitEnded THEN progExit ELSE code
    <2>1. /\ ExitFirst(prog, Or0(prog), silentExit', terminating, below, sync, TRUE)
          /\ fatal' => fatal \/ ~exitEnded
      BY <1>3 DEF Unhandled
    <2>2. ~drainedExit
      BY <1>3 DEF StatusInv, Ended
    <2>3. ~chosen' => ~chosen /\ prog \in {Undef, 1, 7} /\ (fatal' => prog # Undef)
      BY <2>1, <2>2 DEF StatusInv, Unchosen, Undef
    <2> HIDE DEF prog
    <2> QED
      BY <2>1, <2>3, FirstStatus
  <1> QED
    BY <1>1, <1>2, <1>3 DEF Uncaught

\* A throw out of the handler: 7, unless the process had ended.
LEMMA HandlerStatus ==
  ASSUME StatusInv, stack # <<>>, HandlerThrew, UNCHANGED <<chosen, phase>>
  PROVE  StatusInv'
  <1>1. Under \in Seq(Frames) /\ (Clear(stack) => Clear(Under)) /\ syncExecution \in BOOLEAN
    BY Pop DEF StatusInv, StackType
  <1>2. CASE exitCalled
    <2>1. /\ fatal' => fatal \/ ~exitEnded
          /\ exitCode' = IF exitEnded THEN exitCode ELSE 7
          /\ progExit' = IF exitEnded THEN progExit ELSE 7
          /\ exitEnded' = TRUE /\ stack' = Under
          /\ UNCHANGED <<exitCalled, drainedExit, nestedEnd, settled, syncExecution>>
      BY <1>2 DEF HandlerThrew
    <2>2. StackType'
      BY <1>1, <2>1 DEF StackType
    <2>3. Ended'
      BY <1>1, <2>1 DEF StatusInv, Ended
    <2>4. Unchosen'
      BY <2>1 DEF StatusInv, Ended, Unchosen, NotYet, Undef
    <2> QED
      BY <2>2, <2>3, <2>4 DEF StatusInv
  <1>3. CASE ~exitCalled
    <2> DEFINE prog == IF exitEnded THEN progExit ELSE 7
    <2>1. /\ ExitFirst(prog, Or0(prog), TRUE, terminating, Under, syncExecution, TRUE)
          /\ fatal' => fatal \/ ~exitEnded
      BY <1>3 DEF HandlerThrew
    <2>2. ~drainedExit
      BY <1>3 DEF StatusInv, Ended
    <2>3. ~chosen' => ~chosen /\ prog \in {Undef, 1, 7} /\ (fatal' => prog # Undef)
      BY <2>1, <2>2 DEF StatusInv, Unchosen, Undef
    <2> HIDE DEF prog
    <2> QED
      BY <1>1, <2>1, <2>3, FirstStatus
  <1> QED
    BY <1>2, <1>3

\* What guest code does.
LEMMA GuestStatus ==
  ASSUME StatusInv, Guest
  PROVE  StatusInv'
  <1>0. stack \in Seq(Frames) /\ syncExecution \in BOOLEAN
    BY DEF StatusInv, StackType
  <1>1. CASE AppendOutput \/ Start \/ Throw \/ Catch
    <2>1. UNCHANGED <<exitVars, chosen, fatal, stack, syncExecution, phase>>
      BY <1>1 DEF AppendOutput, Start, Throw, Catch
    <2> QED
      BY <1>0, <2>1, NoExit DEF StackType
  <1>2. CASE Signal
    <2>1. CASE stack' = Append(stack, Frame("signal", FALSE))
               /\ UNCHANGED <<raise, exitVars, syncExecution, closing, chosen>>
      <3>1. /\ Append(stack, Frame("signal", FALSE)) \in Seq(Frames)
            /\ Clear(stack) => Clear(Append(stack, Frame("signal", FALSE)))
        BY <1>0, Push DEF Kinds
      <3>2. StackType' /\ UNCHANGED <<fatal, phase>>
        BY <1>0, <1>2, <2>1, <3>1 DEF StackType, Signal
      <3> QED
        BY <2>1, <3>1, <3>2, NoExit
    <2>2. CASE chosen' = TRUE /\ ExitAgain(Killed, Killed)
      BY <1>2, <2>2, AgainStatus DEF Signal
    <2>3. CASE chosen' = TRUE
               /\ ExitFirst(Killed, Killed, silentExit, TRUE, stack, syncExecution, FALSE)
      <3>1. UNCHANGED <<fatal, phase>>
        BY <1>2 DEF Signal
      <3> QED
        BY <1>0, <2>3, <3>1, FirstStatus
    <2> QED
      BY <1>2, <2>1, <2>2, <2>3 DEF Signal
  <1>3. ASSUME NEW code \in Statuses \cup {Undef}, SetExitCode(code)
        PROVE  StatusInv'
    <2>1. /\ chosen' = TRUE
          /\ UNCHANGED <<phase, stack, exitCalled, exitEnded, drainedExit, settled, syncExecution>>
      BY <1>3 DEF SetExitCode
    <2>2. StackType' /\ Ended'
      BY <2>1 DEF StatusInv, StackType, Ended
    <2> QED
      BY <2>1, <2>2 DEF StatusInv, Unchosen
  <1>4. ASSUME NEW given \in Statuses \cup {Undef}, Exit(given)
        PROVE  StatusInv'
    <2> DEFINE prog == IF given = Undef \/ exitEnded THEN progExit ELSE given
    <2>1. CallExit(given) /\ chosen' = TRUE /\ UNCHANGED <<phase, fatal>>
      BY <1>4 DEF Exit
    <2>2. \/ ExitAgain(prog, Or0(prog))
          \/ ExitFirst(prog, Or0(prog), silentExit, terminating, stack, syncExecution, FALSE)
      BY <2>1 DEF CallExit
    <2> HIDE DEF prog
    <2> QED
      BY <1>0, <2>1, <2>2, AgainStatus, FirstStatus
  <1> QED
    BY <1>1, <1>2, <1>3, <1>4 DEF Guest

\* A frame is left.
LEMMA LeaveStatus ==
  ASSUME StatusInv, Leave
  PROVE  StatusInv'
  <1>1. /\ stack # <<>> /\ StackType
        /\ Under \in Seq(Frames) /\ (Clear(stack) => Clear(Under))
        /\ Top \in Frames /\ (Clear(stack) => Top.kind # "exitEmit")
    BY Pop DEF Leave, StatusInv
  <1>2. Top.sync \in BOOLEAN /\ syncExecution \in BOOLEAN
    BY <1>1 DEF Frames, StackType
  <1>3. CASE LeaveExitEmit
    <2>1. ~drainedExit /\ stack' = Under /\ syncExecution' = Top.sync
          /\ UNCHANGED <<phase, chosen, fatal, drainedExit, nestedEnd, progExit>>
      BY <1>1, <1>3 DEF LeaveExitEmit, StatusInv, Ended, Quiet
    <2>2. StackType'
      BY <1>1, <1>2, <2>1 DEF StackType
    <2>3. CASE raise = "error" /\ ~fatalExit /\ ~terminating
      <3>1. UNCHANGED <<exitEnded, settled>>
        BY <1>3, <2>3 DEF LeaveExitEmit
      <3>2. Ended'
        BY <2>1, <3>1 DEF StatusInv, Ended
      <3>3. Unchosen'
        BY <2>1, <3>1 DEF StatusInv, Ended, Unchosen
      <3> QED
        BY <2>2, <3>2, <3>3 DEF StatusInv
    <2>4. CASE ~(raise = "error" /\ ~fatalExit /\ ~terminating)
      <3>1. FinishExit(progExit, exitCode)
        BY <1>3, <2>4 DEF LeaveExitEmit
      <3>2. Ended'
        BY <2>1, <3>1 DEF StatusInv, Ended, FinishExit
      <3>3. Unchosen'
        BY <2>1, <3>1 DEF StatusInv, Ended, Unchosen, FinishExit, Or0, Undef, NotYet
      <3> QED
        BY <2>2, <3>2, <3>3 DEF StatusInv
    <2> QED
      BY <2>3, <2>4
  <1>4. CASE LeaveQuietly
    <2>1. /\ stack' = Under /\ UNCHANGED <<exitVars, chosen, fatal>>
          /\ phase' = IF Top.kind = "entry" /\ raise = "stop" THEN "await" ELSE phase
          /\ syncExecution' = IF Top.kind = "entry" THEN FALSE ELSE syncExecution
      BY <1>4 DEF LeaveQuietly
    <2>2. StackType' /\ (Clear(stack) => Clear(stack'))
      BY <1>1, <1>2, <2>1 DEF StackType
    <2> QED
      BY <2>1, <2>2, NoExit
  <1>5. CASE LeaveThrowing
    <2>1. CASE phase = "returned" /\ stack' = Under
               /\ UNCHANGED <<exitVars, syncExecution, closing, fatal, phase>>
      <3>1. StackType' /\ UNCHANGED chosen
        BY <1>1, <1>5, <2>1 DEF StackType, LeaveThrowing
      <3> QED
        BY <1>1, <2>1, <3>1, NoExit
    <2>2. CASE HandlerThrew /\ UNCHANGED phase
      BY <1>1, <1>5, <2>2, HandlerStatus DEF LeaveThrowing
    <2>3. CASE /\ Uncaught(Under, Top.kind # "entry" /\ syncExecution)
               /\ phase' = IF Top.kind = "before" THEN "look" ELSE phase
      <3> DEFINE sync == Top.kind # "entry" /\ syncExecution
      <3>1. sync \in BOOLEAN /\ UNCHANGED chosen
        BY <1>2, <1>5 DEF LeaveThrowing
      <3>2. Uncaught(Under, sync)
        BY <2>3
      <3> HIDE DEF sync
      <3> QED
        BY <1>1, <2>3, <3>1, <3>2, UncaughtStatus
    <2> QED
      BY <1>5, <2>1, <2>2, <2>3 DEF LeaveThrowing
  <1> QED
    BY <1>3, <1>4, <1>5 DEF Leave

\* The loop goes on.
LEMMA LoopStatus ==
  ASSUME StatusInv, Turn \/ CloseHandles \/ Abort
  PROVE  StatusInv'
  <1>1. <<Frame("turn", FALSE)>> \in Seq(Frames) /\ Clear(<<Frame("turn", FALSE)>>)
    <2>1. stack \in Seq(Frames)
      BY DEF StatusInv, StackType
    <2> QED
      BY <2>1, Push DEF Kinds
  <1>2. /\ stack' \in {stack, <<Frame("turn", FALSE)>>}
        /\ UNCHANGED <<exitVars, chosen, fatal, syncExecution, phase>>
    BY DEF Turn, CloseHandles, Abort
  <1>3. StackType' /\ (Clear(stack) => Clear(stack'))
    BY <1>1, <1>2 DEF StatusInv, StackType
  <1> QED
    BY <1>2, <1>3, NoExit

\* The launcher goes on: only its drain touches the status.
LEMMA LauncherStatus ==
  ASSUME StatusInv, Launcher
  PROVE  StatusInv'
  <1>1. StackType /\ stack \in Seq(Frames)
    BY DEF StatusInv, StackType
  <1>2. CASE \/ \E from, to : Go(from, to) /\ to \notin {"draining", "ending"}
             \/ \E from, code : Answer(from, code)
    <2>1. /\ UNCHANGED <<stack, exitVars, chosen, fatal, syncExecution>>
          /\ phase' \notin {"draining", "ending"}
      BY <1>2 DEF Go, Answer
    <2> QED
      BY <1>1, <2>1, NoExit DEF StackType
  <1>3. CASE EmitBeforeExit
    <2>1. <<Frame("before", FALSE)>> \in Seq(Frames) /\ Clear(<<Frame("before", FALSE)>>)
      BY <1>1, Push DEF Kinds
    <2>2. /\ stack' = <<Frame("before", FALSE)>> /\ phase' = "before"
          /\ UNCHANGED <<exitVars, chosen, fatal, syncExecution>>
      BY <1>3 DEF EmitBeforeExit
    <2> QED
      BY <1>1, <2>1, <2>2, NoExit DEF StackType
  <1>4. CASE EmitDrained
    <2>1. <<Frame("drainEmit", FALSE)>> \in Seq(Frames) /\ Clear(<<Frame("drainEmit", FALSE)>>)
      BY <1>1, Push DEF Kinds
    <2>2. /\ stack' = <<Frame("drainEmit", FALSE)>> /\ phase' = "draining" /\ ~exitCalled
          /\ exitCalled' = TRUE /\ drainedExit' = TRUE
          /\ UNCHANGED <<chosen, fatal, syncExecution, exitEnded, nestedEnd, progExit, settled>>
      BY <1>4 DEF EmitDrained
    <2>3. StackType' /\ Ended'
      BY <1>1, <2>1, <2>2 DEF StackType, StatusInv, Ended
    <2>4. Unchosen'
      BY <2>2 DEF StatusInv, Ended, Unchosen
    <2> QED
      BY <2>3, <2>4 DEF StatusInv
  <1>5. CASE DrainedListenersDone
    <2>1. /\ phase = "draining" /\ phase' = "ending"
          /\ exitCode' = IF ~nestedEnd /\ progExit # Undef THEN progExit ELSE exitCode
          /\ UNCHANGED <<stack, exitCalled, drainedExit, chosen, fatal, syncExecution, exitEnded,
                         nestedEnd, progExit, settled>>
      BY <1>5 DEF DrainedListenersDone
    <2>2. StackType' /\ Ended'
      BY <1>1, <2>1 DEF StackType, StatusInv, Ended
    <2>3. Unchosen'
      BY <2>1 DEF StatusInv, Ended, Unchosen
    <2> QED
      BY <2>2, <2>3 DEF StatusInv
  <1>6. CASE EndExit
    <2>1. /\ phase = "ending" /\ phase' = "await" /\ exitEnded' = TRUE /\ settled' = exitCode
          /\ UNCHANGED <<stack, exitCalled, drainedExit, chosen, fatal, syncExecution, exitCode,
                         nestedEnd, progExit>>
      BY <1>6 DEF EndExit
    <2>2. StackType' /\ Ended'
      BY <1>1, <2>1 DEF StackType, StatusInv, Ended
    <2>3. Unchosen'
      BY <2>1 DEF StatusInv, Ended, Unchosen, Undef
    <2> QED
      BY <2>2, <2>3 DEF StatusInv
  <1>7. CASE TornDown
    <2>1. phase' = "returned" /\ UNCHANGED <<stack, exitVars, chosen, fatal, syncExecution>>
      BY <1>7 DEF TornDown
    <2> QED
      BY <1>1, <2>1, NoExit DEF StackType
  <1> QED
    BY <1>2, <1>3, <1>4, <1>5, <1>6, <1>7
       DEF Launcher, Entered, Settling, Early, Look, Check, Again, Wait, Drain, Return

\* A run that dies of an error nobody handled is settled with the engine's status for
\* it, whichever of the nested exits, throwing listeners and handlers it dies in, unless
\* the program gave a status itself.
THEOREM FatalNotReportedAsSuccess == Spec => []FatalIsNotSuccess
  <1>1. Init => StatusInv
    <2> SUFFICES ASSUME Init
                 PROVE  StatusInv
      OBVIOUS
    <2>1. <<Frame("entry", FALSE)>> \in Seq(Frames)
      <3>1. << >> \in Seq(Frames)
        OBVIOUS
      <3> QED
        BY <3>1, Push DEF Kinds
    <2>2. StackType
      BY <2>1 DEF Init, StackType
    <2>3. Ended /\ Unchosen
      BY DEF Init, Ended, Unchosen
    <2> QED
      BY <2>2, <2>3 DEF StatusInv
  <1>2. StatusInv /\ [Next]_vars => StatusInv'
    <2> SUFFICES ASSUME StatusInv, [Next]_vars
                 PROVE  StatusInv'
      OBVIOUS
    <2>1. CASE UNCHANGED vars
      <3>1. UNCHANGED <<exitVars, chosen, fatal, stack, syncExecution, phase>>
        BY <2>1 DEF vars
      <3> QED
        BY <3>1, NoExit DEF StatusInv, StackType
    <2> QED
      BY <2>1, GuestStatus, LeaveStatus, LoopStatus, LauncherStatus DEF Next
  <1>3. StatusInv => FatalIsNotSuccess
    BY DEF StatusInv, Unchosen, FatalIsNotSuccess
  <1> QED
    BY <1>1, <1>2, <1>3, PTL DEF Spec

----------------------------------------------------------------------------
(* The end                                                                  *)

\* Where the launcher has found the loop empty it has found it so for a run nobody
\* holds, and nothing runs between that and the end.
Emptied ==
  /\ phase \in {"check", "before", "again"} => named /\ ~held
  /\ phase = "over" =>
       /\ Loop
       /\ exitCalled \/ aborted \/ (~held /\ work = 0 /\ micro = 0)

\* Guest code runs only where the launcher awaits something or has called it: whatever it
\* does, the launcher stays out of "over", and where it stands is as it was or "look".
LEMMA AwayFromTheEnd ==
  ASSUME Emptied, Next, ~Launcher
  PROVE  /\ phase # "over" /\ UNCHANGED <<named, held, drainedExit>>
         /\ phase' \in {phase, "look", "await"}
  <1>1. UNCHANGED <<named, held>>
    BY DEF Next, Fixed
  <1>2. CASE Guest
    <2>1. stack # <<>>
      BY <1>2 DEF Guest, AppendOutput, Start, Signal, Throw, Catch, SetExitCode, Exit, Burn, Running
    <2>2. UNCHANGED <<phase, drainedExit>>
      BY <1>2 DEF Guest, AppendOutput, Start, Signal, Throw, Catch, SetExitCode, Exit, CallExit,
                  ExitAgain, ExitFirst, exitVars
    <2> QED
      BY <1>1, <2>1, <2>2 DEF Emptied, Loop
  <1>3. CASE Leave
    <2>1. stack # <<>>
      BY <1>3 DEF Leave
    <2>2. UNCHANGED drainedExit /\ phase' \in {phase, "look", "await"}
      BY <1>3 DEF Leave, LeaveExitEmit, LeaveQuietly, LeaveThrowing, Quiet, HandlerThrew,
                  Uncaught, Handled, Unhandled, ExitFirst, exitVars
    <2> QED
      BY <1>1, <2>1, <2>2 DEF Emptied, Loop
  <1>4. CASE Turn \/ CloseHandles \/ Abort
    <2>1. UNCHANGED <<phase, drainedExit>> /\ phase # "over"
      BY <1>4 DEF Turn, CloseHandles, Abort, Awaiting, exitVars
    <2> QED
      BY <1>1, <2>1
  <1> QED
    BY <1>2, <1>3, <1>4 DEF Next

\* The launcher comes to "over" from a look that found the loop empty, or after an exit
\* or an abort; no step of anyone's leaves it there and fills the loop.
LEMMA EmptiedStep ==
  ASSUME Emptied, [Next]_vars
  PROVE  Emptied'
  <1>1. CASE UNCHANGED vars
    BY <1>1 DEF Emptied, vars, exitVars, runVars, loopVars, Loop
  <1>2. CASE Next /\ ~Launcher
    BY <1>2, AwayFromTheEnd DEF Emptied
  <1>3. CASE Launcher
    <2>1. UNCHANGED <<named, held>>
      BY <1>3 DEF Launcher, Fixed
    <2>2. ASSUME NEW from, NEW to, Go(from, to),
                 to \in {"check", "before", "again"} => named /\ ~held,
                 to = "over" =>
                   exitCalled \/ aborted \/ (~held /\ work = 0 /\ micro = 0)
          PROVE  Emptied'
      BY <2>1, <2>2 DEF Emptied, Go, Loop, exitVars, runVars, loopVars
    <2>3. ASSUME NEW from, NEW code, Answer(from, code)
          PROVE  Emptied'
      BY <2>1, <2>3 DEF Emptied, Answer
    <2>4. CASE Entered \/ Settling \/ Early \/ Return
      BY <2>2, <2>3, <2>4 DEF Entered, Settling, Early, Return
    <2>5. CASE Look \/ Wait
      BY <2>2, <2>5 DEF Look, Wait
    <2>6. CASE Check
      <3>1. CASE EmitBeforeExit
        BY <2>1, <3>1 DEF EmitBeforeExit, Emptied
      <3>2. CASE exitCalled /\ Go("before", "over")
        BY <2>2, <3>2
      <3>3. CASE ~exitCalled /\ Go("before", "again")
        <4>1. phase = "before"
          BY <3>3 DEF Go
        <4> QED
          BY <2>2, <3>3, <4>1 DEF Emptied
      <3> QED
        BY <2>2, <2>6, <3>1, <3>2, <3>3 DEF Check
    <2>7. CASE Again
      <3>1. CASE micro = 0 /\ (exitCalled \/ aborted \/ work = 0) /\ Go("again", "over")
        <4>1. phase = "again"
          BY <3>1 DEF Go
        <4> QED
          BY <2>2, <3>1, <4>1 DEF Emptied
      <3> QED
        BY <2>2, <2>7, <3>1 DEF Again
    <2>8. CASE Drain
      <3>1. CASE EmitDrained \/ DrainedListenersDone \/ EndExit
        BY <3>1 DEF EmitDrained, DrainedListenersDone, EndExit, Emptied
      <3> QED
        BY <2>2, <2>3, <2>8, <3>1 DEF Drain
    <2>9. CASE TornDown
      BY <2>9 DEF TornDown, Emptied
    <2> QED
      BY <1>3, <2>4, <2>5, <2>6, <2>7, <2>8, <2>9 DEF Launcher
  <1> QED
    BY <1>1, <1>2, <1>3

\* A run that ends by itself cuts nothing: what the launcher's last look found empty is
\* still empty when it marks the run as exited, and an early answer leaves nothing open.
THEOREM NothingIsCut == Spec => EndCutsNothing
  <1> DEFINE Keeps == LET drains == drainedExit' /\ ~drainedExit
                      IN  /\ drains => ~held /\ work = 0 /\ micro = 0
                          /\ ~held /\ phase = "settle" /\ phase' \in {"teardown", "returned"} => work = 0
  <1>1. Init => Emptied
    BY DEF Init, Emptied
  <1>2. Emptied /\ [Next]_vars => Emptied'
    BY EmptiedStep
  <1>3. Emptied /\ [Next]_vars => [Keeps]_vars
    <2> SUFFICES ASSUME Emptied, Next
                 PROVE  Keeps
      OBVIOUS
    <2>1. CASE ~Launcher
      BY <2>1, AwayFromTheEnd
    <2>2. CASE Launcher
      <3>1. drainedExit' /\ ~drainedExit => ~held /\ work = 0 /\ micro = 0
        <4>1. ASSUME NEW from, NEW to, Go(from, to)
              PROVE  UNCHANGED drainedExit
          BY <4>1 DEF Go, exitVars
        <4>2. ASSUME NEW from, NEW code, Answer(from, code)
              PROVE  UNCHANGED drainedExit
          BY <4>2 DEF Answer, exitVars
        <4>3. CASE EmitBeforeExit \/ DrainedListenersDone \/ EndExit
          BY <4>3 DEF EmitBeforeExit, DrainedListenersDone, EndExit, exitVars
        <4>4. CASE EmitDrained
          BY <4>4 DEF EmitDrained, Emptied
        <4>5. CASE TornDown
          BY <4>5 DEF TornDown, exitVars
        <4> QED
          BY <2>2, <4>1, <4>2, <4>3, <4>4, <4>5
             DEF Launcher, Entered, Settling, Early, Look, Check, Again, Wait, Drain, Return
      <3>2. phase = "settle" /\ phase' \in {"teardown", "returned"} /\ ~held => work = 0
        BY <2>2 DEF Launcher, Entered, Settling, Early, Look, Check, Again, Wait, Drain, Return, TornDown,
                    Go, Answer, EmitBeforeExit, EmitDrained, DrainedListenersDone, EndExit
      <3> QED
        BY <3>1, <3>2
    <2> QED
      BY <2>1, <2>2
  <1> QED
    BY <1>1, <1>2, <1>3, PTL DEF Spec, EndCutsNothing

================================================================================
