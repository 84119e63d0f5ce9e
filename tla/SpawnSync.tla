------------------------------ MODULE SpawnSync ------------------------------
(***************************************************************************)
(* child_process.spawnSync: a child of the host's over kernel pipes        *)
(* (SyncPipes) where the host has such a door, and else a child on a       *)
(* thread of the engine's own (SyncThread).  A realm has one or the other. *)
(***************************************************************************)
EXTENDS SyncThread, SyncPipes

VARIABLE route   \* the door this realm has

spawnVars == <<threadVars, pipeVars, route>>

SpawnInit ==
  /\ ThreadInit /\ PipesInit /\ route \in {"thread", "host"}
  /\ route = "thread" => ~spawn.timed /\ ~spawn.limited   \* of no use there

SpawnNext ==
  \/ route = "thread" /\ ThreadNext /\ UNCHANGED <<pipeVars, route>>
  \/ route = "host" /\ PipesNext /\ UNCHANGED <<threadVars, route>>

SpawnSpec == SpawnInit /\ [][SpawnNext]_spawnVars

Thread(A) == route = "thread" /\ A /\ UNCHANGED <<pipeVars, route>>
Host(A) == route = "host" /\ A /\ UNCHANGED <<threadVars, route>>

(* The caller and the thread run; a child that may end does in the end.    *)
(* The drain and the host run, time passes, and a child the host started   *)
(* ends; a transfer that keeps being possible is not refused for ever.     *)
(* Nothing makes a descendant close a pipe.                                *)
SpawnFairness ==
  /\ WF_spawnVars(Thread(ThreadStep)) /\ WF_spawnVars(Thread(CallerStep))
  /\ SF_spawnVars(Thread(ChildSays("done")))
  /\ WF_spawnVars(Host(DrainStep)) /\ WF_spawnVars(Host(HostStarts))
  /\ WF_spawnVars(Host(HostAnswers)) /\ WF_spawnVars(Host(TimePasses))
  /\ WF_spawnVars(Host(ChildEnds))
  /\ SF_spawnVars(Host(SendInput)) /\ SF_spawnVars(Host(ReadOutput \/ ReadEnd))

LiveSpawnSpec == SpawnSpec /\ SpawnFairness

-----------------------------------------------------------------------------
(* Every message crosses whole, and to the call it is for, however it is   *)
(* cut into parts: what the caller has when the word says the last part is *)
(* there is one message of its own child, and what the thread has is one   *)
(* answer.  So the result of a call is the end of the child it started,    *)
(* whatever calls before it gave up: a thread that answered too late is    *)
(* not asked again.  A call that left its child behind on the thread (the  *)
(* writer it was given threw) is the exception: the thread serves that     *)
(* child's messages to the calls after it.                                 *)
MessagesWhole ==
  \/ abandoned
  \/ /\ (call.pc = "copied" /\ toParent.word = 1) =>
          Whole(call.got) /\ call.got[1].of = call.k
     /\ (thread.job.phase = "ack" /\ toThread.word = 1) => Whole(thread.job.got)
     /\ call.pc = "idle" => call.result \in {0, call.k}

(* A spawn of the host's that reports no error has everything the child    *)
(* and its descendants wrote: nothing is left in a pipe this realm closed, *)
(* and nothing was refused for want of a reader.                           *)
OutputIsWhole ==
  spawn.pc = "returned" /\ spawn.result = "none" =>
    \A p \in Outputs : kernel[p].bytes = 0 /\ ~kernel[p].refused

(* A child the spawn killed is reported as killed for its time or for its  *)
(* output, never as some pipe's failure, and for its output exactly when   *)
(* more was kept than maxBuffer, by one read at the most.                  *)
CutIsReported ==
  /\ spawn.buffered <= MaxBuffer + ReadBytes
  /\ spawn.pc = "returned" /\ spawn.result # "ENOSYS" =>
    /\ child.killed => spawn.result \in {"ETIMEDOUT", "ENOBUFS"}
    /\ spawn.result = "ETIMEDOUT" => spawn.late
    /\ spawn.result = "ENOBUFS" => spawn.buffered > MaxBuffer
    /\ spawn.buffered > MaxBuffer => spawn.result \in {"ENOBUFS", "ETIMEDOUT"}

(* A spawn without a timeout waits for as long as somebody holds the       *)
(* child's pipes, but not for want of its own part: the input was given    *)
(* and ended, or nobody takes it.                                          *)
HeldByOthers ==
  /\ route = "host" /\ ~spawn.timed
  /\ \E p \in Pipes : kernel[p].theirs
  /\ \A p \in Inputs : kernel[p].shut \/ kernel[p].bytes = Room \/ spawn.pipeError # "none"

(* The one wait of the thread's caller that has no bound: the thread died  *)
(* with an answer handed to it.                                            *)
AnswerNotTaken == call.pc = "answering" /\ ~thread.alive

(* spawnSync returns: within its deadline whoever floods its pipes, and    *)
(* without one when nobody holds them; on the thread's route whenever the  *)
(* thread dies, falls silent or does not start, but for AnswerNotTaken.    *)
EveryCallReturns ==
  /\ (call.pc # "idle") ~> (call.pc = "idle" \/ AnswerNotTaken)
  /\ (spawn.pc = "forked") ~> (spawn.pc = "returned" \/ HeldByOthers)

(* "answered nothing within waitMs" (receiveFromWorker's error): a call    *)
(* gives the thread up only when its wait has run out.                     *)
GivesUpInTime ==
  call.pc = "woken" /\ toParent.word = 0 => call.expired
=============================================================================
