----------------------------- MODULE SyncThread -----------------------------
(***************************************************************************)
(* A synchronous child on a thread of its own (src/shims/sync-child.ts):   *)
(* the caller blocks in runSyncChild, the thread runs the child in a       *)
(* second engine, and messages cross a window of shared memory each way,   *)
(* in parts, each acknowledged by storing 0 in the window's control word   *)
(* (1: the last part, 2: more follow).                                     *)
(*                                                                         *)
(* The caller and the thread take turns only through the words: a step is  *)
(* what either does between two atomic operations.  A wait that looks at   *)
(* its word again when it wakes is its guard; the caller's wait for the    *)
(* thread does not, so that one is taken as it is, with the notify that    *)
(* ends it a step after the store.  The thread is one JavaScript thread: a *)
(* child that sends or asks holds all of it.                               *)
(***************************************************************************)
EXTENDS Naturals, Sequences, FiniteSets

CONSTANTS MaxCalls,    \* bound: calls of runSyncChild
          MaxParts     \* bound: parts of one message

ASSUME SyncThreadBounds == {MaxCalls, MaxParts} \subseteq Nat \ {0}

VARIABLES service,     \* whether there is a service
          thread,      \* its thread
          toParent,    \* TO_PARENT and its window
          toThread,    \* TO_WORKER and its window
          call,        \* the caller
          abandoned    \* history: the thread runs a child no call waits for

threadVars == <<service, thread, toParent, toThread, call, abandoned>>

Parts == 1..MaxParts
Part(t, k, n, i) == [t |-> t, of |-> k, parts |-> n, i |-> i]
NoPart == Part("none", 0, 0, 0)
Empty == [word |-> 0, part |-> NoPart]
Word(i, n) == IF i < n THEN 2 ELSE 1

NoJob == [k |-> 0, t |-> "none", parts |-> 0, at |-> 0, phase |-> "free", got |-> << >>]
NewThread == [alive |-> TRUE, started |-> FALSE, inbox |-> << >>, running |-> {}, job |-> NoJob]
NoThread == [NewThread EXCEPT !.alive = FALSE]

ThreadInit == /\ service = FALSE /\ thread = NoThread /\ toParent = Empty
              /\ toThread = Empty /\ abandoned = FALSE
              /\ call = [pc |-> "idle", k |-> 0, got |-> << >>, parts |-> 0, at |-> 0,
                         result |-> 0, expired |-> FALSE]

(* A message is whole when its parts are all there, in order. *)
Whole(got) == /\ got # << >>
              /\ \A i \in DOMAIN got : got[i] = Part(got[1].t, got[1].of, Len(got), i)

-----------------------------------------------------------------------------
(* The thread.  send and receive are taken part by part. *)
Sending(k, t, n) == [NoJob EXCEPT !.k = k, !.t = t, !.parts = n, !.at = 1, !.phase = "put"]
Job(j) == /\ thread' = [thread EXCEPT !.job = j]
          /\ UNCHANGED <<service, call, abandoned>>
JobDone == IF thread.job.t \in {"done", "failed"} THEN {thread.job.k} ELSE {}

Attach == /\ thread.alive /\ ~thread.started
          /\ thread' = [thread EXCEPT !.started = TRUE]
          /\ UNCHANGED <<service, toParent, toThread, call, abandoned>>

Free == thread.alive /\ thread.started /\ thread.job = NoJob

TakeRun == /\ Free /\ thread.inbox # << >>
           /\ LET k == Head(thread.inbox)
              IN thread' = [thread EXCEPT !.inbox = Tail(@), !.running = @ \cup {k},
                                          !.job = Sending(k, "begin", 1)]
           /\ UNCHANGED <<service, toParent, toThread, call, abandoned>>

(* The child's output, a call on the tree, and its end *)
ChildSays(t) == /\ Free
                /\ \E k \in thread.running, n \in Parts : Job(Sending(k, t, n))
                /\ UNCHANGED <<toParent, toThread>>

PutPart == LET j == thread.job IN
           /\ thread.alive /\ j.phase = "put"
           /\ toParent' = [word |-> Word(j.at, j.parts), part |-> Part(j.t, j.k, j.parts, j.at)]
           /\ Job([j EXCEPT !.phase = "notify"])
           /\ UNCHANGED toThread

NotifyCaller ==
  /\ thread.alive /\ thread.job.phase = "notify"
  /\ thread' = [thread EXCEPT !.job.phase = "wait"]
  /\ call' = [call EXCEPT !.pc = IF @ = "waiting" THEN "woken" ELSE @]
  /\ UNCHANGED <<service, toParent, toThread, abandoned>>

PartTaken ==
  LET j == thread.job IN
  /\ thread.alive /\ j.phase = "wait" /\ toParent.word = 0
  /\ thread' = [thread EXCEPT
       !.running = IF j.at = j.parts THEN @ \ JobDone ELSE @,
       !.job = IF j.at < j.parts THEN [j EXCEPT !.at = @ + 1, !.phase = "put"]
               ELSE IF j.t = "fs" THEN [j EXCEPT !.phase = "receive"] ELSE NoJob]
  /\ UNCHANGED <<service, toParent, toThread, call, abandoned>>

(* Nobody reads, or answers, for RUN_WAIT_MS: send or receive throws into  *)
(* the child's code, which may catch it, or into the run, whose last word  *)
(* that is.                                                                *)
GiveUp ==
  LET j == thread.job IN
  /\ thread.alive /\ call.pc = "idle"
  /\ \/ j.phase = "wait" /\ toParent.word # 0
     \/ j.phase = "receive" /\ toThread.word = 0
  /\ \/ /\ j.t \in {"fs", "out"}
        /\ Job(NoJob)
     \/ /\ j.t # "failed"
        /\ Job(Sending(j.k, "failed", 1))
     \/ /\ j.t = "failed"
        /\ thread' = [thread EXCEPT !.running = @ \ {j.k}, !.job = NoJob]
        /\ UNCHANGED <<service, call, abandoned>>
  /\ UNCHANGED <<toParent, toThread>>

ReceivePart == /\ thread.alive /\ thread.job.phase = "receive" /\ toThread.word # 0
               /\ Job([thread.job EXCEPT !.got = Append(@, toThread.part), !.phase = "ack"])
               /\ UNCHANGED <<toParent, toThread>>

AckPart == /\ thread.alive /\ thread.job.phase = "ack"
           /\ toThread' = [toThread EXCEPT !.word = 0]
           /\ Job(IF toThread.word = 2 THEN [thread.job EXCEPT !.phase = "receive"] ELSE NoJob)
           /\ UNCHANGED toParent

ThreadDies == /\ thread.alive
              /\ thread' = [thread EXCEPT !.alive = FALSE]
              /\ UNCHANGED <<service, toParent, toThread, call, abandoned>>

-----------------------------------------------------------------------------
(* The caller *)
WarmSyncChild == /\ service' = TRUE /\ thread' = NewThread
                 /\ toParent' = Empty /\ toThread' = Empty /\ abandoned' = FALSE

(* dropService *)
Dropped == /\ service' = FALSE /\ thread' = NoThread
           /\ toParent' = Empty /\ toThread' = Empty /\ abandoned' = FALSE

Throws == call' = [call EXCEPT !.pc = "idle", !.got = << >>, !.result = 0, !.at = 0, !.parts = 0,
                               !.expired = FALSE]

Warm == ~service /\ call.pc = "idle" /\ WarmSyncChild /\ UNCHANGED call

RunSyncChild ==
  /\ call.pc = "idle" /\ call.k < MaxCalls
  /\ call' = [call EXCEPT !.pc = "starting", !.k = @ + 1, !.result = 0]
  /\ IF service THEN UNCHANGED <<service, thread, toParent, toThread, abandoned>>
     ELSE WarmSyncChild

Started == /\ call.pc = "starting" /\ thread.started
           /\ toParent' = [toParent EXCEPT !.word = 0]
           /\ thread' = [thread EXCEPT !.inbox = Append(@, call.k)]
           /\ call' = [call EXCEPT !.pc = "reading"]
           /\ UNCHANGED <<service, toThread, abandoned>>

NotStarted == call.pc = "starting" /\ ~thread.started /\ Dropped /\ Throws

(* receiveFromWorker: a wait for another word than 0, then one look at it *)
WaitForPart == /\ call.pc = "reading" /\ toParent.word = 0
               /\ call' = [call EXCEPT !.pc = "waiting"]
               /\ UNCHANGED <<service, thread, toParent, toThread, abandoned>>

Expire == /\ call.pc = "waiting"
          /\ call' = [call EXCEPT !.pc = "woken", !.expired = TRUE]
          /\ UNCHANGED <<service, thread, toParent, toThread, abandoned>>

ReadPart == /\ call.pc \in {"reading", "woken"} /\ toParent.word # 0
            /\ call' = [call EXCEPT !.got = Append(@, toParent.part), !.pc = "copied",
                                    !.expired = FALSE]
            /\ UNCHANGED <<service, thread, toParent, toThread, abandoned>>

(* Mutation: the thread is kept when it answers too late. *)
KeptService == Throws /\ UNCHANGED <<service, thread, toParent, toThread, abandoned>>
TimedOut == Dropped /\ Throws
AnsweredNothing == call.pc = "woken" /\ toParent.word = 0 /\ TimedOut

(* What a whole message does; one that is not does not parse. *)
On(m, whole) ==
  LET more == [call EXCEPT !.pc = "reading", !.got = << >>] IN
  \/ /\ whole /\ m.t \in {"begin", "out"}
     /\ call' = more /\ UNCHANGED abandoned
  \/ /\ whole /\ m.t = "fs"
     /\ \E n \in Parts : call' = [more EXCEPT !.pc = "answer", !.at = 1, !.parts = n]
     /\ UNCHANGED abandoned
  \/ /\ whole /\ m.t = "done"
     /\ call' = [more EXCEPT !.pc = "idle", !.result = m.of] /\ UNCHANGED abandoned
  \/ /\ whole /\ m.t = "failed"
     /\ Throws /\ UNCHANGED abandoned
  \/ /\ ~whole \/ m.t = "out"       \* the caller's writer throws
     /\ Throws /\ abandoned' = TRUE

AckMessage ==
  /\ call.pc = "copied"
  /\ toParent' = [toParent EXCEPT !.word = 0]
  /\ IF toParent.word = 2
     THEN call' = [call EXCEPT !.pc = "reading"] /\ UNCHANGED abandoned
     ELSE On(call.got[1], Whole(call.got))
  /\ UNCHANGED <<service, thread, toThread>>

(* sendToWorker, the tree's answer to the child's call *)
AnswerPart == /\ call.pc = "answer"
              /\ toThread' = [word |-> Word(call.at, call.parts),
                              part |-> Part("answer", 0, call.parts, call.at)]
              /\ call' = [call EXCEPT !.pc = "answering"]
              /\ UNCHANGED <<service, thread, toParent, abandoned>>

AnswerTaken ==
  /\ call.pc = "answering" /\ toThread.word = 0
  /\ call' = IF call.at < call.parts THEN [call EXCEPT !.pc = "answer", !.at = @ + 1]
             ELSE [call EXCEPT !.pc = "reading", !.at = 0, !.parts = 0]
  /\ UNCHANGED <<service, thread, toParent, toThread, abandoned>>

-----------------------------------------------------------------------------
ThreadStep == Attach \/ TakeRun \/ PutPart \/ NotifyCaller \/ PartTaken \/ ReceivePart \/ AckPart
CallerStep == \/ Started \/ NotStarted \/ WaitForPart \/ Expire \/ ReadPart
              \/ AnsweredNothing \/ AckMessage \/ AnswerPart \/ AnswerTaken
ThreadNext == \/ ThreadStep \/ CallerStep \/ GiveUp \/ ThreadDies \/ Warm \/ RunSyncChild
              \/ \E t \in {"fs", "out", "done", "failed"} : ChildSays(t)
=============================================================================
