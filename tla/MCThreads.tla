------------------------------ MODULE MCThreads ------------------------------
(****************************************************************************)
(* What threads do over shared words, for TLC: the native addons' queue and   *)
(* the stdin ring.  They share no state: each is explored with the other as   *)
(* it began.                                                                  *)
(****************************************************************************)
EXTENDS NativeQueue, StdinRing

VARIABLE part   \* the one explored

ThreadsInit == QueueInit /\ StdinInit /\ part \in {"queue", "stdin"}

ThreadsNext ==
  \/ part = "queue" /\ QueueNext /\ UNCHANGED <<stdinVars, part>>
  \/ part = "stdin" /\ StdinNext /\ UNCHANGED <<queueVars, part>>

(* QueueFairness and StdinFairness, each where its part is the one explored. *)
Queue(A) == part = "queue" /\ A
Stdin(A) == part = "stdin" /\ A

ThreadsFairness ==
  /\ \A t \in Threads : WF_queueVars(Queue(SendStep(t)))
  /\ WF_queueVars(Queue(ReceiveStep)) /\ WF_queueVars(Queue(StopStep))
  /\ WF_stdinVars(Stdin(ProducerStep)) /\ WF_stdinVars(Stdin(ReaderStep))

ThreadsSpec ==
  ThreadsInit /\ [][ThreadsNext]_<<queueVars, stdinVars, part>> /\ ThreadsFairness
=============================================================================
