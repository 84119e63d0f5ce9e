------------------------------ MODULE NativeQueue ------------------------------
(****************************************************************************)
(* The queue that carries an addon's uv_async_send from its threads to its   *)
(* process's main thread (src/native-queue.ts): two wrapping counters, a     *)
(* lock and a stop word in shared memory, and a ring of message slots.       *)
(*                                                                           *)
(* One action is one access to shared memory.  Atomics.wait is one step: it  *)
(* compares the word with the expected value and, where they are equal, puts *)
(* the caller to sleep.  A sleeper is a thread whose pc is "lockSleep" or    *)
(* "headSleep", or the receiver at "wait".  Atomics.notify of one sleeper    *)
(* wakes any one of them; the language promises the oldest, which is a       *)
(* special case.                                                             *)
(*                                                                           *)
(* A message is <<thread, n>>, that thread's n-th send: what the two words   *)
(* of a slot hold is told apart by nothing else.                             *)
(****************************************************************************)
EXTENDS Integers, Sequences, FiniteSets

CONSTANTS
  Threads,   \* the addon's threads
  Slots,     \* SLOTS, the ring's length
  CounterModulus, \* 2^32, where a counter wraps
  MaxSends   \* bound: sends of each thread

\* SLOTS is a power of two and divides 2^32, and a fill of SLOTS is positive
\* as a signed word.
ASSUME QueueAssumption ==
  /\ Slots \in Nat \ {0}
  /\ CounterModulus \in Nat
  /\ CounterModulus % Slots = 0
  /\ 2 * Slots < CounterModulus
  /\ MaxSends \in Nat

VARIABLES
  head,      \* HEAD, the next slot the main side reads
  tail,      \* TAIL, the next slot a thread writes
  lock,      \* LOCK, the writers' lock
  stop,      \* STOP
  slot,      \* the slots
  pc,        \* where each thread is in sendNative; "out" outside it
  myHead,    \* each thread's local `head`
  myTail,    \* each thread's local `tail`
  sends,     \* how many sends each thread has begun
  dpc,       \* where the receiver is in drain
  rhead,     \* the receiver's local `head`
  rmsg,      \* the receiver's local `callback` and `data`
  spc,       \* where the main thread is in stopNative; "none" before it
  accepted,  \* history: the messages published, in the order of their counter
  delivered  \* history: the messages handed to `receive`

shared    == <<head, tail, lock, stop, slot>>
sender    == <<pc, myHead, myTail, sends>>
receiver  == <<dpc, rhead, rmsg>>
queueHistory == <<accepted, delivered>>
queueVars == <<shared, sender, receiver, spc, queueHistory>>

Messages == Threads \X (1 .. MaxSends)
NoMessage == <<>>

\* x | 0: a difference of counters as a signed word.
Signed(x) == LET word == x % CounterModulus
             IN  IF 2 * word >= CounterModulus THEN word - CounterModulus ELSE word

\* slotOf: a counter's low bits.
SlotOf(counter) == counter % Slots

InSend == {"lock", "lockWait", "lockSleep", "loadHead", "loadTail", "full",
           "stopFull", "headWait", "headSleep", "reload", "stopLast", "write",
           "publish", "notify", "unlock", "unlockNotify"}

\* Inside the lock: from the compare-exchange that takes it to the store that
\* gives it back.
Holding == InSend \ {"lock", "lockWait", "lockSleep", "unlockNotify"}

QueueInit ==
  /\ head = 0 /\ tail = 0 /\ lock = 0 /\ stop = 0
  /\ slot = [i \in 0 .. Slots - 1 |-> NoMessage]
  /\ pc = [t \in Threads |-> "out"]
  /\ myHead = [t \in Threads |-> 0]
  /\ myTail = [t \in Threads |-> 0]
  /\ sends = [t \in Threads |-> 0]
  /\ dpc = "drain" /\ rhead = 0 /\ rmsg = NoMessage
  /\ spc = "none"
  /\ accepted = <<>> /\ delivered = <<>>

----------------------------------------------------------------------------
(* sendNative, on a thread                                                  *)

Goto(t, label) == pc' = [pc EXCEPT ![t] = label]

Send(t) ==
  /\ pc[t] = "out"
  /\ sends[t] < MaxSends
  /\ sends' = [sends EXCEPT ![t] = @ + 1]
  /\ Goto(t, "lock")
  /\ UNCHANGED <<shared, myHead, myTail, receiver, spc, queueHistory>>

\* compareExchange(LOCK, 0, 1)
TakeLock(t) ==
  /\ pc[t] = "lock"
  /\ lock' = 1
  /\ Goto(t, IF lock = 0 THEN "loadHead" ELSE "lockWait")
  /\ UNCHANGED <<head, tail, stop, slot, myHead, myTail, sends, receiver, spc, queueHistory>>

\* Mutant of WaitLock: a waiter that finds the lock free goes on without taking it.
WaitLockUnchecked(t) ==
  /\ pc[t] = "lockWait"
  /\ Goto(t, IF lock = 1 THEN "lockSleep" ELSE "loadHead")
  /\ UNCHANGED <<shared, myHead, myTail, sends, receiver, spc, queueHistory>>

\* wait(LOCK, 1)
WaitLock(t) ==
  /\ pc[t] = "lockWait"
  /\ Goto(t, IF lock = 1 THEN "lockSleep" ELSE "lock")
  /\ UNCHANGED <<shared, myHead, myTail, sends, receiver, spc, queueHistory>>

LoadHead(t) ==
  /\ pc[t] = "loadHead"
  /\ myHead' = [myHead EXCEPT ![t] = head]
  /\ Goto(t, "loadTail")
  /\ UNCHANGED <<shared, myTail, sends, receiver, spc, queueHistory>>

LoadTail(t) ==
  /\ pc[t] = "loadTail"
  /\ myTail' = [myTail EXCEPT ![t] = tail]
  /\ Goto(t, "full")
  /\ UNCHANGED <<shared, myHead, sends, receiver, spc, queueHistory>>

\* Mutant of TestFull: one message more than the ring has slots.
TestFullLate(t) ==
  /\ pc[t] = "full"
  /\ Goto(t, IF Signed(myTail[t] - myHead[t]) > Slots THEN "stopFull" ELSE "stopLast")
  /\ UNCHANGED <<shared, myHead, myTail, sends, receiver, spc, queueHistory>>

\* The loop's condition.
TestFull(t) ==
  /\ pc[t] = "full"
  /\ Goto(t, IF Signed(myTail[t] - myHead[t]) >= Slots THEN "stopFull" ELSE "stopLast")
  /\ UNCHANGED <<shared, myHead, myTail, sends, receiver, spc, queueHistory>>

\* STOP looked at with the queue full: a stopped queue drops the send.
TestStopFull(t) ==
  /\ pc[t] = "stopFull"
  /\ Goto(t, IF stop # 0 THEN "unlock" ELSE "headWait")
  /\ UNCHANGED <<shared, myHead, myTail, sends, receiver, spc, queueHistory>>

\* wait(HEAD, head)
WaitHead(t) ==
  /\ pc[t] = "headWait"
  /\ Goto(t, IF head = myHead[t] THEN "headSleep" ELSE "reload")
  /\ UNCHANGED <<shared, myHead, myTail, sends, receiver, spc, queueHistory>>

ReloadHead(t) ==
  /\ pc[t] = "reload"
  /\ myHead' = [myHead EXCEPT ![t] = head]
  /\ Goto(t, "full")
  /\ UNCHANGED <<shared, myTail, sends, receiver, spc, queueHistory>>

\* STOP looked at with room.
TestStopLast(t) ==
  /\ pc[t] = "stopLast"
  /\ Goto(t, IF stop # 0 THEN "unlock" ELSE "write")
  /\ UNCHANGED <<shared, myHead, myTail, sends, receiver, spc, queueHistory>>

WriteSlot(t) ==
  /\ pc[t] = "write"
  /\ slot' = [slot EXCEPT ![SlotOf(myTail[t])] = <<t, sends[t]>>]
  /\ Goto(t, "publish")
  /\ UNCHANGED <<head, tail, lock, stop, myHead, myTail, sends, receiver, spc, queueHistory>>

\* Mutant of Publish: the counter does not wrap.
PublishUnwrapped(t) ==
  /\ pc[t] = "publish"
  /\ tail' = myTail[t] + 1
  /\ accepted' = Append(accepted, <<t, sends[t]>>)
  /\ Goto(t, "notify")
  /\ UNCHANGED <<head, lock, stop, slot, myHead, myTail, sends, receiver, spc, delivered>>

Publish(t) ==
  /\ pc[t] = "publish"
  /\ tail' = (myTail[t] + 1) % CounterModulus
  /\ accepted' = Append(accepted, <<t, sends[t]>>)
  /\ Goto(t, "notify")
  /\ UNCHANGED <<head, lock, stop, slot, myHead, myTail, sends, receiver, spc, delivered>>

\* notify(TAIL): the receiver's waitAsync resolves and its drain is queued.
NotifyTail(t) ==
  /\ pc[t] = "notify"
  /\ dpc' = IF dpc = "wait" THEN "drain" ELSE dpc
  /\ Goto(t, "unlock")
  /\ UNCHANGED <<shared, myHead, myTail, sends, rhead, rmsg, spc, queueHistory>>

\* The finally: store(LOCK, 0) ...
Unlock(t) ==
  /\ pc[t] = "unlock"
  /\ lock' = 0
  /\ Goto(t, "unlockNotify")
  /\ UNCHANGED <<head, tail, stop, slot, myHead, myTail, sends, receiver, spc, queueHistory>>

\* ... and notify(LOCK, 1).
NotifyLock(t) ==
  /\ pc[t] = "unlockNotify"
  /\ LET asleep == {u \in Threads : pc[u] = "lockSleep"}
     IN  IF asleep = {}
         THEN Goto(t, "out")
         ELSE \E u \in asleep : pc' = [pc EXCEPT ![t] = "out", ![u] = "lock"]
  /\ UNCHANGED <<shared, myHead, myTail, sends, receiver, spc, queueHistory>>

SendStep(t) ==
  \/ TakeLock(t) \/ WaitLock(t) \/ LoadHead(t) \/ LoadTail(t) \/ TestFull(t)
  \/ TestStopFull(t) \/ WaitHead(t) \/ ReloadHead(t) \/ TestStopLast(t)
  \/ WriteSlot(t) \/ Publish(t) \/ NotifyTail(t) \/ Unlock(t) \/ NotifyLock(t)

----------------------------------------------------------------------------
(* receiveNative's drain, on the main thread                                *)

\* The main thread runs stopNative to its end before anything else.
MainFree == spc \in {"none", "done"}

WakeHead == [t \in Threads |-> IF pc[t] = "headSleep" THEN "reload" ELSE pc[t]]

Drain ==
  /\ MainFree /\ dpc = "drain"
  /\ dpc' = IF stop # 0 THEN "ended" ELSE "loop"
  /\ UNCHANGED <<shared, sender, rhead, rmsg, spc, queueHistory>>

\* The loop's condition: HEAD loaded, then TAIL, then STOP.  HEAD and STOP are
\* written by this thread only, so the three loads are one step.
TestLoop ==
  /\ MainFree /\ dpc = "loop"
  /\ rhead' = head
  /\ dpc' = IF head # tail /\ stop = 0 THEN "read" ELSE "rearm"
  /\ UNCHANGED <<shared, sender, rmsg, spc, queueHistory>>

ReadSlot ==
  /\ MainFree /\ dpc = "read"
  /\ rmsg' = slot[SlotOf(rhead)]
  /\ dpc' = "store"
  /\ UNCHANGED <<shared, sender, rhead, spc, queueHistory>>

StoreHead ==
  /\ MainFree /\ dpc = "store"
  /\ head' = (rhead + 1) % CounterModulus
  /\ dpc' = "notify"
  /\ UNCHANGED <<tail, lock, stop, slot, sender, rhead, rmsg, spc, queueHistory>>

NotifyHead ==
  /\ MainFree /\ dpc = "notify"
  /\ pc' = WakeHead
  /\ dpc' = "receive"
  /\ UNCHANGED <<shared, myHead, myTail, sends, rhead, rmsg, spc, queueHistory>>

Receive ==
  /\ MainFree /\ dpc = "receive"
  /\ delivered' = Append(delivered, rmsg)
  /\ rmsg' = NoMessage
  /\ dpc' = "callback"
  /\ UNCHANGED <<shared, sender, rhead, spc, accepted>>

\* `receive` returns to the loop, or throws past it to the finally.
ReceiveReturns ==
  /\ MainFree /\ dpc = "callback"
  /\ dpc' \in {"loop", "rearm"}
  /\ UNCHANGED <<shared, sender, rhead, rmsg, spc, queueHistory>>

\* Mutant of Rearm: waitAsync(TAIL, TAIL) sleeps whatever is left to read.
RearmOnTail ==
  /\ MainFree /\ dpc = "rearm"
  /\ dpc' = IF stop # 0 THEN "ended" ELSE "wait"
  /\ UNCHANGED <<shared, sender, rhead, rmsg, spc, queueHistory>>

\* The finally: waitAsync(TAIL, HEAD) sleeps where nothing is left to read, and
\* answers at once, with a microtask of drain, where something is.
Rearm ==
  /\ MainFree /\ dpc = "rearm"
  /\ dpc' = IF stop # 0 THEN "ended" ELSE IF tail = head THEN "wait" ELSE "drain"
  /\ UNCHANGED <<shared, sender, rhead, rmsg, spc, queueHistory>>

ReceiveStep ==
  \/ Drain \/ TestLoop \/ ReadSlot \/ StoreHead \/ NotifyHead
  \/ Receive \/ ReceiveReturns \/ Rearm

----------------------------------------------------------------------------
(* stopNative, on the main thread: between two turns of the receiver, or     *)
(* inside a callback that ends the process                                  *)

Stop ==
  /\ spc = "none"
  /\ dpc \in {"wait", "drain", "callback"}
  /\ stop' = 1
  /\ spc' = "notifyTail"
  /\ UNCHANGED <<head, tail, lock, slot, sender, receiver, queueHistory>>

StopNotifyTail ==
  /\ spc = "notifyTail"
  /\ dpc' = IF dpc = "wait" THEN "drain" ELSE dpc
  /\ spc' = "notifyHead"
  /\ UNCHANGED <<shared, sender, rhead, rmsg, queueHistory>>

StopNotifyHead ==
  /\ spc = "notifyHead"
  /\ pc' = WakeHead
  /\ spc' = "done"
  /\ UNCHANGED <<shared, myHead, myTail, sends, receiver, queueHistory>>

StopStep == StopNotifyTail \/ StopNotifyHead

QueueNext ==
  \/ \E t \in Threads : Send(t) \/ SendStep(t)
  \/ ReceiveStep
  \/ Stop
  \/ StopStep

\* The scheduler runs every thread that is awake, and a callback returns.  No
\* thread has to send, and no process has to end.
QueueFairness ==
  /\ \A t \in Threads : WF_queueVars(SendStep(t))
  /\ WF_queueVars(ReceiveStep)
  /\ WF_queueVars(StopStep)

QueueSpec == QueueInit /\ [][QueueNext]_queueVars
FairQueueSpec == QueueSpec /\ QueueFairness
----------------------------------------------------------------------------
(* Properties                                                               *)

Counters == 0 .. CounterModulus - 1

\* Every word, local and history has its type.
TypeOK ==
  /\ head \in Counters /\ tail \in Counters
  /\ lock \in {0, 1} /\ stop \in {0, 1}
  /\ slot \in [0 .. Slots - 1 -> Messages \cup {NoMessage}]
  /\ pc \in [Threads -> InSend \cup {"out"}]
  /\ myHead \in [Threads -> Counters] /\ myTail \in [Threads -> Counters]
  /\ sends \in [Threads -> 0 .. MaxSends]
  /\ dpc \in {"drain", "loop", "read", "store", "notify", "receive", "callback",
              "rearm", "wait", "ended"}
  /\ rhead \in Counters
  /\ rmsg \in Messages \cup {NoMessage}
  /\ spc \in {"none", "notifyTail", "notifyHead", "done"}
  /\ accepted \in Seq(Messages)
  /\ delivered \in Seq(Messages \cup {NoMessage})

\* Many threads write, one at a time: the compare-exchange and the wait on LOCK
\* never let two of them past each other, and LOCK is 1 while one is inside.
WritersExclude ==
  /\ \A t, u \in Threads : pc[t] \in Holding /\ pc[u] \in Holding => t = u
  /\ \A t \in Threads : pc[t] \in Holding => lock = 1

Fill == (tail - head) % CounterModulus
Waiting == [i \in 1 .. Fill |-> slot[SlotOf(head + i - 1)]]
InFlight == IF dpc \in {"notify", "receive"} THEN <<rmsg>> ELSE <<>>

\* What was published is what was received, then the one message the receiver
\* has taken out, then what the slots still hold: nothing is lost, duplicated,
\* reordered or overwritten, across any wrap of the counters, and whoever is
\* writing, throwing or stopping meanwhile.
InOrder ==
  /\ Fill <= Slots
  /\ accepted = delivered \o InFlight \o Waiting

\* A send is carried through, unless the queue is stopped.  It returns: neither the
\* lock's waiters nor the writer waiting on a full queue miss their wake.  And what it
\* published is received: the receiver's waitAsync on the write counter, with the read
\* counter's value, misses no send, and a callback that throws does not end the reading.
SendsAreServed ==
  /\ \A t \in Threads : pc[t] # "out" ~> (pc[t] = "out" \/ stop = 1)
  /\ \A n \in 1 .. MaxSends * Cardinality(Threads) :
       Len(accepted) >= n ~> (Len(delivered) >= n \/ stop = 1)
================================================================================
