------------------------------ MODULE RingProofs ------------------------------
(****************************************************************************)
(* The two rings of shared memory, whose counters wrap.  For any number of    *)
(* threads, any ring and any number of sends, the addon's queue keeps its     *)
(* types, its writers exclude each other, and what is received is what was    *)
(* published, in order.  For any capacity, any number of bytes and however    *)
(* often the indices wrap, the ring of stdin is a pipe of bytes (BytePipe).   *)
(****************************************************************************)
EXTENDS NativeQueue, StdinRing, SequenceTheorems, TLAPS

----------------------------------------------------------------------------
(* Counters that wrap                                                       *)

\* Quotient and remainder.
LEMMA DivMod ==
  ASSUME NEW a \in Int, NEW m \in Nat \ {0}
  PROVE  /\ a % m \in 0 .. m - 1
         /\ a \div m \in Int
         /\ a = m * (a \div m) + (a % m)
  OBVIOUS

\* A remainder is unique.
LEMMA ModUnique ==
  ASSUME NEW m \in Nat \ {0}, NEW q \in Int, NEW r \in 0 .. m - 1,
         NEW a \in Int, a = m * q + r
  PROVE  a % m = r
  OBVIOUS

\* A counter below the modulus is its own remainder.
LEMMA ModSmall ==
  ASSUME NEW m \in Nat \ {0}, NEW a \in 0 .. m - 1
  PROVE  a % m = a
  <1>1. a = m * 0 + a
    OBVIOUS
  <1> QED
    BY <1>1, ModUnique

\* Once more round changes no remainder.
LEMMA ModRound ==
  ASSUME NEW m \in Nat \ {0}, NEW a \in Int, NEW b \in Int, NEW q \in Int, b = a + m * q
  PROVE  b % m = a % m
  <1> DEFINE p == a \div m
             r == a % m
  <1>1. r \in 0 .. m - 1 /\ p \in Int /\ a = m * p + r
    BY DivMod
  <1> HIDE DEF p, r
  <1>2. m * p + m * q = m * (p + q)
    BY <1>1
  <1>3. b = m * (p + q) + r
    BY <1>1, <1>2
  <1>4. p + q \in Int
    BY <1>1
  <1> DEFINE s == p + q
  <1> HIDE DEF s
  <1>5. s \in Int /\ b = m * s + r
    BY <1>3, <1>4 DEF s
  <1>6. b % m = r
    BY <1>1, <1>5, ModUnique
  <1> QED
    BY <1>6 DEF r

\* Adding to a wrapped counter is adding to the counter.
LEMMA ModAdd ==
  ASSUME NEW a \in Int, NEW k \in Int, NEW m \in Nat \ {0}
  PROVE  ((a % m) + k) % m = (a + k) % m
  <1> DEFINE x == (a % m) + k
             y == a + k
             q == a \div m
  <1>1. x \in Int /\ y \in Int /\ q \in Int /\ y = x + m * q
    BY DivMod
  <1> HIDE DEF x, y, q
  <1>2. y % m = x % m
    BY <1>1, ModRound
  <1> QED
    BY <1>2 DEF x, y

\* The difference of two wrapped counters is the difference of the counters.
LEMMA ModSub ==
  ASSUME NEW a \in Int, NEW b \in Int, NEW m \in Nat \ {0}
  PROVE  ((a % m) - (b % m)) % m = (a - b) % m
  <1> DEFINE x == (a % m) - (b % m)
             y == a - b
             p == a \div m
             q == b \div m
             t == p - q
  <1>1. x \in Int /\ y \in Int /\ p \in Int /\ q \in Int /\ y = x + (m * p - m * q)
    BY DivMod
  <1> HIDE DEF x, y, p, q
  <1>2. t \in Int /\ m * p - m * q = m * t
    BY <1>1
  <1> HIDE DEF t
  <1>3. y = x + m * t
    BY <1>1, <1>2
  <1>4. y % m = x % m
    BY <1>1, <1>2, <1>3, ModRound
  <1> QED
    BY <1>4 DEF x, y

\* A counter that wraps at a multiple of the ring's length keeps its slot.
LEMMA ModOfMultiple ==
  ASSUME NEW a \in Int, NEW m \in Nat \ {0}, NEW s \in Nat \ {0}, m % s = 0
  PROVE  (a % m) % s = a % s
  <1> DEFINE x == a % m
             q == a \div m
             k == m \div s
  <1>1. x \in Int /\ q \in Int /\ a = x + m * q
    BY DivMod
  <1>2. k \in Int /\ m = s * k
    BY DivMod
  <1> HIDE DEF x, q, k
  <1>3. (s * k) * q = s * (k * q)
    BY <1>1, <1>2
  <1>4. k * q \in Int
    BY <1>1, <1>2
  <1> DEFINE t == k * q
  <1>5. t \in Int /\ a = x + s * t
    BY <1>1, <1>2, <1>3, <1>4
  <1> HIDE DEF t
  <1>6. a % s = x % s
    BY <1>1, <1>5, ModRound
  <1> QED
    BY <1>6 DEF x

\* Two counters less than a ring apart have different slots.
LEMMA ModDistinct ==
  ASSUME NEW s \in Nat \ {0}, NEW a \in Int, NEW b \in Int,
         a < b, b < a + s
  PROVE  a % s # b % s
  <1> SUFFICES ASSUME a % s = b % s
               PROVE  FALSE
    OBVIOUS
  <1> DEFINE q == a \div s
             p == b \div s
  <1>1. /\ q \in Int /\ p \in Int /\ a % s \in Int
        /\ a = s * q + (a % s) /\ b = s * p + (a % s)
    BY DivMod
  <1> HIDE DEF q, p
  <1>2. b - a = s * (p - q)
    <2>1. s * (p - q) = s * p - s * q
      BY <1>1
    <2> QED
      BY <1>1, <2>1
  <1> DEFINE e == p - q
  <1>3. e \in Int /\ b - a = s * e
    BY <1>1, <1>2
  <1> HIDE DEF e
  <1>4. e > 0 => s * e >= s
    BY <1>3
  <1>5. ~(e > 0) => s * e <= 0
    BY <1>3
  <1> QED
    BY <1>3, <1>4, <1>5

----------------------------------------------------------------------------
(* Types                                                                    *)

\* A thread inside sendNative has begun the send it is in.
Began == \A t \in Threads : pc[t] # "out" => sends[t] \in 1 .. MaxSends

Typing == TypeOK /\ Began

\* The initial words and locals have their types.
LEMMA InitTyping == QueueInit => Typing
  <1> SUFFICES ASSUME QueueInit PROVE Typing
    OBVIOUS
  <1> USE QueueAssumption DEF QueueInit, Counters, Messages
  <1>1. 0 \in Counters /\ 0 \in 0 .. MaxSends
    OBVIOUS
  <1>2. <<>> \in Seq(Messages) /\ <<>> \in Seq(Messages \cup {NoMessage})
    OBVIOUS
  <1>3. pc \in [Threads -> InSend \cup {"out"}]
    OBVIOUS
  <1> QED
    BY <1>1, <1>2, <1>3 DEF TypeOK, Typing, Began

\* A step of a thread keeps the types.
LEMMA SendTyping ==
  ASSUME Typing, NEW t \in Threads, Send(t) \/ SendStep(t)
  PROVE  Typing'
  <1> USE QueueAssumption DEF Typing, TypeOK, Began, InSend, Goto, Counters,
          shared, receiver, queueHistory
  <1>1. CASE Send(t)
    BY <1>1 DEF Send
  <1>2. CASE TakeLock(t)
    BY <1>2 DEF TakeLock
  <1>3. CASE WaitLock(t)
    BY <1>3 DEF WaitLock
  <1>4. CASE LoadHead(t)
    BY <1>4 DEF LoadHead
  <1>5. CASE LoadTail(t)
    BY <1>5 DEF LoadTail
  <1>6. CASE TestFull(t)
    BY <1>6 DEF TestFull
  <1>7. CASE TestStopFull(t)
    BY <1>7 DEF TestStopFull
  <1>8. CASE WaitHead(t)
    BY <1>8 DEF WaitHead
  <1>9. CASE ReloadHead(t)
    BY <1>9 DEF ReloadHead
  <1>10. CASE TestStopLast(t)
    BY <1>10 DEF TestStopLast
  <1>11. CASE WriteSlot(t)
    <2>1. <<t, sends[t]>> \in Messages
      BY <1>11 DEF WriteSlot, Messages
    <2> QED
      BY <1>11, <2>1 DEF WriteSlot
  <1>12. CASE Publish(t)
    <2>1. <<t, sends[t]>> \in Messages
      BY <1>12 DEF Publish, Messages
    <2>2. (myTail[t] + 1) % CounterModulus \in 0 .. CounterModulus - 1
      <3>1. myTail[t] + 1 \in Int /\ CounterModulus \in Nat \ {0}
        OBVIOUS
      <3> QED
        BY <3>1, DivMod
    <2>3. accepted' \in Seq(Messages)
      BY <1>12, <2>1 DEF Publish
    <2> QED
      BY <1>12, <2>2, <2>3 DEF Publish
  <1>13. CASE NotifyTail(t)
    BY <1>13 DEF NotifyTail
  <1>14. CASE Unlock(t)
    BY <1>14 DEF Unlock
  <1>15. CASE NotifyLock(t)
    <2>1. pc' \in [Threads -> InSend \cup {"out"}]
      BY <1>15 DEF NotifyLock
    <2>2. \A u \in Threads : pc'[u] # "out" => pc[u] # "out"
      BY <1>15 DEF NotifyLock
    <2> QED
      BY <1>15, <2>1, <2>2 DEF NotifyLock
  <1> QED
    BY <1>1, <1>2, <1>3, <1>4, <1>5, <1>6, <1>7, <1>8, <1>9, <1>10, <1>11,
       <1>12, <1>13, <1>14, <1>15 DEF SendStep

\* A step of the main thread, reading or stopping, keeps the types.
LEMMA MainTyping ==
  ASSUME Typing, ReceiveStep \/ Stop \/ StopStep
  PROVE  Typing'
  <1> USE QueueAssumption DEF Typing, TypeOK, Began, Counters,
          shared, sender, receiver, queueHistory
  <1>0. /\ WakeHead \in [Threads -> InSend \cup {"out"}]
        /\ \A u \in Threads : WakeHead[u] # "out" => pc[u] # "out"
    BY DEF WakeHead, InSend
  <1>1. CASE Drain
    BY <1>1 DEF Drain
  <1>2. CASE TestLoop
    BY <1>2 DEF TestLoop
  <1>3. CASE ReadSlot
    <2>1. SlotOf(rhead) \in 0 .. Slots - 1
      BY DivMod DEF SlotOf
    <2> QED
      BY <1>3, <2>1 DEF ReadSlot
  <1>4. CASE StoreHead
    <2>1. (rhead + 1) % CounterModulus \in 0 .. CounterModulus - 1
      BY DivMod
    <2> QED
      BY <1>4, <2>1 DEF StoreHead
  <1>5. CASE NotifyHead
    BY <1>0, <1>5 DEF NotifyHead
  <1>6. CASE Receive
    <2>1. delivered' \in Seq(Messages \cup {NoMessage})
      BY <1>6 DEF Receive
    <2> QED
      BY <1>6, <2>1 DEF Receive
  <1>7. CASE ReceiveReturns
    BY <1>7 DEF ReceiveReturns
  <1>8. CASE Rearm
    BY <1>8 DEF Rearm
  <1>9. CASE Stop
    BY <1>9 DEF Stop
  <1>10. CASE StopNotifyTail
    BY <1>10 DEF StopNotifyTail
  <1>11. CASE StopNotifyHead
    BY <1>0, <1>11 DEF StopNotifyHead
  <1> QED
    BY <1>1, <1>2, <1>3, <1>4, <1>5, <1>6, <1>7, <1>8, <1>9, <1>10, <1>11
    DEF ReceiveStep, StopStep

\* A step that changes nothing keeps the types.
LEMMA StutterTyping ==
  ASSUME Typing, UNCHANGED queueVars
  PROVE  Typing'
  BY DEF Typing, TypeOK, Began, Counters, queueVars, shared, sender, receiver, queueHistory

\* Every word of the shared buffer, every local of sendNative and of drain keeps
\* its type: the counters never leave the 32-bit words, for any ring and modulus.
THEOREM TypeCorrect == QueueSpec => []TypeOK
  <1>1. Typing /\ [QueueNext]_queueVars => Typing'
    BY SendTyping, MainTyping, StutterTyping DEF QueueNext
  <1>2. Typing => TypeOK
    BY DEF Typing
  <1> QED
    BY InitTyping, <1>1, <1>2, PTL DEF QueueSpec

----------------------------------------------------------------------------
(* The lock                                                                 *)

\* No thread's step lets a second writer in: the compare-exchange succeeds only
\* where LOCK is 0, hence nobody is inside, and the only way out stores 0.
LEMMA SendExclude ==
  ASSUME Typing, WritersExclude, NEW t \in Threads, Send(t) \/ SendStep(t)
  PROVE  WritersExclude'
  <1> USE DEF Typing, TypeOK, WritersExclude, Holding, InSend, Goto, shared
  <1>1. CASE Send(t)
    BY <1>1 DEF Send
  <1>2. CASE TakeLock(t)
    BY <1>2 DEF TakeLock
  <1>3. CASE WaitLock(t)
    BY <1>3 DEF WaitLock
  <1>4. CASE LoadHead(t)
    BY <1>4 DEF LoadHead
  <1>5. CASE LoadTail(t)
    BY <1>5 DEF LoadTail
  <1>6. CASE TestFull(t)
    BY <1>6 DEF TestFull
  <1>7. CASE TestStopFull(t)
    BY <1>7 DEF TestStopFull
  <1>8. CASE WaitHead(t)
    BY <1>8 DEF WaitHead
  <1>9. CASE ReloadHead(t)
    BY <1>9 DEF ReloadHead
  <1>10. CASE TestStopLast(t)
    BY <1>10 DEF TestStopLast
  <1>11. CASE WriteSlot(t)
    BY <1>11 DEF WriteSlot
  <1>12. CASE Publish(t)
    BY <1>12 DEF Publish
  <1>13. CASE NotifyTail(t)
    BY <1>13 DEF NotifyTail
  <1>14. CASE Unlock(t)
    BY <1>14 DEF Unlock
  <1>15. CASE NotifyLock(t)
    <2>1. \A u \in Threads : pc'[u] \in Holding => pc[u] \in Holding
      BY <1>15 DEF NotifyLock
    <2> QED
      BY <1>15, <2>1 DEF NotifyLock
  <1> QED
    BY <1>1, <1>2, <1>3, <1>4, <1>5, <1>6, <1>7, <1>8, <1>9, <1>10, <1>11,
       <1>12, <1>13, <1>14, <1>15 DEF SendStep

\* The main thread never takes the lock, and a writer it wakes was inside.
LEMMA MainExclude ==
  ASSUME Typing, WritersExclude, ReceiveStep \/ Stop \/ StopStep
  PROVE  WritersExclude'
  <1>1. lock' = lock
    BY DEF ReceiveStep, Drain, TestLoop, ReadSlot, StoreHead, NotifyHead, Receive,
       ReceiveReturns, Rearm, Stop, StopStep, StopNotifyTail, StopNotifyHead, shared
  <1>2. pc' = pc \/ pc' = WakeHead
    BY DEF ReceiveStep, Drain, TestLoop, ReadSlot, StoreHead, NotifyHead, Receive,
       ReceiveReturns, Rearm, Stop, StopStep, StopNotifyTail, StopNotifyHead, sender
  <1>3. \A u \in Threads : pc'[u] \in Holding => pc[u] \in Holding
    BY <1>2 DEF Typing, TypeOK, WakeHead, Holding, InSend
  <1> QED
    BY <1>1, <1>3 DEF WritersExclude

\* At most one thread is between taking the writers' lock and giving it back, for
\* any number of threads waiting on it, woken or late.
THEOREM Exclusion == QueueSpec => []WritersExclude
  <1> DEFINE Inv == Typing /\ WritersExclude
  <1>1. QueueInit => Inv
    <2>1. QueueInit => WritersExclude
      BY DEF QueueInit, WritersExclude, Holding, InSend
    <2> QED
      BY <2>1, InitTyping
  <1>2. Inv /\ [QueueNext]_queueVars => Inv'
    <2> SUFFICES ASSUME Inv, [QueueNext]_queueVars PROVE Inv'
      OBVIOUS
    <2>1. CASE UNCHANGED queueVars
      BY <2>1, StutterTyping
      DEF WritersExclude, queueVars, shared, sender
    <2>2. CASE QueueNext
      BY <2>2, SendTyping, MainTyping, SendExclude, MainExclude DEF QueueNext
    <2> QED
      BY <2>1, <2>2
  <1> QED
    BY <1>1, <1>2, PTL DEF QueueSpec

----------------------------------------------------------------------------
(* The order of messages                                                    *)

\* How many messages were published, and how many were taken out of the ring:
\* the two counters before they wrap.
Written == Len(accepted)
ReadOut   == Len(delivered) + (IF dpc \in {"notify", "receive"} THEN 1 ELSE 0)

\* The words are the wrapped counters, and the ring holds no more than it can.
CountersInv ==
  /\ tail = Written % CounterModulus
  /\ head = ReadOut % CounterModulus
  /\ ReadOut <= Written
  /\ Written <= ReadOut + Slots

\* A slot between the counters holds the message published under its number.
SlotsInv == \A i \in ReadOut .. Written - 1 : slot[SlotOf(i)] = accepted[i + 1]

\* What the receiver has handed on and what it has in hand.
ReceiverInv ==
  /\ \A i \in 1 .. Len(delivered) : delivered[i] = accepted[i]
  /\ dpc \in {"notify", "receive"} => rmsg = accepted[ReadOut]
  /\ dpc \in {"read", "store"} => rhead = head /\ ReadOut < Written
  /\ dpc = "store" => rmsg = accepted[ReadOut + 1]

\* What the writer inside the lock may believe: its tail is the tail, its head is
\* an old one, so the fill it computes is at least the fill there is.
StaleFill(t) == ((IF pc[t] = "loadTail" THEN tail ELSE myTail[t]) - myHead[t]) % CounterModulus
WriterInv(t) ==
  /\ pc[t] \in Holding \ {"loadHead", "loadTail", "notify", "unlock"} => myTail[t] = tail
  /\ pc[t] \in Holding \ {"loadHead", "notify", "unlock"} =>
       Written - ReadOut <= StaleFill(t) /\ StaleFill(t) <= Slots
  /\ pc[t] \in {"stopLast", "write", "publish"} => Written - ReadOut < Slots
  /\ pc[t] = "publish" => slot[SlotOf(tail)] = <<t, sends[t]>>

OrderInv ==
  /\ CountersInv
  /\ SlotsInv
  /\ ReceiverInv
  /\ \A t \in Threads : WriterInv(t)

\* The unwrapped counters are numbers.
LEMMA CountersAreNat ==
  ASSUME Typing
  PROVE  Written \in Nat /\ ReadOut \in Nat
  BY LenProperties DEF Typing, TypeOK, Written, ReadOut

\* The fill computed from the words is the fill there is.
LEMMA TrueFill ==
  ASSUME Typing, CountersInv
  PROVE  (tail - head) % CounterModulus = Written - ReadOut
  <1>1. Written \in Nat /\ ReadOut \in Nat
    BY CountersAreNat
  <1>2. CounterModulus \in Nat \ {0}
    BY QueueAssumption
  <1>3. (tail - head) % CounterModulus = (Written - ReadOut) % CounterModulus
    <2>1. Written \in Int /\ ReadOut \in Int
      BY <1>1
    <2>2. ((Written % CounterModulus) - (ReadOut % CounterModulus)) % CounterModulus
            = (Written - ReadOut) % CounterModulus
      BY <1>2, <2>1, ModSub, Zenon
    <2> QED
      BY <2>2 DEF CountersInv
  <1>4. Written - ReadOut \in 0 .. CounterModulus - 1
    BY <1>1, QueueAssumption DEF CountersInv
  <1> QED
    BY <1>2, <1>3, <1>4, ModSmall

\* A wrapped counter and the counter have the same slot.
LEMMA SlotOfWrapped ==
  ASSUME NEW n \in Nat
  PROVE  SlotOf(n % CounterModulus) = SlotOf(n) /\ SlotOf(n) \in 0 .. Slots - 1
  <1>1. CounterModulus \in Nat \ {0} /\ Slots \in Nat \ {0} /\ CounterModulus % Slots = 0
    BY QueueAssumption
  <1>2. n \in Int
    OBVIOUS
  <1>3. (n % CounterModulus) % Slots = n % Slots
    BY <1>1, <1>2, ModOfMultiple, Zenon
  <1>4. n % Slots \in 0 .. Slots - 1
    BY <1>1, <1>2, DivMod, Zenon
  <1> QED
    BY <1>3, <1>4 DEF SlotOf

\* The initial queue is empty, and nobody is in it.
LEMMA InitOrder == QueueInit => OrderInv
  <1> SUFFICES ASSUME QueueInit PROVE OrderInv
    OBVIOUS
  <1>1. Written = 0 /\ ReadOut = 0
    BY DEF QueueInit, Written, ReadOut
  <1>2. 0 % CounterModulus = 0
    BY QueueAssumption, ModSmall
  <1>3. CountersInv /\ SlotsInv
    BY <1>1, <1>2, QueueAssumption DEF CountersInv, SlotsInv, QueueInit
  <1>4. ReceiverInv
    BY DEF ReceiverInv, QueueInit
  <1>5. \A t \in Threads : WriterInv(t)
    BY DEF WriterInv, QueueInit, Holding, InSend
  <1> QED
    BY <1>3, <1>4, <1>5 DEF OrderInv

\* A step of a thread that writes no shared counter or slot keeps what the queue
\* and the receiver hold, and what the other threads believe.
LEMMA LocalStep ==
  ASSUME Typing, OrderInv, NEW t \in Threads,
         UNCHANGED <<head, tail, slot, sends, rhead, rmsg, accepted, delivered>>,
         dpc' = dpc \/ (dpc = "wait" /\ dpc' = "drain"),
         \A u \in Threads \ {t} : /\ myHead'[u] = myHead[u] /\ myTail'[u] = myTail[u]
                                  /\ pc'[u] = pc[u] \/ pc'[u] = "lock",
         WriterInv(t)'
  PROVE  OrderInv'
  <1>1. Written' = Written /\ ReadOut' = ReadOut
    BY DEF Written, ReadOut
  <1>2. CountersInv' /\ SlotsInv'
    BY <1>1 DEF OrderInv, CountersInv, SlotsInv, SlotOf
  <1>3. ReceiverInv'
    BY <1>1 DEF OrderInv, ReceiverInv
  <1>4. ASSUME NEW u \in Threads \ {t}
        PROVE  WriterInv(u)'
    <2>1. CASE pc'[u] = "lock"
      BY <2>1 DEF WriterInv, Holding
    <2>2. CASE pc'[u] = pc[u]
      BY <1>1, <2>2 DEF OrderInv, WriterInv, StaleFill, SlotOf
    <2> QED
      BY <2>1, <2>2
  <1> QED
    BY <1>2, <1>3, <1>4 DEF OrderInv

\* The writer's test of a full ring, on words that wrap, is exact: it goes on
\* only where its stale fill, hence the fill there is, leaves a slot.
LEMMA TestFullOrder ==
  ASSUME Typing, OrderInv, NEW t \in Threads, TestFull(t)
  PROVE  OrderInv'
  <1> DEFINE d == (myTail[t] - myHead[t]) % CounterModulus
  <1>1. d \in 0 .. Slots /\ Written - ReadOut <= d /\ myTail[t] = tail /\ StaleFill(t) = d
    <2>1. myTail[t] - myHead[t] \in Int /\ CounterModulus \in Nat \ {0}
      BY QueueAssumption DEF Typing, TypeOK, Counters
    <2>2. d \in 0 .. CounterModulus - 1
      BY <2>1, DivMod
    <2> QED
      BY <2>2, QueueAssumption
      DEF TestFull, OrderInv, WriterInv, StaleFill, Holding, InSend
  <1>2. Signed(myTail[t] - myHead[t]) = d
    <2> HIDE DEF d
    <2> QED
      BY <1>1, QueueAssumption DEF Signed, d
  <1>3. Written' = Written /\ ReadOut' = ReadOut
    BY DEF TestFull, Written, ReadOut, receiver, queueHistory
  <1>4. pc'[t] = IF d >= Slots THEN "stopFull" ELSE "stopLast"
    BY <1>2 DEF TestFull, Goto, Typing, TypeOK
  <1>5. /\ StaleFill(t)' = d /\ tail' = tail /\ myTail' = myTail
    BY <1>1, <1>4 DEF TestFull, StaleFill, shared
  <1>6. WriterInv(t)'
    <2> HIDE DEF d
    <2>1. Written \in Nat /\ ReadOut \in Nat
      BY CountersAreNat
    <2> QED
      BY <1>1, <1>3, <1>4, <1>5, <2>1, QueueAssumption DEF WriterInv
  <1> QED
    BY <1>6, LocalStep DEF TestFull, Goto, shared, receiver, queueHistory, Typing, TypeOK

\* A message goes into the slot of the write counter, which no message waiting
\* to be read is in: the lock lets one writer in, and it found a slot free.
LEMMA WriteSlotOrder ==
  ASSUME Typing, WritersExclude, OrderInv, NEW t \in Threads, WriteSlot(t)
  PROVE  OrderInv'
  <1>1. Written \in Nat /\ ReadOut \in Nat /\ Written' = Written /\ ReadOut' = ReadOut
    BY CountersAreNat DEF WriteSlot, Written, ReadOut, receiver, queueHistory
  <1>2. myTail[t] = tail /\ Written - ReadOut < Slots /\ StaleFill(t)' = StaleFill(t)
    BY DEF WriteSlot, OrderInv, WriterInv, Holding, InSend, StaleFill, Goto, Typing,
       TypeOK
  <1>3. SlotOf(tail) = SlotOf(Written) /\ SlotOf(tail) \in 0 .. Slots - 1
    BY <1>1, SlotOfWrapped DEF OrderInv, CountersInv
  <1>4. CountersInv' /\ ReceiverInv'
    BY <1>1 DEF WriteSlot, OrderInv, CountersInv, ReceiverInv, receiver, queueHistory
  <1>5. SlotsInv'
    <2> SUFFICES ASSUME NEW i \in ReadOut .. Written - 1
                 PROVE  slot'[SlotOf(i)] = accepted[i + 1]
      BY <1>1 DEF SlotsInv, WriteSlot, queueHistory, SlotOf
    <2>1. SlotOf(i) # SlotOf(Written)
      <3>1. i \in Int /\ Written \in Int /\ i < Written /\ Written < i + Slots
        BY <1>1, <1>2, QueueAssumption
      <3>2. Slots \in Nat \ {0}
        BY QueueAssumption
      <3> QED
        BY <3>1, <3>2, ModDistinct, Zenon DEF SlotOf
    <2>2. SlotOf(i) \in 0 .. Slots - 1
      BY <1>1, SlotOfWrapped
    <2>3. slot'[SlotOf(i)] = slot[SlotOf(i)]
      BY <1>2, <1>3, <2>1, <2>2 DEF WriteSlot, Typing, TypeOK
    <2> QED
      BY <2>3 DEF OrderInv, SlotsInv
  <1>6. WriterInv(t)'
    <2>1. slot'[SlotOf(tail)] = <<t, sends[t]>>
      BY <1>2, <1>3 DEF WriteSlot, Typing, TypeOK
    <2>2. pc[t] = "write" /\ pc'[t] = "publish" /\ tail' = tail /\ myTail' = myTail
          /\ sends' = sends
      BY DEF WriteSlot, Goto, Typing, TypeOK
    <2> QED
      BY <1>1, <1>2, <2>1, <2>2 DEF OrderInv, WriterInv, Holding, InSend
  <1>7. ASSUME NEW u \in Threads \ {t}
        PROVE  WriterInv(u)'
    <2>1. pc'[u] \notin Holding
      BY DEF WriteSlot, Goto, Typing, TypeOK, WritersExclude, Holding, InSend
    <2> QED
      BY <2>1 DEF WriterInv, Holding, InSend
  <1> QED
    BY <1>4, <1>5, <1>6, <1>7 DEF OrderInv

\* Publishing numbers the message the writer has just put in its slot.
LEMMA PublishOrder ==
  ASSUME Typing, WritersExclude, OrderInv, NEW t \in Threads, Publish(t)
  PROVE  OrderInv'
  <1> DEFINE msg == <<t, sends[t]>>
  <1>1. Written \in Nat /\ ReadOut \in Nat
    BY CountersAreNat
  <1>2. /\ accepted' = Append(accepted, msg) /\ accepted \in Seq(Messages)
        /\ msg \in Messages
    BY DEF Publish, Typing, TypeOK, Began, Messages
  <1>3. /\ Written' = Written + 1 /\ ReadOut' = ReadOut
        /\ accepted'[Written + 1] = msg
        /\ \A i \in 1 .. Written : accepted'[i] = accepted[i]
    BY <1>2, AppendProperties DEF Publish, Written, ReadOut, receiver
  <1>4. /\ myTail[t] = tail /\ Written - ReadOut < Slots
        /\ slot[SlotOf(tail)] = msg /\ tail = Written % CounterModulus
    BY DEF Publish, OrderInv, CountersInv, WriterInv, Holding, InSend
  <1>5. CountersInv'
    <2>1. Written \in Int /\ 1 \in Int /\ CounterModulus \in Nat \ {0}
      BY <1>1, QueueAssumption
    <2>2. ((Written % CounterModulus) + 1) % CounterModulus = (Written + 1) % CounterModulus
      BY <2>1, ModAdd, Zenon
    <2>3. tail' = Written' % CounterModulus
      BY <1>3, <1>4, <2>2 DEF Publish
    <2>4. head' = head /\ head = ReadOut % CounterModulus /\ ReadOut <= Written
      BY DEF Publish, OrderInv, CountersInv
    <2>5. head' = ReadOut' % CounterModulus
      BY <1>3, <2>4
    <2>6. ReadOut' <= Written' /\ Written' <= ReadOut' + Slots
      BY <1>1, <1>3, <1>4, <2>4, QueueAssumption
    <2> QED
      BY <2>3, <2>5, <2>6 DEF CountersInv
  <1>6. SlotsInv'
    <2>0. ReadOut' .. Written' - 1 = ReadOut .. Written /\ slot' = slot
      BY <1>1, <1>3 DEF Publish
    <2> SUFFICES ASSUME NEW i \in ReadOut .. Written
                 PROVE  slot[SlotOf(i)] = accepted'[i + 1]
      BY <2>0 DEF SlotsInv, SlotOf
    <2>1. CASE i = Written
      BY <1>1, <1>3, <1>4, <2>1, SlotOfWrapped
    <2>2. CASE i # Written
      BY <1>1, <1>3, <2>2 DEF OrderInv, SlotsInv
    <2> QED
      BY <2>1, <2>2
  <1>7. ReceiverInv'
    <2> HIDE DEF msg
    <2>1. Len(delivered) \in Nat /\ Len(delivered) <= ReadOut /\ ReadOut <= Written
      BY LenProperties DEF ReadOut, OrderInv, CountersInv, Typing, TypeOK
    <2>2. \A i \in 1 .. Len(delivered) : delivered[i] = accepted'[i]
      BY <1>1, <1>3, <2>1 DEF OrderInv, ReceiverInv
    <2>3. dpc \in {"notify", "receive"} => 1 <= ReadOut
      BY <2>1 DEF ReadOut
    <2>4. /\ dpc \in {"notify", "receive"} => rmsg = accepted'[ReadOut]
          /\ dpc = "store" => rmsg = accepted'[ReadOut + 1]
      <3>1. dpc \in {"notify", "receive"} => ReadOut \in 1 .. Written
        BY <1>1, <2>1, <2>3
      <3>2. dpc = "store" => ReadOut + 1 \in 1 .. Written
        BY <1>1 DEF OrderInv, ReceiverInv
      <3> QED
        BY <1>3, <3>1, <3>2 DEF OrderInv, ReceiverInv
    <2>5. dpc \in {"read", "store"} => rhead = head /\ ReadOut' < Written'
      BY <1>1, <1>3 DEF OrderInv, ReceiverInv
    <2>6. UNCHANGED <<dpc, rhead, rmsg, head, delivered>>
      BY DEF Publish, receiver
    <2> QED
      BY <1>3, <2>2, <2>4, <2>5, <2>6 DEF ReceiverInv
  <1>8. ASSUME NEW u \in Threads
        PROVE  WriterInv(u)'
    <2>1. pc'[u] \notin Holding \/ pc'[u] = "notify"
      BY DEF Publish, Goto, Typing, TypeOK, WritersExclude, Holding, InSend
    <2> QED
      BY <2>1 DEF WriterInv, Holding, InSend
  <1> QED
    BY <1>5, <1>6, <1>7, <1>8 DEF OrderInv

\* Every step of a thread keeps the order.
LEMMA SendOrder ==
  ASSUME Typing, WritersExclude, OrderInv, NEW t \in Threads, Send(t) \/ SendStep(t)
  PROVE  OrderInv'
  <1>0. Written \in Nat /\ ReadOut \in Nat
    BY CountersAreNat
  <1> DEFINE Local == <<head, tail, slot, sends, rhead, rmsg, accepted, delivered>>
  <1> USE DEF Typing, TypeOK, Holding, InSend, Goto, shared, receiver, queueHistory
  <1>1. CASE Send(t)
    <2>1. pc'[t] = "lock"
      BY <1>1 DEF Send
    <2>2. CountersInv' /\ SlotsInv' /\ ReceiverInv'
      BY <1>1 DEF Send, OrderInv, CountersInv, SlotsInv, ReceiverInv, Written, ReadOut, SlotOf
    <2>3. ASSUME NEW u \in Threads PROVE WriterInv(u)'
      <3>1. CASE u = t
        BY <2>1, <3>1 DEF WriterInv
      <3>2. CASE u # t
        BY <1>1, <3>2 DEF Send, OrderInv, WriterInv, StaleFill, Written, ReadOut, SlotOf
      <3> QED
        BY <3>1, <3>2
    <2> QED
      BY <2>2, <2>3 DEF OrderInv
  <1>2. CASE TakeLock(t)
    BY <1>2, LocalStep DEF TakeLock, WriterInv
  <1>3. CASE WaitLock(t)
    BY <1>3, LocalStep DEF WaitLock, WriterInv
  <1>4. CASE LoadHead(t)
    <2>1. (tail - head) % CounterModulus = Written - ReadOut
      BY TrueFill DEF OrderInv
    <2>2. StaleFill(t)' = (tail - head) % CounterModulus
      BY <1>4 DEF LoadHead, StaleFill
    <2>3. Written' = Written /\ ReadOut' = ReadOut /\ Written - ReadOut <= Slots
      BY <1>0, <1>4, QueueAssumption DEF LoadHead, Written, ReadOut, OrderInv, CountersInv
    <2>4. WriterInv(t)'
      <3>1. pc'[t] = "loadTail"
        BY <1>4 DEF LoadHead
      <3> QED
        BY <1>0, <2>1, <2>2, <2>3, <3>1 DEF WriterInv
    <2> QED
      BY <1>4, <2>4, LocalStep DEF LoadHead
  <1>5. CASE LoadTail(t)
    <2>1. pc[t] = "loadTail" /\ pc'[t] = "full" /\ myTail'[t] = tail'
      BY <1>5 DEF LoadTail
    <2>2. StaleFill(t)' = StaleFill(t)
      BY <1>5, <2>1 DEF LoadTail, StaleFill
    <2>3. Written' = Written /\ ReadOut' = ReadOut
      BY <1>5 DEF LoadTail, Written, ReadOut
    <2>4. WriterInv(t)'
      BY <2>1, <2>2, <2>3 DEF WriterInv, OrderInv
    <2> QED
      BY <1>5, <2>4, LocalStep DEF LoadTail
  <1>6. CASE TestFull(t)
    BY <1>6, TestFullOrder
  <1>7. CASE TestStopFull(t) \/ WaitHead(t) \/ TestStopLast(t)
    <2>1. /\ pc[t] \in {"stopFull", "headWait", "stopLast"}
          /\ pc'[t] \in {"unlock", "headWait", "headSleep", "reload", "write"}
          /\ pc'[t] = "write" => pc[t] = "stopLast"
      BY <1>7 DEF TestStopFull, WaitHead, TestStopLast
    <2>2. /\ UNCHANGED <<myTail, myHead, Local>>
          /\ dpc' = dpc
      BY <1>7 DEF TestStopFull, WaitHead, TestStopLast
    <2>3. StaleFill(t)' = StaleFill(t) /\ Written' = Written /\ ReadOut' = ReadOut
      BY <2>1, <2>2 DEF StaleFill, Written, ReadOut
    <2>4. WriterInv(t)'
      BY <2>1, <2>2, <2>3 DEF WriterInv, OrderInv
    <2>5. \A u \in Threads \ {t} : pc'[u] = pc[u]
      BY <1>7 DEF TestStopFull, WaitHead, TestStopLast
    <2> QED
      BY <2>2, <2>4, <2>5, LocalStep
  <1>8. CASE ReloadHead(t)
    <2>1. (tail - head) % CounterModulus = Written - ReadOut
      BY TrueFill DEF OrderInv
    <2>2. pc'[t] = "full" /\ myTail'[t] = tail' /\ tail' = tail
      BY <1>8 DEF ReloadHead, OrderInv, WriterInv
    <2>3. StaleFill(t)' = (tail - head) % CounterModulus
      BY <1>8, <2>2 DEF ReloadHead, StaleFill
    <2>4. Written' = Written /\ ReadOut' = ReadOut /\ Written - ReadOut <= Slots
      BY <1>0, <1>8, QueueAssumption DEF ReloadHead, Written, ReadOut, OrderInv, CountersInv
    <2>5. WriterInv(t)'
      BY <1>0, <2>1, <2>2, <2>3, <2>4 DEF WriterInv
    <2> QED
      BY <1>8, <2>5, LocalStep DEF ReloadHead
  <1>9. CASE WriteSlot(t)
    BY <1>9, WriteSlotOrder
  <1>10. CASE Publish(t)
    BY <1>10, PublishOrder
  <1>11. CASE NotifyTail(t)
    BY <1>11, LocalStep DEF NotifyTail, WriterInv
  <1>12. CASE Unlock(t)
    BY <1>12, LocalStep DEF Unlock, WriterInv
  <1>13. CASE NotifyLock(t)
    <2>1. \A u \in Threads \ {t} : pc'[u] = pc[u] \/ pc'[u] = "lock"
      BY <1>13 DEF NotifyLock
    <2>2. pc'[t] = "out"
      BY <1>13 DEF NotifyLock
    <2>3. WriterInv(t)'
      BY <2>2 DEF WriterInv
    <2> QED
      BY <1>13, <2>1, <2>3, LocalStep DEF NotifyLock
  <1> QED
    BY <1>1, <1>2, <1>3, <1>4, <1>5, <1>6, <1>7, <1>8, <1>9, <1>10, <1>11,
       <1>12, <1>13 DEF SendStep

\* The main thread's steps keep the order: it alone moves the read counter, and
\* takes a message out of its slot before it gives the slot back.
LEMMA MainOrder ==
  ASSUME Typing, OrderInv, ReceiveStep \/ Stop \/ StopStep
  PROVE  OrderInv'
  <1>0. Written \in Nat /\ ReadOut \in Nat /\ Written' = Written
    BY CountersAreNat DEF ReceiveStep, Drain, TestLoop, ReadSlot, StoreHead, NotifyHead,
       Receive, ReceiveReturns, Rearm, Stop, StopStep, StopNotifyTail, StopNotifyHead,
       Written, queueHistory
  <1>1. UNCHANGED <<tail, slot, accepted, myHead, myTail, sends>>
    BY DEF ReceiveStep, Drain, TestLoop, ReadSlot, StoreHead, NotifyHead,
       Receive, ReceiveReturns, Rearm, Stop, StopStep, StopNotifyTail, StopNotifyHead,
       shared, sender, queueHistory
  <1>2. ASSUME NEW u \in Threads
        PROVE  pc'[u] = pc[u] \/ (pc[u] = "headSleep" /\ pc'[u] = "reload")
    <2>1. pc' = pc \/ pc' = WakeHead
      BY DEF ReceiveStep, Drain, TestLoop, ReadSlot, StoreHead, NotifyHead, Receive,
         ReceiveReturns, Rearm, Stop, StopStep, StopNotifyTail, StopNotifyHead, sender
    <2> QED
      BY <2>1 DEF WakeHead
  <1>3. ASSUME ReadOut <= ReadOut', ReadOut' \in Nat, NEW u \in Threads
        PROVE  WriterInv(u)'
    <2>1. StaleFill(u)' = StaleFill(u)
      BY <1>1, <1>2 DEF StaleFill
    <2>2. StaleFill(u) \in Int
      <3>1. CounterModulus \in Nat \ {0} /\ tail - myHead[u] \in Int /\ myTail[u] - myHead[u] \in Int
        BY QueueAssumption DEF Typing, TypeOK, Counters
      <3>0. \A a \in Int : a % CounterModulus \in Int
        BY <3>1
      <3>2. (tail - myHead[u]) % CounterModulus \in Int /\ (myTail[u] - myHead[u]) % CounterModulus \in Int
        BY <3>0, <3>1, Zenon
      <3> QED
        BY <3>2 DEF StaleFill
    <2>3. Written' - ReadOut' <= Written - ReadOut
      <3>1. \A w, a, b \in Nat : a <= b => w - b <= w - a
        OBVIOUS
      <3> QED
        BY <1>0, <1>3, <3>1
    <2>4. WriterInv(u)
      BY DEF OrderInv
    <2>5. /\ pc'[u] \in Holding \ {"loadHead", "loadTail", "notify", "unlock"} =>
               myTail'[u] = tail'
          /\ pc'[u] = "publish" => slot'[SlotOf(tail')] = <<u, sends'[u]>>
      BY <1>1, <1>2, <2>4 DEF WriterInv, Holding, InSend, SlotOf
    <2>6. pc'[u] \in Holding \ {"loadHead", "notify", "unlock"} =>
            Written' - ReadOut' <= StaleFill(u)' /\ StaleFill(u)' <= Slots
      <3> SUFFICES ASSUME pc'[u] \in Holding \ {"loadHead", "notify", "unlock"}
                   PROVE  Written' - ReadOut' <= StaleFill(u)' /\ StaleFill(u)' <= Slots
        OBVIOUS
      <3>1. pc[u] \in Holding \ {"loadHead", "notify", "unlock"}
        BY <1>2 DEF Holding, InSend
      <3>2. Written - ReadOut <= StaleFill(u) /\ StaleFill(u) <= Slots
        BY <2>4, <3>1 DEF WriterInv
      <3>3. \A c, a, b \in Int : c <= a /\ a <= b => c <= b
        OBVIOUS
      <3>4. Written' - ReadOut' \in Int /\ Written - ReadOut \in Int
        BY <1>0, <1>3
      <3> QED
        BY <2>1, <2>2, <2>3, <3>2, <3>3, <3>4
    <2>7. pc'[u] \in {"stopLast", "write", "publish"} => Written' - ReadOut' < Slots
      <3>1. \A c, a \in Int : c <= a /\ a < Slots => c < Slots
        BY QueueAssumption
      <3>2. Written' - ReadOut' \in Int /\ Written - ReadOut \in Int
        BY <1>0, <1>3
      <3>3. pc'[u] \in {"stopLast", "write", "publish"} => Written - ReadOut < Slots
        BY <1>2, <2>4 DEF WriterInv
      <3> QED
        BY <2>3, <3>1, <3>2, <3>3
    <2> QED
      BY <2>5, <2>6, <2>7 DEF WriterInv
  <1>4. ASSUME ReadOut' = ReadOut, head' = head, ReceiverInv'
        PROVE  OrderInv'
    <2>1. CountersInv' /\ SlotsInv'
      BY <1>0, <1>1, <1>4 DEF OrderInv, CountersInv, SlotsInv, SlotOf
    <2> QED
      BY <1>0, <1>3, <1>4, <2>1 DEF OrderInv
  <1>5. CASE Drain \/ NotifyHead \/ ReceiveReturns \/ Rearm \/ Stop \/ StopStep
    <2>1. UNCHANGED <<head, rhead, rmsg, delivered>>
      BY <1>5 DEF Drain, NotifyHead, ReceiveReturns, Rearm, Stop, StopStep,
         StopNotifyTail, StopNotifyHead, shared, receiver, queueHistory
    <2>2. \/ dpc' = dpc
          \/ dpc = "notify" /\ dpc' = "receive"
          \/ /\ dpc \notin {"notify", "receive"}
             /\ dpc' \notin {"read", "store", "notify", "receive"}
      BY <1>5 DEF Drain, NotifyHead, ReceiveReturns, Rearm, Stop, StopStep,
         StopNotifyTail, StopNotifyHead, receiver
    <2>3. ReadOut' = ReadOut
      BY <2>1, <2>2 DEF ReadOut
    <2>4. ReceiverInv'
      BY <1>0, <1>1, <2>1, <2>2, <2>3 DEF OrderInv, ReceiverInv
    <2> QED
      BY <1>4, <2>1, <2>3, <2>4
  <1>6. CASE TestLoop
    <2>1. ReadOut' = ReadOut /\ head' = head
      BY <1>6 DEF TestLoop, ReadOut, shared, queueHistory
    <2>2. head # tail => ReadOut < Written
      BY <1>0 DEF OrderInv, CountersInv
    <2>3. ReceiverInv'
      BY <1>0, <1>1, <1>6, <2>1, <2>2 DEF TestLoop, OrderInv, ReceiverInv, queueHistory
    <2> QED
      BY <1>4, <2>1, <2>3
  <1>7. CASE ReadSlot
    <2>1. ReadOut' = ReadOut /\ head' = head
      BY <1>7 DEF ReadSlot, ReadOut, shared, queueHistory
    <2>2. rmsg' = accepted[ReadOut + 1]
      <3>1. rhead = ReadOut % CounterModulus /\ ReadOut \in ReadOut .. Written - 1
        BY <1>0, <1>7 DEF ReadSlot, OrderInv, ReceiverInv, CountersInv
      <3>2. SlotOf(rhead) = SlotOf(ReadOut)
        BY <1>0, <3>1, SlotOfWrapped
      <3> QED
        BY <1>7, <3>1, <3>2 DEF ReadSlot, OrderInv, SlotsInv
    <2>3. ReceiverInv'
      BY <1>0, <1>1, <1>7, <2>1, <2>2 DEF ReadSlot, OrderInv, ReceiverInv, queueHistory
    <2> QED
      BY <1>4, <2>1, <2>3
  <1>8. CASE StoreHead
    <2>1. ReadOut' = ReadOut + 1 /\ delivered' = delivered /\ rmsg' = rmsg /\ dpc' = "notify"
      BY <1>0, <1>8 DEF StoreHead, ReadOut, queueHistory, Typing, TypeOK
    <2>2. head' = ReadOut' % CounterModulus
      <3>1. ReadOut \in Int /\ 1 \in Int /\ CounterModulus \in Nat \ {0}
        BY <1>0, QueueAssumption
      <3>2. ((ReadOut % CounterModulus) + 1) % CounterModulus = (ReadOut + 1) % CounterModulus
        BY <3>1, ModAdd, Zenon
      <3> QED
        BY <1>8, <2>1, <3>2 DEF StoreHead, OrderInv, ReceiverInv, CountersInv
    <2>3. ReadOut < Written /\ rmsg = accepted[ReadOut + 1]
      BY <1>8 DEF StoreHead, OrderInv, ReceiverInv
    <2>4. CountersInv'
      BY <1>0, <1>1, <2>1, <2>2, <2>3, QueueAssumption DEF OrderInv, CountersInv
    <2>5. SlotsInv'
      BY <1>0, <1>1, <2>1 DEF OrderInv, SlotsInv, SlotOf
    <2>6. ReceiverInv'
      BY <1>0, <1>1, <2>1, <2>3 DEF OrderInv, ReceiverInv
    <2>7. \A u \in Threads : WriterInv(u)'
      BY <1>0, <1>3, <2>1
    <2> QED
      BY <2>4, <2>5, <2>6, <2>7 DEF OrderInv
  <1>9. CASE Receive
    <2>1. /\ Len(delivered') = Len(delivered) + 1 /\ Len(delivered) \in Nat
          /\ delivered'[Len(delivered) + 1] = rmsg
          /\ \A i \in 1 .. Len(delivered) : delivered'[i] = delivered[i]
      BY <1>9, AppendProperties, LenProperties DEF Receive, Typing, TypeOK
    <2>2. ReadOut' = ReadOut /\ ReadOut = Len(delivered) + 1 /\ head' = head
      BY <1>9, <2>1 DEF Receive, ReadOut, shared
    <2>3. rmsg = accepted[ReadOut]
      BY <1>9 DEF Receive, OrderInv, ReceiverInv
    <2>4. \A i \in 1 .. Len(delivered') : delivered'[i] = accepted'[i]
      BY <1>1, <2>1, <2>2, <2>3 DEF OrderInv, ReceiverInv
    <2>5. ReceiverInv'
      BY <1>9, <2>4 DEF Receive, ReceiverInv
    <2> QED
      BY <1>4, <2>2, <2>5
  <1> QED
    BY <1>5, <1>6, <1>7, <1>8, <1>9 DEF ReceiveStep

\* A step that changes nothing keeps the order.
LEMMA StutterOrder ==
  ASSUME OrderInv, UNCHANGED queueVars
  PROVE  OrderInv'
  <1>1. UNCHANGED <<head, tail, slot, pc, myHead, myTail, sends, dpc, rhead, rmsg,
                    accepted, delivered>>
    BY DEF queueVars, shared, sender, receiver, queueHistory
  <1>2. Written' = Written /\ ReadOut' = ReadOut
    BY <1>1 DEF Written, ReadOut
  <1>3. CountersInv' /\ SlotsInv' /\ ReceiverInv'
    BY <1>1, <1>2 DEF OrderInv, CountersInv, SlotsInv, ReceiverInv, SlotOf
  <1>4. \A t \in Threads : WriterInv(t)'
    BY <1>1, <1>2 DEF OrderInv, WriterInv, StaleFill, SlotOf
  <1> QED
    BY <1>3, <1>4 DEF OrderInv

\* The invariant says what the property says: the published messages are those
\* handed on, the one in hand and those in the slots.
LEMMA OrderImpliesInOrder ==
  ASSUME Typing, OrderInv
  PROVE  InOrder
  <1> DEFINE M == Messages \cup {NoMessage}
  <1>1. Written \in Nat /\ ReadOut \in Nat /\ Len(delivered) \in Nat
    BY CountersAreNat, LenProperties DEF Typing, TypeOK
  <1>2. Fill = Written - ReadOut
    BY TrueFill DEF Fill, OrderInv
  <1>3. Fill \in Nat /\ Fill <= Slots
    BY <1>1, <1>2, QueueAssumption DEF OrderInv, CountersInv
  <1>4. \A i \in 1 .. Fill : Waiting[i] = accepted[ReadOut + i]
    <2> SUFFICES ASSUME NEW i \in 1 .. Fill
                 PROVE  slot[SlotOf(head + i - 1)] = accepted[ReadOut + i]
      BY DEF Waiting
    <2> DEFINE n == ReadOut + i - 1
    <2>1. n \in Nat /\ n \in ReadOut .. Written - 1 /\ n + 1 = ReadOut + i
      BY <1>1, <1>2
    <2>2. SlotOf(head + i - 1) = SlotOf(n)
      <3>1. head = ReadOut % CounterModulus /\ ReadOut \in Int /\ i - 1 \in Int
        BY <1>1 DEF OrderInv, CountersInv
      <3>2. CounterModulus \in Nat \ {0} /\ Slots \in Nat \ {0} /\ CounterModulus % Slots = 0
        BY QueueAssumption
      <3> DEFINE k == i - 1
                 h == head + k
      <3>3. k \in Int /\ h \in Int /\ head \in Int
        BY <3>1 DEF Typing, TypeOK, Counters
      <3> HIDE DEF k, h
      <3>4. ((ReadOut % CounterModulus) + k) % CounterModulus = (ReadOut + k) % CounterModulus
        BY <3>1, <3>2, <3>3, ModAdd, Zenon
      <3>5. (h % CounterModulus) % Slots = h % Slots
        BY <3>2, <3>3, ModOfMultiple, Zenon
      <3>6. (n % CounterModulus) % Slots = n % Slots
        <4> HIDE DEF n
        <4>1. n \in Int
          BY <2>1
        <4> QED
          BY <3>2, <4>1, ModOfMultiple, Zenon
      <3>7. h % CounterModulus = n % CounterModulus
        <4>1. n = ReadOut + k
          BY <1>1 DEF k
        <4> QED
          BY <3>1, <3>4, <4>1 DEF h
      <3>8. head + i - 1 = h
        BY <3>3 DEF h, k
      <3> QED
        BY <3>5, <3>6, <3>7, <3>8 DEF SlotOf
    <2> QED
      BY <2>1, <2>2 DEF OrderInv, SlotsInv
  <1>5. Waiting \in Seq(M) /\ Len(Waiting) = Fill
    <2>1. \A i \in 1 .. Fill : SlotOf(head + i - 1) \in 0 .. Slots - 1
      <3> SUFFICES ASSUME NEW i \in 1 .. Fill
                   PROVE  SlotOf(head + i - 1) \in 0 .. Slots - 1
        OBVIOUS
      <3>1. head + i - 1 \in Int /\ Slots \in Nat \ {0}
        BY QueueAssumption, <1>3 DEF Typing, TypeOK, Counters
      <3> QED
        BY <3>1, DivMod DEF SlotOf
    <2>2. Waiting \in [1 .. Fill -> M]
      BY <2>1 DEF Waiting, Typing, TypeOK
    <2> QED
      BY <1>3, <2>2, LenProperties
  <1>6. /\ InFlight \in Seq(M) /\ Len(InFlight) = ReadOut - Len(delivered)
        /\ \A i \in 1 .. Len(InFlight) : InFlight[i] = accepted[Len(delivered) + i]
    <2>1. CASE dpc \in {"notify", "receive"}
      <3>1. InFlight = <<rmsg>> /\ ReadOut = Len(delivered) + 1 /\ rmsg = accepted[ReadOut]
        BY <2>1 DEF InFlight, ReadOut, OrderInv, ReceiverInv
      <3>2. rmsg \in M
        BY DEF Typing, TypeOK
      <3> QED
        BY <1>1, <3>1, <3>2
    <2>2. CASE dpc \notin {"notify", "receive"}
      <3>1. InFlight = <<>> /\ ReadOut = Len(delivered)
        BY <1>1, <2>2 DEF InFlight, ReadOut
      <3> QED
        BY <1>1, <3>1
    <2> QED
      BY <2>1, <2>2
  <1>7. delivered \in Seq(M) /\ accepted \in Seq(M)
    BY DEF Typing, TypeOK
  <1> DEFINE front == delivered \o InFlight
             all   == front \o Waiting
  <1>8. /\ front \in Seq(M) /\ Len(front) = ReadOut
        /\ \A i \in 1 .. ReadOut : front[i] = accepted[i]
    <2>1. front \in Seq(M) /\ Len(front) = ReadOut
      BY <1>1, <1>6, <1>7
    <2>2. ASSUME NEW i \in 1 .. ReadOut PROVE front[i] = accepted[i]
      <3>1. CASE i <= Len(delivered)
        BY <1>1, <1>6, <1>7, <3>1 DEF OrderInv, ReceiverInv
      <3>2. CASE i > Len(delivered)
        <4> DEFINE j == i - Len(delivered)
        <4>1. j \in 1 .. Len(InFlight) /\ Len(delivered) + j = i
          BY <1>1, <1>6, <3>2
        <4>2. front[i] = InFlight[j]
          BY <1>1, <1>6, <1>7, <3>2, <4>1
        <4> QED
          BY <1>6, <4>1, <4>2
      <3>3. i <= Len(delivered) \/ i > Len(delivered)
        BY <1>1
      <3> QED
        BY <3>1, <3>2, <3>3
    <2> QED
      BY <2>1, <2>2
  <1>9. /\ all \in Seq(M) /\ Len(all) = Written
        /\ \A i \in 1 .. Written : all[i] = accepted[i]
    <2> HIDE DEF front
    <2>1. all \in Seq(M) /\ Len(all) = Written
      BY <1>1, <1>2, <1>5, <1>8
    <2>2. ASSUME NEW i \in 1 .. Written PROVE all[i] = accepted[i]
      <3>1. CASE i <= ReadOut
        BY <1>1, <1>5, <1>8, <3>1
      <3>2. CASE i > ReadOut
        <4>1. all[i] = Waiting[i - ReadOut] /\ i - ReadOut \in 1 .. Fill
          BY <1>1, <1>2, <1>5, <1>8, <3>2
        <4>2. ReadOut + (i - ReadOut) = i
          BY <1>1
        <4> QED
          BY <1>4, <4>1, <4>2
      <3>3. i <= ReadOut \/ i > ReadOut
        BY <1>1
      <3> QED
        BY <3>1, <3>2, <3>3
    <2> QED
      BY <2>1, <2>2
  <1>10. accepted = all
    <2> HIDE DEF all
    <2> QED
      BY <1>7, <1>9, SeqEqual DEF Written
  <1> QED
    BY <1>3, <1>10 DEF InOrder

\* For any ring, any modulus it divides and any number of threads, a message is
\* received exactly once, in the order of its publication, and never overwritten
\* before it is: the lock, the stale test of a full ring and the wrapping counters
\* together.
THEOREM Order == QueueSpec => []InOrder
  <1> DEFINE Inv == Typing /\ WritersExclude /\ OrderInv
  <1>1. QueueInit => Inv
    <2>1. QueueInit => WritersExclude
      BY DEF QueueInit, WritersExclude, Holding, InSend
    <2> QED
      BY <2>1, InitTyping, InitOrder
  <1>2. Inv /\ [QueueNext]_queueVars => Inv'
    <2> SUFFICES ASSUME Inv, [QueueNext]_queueVars PROVE Inv'
      OBVIOUS
    <2>1. CASE UNCHANGED queueVars
      <3>1. WritersExclude'
        BY <2>1 DEF WritersExclude, queueVars, shared, sender
      <3> QED
        BY <2>1, <3>1, StutterTyping, StutterOrder
    <2>2. CASE QueueNext
      BY <2>2, SendTyping, MainTyping, SendExclude, MainExclude, SendOrder, MainOrder
      DEF QueueNext
    <2> QED
      BY <2>1, <2>2
  <1>3. Inv => InOrder
    BY OrderImpliesInOrder
  <1> QED
    BY <1>1, <1>2, <1>3, PTL DEF QueueSpec

----------------------------------------------------------------------------
(* The invariant                                                            *)

Taken == Len(received)

\* The numbers and the sequences they are kept in.
RingTypes ==
  /\ published \in Nat /\ submitted \in 0 .. MaxBytes /\ closed \in {0, 1} /\ eof \in BOOLEAN
  /\ early \in BOOLEAN /\ received \in Seq(Nat) /\ wqueue \in Seq(Nat) /\ rlen \in Nat
  /\ data \in [0 .. Capacity - 1 -> Nat] /\ rop \in {"block", "drain", "try"}

\* The shared words are the counters modulo 2^32, never more than the ring apart.
Indices ==
  /\ windex = published % Modulus /\ rindex = Taken % Modulus
  /\ Taken <= published /\ published <= Taken + Capacity

\* Every byte written and not yet taken is in its place.
Contents == \A n \in Taken + 1 .. published : data[(n - 1) % Capacity] = n

\* The writes that are left end one after the other, beyond what is published; the
\* one whose bytes have just been stored may end there.
Queue ==
  /\ published <= submitted
  /\ \A i \in 1 .. Len(wqueue) :
       /\ wqueue[i] <= submitted
       /\ wqueue[i] > published \/ (i = 1 /\ wqueue[i] = published /\ wpc \in {"add", "notify"})
  /\ \A i, j \in 1 .. Len(wqueue) : i < j => wqueue[i] < wqueue[j]
  /\ wpc # "idle" => wqueue # <<>>

\* The read index a put has loaded is one of the past, with room enough since.
Seen == wpc = "room" =>
  \E r \in 0 .. Taken : wread = r % Modulus /\ published <= r + Capacity

\* What a put is to store fits, and is in place before it is published.
Stored ==
  /\ wpc \in {"copy", "store"} =>
       /\ wcount \in 1 .. Capacity /\ published + wcount <= Taken + Capacity
       /\ published + wcount <= wqueue[1]
  /\ wpc = "store" =>
       \A n \in published + 1 .. published + wcount : data[(n - 1) % Capacity] = n

\* What a read has copied out is what comes next.
Copied == rpc = "store" =>
  \E c \in 1 .. Capacity : rbuf = [i \in 1 .. c |-> Taken + i] /\ Taken + c <= published

\* A put goes on after the close only where it was closed under it, and the end is
\* told of a closed ring.
Ending ==
  /\ closed = 1 => wpc = "idle" \/ early
  /\ rpc = "lookAgain" \/ eof => closed = 1

RingInv == RingTypes /\ Indices /\ Contents /\ Queue /\ Seen /\ Stored /\ Copied /\ Ending

----------------------------------------------------------------------------
(* Where a byte is                                                          *)

\* A byte's place counted from a wrapped index is its place counted from the counter.
LEMMA SlotAdd ==
  ASSUME NEW a \in Int, NEW k \in Int
  PROVE  ((a % Modulus) + k) % Capacity = (a + k) % Capacity
  <1>1. PICK w : w = a % Modulus
    OBVIOUS
  <1>0. Capacity \in Nat \ {0} /\ Modulus \in Nat \ {0} /\ Modulus % Capacity = 0
    BY RingAssumption
  <1>2. w \in Int /\ w % Capacity = a % Capacity
    <2>1. (a % Modulus) % Capacity = a % Capacity
      BY <1>0, ModOfMultiple
    <2>2. a % Modulus \in Int
      BY <1>0, DivMod
    <2> QED
      BY <1>1, <2>1, <2>2
  <1>3. ((w % Capacity) + k) % Capacity = (w + k) % Capacity
    BY <1>2, <1>0, ModAdd
  <1>4. ((a % Capacity) + k) % Capacity = (a + k) % Capacity
    BY <1>0, ModAdd
  <1> QED
    BY <1>1, <1>2, <1>3, <1>4

\* How far a place of the data area is from a wrapped index.
LEMMA SlotSub ==
  ASSUME NEW a \in Int, NEW b \in Int
  PROVE  ((a % Capacity) - (b % Modulus)) % Capacity = (a - b) % Capacity
  <1>1. PICK w : w = b % Modulus
    OBVIOUS
  <1>0. Capacity \in Nat \ {0} /\ Modulus \in Nat \ {0} /\ Modulus % Capacity = 0
    BY RingAssumption
  <1>2. w \in Int /\ w % Capacity = b % Capacity
    <2>1. (b % Modulus) % Capacity = b % Capacity
      BY <1>0, ModOfMultiple
    <2>2. b % Modulus \in Int
      BY <1>0, DivMod
    <2> QED
      BY <1>1, <2>1, <2>2
  <1>3. a % Capacity \in Int /\ -w \in Int
    BY <1>2, <1>0, DivMod
  <1>4. ((a % Capacity) + (-w)) % Capacity = (a + (-w)) % Capacity
    BY <1>3, <1>0, ModAdd
  <1>5. (a % Capacity) + (-w) = (a % Capacity) - w /\ a + (-w) = a - w
    BY <1>2, <1>3
  <1>6. ((a % Capacity) - (w % Capacity)) % Capacity = (a - w) % Capacity
    BY <1>2, <1>0, ModSub
  <1>7. ((a % Capacity) - (b % Capacity)) % Capacity = (a - b) % Capacity
    BY <1>0, ModSub
  <1> QED
    BY <1>1, <1>2, <1>4, <1>5, <1>6, <1>7

\* One turn of the ring ahead is the same place.
LEMMA OneTurn ==
  ASSUME NEW x \in Int, NEW y \in 0 .. Capacity - 1, x + Capacity = y
  PROVE  x % Capacity = y
  <1>1. x = Capacity * (-1) + y
    BY RingAssumption
  <1>2. Capacity \in Nat \ {0} /\ -1 \in Int
    BY RingAssumption
  <1>3. PICK q : q = -1
    OBVIOUS
  <1> QED
    BY <1>1, <1>2, <1>3, ModUnique

\* The unsigned difference of two wrapped counters is how far they are apart.
LEMMA Apart ==
  ASSUME NEW a \in Nat, NEW b \in Nat, b <= a, a <= b + Capacity
  PROVE  ((a % Modulus) - (b % Modulus)) % Modulus = a - b
  <1>1. Modulus \in Nat \ {0} /\ a \in Int /\ b \in Int
    BY RingAssumption
  <1>2. ((a % Modulus) - (b % Modulus)) % Modulus = (a - b) % Modulus
    BY <1>1, ModSub
  <1>3. a - b \in 0 .. Modulus - 1
    BY RingAssumption
  <1>4. PICK d : d = a - b
    OBVIOUS
  <1>5. d % Modulus = d
    BY <1>1, <1>3, <1>4, ModSmall
  <1> QED
    BY <1>2, <1>4, <1>5

\* The fill computed from the wrapped indices is the number of bytes not yet taken.
LEMMA FillIs ==
  ASSUME RingInv
  PROVE  /\ Taken \in Nat /\ published \in Nat
         /\ Available = published - Taken /\ Available \in 0 .. Capacity
  <1>1. Taken \in Nat /\ published \in Nat /\ Taken <= published /\ published <= Taken + Capacity
    BY DEF RingInv, RingTypes, Indices, Taken
  <1>2. windex = published % Modulus /\ rindex = Taken % Modulus
    BY DEF RingInv, Indices
  <1>3. Available = published - Taken
    BY <1>1, <1>2, Apart DEF Available
  <1> QED
    BY <1>1, <1>3, RingAssumption

\* The room a put computes from the read index it loaded is there.
LEMMA RoomIs ==
  ASSUME RingInv, wpc = "room"
  PROVE  RoomLeft \in 0 .. Capacity /\ published + RoomLeft <= Taken + Capacity
  <1>1. PICK r \in 0 .. Taken : wread = r % Modulus /\ published <= r + Capacity
    BY DEF RingInv, Seen
  <1>2. Taken \in Nat /\ published \in Nat /\ Taken <= published
    BY FillIs DEF RingInv, Indices
  <1>3. r \in Nat /\ r <= published
    BY <1>1, <1>2
  <1>4. windex = published % Modulus
    BY DEF RingInv, Indices
  <1>5. RoomLeft = Capacity - (published - r)
    BY <1>1, <1>2, <1>3, <1>4, Apart DEF RoomLeft
  <1> QED
    BY <1>1, <1>2, <1>3, <1>5, RingAssumption

----------------------------------------------------------------------------
(* The steps that move no byte                                              *)

\* What a step that stores no index and copies no byte leaves as it was.
LEMMA Frame ==
  ASSUME RingInv, UNCHANGED <<windex, rindex, data, published, received>>
  PROVE  /\ Taken' = Taken /\ Indices' /\ Contents'
         /\ Taken \in Nat /\ published \in Nat
  BY FillIs DEF RingInv, Indices, Contents, Taken

\* The ring has at least one byte.
LEMMA Length == Capacity \in Nat \ {0}
  BY RingAssumption

\* What moves none of the pipe's own variables is no step of it.
LEMMA Stutter ==
  ASSUME UNCHANGED <<published, received, closed, eof, early>>
  PROVE  [Pipe!Next]_(Pipe!vars)
  BY DEF Pipe!vars

\* A read that is copied out stays so while nobody takes a byte.
LEMMA CopiedKept ==
  ASSUME RingInv, UNCHANGED <<rbuf, received>>, rpc' = "store" => rpc = "store",
         published' \in Nat, published <= published'
  PROVE  Copied'
  <1> SUFFICES ASSUME rpc' = "store"
               PROVE  \E c \in 1 .. Capacity : /\ rbuf' = [i \in 1 .. c |-> Taken' + i]
                                               /\ Taken' + c <= published'
    BY DEF Copied
  <1>1. PICK c \in 1 .. Capacity : rbuf = [i \in 1 .. c |-> Taken + i] /\ Taken + c <= published
    BY DEF RingInv, Copied
  <1>2. Taken' = Taken /\ Taken \in Nat /\ published \in Nat
    BY FillIs DEF Taken
  <1>3. Taken + c <= published'
    BY <1>1, <1>2, RingAssumption
  <1> QED
    BY <1>1, <1>2, <1>3

\* A put that stores, and what it has seen, are not disturbed by a read.
LEMMA PutKept ==
  ASSUME RingInv, UNCHANGED <<windex, data, closed, published, submitted, producer>>,
         received' \in Seq(Nat), Len(received) <= Len(received')
  PROVE  Queue' /\ Seen' /\ Stored'
  <1>1. Taken \in Nat /\ Taken' \in Nat /\ Taken <= Taken' /\ published \in Nat
    BY FillIs DEF Taken
  <1>2. Queue'
    BY DEF RingInv, Queue, producer
  <1>3. Seen'
    <2> SUFFICES ASSUME wpc' = "room"
                 PROVE  \E r \in 0 .. Taken' : wread' = r % Modulus /\ published' <= r + Capacity
      BY DEF Seen
    <2>1. PICK r \in 0 .. Taken : wread = r % Modulus /\ published <= r + Capacity
      BY DEF RingInv, Seen, producer
    <2>2. r \in 0 .. Taken'
      BY <1>1
    <2> QED
      BY <2>1, <2>2 DEF producer
  <1>4. Stored'
    <2> SUFFICES ASSUME wpc \in {"copy", "store"}
                 PROVE  Stored'
      BY DEF Stored, producer
    <2>1. /\ wcount \in 1 .. Capacity /\ published + wcount <= Taken + Capacity
          /\ published + wcount <= wqueue[1]
      BY DEF RingInv, Stored
    <2>2. published + wcount <= Taken' + Capacity
      <3>1. wcount \in Nat
        BY <2>1, Length
      <3>2. PICK s, t : s = Taken /\ t = Taken'
        OBVIOUS
      <3>3. s \in Nat /\ t \in Nat /\ s <= t /\ published + wcount <= s + Capacity
        BY <1>1, <2>1, <3>2
      <3>4. published + wcount <= t + Capacity
        BY <1>1, <3>1, <3>3, Length
      <3> QED
        BY <3>2, <3>4
    <2> QED
      BY <2>1, <2>2 DEF RingInv, Stored, producer
  <1> QED
    BY <1>2, <1>3, <1>4

\* The run's thread between two takes: it starts a read, looks, waits.
QuietReader ==
  \/ \E op \in {"block", "try"}, length \in ReadSizes : Read(op, length)
  \/ StartDrain \/ ResumeDrain \/ Size \/ LoadSignal \/ LookClosed
  \/ Wait \/ WhenSignal \/ WhenLook \/ WhenClosed \/ WhenWait

\* The reader's steps that take nothing.
LEMMA QuietReaderStep ==
  ASSUME RingInv, QuietReader
  PROVE  RingInv' /\ [Pipe!Next]_(Pipe!vars)
  <1>1. /\ UNCHANGED <<windex, rindex, closed, data, published, received, submitted, eof, early, rbuf>>
        /\ UNCHANGED producer
        /\ rpc' # "store"
        /\ rpc' = "lookAgain" => closed = 1
        /\ rop' \in {"block", "drain", "try"}
    BY DEF RingInv, RingTypes, Ending, QuietReader, Read, StartDrain, ResumeDrain, Size, LoadSignal, LookClosed, Wait,
           WhenSignal, WhenLook, WhenClosed, WhenWait, Nothing, header, history
  <1>2. rlen' \in Nat
    <2>1. CASE \E op \in {"block", "try"}, length \in ReadSizes : Read(op, length)
      BY <2>1, RingAssumption DEF Read
    <2>2. CASE Size
      BY <2>2, FillIs, RingAssumption DEF Size
    <2>3. CASE UNCHANGED rlen
      BY <2>3 DEF RingInv, RingTypes
    <2> QED
      BY <2>1, <2>2, <2>3 DEF QuietReader, StartDrain, ResumeDrain, LoadSignal, LookClosed, Wait,
           WhenSignal, WhenLook, WhenClosed, WhenWait
  <1>3. RingTypes'
    BY <1>1, <1>2 DEF RingInv, RingTypes, producer
  <1>4. Indices' /\ Contents'
    BY <1>1, Frame
  <1>5. Queue' /\ Seen' /\ Stored'
    <2>1. received' \in Seq(Nat) /\ Len(received) <= Len(received')
      BY <1>1 DEF RingInv, RingTypes
    <2> QED
      BY <1>1, <2>1, PutKept
  <1>6. Copied'
    BY <1>1 DEF Copied
  <1>7. [Pipe!Next]_(Pipe!vars)
    BY <1>1, Stutter
  <1>8. Ending'
    BY <1>1 DEF RingInv, Ending, producer
  <1> QED
    BY <1>1, <1>3, <1>4, <1>5, <1>6, <1>7, <1>8 DEF RingInv


\* notify(READ_INDEX) wakes the put that waits for room, which has nothing to store.
LEMMA NotifyReadStep ==
  ASSUME RingInv, NotifyRead
  PROVE  RingInv' /\ [Pipe!Next]_(Pipe!vars)
  <1>1. /\ UNCHANGED <<windex, rindex, closed, data, published, received, submitted, eof, early>>
        /\ UNCHANGED <<wqueue, wread, wcount, rop, rlen, rbuf>>
        /\ rpc' # "store" /\ rpc' # "lookAgain"
        /\ wpc' = wpc \/ (wpc = "asleep" /\ wpc' = "awake")
    BY DEF NotifyRead, header, history
  <1>2. RingTypes'
    BY <1>1 DEF RingInv, RingTypes
  <1>3. Indices' /\ Contents' /\ Taken' = Taken
    BY <1>1, Frame
  <1>4. Queue' /\ Seen' /\ Stored'
    BY <1>1, <1>3 DEF RingInv, Queue, Seen, Stored
  <1>5. Copied'
    BY <1>1 DEF Copied
  <1>6. [Pipe!Next]_(Pipe!vars)
    BY <1>1, Stutter
  <1>7. Ending'
    BY <1>1 DEF RingInv, Ending
  <1> QED
    BY <1>1, <1>2, <1>3, <1>4, <1>5, <1>6, <1>7 DEF RingInv

\* A producer's step that stores no index and copies no byte.
LEMMA QuietProducer ==
  ASSUME RingInv, Queue', Seen', Stored',
         UNCHANGED <<windex, rindex, closed, data, published, received, eof, early, rop, rlen, rbuf>>,
         wqueue' \in Seq(Nat), submitted' \in 0 .. MaxBytes,
         rpc' = rpc \/ rpc' = "signal",
         closed = 1 => wpc' = "idle" \/ wpc # "idle"
  PROVE  RingInv' /\ [Pipe!Next]_(Pipe!vars)
  <1>1. RingTypes'
    BY DEF RingInv, RingTypes
  <1>2. Indices' /\ Contents' /\ published' \in Nat /\ published <= published'
    BY Frame
  <1>3. Copied'
    BY <1>2, CopiedKept
  <1>4. [Pipe!Next]_(Pipe!vars)
    BY Stutter
  <1>5. Ending'
    BY DEF RingInv, Ending
  <1> QED
    BY <1>1, <1>2, <1>3, <1>4, <1>5 DEF RingInv

\* write: the bytes are behind those submitted before.
LEMMA WriteStep ==
  ASSUME RingInv, NEW n \in ChunkSizes, Write(n)
  PROVE  RingInv' /\ [Pipe!Next]_(Pipe!vars)
  <1>1. /\ UNCHANGED <<windex, rindex, closed, data, published, received, eof, early, rop, rlen, rbuf>>
        /\ UNCHANGED <<rpc, wpc, wread, wcount>>
        /\ submitted' = submitted + n /\ submitted + n <= MaxBytes
        /\ wqueue' = Append(wqueue, submitted + n)
        /\ wpc \notin {"room", "copy", "store"}
    BY DEF Write, ProducerFree, header, consumer
  <1>2. /\ n \in Nat \ {0} /\ MaxBytes \in Nat /\ submitted \in Nat /\ wqueue \in Seq(Nat)
        /\ published \in Nat
    BY RingAssumption DEF RingInv, RingTypes
  <1>3. submitted' \in 0 .. MaxBytes /\ wqueue' \in Seq(Nat)
    BY <1>1, <1>2
  <1>4. /\ Len(wqueue) \in Nat /\ Len(wqueue') = Len(wqueue) + 1
        /\ wqueue'[Len(wqueue) + 1] = submitted + n
        /\ \A i \in 1 .. Len(wqueue) : wqueue'[i] = wqueue[i] /\ wqueue[i] \in Nat
    BY <1>1, <1>2
  <1>5. /\ published <= submitted
        /\ \A i \in 1 .. Len(wqueue) :
             /\ wqueue[i] <= submitted
             /\ \/ wqueue[i] > published
                \/ i = 1 /\ wqueue[i] = published /\ wpc \in {"add", "notify"}
        /\ \A i, j \in 1 .. Len(wqueue) : i < j => wqueue[i] < wqueue[j]
        /\ wpc # "idle" => wqueue # <<>>
    BY DEF RingInv, Queue
  <1>6. Queue'
    <2>1. published' <= submitted'
      BY <1>1, <1>2, <1>5
    <2>2. ASSUME NEW i \in 1 .. Len(wqueue')
          PROVE  /\ wqueue'[i] <= submitted'
                 /\ \/ wqueue'[i] > published'
                    \/ i = 1 /\ wqueue'[i] = published' /\ wpc' \in {"add", "notify"}
      <3>1. CASE i \in 1 .. Len(wqueue)
        <4>1. wqueue'[i] = wqueue[i] /\ wqueue[i] \in Nat /\ wqueue[i] <= submitted
          BY <3>1, <1>4, <1>5
        <4>2. wqueue'[i] <= submitted'
          BY <4>1, <1>1, <1>2
        <4> QED
          BY <3>1, <4>1, <4>2, <1>1, <1>5
      <3>2. CASE i = Len(wqueue) + 1
        BY <3>2, <1>1, <1>2, <1>4, <1>5
      <3> QED
        BY <1>4, <3>1, <3>2
    <2>3. ASSUME NEW i \in 1 .. Len(wqueue'), NEW j \in 1 .. Len(wqueue'), i < j
          PROVE  wqueue'[i] < wqueue'[j]
      <3>1. i \in 1 .. Len(wqueue)
        BY <2>3, <1>4
      <3>2. CASE j \in 1 .. Len(wqueue)
        BY <2>3, <3>1, <3>2, <1>4, <1>5
      <3>3. CASE j = Len(wqueue) + 1
        <4>1. wqueue'[i] \in Nat /\ wqueue'[i] <= submitted
          BY <3>1, <1>4, <1>5
        <4>2. wqueue'[j] = submitted + n
          BY <3>3, <1>4
        <4> QED
          BY <4>1, <4>2, <1>2
      <3> QED
        BY <1>4, <3>2, <3>3
    <2>4. wqueue' # <<>>
      BY <1>3, <1>4
    <2> QED
      BY <2>1, <2>2, <2>3, <2>4 DEF Queue
  <1>7. Seen' /\ Stored'
    BY <1>1 DEF Seen, Stored
  <1> QED
    BY <1>1, <1>3, <1>6, <1>7, QuietProducer


\* Taking the first of the writes that are left leaves the rest in order.
LEMMA QueueTail ==
  ASSUME RingInv, wqueue # <<>>, wqueue' = Tail(wqueue),
         UNCHANGED <<published, submitted>>, wpc' = "idle"
  PROVE  Queue' /\ wqueue' \in Seq(Nat)
  <1>1. /\ wqueue \in Seq(Nat) /\ published \in Nat /\ Len(wqueue) \in Nat \ {0}
        /\ wqueue' \in Seq(Nat) /\ Len(wqueue') = Len(wqueue) - 1
        /\ \A i \in 1 .. Len(wqueue') : wqueue'[i] = wqueue[i + 1]
    BY DEF RingInv, RingTypes
  <1>2. /\ published <= submitted
        /\ \A i \in 1 .. Len(wqueue) :
             /\ wqueue[i] <= submitted
             /\ \/ wqueue[i] > published
                \/ i = 1 /\ wqueue[i] = published /\ wpc \in {"add", "notify"}
        /\ \A i, j \in 1 .. Len(wqueue) : i < j => wqueue[i] < wqueue[j]
    BY DEF RingInv, Queue
  <1>3. \A i \in 1 .. Len(wqueue') : i + 1 \in 1 .. Len(wqueue) /\ i + 1 # 1
    BY <1>1
  <1>4. \A i \in 1 .. Len(wqueue') : wqueue'[i] <= submitted /\ wqueue'[i] > published
    BY <1>1, <1>2, <1>3
  <1>5. ASSUME NEW i \in 1 .. Len(wqueue'), NEW j \in 1 .. Len(wqueue'), i < j
        PROVE  wqueue'[i] < wqueue'[j]
    <2>1. i + 1 < j + 1
      BY <1>1, <1>5
    <2> QED
      BY <1>1, <1>2, <1>3, <2>1
  <1> QED
    BY <1>1, <1>2, <1>4, <1>5 DEF Queue

\* The next write in the queue is begun.
LEMMA PutStartStep ==
  ASSUME RingInv, PutStart
  PROVE  RingInv' /\ [Pipe!Next]_(Pipe!vars)
  <1>1. /\ UNCHANGED <<windex, rindex, closed, data, published, received, eof, early, rop, rlen, rbuf>>
        /\ UNCHANGED <<rpc, submitted>>
        /\ wpc = "idle" /\ wqueue # <<>> /\ wpc' \in {"idle", "load"}
        /\ \/ wqueue' = Tail(wqueue) /\ wpc' = "idle"
           \/ wqueue' = wqueue
        /\ closed = 1 => wpc' = "idle"
    BY DEF PutStart, header, consumer, history
  <1>2. Queue' /\ wqueue' \in Seq(Nat)
    <2>1. CASE wqueue' = Tail(wqueue) /\ wpc' = "idle"
      BY <1>1, <2>1, QueueTail
    <2>2. CASE wqueue' = wqueue
      BY <1>1, <2>2 DEF RingInv, RingTypes, Queue
    <2> QED
      BY <1>1, <2>1, <2>2
  <1>3. Seen' /\ Stored'
    BY <1>1 DEF Seen, Stored
  <1>4. submitted' \in 0 .. MaxBytes
    BY <1>1 DEF RingInv, RingTypes
  <1> QED
    BY <1>1, <1>2, <1>3, <1>4, QuietProducer

\* The read index a put loads is the reader's of now: later reads only make room.
LEMMA LoadReadStep ==
  ASSUME RingInv, LoadRead
  PROVE  RingInv' /\ [Pipe!Next]_(Pipe!vars)
  <1>1. /\ UNCHANGED <<windex, rindex, closed, data, published, received, eof, early, rop, rlen, rbuf>>
        /\ UNCHANGED <<rpc, submitted, wqueue>>
        /\ wpc \in {"load", "awake"} /\ wpc' = "room" /\ wread' = rindex
    BY DEF LoadRead, header, consumer, history
  <1>2. Queue' /\ wqueue' \in Seq(Nat) /\ submitted' \in 0 .. MaxBytes
    BY <1>1 DEF RingInv, RingTypes, Queue
  <1>3. Seen'
    <2>1. Taken' = Taken /\ Taken \in Nat
      BY <1>1, Frame
    <2>2. wread' = Taken' % Modulus /\ published' <= Taken' + Capacity
      BY <1>1, <2>1 DEF RingInv, Indices
    <2>3. Taken' \in 0 .. Taken'
      BY <2>1
    <2> QED
      BY <2>2, <2>3 DEF Seen
  <1>4. Stored'
    BY <1>1 DEF Stored
  <1> QED
    BY <1>1, <1>2, <1>3, <1>4, QuietProducer

\* What a put is about to store is at most the room it has, and of its own write.
LEMMA TestRoomStep ==
  ASSUME RingInv, TestRoom
  PROVE  RingInv' /\ [Pipe!Next]_(Pipe!vars)
  <1>1. /\ UNCHANGED <<windex, rindex, closed, data, published, received, eof, early, rop, rlen, rbuf>>
        /\ UNCHANGED <<rpc, submitted, wqueue>>
        /\ wpc = "room" /\ wcount' = Least(RoomLeft, Left)
        /\ wpc' = IF RoomLeft = 0 THEN "wait" ELSE "copy"
    BY DEF TestRoom, header, consumer, history
  <1>2. Queue' /\ wqueue' \in Seq(Nat) /\ submitted' \in 0 .. MaxBytes
    BY <1>1 DEF RingInv, RingTypes, Queue
  <1>3. Seen'
    BY <1>1 DEF Seen
  <1>4. Stored'
    <2> SUFFICES ASSUME RoomLeft # 0
                 PROVE  Stored'
      BY <1>1 DEF Stored
    <2>1. PICK room, t : room = RoomLeft /\ t = Taken
      OBVIOUS
    <2>2. room \in 1 .. Capacity /\ published + room <= t + Capacity
      BY <1>1, <2>1, RoomIs
    <2>3. /\ published \in Nat /\ wqueue[1] \in Nat /\ wqueue[1] > published
          /\ Left = wqueue[1] - published
      <3>1. wqueue \in Seq(Nat) /\ wqueue # <<>>
        BY <1>1 DEF RingInv, RingTypes, Queue
      <3>2. 1 \in 1 .. Len(wqueue) /\ wqueue[1] \in Nat /\ Head(wqueue) = wqueue[1]
        BY <3>1
      <3> QED
        BY <1>1, <3>2 DEF RingInv, RingTypes, Queue, Left
    <2>4. t \in Nat /\ Taken' = t
      BY <1>1, <2>1, Frame
    <2>5. /\ wcount' \in 1 .. Capacity /\ wcount' <= room
          /\ wcount' <= wqueue[1] - published
      BY <1>1, <2>1, <2>2, <2>3, Length DEF Least
    <2>6. published + wcount' <= t + Capacity /\ published + wcount' <= wqueue[1]
      <3>1. PICK c, w : c = wcount' /\ w = wqueue[1]
        OBVIOUS
      <3>2. c \in Nat /\ w \in Nat /\ c <= room /\ c <= w - published
        BY <2>3, <2>5, <3>1, Length
      <3>3. published + c <= t + Capacity /\ published + c <= w
        BY <2>2, <2>3, <2>4, <3>2, Length
      <3> QED
        BY <3>1, <3>3
    <2> QED
      BY <1>1, <2>4, <2>5, <2>6 DEF Stored
  <1> QED
    BY <1>1, <1>2, <1>3, <1>4, QuietProducer


\* The rest of the put and of the close: a wait, a bump of SIGNAL, a notify.
LEMMA WaitRoomStep ==
  ASSUME RingInv, WaitRoom \/ CloseAdd \/ CloseNotify \/ AddSignal
  PROVE  RingInv' /\ [Pipe!Next]_(Pipe!vars)
  <1>1. /\ UNCHANGED <<windex, rindex, closed, data, published, received, eof, early, rop, rlen, rbuf>>
        /\ UNCHANGED <<submitted, wqueue, wcount, wread>>
        /\ rpc' = rpc \/ rpc' = "signal"
        /\ \/ wpc' = wpc
           \/ wpc = "wait" /\ wpc' \in {"asleep", "load"}
           \/ wpc = "add" /\ wpc' = "notify"
    BY DEF WaitRoom, CloseAdd, CloseNotify, AddSignal, WakeReader, header, consumer, history
  <1>2. Queue' /\ wqueue' \in Seq(Nat) /\ submitted' \in 0 .. MaxBytes
    BY <1>1 DEF RingInv, RingTypes, Queue
  <1>3. Seen' /\ Stored'
    <2>1. Taken' = Taken
      BY <1>1 DEF Taken
    <2> QED
      BY <1>1, <2>1 DEF RingInv, Seen, Stored
  <1> QED
    BY <1>1, <1>2, <1>3, QuietProducer

\* A put is done when its last byte is published.
LEMMA NotifySignalStep ==
  ASSUME RingInv, NotifySignal
  PROVE  RingInv' /\ [Pipe!Next]_(Pipe!vars)
  <1>1. /\ UNCHANGED <<windex, rindex, closed, data, published, received, eof, early, rop, rlen, rbuf>>
        /\ UNCHANGED submitted
        /\ rpc' = rpc \/ rpc' = "signal"
        /\ wpc = "notify" /\ wpc' \in {"idle", "load"}
    BY DEF NotifySignal, WakeReader, header, history
  <1>2. /\ wqueue \in Seq(Nat) /\ wqueue # <<>> /\ Head(wqueue) = wqueue[1]
        /\ wqueue[1] \in Nat /\ published \in Nat
    <2>1. wqueue \in Seq(Nat) /\ wqueue # <<>> /\ published \in Nat
      BY <1>1 DEF RingInv, RingTypes, Queue
    <2> QED
      BY <2>1
  <1>3. Queue' /\ wqueue' \in Seq(Nat)
    <2>1. CASE Left = 0
      BY <1>1, <1>2, <2>1, QueueTail DEF NotifySignal
    <2>2. CASE Left # 0
      <3>1. wqueue' = wqueue /\ wqueue[1] # published
        BY <1>2, <2>2 DEF NotifySignal, Left
      <3> QED
        BY <1>1, <1>2, <3>1 DEF RingInv, Queue
    <2> QED
      BY <2>1, <2>2
  <1>4. Seen' /\ Stored'
    BY <1>1 DEF Seen, Stored
  <1>5. submitted' \in 0 .. MaxBytes
    BY <1>1 DEF RingInv, RingTypes
  <1> QED
    BY <1>1, <1>3, <1>4, <1>5, QuietProducer

----------------------------------------------------------------------------
(* The steps that move bytes                                                *)

\* Copying into the free part of the ring: every byte still to be taken stays, and
\* the new ones are in place.
LEMMA CopyStep ==
  ASSUME RingInv, Copy
  PROVE  RingInv' /\ [Pipe!Next]_(Pipe!vars)
  <1>1. /\ UNCHANGED <<windex, rindex, closed, published, received, eof, early, rop, rlen, rbuf, rpc>>
        /\ UNCHANGED <<submitted, wqueue, wcount>>
        /\ wpc = "copy" /\ wpc' = "store"
    BY DEF Copy, header, consumer, history
  <1>2. PICK p, t, w : p = published /\ t = Taken /\ w = wcount
    OBVIOUS
  <1>3. /\ p \in Nat /\ t \in Nat /\ t <= p /\ p <= t + Capacity /\ windex = p % Modulus
        /\ w \in 1 .. Capacity /\ p + w <= t + Capacity /\ published + wcount <= wqueue[1]
    BY <1>1, <1>2, FillIs DEF RingInv, Indices, Stored
  <1>4. /\ data \in [0 .. Capacity - 1 -> Nat]
        /\ data' = [i \in 0 .. Capacity - 1 |->
                      IF ((i - windex) % Capacity) < w THEN p + ((i - windex) % Capacity) + 1
                      ELSE data[i]]
    BY <1>2 DEF Copy, RingInv, RingTypes
  <1>5. ASSUME NEW n \in Nat \ {0}
        PROVE  /\ (n - 1) % Capacity \in 0 .. Capacity - 1
               /\ (((n - 1) % Capacity) - windex) % Capacity = (n - 1 - p) % Capacity
    <2>1. n - 1 \in Int /\ p \in Int
      BY <1>3
    <2>2. \A a, b \in Int : ((a % Capacity) - (b % Modulus)) % Capacity = (a - b) % Capacity
      BY SlotSub
    <2>3. \A a \in Int : a % Capacity \in 0 .. Capacity - 1
      BY Length, DivMod
    <2> QED
      BY <1>3, <2>1, <2>2, <2>3
  <1>6. ASSUME NEW n \in p + 1 .. p + w
        PROVE  data'[(n - 1) % Capacity] = n
    <2>1. n \in Nat \ {0} /\ n - 1 - p \in 0 .. Capacity - 1 /\ n - 1 - p < w
      BY <1>3, <1>6, Length
    <2>2. PICK k : k = n - 1 - p
      OBVIOUS
    <2>3. k % Capacity = k
      BY <2>1, <2>2, Length, ModSmall
    <2>4. data'[(n - 1) % Capacity] = p + k + 1
      BY <1>4, <1>5, <2>1, <2>2, <2>3
    <2> QED
      BY <1>3, <2>1, <2>2, <2>4
  <1>7. ASSUME NEW n \in t + 1 .. p
        PROVE  data'[(n - 1) % Capacity] = n
    <2>1. PICK x, y : x = n - 1 - p /\ y = x + Capacity
      OBVIOUS
    <2>2. n \in Nat \ {0} /\ x \in Int /\ y \in 0 .. Capacity - 1 /\ ~(y < w)
      BY <1>3, <1>7, <2>1, Length
    <2>3. x % Capacity = y
      BY <2>1, <2>2, OneTurn
    <2>4. data'[(n - 1) % Capacity] = data[(n - 1) % Capacity]
      BY <1>4, <1>5, <2>1, <2>2, <2>3
    <2> QED
      BY <1>2, <2>4 DEF RingInv, Contents
  <1>8. data' \in [0 .. Capacity - 1 -> Nat]
    <2>1. \A i \in 0 .. Capacity - 1 : (i - windex) % Capacity \in Nat
      <3>1. windex \in Int
        BY <1>3, RingAssumption, DivMod
      <3> QED
        BY <3>1, Length, DivMod
    <2> QED
      BY <1>3, <1>4, <2>1
  <1>9. Taken' = t
    BY <1>1, <1>2 DEF Taken
  <1>10. RingTypes'
    BY <1>1, <1>8 DEF RingInv, RingTypes
  <1>11. Indices' /\ Contents'
    BY <1>1, <1>2, <1>7, <1>9 DEF RingInv, Indices, Contents
  <1>12. Queue' /\ Seen'
    BY <1>1 DEF RingInv, Queue, Seen
  <1>13. Stored'
    BY <1>1, <1>2, <1>3, <1>6, <1>9 DEF Stored
  <1>14. Copied'
    BY <1>1, <1>2, <1>3, CopiedKept
  <1>15. [Pipe!Next]_(Pipe!vars)
    BY <1>1, Stutter
  <1>16. Ending'
    BY <1>1 DEF RingInv, Ending
  <1> QED
    BY <1>1, <1>10, <1>11, <1>12, <1>13, <1>14, <1>15, <1>16 DEF RingInv


\* Storing WRITE_INDEX is the moment the bytes enter the pipe.
LEMMA StoreWriteStep ==
  ASSUME RingInv, StoreWrite
  PROVE  RingInv' /\ [Pipe!Next]_(Pipe!vars)
  <1>1. /\ UNCHANGED <<rindex, closed, data, received, eof, early, rop, rlen, rbuf, rpc>>
        /\ UNCHANGED <<submitted, wqueue, wcount>>
        /\ windex' = (windex + wcount) % Modulus /\ published' = published + wcount
        /\ wpc = "store" /\ wpc' = "add"
    BY DEF StoreWrite, consumer
  <1>2. PICK p, t, w, e : p = published /\ t = Taken /\ w = wcount /\ e = wqueue[1]
    OBVIOUS
  <1>3. wqueue \in Seq(Nat) /\ wqueue # <<>>
    BY <1>1 DEF RingInv, RingTypes, Queue
  <1>4. 1 \in 1 .. Len(wqueue) /\ wqueue[1] \in Nat /\ Len(wqueue) \in Nat
    BY <1>3
  <1>5. /\ p \in Nat /\ t \in Nat /\ t <= p /\ windex = p % Modulus /\ e \in Nat
        /\ w \in 1 .. Capacity /\ w \in Nat /\ p + w <= t + Capacity /\ p + w <= e
    BY <1>1, <1>2, <1>4, FillIs, Length DEF RingInv, Indices, Stored
  <1>6. e <= submitted /\ submitted \in Nat /\ submitted <= MaxBytes
    BY <1>2, <1>4, RingAssumption DEF RingInv, RingTypes, Queue
  <1>7. published' = p + w /\ p + w \in Nat /\ Taken' = t /\ p <= p + w
    BY <1>1, <1>2, <1>5 DEF Taken
  <1>8. RingTypes'
    BY <1>1, <1>7 DEF RingInv, RingTypes
  <1>9. Indices'
    <2>1. Modulus \in Nat \ {0} /\ p \in Int /\ w \in Int
      BY <1>5, RingAssumption
    <2>2. ((p % Modulus) + w) % Modulus = (p + w) % Modulus
      BY <2>1, ModAdd
    <2>3. windex' = published' % Modulus
      BY <1>1, <1>2, <1>5, <1>7, <2>2
    <2>4. rindex' = Taken' % Modulus
      BY <1>1, <1>2, <1>7 DEF RingInv, Indices
    <2>5. t <= p + w
      BY <1>5
    <2> QED
      BY <1>5, <1>7, <2>3, <2>4, <2>5 DEF Indices
  <1>10. Contents'
    <2> SUFFICES ASSUME NEW n \in t + 1 .. p + w
                 PROVE  data[(n - 1) % Capacity] = n
      BY <1>1, <1>7 DEF Contents
    <2>1. n \in t + 1 .. p \/ n \in p + 1 .. p + w
      BY <1>5
    <2> QED
      BY <1>1, <1>2, <2>1 DEF RingInv, Contents, Stored
  <1>11. Queue'
    <2>1. \A i, j \in 1 .. Len(wqueue) : i < j => wqueue[i] < wqueue[j]
      BY DEF RingInv, Queue
    <2>2. ASSUME NEW i \in 1 .. Len(wqueue)
          PROVE  /\ wqueue[i] <= submitted
                 /\ wqueue[i] > p + w \/ (i = 1 /\ wqueue[i] = p + w)
      <3>1. wqueue[i] \in Nat /\ wqueue[i] <= submitted
        BY <1>3 DEF RingInv, Queue
      <3>2. i = 1 \/ wqueue[i] > e
        BY <1>2, <1>4, <1>5, <2>1, <3>1
      <3> QED
        BY <1>2, <1>5, <3>1, <3>2
    <2>3. p + w <= submitted
      BY <1>5, <1>6
    <2> QED
      BY <1>1, <1>3, <1>7, <2>1, <2>2, <2>3 DEF Queue
  <1>12. Seen' /\ Stored'
    BY <1>1 DEF Seen, Stored
  <1>13. Copied'
    BY <1>1, <1>2, <1>7, CopiedKept
  <1>14. Pipe!Put
    <2>1. p + w <= MaxBytes
      BY <1>5, <1>6, RingAssumption
    <2>2. (p + w) - t <= Capacity
      BY <1>5, Length
    <2>3. ~(closed = 1 /\ ~early)
      BY <1>1 DEF RingInv, Ending
    <2> QED
      BY <1>1, <1>2, <1>5, <2>1, <2>2, <2>3 DEF Pipe!Put, Taken
  <1>15. Ending'
    BY <1>1 DEF RingInv, Ending
  <1> QED
    BY <1>1, <1>8, <1>9, <1>10, <1>11, <1>12, <1>13, <1>14, <1>15 DEF RingInv, Pipe!Next

\* close: the pipe's own, unless a put has bytes still to come.
LEMMA CloseStep ==
  ASSUME RingInv, Close
  PROVE  RingInv' /\ [Pipe!Next]_(Pipe!vars)
  <1>1. /\ UNCHANGED <<windex, rindex, data, published, received, eof, rop, rlen, rbuf, rpc>>
        /\ UNCHANGED <<submitted, wqueue, wcount, wread, wpc>>
        /\ closed = 0 /\ closed' = 1 /\ early' = (wpc # "idle")
    BY DEF Close, consumer
  <1>2. RingTypes'
    BY <1>1 DEF RingInv, RingTypes
  <1>3. Indices' /\ Contents' /\ Taken' = Taken /\ published' \in Nat /\ published <= published'
    BY <1>1, Frame
  <1>4. Queue' /\ Seen' /\ Stored'
    BY <1>1, <1>3 DEF RingInv, Queue, Seen, Stored
  <1>5. Copied'
    BY <1>1, <1>3, CopiedKept
  <1>6. [Pipe!Next]_(Pipe!vars)
    <2>1. eof = FALSE /\ ~(closed = 1)
      BY <1>1 DEF RingInv, RingTypes, Ending
    <2>2. CASE wpc = "idle"
      BY <1>1, <2>1, <2>2 DEF Pipe!Next, Pipe!Shut
    <2>3. CASE wpc # "idle"
      BY <1>1, <2>1, <2>3 DEF Pipe!vars
    <2> QED
      BY <2>2, <2>3
  <1>7. Ending'
    BY <1>1 DEF RingInv, Ending
  <1> QED
    BY <1>1, <1>2, <1>3, <1>4, <1>5, <1>6, <1>7 DEF RingInv

\* What a read copies out is what comes next in the stream.
LEMMA LookStep ==
  ASSUME RingInv, Look
  PROVE  RingInv' /\ [Pipe!Next]_(Pipe!vars)
  <1>1. PICK c : c = Least(rlen, Available)
    OBVIOUS
  <1>2. /\ UNCHANGED <<windex, rindex, closed, data, published, received, submitted, eof, early>>
        /\ UNCHANGED producer /\ UNCHANGED <<rop, rlen>>
        /\ rbuf' = [i \in 1 .. c |-> data[(rindex + i - 1) % Capacity]]
        /\ rpc' = IF c = 0 THEN "closed" ELSE "store"
    BY <1>1 DEF Look, header, history
  <1>3. PICK p, t : p = published /\ t = Taken
    OBVIOUS
  <1>4. p \in Nat /\ t \in Nat /\ Taken' = t /\ Available = p - t /\ Available \in 0 .. Capacity
    BY <1>2, <1>3, FillIs, Frame
  <1>5. c \in 0 .. Capacity /\ t + c <= p
    <2>1. rlen \in Nat
      BY DEF RingInv, RingTypes
    <2> QED
      BY <1>1, <1>4, <2>1, Length DEF Least
  <1>6. Copied'
    <2> SUFFICES ASSUME c # 0
                 PROVE  Copied'
      BY <1>2 DEF Copied
    <2>1. ASSUME NEW i \in 1 .. c
          PROVE  data[(rindex + i - 1) % Capacity] = t + i
      <3>1. i \in Int /\ i - 1 \in Int /\ t \in Int /\ t + i \in t + 1 .. p
        BY <1>4, <1>5
      <3>2. rindex = t % Modulus /\ rindex \in Int
        <4>1. rindex = t % Modulus
          BY <1>3 DEF RingInv, Indices
        <4> QED
          BY <4>1, <3>1, RingAssumption, DivMod
      <3>3. ((t % Modulus) + (i - 1)) % Capacity = (t + (i - 1)) % Capacity
        BY <3>1, SlotAdd
      <3>4. rindex + i - 1 = rindex + (i - 1) /\ t + (i - 1) = (t + i) - 1
        BY <3>1, <3>2
      <3>5. data[((t + i) - 1) % Capacity] = t + i
        BY <1>3, <3>1 DEF RingInv, Contents
      <3> QED
        BY <3>2, <3>3, <3>4, <3>5
    <2>2. rbuf' = [i \in 1 .. c |-> t + i]
      BY <1>2, <2>1
    <2>3. c \in 1 .. Capacity
      BY <1>5
    <2> QED
      BY <1>2, <1>3, <1>4, <1>5, <2>2, <2>3 DEF Copied
  <1>7. RingTypes'
    BY <1>2 DEF RingInv, RingTypes, producer
  <1>8. Indices' /\ Contents'
    BY <1>2, Frame
  <1>9. Queue' /\ Seen' /\ Stored'
    <2>1. received' \in Seq(Nat) /\ Len(received) <= Len(received')
      BY <1>2 DEF RingInv, RingTypes
    <2> QED
      BY <1>2, <2>1, PutKept
  <1>10. [Pipe!Next]_(Pipe!vars)
    BY <1>2, Stutter
  <1>11. Ending'
    BY <1>2 DEF RingInv, Ending, producer
  <1> QED
    BY <1>2, <1>6, <1>7, <1>8, <1>9, <1>10, <1>11 DEF RingInv


\* The second look at the bytes, after CLOSED, is the moment the end is told.
LEMMA LookAgainStep ==
  ASSUME RingInv, LookAgain
  PROVE  RingInv' /\ [Pipe!Next]_(Pipe!vars)
  <1>1. /\ UNCHANGED <<windex, rindex, closed, data, published, received, submitted, early>>
        /\ UNCHANGED producer /\ UNCHANGED <<rop, rlen, rbuf>>
        /\ rpc = "lookAgain" /\ eof' = (eof \/ Available = 0)
        /\ rpc' = IF Available = 0 THEN "out" ELSE Nothing
    BY DEF LookAgain, header
  <1>2. rop \in {"block", "drain", "try"} /\ closed = 1 /\ eof \in BOOLEAN
    BY <1>1 DEF RingInv, RingTypes, Ending
  <1>3. rpc' # "store" /\ rpc' # "lookAgain"
    BY <1>1, <1>2 DEF Nothing
  <1>4. eof' \in BOOLEAN
    BY <1>1
  <1>5. RingTypes'
    BY <1>1, <1>4 DEF RingInv, RingTypes, producer
  <1>6. Indices' /\ Contents'
    BY <1>1, Frame
  <1>7. Queue' /\ Seen' /\ Stored'
    <2>1. received' \in Seq(Nat) /\ Len(received) <= Len(received')
      BY <1>1 DEF RingInv, RingTypes
    <2> QED
      BY <1>1, <2>1, PutKept
  <1>8. Copied'
    BY <1>3 DEF Copied
  <1>9. [Pipe!Next]_(Pipe!vars)
    <2>1. CASE Available = 0 /\ ~early
      <3>1. Len(received) = published
        BY <2>1, FillIs DEF Taken
      <3>2. eof' = TRUE
        BY <1>1, <2>1
      <3> QED
        BY <1>1, <1>2, <2>1, <3>1, <3>2 DEF Pipe!Next, Pipe!End
    <2>2. CASE Available # 0
      <3>1. eof' = eof
        BY <1>1, <1>2, <2>2
      <3> QED
        BY <1>1, <3>1, Stutter
    <2>3. CASE early
      BY <1>1, <2>3 DEF Pipe!vars
    <2> QED
      BY <2>1, <2>2, <2>3
  <1>10. Ending'
    BY <1>1, <1>2 DEF RingInv, Ending, producer
  <1> QED
    BY <1>3, <1>5, <1>6, <1>7, <1>8, <1>9, <1>10 DEF RingInv

\* Storing READ_INDEX is the moment the bytes leave the pipe.
LEMMA StoreReadStep ==
  ASSUME RingInv, StoreRead
  PROVE  RingInv' /\ [Pipe!Next]_(Pipe!vars)
  <1>1. /\ UNCHANGED <<windex, closed, data, published, submitted, eof, early>>
        /\ UNCHANGED producer /\ UNCHANGED <<rop, rlen, rbuf>>
        /\ rindex' = (rindex + Len(rbuf)) % Modulus /\ received' = received \o rbuf
        /\ rpc = "store" /\ rpc' = "notify"
    BY DEF StoreRead
  <1>2. PICK p, t : p = published /\ t = Taken
    OBVIOUS
  <1>3. p \in Nat /\ t \in Nat /\ p <= t + Capacity /\ rindex = t % Modulus /\ received \in Seq(Nat)
    BY <1>2, FillIs DEF RingInv, RingTypes, Indices
  <1>4. PICK c \in 1 .. Capacity : rbuf = [i \in 1 .. c |-> t + i] /\ t + c <= p
    BY <1>1, <1>2 DEF RingInv, Copied
  <1>5. c \in Nat /\ rbuf \in Seq(Nat) /\ Len(rbuf) = c
    <2>1. c \in Nat
      BY Length
    <2> QED
      BY <1>3, <1>4, <2>1
  <1>6. received' \in Seq(Nat) /\ Len(received') = t + c /\ Len(received) = t
    <2>1. received \o rbuf \in Seq(Nat) /\ Len(received \o rbuf) = Len(received) + Len(rbuf)
      BY <1>3, <1>5
    <2> QED
      BY <1>1, <1>2, <1>5, <2>1 DEF Taken
  <1>7. RingTypes'
    BY <1>1, <1>6 DEF RingInv, RingTypes, producer
  <1>8. Indices'
    <2>1. Modulus \in Nat \ {0} /\ t \in Int /\ c \in Int
      BY <1>3, <1>5, RingAssumption
    <2>2. ((t % Modulus) + c) % Modulus = (t + c) % Modulus
      BY <2>1, ModAdd
    <2>3. p <= (t + c) + Capacity
      BY <1>3, <1>5, Length
    <2> QED
      BY <1>1, <1>2, <1>3, <1>4, <1>5, <1>6, <2>2, <2>3 DEF RingInv, Indices, Taken
  <1>9. Contents'
    <2>1. \A n \in (t + c) + 1 .. p : n \in t + 1 .. p
      BY <1>3, <1>5
    <2> QED
      BY <1>1, <1>2, <1>6, <2>1 DEF RingInv, Contents, Taken
  <1>10. Queue' /\ Seen' /\ Stored'
    <2>1. Len(received) <= Len(received')
      BY <1>3, <1>5, <1>6
    <2> QED
      BY <1>1, <1>6, <2>1, PutKept
  <1>11. Copied'
    BY <1>1 DEF Copied
  <1>12. Pipe!Take
    BY <1>1, <1>2, <1>4, <1>6 DEF Pipe!Take
  <1>13. Ending'
    BY <1>1 DEF RingInv, Ending, producer
  <1> QED
    BY <1>1, <1>7, <1>8, <1>9, <1>10, <1>11, <1>12, <1>13 DEF RingInv, Pipe!Next

----------------------------------------------------------------------------
\* The ring is empty at first, and so is the pipe.
LEMMA RingInit == StdinInit => RingInv /\ Pipe!Init
  <1> SUFFICES ASSUME StdinInit
               PROVE  RingInv /\ Pipe!Init
    OBVIOUS
  <1>1. Taken = 0
    BY DEF StdinInit, Taken
  <1>2. 0 % Modulus = 0
    <2>1. 0 \in 0 .. Modulus - 1 /\ Modulus \in Nat \ {0}
      BY RingAssumption
    <2> QED
      BY <2>1, ModSmall
  <1>3. RingTypes
    <2>1. submitted \in 0 .. MaxBytes /\ data \in [0 .. Capacity - 1 -> Nat]
      BY RingAssumption DEF StdinInit
    <2>2. eof = FALSE /\ early = FALSE
      BY DEF StdinInit
    <2>3. received = <<>> /\ wqueue = <<>> /\ rlen = 0 /\ rop = "try" /\ published = 0 /\ closed = 0
      BY DEF StdinInit
    <2>4. eof \in BOOLEAN /\ early \in BOOLEAN
      BY <2>2
    <2> QED
      BY <2>1, <2>3, <2>4 DEF RingTypes
  <1>4. Indices /\ Contents
    BY <1>1, <1>2, Length DEF StdinInit, Indices, Contents
  <1>5. Queue /\ Seen /\ Stored /\ Copied /\ Ending
    BY DEF StdinInit, Queue, Seen, Stored, Copied, Ending
  <1>6. Pipe!Init
    BY DEF StdinInit, Pipe!Init
  <1> QED
    BY <1>3, <1>4, <1>5, <1>6 DEF RingInv, StdinInit

\* Every step keeps the invariant and is a step of the pipe or none.
LEMMA RingStep == RingInv /\ [StdinNext]_stdinVars => RingInv' /\ [Pipe!Next]_(Pipe!vars)
  <1> SUFFICES ASSUME RingInv, [StdinNext]_stdinVars
               PROVE  RingInv' /\ [Pipe!Next]_(Pipe!vars)
    OBVIOUS
  <1>1. CASE UNCHANGED stdinVars
    <2>1. /\ UNCHANGED <<windex, rindex, closed, data, published, received, eof, early, rop, rlen, rbuf>>
          /\ UNCHANGED <<submitted, wqueue, wread, wcount, wpc, rpc>>
      BY <1>1 DEF stdinVars, header, producer, consumer, history
    <2>2. Queue' /\ wqueue' \in Seq(Nat) /\ submitted' \in 0 .. MaxBytes
      BY <2>1 DEF RingInv, RingTypes, Queue
    <2>3. Seen' /\ Stored'
      <3>1. Taken' = Taken
        BY <2>1 DEF Taken
      <3> QED
        BY <2>1, <3>1 DEF RingInv, Seen, Stored
    <2> QED
      BY <2>1, <2>2, <2>3, QuietProducer
  <1>2. CASE \E n \in ChunkSizes : Write(n)
    BY <1>2, WriteStep
  <1>3. CASE Close
    BY <1>3, CloseStep
  <1>4. CASE ProducerStep
    BY <1>4, PutStartStep, LoadReadStep, TestRoomStep, WaitRoomStep, CopyStep, StoreWriteStep,
       NotifySignalStep DEF ProducerStep
  <1>5. CASE QuietReader
    BY <1>5, QuietReaderStep
  <1>6. CASE Look \/ LookAgain \/ StoreRead \/ NotifyRead
    BY <1>6, LookStep, LookAgainStep, StoreReadStep, NotifyReadStep
  <1> QED
    BY <1>1, <1>2, <1>3, <1>4, <1>5, <1>6 DEF StdinNext, ReaderStep, QuietReader

\* The ring is a pipe of bytes: what the run reads is what was written, in order and
\* nothing twice, and it is told of the end only when the writer has closed and every
\* published byte is taken, with nothing written after it, however the two threads'
\* accesses interleave.  (The end of a ring closed under a put is NothingAfterTheEnd's.)
THEOREM RingIsPipe == StdinSpec => ImplementsPipe
  <1>1. StdinInit => RingInv /\ Pipe!Init
    BY RingInit
  <1>2. RingInv /\ [StdinNext]_stdinVars => RingInv' /\ [Pipe!Next]_(Pipe!vars)
    BY RingStep
  <1> QED
    BY <1>1, <1>2, PTL DEF StdinSpec, ImplementsPipe, Pipe!Spec

================================================================================
