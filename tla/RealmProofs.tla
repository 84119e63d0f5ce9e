------------------------------ MODULE RealmProofs ------------------------------
(****************************************************************************)
(* What schedules guest code in a realm.                                      *)
(*                                                                           *)
(* The guest execution loop, for any number of frames, ticks and microtasks   *)
(* and any clock: the order of the ticks, whose code they wait for, and the   *)
(* account of active time.                                                    *)
(*                                                                           *)
(* The lock manager, for any number of requests and names: an exclusive lock  *)
(* is held alone, and no grant but a theft overtakes a request for the same   *)
(* name.                                                                      *)
(****************************************************************************)
EXTENDS GuestLoop, WebLocks, TLAPS

Frame == [kind : {"bare", "bracket", "callback", "ticks", "tick"}, drain : BOOLEAN,
          from : BOOLEAN, taken : Nat]
TickRecord == [n : Nat, by : Nat]

TickTypes == /\ stack \in Seq(Frame) /\ ticks \in Seq(TickRecord)
             /\ drainingTicks \in BOOLEAN /\ ran \in Seq(Nat) /\ queued \in Nat

\* One frame drains at a time, and what it runs is right above it.
OneDrain ==
  /\ drainingTicks <=> \E p \in 1 .. Len(stack) : stack[p].drain
  /\ \A p, q \in 1 .. Len(stack) : stack[p].drain /\ stack[q].drain => p = q
  /\ \A p \in 1 .. Len(stack) :
       /\ stack[p].drain => p = Len(stack) \/ stack[p + 1].kind = "tick"
       /\ stack[p].kind = "tick" => p > 1 /\ stack[p - 1].drain
       /\ ~stack[p].drain => stack[p].taken = 0

\* The queue ends with the last tick queued; what was run, but for what the drain
\* under way has taken, is no longer in it.
InOrder ==
  /\ Len(ticks) <= queued
  /\ \A i \in 1 .. Len(ticks) : ticks[i].n = queued - Len(ticks) + i
  /\ \A i \in 1 .. Len(ran) : ran[i] = i
  /\ ~drainingTicks => Len(ran) = queued - Len(ticks)
  /\ \A p \in 1 .. Len(stack) : stack[p].drain =>
       /\ stack[p].taken <= Len(ticks)
       /\ Len(ran) = queued - Len(ticks) + stack[p].taken

\* A tick is of code on the stack, or of none; where a frame drains, or entered with
\* no tick queued, of no code below it.
Owners ==
  \A i \in 1 .. Len(ticks) :
    /\ ticks[i].by <= Len(stack)
    /\ \A p \in 1 .. Len(stack) : /\ stack[p].from => ticks[i].by = 0 \/ ticks[i].by >= p
                                  /\ stack[p].drain => ticks[i].by = 0 \/ ticks[i].by > p

TickInv == TickTypes /\ OneDrain /\ InOrder /\ Owners

----------------------------------------------------------------------------
(* The account                                                              *)

Bracketed(frame) == frame.kind \notin {"bare", "tick"}

\* depth is the number of brackets on the stack; what drains is under one.
DrainsInside == \A p \in 1 .. Len(stack) : stack[p].drain => Bracketed(stack[p])
DepthIs ==
  \E f \in [0 .. Len(stack) -> Nat] :
    /\ f[0] = 0 /\ depth = f[Len(stack)]
    /\ \A p \in 1 .. Len(stack) : f[p] = IF Bracketed(stack[p]) THEN f[p - 1] + 1 ELSE f[p - 1]

MicroTasks == {"drain", "guest", "binding", "endContinuation"}

\* A continuation's end is queued once, and only while there is one.
OneEnd ==
  /\ micro \in Seq(MicroTasks)
  /\ \A i \in 1 .. Len(micro) : micro[i] = "endContinuation" => continuation
  /\ \A i, j \in 1 .. Len(micro) :
       micro[i] = "endContinuation" /\ micro[j] = "endContinuation" => i = j

TimeTypes ==
  /\ now \in Nat /\ active \in Int /\ activeSince \in Nat /\ spent \in Int /\ uncounted \in Int
  /\ depth \in Nat /\ continuation \in BOOLEAN /\ counting \in BOOLEAN
  /\ entryAccount \in [Kinds -> Int] /\ outerKind \in Kinds

Account == /\ TimeTypes /\ TimeIsCountedOnce
           /\ ~counting => Accounted = 0

Brackets == stack \in Seq(Frame) /\ DrainsInside /\ DepthIs
TimeInv == Brackets /\ OneEnd /\ Account


----------------------------------------------------------------------------
(* The stack and the queue as sequences                                     *)

\* A sequence with one more at its end.
LEMMA PushIs ==
  ASSUME NEW S, NEW s \in Seq(S), NEW x \in S
  PROVE  /\ Append(s, x) \in Seq(S) /\ Len(Append(s, x)) = Len(s) + 1
         /\ Append(s, x)[Len(s) + 1] = x
         /\ \A i \in 1 .. Len(s) : Append(s, x)[i] = s[i]
  OBVIOUS

\* The first m of a sequence.
LEMMA CutIs ==
  ASSUME NEW S, NEW s \in Seq(S), NEW m \in 0 .. Len(s)
  PROVE  /\ SubSeq(s, 1, m) \in Seq(S) /\ Len(SubSeq(s, 1, m)) = m
         /\ \A i \in 1 .. m : SubSeq(s, 1, m)[i] = s[i]
  OBVIOUS

\* A sequence without its first m.
LEMMA RestIs ==
  ASSUME NEW S, NEW s \in Seq(S), NEW m \in 0 .. Len(s)
  PROVE  /\ SubSeq(s, m + 1, Len(s)) \in Seq(S) /\ Len(SubSeq(s, m + 1, Len(s))) = Len(s) - m
         /\ \A i \in 1 .. Len(s) - m : SubSeq(s, m + 1, Len(s))[i] = s[m + i]
  OBVIOUS

\* A sequence without its first.
LEMMA TailIs ==
  ASSUME NEW S, NEW s \in Seq(S), s # << >>
  PROVE  /\ Tail(s) \in Seq(S) /\ Len(Tail(s)) = Len(s) - 1 /\ Len(s) > 0 /\ Head(s) = s[1]
         /\ \A i \in 1 .. Len(s) - 1 : Tail(s)[i] = s[i + 1]
  OBVIOUS

\* A sequence with one place replaced.
LEMMA ReplacedIs ==
  ASSUME NEW S, NEW s \in Seq(S), NEW m \in 1 .. Len(s), NEW x \in S
  PROVE  /\ [s EXCEPT ![m] = x] \in Seq(S) /\ Len([s EXCEPT ![m] = x]) = Len(s)
         /\ [s EXCEPT ![m] = x][m] = x
         /\ \A i \in 1 .. Len(s) : i # m => [s EXCEPT ![m] = x][i] = s[i]
  OBVIOUS

\* Where there is a frame, the top one is one.
LEMMA TopIs ==
  ASSUME TickTypes, stack # << >>
  PROVE  /\ Len(stack) \in 1 .. Len(stack) /\ Top = stack[Len(stack)] /\ Top \in Frame
         /\ Len(stack) \in Nat \ {0}
  BY DEF TickTypes, Top

\* A frame left: the ticks it queued have nobody on the stack any more, and are otherwise the ticks
\* they were.
LEMMA ReturnedIs ==
  ASSUME NEW q \in Seq(TickRecord), NEW at \in Nat
  PROVE  /\ Returned(q, at) \in Seq(TickRecord) /\ Len(Returned(q, at)) = Len(q)
         /\ \A i \in 1 .. Len(q) : /\ Returned(q, at)[i].n = q[i].n
                                   /\ Returned(q, at)[i].by = IF q[i].by = at THEN 0 ELSE q[i].by
  <1>1. \A i \in 1 .. Len(q) : q[i] \in TickRecord
    OBVIOUS
  <1>2. \A r \in TickRecord : /\ [r EXCEPT !.by = 0] \in TickRecord /\ r.n \in Nat /\ r.by \in Nat
                              /\ [r EXCEPT !.by = 0].n = r.n /\ [r EXCEPT !.by = 0].by = 0
    BY DEF TickRecord
  <1>3. PICK g : g = [i \in 1 .. Len(q) |-> IF q[i].by = at THEN [q[i] EXCEPT !.by = 0] ELSE q[i]]
    OBVIOUS
  <1>4. Returned(q, at) = g
    BY <1>3 DEF Returned
  <1>5. /\ \A i \in 1 .. Len(q) : /\ g[i] \in TickRecord /\ g[i].n = q[i].n
                                  /\ g[i].by = IF q[i].by = at THEN 0 ELSE q[i].by
        /\ DOMAIN g = 1 .. Len(q)
    BY <1>1, <1>2, <1>3
  <1>6. Len(q) \in Nat
    OBVIOUS
  <1>7. g \in Seq(TickRecord) /\ Len(g) = Len(q)
    BY <1>3, <1>5, <1>6
  <1> QED
    BY <1>4, <1>5, <1>7

----------------------------------------------------------------------------
(* The ticks                                                                *)

\* A place of a longer stack is the new one or one of the old.
LEMMA Upto ==
  ASSUME NEW n \in Nat, NEW p \in 1 .. n + 1
  PROVE  p = n + 1 \/ p \in 1 .. n
  OBVIOUS

\* What the types say of each place of the stack and of the queue.
LEMMA PlacesAre ==
  ASSUME TickTypes
  PROVE  /\ Len(stack) \in Nat /\ Len(ticks) \in Nat /\ Len(ran) \in Nat /\ queued \in Nat
         /\ \A p \in 1 .. Len(stack) : stack[p] \in Frame /\ stack[p].taken \in Nat
         /\ \A i \in 1 .. Len(ticks) : ticks[i].n \in Nat /\ ticks[i].by \in Nat
  <1>1. \A p \in 1 .. Len(stack) : stack[p] \in Frame
    BY DEF TickTypes
  <1>2. \A i \in 1 .. Len(ticks) : ticks[i] \in TickRecord
    BY DEF TickTypes
  <1>3. (\A x \in Frame : x.taken \in Nat) /\ (\A x \in TickRecord : x.n \in Nat /\ x.by \in Nat)
    BY DEF Frame, TickRecord
  <1>4. Len(stack) \in Nat /\ Len(ticks) \in Nat /\ Len(ran) \in Nat /\ queued \in Nat
    BY DEF TickTypes
  <1> QED
    BY <1>1, <1>2, <1>3, <1>4

\* Nothing is queued at first.
LEMMA TickStart == Init => TickInv
  <1> SUFFICES ASSUME Init
               PROVE  TickInv
    OBVIOUS
  <1>1. TickTypes
    <2>1. \A S : << >> \in Seq(S)
      OBVIOUS
    <2> QED
      BY <2>1, Zenon DEF Init, TickTypes
  <1>2. Len(stack) = 0 /\ Len(ticks) = 0 /\ Len(ran) = 0 /\ queued = 0 /\ drainingTicks = FALSE
    BY DEF Init
  <1>3. 1 .. Len(stack) = {} /\ 1 .. Len(ticks) = {} /\ 1 .. Len(ran) = {}
    BY <1>2
  <1>4. OneDrain /\ Owners
    BY <1>2, <1>3 DEF OneDrain, Owners
  <1>5. InOrder
    BY <1>2, <1>3 DEF InOrder
  <1> QED
    BY <1>1, <1>4, <1>5 DEF TickInv

\* Guest code is entered: a frame on top of code, or of nothing.
LEMMA EnterTicks ==
  ASSUME TickInv, stack = << >> \/ Running, NEW kind \in Entries, Enter(kind)
  PROVE  TickInv'
  <1>1. PICK x : x = [Plain(kind) EXCEPT !.from = kind = "callback" /\ FromTheLoop]
    OBVIOUS
  <1>2. /\ x \in Frame /\ x.kind = kind /\ ~x.drain /\ x.taken = 0 /\ kind # "tick"
        /\ x.from => ticks = << >>
    <2>1. (kind = "callback" /\ FromTheLoop) \in BOOLEAN
      OBVIOUS
    <2>2. PICK from \in BOOLEAN : from = (kind = "callback" /\ FromTheLoop)
      BY <2>1
    <2>3. x = [kind |-> kind, drain |-> FALSE, from |-> from, taken |-> 0]
      BY <1>1, <2>2 DEF Plain
    <2> QED
      BY <2>2, <2>3 DEF Frame, Entries, FromTheLoop
  <1>3. PICK n : n = Len(stack)
    OBVIOUS
  <1>4. /\ stack' = Append(stack, x) /\ UNCHANGED <<ticks, drainingTicks, ran, queued>>
        /\ TickTypes /\ n \in Nat
    BY <1>1, <1>3 DEF Enter, tickVars, TickInv, TickTypes
  <1>0. n \in Nat
    BY <1>4
  <1>5. /\ stack' \in Seq(Frame) /\ Len(stack') = n + 1 /\ stack'[n + 1] = x
        /\ \A i \in 1 .. n : stack'[i] = stack[i]
    BY <1>2, <1>3, <1>4, PushIs DEF TickTypes
  <1>6. n = 0 \/ ~stack[n].drain
    BY <1>3, <1>4 DEF Running, Top, TickTypes
  <1>7. TickTypes'
    BY <1>4, <1>5 DEF TickTypes
  <1>8. OneDrain'
    <2>1. OneDrain /\ drainingTicks \in BOOLEAN
      BY DEF TickInv, TickTypes
    <2>2. \A p \in 1 .. n + 1 : stack'[p].drain => p \in 1 .. n /\ stack[p].drain
      BY <1>2, <1>4, <1>5
    <2>3. drainingTicks' <=> \E p \in 1 .. n + 1 : stack'[p].drain
      BY <1>3, <1>4, <1>5, <2>1, <2>2 DEF OneDrain
    <2>4. \A p, q \in 1 .. n + 1 : stack'[p].drain /\ stack'[q].drain => p = q
      BY <1>3, <2>1, <2>2 DEF OneDrain
    <2>5. ASSUME NEW p \in 1 .. n + 1
          PROVE  /\ stack'[p].drain => p = n + 1 \/ stack'[p + 1].kind = "tick"
                 /\ stack'[p].kind = "tick" => p > 1 /\ stack'[p - 1].drain
                 /\ ~stack'[p].drain => stack'[p].taken = 0
      <3>1. CASE p = n + 1
        BY <1>2, <1>5, <3>1
      <3>2. CASE p \in 1 .. n
        <4>1. stack'[p] = stack[p] /\ (p > 1 => stack'[p - 1] = stack[p - 1])
          BY <1>4, <1>5, <3>2
        <4>2. stack[p].drain => p < n
          BY <1>0, <1>6, <3>2
        <4>3. p < n => stack'[p + 1] = stack[p + 1]
          BY <1>4, <1>5, <3>2
        <4> QED
          BY <1>3, <2>1, <3>2, <4>1, <4>2, <4>3 DEF OneDrain
      <3> QED
        BY <1>0, <3>1, <3>2, Upto
    <2> QED
      BY <1>5, <2>3, <2>4, <2>5 DEF OneDrain
  <1>9. InOrder'
    <2>1. \A p \in 1 .. n + 1 : stack'[p].drain => p \in 1 .. n /\ stack'[p] = stack[p]
      BY <1>2, <1>4, <1>5
    <2> QED
      BY <1>3, <1>4, <1>5, <2>1 DEF TickInv, InOrder
  <1>10. Owners'
    <2>1. \A i \in 1 .. Len(ticks) : ticks[i].by <= n + 1
      <3>1. \A i \in 1 .. Len(ticks) : ticks[i].by <= n /\ ticks[i].by \in Nat
        BY <1>3, <1>4, PlacesAre DEF TickInv, Owners
      <3> QED
        BY <1>4, <3>1
    <2>2. ASSUME NEW i \in 1 .. Len(ticks), NEW p \in 1 .. n + 1
          PROVE  /\ stack'[p].from => ticks[i].by = 0 \/ ticks[i].by >= p
                 /\ stack'[p].drain => ticks[i].by = 0 \/ ticks[i].by > p
      <3>1. CASE p = n + 1
        BY <1>2, <1>5, <3>1
      <3>2. CASE p \in 1 .. n
        BY <1>3, <1>5, <3>2 DEF TickInv, Owners
      <3> QED
        BY <1>0, <3>1, <3>2, Upto
    <2> QED
      BY <1>4, <1>5, <2>1, <2>2 DEF Owners
  <1> QED
    BY <1>7, <1>8, <1>9, <1>10 DEF TickInv

\* queueGuestNextTick: the tick goes behind those that wait, owned by the frame on top.
LEMMA QueueTicks ==
  ASSUME TickInv, QueueGuestNextTick
  PROVE  TickInv'
  <1>1. PICK n, m : n = Len(stack) /\ m = Len(ticks)
    OBVIOUS
  <1>2. PICK x : x = [n |-> queued + 1, by |-> n]
    OBVIOUS
  <1>3. /\ ticks' = Append(ticks, x) /\ queued' = queued + 1
        /\ UNCHANGED <<stack, drainingTicks, ran>>
        /\ TickTypes /\ n \in Nat \ {0} /\ m \in Nat /\ ~stack[n].drain
    BY <1>1, <1>2 DEF QueueGuestNextTick, TickInv, TickTypes, Running, Top
  <1>0. n \in Nat /\ m \in Nat
    BY <1>3
  <1>4. x \in TickRecord /\ x.n = queued + 1 /\ x.by = n
    BY <1>2, <1>3 DEF TickRecord, TickTypes
  <1>5. /\ ticks' \in Seq(TickRecord) /\ Len(ticks') = m + 1 /\ ticks'[m + 1] = x
        /\ \A i \in 1 .. m : ticks'[i] = ticks[i]
    BY <1>1, <1>3, <1>4, PushIs DEF TickTypes
  <1>6. TickTypes'
    BY <1>3, <1>5 DEF TickTypes
  <1>7. OneDrain'
    BY <1>3 DEF TickInv, OneDrain
  <1>8. InOrder'
    <2>1. InOrder /\ queued \in Nat
      BY <1>3 DEF TickInv, TickTypes
    <2>2. \A i \in 1 .. m + 1 : ticks'[i].n = (queued + 1) - (m + 1) + i
      <3>1. \A i \in 1 .. m : ticks'[i].n = queued - m + i
        BY <1>1, <1>5, <2>1 DEF InOrder
      <3> QED
        BY <1>3, <1>4, <1>5, <2>1, <3>1
    <2>3. m + 1 <= queued + 1 /\ (queued + 1) - (m + 1) = queued - m
      BY <1>1, <1>3, <2>1 DEF InOrder
    <2>4. \A p \in 1 .. n : stack[p].drain =>
            stack[p].taken <= m + 1 /\ Len(ran) = queued - m + stack[p].taken
      <3>1. \A p \in 1 .. n : stack[p].drain =>
              stack[p].taken <= m /\ Len(ran) = queued - m + stack[p].taken
        BY <1>1, <2>1 DEF InOrder
      <3>2. \A p \in 1 .. n : stack[p].taken \in Nat
        BY <1>1, <1>3, PlacesAre
      <3> QED
        BY <1>3, <3>1, <3>2
    <2> QED
      <3>1. /\ Len(ticks') = m + 1 /\ queued' = queued + 1 /\ stack' = stack /\ ran' = ran
            /\ drainingTicks' = drainingTicks /\ Len(stack) = n
        BY <1>1, <1>3, <1>5
      <3>2. /\ \A i \in 1 .. Len(ran) : ran[i] = i
            /\ ~drainingTicks => Len(ran) = queued - m
        BY <1>1, <2>1 DEF InOrder
      <3> QED
        BY <2>2, <2>3, <2>4, <3>1, <3>2 DEF InOrder
  <1>9. Owners'
    <2>1. ASSUME NEW i \in 1 .. m + 1
          PROVE  /\ ticks'[i].by <= n
                 /\ \A p \in 1 .. n : /\ stack[p].from => ticks'[i].by = 0 \/ ticks'[i].by >= p
                                      /\ stack[p].drain => ticks'[i].by = 0 \/ ticks'[i].by > p
      <3>1. CASE i = m + 1
        BY <1>3, <1>4, <1>5, <3>1
      <3>2. CASE i \in 1 .. m
        BY <1>1, <1>5, <3>2 DEF TickInv, Owners
      <3> QED
        BY <1>0, <3>1, <3>2, Upto
    <2> QED
      BY <1>1, <1>3, <1>5, <2>1 DEF Owners
  <1> QED
    BY <1>6, <1>7, <1>8, <1>9 DEF TickInv

\* A drain begins, at the top: no tick of the code there is left, and none of what is below.
LEMMA DrainBegins ==
  ASSUME TickInv, ~drainingTicks, drainingTicks' = TRUE, UNCHANGED <<ran, queued>>,
         NEW n \in Nat \ {0}, NEW x \in Frame, x.drain, x.taken = 0, x.kind # "tick",
         stack' \in Seq(Frame), Len(stack') = n, stack'[n] = x,
         Len(stack) \in {n - 1, n}, \A i \in 1 .. n - 1 : stack'[i] = stack[i],
         ticks' \in Seq(TickRecord), Len(ticks') = Len(ticks),
         \A i \in 1 .. Len(ticks) : ticks'[i].n = ticks[i].n /\ ticks'[i].by = 0
  PROVE  TickInv'
  <1>1. /\ TickTypes /\ OneDrain /\ InOrder /\ Len(ticks) \in Nat /\ Len(stack) \in Nat
        /\ queued \in Nat /\ \A p \in 1 .. Len(stack) : ~stack[p].drain
    BY DEF TickInv, TickTypes, OneDrain
  <1>2. \A p \in 1 .. n - 1 : p \in 1 .. Len(stack) /\ ~stack[p].drain /\ ~stack'[p].drain
    BY <1>1
  <1>3. TickTypes'
    BY <1>1 DEF TickTypes
  <1>4. OneDrain'
    <2>1. \A p \in 1 .. n : stack'[p].drain => p = n
      BY <1>2
    <2>2. \A p \in 1 .. n : stack'[p].kind = "tick" => p > 1 /\ stack'[p - 1].drain
      <3>1. \A p \in 1 .. n - 1 : stack'[p].kind # "tick"
        BY <1>1, <1>2 DEF OneDrain
      <3> QED
        BY <3>1
    <2>3. \A p \in 1 .. n : ~stack'[p].drain => stack'[p].taken = 0
      BY <1>1, <1>2 DEF OneDrain
    <2> QED
      BY <2>1, <2>2, <2>3 DEF OneDrain
  <1>5. InOrder'
    <2>1. \A p \in 1 .. n : stack'[p].drain => stack'[p].taken = 0
      BY <1>2
    <2> QED
      BY <1>1, <2>1 DEF InOrder
  <1>6. Owners'
    BY DEF Owners
  <1> QED
    BY <1>3, <1>4, <1>5, <1>6 DEF TickInv


\* Code returns, or throws, to what entered it; its ticks are nobody's from then on.
LEMMA LeavesTicks ==
  ASSUME TickInv, Running, stack' = Under, ticks' = Returned(ticks, Len(stack)),
         UNCHANGED <<drainingTicks, ran, queued>>
  PROVE  TickInv'
  <1>1. PICK n, m : n = Len(stack) /\ m = Len(ticks)
    OBVIOUS
  <1>2. /\ n \in Nat \ {0} /\ m \in Nat /\ ~stack[n].drain /\ TickTypes /\ n \in 1 .. Len(stack)
        /\ \A p \in 1 .. n : stack[p] \in Frame
    BY <1>1, PlacesAre DEF Running, Top, TickInv, TickTypes
  <1>3. n - 1 \in 0 .. Len(stack)
    BY <1>1, <1>2
  <1>4. /\ stack' \in Seq(Frame) /\ Len(stack') = n - 1
        /\ \A p \in 1 .. n - 1 : stack'[p] = stack[p]
    BY <1>1, <1>2, <1>3, CutIs DEF Under, TickTypes
  <1>5. /\ ticks' \in Seq(TickRecord) /\ Len(ticks') = m
        /\ \A i \in 1 .. m : /\ ticks'[i].n = ticks[i].n
                             /\ ticks'[i].by = IF ticks[i].by = n THEN 0 ELSE ticks[i].by
    BY <1>1, <1>2, ReturnedIs DEF TickTypes
  <1>6. TickTypes'
    BY <1>2, <1>4, <1>5 DEF TickTypes
  <1>7. OneDrain'
    <2>1. OneDrain
      BY DEF TickInv
    <2>2. \A p \in 1 .. n : stack[p].drain => p \in 1 .. n - 1
      BY <1>2
    <2>3. drainingTicks' <=> \E p \in 1 .. n - 1 : stack'[p].drain
      <3>1. drainingTicks <=> \E p \in 1 .. n : stack[p].drain
        BY <1>1, <2>1 DEF OneDrain
      <3>2. \A p \in 1 .. n - 1 : p \in 1 .. n /\ stack'[p].drain = stack[p].drain
        BY <1>2, <1>4
      <3>3. (\E p \in 1 .. n : stack[p].drain) <=> (\E p \in 1 .. n - 1 : stack'[p].drain)
        BY <2>2, <3>2, Zenon
      <3>4. drainingTicks' <=> drainingTicks
        OBVIOUS
      <3> QED
        BY <3>1, <3>3, <3>4, Zenon
    <2>4. \A p, q \in 1 .. n - 1 : stack'[p].drain /\ stack'[q].drain => p = q
      BY <1>1, <1>2, <1>4, <2>1 DEF OneDrain
    <2>5. ASSUME NEW p \in 1 .. n - 1
          PROVE  /\ stack'[p].drain => p = n - 1 \/ stack'[p + 1].kind = "tick"
                 /\ stack'[p].kind = "tick" => p > 1 /\ stack'[p - 1].drain
                 /\ ~stack'[p].drain => stack'[p].taken = 0
      <3>1. /\ p \in 1 .. Len(stack) /\ stack'[p] = stack[p] /\ (p > 1 => stack'[p - 1] = stack[p - 1])
            /\ p = n - 1 \/ stack'[p + 1] = stack[p + 1]
        BY <1>1, <1>2, <1>4
      <3>2. p # Len(stack)
        BY <1>1, <1>2
      <3> QED
        BY <2>1, <3>1, <3>2 DEF OneDrain
    <2> QED
      BY <1>4, <2>3, <2>4, <2>5 DEF OneDrain
  <1>8. InOrder'
    <2>1. \A p \in 1 .. n - 1 : p \in 1 .. Len(stack) /\ stack'[p] = stack[p]
      BY <1>1, <1>2, <1>4
    <2>2. \A i \in 1 .. m : ticks'[i].n = queued - m + i
      BY <1>1, <1>5 DEF TickInv, InOrder
    <2>3. /\ m <= queued /\ \A i \in 1 .. Len(ran) : ran[i] = i
          /\ ~drainingTicks => Len(ran) = queued - m
      BY <1>1 DEF TickInv, InOrder
    <2>4. \A p \in 1 .. n - 1 : stack'[p].drain =>
            stack'[p].taken <= m /\ Len(ran) = queued - m + stack'[p].taken
      BY <1>1, <2>1 DEF TickInv, InOrder
    <2> QED
      BY <1>4, <1>5, <2>2, <2>3, <2>4 DEF InOrder
  <1>9. Owners'
    <2>1. ASSUME NEW i \in 1 .. m
          PROVE  /\ ticks'[i].by <= n - 1
                 /\ \A p \in 1 .. n - 1 : /\ stack'[p].from => ticks'[i].by = 0 \/ ticks'[i].by >= p
                                          /\ stack'[p].drain => ticks'[i].by = 0 \/ ticks'[i].by > p
      <3>1. PICK b : b = ticks[i].by
        OBVIOUS
      <3>2. b \in Nat /\ b <= n /\ ticks'[i].by = IF b = n THEN 0 ELSE b
        BY <1>1, <1>2, <1>5, <3>1, PlacesAre DEF TickInv, Owners
      <3>3. \A p \in 1 .. n - 1 : /\ stack'[p].from => b = 0 \/ b >= p
                                  /\ stack'[p].drain => b = 0 \/ b > p
        <4>1. \A p \in 1 .. n - 1 : p \in 1 .. Len(stack) /\ stack'[p] = stack[p]
          BY <1>1, <1>2, <1>4
        <4> QED
          BY <1>1, <3>1, <4>1 DEF TickInv, Owners
      <3>4. CASE b = n
        BY <1>2, <3>2, <3>4
      <3>5. CASE b # n
        BY <1>2, <3>2, <3>3, <3>5
      <3> QED
        BY <3>4, <3>5
    <2> QED
      BY <1>4, <1>5, <2>1 DEF Owners
  <1> QED
    BY <1>6, <1>7, <1>8, <1>9 DEF TickInv

\* A drain ends, its frame p left with what was above it: what it took goes.
LEMMA DrainEnds ==
  ASSUME TickInv, NEW p \in 1 .. Len(stack), stack[p].drain,
         NEW q \in Seq(TickRecord), Len(q) = Len(ticks),
         \A i \in 1 .. Len(ticks) : q[i].n = ticks[i].n /\ (q[i].by = ticks[i].by \/ q[i].by = 0),
         \A i \in 1 .. Len(ticks) : q[i].by <= p,
         stack' = SubSeq(stack, 1, p - 1), ticks' = SubSeq(q, stack[p].taken + 1, Len(q)),
         drainingTicks' = FALSE, UNCHANGED <<ran, queued>>
  PROVE  TickInv'
  <1>1. PICK n, m, t : n = Len(stack) /\ m = Len(ticks) /\ t = stack[p].taken
    OBVIOUS
  <1>2. /\ TickTypes /\ n \in Nat /\ m \in Nat /\ t \in Nat /\ p \in 1 .. n /\ queued \in Nat
        /\ p - 1 \in 0 .. Len(stack)
    BY <1>1, PlacesAre DEF TickInv
  <1>3. t <= m /\ Len(ran) = queued - m + t /\ m <= queued
    BY <1>1 DEF TickInv, InOrder
  <1>4. /\ stack' \in Seq(Frame) /\ Len(stack') = p - 1
        /\ \A i \in 1 .. p - 1 : stack'[i] = stack[i]
    BY <1>2, CutIs DEF TickTypes
  <1>5. t \in 0 .. Len(q)
    BY <1>1, <1>2, <1>3
  <1>6. /\ ticks' \in Seq(TickRecord) /\ Len(ticks') = m - t
        /\ \A i \in 1 .. m - t : ticks'[i] = q[t + i]
    <2>1. ticks' = SubSeq(q, t + 1, Len(q)) /\ Len(q) = m
      BY <1>1
    <2>2. /\ SubSeq(q, t + 1, Len(q)) \in Seq(TickRecord)
          /\ Len(SubSeq(q, t + 1, Len(q))) = Len(q) - t
          /\ \A i \in 1 .. Len(q) - t : SubSeq(q, t + 1, Len(q))[i] = q[t + i]
      BY <1>5, RestIs
    <2> QED
      BY <2>1, <2>2
  <1>7. \A i \in 1 .. p - 1 : i \in 1 .. Len(stack) /\ ~stack'[i].drain /\ stack'[i].taken = 0
                              /\ stack'[i].kind # "tick"
    <2>1. \A i \in 1 .. p - 1 : i \in 1 .. n /\ i # p /\ stack'[i] = stack[i]
      BY <1>2, <1>4
    <2>2. \A i \in 1 .. p - 1 : ~stack[i].drain
      BY <1>1, <2>1 DEF TickInv, OneDrain
    <2>3. \A i \in 1 .. p - 1 : i > 1 => i - 1 \in 1 .. p - 1
      BY <1>2
    <2> QED
      BY <1>1, <2>1, <2>2, <2>3 DEF TickInv, OneDrain
  <1>8. TickTypes'
    BY <1>2, <1>4, <1>6 DEF TickTypes
  <1>9. OneDrain'
    BY <1>4, <1>7 DEF OneDrain
  <1>10. \A i \in 1 .. m - t : t + i \in 1 .. m
    BY <1>2, <1>3
  <1>11. InOrder'
    <2>1. \A i \in 1 .. m : q[i].n = queued - m + i
      BY <1>1 DEF TickInv, InOrder
    <2>2. ASSUME NEW i \in 1 .. m - t
          PROVE  ticks'[i].n = queued - (m - t) + i
      <3>1. ticks'[i] = q[t + i] /\ t + i \in 1 .. m
        BY <1>6, <1>10
      <3>2. ticks'[i].n = queued - m + (t + i)
        BY <2>1, <3>1
      <3>3. queued - m + (t + i) = queued - (m - t) + i
        BY <1>2
      <3> QED
        BY <3>2, <3>3
    <2>3. m - t <= queued /\ Len(ran) = queued - (m - t)
      BY <1>2, <1>3
    <2>4. \A i \in 1 .. Len(ran) : ran[i] = i
      BY DEF TickInv, InOrder
    <2> QED
      BY <1>4, <1>6, <1>7, <2>2, <2>3, <2>4 DEF InOrder
  <1>12. Owners'
    <2>1. ASSUME NEW i \in 1 .. m
          PROVE  /\ q[i].by <= p - 1
                 /\ \A r \in 1 .. p - 1 : stack[r].from => q[i].by = 0 \/ q[i].by >= r
      <3>1. PICK b : b = ticks[i].by
        OBVIOUS
      <3>2. b \in Nat /\ (b = 0 \/ b > p) /\ \A r \in 1 .. n : stack[r].from => b = 0 \/ b >= r
        BY <1>1, <1>2, <3>1, PlacesAre DEF TickInv, Owners
      <3>3. q[i].by = b \/ q[i].by = 0
        BY <1>1, <3>1
      <3>4. q[i].by <= p
        BY <1>1
      <3>5. q[i].by = 0
        BY <1>2, <3>2, <3>3, <3>4
      <3> QED
        BY <1>2, <3>5
    <2>2. ASSUME NEW i \in 1 .. m - t
          PROVE  /\ ticks'[i].by <= p - 1
                 /\ \A r \in 1 .. p - 1 : stack'[r].from => ticks'[i].by = 0 \/ ticks'[i].by >= r
      <3>1. PICK k : k = t + i
        OBVIOUS
      <3>2. k \in 1 .. m /\ ticks'[i] = q[k]
        BY <1>6, <1>10, <3>1
      <3>3. PICK b : b = ticks'[i].by /\ b = q[k].by
        BY <3>2
      <3>4. b <= p - 1 /\ \A r \in 1 .. p - 1 : stack[r].from => b = 0 \/ b >= r
        BY <2>1, <3>2, <3>3
      <3>5. \A r \in 1 .. p - 1 : stack'[r] = stack[r]
        BY <1>4
      <3>6. \A r \in 1 .. p - 1 : stack'[r].from => b = 0 \/ b >= r
        BY <3>4, <3>5
      <3> QED
        BY <3>3, <3>4, <3>6
    <2> QED
      BY <1>4, <1>6, <1>7, <2>2 DEF Owners
  <1> QED
    BY <1>8, <1>9, <1>11, <1>12 DEF TickInv


\* A drain runs the next tick: it is the next by number, and nobody below still runs the code
\* that queued it.
LEMMA RunTickTicks ==
  ASSUME TickInv, RunTick
  PROVE  /\ TickInv'
         /\ Len(ran') > Len(ran) /\ ticks[Top.taken + 1].by = 0
  <1>1. PICK n, m, t, s, x, y :
          /\ n = Len(stack) /\ m = Len(ticks) /\ t = stack[n].taken
          /\ x = [stack[n] EXCEPT !.taken = t + 1] /\ y = Plain("tick") /\ s = [stack EXCEPT ![n] = x]
    OBVIOUS
  <1>2. /\ TickTypes /\ n \in Nat \ {0} /\ m \in Nat /\ t \in Nat /\ n \in 1 .. Len(stack)
        /\ stack[n].drain /\ t < m /\ Top.taken = t /\ queued \in Nat /\ stack[n] \in Frame
        /\ Len(ran) \in Nat
    BY <1>1, PlacesAre DEF TickInv, TickTypes, RunTick, Top
  <1>3. /\ stack' = Append(s, y) /\ ran' = Append(ran, ticks[t + 1].n)
        /\ UNCHANGED <<ticks, drainingTicks, queued>>
    BY <1>1, <1>2 DEF RunTick, tickVars
  <1>4. /\ x \in Frame /\ x.drain /\ x.taken = t + 1 /\ x.kind = stack[n].kind /\ x.from = stack[n].from
        /\ y \in Frame /\ ~y.drain /\ y.taken = 0 /\ y.kind = "tick" /\ ~y.from
    BY <1>1, <1>2 DEF Frame, Plain
  <1>5. /\ s \in Seq(Frame) /\ Len(s) = n /\ s[n] = x
        /\ \A i \in 1 .. n : i # n => s[i] = stack[i]
    BY <1>1, <1>2, <1>4, ReplacedIs DEF TickTypes
  <1>6. /\ stack' \in Seq(Frame) /\ Len(stack') = n + 1 /\ stack'[n + 1] = y /\ stack'[n] = x
        /\ \A i \in 1 .. n : i # n => stack'[i] = stack[i]
    <2>1. /\ stack' \in Seq(Frame) /\ Len(stack') = n + 1 /\ stack'[n + 1] = y
          /\ \A i \in 1 .. n : stack'[i] = s[i]
      BY <1>3, <1>4, <1>5, PushIs
    <2> QED
      BY <1>1, <1>2, <1>5, <2>1
  <1>7. /\ m <= queued /\ Len(ran) = queued - m + t /\ ticks[t + 1].n = queued - m + (t + 1)
        /\ \A i \in 1 .. Len(ran) : ran[i] = i
        /\ drainingTicks
    <2>1. t + 1 \in 1 .. m
      BY <1>2
    <2>2. drainingTicks
      BY <1>1, <1>2 DEF TickInv, OneDrain
    <2> QED
      BY <1>1, <1>2, <2>1, <2>2 DEF TickInv, InOrder
  <1>8. /\ ran' \in Seq(Nat) /\ Len(ran') = Len(ran) + 1 /\ \A i \in 1 .. Len(ran') : ran'[i] = i
    <2>1. ticks[t + 1].n = Len(ran) + 1
      BY <1>2, <1>7
    <2>2. ran \in Seq(Nat) /\ Len(ran) + 1 \in Nat
      BY <1>2 DEF TickTypes
    <2>3. /\ ran' \in Seq(Nat) /\ Len(ran') = Len(ran) + 1 /\ ran'[Len(ran) + 1] = Len(ran) + 1
          /\ \A i \in 1 .. Len(ran) : ran'[i] = ran[i]
      BY <1>3, <2>1, <2>2, PushIs
    <2>4. \A i \in 1 .. Len(ran) + 1 : i = Len(ran) + 1 \/ i \in 1 .. Len(ran)
      BY <1>2
    <2> QED
      BY <1>7, <2>3, <2>4
  <1>9. TickTypes'
    BY <1>2, <1>3, <1>6, <1>8 DEF TickTypes
  <1>10. /\ \A p \in 1 .. n : stack[p].drain => p = n
         /\ \A p \in 1 .. n + 1 : stack'[p].drain <=> p = n
    <2>1. \A p \in 1 .. n : stack[p].drain => p = n
      BY <1>1, <1>2 DEF TickInv, OneDrain
    <2> QED
      BY <1>2, <1>4, <1>6, <2>1
  <1>11. OneDrain'
    <2>1. drainingTicks' <=> \E p \in 1 .. n + 1 : stack'[p].drain
      <3>1. drainingTicks'
        BY <1>3, <1>7
      <3>2. n \in 1 .. n + 1
        BY <1>2
      <3>3. stack'[n].drain
        BY <1>10, <3>2
      <3> QED
        BY <3>1, <3>2, <3>3
    <2>2. ASSUME NEW p \in 1 .. n + 1
          PROVE  /\ stack'[p].drain => p = n + 1 \/ stack'[p + 1].kind = "tick"
                 /\ stack'[p].kind = "tick" => p > 1 /\ stack'[p - 1].drain
                 /\ ~stack'[p].drain => stack'[p].taken = 0
      <3>1. CASE p = n + 1
        BY <1>2, <1>4, <1>6, <1>10, <3>1
      <3>2. CASE p = n
        <4>1. stack[n].kind = "tick" => n > 1 /\ stack[n - 1].drain
          BY <1>1, <1>2 DEF TickInv, OneDrain
        <4>2. n > 1 => n - 1 \in 1 .. n
          BY <1>2
        <4>3. stack[n].kind # "tick"
          BY <1>2, <1>10, <4>1, <4>2
        <4> QED
          BY <1>4, <1>6, <3>2, <4>3
      <3>3. CASE p \in 1 .. n /\ p # n
        <4>1. stack'[p] = stack[p] /\ ~stack'[p].drain /\ ~stack[p].drain
          BY <1>6, <1>10, <3>3
        <4>2. p > 1 => p - 1 \in 1 .. n /\ p - 1 # n
          BY <1>2, <3>3
        <4>3. /\ stack[p].kind = "tick" => p > 1 /\ stack[p - 1].drain
              /\ stack[p].taken = 0
          BY <1>1, <3>3, <4>1 DEF TickInv, OneDrain
        <4> QED
          BY <1>10, <4>1, <4>2, <4>3
      <3>4. p = n + 1 \/ p \in 1 .. n
        BY <1>2
      <3> QED
        BY <3>1, <3>2, <3>3, <3>4
    <2> QED
      BY <1>6, <1>10, <2>1, <2>2 DEF OneDrain
  <1>12. InOrder'
    <2>1. \A i \in 1 .. m : ticks[i].n = queued - m + i
      BY <1>1 DEF TickInv, InOrder
    <2>2. t + 1 <= m /\ Len(ran') = queued - m + (t + 1)
      BY <1>2, <1>7, <1>8
    <2>3. \A p \in 1 .. n + 1 : stack'[p].drain => stack'[p].taken = t + 1
      BY <1>4, <1>6, <1>10
    <2> QED
      BY <1>1, <1>3, <1>6, <1>7, <1>8, <2>1, <2>2, <2>3 DEF InOrder
  <1>13. \A i \in 1 .. m : ticks[i].by = 0
    BY <1>1, <1>2, PlacesAre DEF TickInv, Owners
  <1>14. Owners'
    BY <1>1, <1>2, <1>3, <1>6, <1>13 DEF Owners
  <1> QED
    BY <1>1, <1>2, <1>8, <1>9, <1>11, <1>12, <1>13, <1>14 DEF TickInv


\* A drain that has come to the end of the queue empties it.
LEMMA DrainedTicks ==
  ASSUME TickInv, Drained
  PROVE  TickInv'
  <1>1. /\ TickTypes /\ stack # << >> /\ Top.drain /\ stack' = Under /\ UNCHANGED <<ran, queued>>
        /\ ticks' = SubSeq(ticks, Top.taken + 1, Len(ticks)) /\ drainingTicks' = FALSE
    BY DEF Drained, EndDrain, TickInv
  <1>2. /\ Len(stack) \in 1 .. Len(stack) /\ stack[Len(stack)].drain
        /\ stack' = SubSeq(stack, 1, Len(stack) - 1) /\ Top = stack[Len(stack)]
    BY <1>1, TopIs DEF Under
  <1>3. /\ ticks \in Seq(TickRecord)
        /\ \A i \in 1 .. Len(ticks) : ticks[i].by <= Len(stack)
    BY <1>1 DEF TickTypes, TickInv, Owners
  <1> QED
    BY <1>1, <1>2, <1>3, DrainEnds

\* Guest code returns: into a drain of its own, or out of its frame.
LEMMA ReturnTicks ==
  ASSUME TickInv, Return
  PROVE  TickInv'
  <1>1. PICK n : n = Len(stack)
    OBVIOUS
  <1>2. /\ TickTypes /\ Running /\ stack # << >> /\ n \in Nat \ {0} /\ n \in 1 .. Len(stack)
        /\ Top = stack[n] /\ Top \in Frame /\ ~Top.drain
        /\ ticks' = Returned(ticks, n) /\ UNCHANGED <<ran, queued>>
    BY <1>1, TopIs DEF Return, Running, TickInv
  <1>3. CASE Top.kind = "callback" /\ Top.from /\ callbackDepth = 1 /\ ~drainingTicks
    <2>1. PICK x : x = [stack[n] EXCEPT !.drain = TRUE]
      OBVIOUS
    <2>2. stack' = [stack EXCEPT ![n] = x] /\ drainingTicks' = TRUE
      BY <1>1, <1>2, <1>3, <2>1 DEF Return
    <2>3. /\ x \in Frame /\ x.drain /\ x.taken = stack[n].taken /\ x.kind = "callback"
      BY <1>2, <1>3, <2>1 DEF Frame
    <2>4. /\ stack' \in Seq(Frame) /\ Len(stack') = n /\ stack'[n] = x
          /\ \A i \in 1 .. Len(stack) : i # n => stack'[i] = stack[i]
      BY <1>1, <1>2, <2>2, <2>3, ReplacedIs DEF TickTypes
    <2>5. \A i \in 1 .. n - 1 : stack'[i] = stack[i]
      <3>1. \A i \in 1 .. n - 1 : i \in 1 .. Len(stack) /\ i # n
        BY <1>1, <1>2
      <3> QED
        BY <2>4, <3>1
    <2>6. x.taken = 0
      BY <1>1, <1>2, <2>3 DEF TickInv, OneDrain
    <2>7. /\ ticks' \in Seq(TickRecord) /\ Len(ticks') = Len(ticks)
          /\ \A i \in 1 .. Len(ticks) : ticks'[i].n = ticks[i].n /\ ticks'[i].by = 0
      <3>1. /\ ticks' \in Seq(TickRecord) /\ Len(ticks') = Len(ticks)
            /\ \A i \in 1 .. Len(ticks) :
                 /\ ticks'[i].n = ticks[i].n
                 /\ ticks'[i].by = IF ticks[i].by = n THEN 0 ELSE ticks[i].by
        BY <1>2, ReturnedIs DEF TickTypes
      <3>2. \A i \in 1 .. Len(ticks) :
              ticks[i].by \in Nat /\ ticks[i].by <= n /\ (ticks[i].by = 0 \/ ticks[i].by >= n)
        BY <1>1, <1>2, <1>3, PlacesAre DEF TickInv, Owners
      <3>3. \A i \in 1 .. Len(ticks) : ticks[i].by = 0 \/ ticks[i].by = n
        BY <1>2, <3>2
      <3> QED
        BY <3>1, <3>3
    <2>8. Len(stack) \in {n - 1, n} /\ ~drainingTicks
      BY <1>1, <1>3
    <2> QED
      BY <1>2, <2>2, <2>3, <2>4, <2>5, <2>6, <2>7, <2>8, DrainBegins
  <1>4. CASE ~(Top.kind = "callback" /\ Top.from /\ callbackDepth = 1 /\ ~drainingTicks)
    <2>1. stack' = Under /\ UNCHANGED drainingTicks
      BY <1>4 DEF Return
    <2> QED
      BY <1>1, <1>2, <2>1, LeavesTicks
  <1> QED
    BY <1>3, <1>4

\* Guest code throws: a drain it was in keeps the ticks it had not run.
LEMMA ThrowTicks ==
  ASSUME TickInv, Throw
  PROVE  TickInv'
  <1>1. PICK n : n = Len(stack)
    OBVIOUS
  <1>2. /\ TickTypes /\ Running /\ stack # << >> /\ n \in Nat \ {0} /\ n \in 1 .. Len(stack)
        /\ Top = stack[n] /\ UNCHANGED <<ran, queued>>
    BY <1>1, TopIs DEF Throw, Running, TickInv
  <1>3. CASE Top.kind = "tick"
    <2>1. PICK p, q : p = n - 1 /\ q = Returned(ticks, n)
      OBVIOUS
    <2>2. n > 1 /\ stack[p].drain
      BY <1>1, <1>2, <1>3, <2>1 DEF TickInv, OneDrain
    <2>3. p \in 1 .. Len(stack) /\ p - 1 = n - 2 /\ p < n
      BY <1>1, <1>2, <2>1, <2>2
    <2>4. /\ stack' = SubSeq(stack, 1, p - 1) /\ drainingTicks' = FALSE
          /\ ticks' = SubSeq(q, stack[p].taken + 1, Len(q))
      <3>1. stack' = SubSeq(stack, 1, n - 2) /\ EndDrain(stack[p], q)
        BY <1>1, <1>3, <2>1 DEF Throw
      <3> QED
        BY <2>3, <3>1 DEF EndDrain
    <2>5. /\ q \in Seq(TickRecord) /\ Len(q) = Len(ticks)
          /\ \A i \in 1 .. Len(ticks) : /\ q[i].n = ticks[i].n
                                        /\ q[i].by = IF ticks[i].by = n THEN 0 ELSE ticks[i].by
      BY <1>2, <2>1, ReturnedIs DEF TickTypes
    <2>6. \A i \in 1 .. Len(ticks) : ticks[i].by \in Nat /\ ticks[i].by <= n
      BY <1>1, <1>2, PlacesAre DEF TickInv, Owners
    <2>7. \A i \in 1 .. Len(ticks) : /\ q[i].n = ticks[i].n /\ (q[i].by = ticks[i].by \/ q[i].by = 0)
                                     /\ q[i].by <= p
      BY <1>2, <2>1, <2>3, <2>5, <2>6
    <2> QED
      BY <1>2, <2>2, <2>3, <2>4, <2>5, <2>7, DrainEnds
  <1>4. CASE Top.kind # "tick"
    <2>1. stack' = Under /\ ticks' = Returned(ticks, Len(stack)) /\ UNCHANGED drainingTicks
      BY <1>4 DEF Throw
    <2> QED
      BY <1>2, <2>1, LeavesTicks
  <1> QED
    BY <1>3, <1>4

\* The microtask's drain begins on an empty stack.
LEMMA RunDrainTicks ==
  ASSUME TickInv, stack = << >>, RunDrain
  PROVE  TickInv'
  <1>1. PICK x : x = [Plain("ticks") EXCEPT !.drain = TRUE]
    OBVIOUS
  <1>2. /\ stack' = <<x>> /\ drainingTicks' = TRUE /\ UNCHANGED <<ticks, ran, queued>> /\ TickTypes
    BY <1>1 DEF RunDrain, TickInv
  <1>3. x \in Frame /\ x.drain /\ x.taken = 0 /\ x.kind # "tick"
    BY <1>1 DEF Plain, Frame
  <1>4. stack' \in Seq(Frame) /\ Len(stack') = 1 /\ stack'[1] = x /\ Len(stack) = 0
    BY <1>2, <1>3
  <1>5. ~drainingTicks
    BY <1>4 DEF TickInv, OneDrain
  <1>6. \A i \in 1 .. Len(ticks) : ticks[i].by = 0
    <2>1. \A i \in 1 .. Len(ticks) : ticks[i].by \in Nat /\ ticks[i].by <= 0
      BY <1>2, <1>4, PlacesAre DEF TickInv, Owners
    <2> QED
      BY <2>1
  <1>7. /\ ticks' \in Seq(TickRecord) /\ Len(ticks') = Len(ticks)
        /\ \A i \in 1 .. Len(ticks) : ticks'[i].n = ticks[i].n /\ ticks'[i].by = 0
    BY <1>2, <1>6 DEF TickTypes
  <1>8. PICK one \in Nat \ {0} : one = 1
    OBVIOUS
  <1>9. /\ Len(stack') = one /\ stack'[one] = x /\ Len(stack) \in {one - 1, one}
        /\ \A i \in 1 .. one - 1 : stack'[i] = stack[i]
    BY <1>4, <1>8
  <1> QED
    BY <1>2, <1>3, <1>4, <1>5, <1>7, <1>9, DrainBegins

\* What touches neither the stack nor the queue.
LEMMA TickStay == ASSUME TickInv, UNCHANGED <<stack, ticks, drainingTicks, ran, queued>>
                  PROVE  TickInv'
  BY DEF TickInv, TickTypes, OneDrain, InOrder, Owners

\* Each step keeps the order, and the one that runs a tick runs nobody's.
LEMMA TickSteps ==
  ASSUME TickInv, [Next]_vars
  PROVE  /\ TickInv'
         /\ Len(ran') > Len(ran) => ticks[Top.taken + 1].by = 0
  <1>1. CASE RunTick
    BY <1>1, RunTickTicks
  <1>2. Len(ran) \in Nat
    BY PlacesAre DEF TickInv
  <1>3. CASE ~RunTick
    <2>1. ran' = ran
      BY <1>3 DEF Next, Task, Call, Enter, QueueGuestNextTick, QueueMicrotask, Drained, Return, Throw,
                  RunMicrotask, RunDrain, EndContinuation, RunTask, ResumeGuestTurn, Elapse,
                  EnableGuestEntryAccount, vars
    <2>2. CASE \E kind \in Entries : Task(kind) \/ Call(kind)
      <3>1. PICK kind \in Entries : Task(kind) \/ Call(kind)
        BY <2>2
      <3>2. Enter(kind) /\ (stack = << >> \/ Running)
        BY <3>1 DEF Task, Call
      <3> QED
        BY <1>2, <2>1, <3>2, EnterTicks
    <2>3. CASE stack = << >> /\ RunTask
      <3>1. PICK kind \in Entries : Enter(kind)
        BY <2>3 DEF RunTask, Entries
      <3> QED
        BY <1>2, <2>1, <2>3, <3>1, EnterTicks
    <2>4. CASE UNCHANGED <<stack, ticks, drainingTicks, ran, queued>>
      BY <1>2, <2>1, <2>4, TickStay
    <2>5. CASE UNCHANGED vars \/ EndContinuation \/ ResumeGuestTurn \/ Elapse \/ EnableGuestEntryAccount
               \/ \E task \in {"guest", "binding"} : QueueMicrotask(task)
      BY <2>4, <2>5 DEF vars, EndContinuation, ResumeGuestTurn, Elapse, EnableGuestEntryAccount,
                        QueueMicrotask, tickVars
    <2>6. TickInv'
      BY <1>3, <2>2, <2>3, <2>5, QueueTicks, DrainedTicks, ReturnTicks, ThrowTicks, RunDrainTicks
         DEF Next, RunMicrotask
    <2> QED
      BY <1>2, <2>1, <2>6
  <1> QED
    BY <1>1, <1>3

\* The ticks' invariant holds always.
LEMMA TickHolds == Spec => []TickInv
  <1>1. TickInv /\ [Next]_vars => TickInv'
    BY TickSteps
  <1> QED
    BY <1>1, TickStart, PTL DEF Spec

\* drainGuestNextTicks and scheduleTickDrain (src/guest-loop.ts): for any number of
\* ticks and any depth of the stack, ticks run in the order they were queued, each
\* once, whatever throws and whichever drain gets to them.
THEOREM TicksKeepOrder == Spec => []TicksInOrder
  <1>1. TickInv => TicksInOrder
    BY DEF TickInv, InOrder, TicksInOrder
  <1> QED
    BY <1>1, TickHolds, PTL

\* withGuestCallback's condition for draining (src/guest-loop.ts): no tick runs while
\* the code that queued it is on the stack.
THEOREM TicksWait == Spec => TicksWaitForTheirCode
  <1>1. TickInv /\ [Next]_vars => [Len(ran') > Len(ran) => ticks[Top.taken + 1].by = 0]_vars
    BY TickSteps
  <1> QED
    BY <1>1, TickHolds, PTL DEF Spec, TicksWaitForTheirCode


----------------------------------------------------------------------------
(* Active time: the span guest code runs in                                 *)

\* An entry counted adds its time to the account, once that is on.
LEMMA SumGrows ==
  ASSUME TimeTypes, NEW kind \in Kinds, NEW ms \in Int, Count(kind, ms)
  PROVE  /\ entryAccount' \in [Kinds -> Int] /\ Accounted \in Int
         /\ Accounted' = Accounted + (IF counting THEN ms ELSE 0)
  <1>1. \A k \in Kinds : entryAccount[k] \in Int
    BY DEF TimeTypes
  <1>2. Accounted \in Int
    BY <1>1 DEF Accounted, Kinds
  <1>3. CASE counting
    <2>1. entryAccount' = [entryAccount EXCEPT ![kind] = entryAccount[kind] + ms]
      BY <1>3 DEF Count
    <2>2. entryAccount' \in [Kinds -> Int]
      BY <1>1, <2>1 DEF TimeTypes
    <2>3. \A k \in Kinds : entryAccount'[k] = IF k = kind THEN entryAccount[k] + ms ELSE entryAccount[k]
      BY <2>1 DEF TimeTypes
    <2>4. Accounted' = Accounted + ms
      BY <1>1, <2>3 DEF Accounted, Kinds
    <2> QED
      BY <1>2, <1>3, <2>2, <2>4
  <1>4. CASE ~counting
    <2>1. entryAccount' = entryAccount
      BY <1>4 DEF Count
    <2>2. Accounted' = Accounted
      BY <2>1 DEF Accounted
    <2> QED
      BY <1>2, <1>4, <2>1, <2>2 DEF TimeTypes
  <1> QED
    BY <1>3, <1>4

\* A span that goes on: a bracket inside another, or one that ends inside another.
LEMMA SpanGoesOn ==
  ASSUME Account, InGuest' <=> InGuest,
         UNCHANGED <<active, activeSince, entryAccount, now, spent, counting, uncounted>>,
         outerKind' \in Kinds, depth' \in Nat, continuation' \in BOOLEAN
  PROVE  Account'
  <1>1. Accounted' = Accounted
    BY DEF Accounted
  <1>2. TimeTypes'
    BY DEF Account, TimeTypes
  <1> QED
    BY <1>1, <1>2 DEF Account, TimeIsCountedOnce

\* A span begins: what was active before it is the whole.
LEMMA SpanBegins ==
  ASSUME Account, ~InGuest, InGuest', activeSince' = now,
         UNCHANGED <<active, entryAccount, now, spent, counting, uncounted>>,
         outerKind' \in Kinds, depth' \in Nat, continuation' \in BOOLEAN
  PROVE  Account'
  <1>1. Accounted' = Accounted
    BY DEF Accounted
  <1>2. TimeTypes'
    BY DEF Account, TimeTypes
  <1>3. active = spent /\ now - now = 0 /\ active \in Int /\ active + 0 = active
    BY DEF Account, TimeIsCountedOnce, TimeTypes
  <1> QED
    BY <1>1, <1>2, <1>3 DEF Account, TimeIsCountedOnce

\* A span ends: its length goes to the active time and to one entry.
LEMMA SpanEnds ==
  ASSUME Account, InGuest, ~InGuest', NEW kind \in Kinds,
         active' = active + (now - activeSince), Count(kind, now - activeSince),
         UNCHANGED <<activeSince, outerKind, now, spent, counting, uncounted>>,
         depth' \in Nat, continuation' \in BOOLEAN
  PROVE  Account'
  <1>1. PICK ms : ms = now - activeSince
    OBVIOUS
  <1>2. TimeTypes /\ ms \in Int /\ active \in Int /\ uncounted \in Int /\ active + ms = spent
        /\ active' = active + ms /\ Count(kind, ms)
    BY <1>1 DEF Account, TimeTypes, TimeIsCountedOnce
  <1>3. /\ entryAccount' \in [Kinds -> Int] /\ Accounted \in Int
        /\ Accounted' = Accounted + (IF counting THEN ms ELSE 0)
    BY <1>2, SumGrows
  <1>4. TimeTypes'
    BY <1>2, <1>3 DEF TimeTypes
  <1>5. active' + 0 = spent
    BY <1>2
  <1>6. counting => active' - uncounted = Accounted'
    <2>1. counting => active - uncounted = Accounted
      BY DEF Account, TimeIsCountedOnce
    <2> QED
      BY <1>2, <1>3, <2>1
  <1>7. ~counting => Accounted' = 0
    BY <1>3 DEF Account
  <1> QED
    BY <1>4, <1>5, <1>6, <1>7 DEF Account, TimeIsCountedOnce

\* A bracket begins a span at depth 0, unless a continuation's turn is open.
LEMMA BeginTime ==
  ASSUME Account, NEW kind \in Kinds, Begin(kind), UNCHANGED <<now, spent, counting, uncounted>>,
         continuation' = continuation
  PROVE  Account' /\ depth' = depth + 1
  <1>1. /\ depth \in Nat /\ depth' = depth + 1 /\ outerKind' \in Kinds /\ continuation \in BOOLEAN
        /\ UNCHANGED <<active, entryAccount>>
        /\ activeSince' = IF depth = 0 /\ ~continuation THEN now ELSE activeSince
    BY DEF Begin, Account, TimeTypes
  <1>2. depth' \in Nat /\ depth' > 0 /\ InGuest'
    BY <1>1 DEF InGuest
  <1>3. CASE InGuest
    <2>1. activeSince' = activeSince
      BY <1>1, <1>3 DEF InGuest
    <2> QED
      BY <1>1, <1>2, <1>3, <2>1, SpanGoesOn
  <1>4. CASE ~InGuest
    <2>1. activeSince' = now
      BY <1>1, <1>4 DEF InGuest
    <2> QED
      BY <1>1, <1>2, <1>4, <2>1, SpanBegins
  <1> QED
    BY <1>1, <1>3, <1>4

\* A bracket left ends it where the depth comes back to 0 and no turn is open.
LEMMA EndTime ==
  ASSUME Account, depth > 0, End, UNCHANGED <<now, spent, counting, uncounted>>,
         continuation' = continuation
  PROVE  Account' /\ depth' = depth - 1
  <1>1. /\ depth \in Nat \ {0} /\ depth' = depth - 1 /\ outerKind \in Kinds /\ continuation \in BOOLEAN
        /\ UNCHANGED <<activeSince, outerKind>>
    BY DEF End, Account, TimeTypes
  <1>2. depth' \in Nat /\ InGuest /\ (depth' > 0 <=> depth # 1)
    BY <1>1 DEF InGuest
  <1>3. CASE depth = 1 /\ ~continuation
    <2>1. active' = active + (now - activeSince) /\ Count(outerKind, now - activeSince)
      BY <1>3 DEF End
    <2>2. ~InGuest'
      BY <1>2, <1>3 DEF InGuest
    <2> QED
      BY <1>1, <1>2, <2>1, <2>2, SpanEnds
  <1>4. CASE ~(depth = 1 /\ ~continuation)
    <2>1. UNCHANGED <<active, entryAccount>>
      BY <1>4 DEF End
    <2>2. InGuest'
      BY <1>2, <1>4 DEF InGuest
    <2> QED
      BY <1>1, <1>2, <2>1, <2>2, SpanGoesOn
  <1> QED
    BY <1>1, <1>3, <1>4

----------------------------------------------------------------------------
(* The brackets on the stack                                                *)

\* Guest code entered: the depth is still the number of brackets on the stack.
LEMMA PushBracket ==
  ASSUME Brackets, depth \in Nat, NEW x \in Frame, x.drain => Bracketed(x),
         stack' \in Seq(Frame), Len(stack') = Len(stack) + 1, stack'[Len(stack) + 1] = x,
         \A i \in 1 .. Len(stack) : /\ stack'[i].kind = stack[i].kind
                                    /\ stack'[i].drain = stack[i].drain,
         depth' = IF Bracketed(x) THEN depth + 1 ELSE depth
  PROVE  Brackets'
  <1>1. PICK n : n = Len(stack)
    OBVIOUS
  <1>2. /\ n \in Nat /\ stack' \in Seq(Frame) /\ Len(stack') = n + 1 /\ stack'[n + 1] = x
        /\ \A i \in 1 .. n : /\ Bracketed(stack'[i]) <=> Bracketed(stack[i])
                             /\ stack'[i].drain = stack[i].drain
    BY <1>1 DEF Brackets, Bracketed
  <1>3. n \in Nat
    BY <1>2
  <1>4. DrainsInside'
    BY <1>1, <1>2, <1>3, Upto DEF Brackets, DrainsInside
  <1>5. PICK f \in [0 .. n -> Nat] :
          /\ f[0] = 0 /\ depth = f[n]
          /\ \A p \in 1 .. n : f[p] = IF Bracketed(stack[p]) THEN f[p - 1] + 1 ELSE f[p - 1]
    BY <1>1 DEF Brackets, DepthIs
  <1>6. PICK g : g = [i \in 0 .. n + 1 |-> IF i = n + 1 THEN depth' ELSE f[i]]
    OBVIOUS
  <1>7. depth' \in Nat
    OBVIOUS
  <1>8. g \in [0 .. n + 1 -> Nat] /\ g[n + 1] = depth' /\ \A i \in 0 .. n : g[i] = f[i]
    BY <1>3, <1>5, <1>6, <1>7
  <1>9. ASSUME NEW p \in 1 .. n + 1
        PROVE  g[p] = IF Bracketed(stack'[p]) THEN g[p - 1] + 1 ELSE g[p - 1]
    <2>1. CASE p = n + 1
      BY <1>2, <1>3, <1>5, <1>8, <2>1
    <2>2. CASE p \in 1 .. n
      <3>1. p \in 0 .. n /\ p - 1 \in 0 .. n
        BY <1>3, <2>2
      <3> QED
        BY <1>2, <1>5, <1>8, <2>2, <3>1
    <2> QED
      BY <1>3, <2>1, <2>2, Upto
  <1>10. g[0] = 0
    BY <1>3, <1>5, <1>8
  <1>11. DepthIs'
    <2>1. Len(stack') = n + 1
      BY <1>2
    <2>2. g \in [0 .. n + 1 -> Nat] /\ depth' = g[n + 1]
      BY <1>8
    <2> HIDE <1>1, <1>5, <1>6
    <2> QED
      BY <2>1, <2>2, <1>9, <1>10 DEF DepthIs
  <1> QED
    BY <1>2, <1>4, <1>11 DEF Brackets

\* What a cut of the stack leaves.
LEMMA CutBrackets ==
  ASSUME Brackets, NEW f \in [0 .. Len(stack) -> Nat], f[0] = 0,
         \A p \in 1 .. Len(stack) : f[p] = IF Bracketed(stack[p]) THEN f[p - 1] + 1 ELSE f[p - 1],
         NEW m \in 0 .. Len(stack), stack' = SubSeq(stack, 1, m), depth' = f[m]
  PROVE  Brackets'
  <1>1. PICK n : n = Len(stack)
    OBVIOUS
  <1>2. n \in Nat /\ m \in 0 .. n /\ stack \in Seq(Frame)
    BY <1>1 DEF Brackets
  <1>3. /\ stack' \in Seq(Frame) /\ Len(stack') = m /\ \A i \in 1 .. m : stack'[i] = stack[i]
    BY <1>2, CutIs
  <1>4. /\ \A i \in 1 .. m : i \in 1 .. n /\ i \in 0 .. m /\ i - 1 \in 0 .. m
        /\ \A i \in 0 .. m : i \in 0 .. n
    BY <1>2
  <1>5. DrainsInside'
    BY <1>1, <1>3, <1>4 DEF Brackets, DrainsInside
  <1>6. PICK g : g = [i \in 0 .. m |-> f[i]]
    OBVIOUS
  <1>7. g \in [0 .. m -> Nat] /\ \A i \in 0 .. m : g[i] = f[i]
    BY <1>1, <1>4, <1>6
  <1>8. \A p \in 1 .. m : g[p] = IF Bracketed(stack'[p]) THEN g[p - 1] + 1 ELSE g[p - 1]
    BY <1>1, <1>3, <1>4, <1>7
  <1>9. g[0] = 0 /\ depth' = g[m]
    BY <1>2, <1>7
  <1>10. DepthIs'
    <2>1. Len(stack') = m
      BY <1>3
    <2>2. g \in [0 .. m -> Nat]
      BY <1>7
    <2> QED
      BY <1>8, <1>9, <2>1, <2>2 DEF DepthIs
  <1> QED
    BY <1>3, <1>5, <1>10 DEF Brackets

\* Guest code left: likewise.
LEMMA PopBracket ==
  ASSUME Brackets, stack # << >>, stack' = Under,
         depth' = IF Bracketed(Top) THEN depth - 1 ELSE depth
  PROVE  Brackets'
  <1>1. PICK n : n = Len(stack)
    OBVIOUS
  <1>2. n \in Nat \ {0} /\ Top = stack[n] /\ n - 1 \in 0 .. Len(stack) /\ n \in 1 .. Len(stack)
    BY <1>1 DEF Brackets, Top
  <1>3. PICK f \in [0 .. Len(stack) -> Nat] :
          /\ f[0] = 0 /\ depth = f[n]
          /\ \A p \in 1 .. Len(stack) : f[p] = IF Bracketed(stack[p]) THEN f[p - 1] + 1 ELSE f[p - 1]
    BY <1>1 DEF Brackets, DepthIs
  <1>4. f[n - 1] \in Nat /\ f[n] = IF Bracketed(Top) THEN f[n - 1] + 1 ELSE f[n - 1]
    BY <1>2, <1>3
  <1>5. depth' = f[n - 1]
    BY <1>3, <1>4
  <1>6. stack' = SubSeq(stack, 1, n - 1)
    BY <1>1 DEF Under
  <1> QED
    BY <1>2, <1>3, <1>5, <1>6, CutBrackets

\* There is a bracket to end.
LEMMA BracketIs ==
  ASSUME Brackets, NEW p \in 1 .. Len(stack), Bracketed(stack[p]),
         p = Len(stack) \/ (p = Len(stack) - 1 /\ ~Bracketed(stack[p + 1]))
  PROVE  depth > 0
  <1>1. PICK n : n = Len(stack)
    OBVIOUS
  <1>2. n \in Nat \ {0} /\ p \in 1 .. n /\ p - 1 \in 0 .. n
    BY <1>1 DEF Brackets
  <1>3. PICK f \in [0 .. n -> Nat] :
          /\ f[0] = 0 /\ depth = f[n]
          /\ \A i \in 1 .. n : f[i] = IF Bracketed(stack[i]) THEN f[i - 1] + 1 ELSE f[i - 1]
    BY <1>1 DEF Brackets, DepthIs
  <1>4. f[p] = f[p - 1] + 1 /\ f[p - 1] \in Nat
    BY <1>2, <1>3
  <1>5. f[n] = f[p]
    <2>1. CASE p = n
      BY <2>1
    <2>2. CASE p = n - 1 /\ ~Bracketed(stack[p + 1])
      BY <1>2, <1>3, <2>2
    <2> QED
      BY <1>1, <2>1, <2>2
  <1> QED
    BY <1>3, <1>4, <1>5


\* A frame changed in place: likewise.
LEMMA SameBrackets ==
  ASSUME Brackets, depth' = depth, stack' \in Seq(Frame), Len(stack') = Len(stack),
         \A i \in 1 .. Len(stack) : /\ stack'[i].kind = stack[i].kind
                                    /\ stack'[i].drain => Bracketed(stack[i])
  PROVE  Brackets'
  <1>1. \A i \in 1 .. Len(stack) : Bracketed(stack'[i]) <=> Bracketed(stack[i])
    BY DEF Bracketed
  <1>2. DrainsInside'
    BY <1>1 DEF DrainsInside
  <1>3. DepthIs'
    BY <1>1 DEF Brackets, DepthIs
  <1> QED
    BY <1>2, <1>3 DEF Brackets

----------------------------------------------------------------------------
(* The end of a continuation among the microtasks                           *)

\* A microtask queued: at most one ends a turn, and only while a turn is open.
LEMMA MicroPush ==
  ASSUME OneEnd, NEW task \in MicroTasks, micro' = Append(micro, task),
         \/ task # "endContinuation" /\ continuation' = continuation
         \/ ~continuation /\ continuation'
  PROVE  OneEnd'
  <1>1. PICK n : n = Len(micro)
    OBVIOUS
  <1>2. micro \in Seq(MicroTasks)
    BY DEF OneEnd
  <1>3. /\ n \in Nat /\ micro' \in Seq(MicroTasks) /\ Len(micro') = n + 1 /\ micro'[n + 1] = task
        /\ \A i \in 1 .. n : micro'[i] = micro[i]
    BY <1>1, <1>2, PushIs
  <1>4. \A i \in 1 .. n + 1 : i = n + 1 \/ i \in 1 .. n
    BY <1>3
  <1>5. CASE task # "endContinuation" /\ continuation' = continuation
    BY <1>1, <1>3, <1>4, <1>5 DEF OneEnd
  <1>6. CASE ~continuation /\ continuation'
    <2>1. \A i \in 1 .. n : micro'[i] # "endContinuation"
      BY <1>1, <1>3, <1>6 DEF OneEnd
    <2> QED
      BY <1>3, <1>4, <1>6, <2>1 DEF OneEnd
  <1> QED
    BY <1>5, <1>6

\* A microtask taken: likewise.
LEMMA MicroTail ==
  ASSUME OneEnd, micro # << >>, micro' = Tail(micro),
         continuation' = continuation \/ Head(micro) = "endContinuation"
  PROVE  OneEnd'
  <1>1. PICK n : n = Len(micro)
    OBVIOUS
  <1>2. micro \in Seq(MicroTasks)
    BY DEF OneEnd
  <1>3. /\ micro' \in Seq(MicroTasks) /\ Len(micro') = n - 1 /\ n > 0 /\ n \in Nat /\ Head(micro) = micro[1]
        /\ \A i \in 1 .. n - 1 : micro'[i] = micro[i + 1]
    BY <1>1, <1>2, TailIs
  <1>4. \A i \in 1 .. n - 1 : i + 1 \in 1 .. n /\ i + 1 # 1
    BY <1>3
  <1>5. \A i, j \in 1 .. n - 1 : i + 1 = j + 1 => i = j
    BY <1>3
  <1>6. \A i, j \in 1 .. n - 1 : micro'[i] = "endContinuation" /\ micro'[j] = "endContinuation" => i = j
    BY <1>1, <1>3, <1>4, <1>5 DEF OneEnd
  <1>7. \A i \in 1 .. n - 1 : micro'[i] = "endContinuation" => continuation'
    <2>1. CASE continuation' = continuation
      BY <1>1, <1>3, <1>4, <2>1 DEF OneEnd
    <2>2. CASE Head(micro) = "endContinuation"
      <3>1. 1 \in 1 .. n
        BY <1>3
      <3>2. \A i \in 1 .. n - 1 : micro[i + 1] # "endContinuation"
        BY <1>1, <1>3, <1>4, <2>2, <3>1 DEF OneEnd
      <3> QED
        BY <1>3, <3>2
    <2> QED
      BY <2>1, <2>2
  <1> QED
    BY <1>3, <1>6, <1>7 DEF OneEnd

\* No microtask touched.
LEMMA MicroSame ==
  ASSUME OneEnd, UNCHANGED <<micro, continuation>>
  PROVE  OneEnd'
  BY DEF OneEnd

\* A drain that is scheduled, or is not.
LEMMA ScheduleMicro ==
  ASSUME OneEnd, NEW q, NEW draining, Schedule(q, draining), continuation' = continuation
  PROVE  OneEnd'
  <1>1. micro' = micro \/ micro' = Append(micro, "drain")
    BY DEF Schedule
  <1>2. CASE micro' = micro
    BY <1>2, MicroSame
  <1>3. CASE micro' = Append(micro, "drain")
    BY <1>3, MicroPush DEF MicroTasks
  <1> QED
    BY <1>1, <1>2, <1>3

----------------------------------------------------------------------------
(* The steps                                                                *)

\* Guest code entered, with a bracket or without.
LEMMA EnterTime ==
  ASSUME TimeInv, NEW kind \in Entries, Enter(kind)
  PROVE  Brackets' /\ Account' /\ continuation' = continuation
  <1>1. PICK x : x = [Plain(kind) EXCEPT !.from = kind = "callback" /\ FromTheLoop]
    OBVIOUS
  <1>2. x \in Frame /\ x.kind = kind /\ ~x.drain
    <2>1. PICK from \in BOOLEAN : from = (kind = "callback" /\ FromTheLoop)
      OBVIOUS
    <2>2. x = [kind |-> kind, drain |-> FALSE, from |-> from, taken |-> 0]
      BY <1>1, <2>1 DEF Plain
    <2> QED
      BY <2>1, <2>2 DEF Frame, Entries
  <1>3. /\ stack' = Append(stack, x) /\ UNCHANGED <<now, spent, counting, uncounted, continuation>>
        /\ Brackets /\ Account /\ depth \in Nat
    BY <1>1 DEF Enter, clockVars, TimeInv, Account, TimeTypes
  <1>4. Bracketed(x) <=> kind # "bare"
    BY <1>2 DEF Bracketed, Entries
  <1>5. /\ Account'
        /\ depth' = IF Bracketed(x) THEN depth + 1 ELSE depth
    <2>1. CASE kind = "bare"
      <3>1. UNCHANGED <<depth, active, activeSince, entryAccount, outerKind>>
        BY <2>1 DEF Enter, timeVars
      <3>2. InGuest' <=> InGuest
        BY <1>3, <3>1 DEF InGuest
      <3>3. outerKind \in Kinds /\ continuation \in BOOLEAN
        BY <1>3 DEF Account, TimeTypes
      <3> QED
        BY <1>3, <1>4, <2>1, <3>1, <3>2, <3>3, SpanGoesOn
    <2>2. CASE kind # "bare"
      <3>1. Begin(kind) /\ kind \in Kinds
        BY <2>2 DEF Enter, Entries, Kinds
      <3> QED
        BY <1>3, <1>4, <2>2, <3>1, BeginTime
    <2> QED
      BY <2>1, <2>2
  <1>6. /\ stack' \in Seq(Frame) /\ Len(stack') = Len(stack) + 1 /\ stack'[Len(stack) + 1] = x
        /\ \A i \in 1 .. Len(stack) : stack'[i] = stack[i]
    BY <1>2, <1>3, PushIs DEF Brackets
  <1>7. Brackets'
    BY <1>2, <1>3, <1>5, <1>6, PushBracket
  <1> QED
    BY <1>3, <1>5, <1>7

\* Guest code left, with a bracket or without.
LEMMA LeaveTime ==
  ASSUME Account, NEW frame, Leave(frame), frame.kind # "tick", Bracketed(frame) => depth > 0,
         UNCHANGED <<now, spent, counting, uncounted, continuation>>
  PROVE  Account' /\ depth' = IF Bracketed(frame) THEN depth - 1 ELSE depth
  <1>1. CASE frame.kind = "bare"
    <2>1. UNCHANGED <<depth, active, activeSince, entryAccount, outerKind>> /\ ~Bracketed(frame)
      BY <1>1 DEF Leave, timeVars, Bracketed
    <2>2. InGuest' <=> InGuest
      BY <2>1 DEF InGuest
    <2>3. outerKind \in Kinds /\ continuation \in BOOLEAN /\ depth \in Nat
      BY DEF Account, TimeTypes
    <2> QED
      BY <2>1, <2>2, <2>3, SpanGoesOn
  <1>2. CASE frame.kind # "bare"
    <2>1. End /\ Bracketed(frame)
      BY <1>2 DEF Leave, Bracketed
    <2> QED
      BY <2>1, EndTime
  <1> QED
    BY <1>1, <1>2

\* The frame on top is left.
LEMMA TopLeft ==
  ASSUME TimeInv, stack # << >>, Leave(Top), Top.kind # "tick", stack' = Under,
         UNCHANGED <<now, spent, counting, uncounted, continuation>>
  PROVE  Brackets' /\ Account'
  <1>1. Len(stack) \in 1 .. Len(stack) /\ Top = stack[Len(stack)] /\ Brackets /\ Account
    BY DEF TimeInv, Brackets, Top
  <1>2. Bracketed(Top) => depth > 0
    BY <1>1, BracketIs
  <1>3. Account' /\ depth' = IF Bracketed(Top) THEN depth - 1 ELSE depth
    BY <1>1, <1>2, LeaveTime
  <1> QED
    BY <1>1, <1>3, PopBracket


\* A tick entered from a drain: it runs under the drain's bracket.
LEMMA RunTickTime ==
  ASSUME TimeInv, RunTick
  PROVE  TimeInv'
  <1>1. PICK n, x, y, s : /\ n = Len(stack) /\ x = [stack[n] EXCEPT !.taken = @ + 1]
                          /\ y = Plain("tick") /\ s = [stack EXCEPT ![n] = x]
    OBVIOUS
  <1>2. /\ n \in Nat \ {0} /\ n \in 1 .. Len(stack) /\ stack \in Seq(Frame) /\ stack[n] \in Frame
        /\ Brackets /\ OneEnd /\ Account
    BY <1>1 DEF RunTick, TimeInv, Brackets
  <1>3. /\ stack' = Append(s, y)
        /\ UNCHANGED <<micro, continuation, depth, active, activeSince, entryAccount, outerKind,
                       now, spent, counting, uncounted>>
    BY <1>1 DEF RunTick, timeVars, clockVars
  <1>4. /\ x \in Frame /\ x.drain = stack[n].drain /\ x.kind = stack[n].kind
        /\ y \in Frame /\ ~y.drain /\ ~Bracketed(y)
    <2>1. PICK f \in Frame : f = stack[n]
      BY <1>2
    <2>3. x = [f EXCEPT !.taken = @ + 1]
      BY <1>1, <2>1
    <2>4. x \in Frame /\ x.drain = f.drain /\ x.kind = f.kind
      BY <2>3 DEF Frame
    <2>2. y \in Frame /\ ~y.drain /\ y.kind = "tick"
      BY <1>1 DEF Frame, Plain
    <2> QED
      BY <2>1, <2>2, <2>4 DEF Bracketed
  <1>5. /\ s \in Seq(Frame) /\ Len(s) = n /\ s[n] = x
        /\ \A i \in 1 .. Len(stack) : i # n => s[i] = stack[i]
    BY <1>1, <1>2, <1>4, ReplacedIs
  <1>6. /\ stack' \in Seq(Frame) /\ Len(stack') = n + 1 /\ stack'[n + 1] = y
        /\ \A i \in 1 .. n : stack'[i] = s[i]
    BY <1>3, <1>4, <1>5, PushIs
  <1>7. \A i \in 1 .. Len(stack) : stack'[i].kind = stack[i].kind /\ stack'[i].drain = stack[i].drain
    BY <1>1, <1>4, <1>5, <1>6
  <1>8. depth \in Nat /\ outerKind \in Kinds /\ continuation \in BOOLEAN
    BY <1>2 DEF Account, TimeTypes
  <1>9. Brackets'
    BY <1>1, <1>2, <1>3, <1>4, <1>6, <1>7, <1>8, PushBracket
  <1>10. InGuest' <=> InGuest
    BY <1>3 DEF InGuest
  <1>11. Account'
    BY <1>2, <1>3, <1>8, <1>10, SpanGoesOn
  <1> QED
    BY <1>2, <1>3, <1>9, <1>11, MicroSame DEF TimeInv

\* A drain ends, and its bracket with it.
LEMMA DrainedTime ==
  ASSUME TimeInv, Drained
  PROVE  TimeInv'
  <1>1. /\ stack # << >> /\ Top.drain /\ stack' = Under /\ Leave(Top) /\ Schedule(ticks', FALSE)
        /\ UNCHANGED <<now, spent, counting, uncounted, continuation>>
    BY DEF Drained, EndDrain, clockVars
  <1>2. Top.kind # "tick"
    <2>1. Len(stack) \in 1 .. Len(stack)
      BY <1>1 DEF TimeInv, Brackets
    <2>2. Bracketed(Top)
      BY <1>1, <2>1 DEF TimeInv, Brackets, DrainsInside, Top
    <2> QED
      BY <2>2 DEF Bracketed
  <1>3. Brackets' /\ Account'
    BY <1>1, <1>2, TopLeft
  <1>4. OneEnd'
    BY <1>1, ScheduleMicro DEF TimeInv
  <1> QED
    BY <1>3, <1>4 DEF TimeInv

\* Guest code returns: to its drain, whose bracket goes on, or out.
LEMMA ReturnTime ==
  ASSUME TimeInv, Return
  PROVE  TimeInv'
  <1>1. /\ stack # << >> /\ UNCHANGED <<micro, now, spent, counting, uncounted, continuation>>
        /\ OneEnd' /\ Brackets /\ Account
    BY MicroSame DEF Return, Running, clockVars, TimeInv
  <1>2. PICK n : n = Len(stack)
    OBVIOUS
  <1>3. /\ n \in 1 .. Len(stack) /\ Top = stack[n] /\ stack[n] \in Frame /\ stack \in Seq(Frame)
        /\ depth \in Nat /\ outerKind \in Kinds /\ continuation \in BOOLEAN
    BY <1>1, <1>2 DEF Brackets, Top, Account, TimeTypes
  <1>4. ASSUME UNCHANGED <<depth, timeVars>>
        PROVE  Account'
    <2>1. UNCHANGED <<depth, active, activeSince, entryAccount, outerKind>>
      BY <1>4 DEF timeVars
    <2>2. InGuest' <=> InGuest
      BY <1>1, <2>1 DEF InGuest
    <2> QED
      BY <1>1, <1>3, <2>1, <2>2, SpanGoesOn
  <1>5. CASE Top.kind = "callback" /\ Top.from /\ callbackDepth = 1 /\ ~drainingTicks
    <2>1. PICK x : x = [stack[n] EXCEPT !.drain = TRUE]
      OBVIOUS
    <2>2. stack' = [stack EXCEPT ![n] = x] /\ UNCHANGED <<depth, timeVars>>
      BY <1>2, <1>5, <2>1 DEF Return
    <2>3. x \in Frame /\ x.kind = stack[n].kind /\ Bracketed(stack[n])
      BY <1>3, <1>5, <2>1 DEF Frame, Bracketed
    <2>4. /\ stack' \in Seq(Frame) /\ Len(stack') = Len(stack) /\ stack'[n] = x
          /\ \A i \in 1 .. Len(stack) : i # n => stack'[i] = stack[i]
      BY <1>3, <2>2, <2>3, ReplacedIs
    <2>5. \A i \in 1 .. Len(stack) : /\ stack'[i].kind = stack[i].kind
                                     /\ stack'[i].drain => Bracketed(stack[i])
      BY <1>1, <2>3, <2>4 DEF Brackets, DrainsInside
    <2>6. Brackets'
      BY <1>1, <2>2, <2>4, <2>5, SameBrackets
    <2> QED
      BY <1>1, <1>4, <2>2, <2>6 DEF TimeInv
  <1>6. CASE ~(Top.kind = "callback" /\ Top.from /\ callbackDepth = 1 /\ ~drainingTicks)
    <2>1. /\ stack' = Under
          /\ IF Top.kind = "tick" THEN UNCHANGED <<depth, callbackDepth, timeVars>> ELSE Leave(Top)
      BY <1>6 DEF Return
    <2>2. CASE Top.kind = "tick"
      <3>1. ~Bracketed(Top) /\ UNCHANGED <<depth, timeVars>>
        BY <2>1, <2>2 DEF Bracketed
      <3>2. Brackets'
        BY <1>1, <2>1, <3>1, PopBracket
      <3> QED
        BY <1>1, <1>4, <3>1, <3>2 DEF TimeInv
    <2>3. CASE Top.kind # "tick"
      BY <1>1, <2>1, <2>3, TopLeft DEF TimeInv
    <2> QED
      BY <2>2, <2>3
  <1> QED
    BY <1>5, <1>6

\* Guest code throws: its frame is left, and a drain's with it.
LEMMA ThrowTime ==
  ASSUME TimeInv, TickInv, Throw
  PROVE  TimeInv'
  <1>1. PICK n : n = Len(stack)
    OBVIOUS
  <1>2. /\ TickTypes /\ stack # << >> /\ n \in Nat \ {0} /\ n \in 1 .. Len(stack) /\ Top = stack[n]
        /\ UNCHANGED <<now, spent, counting, uncounted, continuation>> /\ Brackets /\ Account /\ OneEnd
    BY <1>1, TopIs DEF Throw, Running, TickInv, clockVars, TimeInv
  <1>3. CASE Top.kind = "tick"
    <2>1. PICK p : p = n - 1
      OBVIOUS
    <2>2. n > 1 /\ stack[p].drain
      BY <1>1, <1>2, <1>3, <2>1 DEF TickInv, OneDrain
    <2>3. p \in 1 .. Len(stack) /\ p - 1 = n - 2 /\ p + 1 = n /\ p - 1 \in 0 .. Len(stack)
      BY <1>1, <1>2, <2>1, <2>2
    <2>4. stack' = SubSeq(stack, 1, p - 1) /\ EndDrain(stack[p], Returned(ticks, n))
      BY <1>1, <1>3, <2>1, <2>3 DEF Throw
    <2>5. Bracketed(stack[p]) /\ ~Bracketed(stack[n])
      BY <1>2, <1>3, <2>2, <2>3 DEF Brackets, DrainsInside, Bracketed
    <2>6. depth > 0
      BY <1>1, <1>2, <2>1, <2>3, <2>5, BracketIs
    <2>7. stack[p].kind # "tick"
      BY <2>5 DEF Bracketed
    <2>8. Account' /\ depth' = depth - 1
      BY <1>2, <2>4, <2>5, <2>6, <2>7, LeaveTime DEF EndDrain
    <2>9. PICK f \in [0 .. Len(stack) -> Nat] :
            /\ f[0] = 0 /\ depth = f[n]
            /\ \A i \in 1 .. Len(stack) : f[i] = IF Bracketed(stack[i]) THEN f[i - 1] + 1 ELSE f[i - 1]
      BY <1>1, <1>2 DEF Brackets, DepthIs
    <2>10. f[n] = f[p] /\ f[p] = f[p - 1] + 1 /\ f[p - 1] \in Nat
      BY <1>2, <2>1, <2>3, <2>5, <2>9
    <2>11. depth' = f[p - 1]
      BY <2>8, <2>9, <2>10
    <2>12. Brackets'
      BY <1>2, <2>3, <2>4, <2>9, <2>11, CutBrackets
    <2>13. OneEnd'
      BY <1>2, <2>4, ScheduleMicro DEF EndDrain
    <2> QED
      BY <2>8, <2>12, <2>13 DEF TimeInv
  <1>4. CASE Top.kind # "tick"
    <2>1. stack' = Under /\ Leave(Top) /\ micro' = micro
      BY <1>4 DEF Throw
    <2>2. Brackets' /\ Account'
      BY <1>2, <1>4, <2>1, TopLeft
    <2> QED
      BY <1>2, <2>1, <2>2, MicroSame DEF TimeInv
  <1> QED
    BY <1>3, <1>4

\* The microtask's drain is entered.
LEMMA RunDrainTime ==
  ASSUME TimeInv, stack = << >>, micro # << >>, RunDrain
  PROVE  TimeInv'
  <1>1. PICK x : x = [Plain("ticks") EXCEPT !.drain = TRUE]
    OBVIOUS
  <1>2. /\ stack' = <<x>> /\ micro' = Tail(micro) /\ Begin("ticks")
        /\ UNCHANGED <<now, spent, counting, uncounted, continuation>>
        /\ Brackets /\ Account /\ OneEnd /\ depth \in Nat
    BY <1>1 DEF RunDrain, clockVars, TimeInv, Account, TimeTypes
  <1>3. x \in Frame /\ Bracketed(x)
    BY <1>1 DEF Plain, Frame, Bracketed
  <1>4. Account' /\ depth' = depth + 1
    BY <1>2, BeginTime DEF Kinds
  <1>5. /\ stack' \in Seq(Frame) /\ Len(stack') = Len(stack) + 1 /\ stack'[Len(stack) + 1] = x
        /\ Len(stack) = 0
    BY <1>2, <1>3
  <1>6. Brackets'
    BY <1>2, <1>3, <1>4, <1>5, PushBracket
  <1>7. OneEnd'
    BY <1>2, MicroTail
  <1> QED
    BY <1>4, <1>6, <1>7 DEF TimeInv

\* endContinuation: the turn's span ends, unless a bracket is open.
LEMMA EndContinuationTime ==
  ASSUME TimeInv, stack = << >>, micro # << >>, EndContinuation
  PROVE  TimeInv'
  <1>1. /\ Head(micro) = "endContinuation" /\ micro' = Tail(micro) /\ continuation' = FALSE
        /\ UNCHANGED <<stack, depth, activeSince, outerKind, now, spent, counting, uncounted>>
        /\ Brackets /\ OneEnd /\ Account
    BY DEF EndContinuation, clockVars, TimeInv
  <1>2. OneEnd'
    BY <1>1, MicroTail
  <1>3. Brackets'
    BY <1>1 DEF Brackets, DrainsInside, DepthIs
  <1>4. continuation
    <2>1. micro \in Seq(MicroTasks)
      BY <1>1 DEF OneEnd
    <2>2. Len(micro) > 0 /\ Len(micro) \in Nat /\ Head(micro) = micro[1]
      BY <2>1, TailIs
    <2>3. 1 \in 1 .. Len(micro)
      BY <2>2
    <2> QED
      BY <1>1, <2>2, <2>3 DEF OneEnd
  <1>5. depth = 0
    BY <1>1 DEF Brackets, DepthIs
  <1>6. PICK kind : kind = IF continuationFromTheLoop THEN "await" ELSE outerKind
    OBVIOUS
  <1>7. kind \in Kinds
    BY <1>1, <1>6 DEF Account, TimeTypes, Kinds
  <1>8. active' = active + (now - activeSince) /\ Count(kind, now - activeSince)
    BY <1>5, <1>6 DEF EndContinuation
  <1>9. InGuest /\ ~InGuest'
    BY <1>1, <1>4, <1>5 DEF InGuest
  <1>10. depth' \in Nat /\ continuation' \in BOOLEAN
    BY <1>1, <1>5
  <1>11. Account'
    BY <1>1, <1>7, <1>8, <1>9, <1>10, SpanEnds
  <1> QED
    BY <1>2, <1>3, <1>11 DEF TimeInv

\* resumeGuestTurn: a turn opens, inside a span or with one of its own.
LEMMA ResumeTime ==
  ASSUME TimeInv, ResumeGuestTurn
  PROVE  TimeInv'
  <1>1. /\ ~continuation /\ continuation' = TRUE /\ micro' = Append(micro, "endContinuation")
        /\ activeSince' = IF depth = 0 THEN now ELSE activeSince
        /\ UNCHANGED <<stack, depth, active, entryAccount, outerKind, now, spent, counting, uncounted>>
        /\ Brackets /\ OneEnd /\ Account
    BY DEF ResumeGuestTurn, clockVars, TimeInv
  <1>2. OneEnd'
    BY <1>1, MicroPush DEF MicroTasks
  <1>3. Brackets'
    BY <1>1 DEF Brackets, DrainsInside, DepthIs
  <1>4. depth \in Nat /\ outerKind \in Kinds /\ InGuest' /\ (InGuest <=> depth # 0)
    BY <1>1 DEF Account, TimeTypes, InGuest
  <1>5. CASE depth = 0
    <2>1. ~InGuest /\ activeSince' = now
      BY <1>1, <1>4, <1>5
    <2>2. Account'
      BY <1>1, <1>4, <2>1, SpanBegins
    <2> QED
      BY <1>2, <1>3, <2>2 DEF TimeInv
  <1>6. CASE depth # 0
    <2>1. Account'
      BY <1>1, <1>4, <1>6, SpanGoesOn
    <2> QED
      BY <1>2, <1>3, <2>1 DEF TimeInv
  <1> QED
    BY <1>5, <1>6

\* The clock: what is spent grows where a span is open.
LEMMA ElapseTime ==
  ASSUME TimeInv, Elapse
  PROVE  TimeInv'
  <1>1. /\ now' = now + 1 /\ spent' = spent + (IF InGuest THEN 1 ELSE 0)
        /\ UNCHANGED <<stack, micro, depth, continuation, active, activeSince, entryAccount, outerKind,
                       counting, uncounted>>
        /\ Brackets /\ OneEnd /\ Account
    BY DEF Elapse, timeVars, TimeInv
  <1>2. Brackets'
    BY <1>1 DEF Brackets, DrainsInside, DepthIs
  <1>3. (InGuest' <=> InGuest) /\ Accounted' = Accounted
    BY <1>1 DEF InGuest, Accounted
  <1>4. TimeTypes'
    BY <1>1 DEF Account, TimeTypes
  <1>5. active \in Int /\ spent \in Int /\ now \in Nat /\ activeSince \in Nat
    BY <1>1 DEF Account, TimeTypes
  <1>6. TimeIsCountedOnce'
    <2>1. /\ active + (IF InGuest THEN now - activeSince ELSE 0) = spent
          /\ counting => active - uncounted = Accounted
      BY <1>1 DEF Account, TimeIsCountedOnce
    <2>2. active + (IF InGuest THEN (now + 1) - activeSince ELSE 0) = spent + (IF InGuest THEN 1 ELSE 0)
      BY <1>5, <2>1
    <2> QED
      BY <1>1, <1>3, <2>1, <2>2 DEF TimeIsCountedOnce
  <1> QED
    BY <1>1, <1>2, <1>3, <1>4, <1>6, MicroSame DEF TimeInv, Account

\* enableGuestEntryAccount: what was active before is not the account's.
LEMMA EnableTime ==
  ASSUME TimeInv, EnableGuestEntryAccount
  PROVE  TimeInv'
  <1>1. /\ ~counting /\ counting' = TRUE /\ uncounted' = active
        /\ UNCHANGED <<stack, micro, depth, continuation, active, activeSince, entryAccount, outerKind,
                       now, spent>>
        /\ Brackets /\ OneEnd /\ Account
    BY DEF EnableGuestEntryAccount, timeVars, TimeInv
  <1>2. Brackets'
    BY <1>1 DEF Brackets, DrainsInside, DepthIs
  <1>3. (InGuest' <=> InGuest) /\ Accounted' = Accounted /\ Accounted = 0 /\ active \in Int
    BY <1>1 DEF InGuest, Accounted, Account, TimeTypes
  <1>4. TimeTypes'
    BY <1>1 DEF Account, TimeTypes
  <1>5. TimeIsCountedOnce'
    BY <1>1, <1>3 DEF Account, TimeIsCountedOnce
  <1> QED
    BY <1>1, <1>2, <1>4, <1>5, MicroSame DEF TimeInv, Account

\* No time is active at first.
LEMMA TimeStart == Init => TimeInv
  <1> SUFFICES ASSUME Init
               PROVE  TimeInv
    OBVIOUS
  <1>1. /\ stack = << >> /\ micro = << >> /\ Len(stack) = 0 /\ Len(micro) = 0 /\ depth = 0
        /\ continuation = FALSE
    BY DEF Init
  <1>2. Brackets
    <2>1. stack \in Seq(Frame)
      BY <1>1
    <2>2. DrainsInside
      BY <1>1 DEF DrainsInside
    <2>3. PICK f : f = [i \in 0 .. 0 |-> 0]
      OBVIOUS
    <2>4. f \in [0 .. Len(stack) -> Nat] /\ f[0] = 0
      BY <1>1, <2>3
    <2>5. DepthIs
      BY <1>1, <2>4 DEF DepthIs
    <2> QED
      BY <2>1, <2>2, <2>5 DEF Brackets
  <1>3. OneEnd
    BY <1>1 DEF OneEnd
  <1>4. entryAccount = [k \in Kinds |-> 0] /\ Accounted = 0
    BY DEF Init, Accounted, Kinds
  <1>5. TimeTypes
    <2>1. entryAccount \in [Kinds -> Int]
      BY <1>4
    <2>2. outerKind \in Kinds
      BY DEF Init, Kinds
    <2>3. now = 0 /\ active = 0 /\ activeSince = 0 /\ spent = 0 /\ uncounted = 0
      BY DEF Init
    <2>4. /\ now \in Nat /\ active \in Int /\ activeSince \in Nat /\ spent \in Int
          /\ uncounted \in Int /\ depth \in Nat
      BY <1>1, <2>3
    <2>5. continuation \in BOOLEAN /\ counting \in BOOLEAN
      BY Zenon DEF Init
    <2> QED
      BY <2>1, <2>2, <2>4, <2>5 DEF TimeTypes
  <1>6. Account
    BY <1>4, <1>5 DEF Init, Account, TimeIsCountedOnce, InGuest
  <1> QED
    BY <1>2, <1>3, <1>6 DEF TimeInv

\* The steps that leave the stack, the brackets and the clock alone.
LEMMA QueueTime ==
  ASSUME TimeInv,
         UNCHANGED <<stack, depth, continuation, active, activeSince, entryAccount, outerKind,
                     now, spent, counting, uncounted>>,
         OneEnd'
  PROVE  TimeInv'
  <1>1. Brackets'
    BY DEF TimeInv, Brackets, DrainsInside, DepthIs
  <1>2. (InGuest' <=> InGuest) /\ outerKind \in Kinds /\ depth \in Nat /\ continuation \in BOOLEAN
    BY DEF InGuest, TimeInv, Account, TimeTypes
  <1>3. Account'
    BY <1>2, SpanGoesOn DEF TimeInv
  <1> QED
    BY <1>1, <1>3 DEF TimeInv

\* Every step keeps the account.
LEMMA TimeSteps ==
  ASSUME TimeInv, TickInv, [Next]_vars
  PROVE  TimeInv'
  <1>1. CASE \E kind \in Entries : Task(kind) \/ Call(kind)
    <2>1. PICK kind \in Entries : Task(kind) \/ Call(kind)
      BY <1>1
    <2>2. Enter(kind) /\ micro' = micro
      BY <2>1 DEF Task, Call
    <2> QED
      BY <2>2, EnterTime, MicroSame DEF TimeInv
  <1>2. CASE micro # << >> /\ RunTask
    <2>1. PICK kind \in Entries : Enter(kind) /\ micro' = Tail(micro)
      BY <1>2 DEF RunTask, Entries
    <2> QED
      BY <1>2, <2>1, EnterTime, MicroTail DEF TimeInv
  <1>3. CASE QueueGuestNextTick
    <2>1. UNCHANGED <<stack, depth, continuation, active, activeSince, entryAccount, outerKind,
                      now, spent, counting, uncounted>> /\ Schedule(ticks', drainingTicks)
      BY <1>3 DEF QueueGuestNextTick, timeVars, clockVars
    <2> QED
      BY <2>1, ScheduleMicro, QueueTime DEF TimeInv
  <1>4. CASE \E task \in {"guest", "binding"} : QueueMicrotask(task)
    <2>1. PICK task \in {"guest", "binding"} : QueueMicrotask(task)
      BY <1>4
    <2>2. UNCHANGED <<stack, depth, continuation, active, activeSince, entryAccount, outerKind,
                      now, spent, counting, uncounted>> /\ micro' = Append(micro, task)
      BY <2>1 DEF QueueMicrotask, timeVars, clockVars
    <2>3. OneEnd'
      BY <2>2, MicroPush DEF TimeInv, MicroTasks
    <2> QED
      BY <2>2, <2>3, QueueTime
  <1>5. CASE UNCHANGED vars
    <2>1. UNCHANGED <<stack, micro, depth, continuation, active, activeSince, entryAccount, outerKind,
                      now, spent, counting, uncounted>>
      BY <1>5 DEF vars, timeVars, clockVars
    <2> QED
      BY <2>1, MicroSame, QueueTime DEF TimeInv
  <1> QED
    BY <1>1, <1>2, <1>3, <1>4, <1>5, RunTickTime, DrainedTime, ReturnTime, ThrowTime, RunDrainTime,
       EndContinuationTime, ResumeTime, ElapseTime, EnableTime DEF Next, RunMicrotask

\* The account's invariant holds always.
LEMMA TimeHolds == Spec => []TimeInv
  <1>1. TimeInv /\ TickInv /\ [Next]_vars => TimeInv'
    BY TimeSteps
  <1> QED
    BY <1>1, TimeStart, TickHolds, PTL DEF Spec

\* begin, end, resumeGuestTurn and endContinuation (src/guest-loop.ts): however
\* brackets nest, throw and are outlived by a continuation, the active time read is
\* the time the clock ran inside guest code, and the entries' account adds up to it.
THEOREM TimeCountedOnce == Spec => []TimeIsCountedOnce
  <1>1. TimeInv => TimeIsCountedOnce
    BY DEF TimeInv, Account
  <1> QED
    BY <1>1, TimeHolds, PTL

------------------------------------------------------------------------------
(* The lock manager                                                         *)

\* What is held or waits was asked for, and nothing that is held waits.
LocksInv ==
  /\ asked \in [Requests -> Locks \cup {NotAsked}]
  /\ held \subseteq Requests /\ waiting \subseteq Requests
  /\ held \cap waiting = {}
  /\ \A r \in held \cup waiting : asked[r] # NotAsked
  /\ steals \in Nat
  /\ Exclusion

\* The locks that are held together, given what was asked: nobody, or sharers.
Together(hs, as) ==
  \A g, h \in hs : g # h /\ as[g].name = as[h].name
                   => as[g].mode = "shared" /\ as[h].mode = "shared"

\* What one pass of #advance grants may be held together with what is.
LEMMA GrantedTogether ==
  ASSUME NEW hs \in SUBSET Requests, NEW ws \in SUBSET Requests, NEW as, Together(hs, as)
  PROVE  Together(hs \cup Granted(hs, ws, as), as)
  <1> SUFFICES ASSUME NEW g \in hs \cup Granted(hs, ws, as), NEW h \in hs \cup Granted(hs, ws, as),
                      g # h, as[g].name = as[h].name
               PROVE  as[g].mode = "shared" /\ as[h].mode = "shared"
    BY DEF Together
  <1>1. CASE g \in hs /\ h \in hs
    BY <1>1 DEF Together
  <1>2. CASE g \in hs /\ h \in Granted(hs, ws, as)
    BY <1>2 DEF Granted, Grantable
  <1>3. CASE g \in Granted(hs, ws, as) /\ h \in hs
    BY <1>3 DEF Granted, Grantable
  <1>4. CASE g \in Granted(hs, ws, as) /\ h \in Granted(hs, ws, as)
    <2>1. g \in ws /\ h \in ws /\ (g < h \/ h < g)
      BY <1>4, LocksAssumption DEF Granted
    <2> QED
      BY <1>4, <2>1 DEF Granted
  <1> QED
    BY <1>1, <1>2, <1>3, <1>4

\* Nor does it grant a request and leave an earlier one for the same name waiting.
LEMMA GrantedInOrder ==
  ASSUME NEW hs \in SUBSET Requests, NEW ws \in SUBSET Requests, NEW as,
         NEW r \in Granted(hs, ws, as), NEW q \in ws \ Granted(hs, ws, as),
         as[q].name = as[r].name
  PROVE  r < q
  <1>0. \A p \in ws : p \in Nat
    BY LocksAssumption
  <1> SUFFICES ASSUME q < r PROVE FALSE
    <2>1. q \in Nat /\ r \in Nat /\ q # r
      BY <1>0 DEF Granted
    <2> QED
      BY <2>1
  <1>1. /\ r \in ws /\ Grantable(as[r], hs, as)
        /\ as[q].mode = "shared" /\ as[r].mode = "shared"
        /\ \A p \in ws : p < r /\ as[p].name = as[r].name => as[p].mode = "shared"
    BY DEF Granted
  <1>2. Grantable(as[q], hs, as)
    BY <1>1 DEF Grantable
  <1>3. ASSUME NEW p \in ws, p < q, as[p].name = as[q].name
        PROVE  as[p].mode = "shared" /\ as[q].mode = "shared"
    <2>1. p < r
      BY <1>0, <1>1, <1>3
    <2> QED
      BY <1>1, <1>3, <2>1
  <1> QED
    BY <1>2, <1>3 DEF Granted

\* A pass over those that wait keeps the manager's tables, and the order.
LEMMA AdvanceKeeps ==
  ASSUME NEW hs \in SUBSET Requests, NEW ws \in SUBSET Requests, NEW cs,
         asked' \in [Requests -> Locks \cup {NotAsked}], hs \cap ws = {},
         \A r \in hs \cup ws : asked'[r] # NotAsked,
         steals' \in Nat, Together(hs, asked'), Advance(hs, ws, asked', cs)
  PROVE  /\ LocksInv'
         /\ \A r \in held' \ hs, q \in waiting' : asked'[q].name = asked'[r].name => r < q
  <1>1. /\ held' = hs \cup Granted(hs, ws, asked') /\ waiting' = ws \ Granted(hs, ws, asked')
        /\ Granted(hs, ws, asked') \subseteq ws
    BY DEF Advance, Granted
  <1>2. Together(held', asked')
    BY <1>1, GrantedTogether
  <1>3. Exclusion'
    BY <1>2 DEF Together, Exclusion
  <1>4. LocksInv'
    BY <1>1, <1>3 DEF LocksInv
  <1>5. \A r \in held' \ hs, q \in waiting' : asked'[q].name = asked'[r].name => r < q
    BY <1>1, GrantedInOrder
  <1> QED
    BY <1>4, <1>5

\* The grants of one step overtake nobody, unless it steals.
Ordered == \A r \in held' \ held :
  \/ steals' # steals
  \/ \A q \in waiting' : asked'[q].name = asked'[r].name => r < q

\* Every request, release, theft and abort.
LEMMA LocksStep ==
  ASSUME LocksInv, [LocksNext]_lockVars
  PROVE  LocksInv' /\ Ordered
  <1>1. Together(held, asked)
    BY DEF LocksInv, Exclusion, Together
  <1>2. ASSUME NEW r \in Requests, NEW lock \in Locks, Fresh(r),
               asked' = [asked EXCEPT ![r] = lock]
        PROVE  /\ r \notin held \cup waiting /\ lock # NotAsked
               /\ asked' \in [Requests -> Locks \cup {NotAsked}] /\ asked'[r] = lock
               /\ \A q \in Requests \ {r} : asked'[q] = asked[q]
               /\ \A q \in held \cup waiting : q \in Requests /\ asked'[q] = asked[q] /\ asked[q] # NotAsked
    <2>1. asked[r] = NotAsked
      BY <1>2 DEF Fresh
    <2>2. /\ asked \in [Requests -> Locks \cup {NotAsked}]
          /\ \A q \in held \cup waiting : q \in Requests /\ asked[q] # NotAsked
      BY DEF LocksInv
    <2>3. r \notin held \cup waiting
      BY <2>1, <2>2
    <2>4. lock.mode # "none" /\ NotAsked.mode = "none"
      BY DEF Locks, Modes, NotAsked
    <2>5. /\ asked' \in [Requests -> Locks \cup {NotAsked}] /\ asked'[r] = lock
          /\ \A q \in Requests \ {r} : asked'[q] = asked[q]
      BY <1>2, <2>2
    <2> QED
      BY <2>2, <2>3, <2>4, <2>5
  <1>3. ASSUME NEW r \in Requests, NEW lock \in Locks, Request(r, lock) PROVE LocksInv' /\ Ordered
    <2>1. /\ Fresh(r) /\ asked' = [asked EXCEPT ![r] = lock]
          /\ Advance(held, waiting \cup {r}, asked', calling)
      BY <1>3 DEF Request
    <2>5. \A q \in held : asked'[q] = asked[q]
      BY <1>2, <2>1
    <2>2. Together(held, asked')
      BY <1>1, <2>5 DEF Together
    <2>3. \A q \in held \cup (waiting \cup {r}) : asked'[q] # NotAsked
      BY <1>2, <2>1
    <2>4. /\ held \in SUBSET Requests /\ waiting \cup {r} \in SUBSET Requests
          /\ held \cap (waiting \cup {r}) = {} /\ steals' \in Nat
          /\ asked' \in [Requests -> Locks \cup {NotAsked}]
      BY <1>2, <1>3, <2>1 DEF LocksInv, Request
    <2> QED
      BY <2>1, <2>2, <2>3, <2>4, AdvanceKeeps DEF Ordered
  <1>4. ASSUME NEW r \in Requests, NEW lock \in Locks, RequestIfAvailable(r, lock)
        PROVE  LocksInv' /\ Ordered
    <2>1. /\ Fresh(r) /\ asked' = [asked EXCEPT ![r] = lock] /\ waiting' = waiting
          /\ \/ held' = held
             \/ held' = held \cup {r} /\ AvailableTo(lock)
      BY <1>4 DEF RequestIfAvailable
    <2>2. /\ r \notin held \cup waiting /\ asked'[r] = lock /\ lock # NotAsked
          /\ asked' \in [Requests -> Locks \cup {NotAsked}]
          /\ \A q \in held \cup waiting : q \in Requests /\ asked'[q] = asked[q] /\ asked[q] # NotAsked
      BY <1>2, <2>1
    <2>3. \A q \in held : q \in Requests /\ q # r /\ asked'[q] = asked[q]
      BY <2>2
    <2>4. Together(held, asked')
      BY <1>1, <2>3 DEF Together
    <2>5. AvailableTo(lock) =>
            \A q \in held : asked'[q].name = lock.name => lock.mode = "shared" /\ asked'[q].mode = "shared"
      BY <2>3 DEF AvailableTo, Grantable
    <2>6. Exclusion'
      <3>1. CASE held' = held
        BY <2>4, <3>1 DEF Together, Exclusion
      <3>2. CASE held' = held \cup {r} /\ AvailableTo(lock)
        <4>1. Together(held', asked')
          <5>1. ASSUME NEW q \in held, asked'[q].name = asked'[r].name
                PROVE  asked'[q].mode = "shared" /\ asked'[r].mode = "shared"
            BY <2>2, <2>5, <3>2, <5>1
          <5> QED
            BY <2>4, <3>2, <5>1 DEF Together
        <4> QED
          BY <4>1 DEF Together, Exclusion
      <3> QED
        BY <2>1, <3>1, <3>2
    <2>7. LocksInv'
      <3>1. /\ steals' = steals /\ steals \in Nat
            /\ held \subseteq Requests /\ waiting \subseteq Requests /\ held \cap waiting = {}
        BY <1>4 DEF LocksInv, RequestIfAvailable
      <3>2. /\ held' \subseteq held \cup {r} /\ waiting' = waiting
        BY <2>1
      <3>3. \A q \in held' \cup waiting' : asked'[q] # NotAsked
        BY <2>2, <3>2
      <3>4. held' \subseteq Requests /\ waiting' \subseteq Requests /\ held' \cap waiting' = {}
        BY <2>2, <3>1, <3>2
      <3> QED
        BY <2>2, <2>6, <3>1, <3>3, <3>4 DEF LocksInv
    <2>8. Ordered
      <3>1. ASSUME NEW g \in held' \ held PROVE g = r /\ AvailableTo(lock)
        BY <2>1, <3>1
      <3>2. AvailableTo(lock) => \A q \in waiting : asked[q].name # lock.name
        BY DEF AvailableTo
      <3> QED
        BY <2>1, <2>2, <3>1, <3>2 DEF Ordered
    <2> QED
      BY <2>7, <2>8
  <1>5. ASSUME NEW r \in Requests, NEW name \in Names, Steal(r, name) PROVE LocksInv' /\ Ordered
    <2> DEFINE lock == [name |-> name, mode |-> "exclusive"]
    <2>1. /\ Fresh(r) /\ asked' = [asked EXCEPT ![r] = lock] /\ waiting' = waiting
          /\ held' = (held \ {h \in held : asked[h].name = name}) \cup {r}
          /\ steals' = steals + 1
      BY <1>5 DEF Steal
    <2>2. lock \in Locks /\ lock.name = name
      BY DEF Locks, Modes
    <2> HIDE DEF lock
    <2>3. Exclusion'
      BY <1>1, <1>2, <2>1, <2>2 DEF Together, Exclusion, LocksInv
    <2>4. LocksInv'
      <3>1. /\ r \notin held \cup waiting /\ lock # NotAsked /\ asked'[r] = lock
            /\ asked' \in [Requests -> Locks \cup {NotAsked}]
            /\ \A q \in Requests \ {r} : asked'[q] = asked[q]
        BY <1>2, <2>1, <2>2
      <3>2. /\ held' \subseteq held \cup {r} /\ waiting' = waiting /\ steals' \in Nat
        BY <2>1 DEF LocksInv
      <3>3. \A q \in held' \cup waiting' : asked'[q] # NotAsked
        BY <3>1, <3>2 DEF LocksInv
      <3> QED
        BY <2>3, <3>1, <3>2, <3>3 DEF LocksInv
    <2>5. Ordered
      BY <2>1 DEF Ordered, LocksInv
    <2> QED
      BY <2>4, <2>5
  <1>6. ASSUME NEW r \in Requests, NEW outcome \in Outcomes, Settle(r, outcome)
        PROVE  LocksInv' /\ Ordered
    <2>1. asked' = asked /\ steals' = steals /\ Advance(held \ {r}, waiting, asked', calling \ {r})
      BY <1>6 DEF Settle
    <2>2. Together(held \ {r}, asked')
      BY <1>1, <2>1 DEF Together
    <2>3. /\ held \ {r} \in SUBSET Requests /\ waiting \in SUBSET Requests
          /\ (held \ {r}) \cap waiting = {} /\ steals' \in Nat
          /\ asked' \in [Requests -> Locks \cup {NotAsked}]
          /\ \A q \in (held \ {r}) \cup waiting : asked'[q] # NotAsked
      BY <2>1 DEF LocksInv
    <2>4. /\ LocksInv'
          /\ \A g \in held' \ (held \ {r}), q \in waiting' : asked'[q].name = asked'[g].name => g < q
      BY <2>1, <2>2, <2>3, AdvanceKeeps
    <2> QED
      BY <2>4 DEF Ordered
  <1>7. ASSUME NEW r \in Requests, Abort(r) PROVE LocksInv' /\ Ordered
    <2>1. asked' = asked /\ steals' = steals /\ Advance(held, waiting \ {r}, asked', calling)
      BY <1>7 DEF Abort
    <2>2. Together(held, asked')
      BY <1>1, <2>1
    <2>3. /\ held \in SUBSET Requests /\ waiting \ {r} \in SUBSET Requests
          /\ held \cap (waiting \ {r}) = {} /\ steals' \in Nat
          /\ asked' \in [Requests -> Locks \cup {NotAsked}]
          /\ \A q \in held \cup (waiting \ {r}) : asked'[q] # NotAsked
      BY <2>1 DEF LocksInv
    <2> QED
      BY <2>1, <2>2, <2>3, AdvanceKeeps DEF Ordered
  <1>8. ASSUME UNCHANGED <<asked, held, waiting, steals>> PROVE LocksInv' /\ Ordered
    BY <1>8 DEF LocksInv, Exclusion, Ordered
  <1>9. ASSUME NEW r \in Requests, NEW outcome \in Outcomes, SettleEmpty(r, outcome)
        PROVE  LocksInv' /\ Ordered
    BY <1>8, <1>9 DEF SettleEmpty
  <1>10. CASE UNCHANGED lockVars
    BY <1>8, <1>10 DEF lockVars
  <1> QED
    BY <1>3, <1>4, <1>5, <1>6, <1>7, <1>9, <1>10 DEF LocksNext

\* Before anything is asked.
LEMMA LocksStart == LocksInit => LocksInv
  BY DEF LocksInit, LocksInv, Exclusion

\* An exclusive lock is held alone, by whatever mix of grants, thefts and
\* ifAvailable, for any number of requests and names.
THEOREM LocksExclude == LocksSpec => []Exclusion
  <1>1. LocksInv => Exclusion
    BY DEF LocksInv
  <1> QED
    BY <1>1, LocksStart, LocksStep, PTL DEF LocksSpec

\* A lock granted, other than by stealing, leaves no request for the same name
\* waiting that was asked before it.
THEOREM LocksInOrder == LocksSpec => InTheOrderAsked
  <1>1. LocksInv /\ [LocksNext]_lockVars =>
          [\A r \in held' \ held :
             \/ steals' # steals
             \/ \A q \in waiting' : asked'[q].name = asked'[r].name => r < q]_lockVars
    BY LocksStep DEF Ordered
  <1> QED
    BY <1>1, LocksStart, LocksStep, PTL DEF LocksSpec, InTheOrderAsked
================================================================================
