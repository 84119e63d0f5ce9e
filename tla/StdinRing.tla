------------------------------- MODULE StdinRing -------------------------------
(****************************************************************************)
(* A run's fd 0 over shared memory (src/stdin-ring.ts): a byte ring a host's  *)
(* thread writes and the run's thread reads, blocking or not.                 *)
(*                                                                           *)
(* One action is one access to shared memory; a copy of bytes is one step,    *)
(* since the two sides never copy the same ones.  The producer's thread is    *)
(* free while a put waits for room, so a write or the close may land there.   *)
(* The run's thread is free while its drain waits for the producer, so a      *)
(* blocking read may land there; a blocked read holds it.                     *)
(*                                                                           *)
(* A byte is its number in the stream.                                        *)
(****************************************************************************)
EXTENDS Integers, Sequences

CONSTANTS
  Capacity,    \* the data area's length
  Modulus,     \* 2^32, where an index wraps
  ChunkSizes,  \* the sizes of a write
  ReadSizes,   \* the lengths a read asks for
  MaxBytes     \* bound: bytes handed to write()

\* A capacity is a power of two up to 2^30, so it divides 2^32 and is below it.
ASSUME RingAssumption ==
  /\ Capacity \in Nat \ {0}
  /\ Modulus \in Nat /\ Capacity < Modulus /\ Modulus % Capacity = 0
  /\ ChunkSizes \subseteq Nat \ {0} /\ ReadSizes \subseteq Nat \ {0}
  /\ MaxBytes \in Nat

VARIABLES
  windex, rindex, closed, signal, data,  \* the header's words and the data area
  wpc,       \* where the producer is in put; "idle" between puts
  wqueue,    \* the writes not yet done: the byte each of them ends at
  wread,     \* put's `readRaw`
  wcount,    \* put's `count`
  cpc,       \* where the producer is in close; "out" outside it
  rpc,       \* where the run's thread is; "out" outside a read
  rop,       \* which read: "block", "try" or "drain"
  rlen,      \* the read's `length`
  rsignal,   \* its `signal`
  rbuf,      \* the bytes it has copied out
  drain,     \* the drain's await: "out", "asleep" or "awake"
  ended,     \* the drain has ended process.stdin
  submitted, \* history: bytes handed to write()
  published, \* history: bytes under the write index, before it wraps
  received,  \* history: the bytes taken
  eof,       \* history: a read has answered 0
  early      \* history: the ring was closed under a put

header   == <<windex, rindex, closed, signal>>
producer == <<wpc, wqueue, wread, wcount, cpc>>
consumer == <<rpc, rop, rlen, rsignal, rbuf, drain, ended>>
history  == <<submitted, published, received, eof, early>>
stdinVars == <<header, data, producer, consumer, history>>

Least(a, b) == IF a < b THEN a ELSE b

StdinInit ==
  /\ windex = 0 /\ rindex = 0 /\ closed = 0 /\ signal = 0
  /\ data = [i \in 0 .. Capacity - 1 |-> 0]
  /\ wpc = "idle" /\ wqueue = <<>> /\ wread = 0 /\ wcount = 0 /\ cpc = "out"
  /\ rpc = "out" /\ rop = "try" /\ rlen = 0 /\ rsignal = 0 /\ rbuf = <<>> /\ drain = "out"
  /\ ended = FALSE
  /\ submitted = 0 /\ published = 0 /\ received = <<>> /\ eof = FALSE /\ early = FALSE

----------------------------------------------------------------------------
(* StdinRingWriter, on the producer's thread                                *)

\* The producer's own code runs: no put or close of its is between two accesses.
ProducerFree == cpc = "out" /\ wpc \in {"idle", "asleep", "awake"}

Write(n) ==
  /\ ProducerFree
  /\ submitted + n <= MaxBytes
  /\ submitted' = submitted + n
  /\ wqueue' = Append(wqueue, submitted + n)
  /\ UNCHANGED <<header, data, wpc, wread, wcount, cpc, consumer,
                 published, received, eof, early>>

\* A put's turn: refused on a closed ring, whose later writes are refused too.
PutStart ==
  /\ cpc = "out" /\ wpc = "idle" /\ wqueue # <<>>
  /\ IF closed = 1
     THEN wqueue' = Tail(wqueue) /\ wpc' = "idle"
     ELSE wqueue' = wqueue /\ wpc' = "load"
  /\ UNCHANGED <<header, data, wread, wcount, cpc, consumer, history>>

LoadRead ==
  /\ \/ wpc = "load"
     \/ wpc = "awake" /\ cpc = "out"
  /\ wread' = rindex
  /\ wpc' = "room"
  /\ UNCHANGED <<header, data, wqueue, wcount, cpc, consumer, history>>

RoomLeft == Capacity - ((windex - wread) % Modulus)

\* What is left of the put: those before it are done.
Left == Head(wqueue) - published

TestRoom ==
  /\ wpc = "room"
  /\ wcount' = Least(RoomLeft, Left)
  /\ wpc' = IF RoomLeft = 0 THEN "wait" ELSE "copy"
  /\ UNCHANGED <<header, data, wqueue, wread, cpc, consumer, history>>

\* waitAsync(READ_INDEX, readRaw): a value that has moved answers at once, and
\* the loop goes on without yielding the thread.
WaitRoom ==
  /\ wpc = "wait"
  /\ wpc' = IF rindex = wread THEN "asleep" ELSE "load"
  /\ UNCHANGED <<header, data, wqueue, wread, wcount, cpc, consumer, history>>

Copy ==
  /\ wpc = "copy"
  /\ data' = [i \in 0 .. Capacity - 1 |->
               LET k == (i - windex) % Capacity
               IN  IF k < wcount THEN published + k + 1 ELSE data[i]]
  /\ wpc' = "store"
  /\ UNCHANGED <<header, wqueue, wread, wcount, cpc, consumer, history>>

StoreWrite ==
  /\ wpc = "store"
  /\ windex' = (windex + wcount) % Modulus
  /\ published' = published + wcount
  /\ wpc' = "add"
  /\ UNCHANGED <<rindex, closed, signal, data, wqueue, wread, wcount, cpc, consumer,
                 submitted, received, eof, early>>

AddSignal ==
  /\ wpc = "add"
  /\ signal' = signal + 1
  /\ wpc' = "notify"
  /\ UNCHANGED <<windex, rindex, closed, data, wqueue, wread, wcount, cpc, consumer, history>>

\* notify(SIGNAL): a blocked read goes round its loop, a drain's await resolves.
WakeReader ==
  /\ rpc' = IF rpc = "asleep" THEN "signal" ELSE rpc
  /\ drain' = IF drain = "asleep" THEN "awake" ELSE drain
  /\ UNCHANGED <<rop, rlen, rsignal, rbuf, ended>>

NotifySignal ==
  /\ wpc = "notify"
  /\ WakeReader
  /\ wqueue' = IF Left = 0 THEN Tail(wqueue) ELSE wqueue
  /\ wpc' = IF Left = 0 THEN "idle" ELSE "load"
  /\ UNCHANGED <<header, data, wread, wcount, cpc, history>>

\* A second close would only bump SIGNAL again.
Close ==
  /\ ProducerFree /\ closed = 0
  /\ closed' = 1
  /\ cpc' = "add"
  /\ early' = (wpc # "idle")
  /\ UNCHANGED <<windex, rindex, signal, data, wpc, wqueue, wread, wcount, consumer,
                 submitted, published, received, eof>>

\* Mutant of CloseAdd: the close leaves the word a reader waits on as it was.
CloseAddMissing ==
  /\ cpc = "add"
  /\ cpc' = "notify"
  /\ UNCHANGED <<header, data, wpc, wqueue, wread, wcount, consumer, history>>

CloseAdd ==
  /\ cpc = "add"
  /\ signal' = signal + 1
  /\ cpc' = "notify"
  /\ UNCHANGED <<windex, rindex, closed, data, wpc, wqueue, wread, wcount, consumer, history>>

CloseNotify ==
  /\ cpc = "notify"
  /\ WakeReader
  /\ cpc' = "out"
  /\ UNCHANGED <<header, data, wpc, wqueue, wread, wcount, history>>

ProducerStep ==
  \/ PutStart \/ LoadRead \/ TestRoom \/ WaitRoom \/ Copy \/ StoreWrite \/ AddSignal
  \/ NotifySignal \/ CloseAdd \/ CloseNotify

----------------------------------------------------------------------------
(* StdinRingReader, on the run's thread                                     *)

Available == (windex - rindex) % Modulus

\* A blocking read, a read of a nonblocking descriptor, and the drain that fills
\* the run's process.stdin, which runs one at a time.  Once that stream has ended
\* a read answers 0 without the ring.
Read(op, length) ==
  /\ rpc = "out" /\ ~ended
  /\ rop' = op /\ rlen' = length
  /\ rpc' = IF op = "block" THEN "signal" ELSE "look"
  /\ UNCHANGED <<header, data, producer, rsignal, rbuf, drain, ended, history>>

StartDrain ==
  /\ rpc = "out" /\ drain = "out" /\ ~ended
  /\ rop' = "drain"
  /\ rpc' = "size"
  /\ UNCHANGED <<header, data, producer, rlen, rsignal, rbuf, drain, ended, history>>

\* takeAll: the chunk's length is what is available.
Size ==
  /\ rpc = "size"
  /\ rlen' = Available
  /\ rpc' = "look"
  /\ UNCHANGED <<header, data, producer, rop, rsignal, rbuf, drain, ended, history>>

LoadSignal ==
  /\ rpc = "signal"
  /\ rsignal' = signal
  /\ rpc' = "look"
  /\ UNCHANGED <<header, data, producer, rop, rlen, rbuf, drain, ended, history>>

\* take's count: the bytes are copied out of the area the producer keeps off.
Look ==
  /\ rpc = "look"
  /\ LET count == Least(rlen, Available)
     IN  /\ rbuf' = [i \in 1 .. count |-> data[(rindex + i - 1) % Capacity]]
         /\ rpc' = IF count = 0 THEN "closed" ELSE "store"
  /\ UNCHANGED <<header, data, producer, rop, rlen, rsignal, drain, ended, history>>

\* What a read that took nothing does next: it waits, or answers EAGAIN.
Nothing == CASE rop = "block" -> "wait"
             [] rop = "drain" -> "whenSignal"
             [] rop = "try"   -> "out"

\* Mutant of LookClosed: CLOSED alone is the end, whatever was written before it.
LookClosedOnce ==
  /\ rpc = "closed"
  /\ eof' = (eof \/ closed = 1)
  /\ rpc' = IF closed = 1 THEN "out" ELSE Nothing
  /\ UNCHANGED <<header, data, producer, rop, rlen, rsignal, rbuf, drain, ended,
                 submitted, published, received, early>>

LookClosed ==
  /\ rpc = "closed"
  /\ rpc' = IF closed = 1 THEN "lookAgain" ELSE Nothing
  /\ UNCHANGED <<header, data, producer, rop, rlen, rsignal, rbuf, drain, ended, history>>

LookAgain ==
  /\ rpc = "lookAgain"
  /\ eof' = (eof \/ Available = 0)
  /\ ended' = (ended \/ (Available = 0 /\ rop = "drain"))
  /\ rpc' = IF Available = 0 THEN "out" ELSE Nothing
  /\ UNCHANGED <<header, data, producer, rop, rlen, rsignal, rbuf, drain,
                 submitted, published, received, early>>

StoreRead ==
  /\ rpc = "store"
  /\ rindex' = (rindex + Len(rbuf)) % Modulus
  /\ received' = received \o rbuf
  /\ rpc' = "notify"
  /\ UNCHANGED <<windex, closed, signal, data, producer, rop, rlen, rsignal, rbuf, drain, ended,
                 submitted, published, eof, early>>

\* notify(READ_INDEX).  A drain goes on while the stream asks for more.
NotifyRead ==
  /\ rpc = "notify"
  /\ wpc' = IF wpc = "asleep" THEN "awake" ELSE wpc
  /\ rpc' \in IF rop = "drain" THEN {"size", "out"} ELSE {"out"}
  /\ UNCHANGED <<header, data, wqueue, wread, wcount, cpc, rop, rlen, rsignal, rbuf,
                 drain, ended, history>>

\* Atomics.wait(SIGNAL, signal): the thread sleeps where no event came since.
Wait ==
  /\ rpc = "wait"
  /\ rpc' = IF signal = rsignal THEN "asleep" ELSE "signal"
  /\ UNCHANGED <<header, data, producer, rop, rlen, rsignal, rbuf, drain, ended, history>>

\* whenWritten: SIGNAL, then a look at the bytes and at CLOSED, then waitAsync.
\* Where there is something the drain is awake at once.
WhenSignal ==
  /\ rpc = "whenSignal"
  /\ rsignal' = signal
  /\ rpc' = "whenLook"
  /\ UNCHANGED <<header, data, producer, rop, rlen, rbuf, drain, ended, history>>

WhenLook ==
  /\ rpc = "whenLook"
  /\ IF Available > 0
     THEN rpc' = "out" /\ drain' = "awake"
     ELSE rpc' = "whenClosed" /\ UNCHANGED drain
  /\ UNCHANGED <<header, data, producer, rop, rlen, rsignal, rbuf, ended, history>>

WhenClosed ==
  /\ rpc = "whenClosed"
  /\ IF closed = 1
     THEN rpc' = "out" /\ drain' = "awake"
     ELSE rpc' = "whenWait" /\ UNCHANGED drain
  /\ UNCHANGED <<header, data, producer, rop, rlen, rsignal, rbuf, ended, history>>

WhenWait ==
  /\ rpc = "whenWait"
  /\ rpc' = "out"
  /\ drain' = IF signal = rsignal THEN "asleep" ELSE "awake"
  /\ UNCHANGED <<header, data, producer, rop, rlen, rsignal, rbuf, ended, history>>

\* The drain's loop after its await, once the thread is free.
ResumeDrain ==
  /\ rpc = "out" /\ drain = "awake"
  /\ drain' = "out"
  /\ rop' = "drain"
  /\ rpc' = "size"
  /\ UNCHANGED <<header, data, producer, rlen, rsignal, rbuf, ended, history>>

ReaderStep ==
  \/ Size \/ LoadSignal \/ Look \/ LookClosed \/ LookAgain \/ StoreRead \/ NotifyRead
  \/ Wait \/ WhenSignal \/ WhenLook \/ WhenClosed \/ WhenWait

StdinNext ==
  \/ \E n \in ChunkSizes : Write(n)
  \/ Close
  \/ ProducerStep
  \/ \E op \in {"block", "try"}, length \in ReadSizes : Read(op, length)
  \/ StartDrain
  \/ ResumeDrain
  \/ ReaderStep

\* Both threads run.  Nobody has to write, close or read.
StdinFairness == WF_stdinVars(ProducerStep) /\ WF_stdinVars(ReaderStep)

StdinSpec == StdinInit /\ [][StdinNext]_stdinVars
FairStdinSpec == StdinSpec /\ StdinFairness
----------------------------------------------------------------------------
(* Properties                                                               *)

\* What fd 0 promises (BytePipe): the bytes read, whoever read them, are the stream's in
\* order, none lost, repeated or overwritten before it is read, across any wrap of the
\* indices; the end is told only with nothing left, and nothing comes after it.  The
\* mapping has WRITE_INDEX and READ_INDEX as the moments bytes enter and leave and the
\* second look at the bytes as the moment of EOF.  A close under a put is not yet the
\* pipe's end, since bytes are still to come: NothingAfterTheEnd is about that one.
Pipe == INSTANCE BytePipe WITH
  sent <- published, got <- received,
  shut <- closed = 1 /\ ~early, ended <- eof /\ ~early
ImplementsPipe == Pipe!Spec

\* A read that answered 0 was the end of fd 0: no read after it takes a byte
\* (close: "EOF: the reader takes what is left, then reads 0").
NothingAfterTheEnd == [][eof => received' = received]_stdinVars

\* No wake is lost: a read that has something to answer, bytes or the end, returns,
\* whether it blocks or waits in whenWritten, and a put waiting for room is woken by
\* the read that makes some.
NoWakeLost ==
  /\ (rpc = "asleep" /\ (Available > 0 \/ closed = 1)) ~> rpc # "asleep"
  /\ (drain = "asleep" /\ (Available > 0 \/ closed = 1)) ~> drain # "asleep"
  /\ (wpc = "asleep" /\ Available < Capacity) ~> wpc # "asleep"

================================================================================
