-------------------------- MODULE NativeStreamProofs --------------------------
(****************************************************************************)
(* For writes of any sizes, any room and any number of writes and stops: no   *)
(* descriptor leaks, and what the writer's program is told of its writes is   *)
(* true.  The owner's operations come first, then what each action does, the  *)
(* descriptors, the writer's queue and its chunk in flight, the stream.       *)
(****************************************************************************)
EXTENDS NativeStream, SequenceTheorems, FiniteSetTheorems, TLAPS

----------------------------------------------------------------------------
(* Counting in sequences                                                    *)

\* Places of a sequence, and places of another that comes behind it.
LEMMA CountJoined ==
  ASSUME NEW m \in Nat, NEW n \in Nat, NEW A \in SUBSET (1 .. m), NEW B \in SUBSET (1 .. n)
  PROVE  /\ Cardinality(A \cup {m + k : k \in B}) = Cardinality(A) + Cardinality(B)
         /\ Cardinality(A) \in Nat /\ Cardinality(B) \in Nat
  <1> DEFINE C == {m + k : k \in B}
             f == [k \in B |-> m + k]
  <1>a. IsFiniteSet(1 .. m) /\ IsFiniteSet(1 .. n)
    BY FS_Interval
  <1>1. IsFiniteSet(A) /\ IsFiniteSet(B)
    BY <1>a, FS_Subset
  <1>2. f \in Surjection(B, C) /\ f \in Injection(B, C)
    <2>1. f \in [B -> C] /\ \A k \in B : f[k] = m + k /\ k \in Int
      OBVIOUS
    <2>2. \A c \in C : \E k \in B : f[k] = c
      BY <2>1
    <2>3. \A j, k \in B : f[j] = f[k] => j = k
      BY <2>1
    <2> HIDE DEF f, C
    <2> QED
      BY <2>1, <2>2, <2>3 DEF Surjection, Injection, IsInjective
  <1>3. IsFiniteSet(C) /\ Cardinality(C) = Cardinality(B)
    BY <1>1, <1>2, FS_Surjection
  <1>4. A \cap C = {}
    OBVIOUS
  <1>5. Cardinality(A \cup C) = Cardinality(A) + Cardinality(C) - Cardinality(A \cap C)
    BY <1>1, <1>3, FS_Union
  <1>6. Cardinality(A) \in Nat /\ Cardinality(B) \in Nat
    BY <1>1, FS_CardinalityType
  <1> QED
    BY <1>3, <1>4, <1>5, <1>6, FS_EmptySet

LEMMA CarriedJoin ==
  ASSUME NEW M, NEW s \in Seq(M), NEW t \in Seq(M)
  PROVE  Carried(s \o t) = Carried(s) + Carried(t) /\ Carried(s) \in Nat /\ Carried(t) \in Nat
  <1> DEFINE A == {k \in 1 .. Len(s) : s[k].part > 0 /\ s[k].handle}
             B == {k \in 1 .. Len(t) : t[k].part > 0 /\ t[k].handle}
             x == s \o t
  <1>1. x \in Seq(M) /\ Len(x) = Len(s) + Len(t) /\ Len(s) \in Nat /\ Len(t) \in Nat
    BY ConcatProperties, LenProperties
  <1>2. {k \in 1 .. Len(x) : x[k].part > 0 /\ x[k].handle} = A \cup {Len(s) + k : k \in B}
    BY <1>1
  <1>3. Carried(x) = Cardinality(A \cup {Len(s) + k : k \in B})
        /\ Carried(s) = Cardinality(A) /\ Carried(t) = Cardinality(B)
    BY <1>1, <1>2, LenProperties DEF Carried
  <1>4. A \in SUBSET (1 .. Len(s)) /\ B \in SUBSET (1 .. Len(t))
    OBVIOUS
  <1>5. /\ Cardinality(A \cup {Len(s) + k : k \in B}) = Cardinality(A) + Cardinality(B)
        /\ Cardinality(A) \in Nat /\ Cardinality(B) \in Nat
    <2> HIDE DEF A, B
    <2>1. PICK m \in Nat, n \in Nat : m = Len(s) /\ n = Len(t)
      BY <1>1
    <2>2. A \in SUBSET (1 .. m) /\ B \in SUBSET (1 .. n)
      BY <1>4, <2>1
    <2>3. /\ Cardinality(A \cup {m + k : k \in B}) = Cardinality(A) + Cardinality(B)
          /\ Cardinality(A) \in Nat /\ Cardinality(B) \in Nat
      BY <2>2, CountJoined
    <2> QED
      BY <2>1, <2>3
  <1> HIDE DEF A, B
  <1> QED
    BY <1>3, <1>5

\* Copies, of writes described by `all`.
CopiesOf(all, queue) == Cardinality({k \in DOMAIN queue : all[queue[k].id].carries /\ queue[k].sent = 0})

LEMMA CopiesIs == ASSUME NEW queue PROVE Copies(queue) = CopiesOf(made, queue)
  BY DEF Copies, CopiesOf, HoldsCopy

LEMMA CopiesJoin ==
  ASSUME NEW all, NEW M, NEW s \in Seq(M), NEW t \in Seq(M)
  PROVE  /\ CopiesOf(all, s \o t) = CopiesOf(all, s) + CopiesOf(all, t)
         /\ CopiesOf(all, s) \in Nat /\ CopiesOf(all, t) \in Nat
  <1> DEFINE A == {k \in 1 .. Len(s) : all[s[k].id].carries /\ s[k].sent = 0}
             B == {k \in 1 .. Len(t) : all[t[k].id].carries /\ t[k].sent = 0}
             x == s \o t
  <1>1. x \in Seq(M) /\ Len(x) = Len(s) + Len(t) /\ Len(s) \in Nat /\ Len(t) \in Nat
    BY ConcatProperties, LenProperties
  <1>2. {k \in 1 .. Len(x) : all[x[k].id].carries /\ x[k].sent = 0} = A \cup {Len(s) + k : k \in B}
    BY <1>1
  <1>3. CopiesOf(all, x) = Cardinality(A \cup {Len(s) + k : k \in B})
        /\ CopiesOf(all, s) = Cardinality(A) /\ CopiesOf(all, t) = Cardinality(B)
    BY <1>1, <1>2, LenProperties DEF CopiesOf
  <1>4. A \in SUBSET (1 .. Len(s)) /\ B \in SUBSET (1 .. Len(t))
    OBVIOUS
  <1>5. /\ Cardinality(A \cup {Len(s) + k : k \in B}) = Cardinality(A) + Cardinality(B)
        /\ Cardinality(A) \in Nat /\ Cardinality(B) \in Nat
    <2> HIDE DEF A, B
    <2>1. PICK m \in Nat, n \in Nat : m = Len(s) /\ n = Len(t)
      BY <1>1
    <2>2. A \in SUBSET (1 .. m) /\ B \in SUBSET (1 .. n)
      BY <1>4, <2>1
    <2>3. /\ Cardinality(A \cup {m + k : k \in B}) = Cardinality(A) + Cardinality(B)
          /\ Cardinality(A) \in Nat /\ Cardinality(B) \in Nat
      BY <2>2, CountJoined
    <2> QED
      BY <2>1, <2>3
  <1> HIDE DEF A, B
  <1> QED
    BY <1>3, <1>5

LEMMA CountEmpty == Carried(<< >>) = 0 /\ \A all : CopiesOf(all, << >>) = 0
  <1>1. DOMAIN << >> = {}
    OBVIOUS
  <1>2. Carried(<< >>) = Cardinality({})
    BY <1>1 DEF Carried
  <1>3. \A all : CopiesOf(all, << >>) = Cardinality({})
    BY <1>1 DEF CopiesOf
  <1> QED
    BY <1>2, <1>3, FS_EmptySet

LEMMA CountOne ==
  ASSUME NEW x
  PROVE  /\ Carried(<<x>>) = IF x.part > 0 /\ x.handle THEN 1 ELSE 0
         /\ \A all : CopiesOf(all, <<x>>) = IF all[x.id].carries /\ x.sent = 0 THEN 1 ELSE 0
  <1>1. DOMAIN <<x>> = {1} /\ <<x>>[1] = x
    OBVIOUS
  <1>2. Carried(<<x>>) = Cardinality(IF x.part > 0 /\ x.handle THEN {1} ELSE {})
    BY <1>1 DEF Carried
  <1>3. ASSUME NEW all
        PROVE  CopiesOf(all, <<x>>) = Cardinality(IF all[x.id].carries /\ x.sent = 0 THEN {1} ELSE {})
    BY <1>1 DEF CopiesOf
  <1> QED
    BY <1>2, <1>3, FS_EmptySet, FS_Singleton

LEMMA HeadFirst ==
  ASSUME NEW M, NEW s \in Seq(M), s # << >>
  PROVE  s = <<Head(s)>> \o Tail(s) /\ Head(s) \in M /\ Tail(s) \in Seq(M) /\ <<Head(s)>> \in Seq(M)
  OBVIOUS


----------------------------------------------------------------------------
(* The owner's operations                                                   *)

Replies == {OK, Pipe, Canceled, BadHandle, "shutdown"}
ChunkSet == [write : Nat, part : Nat \ {0}, handle : BOOLEAN]
Owners ==
  [wOpen : BOOLEAN, rOpen : BOOLEAN, slot : ChunkSet \cup {NoChunk}, inbound : Seq(ChunkSet),
   eof : BOOLEAN, ended : BOOLEAN, reading : BOOLEAN, due : BOOLEAN, copies : Int, entries : Int,
   toWriter : Seq(Replies), toReader : Seq(ChunkSet \cup {Eof, Closed})]

LEMMA ChunkIs ==
  ASSUME NEW c \in ChunkSet
  PROVE  c # Eof /\ c # NoChunk /\ c # Closed /\ c.part > 0 /\ c.handle \in BOOLEAN
  BY DEF ChunkSet, Eof, NoChunk, Closed

LEMMA EndIs == Eof.part = -1 /\ Closed.part = -2 /\ NoChunk.part = 0 /\ Eof # Closed
  BY DEF Eof, Closed, NoChunk

\* What an attempt to write, and one that waited, do not touch.
Untouched(o, p) ==
  /\ p.wOpen = o.wOpen /\ p.rOpen = o.rOpen /\ p.eof = o.eof /\ p.ended = o.ended
  /\ p.copies = o.copies /\ p.entries = o.entries /\ p.toReader = o.toReader

Refused(o, p) == p.slot = NoChunk /\ p.inbound = o.inbound /\ p.toWriter = Append(o.toWriter, Pipe)
Accepted(o, c, p) ==
  p.slot = NoChunk /\ p.inbound = Append(o.inbound, c) /\ p.toWriter = Append(o.toWriter, OK)
Waits(o, c, p) == p.slot = c /\ p.inbound = o.inbound /\ p.toWriter = o.toWriter

LEMMA AttemptIs ==
  ASSUME NEW o \in Owners, NEW c \in ChunkSet, NEW p, p = Attempt(o, c)
  PROVE  /\ p \in Owners /\ Untouched(o, p)
         /\ \/ (~o.rOpen \/ o.eof) /\ Refused(o, p)
            \/ o.rOpen /\ ~o.eof /\ Accepted(o, c, p)
            \/ o.rOpen /\ Waits(o, c, p)
  <1>a. /\ Append(o.toWriter, Pipe) \in Seq(Replies) /\ Append(o.toWriter, OK) \in Seq(Replies)
        /\ Append(o.inbound, c) \in Seq(ChunkSet)
    <2>1. o.toWriter \in Seq(Replies) /\ o.inbound \in Seq(ChunkSet)
      BY DEF Owners
    <2>2. Pipe \in Replies /\ OK \in Replies
      BY DEF Replies
    <2> QED
      BY <2>1, <2>2, AppendProperties
  <1>1. CASE ~o.rOpen
    <2>1. p = [o EXCEPT !.slot = NoChunk, !.toWriter = Append(@, Pipe)]
      BY <1>1 DEF Attempt, Reply, Owners
    <2> QED
      BY <1>a, <1>1, <2>1 DEF Untouched, Refused, Owners
  <1>2. CASE o.rOpen /\ Len(o.inbound) >= MaxQueued
    BY <1>2 DEF Attempt, Untouched, Waits, Owners
  <1>3. CASE o.rOpen /\ ~(Len(o.inbound) >= MaxQueued) /\ o.eof
    <2>1. p = [o EXCEPT !.slot = NoChunk, !.toWriter = Append(@, Pipe)]
      BY <1>3 DEF Attempt, Reply, Owners
    <2> QED
      BY <1>a, <1>3, <2>1 DEF Untouched, Refused, Owners
  <1>4. CASE o.rOpen /\ ~(Len(o.inbound) >= MaxQueued) /\ ~o.eof
    <2>1. p = [o EXCEPT !.slot = NoChunk, !.inbound = Append(@, c), !.due = TRUE,
                        !.toWriter = Append(@, OK)]
      BY <1>4 DEF Attempt, Reply, Enqueue, Owners
    <2> QED
      BY <1>a, <1>4, <2>1 DEF Untouched, Accepted, Owners
  <1> QED
    BY <1>1, <1>2, <1>3, <1>4 DEF Owners

\* A write that waits is tried again; where none does, nothing happens.
Retried(o, p) ==
  \/ o.slot = NoChunk /\ p.slot = NoChunk /\ p.inbound = o.inbound /\ p.toWriter = o.toWriter
  \/ o.slot \in ChunkSet /\ (~o.rOpen \/ o.eof) /\ Refused(o, p)
  \/ o.slot \in ChunkSet /\ o.rOpen /\ ~o.eof /\ Accepted(o, o.slot, p)
  \/ o.slot \in ChunkSet /\ o.rOpen /\ Waits(o, o.slot, p)

LEMMA CapacityChangedIs ==
  ASSUME NEW o \in Owners, NEW p, p = CapacityChanged(o)
  PROVE  p \in Owners /\ Untouched(o, p) /\ Retried(o, p)
  <1>1. CASE o.slot = NoChunk
    BY <1>1 DEF CapacityChanged, Untouched, Retried
  <1>2. CASE o.slot # NoChunk
    <2>1. o.slot \in ChunkSet /\ p = Attempt(o, o.slot)
      BY <1>2 DEF CapacityChanged, Owners
    <2> QED
      BY <2>1, AttemptIs DEF Retried
  <1> QED
    BY <1>1, <1>2

\* One chunk is read.
OneRead(o, q) ==
  /\ o.inbound # << >> /\ q.inbound = Tail(o.inbound)
  /\ q.toReader = Append(o.toReader, Head(o.inbound))
  /\ q.entries = o.entries + (IF Head(o.inbound).handle THEN 1 ELSE 0)
  /\ q.slot = o.slot /\ q.toWriter = o.toWriter

\* The two ends are as they were.
SameEnds(o, p) == p.wOpen = o.wOpen /\ p.rOpen = o.rOpen /\ p.eof = o.eof /\ p.copies = o.copies

\* What publishing does: nothing, one chunk read and then a write that waited tried, or
\* the end.
Published(o, p) ==
  \/ /\ p.ended = o.ended /\ p.toReader = o.toReader /\ p.entries = o.entries
     /\ p.inbound = o.inbound /\ p.slot = o.slot /\ p.toWriter = o.toWriter
  \/ /\ o.rOpen /\ p.ended = o.ended
     /\ \E q \in Owners : OneRead(o, q) /\ SameEnds(o, q) /\ Retried(q, p)
                          /\ p.toReader = q.toReader /\ p.entries = q.entries
  \/ /\ o.rOpen /\ o.inbound = << >> /\ o.eof /\ ~o.ended
     /\ p.ended /\ p.toReader = Append(o.toReader, Eof) /\ p.entries = o.entries
     /\ p.inbound = o.inbound /\ p.slot = o.slot /\ p.toWriter = o.toWriter

LEMMA FlushedIs ==
  ASSUME NEW o \in Owners, NEW p, p = Flushed(o)
  PROVE  p \in Owners /\ SameEnds(o, p) /\ Published(o, p)
  <1>1. CASE ~o.reading \/ ~o.rOpen
    BY <1>1 DEF Flushed, SameEnds, Published
  <1>2. CASE o.reading /\ o.rOpen /\ o.inbound # << >>
    <2> DEFINE q == [o EXCEPT !.inbound = Tail(@), !.reading = FALSE,
                              !.entries = @ + (IF Head(o.inbound).handle THEN 1 ELSE 0),
                              !.toReader = Append(@, Head(o.inbound))]
    <2>1. Tail(o.inbound) \in Seq(ChunkSet) /\ Head(o.inbound) \in ChunkSet
          /\ Append(o.toReader, Head(o.inbound)) \in Seq(ChunkSet \cup {Eof, Closed})
          /\ o.entries + (IF Head(o.inbound).handle THEN 1 ELSE 0) \in Int
      BY <1>2 DEF Owners
    <2>2. q \in Owners
      BY <2>1 DEF Owners
    <2>3. OneRead(o, q) /\ SameEnds(o, q) /\ q.ended = o.ended
      BY <1>2 DEF OneRead, SameEnds, Owners
    <2>4. p = CapacityChanged(q)
      BY <1>2 DEF Flushed
    <2> HIDE DEF q
    <2>5. p \in Owners /\ Untouched(q, p) /\ Retried(q, p)
      BY <2>2, <2>4, CapacityChangedIs
    <2>6. SameEnds(o, p) /\ p.ended = o.ended /\ p.toReader = q.toReader /\ p.entries = q.entries
      BY <2>3, <2>5 DEF SameEnds, Untouched
    <2> QED
      BY <1>2, <2>2, <2>3, <2>5, <2>6 DEF Published
  <1>3. CASE o.reading /\ o.rOpen /\ o.inbound = << >> /\ o.eof /\ ~o.ended
    <2>1. p = [o EXCEPT !.ended = TRUE, !.reading = FALSE, !.toReader = Append(@, Eof)]
      BY <1>3 DEF Flushed
    <2>2. Append(o.toReader, Eof) \in Seq(ChunkSet \cup {Eof, Closed})
      BY DEF Owners
    <2> QED
      BY <1>3, <2>1, <2>2 DEF SameEnds, Published, Owners
  <1>4. CASE o.reading /\ o.rOpen /\ o.inbound = << >> /\ ~(o.eof /\ ~o.ended)
    BY <1>4 DEF Flushed, SameEnds, Published
  <1> QED
    BY <1>1, <1>2, <1>3, <1>4 DEF Owners

\* The two differ only in the grant and in the turn scheduled.
Alike(o, p) ==
  /\ p.wOpen = o.wOpen /\ p.rOpen = o.rOpen /\ p.eof = o.eof /\ p.ended = o.ended
  /\ p.copies = o.copies /\ p.entries = o.entries /\ p.toReader = o.toReader
  /\ p.slot = o.slot /\ p.inbound = o.inbound /\ p.toWriter = o.toWriter

LEMMA AlikePublishes ==
  ASSUME NEW o \in Owners, NEW q \in Owners, Alike(o, q), NEW p, p = Flushed(q)
  PROVE  p \in Owners /\ SameEnds(o, p) /\ Published(o, p)
  <1>1. p \in Owners /\ SameEnds(q, p) /\ Published(q, p)
    BY FlushedIs
  <1>2. SameEnds(o, p)
    BY <1>1 DEF Alike, SameEnds
  <1>3. ASSUME NEW r PROVE OneRead(q, r) /\ SameEnds(q, r) => OneRead(o, r) /\ SameEnds(o, r)
    BY DEF Alike, OneRead, SameEnds
  <1>4. Published(o, p)
    BY <1>1, <1>3 DEF Alike, Published
  <1> QED
    BY <1>1, <1>2, <1>4

LEMMA CloseWriterIs ==
  ASSUME NEW o \in Owners, NEW p, p = CloseWriter(o)
  PROVE  /\ p \in Owners
         /\ \E q \in Owners :
              /\ SameEnds(q, p) /\ Published(q, p)
              /\ ~q.wOpen /\ q.eof /\ q.rOpen = o.rOpen /\ q.ended = o.ended
              /\ q.copies = o.copies /\ q.entries = o.entries /\ q.toReader = o.toReader
              /\ q.slot = NoChunk /\ q.inbound = o.inbound
              /\ q.toWriter = IF o.slot = NoChunk THEN o.toWriter ELSE Append(o.toWriter, Canceled)
  <1>1. PICK w : w = IF o.slot = NoChunk THEN o.toWriter ELSE Append(o.toWriter, Canceled)
    OBVIOUS
  <1>2. w \in Seq(Replies)
    <2>1. o.toWriter \in Seq(Replies) /\ Canceled \in Replies
      BY DEF Owners, Replies
    <2> QED
      BY <1>1, <2>1, AppendProperties
  <1> DEFINE q == [o EXCEPT !.slot = NoChunk, !.toWriter = w, !.wOpen = FALSE, !.eof = TRUE]
  <1>3. p = Flushed(q)
    <2>1. CASE o.slot = NoChunk
      <3>1. q = [o EXCEPT !.wOpen = FALSE, !.eof = TRUE]
        BY <1>1, <2>1 DEF Owners
      <3> QED
        BY <2>1, <3>1 DEF CloseWriter
    <2>2. CASE o.slot # NoChunk
      <3>1. q = [[[o EXCEPT !.slot = NoChunk] EXCEPT !.toWriter = Append(@, Canceled)]
                    EXCEPT !.wOpen = FALSE, !.eof = TRUE]
        BY <1>1, <2>2 DEF Owners
      <3> QED
        BY <2>2, <3>1 DEF CloseWriter, Reply
    <2> QED
      BY <2>1, <2>2
  <1>4. q \in Owners
    BY <1>2 DEF Owners
  <1>5. /\ ~q.wOpen /\ q.eof /\ q.rOpen = o.rOpen /\ q.ended = o.ended
        /\ q.copies = o.copies /\ q.entries = o.entries /\ q.toReader = o.toReader
        /\ q.slot = NoChunk /\ q.inbound = o.inbound /\ q.toWriter = w
    BY DEF Owners
  <1> HIDE DEF q
  <1>6. p \in Owners /\ SameEnds(q, p) /\ Published(q, p)
    BY <1>3, <1>4, FlushedIs
  <1> QED
    BY <1>1, <1>4, <1>5, <1>6

LEMMA CloseReaderIs ==
  ASSUME NEW o \in Owners, NEW p, p = CloseReader(o)
  PROVE  /\ p \in Owners
         /\ ~p.rOpen /\ p.wOpen = o.wOpen /\ p.eof = o.eof /\ p.ended = o.ended
         /\ p.copies = o.copies /\ p.entries = o.entries /\ p.toReader = o.toReader
         /\ p.slot = NoChunk /\ p.inbound = << >>
         /\ p.toWriter = IF o.slot = NoChunk THEN o.toWriter ELSE Append(o.toWriter, Pipe)
  <1> DEFINE q == [o EXCEPT !.rOpen = FALSE, !.reading = FALSE, !.inbound = << >>, !.due = FALSE]
  <1>1. q \in Owners
    <2>1. << >> \in Seq(ChunkSet)
      OBVIOUS
    <2> QED
      BY <2>1 DEF Owners
  <1>2. /\ ~q.rOpen /\ q.wOpen = o.wOpen /\ q.eof = o.eof /\ q.ended = o.ended
        /\ q.copies = o.copies /\ q.entries = o.entries /\ q.toReader = o.toReader
        /\ q.slot = o.slot /\ q.inbound = << >> /\ q.toWriter = o.toWriter
    BY DEF Owners
  <1>3. p = CapacityChanged(q)
    BY DEF CloseReader
  <1> HIDE DEF q
  <1>4. p \in Owners /\ Untouched(q, p) /\ Retried(q, p)
    BY <1>1, <1>3, CapacityChangedIs
  <1>5. o.slot = NoChunk \/ o.slot \in ChunkSet
    BY DEF Owners
  <1>6. \A c \in ChunkSet : c # NoChunk
    BY ChunkIs
  <1> QED
    BY <1>2, <1>4, <1>5, <1>6 DEF Untouched, Retried, Refused

----------------------------------------------------------------------------
(* Types                                                                    *)

WriteSet == [id : Nat, sent : Nat]
MadeSet == [size : Nat \ {0}, carries : BOOLEAN]

WriterTypes ==
  /\ writes \in Seq(WriteSet) /\ made \in Seq(MadeSet) /\ answers \in Seq(Seq(Replies))
  /\ \A k \in 1 .. Len(writes) : writes[k].id \in 1 .. Len(made)
  /\ writeEnded \in BOOLEAN /\ wClosing \in BOOLEAN
  /\ shutdown \in {"none", "pending", "posted", "done", "lost"}
  /\ toOwner \in Seq(ChunkSet \cup {Eof})
ReaderTypes ==
  /\ inbound \in Seq(ChunkSet) /\ taken \in Seq(ChunkSet) /\ adopted \in Nat
  /\ rClosing \in BOOLEAN /\ ended \in BOOLEAN /\ told \in BOOLEAN

StreamTypes == WriterTypes /\ own \in Owners /\ ReaderTypes

\* The writer's driver, or the reader's, takes no part in a step.
LEMMA WriterSame == ASSUME WriterTypes, UNCHANGED writer PROVE WriterTypes'
  BY DEF WriterTypes, writer

LEMMA ReaderSame == ASSUME ReaderTypes, UNCHANGED reader PROVE ReaderTypes'
  BY DEF ReaderTypes, reader

LEMMA ChunkOfIs ==
  ASSUME NEW w \in WriteSet
  PROVE  ChunkOf(w) \in ChunkSet
  BY DEF ChunkOf, WriteSet, ChunkSet

LEMMA OneAnswer ==
  ASSUME NEW a \in Seq(Replies), NEW r \in Replies
  PROVE  Append(a, r) \in Seq(Replies)
  OBVIOUS

LEMMA FunSeq ==
  ASSUME NEW S, NEW n \in Nat, NEW f \in [1 .. n -> S]
  PROVE  f \in Seq(S) /\ Len(f) = n
  OBVIOUS

LEMMA AppendIs ==
  ASSUME NEW S, NEW s \in Seq(S), NEW x \in S
  PROVE  /\ Append(s, x) \in Seq(S) /\ Len(Append(s, x)) = Len(s) + 1 /\ Len(s) \in Nat
         /\ \A k \in 1 .. Len(s) : Append(s, x)[k] = s[k]
         /\ Append(s, x)[Len(s) + 1] = x /\ Append(s, x) = s \o <<x>> /\ <<x>> \in Seq(S)
  OBVIOUS

LEMMA TailIs ==
  ASSUME NEW S, NEW s \in Seq(S), s # << >>
  PROVE  /\ Head(s) \in S /\ Head(s) = s[1] /\ Len(s) \in Nat \ {0}
         /\ Tail(s) \in Seq(S) /\ Len(Tail(s)) = Len(s) - 1
         /\ \A i \in 1 .. Len(s) - 1 : Tail(s)[i] = s[i + 1]
  OBVIOUS

----------------------------------------------------------------------------
(* What each action does                                                    *)

LEMMA OwnerTurnIs ==
  ASSUME own \in Owners, OwnerTurn
  PROVE  /\ own' \in Owners /\ SameEnds(own, own') /\ Published(own, own')
         /\ UNCHANGED <<writer, reader>>
  <1>1. PICK q : q = [own EXCEPT !.due = FALSE]
    OBVIOUS
  <1>2. q \in Owners /\ Alike(own, q) /\ own' = Flushed(q)
    BY <1>1 DEF Owners, Alike, OwnerTurn
  <1> QED
    BY <1>2, AlikePublishes DEF OwnerTurn

LEMMA TakeGrantIs ==
  ASSUME own \in Owners, TakeGrant
  PROVE  /\ own' \in Owners /\ SameEnds(own, own') /\ Published(own, own')
         /\ UNCHANGED <<writer, inbound, taken, adopted, rClosing, ended, told>>
  <1>1. PICK q : q = [own EXCEPT !.reading = own.rOpen]
    OBVIOUS
  <1>2. q \in Owners /\ Alike(own, q) /\ own' = Flushed(q)
    BY <1>1 DEF Owners, Alike, TakeGrant
  <1> QED
    BY <1>2, AlikePublishes DEF TakeGrant

\* The reader's program is given `given`, and may be told the end.
Delivered(given, rest) ==
  /\ own' \in Owners /\ Alike(own, own')
  /\ given \in Seq(ChunkSet) /\ rest \in Seq(ChunkSet) /\ inbound = given \o rest
  /\ inbound' = rest /\ taken' = taken \o given /\ adopted' = adopted + Carried(given)
  /\ told' = told \/ (told' /\ ended /\ rest = << >>)
  /\ told' \in BOOLEAN

LEMMA DeliverIs ==
  ASSUME own \in Owners, ReaderTypes, NEW credit, NEW port, Deliver(credit, port)
  PROVE  \E given, rest : Delivered(given, rest)
  <1>1. PICK n \in 0 .. Len(inbound), stop \in BOOLEAN :
          LET given == SubSeq(inbound, 1, n)
              rest == SubSeq(inbound, n + 1, Len(inbound))
              end == ~stop /\ ended /\ ~told
          IN  /\ rest # <<>> => stop
              /\ inbound' = rest /\ taken' = taken \o given
              /\ adopted' = adopted + Carried(given)
              /\ told' = (told \/ end)
              /\ own' = IF stop /\ credit THEN [own EXCEPT !.reading = FALSE] ELSE own
    BY DEF Deliver
  <1>2. PICK given, rest : given = SubSeq(inbound, 1, n) /\ rest = SubSeq(inbound, n + 1, Len(inbound))
    OBVIOUS
  <1>3. inbound \in Seq(ChunkSet) /\ told \in BOOLEAN /\ ended \in BOOLEAN /\ Len(inbound) \in Nat
    BY DEF ReaderTypes
  <1>4. given \in Seq(ChunkSet) /\ rest \in Seq(ChunkSet)
    BY <1>2, <1>3
  <1>5. inbound = given \o rest
    <2>1. /\ 1 \in 1 .. Len(inbound) + 1 /\ n \in 1 - 1 .. Len(inbound)
          /\ Len(inbound) \in n .. Len(inbound)
      BY <1>3
    <2>2. given \o rest = SubSeq(inbound, 1, Len(inbound))
      BY <1>2, <1>3, <2>1, ConcatAdjacentSubSeq
    <2> QED
      BY <1>3, <2>2, SubSeqFull
  <1>6. own' \in Owners /\ Alike(own, own')
    BY <1>1 DEF Owners, Alike
  <1>7. told' = told \/ (told' /\ ended /\ rest = << >>)
    BY <1>1, <1>2, <1>3
  <1>8. told' \in BOOLEAN
    BY <1>1, <1>2, <1>3
  <1> QED
    BY <1>1, <1>2, <1>4, <1>5, <1>6, <1>7, <1>8 DEF Delivered

\* What the reader's driver does on its own: it delivers, or only its grant changes.
Quiet == own' \in Owners /\ Alike(own, own') /\ UNCHANGED <<inbound, taken, adopted, told>>

LEMMA ReadsAre ==
  ASSUME own \in Owners, ReaderTypes, ReadStart \/ ReadStop \/ ReaderTurn
  PROVE  /\ Quiet \/ (~rClosing /\ \E given, rest : Delivered(given, rest))
         /\ UNCHANGED <<writer, rClosing, ended>>
  <1>1. CASE ReadStart
    <2>1. ~rClosing /\ (\E given, rest : Delivered(given, rest)) /\ UNCHANGED <<writer, rClosing, ended>>
      BY <1>1, DeliverIs DEF ReadStart
    <2> QED
      BY <2>1
  <1>2. CASE ReadStop
    <2>1. own' = [own EXCEPT !.reading = FALSE] \/ own' = own
      BY <1>2 DEF ReadStop
    <2>2. own' \in Owners /\ Alike(own, own')
      BY <2>1 DEF Owners, Alike
    <2> QED
      BY <1>2, <2>2 DEF ReadStop, Quiet
  <1>3. CASE ReaderTurn
    <2>1. CASE ~rClosing /\ Deliver(readingCredit, toOwnerR)
      BY <1>3, <2>1, DeliverIs DEF ReaderTurn
    <2>2. CASE UNCHANGED <<own, inbound, taken, told, adopted>>
      BY <1>3, <2>2 DEF ReaderTurn, Quiet, Alike
    <2> QED
      BY <1>3, <2>1, <2>2 DEF ReaderTurn
  <1> QED
    BY <1>1, <1>2, <1>3

LEMMA ReceiveIs ==
  ASSUME own \in Owners, ReaderTypes, ReceiveEvent
  PROVE  \E event \in ChunkSet \cup {Eof, Closed} :
           /\ own.toReader # << >> /\ event = Head(own.toReader)
           /\ own' \in Owners /\ SameEnds(own, own') /\ own'.toReader = Tail(own.toReader)
           /\ own'.ended = own.ended /\ own'.slot = own.slot /\ own'.inbound = own.inbound
           /\ own'.toWriter = own.toWriter
           /\ \/ /\ event = Closed /\ inbound' = << >> /\ ended' = ended
                 /\ own'.entries = own.entries - Carried(inbound)
              \/ /\ event # Closed /\ rClosing /\ inbound' = inbound /\ ended' = ended
                 /\ own'.entries = own.entries - Carried(<<event>>)
              \/ /\ event = Eof /\ ~rClosing /\ inbound' = inbound /\ ended'
                 /\ own'.entries = own.entries
              \/ /\ event \in ChunkSet /\ ~rClosing /\ inbound' = Append(inbound, event)
                 /\ ended' = ended /\ own'.entries = own.entries
           /\ UNCHANGED <<writer, rClosing, taken, told, adopted>>
  <1>1. own.toReader # << >> /\ own.toReader \in Seq(ChunkSet \cup {Eof, Closed})
    BY DEF ReceiveEvent, Owners
  <1>2. PICK event \in ChunkSet \cup {Eof, Closed} : event = Head(own.toReader)
    BY <1>1
  <1>3. PICK dropped : dropped = IF event = Closed THEN Carried(inbound)
                                 ELSE IF rClosing THEN Carried(<<event>>) ELSE 0
    OBVIOUS
  <1>4. dropped \in Nat
    <2>1. inbound \in Seq(ChunkSet) /\ << >> \in Seq(ChunkSet)
      BY DEF ReaderTypes
    <2>2. <<event>> \in Seq(ChunkSet \cup {Eof, Closed})
      OBVIOUS
    <2>3. Carried(inbound) \in Nat /\ Carried(<<event>>) \in Nat
      BY <2>1, <2>2, CarriedJoin
    <2> QED
      BY <1>3, <2>3
  <1>5. own' = [own EXCEPT !.toReader = Tail(@), !.entries = @ - dropped]
    BY <1>2, <1>3 DEF ReceiveEvent
  <1>6. Tail(own.toReader) \in Seq(ChunkSet \cup {Eof, Closed}) /\ own.entries - dropped \in Int
    BY <1>1, <1>4 DEF Owners
  <1>7. /\ own' \in Owners /\ SameEnds(own, own') /\ own'.toReader = Tail(own.toReader)
        /\ own'.ended = own.ended /\ own'.slot = own.slot /\ own'.inbound = own.inbound
        /\ own'.toWriter = own.toWriter /\ own'.entries = own.entries - dropped
    BY <1>5, <1>6 DEF Owners, SameEnds
  <1>8. own.entries \in Int /\ ended \in BOOLEAN /\ rClosing \in BOOLEAN
    BY DEF Owners, ReaderTypes
  <1>9. UNCHANGED <<writer, rClosing, taken, told, adopted>>
    BY DEF ReceiveEvent
  <1>10. CASE event = Closed
    <2>1. inbound' = << >> /\ ended' = ended
      BY <1>2, <1>10 DEF ReceiveEvent
    <2> QED
      BY <1>1, <1>2, <1>3, <1>7, <1>9, <1>10, <2>1
  <1>11. CASE event # Closed /\ rClosing
    <2>1. inbound' = inbound /\ ended' = ended
      BY <1>2, <1>11 DEF ReceiveEvent
    <2> QED
      BY <1>1, <1>2, <1>3, <1>7, <1>9, <1>11, <2>1
  <1>12. CASE event # Closed /\ ~rClosing
    <2>1. /\ inbound' = IF event = Eof THEN inbound ELSE Append(inbound, event)
          /\ ended' = (ended \/ event = Eof)
      BY <1>2, <1>12 DEF ReceiveEvent
    <2>2. own'.entries = own.entries
      BY <1>3, <1>7, <1>8, <1>12
    <2>3. CASE event = Eof
      BY <1>1, <1>2, <1>7, <1>9, <1>12, <2>1, <2>2, <2>3
    <2>4. CASE event # Eof
      <3>1. event \in ChunkSet /\ ended' = ended /\ inbound' = Append(inbound, event)
        BY <1>8, <1>12, <2>1, <2>4
      <3> QED
        BY <1>1, <1>2, <1>7, <1>9, <1>12, <2>2, <3>1
    <2> QED
      BY <2>3, <2>4
  <1> QED
    BY <1>10, <1>11, <1>12

LEMMA ReaderCloseIs ==
  ASSUME own \in Owners, ReaderClose
  PROVE  /\ own' \in Owners /\ ~rClosing /\ rClosing'
         /\ ~own'.rOpen /\ own'.wOpen = own.wOpen /\ own'.eof = own.eof /\ own'.ended = own.ended
         /\ own'.copies = own.copies /\ own'.entries = own.entries
         /\ own'.toReader = Append(own.toReader, Closed)
         /\ own'.slot = NoChunk /\ own'.inbound = << >>
         /\ own'.toWriter = IF own.slot = NoChunk THEN own.toWriter ELSE Append(own.toWriter, Pipe)
         /\ UNCHANGED <<writer, inbound, taken, adopted, told, ended>>
  <1>1. PICK o : o = CloseReader(own)
    OBVIOUS
  <1>2. own' = [o EXCEPT !.toReader = Append(@, Closed)]
    BY <1>1 DEF ReaderClose
  <1>3. /\ o \in Owners
        /\ ~o.rOpen /\ o.wOpen = own.wOpen /\ o.eof = own.eof /\ o.ended = own.ended
        /\ o.copies = own.copies /\ o.entries = own.entries /\ o.toReader = own.toReader
        /\ o.slot = NoChunk /\ o.inbound = << >>
        /\ o.toWriter = IF own.slot = NoChunk THEN own.toWriter ELSE Append(own.toWriter, Pipe)
    BY <1>1, CloseReaderIs
  <1>4. Append(o.toReader, Closed) \in Seq(ChunkSet \cup {Eof, Closed})
    BY <1>3 DEF Owners
  <1>5. /\ own' \in Owners /\ own'.toReader = Append(own.toReader, Closed)
        /\ own'.rOpen = o.rOpen /\ own'.wOpen = o.wOpen /\ own'.eof = o.eof /\ own'.ended = o.ended
        /\ own'.copies = o.copies /\ own'.entries = o.entries
        /\ own'.slot = o.slot /\ own'.inbound = o.inbound /\ own'.toWriter = o.toWriter
    BY <1>2, <1>3, <1>4 DEF Owners
  <1> QED
    BY <1>3, <1>5 DEF ReaderClose

\* The owner takes a chunk, which waits, is taken or is refused, or the end.
LEMMA TakeWriteIs ==
  ASSUME own \in Owners, WriterTypes, TakeWrite
  PROVE  \E msg \in ChunkSet \cup {Eof} :
           /\ toOwner # << >> /\ msg = Head(toOwner) /\ toOwner' = Tail(toOwner)
           /\ own' \in Owners
           /\ own'.wOpen = own.wOpen /\ own'.rOpen = own.rOpen /\ own'.ended = own.ended
           /\ own'.copies = own.copies /\ own'.entries = own.entries /\ own'.toReader = own.toReader
           /\ \/ /\ msg = Eof /\ own'.slot = own.slot /\ own'.inbound = own.inbound
                 /\ own'.toWriter = Append(own.toWriter, "shutdown")
                 /\ own'.eof = (own.eof \/ own.slot = NoChunk)
              \/ /\ msg \in ChunkSet /\ ~own.wOpen /\ own'.eof = own.eof
                 /\ own'.slot = own.slot /\ own'.inbound = own.inbound
                 /\ own'.toWriter = Append(own.toWriter, BadHandle)
              \/ /\ msg \in ChunkSet /\ own.wOpen /\ own'.eof = own.eof
                 /\ \/ (~own.rOpen \/ own.eof) /\ Refused(own, own')
                    \/ own.rOpen /\ ~own.eof /\ Accepted(own, msg, own')
                    \/ own.rOpen /\ Waits(own, msg, own')
           /\ UNCHANGED <<writes, made, answers, writeEnded, shutdown, wClosing, channel, reader>>
  <1>1. toOwner # << >> /\ toOwner \in Seq(ChunkSet \cup {Eof})
    BY DEF TakeWrite, WriterTypes
  <1>2. PICK msg \in ChunkSet \cup {Eof} : msg = Head(toOwner)
    BY <1>1
  <1>3. own' = IF msg = Eof /\ own.slot = NoChunk
               THEN Reply([own EXCEPT !.eof = TRUE, !.due = TRUE], "shutdown")
               ELSE IF msg = Eof THEN Reply(own, "shutdown")
               ELSE IF ~own.wOpen THEN Reply(own, BadHandle)
               ELSE Attempt(own, msg)
    BY <1>2 DEF TakeWrite
  <1>4. toOwner' = Tail(toOwner)
        /\ UNCHANGED <<writes, made, answers, writeEnded, shutdown, wClosing, channel, reader>>
    BY DEF TakeWrite
  <1>5. /\ Append(own.toWriter, "shutdown") \in Seq(Replies)
        /\ Append(own.toWriter, BadHandle) \in Seq(Replies)
    <2>1. "shutdown" \in Replies /\ BadHandle \in Replies /\ own.toWriter \in Seq(Replies)
      BY DEF Replies, Owners
    <2> QED
      BY <2>1, AppendProperties
  <1>6. CASE msg = Eof /\ own.slot = NoChunk
    <2>1. own' = [own EXCEPT !.eof = TRUE, !.due = TRUE, !.toWriter = Append(@, "shutdown")]
      BY <1>3, <1>6 DEF Reply, Owners
    <2>2. own' \in Owners /\ own'.wOpen = own.wOpen /\ own'.rOpen = own.rOpen
          /\ own'.ended = own.ended /\ own'.copies = own.copies /\ own'.entries = own.entries
          /\ own'.toReader = own.toReader /\ own'.slot = own.slot /\ own'.inbound = own.inbound
          /\ own'.toWriter = Append(own.toWriter, "shutdown") /\ own'.eof = TRUE
      BY <1>5, <2>1 DEF Owners
    <2> QED
      BY <1>1, <1>2, <1>4, <1>6, <2>2
  <1>7. CASE msg = Eof /\ own.slot # NoChunk
    <2>1. own' = [own EXCEPT !.toWriter = Append(@, "shutdown")]
      BY <1>3, <1>7 DEF Reply
    <2>2. own' \in Owners /\ own'.wOpen = own.wOpen /\ own'.rOpen = own.rOpen
          /\ own'.ended = own.ended /\ own'.copies = own.copies /\ own'.entries = own.entries
          /\ own'.toReader = own.toReader /\ own'.slot = own.slot /\ own'.inbound = own.inbound
          /\ own'.toWriter = Append(own.toWriter, "shutdown")
          /\ own'.eof = (own.eof \/ own.slot = NoChunk)
      BY <1>5, <1>7, <2>1 DEF Owners
    <2> QED
      BY <1>1, <1>2, <1>4, <1>7, <2>2
  <1>8. CASE msg \in ChunkSet /\ ~own.wOpen
    <2>1. own' = [own EXCEPT !.toWriter = Append(@, BadHandle)]
      BY <1>3, <1>8, ChunkIs DEF Reply
    <2>2. own' \in Owners /\ own'.wOpen = own.wOpen /\ own'.rOpen = own.rOpen
          /\ own'.ended = own.ended /\ own'.copies = own.copies /\ own'.entries = own.entries
          /\ own'.toReader = own.toReader /\ own'.slot = own.slot /\ own'.inbound = own.inbound
          /\ own'.toWriter = Append(own.toWriter, BadHandle) /\ own'.eof = own.eof
      BY <1>5, <2>1 DEF Owners
    <2> QED
      BY <1>1, <1>2, <1>4, <1>8, <2>2
  <1>9. CASE msg \in ChunkSet /\ own.wOpen
    <2>1. own' = Attempt(own, msg)
      BY <1>3, <1>9, ChunkIs
    <2>2. /\ own' \in Owners /\ Untouched(own, own')
          /\ \/ (~own.rOpen \/ own.eof) /\ Refused(own, own')
             \/ own.rOpen /\ ~own.eof /\ Accepted(own, msg, own')
             \/ own.rOpen /\ Waits(own, msg, own')
      BY <1>9, <2>1, AttemptIs
    <2> QED
      BY <1>1, <1>2, <1>4, <1>9, <2>2 DEF Untouched
  <1> QED
    BY <1>6, <1>7, <1>8, <1>9 DEF Owners

\* A write's queue when its head goes on, and what is answered.
LEMMA TakeAnswerTypes ==
  ASSUME StreamTypes, TakeAnswer
  PROVE  /\ StreamTypes' /\ own'.wOpen = own.wOpen /\ own'.rOpen = own.rOpen /\ own'.eof = own.eof
         /\ own'.toWriter = Tail(own.toWriter) /\ own'.toReader = own.toReader
         /\ own'.ended = own.ended /\ own'.slot = own.slot /\ own'.inbound = own.inbound
         /\ own'.entries = own.entries
         /\ own'.copies = own.copies - Copies(IF wClosing THEN writes ELSE <<Head(writes)>>)
  <1>1. PICK held : held = Copies(IF wClosing THEN writes ELSE <<Head(writes)>>)
    OBVIOUS
  <1>2. /\ writes \in Seq(WriteSet) /\ writes # << >> /\ made \in Seq(MadeSet)
        /\ answers \in Seq(Seq(Replies)) /\ toOwner \in Seq(ChunkSet \cup {Eof})
        /\ own.toWriter \in Seq(Replies) /\ own.toWriter # << >> /\ own \in Owners
    BY DEF TakeAnswer, StreamTypes, WriterTypes, Owners
  <1>3. held \in Nat
    <2>1. <<Head(writes)>> \in Seq(WriteSet)
      BY <1>2, HeadFirst
    <2>2. CopiesOf(made, writes) \in Nat /\ CopiesOf(made, <<Head(writes)>>) \in Nat
      BY <1>2, <2>1, CopiesJoin
    <2> QED
      BY <1>1, <2>2, CopiesIs
  <1>4. own' = [own EXCEPT !.toWriter = Tail(@), !.copies = @ - held]
    BY <1>1 DEF TakeAnswer
  <1>5. Tail(own.toWriter) \in Seq(Replies) /\ own.copies - held \in Int
    BY <1>2, <1>3 DEF Owners
  <1>6. /\ own' \in Owners /\ own'.wOpen = own.wOpen /\ own'.rOpen = own.rOpen /\ own'.eof = own.eof
        /\ own'.toWriter = Tail(own.toWriter) /\ own'.toReader = own.toReader
        /\ own'.ended = own.ended /\ own'.slot = own.slot /\ own'.inbound = own.inbound
        /\ own'.entries = own.entries /\ own'.copies = own.copies - held
    BY <1>2, <1>4, <1>5 DEF Owners
  <1>7. PICK w, rest, status : w = Head(writes) /\ rest = Tail(writes) /\ status = Head(own.toWriter)
    OBVIOUS
  <1>8. /\ w \in WriteSet /\ rest \in Seq(WriteSet) /\ status \in Replies /\ w = writes[1]
        /\ Len(rest) = Len(writes) - 1 /\ Len(writes) \in Nat \ {0}
        /\ \A i \in 1 .. Len(writes) - 1 : rest[i] = writes[i + 1]
    BY <1>2, <1>7
  <1>9. \A k \in 1 .. Len(writes) : writes[k].id \in 1 .. Len(made)
    BY DEF StreamTypes, WriterTypes
  <1>10. UNCHANGED <<made, writeEnded, wClosing, channel, reader>>
    BY DEF TakeAnswer
  <1> DEFINE more == status = OK /\ w.sent + 1 < made[w.id].size
             over == IF wClosing THEN writes ELSE <<w>>
             next == [w EXCEPT !.sent = @ + 1]
  <1>11. CASE more /\ ~wClosing
    <2>1. writes' = <<next>> \o rest /\ toOwner' = Append(toOwner, ChunkOf(next))
          /\ UNCHANGED <<answers, shutdown>>
      BY <1>7, <1>11 DEF TakeAnswer
    <2>2. next \in WriteSet /\ next.id = w.id
      BY <1>8 DEF WriteSet
    <2>3. toOwner' \in Seq(ChunkSet \cup {Eof})
      BY <1>2, <2>1, <2>2, ChunkOfIs
    <2> HIDE DEF next
    <2>4. writes' \in Seq(WriteSet) /\ Len(writes') = Len(writes)
          /\ writes'[1] = next /\ \A k \in 1 .. Len(rest) : writes'[k + 1] = rest[k]
      BY <1>8, <2>1, <2>2
    <2>5. ASSUME NEW k \in 1 .. Len(writes) PROVE writes'[k].id \in 1 .. Len(made)
      <3>1. CASE k = 1
        BY <1>8, <1>9, <2>2, <2>4, <3>1
      <3>2. CASE k # 1
        <4>a. k - 1 \in 1 .. Len(rest) /\ k = (k - 1) + 1
          BY <1>8, <3>2
        <4>1. PICK j \in 1 .. Len(rest) : k = j + 1
          BY <4>a
        <4> QED
          BY <1>8, <1>9, <2>4, <4>1
      <3> QED
        BY <3>1, <3>2
    <2>6. WriterTypes'
      BY <1>10, <2>1, <2>3, <2>4, <2>5 DEF StreamTypes, WriterTypes
    <2> QED
      BY <1>1, <1>6, <1>10, <2>6, ReaderSame DEF StreamTypes
  <1>12. CASE ~(more /\ ~wClosing)
    <2>1. /\ answers' = [i \in DOMAIN answers |->
                IF i = w.id THEN Append(answers[i], IF more THEN Canceled ELSE status)
                ELSE IF \E j \in DOMAIN over : over[j].id = i THEN Append(answers[i], Canceled)
                ELSE answers[i]]
          /\ IF over = writes \/ rest = <<>> THEN Emptied
             ELSE /\ writes' = rest
                  /\ toOwner' = Append(toOwner, ChunkOf(Head(rest)))
                  /\ UNCHANGED shutdown
      BY <1>7, <1>12 DEF TakeAnswer
    <2>2. DOMAIN answers = 1 .. Len(answers) /\ Len(answers) \in Nat
      BY <1>2
    <2>3. \A i \in 1 .. Len(answers) : /\ Append(answers[i], Canceled) \in Seq(Replies)
                                       /\ Append(answers[i], status) \in Seq(Replies)
                                       /\ answers[i] \in Seq(Replies)
      <3>1. Canceled \in Replies
        BY DEF Replies
      <3> QED
        BY <1>2, <1>8, <3>1, OneAnswer
    <2>4. answers' \in [1 .. Len(answers) -> Seq(Replies)]
      <3> HIDE DEF more, over
      <3> QED
        BY <2>1, <2>2, <2>3
    <2>5. answers' \in Seq(Seq(Replies))
      BY <2>2, <2>4, FunSeq
    <2>6. CASE over = writes \/ rest = << >>
      <3>1. writes' = << >> /\ shutdown' \in {"none", "pending", "posted", "done", "lost"}
            /\ (toOwner' = toOwner \/ toOwner' = Append(toOwner, Eof))
        BY <2>1, <2>6 DEF Emptied, StreamTypes, WriterTypes
      <3>2. toOwner' \in Seq(ChunkSet \cup {Eof})
        <4>1. Append(toOwner, Eof) \in Seq(ChunkSet \cup {Eof})
          BY <1>2, AppendProperties
        <4> QED
          BY <1>2, <3>1, <4>1
      <3>4. writes' \in Seq(WriteSet) /\ Len(writes') = 0
        BY <3>1
      <3>3. WriterTypes'
        BY <1>10, <2>5, <3>1, <3>2, <3>4 DEF StreamTypes, WriterTypes
      <3> QED
        BY <1>1, <1>6, <1>10, <3>3, ReaderSame DEF StreamTypes
    <2>7. CASE ~(over = writes \/ rest = << >>)
      <3>1. writes' = rest /\ toOwner' = Append(toOwner, ChunkOf(Head(rest))) /\ UNCHANGED shutdown
        BY <2>1, <2>7
      <3>2. Head(rest) \in WriteSet
        BY <1>8, <2>7
      <3>3. toOwner' \in Seq(ChunkSet \cup {Eof})
        BY <1>2, <3>1, <3>2, ChunkOfIs
      <3>4. \A k \in 1 .. Len(writes') : writes'[k].id \in 1 .. Len(made)
        <4>1. \A k \in 1 .. Len(rest) : rest[k] = writes[k + 1] /\ k + 1 \in 1 .. Len(writes)
          BY <1>8
        <4> QED
          BY <1>9, <3>1, <4>1
      <3>5. WriterTypes'
        BY <1>8, <1>10, <2>5, <3>1, <3>3, <3>4 DEF StreamTypes, WriterTypes
      <3> QED
        BY <1>1, <1>6, <1>10, <3>5, ReaderSame DEF StreamTypes
    <2> QED
      BY <2>6, <2>7
  <1> QED
    BY <1>11, <1>12

\* A write made, with its number; its descriptor is the owner's as long as it is queued.
LEMMA WriteIs ==
  ASSUME StreamTypes, NEW size \in Sizes, NEW carries \in BOOLEAN, Write(size, carries)
  PROVE  /\ ~wClosing /\ ~writeEnded /\ UNCHANGED <<writeEnded, shutdown, wClosing, channel, reader>>
         /\ made' = Append(made, [size |-> size, carries |-> carries])
         /\ [size |-> size, carries |-> carries] \in MadeSet
         /\ made' \in Seq(MadeSet) /\ Len(made') = Len(made) + 1 /\ Len(made) \in Nat
         /\ \A i \in 1 .. Len(made) : made'[i] = made[i]
         /\ made'[Len(made) + 1] = [size |-> size, carries |-> carries]
         /\ (size = 1 /\ ~carries /\ WriteNow) \/ WriteQueued(carries)
  <1>1. made \in Seq(MadeSet)
    BY DEF StreamTypes, WriterTypes
  <1>2. [size |-> size, carries |-> carries] \in MadeSet
    BY StreamAssumption DEF MadeSet
  <1>3. made' = Append(made, [size |-> size, carries |-> carries])
    BY DEF Write
  <1>4. /\ made' \in Seq(MadeSet) /\ Len(made') = Len(made) + 1 /\ Len(made) \in Nat
        /\ \A i \in 1 .. Len(made) : made'[i] = made[i]
        /\ made'[Len(made) + 1] = [size |-> size, carries |-> carries]
    BY <1>1, <1>2, <1>3, AppendIs
  <1> QED
    BY <1>2, <1>3, <1>4 DEF Write

LEMMA WriteNowIs ==
  ASSUME own \in Owners, WriteNow, NEW size, NEW n \in Nat, Len(made') = n + 1, made'[n + 1] = [size |-> size, carries |-> FALSE]
  PROVE  LET chunk == [write |-> n + 1, part |-> 1, handle |-> FALSE]
         IN  /\ chunk \in ChunkSet /\ writes = << >> /\ toOwner = << >> /\ own.slot = NoChunk
             /\ \/ /\ ~own.rOpen \/ channel # "open"
                   /\ answers' = Append(answers, <<Pipe>>) /\ UNCHANGED own
                \/ /\ own.rOpen /\ channel = "open" /\ answers' = Append(answers, <<OK>>)
                   /\ own' \in Owners /\ Untouched(own, own') /\ own'.slot = own.slot
                   /\ own'.toWriter = own.toWriter /\ own'.inbound = Append(own.inbound, chunk)
             /\ UNCHANGED <<writes, toOwner>>
  <1> DEFINE chunk == [write |-> n + 1, part |-> 1, handle |-> FALSE]
  <1>1. chunk \in ChunkSet
    BY DEF ChunkSet
  <1>2. ChunkOf([id |-> Len(made'), sent |-> 0]) = chunk
    <2>1. PICK w : w = [id |-> Len(made'), sent |-> 0]
      OBVIOUS
    <2>2. PICK h : h = (made'[w.id].carries /\ w.sent = 0)
      OBVIOUS
    <2>a. w.id = n + 1 /\ w.sent = 0 /\ w.sent + 1 = 1 /\ made'[n + 1].carries = FALSE
      BY <2>1
    <2>3. w.id = n + 1 /\ w.sent + 1 = 1 /\ h = FALSE
      BY <2>a, <2>2, Zenon
    <2>4. ChunkOf(w) = [write |-> w.id, part |-> w.sent + 1, handle |-> h]
      BY <2>2, Zenon DEF ChunkOf
    <2> QED
      BY <2>1, <2>3, <2>4, Zenon
  <1>a. /\ writes = << >> /\ toOwner = << >> /\ own.slot = NoChunk /\ UNCHANGED <<writes, toOwner>>
        /\ \/ (~own.rOpen \/ channel # "open") /\ answers' = Append(answers, <<Pipe>>) /\ UNCHANGED own
           \/ /\ own.rOpen /\ channel = "open"
              /\ own' = Enqueue(own, chunk) /\ answers' = Append(answers, <<OK>>)
    BY <1>2 DEF WriteNow
  <1> HIDE DEF chunk
  <1>3. CASE (~own.rOpen \/ channel # "open") /\ answers' = Append(answers, <<Pipe>>) /\ UNCHANGED own
    BY <1>1, <1>a, <1>3 DEF chunk
  <1>4. CASE /\ own.rOpen /\ channel = "open"
             /\ own' = Enqueue(own, chunk) /\ answers' = Append(answers, <<OK>>)
    <2>1. Append(own.inbound, chunk) \in Seq(ChunkSet)
      BY <1>1, AppendProperties DEF Owners
    <2>2. /\ own' \in Owners /\ Untouched(own, own') /\ own'.slot = own.slot
          /\ own'.toWriter = own.toWriter /\ own'.inbound = Append(own.inbound, chunk)
      BY <1>4, <2>1 DEF Enqueue, Owners, Untouched
    <2> QED
      BY <1>1, <1>a, <1>4, <2>2 DEF chunk
  <1> QED
    BY <1>a, <1>3, <1>4

LEMMA WriteQueuedIs ==
  ASSUME own \in Owners, NEW carries \in BOOLEAN, WriteQueued(carries), NEW n \in Nat, Len(made') = n + 1
  PROVE  LET w == [id |-> n + 1, sent |-> 0]
         IN  /\ carries => channel = "open"
             /\ w \in WriteSet /\ writes' = Append(writes, w) /\ answers' = Append(answers, << >>)
             /\ toOwner' = IF writes = << >> /\ channel = "open" THEN Append(toOwner, ChunkOf(w)) ELSE toOwner
             /\ own' \in Owners /\ own'.wOpen = own.wOpen /\ own'.rOpen = own.rOpen /\ own'.eof = own.eof
             /\ own'.copies = own.copies + (IF carries THEN 1 ELSE 0)
             /\ own'.ended = own.ended /\ own'.slot = own.slot /\ own'.inbound = own.inbound
             /\ own'.entries = own.entries /\ own'.toWriter = own.toWriter
             /\ own'.toReader = own.toReader
  <1> DEFINE w == [id |-> n + 1, sent |-> 0]
  <1>1. w \in WriteSet
    BY DEF WriteSet
  <1>2. /\ writes' = Append(writes, w) /\ answers' = Append(answers, << >>)
        /\ toOwner' = IF writes = << >> /\ channel = "open" THEN Append(toOwner, ChunkOf(w)) ELSE toOwner
        /\ own' = IF carries THEN [own EXCEPT !.copies = @ + 1] ELSE own
        /\ carries => channel = "open"
    BY DEF WriteQueued
  <1>3. /\ own' \in Owners /\ own'.wOpen = own.wOpen /\ own'.rOpen = own.rOpen /\ own'.eof = own.eof
        /\ own'.copies = own.copies + (IF carries THEN 1 ELSE 0)
        /\ own'.ended = own.ended /\ own'.slot = own.slot /\ own'.inbound = own.inbound
        /\ own'.entries = own.entries /\ own'.toWriter = own.toWriter
        /\ own'.toReader = own.toReader
    <2>1. CASE carries
      <3>1. own' = [own EXCEPT !.copies = own.copies + 1] /\ (IF carries THEN 1 ELSE 0) = 1
        BY <1>2, <2>1
      <3>2. own.copies + 1 \in Int
        BY DEF Owners
      <3> QED
        BY <3>1, <3>2 DEF Owners
    <2>2. CASE ~carries
      <3>1. own' = own /\ (IF carries THEN 1 ELSE 0) = 0 /\ own.copies \in Int
        BY <1>2, <2>2 DEF Owners
      <3> QED
        BY <3>1
    <2> QED
      BY <2>1, <2>2
  <1> QED
    BY <1>1, <1>2, <1>3

LEMMA WriteTypes ==
  ASSUME StreamTypes, NEW size \in Sizes, NEW carries \in BOOLEAN, Write(size, carries)
  PROVE  StreamTypes'
  <1>1. /\ UNCHANGED <<writeEnded, shutdown, wClosing, channel, reader>>
        /\ made' \in Seq(MadeSet) /\ Len(made') = Len(made) + 1 /\ Len(made) \in Nat
        /\ made'[Len(made) + 1] = [size |-> size, carries |-> carries]
        /\ (size = 1 /\ ~carries /\ WriteNow) \/ WriteQueued(carries)
    BY WriteIs
  <1>2. /\ writes \in Seq(WriteSet) /\ answers \in Seq(Seq(Replies)) /\ own \in Owners
        /\ toOwner \in Seq(ChunkSet \cup {Eof})
        /\ \A k \in 1 .. Len(writes) : writes[k].id \in 1 .. Len(made)
    BY DEF StreamTypes, WriterTypes
  <1>3. <<Pipe>> \in Seq(Replies) /\ <<OK>> \in Seq(Replies) /\ << >> \in Seq(Replies)
    <2>1. Pipe \in Replies /\ OK \in Replies
      BY DEF Replies
    <2> QED
      BY <2>1
  <1>4. /\ Append(answers, <<Pipe>>) \in Seq(Seq(Replies)) /\ Append(answers, <<OK>>) \in Seq(Seq(Replies))
        /\ Append(answers, << >>) \in Seq(Seq(Replies))
    BY <1>2, <1>3, AppendProperties
  <1>5. CASE size = 1 /\ ~carries /\ WriteNow
    <2>1. made'[Len(made) + 1] = [size |-> size, carries |-> FALSE]
      BY <1>1, <1>5
    <2>2. /\ own' \in Owners /\ UNCHANGED <<writes, toOwner>>
          /\ answers' = Append(answers, <<Pipe>>) \/ answers' = Append(answers, <<OK>>)
      BY <1>1, <1>2, <1>5, <2>1, WriteNowIs
    <2>4. \A k \in 1 .. Len(writes') : writes'[k].id \in 1 .. Len(made')
      BY <1>1, <1>2, <2>2
    <2>3. WriterTypes'
      BY <1>1, <1>2, <1>4, <2>2, <2>4 DEF StreamTypes, WriterTypes
    <2> QED
      BY <1>1, <2>2, <2>3, ReaderSame DEF StreamTypes
  <1>6. CASE WriteQueued(carries)
    <2>1. PICK w : w = [id |-> Len(made) + 1, sent |-> 0]
      OBVIOUS
    <2>2. /\ w \in WriteSet /\ writes' = Append(writes, w) /\ answers' = Append(answers, << >>)
          /\ toOwner' = IF writes = << >> /\ channel = "open" THEN Append(toOwner, ChunkOf(w)) ELSE toOwner
          /\ own' \in Owners
      BY <1>1, <1>2, <1>6, <2>1, WriteQueuedIs
    <2>3. toOwner' \in Seq(ChunkSet \cup {Eof})
      BY <1>2, <2>2, ChunkOfIs
    <2>4. writes' \in Seq(WriteSet) /\ Len(writes') = Len(writes) + 1 /\ Len(writes) \in Nat
          /\ writes'[Len(writes) + 1] = w /\ \A k \in 1 .. Len(writes) : writes'[k] = writes[k]
      BY <1>2, <2>2, AppendIs
    <2>5. ASSUME NEW k \in 1 .. Len(writes') PROVE writes'[k].id \in 1 .. Len(made')
      <3>1. CASE k \in 1 .. Len(writes)
        <4>1. writes[k].id \in 1 .. Len(made)
          BY <1>2, <3>1
        <4> QED
          BY <1>1, <2>4, <3>1, <4>1
      <3>2. CASE k = Len(writes) + 1
        BY <1>1, <2>1, <2>4, <3>2
      <3> QED
        BY <2>4, <3>1, <3>2
    <2>6. WriterTypes'
      BY <1>1, <1>4, <2>2, <2>3, <2>4, <2>5 DEF StreamTypes, WriterTypes
    <2> QED
      BY <1>1, <2>2, <2>6, ReaderSame DEF StreamTypes
  <1> QED
    BY <1>1, <1>5, <1>6

LEMMA TransportClosedIs ==
  ASSUME own \in Owners, TransportClosed
  PROVE  /\ own' \in Owners /\ channel = "open" /\ channel' = "revoked" /\ toOwner' = << >>
         /\ own'.toWriter = << >> /\ own'.copies = 0
         /\ \E p : p = CloseWriter(own) /\ own'.wOpen = p.wOpen /\ own'.rOpen = p.rOpen
                   /\ own'.eof = p.eof /\ own'.ended = p.ended /\ own'.entries = p.entries
                   /\ own'.toReader = p.toReader /\ own'.slot = p.slot /\ own'.inbound = p.inbound
         /\ UNCHANGED <<writes, made, answers, writeEnded, shutdown, wClosing, reader>>
  <1>1. PICK p : p = CloseWriter(own)
    OBVIOUS
  <1>2. p \in Owners
    BY <1>1, CloseWriterIs
  <1>4. PICK e \in Seq(Replies) : e = << >>
    BY EmptySeq
  <1>a. PICK z \in Int : z = 0
    OBVIOUS
  <1>3. own' = [p EXCEPT !.toWriter = e, !.copies = z]
    BY <1>1, <1>4, <1>a DEF TransportClosed
  <1>5. /\ own' \in Owners /\ own'.toWriter = e /\ own'.copies = z
        /\ own'.wOpen = p.wOpen /\ own'.rOpen = p.rOpen
        /\ own'.eof = p.eof /\ own'.ended = p.ended /\ own'.entries = p.entries
        /\ own'.toReader = p.toReader /\ own'.slot = p.slot /\ own'.inbound = p.inbound
    <2>1. own' \in Owners
      BY <1>2, <1>3 DEF Owners
    <2> QED
      BY <1>2, <1>3, <2>1 DEF Owners
  <1> QED
    BY <1>1, <1>4, <1>a, <1>5 DEF TransportClosed

LEMMA AnsweredTypes ==
  ASSUME answers \in Seq(Seq(Replies)), NEW queue, NEW status \in Replies
  PROVE  Answered(queue, status) \in Seq(Seq(Replies)) /\ Len(Answered(queue, status)) = Len(answers)
  <1>2. DOMAIN answers = 1 .. Len(answers) /\ Len(answers) \in Nat
    OBVIOUS
  <1>3. \A i \in 1 .. Len(answers) : answers[i] \in Seq(Replies) /\ Append(answers[i], status) \in Seq(Replies)
    BY OneAnswer
  <1>4. Answered(queue, status) \in [1 .. Len(answers) -> Seq(Replies)]
    BY <1>2, <1>3 DEF Answered
  <1> QED
    BY <1>2, <1>4, FunSeq

LEMMA WriterEndTypes ==
  ASSUME StreamTypes, TakeShutdown \/ Shutdown \/ Close \/ TransportClosed \/ WriteFails \/ OwnerStopped
  PROVE  StreamTypes'
  <1>1. own \in Owners /\ WriterTypes /\ ReaderTypes
    BY DEF StreamTypes
  <1>2. CASE TakeShutdown
    <2>1. /\ own' = [own EXCEPT !.toWriter = Tail(@)] /\ Tail(own.toWriter) \in Seq(Replies)
          /\ shutdown' = "done" /\ UNCHANGED <<writes, made, answers, writeEnded, wClosing, channel, toOwner, reader>>
      BY <1>1, <1>2 DEF TakeShutdown, Owners
    <2>2. own' \in Owners
      BY <1>1, <2>1 DEF Owners
    <2>3. WriterTypes'
      BY <1>1, <2>1 DEF WriterTypes
    <2> QED
      BY <1>1, <2>1, <2>2, <2>3, ReaderSame DEF StreamTypes
  <1>3. CASE Shutdown
    <2>1. /\ writeEnded' = TRUE /\ shutdown' \in {"posted", "pending", "done"}
          /\ (toOwner' = toOwner \/ toOwner' = Append(toOwner, Eof))
          /\ UNCHANGED <<writes, made, answers, wClosing, channel, own, reader>>
      BY <1>3 DEF Shutdown
    <2>2. toOwner' \in Seq(ChunkSet \cup {Eof})
      <3>1. toOwner \in Seq(ChunkSet \cup {Eof})
        BY <1>1 DEF WriterTypes
      <3>2. Append(toOwner, Eof) \in Seq(ChunkSet \cup {Eof})
        BY <3>1, AppendProperties
      <3> QED
        BY <2>1, <3>1, <3>2
    <2>3. WriterTypes'
      BY <1>1, <2>1, <2>2 DEF WriterTypes
    <2> QED
      BY <1>1, <2>1, <2>3, ReaderSame DEF StreamTypes
  <1>4. CASE Close
    <2>1. (own' = CloseWriter(own) \/ own' = own) /\ wClosing' = TRUE
          /\ (shutdown' = shutdown \/ shutdown' = "lost")
          /\ UNCHANGED <<writes, made, answers, writeEnded, channel, toOwner, reader>>
      BY <1>4 DEF Close
    <2>2. own' \in Owners
      BY <1>1, <2>1, CloseWriterIs
    <2>3. WriterTypes'
      BY <1>1, <2>1 DEF WriterTypes
    <2> QED
      BY <1>1, <2>1, <2>2, <2>3, ReaderSame DEF StreamTypes
  <1>5. CASE TransportClosed
    <2>1. own' \in Owners /\ toOwner' = << >>
          /\ UNCHANGED <<writes, made, answers, writeEnded, shutdown, wClosing, reader>>
      BY <1>1, <1>5, TransportClosedIs
    <2>2. << >> \in Seq(ChunkSet \cup {Eof})
      OBVIOUS
    <2>3. WriterTypes'
      BY <1>1, <2>1, <2>2 DEF WriterTypes
    <2> QED
      BY <1>1, <2>1, <2>3, ReaderSame DEF StreamTypes
  <1>6. CASE WriteFails
    <2>1. PICK status \in {Pipe, Canceled} : answers' = Answered(<<Head(writes)>>, status)
      BY <1>6 DEF WriteFails
    <2>2. /\ writes # << >> /\ writes' = Tail(writes) /\ (shutdown' = "done" \/ shutdown' = shutdown)
          /\ UNCHANGED <<made, writeEnded, wClosing, channel, toOwner, own, reader>>
      BY <1>6 DEF WriteFails
    <2>3. answers' \in Seq(Seq(Replies))
      BY <1>1, <2>1, AnsweredTypes DEF WriterTypes, Replies
    <2>4. /\ writes' \in Seq(WriteSet) /\ Len(writes') = Len(writes) - 1 /\ Len(writes) \in Nat \ {0}
          /\ \A k \in 1 .. Len(writes) - 1 : writes'[k] = writes[k + 1]
      BY <1>1, <2>2, TailIs DEF WriterTypes
    <2>5. ASSUME NEW k \in 1 .. Len(writes') PROVE writes'[k].id \in 1 .. Len(made')
      <3>1. k \in 1 .. Len(writes) - 1 /\ k + 1 \in 1 .. Len(writes)
        BY <2>4
      <3>2. writes[k + 1].id \in 1 .. Len(made)
        BY <1>1, <3>1 DEF WriterTypes
      <3> QED
        BY <2>2, <2>4, <3>1, <3>2
    <2>6. WriterTypes'
      BY <1>1, <2>2, <2>3, <2>4, <2>5 DEF WriterTypes
    <2> QED
      BY <1>1, <2>2, <2>6, ReaderSame DEF StreamTypes
  <1>7. CASE OwnerStopped
    <2>2. /\ wClosing' = TRUE /\ writes' = << >> /\ answers' = Answered(writes, Canceled)
          /\ (shutdown' = "done" \/ shutdown' = shutdown)
          /\ UNCHANGED <<made, writeEnded, toOwner, own, reader>>
      BY <1>7 DEF OwnerStopped
    <2>3. answers' \in Seq(Seq(Replies))
      BY <1>1, <2>2, AnsweredTypes DEF WriterTypes, Replies
    <2>4. writes' \in Seq(WriteSet) /\ Len(writes') = 0
      BY <2>2
    <2>5. WriterTypes'
      BY <1>1, <2>2, <2>3, <2>4 DEF WriterTypes
    <2> QED
      BY <1>1, <2>2, <2>5, ReaderSame DEF StreamTypes
  <1> QED
    BY <1>2, <1>3, <1>4, <1>5, <1>6, <1>7

LEMMA ReadTypes ==
  ASSUME StreamTypes, ReadStart \/ ReadStop \/ ReaderTurn \/ ReceiveEvent \/ ReaderClose
  PROVE  StreamTypes'
  <1>1. own \in Owners /\ WriterTypes /\ ReaderTypes
    BY DEF StreamTypes
  <1>2. CASE ReadStart \/ ReadStop \/ ReaderTurn
    <2>1. UNCHANGED <<writer, rClosing, ended>>
      BY <1>1, <1>2, ReadsAre
    <2>2. CASE Quiet
      BY <1>1, <2>1, <2>2, WriterSame DEF Quiet, StreamTypes, ReaderTypes
    <2>3. ASSUME NEW given, NEW rest, Delivered(given, rest) PROVE StreamTypes'
      <3>1. Carried(given) \in Nat
        BY <2>3, CarriedJoin DEF Delivered
      <3>2. /\ inbound' \in Seq(ChunkSet) /\ taken' \in Seq(ChunkSet) /\ adopted' \in Nat
            /\ told' \in BOOLEAN /\ own' \in Owners
        BY <1>1, <2>3, <3>1, ConcatProperties DEF Delivered, ReaderTypes
      <3> QED
        BY <1>1, <2>1, <3>2, WriterSame DEF StreamTypes, ReaderTypes
    <2> QED
      BY <1>1, <1>2, <2>2, <2>3, ReadsAre
  <1>3. CASE ReceiveEvent
    <2>1. /\ own' \in Owners /\ UNCHANGED <<writer, rClosing, taken, told, adopted>>
          /\ \/ inbound' = << >> \/ inbound' = inbound
             \/ \E event \in ChunkSet : inbound' = Append(inbound, event)
          /\ ended' = ended \/ ended' = TRUE
      BY <1>1, <1>3, ReceiveIs
    <2>2. inbound' \in Seq(ChunkSet)
      <3>1. inbound \in Seq(ChunkSet) /\ << >> \in Seq(ChunkSet)
        BY <1>1 DEF ReaderTypes
      <3>2. \A event \in ChunkSet : Append(inbound, event) \in Seq(ChunkSet)
        BY <3>1, AppendProperties
      <3> QED
        BY <2>1, <3>1, <3>2
    <2> QED
      BY <1>1, <2>1, <2>2, WriterSame DEF StreamTypes, ReaderTypes
  <1>4. CASE ReaderClose
    <2>1. own' \in Owners /\ rClosing' = TRUE /\ UNCHANGED <<writer, inbound, taken, adopted, told, ended>>
      BY <1>1, <1>4, ReaderCloseIs DEF ReaderClose
    <2> QED
      BY <1>1, <2>1, WriterSame DEF StreamTypes, ReaderTypes
  <1> QED
    BY <1>2, <1>3, <1>4

LEMMA OwnerTypes ==
  ASSUME StreamTypes, OwnerTurn \/ TakeWrite \/ TakeGrant
  PROVE  StreamTypes'
  <1>1. own \in Owners /\ WriterTypes /\ ReaderTypes
    BY DEF StreamTypes
  <1>2. CASE OwnerTurn
    BY <1>1, <1>2, OwnerTurnIs, WriterSame, ReaderSame DEF StreamTypes
  <1>3. CASE TakeGrant
    <2>1. own' \in Owners /\ UNCHANGED <<writer, inbound, taken, adopted, rClosing, ended, told>>
      BY <1>1, <1>3, TakeGrantIs
    <2> QED
      BY <1>1, <2>1, WriterSame DEF StreamTypes, ReaderTypes
  <1>4. CASE TakeWrite
    <2>1. /\ own' \in Owners /\ toOwner # << >> /\ toOwner' = Tail(toOwner)
          /\ UNCHANGED <<writes, made, answers, writeEnded, shutdown, wClosing, channel, reader>>
      BY <1>1, <1>4, TakeWriteIs
    <2>2. toOwner' \in Seq(ChunkSet \cup {Eof})
      BY <1>1, <2>1, HeadFirst DEF WriterTypes
    <2>3. WriterTypes'
      BY <1>1, <2>1, <2>2 DEF WriterTypes
    <2> QED
      BY <1>1, <2>1, <2>3, ReaderSame DEF StreamTypes
  <1> QED
    BY <1>2, <1>3, <1>4

LEMMA TypesStart == ASSUME StreamInit PROVE StreamTypes
  <1>1. /\ << >> \in Seq(WriteSet) /\ << >> \in Seq(MadeSet) /\ << >> \in Seq(Seq(Replies))
        /\ << >> \in Seq(ChunkSet \cup {Eof}) /\ << >> \in Seq(ChunkSet) /\ << >> \in Seq(Replies)
        /\ << >> \in Seq(ChunkSet \cup {Eof, Closed}) /\ Len(<< >>) = 0
    OBVIOUS
  <1>2. own \in Owners
    BY <1>1 DEF StreamInit, Owners
  <1>3. WriterTypes
    <2>1. writes = << >> /\ Len(writes) = 0
      BY DEF StreamInit
    <2>2. \A k \in 1 .. Len(writes) : writes[k].id \in 1 .. Len(made)
      BY <2>1
    <2> QED
      BY <1>1, <2>2 DEF StreamInit, WriterTypes
  <1>4. ReaderTypes
    BY <1>1 DEF StreamInit, ReaderTypes
  <1> QED
    BY <1>2, <1>3, <1>4 DEF StreamTypes

LEMMA TypesStep == ASSUME StreamTypes, StreamNext PROVE StreamTypes'
  BY TakeAnswerTypes, WriteTypes, WriterEndTypes, ReadTypes, OwnerTypes DEF StreamNext, Steps

----------------------------------------------------------------------------
(* Descriptors                                                              *)

CopiesKept == own.copies = IF channel # "open" THEN 0 ELSE Copies(writes)
EntriesKept == own.entries = Carried(own.toReader) + Carried(inbound) + adopted

LEMMA CopiesStable ==
  ASSUME NEW all, NEW more, NEW queue \in Seq(WriteSet),
         \A k \in 1 .. Len(queue) : more[queue[k].id] = all[queue[k].id]
  PROVE  CopiesOf(more, queue) = CopiesOf(all, queue)
  <1>1. DOMAIN queue = 1 .. Len(queue)
    OBVIOUS
  <1>2. {k \in DOMAIN queue : more[queue[k].id].carries /\ queue[k].sent = 0}
          = {k \in DOMAIN queue : all[queue[k].id].carries /\ queue[k].sent = 0}
    BY <1>1
  <1> QED
    BY <1>2 DEF CopiesOf

LEMMA CopiesNext == (Copies(writes))' = CopiesOf(made', writes')
  BY DEF Copies, CopiesOf, HoldsCopy

LEMMA CopiesSame ==
  ASSUME CopiesKept, own'.copies = own.copies,
         UNCHANGED <<writes, made, channel>> \/ (channel # "open" /\ channel' # "open")
  PROVE  CopiesKept'
  <1>1. UNCHANGED <<writes, made>> => (Copies(writes))' = Copies(writes)
    BY CopiesNext, CopiesIs
  <1> QED
    BY <1>1 DEF CopiesKept

LEMMA CarriedOne ==
  ASSUME NEW M, NEW s \in Seq(M), NEW x \in M
  PROVE  /\ Carried(Append(s, x)) = Carried(s) + (IF x.part > 0 /\ x.handle THEN 1 ELSE 0)
         /\ Carried(s) \in Nat
  <1>1. Append(s, x) = s \o <<x>> /\ <<x>> \in Seq(M)
    BY AppendIs
  <1>2. Carried(s \o <<x>>) = Carried(s) + Carried(<<x>>) /\ Carried(s) \in Nat
    BY <1>1, CarriedJoin
  <1> QED
    BY <1>1, <1>2, CountOne

LEMMA CarriedFirst ==
  ASSUME NEW M, NEW s \in Seq(M), s # << >>
  PROVE  /\ Carried(s) = Carried(<<Head(s)>>) + Carried(Tail(s))
         /\ Carried(Tail(s)) \in Nat /\ Carried(<<Head(s)>>) \in Nat
  <1>1. s = <<Head(s)>> \o Tail(s) /\ Tail(s) \in Seq(M) /\ <<Head(s)>> \in Seq(M)
    BY HeadFirst
  <1> QED
    BY <1>1, CarriedJoin

\* What is published is in the scope's table.
LEMMA PublishedEntries ==
  ASSUME NEW o \in Owners, NEW p \in Owners, Published(o, p)
  PROVE  p.entries - Carried(p.toReader) = o.entries - Carried(o.toReader)
  <1>1. o.toReader \in Seq(ChunkSet \cup {Eof, Closed}) /\ o.entries \in Int /\ o.inbound \in Seq(ChunkSet)
    BY DEF Owners
  <1>2. CASE p.toReader = o.toReader /\ p.entries = o.entries
    BY <1>2
  <1>3. CASE \E q \in Owners : OneRead(o, q) /\ p.toReader = q.toReader /\ p.entries = q.entries
    <2>1. PICK c \in ChunkSet :
            /\ p.toReader = Append(o.toReader, c)
            /\ p.entries = o.entries + (IF c.handle THEN 1 ELSE 0)
      BY <1>1, <1>3, HeadFirst DEF OneRead
    <2>2. c.part > 0 /\ c.handle \in BOOLEAN
      BY ChunkIs
    <2>3. /\ Carried(p.toReader) = Carried(o.toReader) + (IF c.handle THEN 1 ELSE 0)
          /\ Carried(o.toReader) \in Nat
      BY <1>1, <2>1, <2>2, CarriedOne
    <2> QED
      BY <1>1, <2>1, <2>3
  <1>4. CASE p.toReader = Append(o.toReader, Eof) /\ p.entries = o.entries
    <2>1. /\ Carried(p.toReader) = Carried(o.toReader) + (IF Eof.part > 0 /\ Eof.handle THEN 1 ELSE 0)
          /\ Carried(o.toReader) \in Nat
      BY <1>1, <1>4, CarriedOne
    <2> QED
      BY <1>1, <1>4, <2>1, EndIs
  <1> QED
    BY <1>2, <1>3, <1>4 DEF Published

LEMMA EntriesPublished ==
  ASSUME StreamTypes, StreamTypes', EntriesKept, Published(own, own'), UNCHANGED <<inbound, adopted>>
  PROVE  EntriesKept'
  <1>1. /\ own \in Owners /\ own' \in Owners /\ adopted \in Nat /\ inbound \in Seq(ChunkSet)
        /\ own.entries \in Int /\ own'.entries \in Int
        /\ own.toReader \in Seq(ChunkSet \cup {Eof, Closed}) /\ own'.toReader \in Seq(ChunkSet \cup {Eof, Closed})
    BY DEF StreamTypes, ReaderTypes, Owners
  <1>2. Carried(own.toReader) \in Nat /\ Carried(own'.toReader) \in Nat /\ Carried(inbound) \in Nat
    BY <1>1, CarriedJoin
  <1>3. own'.entries - Carried(own'.toReader) = own.entries - Carried(own.toReader)
    BY <1>1, PublishedEntries
  <1>4. own.entries = Carried(own.toReader) + Carried(inbound) + adopted
    BY DEF EntriesKept
  <1>5. own'.entries = Carried(own'.toReader) + Carried(inbound) + adopted
    <2>1. PICK a \in Int, b \in Int, c \in Int, d \in Int, i \in Int, k \in Int :
            /\ a = own.entries /\ b = Carried(own.toReader) /\ c = own'.entries
            /\ d = Carried(own'.toReader) /\ i = Carried(inbound) /\ k = adopted
      BY <1>1, <1>2
    <2>2. c - d = a - b /\ a = b + i + k
      BY <1>3, <1>4, <2>1
    <2>3. c = d + i + k
      BY <2>2
    <2> QED
      BY <2>1, <2>3
  <1> QED
    BY <1>5 DEF EntriesKept

LEMMA EntriesSame ==
  ASSUME EntriesKept, own'.entries = own.entries, own'.toReader = own.toReader, UNCHANGED <<inbound, adopted>>
  PROVE  EntriesKept'
  BY DEF EntriesKept, Carried

LEMMA CopiesTakeAnswer ==
  ASSUME StreamTypes, CopiesKept, TakeAnswer, channel = "open"
  PROVE  CopiesKept'
  <1>1. PICK w, rest, a, b : /\ w = Head(writes) /\ rest = Tail(writes)
                             /\ a = CopiesOf(made, <<w>>) /\ b = CopiesOf(made, rest)
    OBVIOUS
  <1>2. /\ writes \in Seq(WriteSet) /\ writes # << >> /\ own.copies = CopiesOf(made, writes)
        /\ UNCHANGED <<made, channel, wClosing>>
    BY CopiesIs DEF StreamTypes, WriterTypes, TakeAnswer, CopiesKept
  <1>3. writes = <<w>> \o rest /\ w \in WriteSet /\ rest \in Seq(WriteSet) /\ <<w>> \in Seq(WriteSet)
    BY <1>1, <1>2, HeadFirst
  <1>4. own.copies = a + b /\ a \in Nat /\ b \in Nat
    BY <1>1, <1>2, <1>3, CopiesJoin
  <1>5. own'.copies = own.copies - (IF wClosing THEN own.copies ELSE a)
    BY <1>1, <1>2, TakeAnswerTypes, CopiesIs
  <1> DEFINE next == [w EXCEPT !.sent = @ + 1]
  <1>6. \/ writes' = << >> /\ (wClosing \/ rest = << >>)
        \/ ~wClosing /\ writes' = rest
        \/ ~wClosing /\ writes' = <<next>> \o rest
    <2>1. PICK status : status = Head(own.toWriter)
      OBVIOUS
    <2>2. CASE status = OK /\ w.sent + 1 < made[w.id].size /\ ~wClosing
      BY <1>1, <2>1, <2>2 DEF TakeAnswer
    <2>3. CASE ~(status = OK /\ w.sent + 1 < made[w.id].size /\ ~wClosing)
      <3>1. LET over == IF wClosing THEN writes ELSE <<w>>
            IN  IF over = writes \/ rest = << >> THEN Emptied ELSE writes' = rest
        BY <1>1, <2>1, <2>3 DEF TakeAnswer
      <3>2. <<w>> = writes => rest = << >>
        BY <1>1
      <3> QED
        BY <3>1, <3>2 DEF Emptied
    <2> QED
      BY <2>2, <2>3
  <1>7. CopiesOf(made, << >>) = 0
    BY CountEmpty
  <1>8. CASE writes' = << >> /\ (wClosing \/ rest = << >>)
    <2>a. ASSUME wClosing PROVE own'.copies = 0
      <3>1. own'.copies = own.copies - own.copies
        BY <1>5, <2>a
      <3> QED
        BY <1>4, <3>1
    <2>b. ASSUME ~wClosing PROVE own'.copies = 0
      <3>1. b = 0 /\ own'.copies = own.copies - a
        BY <1>1, <1>5, <1>7, <1>8, <2>b
      <3> QED
        BY <1>4, <3>1
    <2>1. own'.copies = 0
      BY <2>a, <2>b
    <2> QED
      BY <1>2, <1>7, <1>8, <2>1, CopiesNext DEF CopiesKept
  <1>9. CASE ~wClosing /\ writes' = rest
    <2>1. own'.copies = b
      BY <1>4, <1>5, <1>9
    <2> QED
      BY <1>1, <1>2, <1>9, <2>1, CopiesNext DEF CopiesKept
  <1>10. CASE ~wClosing /\ writes' = <<next>> \o rest
    <2>1. next \in WriteSet /\ next.sent # 0
      <3>1. w.sent \in Nat /\ w.sent + 1 \in Nat /\ w.sent + 1 # 0 /\ next.sent = w.sent + 1
        BY <1>3 DEF WriteSet
      <3> QED
        BY <1>3, <3>1 DEF WriteSet
    <2> HIDE DEF next
    <2>2. <<next>> \in Seq(WriteSet) /\ CopiesOf(made, <<next>>) = 0
      BY <2>1, CountOne
    <2>3. CopiesOf(made, <<next>> \o rest) = CopiesOf(made, <<next>>) + b
      BY <1>1, <1>3, <2>2, CopiesJoin
    <2>4. own'.copies = CopiesOf(made, <<next>> \o rest)
      BY <1>4, <1>5, <1>10, <2>2, <2>3
    <2> QED
      BY <1>2, <1>10, <2>4, CopiesNext DEF CopiesKept
  <1> QED
    BY <1>6, <1>8, <1>9, <1>10

LEMMA CopiesWrite ==
  ASSUME StreamTypes, CopiesKept, NEW size \in Sizes, NEW carries \in BOOLEAN, Write(size, carries)
  PROVE  CopiesKept'
  <1>1. /\ UNCHANGED channel
        /\ Len(made') = Len(made) + 1 /\ Len(made) \in Nat
        /\ \A i \in 1 .. Len(made) : made'[i] = made[i]
        /\ made'[Len(made) + 1] = [size |-> size, carries |-> carries]
        /\ (size = 1 /\ ~carries /\ WriteNow) \/ WriteQueued(carries)
    BY WriteIs
  <1>2. /\ writes \in Seq(WriteSet) /\ own \in Owners
        /\ own.copies = IF channel # "open" THEN 0 ELSE CopiesOf(made, writes)
        /\ \A k \in 1 .. Len(writes) : writes[k].id \in 1 .. Len(made)
    BY <1>1, CopiesIs DEF StreamTypes, WriterTypes, CopiesKept
  <1>3. CopiesOf(made', writes) = CopiesOf(made, writes)
    BY <1>1, <1>2, CopiesStable
  <1>4. CASE size = 1 /\ ~carries /\ WriteNow
    <2>1. made'[Len(made) + 1] = [size |-> size, carries |-> FALSE]
      BY <1>1, <1>4
    <2>2. writes' = writes /\ own'.copies = own.copies
      BY <1>1, <1>2, <1>4, <2>1, WriteNowIs DEF Untouched
    <2> QED
      BY <1>1, <1>2, <1>3, <2>2, CopiesNext DEF CopiesKept
  <1>5. CASE WriteQueued(carries)
    <2>1. PICK w : w = [id |-> Len(made) + 1, sent |-> 0]
      OBVIOUS
    <2>2. /\ w \in WriteSet /\ writes' = Append(writes, w)
          /\ own'.copies = own.copies + (IF carries THEN 1 ELSE 0) /\ (carries => channel = "open")
      BY <1>1, <1>2, <1>5, <2>1, WriteQueuedIs
    <2>3. writes' = writes \o <<w>> /\ <<w>> \in Seq(WriteSet)
      BY <1>2, <2>2, AppendIs
    <2>4. CopiesOf(made', writes') = CopiesOf(made', writes) + CopiesOf(made', <<w>>)
      BY <1>2, <2>3, CopiesJoin
    <2>5. CopiesOf(made', <<w>>) = IF carries THEN 1 ELSE 0
      <3>1. made'[w.id].carries = carries /\ w.sent = 0
        BY <1>1, <2>1
      <3> QED
        BY <3>1, CountOne
    <2>6. channel # "open" => own'.copies = 0
      BY <1>2, <2>2
    <2> QED
      BY <1>1, <1>2, <1>3, <2>2, <2>4, <2>5, <2>6, CopiesNext DEF CopiesKept
  <1> QED
    BY <1>1, <1>4, <1>5

LEMMA CopiesStep ==
  ASSUME StreamTypes, CopiesKept, StreamNext, channel # "open" => own.toWriter = << >>
  PROVE  CopiesKept'
  <1>1. own \in Owners /\ WriterTypes /\ ReaderTypes
    BY DEF StreamTypes
  <1>2. CASE OwnerTurn
    <2>1. own'.copies = own.copies /\ UNCHANGED <<writes, made, channel, wClosing>>
      BY <1>1, <1>2, OwnerTurnIs DEF SameEnds, writer
    <2> QED
      BY <2>1, CopiesSame
  <1>3. CASE TakeGrant
    <2>1. own'.copies = own.copies /\ UNCHANGED <<writes, made, channel, wClosing>>
      BY <1>1, <1>3, TakeGrantIs DEF SameEnds, writer
    <2> QED
      BY <2>1, CopiesSame
  <1>4. CASE TakeWrite
    <2>1. own'.copies = own.copies /\ UNCHANGED <<writes, made, channel, wClosing>>
      BY <1>1, <1>4, TakeWriteIs
    <2> QED
      BY <2>1, CopiesSame
  <1>5. CASE TakeShutdown \/ Shutdown
    <2>1. own'.copies = own.copies /\ UNCHANGED <<writes, made, channel, wClosing>>
      BY <1>1, <1>5 DEF TakeShutdown, Shutdown, Owners
    <2> QED
      BY <2>1, CopiesSame
  <1>6. CASE Close
    <2>1. CASE own' = CloseWriter(own)
      <3>1. own' = CloseWriter(own)
        BY <2>1
      <3>2. \E q \in Owners : SameEnds(q, own') /\ q.copies = own.copies
        BY <1>1, <3>1, CloseWriterIs
      <3>3. own'.copies = own.copies
        BY <3>2 DEF SameEnds
      <3>4. UNCHANGED <<writes, made, channel>>
        BY <1>6 DEF Close
      <3> QED
        BY <3>3, <3>4, CopiesSame
    <2>2. CASE own' = own
      BY <1>6, <2>2, CopiesSame DEF Close
    <2> QED
      BY <1>6, <2>1, <2>2 DEF Close
  <1>7. CASE TransportClosed
    <2>1. own'.copies = 0 /\ channel' # "open"
      BY <1>1, <1>7, TransportClosedIs
    <2> QED
      BY <2>1 DEF CopiesKept
  <1>11. CASE WriteFails \/ OwnerStopped
    <2>1. own' = own /\ channel # "open" /\ channel' # "open"
      BY <1>11 DEF WriteFails, OwnerStopped
    <2> QED
      BY <2>1, CopiesSame
  <1>12. CASE TakeAnswer
    BY <1>12, CopiesTakeAnswer DEF TakeAnswer
  <1>8. CASE ReadStart \/ ReadStop \/ ReaderTurn
    <2>1. UNCHANGED <<writes, made, channel, wClosing>>
      BY <1>1, <1>8, ReadsAre DEF writer
    <2>2. own'.copies = own.copies
      BY <1>1, <1>8, ReadsAre DEF Quiet, Delivered, Alike
    <2> QED
      BY <2>1, <2>2, CopiesSame
  <1>9. CASE ReceiveEvent
    <2>1. own'.copies = own.copies /\ UNCHANGED <<writes, made, channel, wClosing>>
      BY <1>1, <1>9, ReceiveIs DEF SameEnds, writer
    <2> QED
      BY <2>1, CopiesSame
  <1>10. CASE ReaderClose
    <2>1. own'.copies = own.copies /\ UNCHANGED <<writes, made, channel, wClosing>>
      BY <1>1, <1>10, ReaderCloseIs DEF writer
    <2> QED
      BY <2>1, CopiesSame
  <1> QED
    BY <1>2, <1>3, <1>4, <1>5, <1>6, <1>7, <1>8, <1>9, <1>10, <1>11, <1>12, CopiesWrite
       DEF StreamNext, Steps

LEMMA EntriesDelivered ==
  ASSUME StreamTypes, EntriesKept, NEW given, NEW rest, Delivered(given, rest)
  PROVE  EntriesKept'
  <1>1. /\ own'.entries = own.entries /\ own'.toReader = own.toReader /\ inbound' = rest
        /\ adopted' = adopted + Carried(given)
    BY DEF Delivered, Alike
  <1>2. Carried(inbound) = Carried(given) + Carried(rest) /\ Carried(given) \in Nat /\ Carried(rest) \in Nat
    BY CarriedJoin DEF Delivered
  <1>3. /\ own.entries = Carried(own.toReader) + Carried(inbound) + adopted /\ adopted \in Nat
        /\ Carried(own.toReader) \in Nat
    <2>1. own.toReader \in Seq(ChunkSet \cup {Eof, Closed})
      BY DEF StreamTypes, Owners
    <2> QED
      BY <2>1, CarriedJoin DEF EntriesKept, StreamTypes, ReaderTypes
  <1>4. own.entries = Carried(own.toReader) + Carried(rest) + (adopted + Carried(given))
    <2>1. PICK a \in Int, b \in Int, c \in Int, d \in Int :
            a = Carried(own.toReader) /\ b = Carried(given) /\ c = Carried(rest) /\ d = adopted
      BY <1>2, <1>3
    <2>2. a + (b + c) + d = a + c + (d + b)
      OBVIOUS
    <2> QED
      BY <1>2, <1>3, <2>1, <2>2
  <1> QED
    BY <1>1, <1>4 DEF EntriesKept

LEMMA EntriesReceive ==
  ASSUME StreamTypes, EntriesKept, ReceiveEvent
  PROVE  EntriesKept'
  <1>1. own \in Owners /\ ReaderTypes /\ adopted \in Nat /\ inbound \in Seq(ChunkSet)
        /\ own.toReader \in Seq(ChunkSet \cup {Eof, Closed})
    BY DEF StreamTypes, ReaderTypes, Owners
  <1>2. PICK event \in ChunkSet \cup {Eof, Closed} :
          /\ own.toReader # << >> /\ event = Head(own.toReader)
          /\ own'.toReader = Tail(own.toReader)
          /\ \/ /\ event = Closed /\ inbound' = << >>
                /\ own'.entries = own.entries - Carried(inbound)
             \/ /\ event # Closed /\ rClosing /\ inbound' = inbound
                /\ own'.entries = own.entries - Carried(<<event>>)
             \/ /\ event = Eof /\ ~rClosing /\ inbound' = inbound
                /\ own'.entries = own.entries
             \/ /\ event \in ChunkSet /\ ~rClosing /\ inbound' = Append(inbound, event)
                /\ own'.entries = own.entries
          /\ adopted' = adopted
    BY <1>1, ReceiveIs
  <1>3. PICK e, t, i : /\ e = Carried(<<event>>) /\ t = Carried(Tail(own.toReader)) /\ i = Carried(inbound)
    OBVIOUS
  <1>4. e \in Nat /\ t \in Nat /\ i \in Nat /\ own.entries = (e + t) + i + adopted
    BY <1>1, <1>2, <1>3, CarriedFirst, CarriedJoin DEF EntriesKept
  <1>5. e = IF event.part > 0 /\ event.handle THEN 1 ELSE 0
    BY <1>3, CountOne
  <1>6. CASE event = Closed /\ inbound' = << >> /\ own'.entries = own.entries - Carried(inbound)
    <2>1. e = 0 /\ Carried(inbound') = 0
      BY <1>5, <1>6, EndIs, CountEmpty
    <2>2. own'.entries = t + 0 + adopted
      BY <1>1, <1>3, <1>4, <1>6, <2>1
    <2> QED
      BY <1>2, <1>3, <2>1, <2>2 DEF EntriesKept
  <1>7. CASE inbound' = inbound /\ own'.entries = own.entries - Carried(<<event>>)
    <2>1. own'.entries = t + i + adopted
      BY <1>1, <1>3, <1>4, <1>7
    <2> QED
      BY <1>2, <1>3, <1>7, <2>1 DEF EntriesKept
  <1>8. CASE event = Eof /\ inbound' = inbound /\ own'.entries = own.entries
    <2>1. e = 0
      BY <1>5, <1>8, EndIs
    <2>2. own'.entries = t + i + adopted
      BY <1>1, <1>4, <1>8, <2>1
    <2> QED
      BY <1>2, <1>3, <1>8, <2>2 DEF EntriesKept
  <1>9. CASE event \in ChunkSet /\ inbound' = Append(inbound, event) /\ own'.entries = own.entries
    <2>1. Carried(inbound') = i + e
      BY <1>1, <1>3, <1>5, <1>9, CarriedOne
    <2>2. own'.entries = t + (i + e) + adopted
      BY <1>1, <1>4, <1>9
    <2> QED
      BY <1>2, <1>3, <2>1, <2>2 DEF EntriesKept
  <1> QED
    BY <1>2, <1>6, <1>7, <1>8, <1>9

LEMMA EntriesClose ==
  ASSUME StreamTypes, StreamTypes', EntriesKept, NEW p, p = CloseWriter(own), UNCHANGED <<inbound, adopted>>,
         own'.entries = p.entries, own'.toReader = p.toReader
  PROVE  EntriesKept'
  <1>1. own \in Owners /\ own' \in Owners
    BY DEF StreamTypes
  <1>2. PICK q \in Owners : Published(q, p) /\ q.entries = own.entries /\ q.toReader = own.toReader /\ p \in Owners
    BY <1>1, CloseWriterIs
  <1>3. PICK a, b, c, d, i, k :
          /\ a = own.entries /\ b = Carried(own.toReader) /\ c = own'.entries
          /\ d = Carried(own'.toReader) /\ i = Carried(inbound) /\ k = adopted
    OBVIOUS
  <1>4. a \in Int /\ b \in Nat /\ c \in Int /\ d \in Nat /\ i \in Nat /\ k \in Nat
    <2>1. /\ own.toReader \in Seq(ChunkSet \cup {Eof, Closed}) /\ own'.toReader \in Seq(ChunkSet \cup {Eof, Closed})
          /\ inbound \in Seq(ChunkSet) /\ a \in Int /\ c \in Int /\ k \in Nat
      BY <1>1, <1>3 DEF Owners, StreamTypes, ReaderTypes
    <2> QED
      BY <1>3, <2>1, CarriedJoin
  <1>5. c - d = a - b
    BY <1>2, <1>3, PublishedEntries
  <1>6. a = b + i + k
    BY <1>3 DEF EntriesKept
  <1>7. c = d + i + k
    BY <1>4, <1>5, <1>6
  <1> QED
    BY <1>3, <1>7 DEF EntriesKept

LEMMA EntriesStep ==
  ASSUME StreamTypes, StreamTypes', EntriesKept, StreamNext
  PROVE  EntriesKept'
  <1>1. own \in Owners /\ WriterTypes /\ ReaderTypes
    BY DEF StreamTypes
  <1>2. CASE OwnerTurn
    BY <1>1, <1>2, OwnerTurnIs, EntriesPublished DEF reader
  <1>3. CASE TakeGrant
    BY <1>1, <1>3, TakeGrantIs, EntriesPublished
  <1>4. CASE TakeWrite
    BY <1>1, <1>4, TakeWriteIs, EntriesSame DEF reader
  <1>5. CASE TakeAnswer
    <2>1. own'.entries = own.entries /\ own'.toReader = own.toReader
      BY <1>5, TakeAnswerTypes
    <2> QED
      BY <1>5, <2>1, EntriesSame DEF TakeAnswer, reader
  <1>6. CASE TakeShutdown \/ Shutdown
    <2>1. own'.entries = own.entries /\ own'.toReader = own.toReader /\ UNCHANGED <<inbound, adopted>>
      BY <1>1, <1>6 DEF TakeShutdown, Shutdown, Owners, reader
    <2> QED
      BY <2>1, EntriesSame
  <1>7. CASE Close
    <2>1. CASE own' = CloseWriter(own)
      BY <1>7, <2>1, EntriesClose DEF Close, reader
    <2>2. CASE own' = own
      BY <1>7, <2>2, EntriesSame DEF Close, reader
    <2> QED
      BY <1>7, <2>1, <2>2 DEF Close
  <1>8. CASE TransportClosed
    <2>1. UNCHANGED <<inbound, adopted>>
      BY <1>8 DEF TransportClosed, reader
    <2>2. PICK p : p = CloseWriter(own) /\ own'.entries = p.entries /\ own'.toReader = p.toReader
      BY <1>1, <1>8, TransportClosedIs
    <2> QED
      BY <2>1, <2>2, EntriesClose
  <1>12. CASE WriteFails \/ OwnerStopped
    BY <1>12, EntriesSame DEF WriteFails, OwnerStopped, reader
  <1>9. CASE ReadStart \/ ReadStop \/ ReaderTurn
    <2>1. CASE Quiet
      BY <2>1, EntriesSame DEF Quiet, Alike
    <2> QED
      BY <1>1, <1>9, <2>1, ReadsAre, EntriesDelivered
  <1>10. CASE ReaderClose
    <2>1. /\ own'.entries = own.entries /\ own'.toReader = Append(own.toReader, Closed)
          /\ UNCHANGED <<inbound, adopted>>
      BY <1>1, <1>10, ReaderCloseIs
    <2>2. Carried(own'.toReader) = Carried(own.toReader)
      <3>1. own.toReader \in Seq(ChunkSet \cup {Eof, Closed})
        BY <1>1 DEF Owners
      <3>2. /\ Carried(own'.toReader) = Carried(own.toReader) + (IF Closed.part > 0 /\ Closed.handle THEN 1 ELSE 0)
            /\ Carried(own.toReader) \in Nat
        BY <2>1, <3>1, CarriedOne
      <3> QED
        BY <3>2, EndIs
    <2> QED
      BY <2>1, <2>2 DEF EntriesKept
  <1>11. ASSUME NEW size \in Sizes, NEW carries \in BOOLEAN, Write(size, carries) PROVE EntriesKept'
    <2>1. /\ UNCHANGED reader /\ Len(made') = Len(made) + 1 /\ Len(made) \in Nat
          /\ made'[Len(made) + 1] = [size |-> size, carries |-> carries]
          /\ (size = 1 /\ ~carries /\ WriteNow) \/ WriteQueued(carries)
      BY <1>11, WriteIs
    <2>2. CASE size = 1 /\ ~carries /\ WriteNow
      <3>1. made'[Len(made) + 1] = [size |-> size, carries |-> FALSE]
        BY <2>1, <2>2
      <3>2. own'.entries = own.entries /\ own'.toReader = own.toReader
        BY <1>1, <2>1, <2>2, <3>1, WriteNowIs DEF Untouched
      <3> QED
        BY <2>1, <3>2, EntriesSame DEF reader
    <2>3. CASE WriteQueued(carries)
      <3>1. own'.entries = own.entries /\ own'.toReader = own.toReader
        BY <1>1, <2>1, <2>3, WriteQueuedIs
      <3> QED
        BY <2>1, <3>1, EntriesSame DEF reader
    <2> QED
      BY <2>1, <2>2, <2>3
  <1> QED
    BY <1>2, <1>3, <1>4, <1>5, <1>6, <1>7, <1>8, <1>9, <1>10, <1>11, <1>12, EntriesReceive
       DEF StreamNext, Steps

----------------------------------------------------------------------------
(* The writer's queue, and the one chunk of it that is in flight            *)

Told == Len(made) - Len(writes)
\* The writer's end has closed, on its own or with its transport.
Over == wClosing \/ channel # "open"
\* The writes queued are the last made; of one only the first in the queue has begun.  Those
\* before them are answered, once, and not without a cause.
Answer(i) ==
  \/ answers[i] = <<OK>>
  \/ answers[i] = <<Pipe>> /\ (~own.rOpen \/ channel # "open")
  \/ answers[i] = <<Canceled>> /\ Over
QueueInv ==
  /\ Len(answers) = Len(made) /\ Len(writes) <= Len(made)
  /\ \A k \in 1 .. Len(writes) :
       /\ writes[k].id = Told + k /\ writes[k].sent < made[writes[k].id].size
       /\ k > 1 => writes[k].sent = 0
  /\ \A i \in 1 .. Len(made) : IF i > Told THEN answers[i] = << >> ELSE Answer(i)

\* The chunk due of the first write queued is posted, waits at the owner, or is answered.
Due == Part(Head(writes).id, Head(writes).sent + 1)
Posted == toOwner = <<Due>> /\ own.slot = NoChunk /\ own.toWriter = << >>
Waiting == toOwner = << >> /\ own.slot = Due /\ own.toWriter = << >>
Replied ==
  /\ toOwner = << >> /\ own.slot = NoChunk
  /\ \/ own.toWriter = <<OK>>
     \/ own.toWriter = <<Pipe>> /\ ~own.rOpen
     \/ own.toWriter = <<Canceled>> /\ wClosing
\* With no write queued only the end is, where it was sent.
Resting ==
  /\ own.slot = NoChunk
  /\ \/ toOwner = << >> /\ own.toWriter = << >>
     \/ toOwner = <<Eof>> /\ own.toWriter = << >> /\ shutdown = "posted"
     \/ toOwner = << >> /\ own.toWriter = <<"shutdown">> /\ shutdown = "posted"
FlightInv ==
  /\ Over => toOwner = << >> /\ own.slot = NoChunk
  /\ channel # "open" => own.toWriter = << >>
  /\ writes = << >> => Resting
  /\ channel = "open" /\ writes # << >> => Posted \/ Waiting \/ Replied

\* The end waits for the writes before it.
ClosingInv ==
  /\ (own.wOpen <=> ~Over) /\ (own.rOpen <=> ~rClosing)
  /\ own.eof => Over \/ shutdown \in {"posted", "done"}
  /\ shutdown = "none" <=> ~writeEnded
  /\ shutdown \in {"posted", "done", "lost"} => writes = << >>
  /\ shutdown = "pending" => writes # << >>

ControlInv == QueueInv /\ FlightInv /\ ClosingInv

\* A chunk, of the writes described by `all`.
PartOf(all, i, k) == [write |-> i, part |-> k, handle |-> all[i].carries /\ k = 1]

LEMMA PartIs == ASSUME NEW i, NEW k PROVE Part(i, k) = PartOf(made, i, k)
  BY DEF Part, PartOf

LEMMA PartNext == Due' = PartOf(made', Head(writes').id, Head(writes').sent + 1)
  BY DEF Due, Part, PartOf

LEMMA PartOfIs ==
  ASSUME NEW all, NEW i \in Nat, NEW k \in Nat \ {0}
  PROVE  /\ PartOf(all, i, k) \in ChunkSet
         /\ PartOf(all, i, k).write = i /\ PartOf(all, i, k).part = k
  BY DEF PartOf, ChunkSet

LEMMA PartOfStable ==
  ASSUME NEW all, NEW more, NEW i, more[i] = all[i], NEW k
  PROVE  PartOf(more, i, k) = PartOf(all, i, k)
  BY Zenon DEF PartOf

LEMMA ChunkOfPart ==
  ASSUME NEW w \in WriteSet
  PROVE  ChunkOf(w) = PartOf(made', w.id, w.sent + 1)
  <1>1. w.sent \in Nat
    BY DEF WriteSet
  <1>2. PICK h, g : h = (made'[w.id].carries /\ w.sent = 0) /\ g = (made'[w.id].carries /\ w.sent + 1 = 1)
    OBVIOUS
  <1>3. h = g
    <2>1. w.sent = 0 <=> w.sent + 1 = 1
      BY <1>1
    <2> QED
      BY <1>2, <2>1, Zenon
  <1>4. ChunkOf(w) = [write |-> w.id, part |-> w.sent + 1, handle |-> h]
    BY <1>2, Zenon DEF ChunkOf
  <1>5. PartOf(made', w.id, w.sent + 1) = [write |-> w.id, part |-> w.sent + 1, handle |-> g]
    BY <1>2, Zenon DEF PartOf
  <1> QED
    BY <1>3, <1>4, <1>5, Zenon

LEMMA DueIs ==
  ASSUME WriterTypes, writes # << >>
  PROVE  Due \in ChunkSet /\ Head(writes) \in WriteSet /\ Head(writes).sent + 1 \in Nat \ {0}
         /\ Head(writes) = writes[1]
  <1>1. Head(writes) \in WriteSet /\ Head(writes) = writes[1]
    BY DEF WriterTypes
  <1>2. Head(writes).id \in Nat /\ Head(writes).sent + 1 \in Nat \ {0}
    BY <1>1 DEF WriteSet
  <1> QED
    BY <1>1, <1>2, PartOfIs, PartIs DEF Due

LEMMA NotYet == << >> # <<OK>> /\ <<Pipe>> # <<OK>> /\ <<Canceled>> # <<OK>> /\ <<"shutdown">> # <<OK>>
  BY DEF OK, Pipe, Canceled

LEMMA QueueSame ==
  ASSUME QueueInv, UNCHANGED <<made, writes, answers>>, own'.rOpen => own.rOpen,
         wClosing => wClosing', channel # "open" => channel' # "open"
  PROVE  QueueInv'
  BY DEF QueueInv, Told, Answer, Over

LEMMA DueSame == ASSUME UNCHANGED <<made, writes>> PROVE Due' = Due
  BY DEF Due, Part

LEMMA FlightSame ==
  ASSUME FlightInv, UNCHANGED <<made, writes, toOwner, shutdown, channel>>, own'.slot = own.slot,
         own'.toWriter = own.toWriter, own'.rOpen => own.rOpen,
         wClosing' = wClosing
  PROVE  FlightInv'
  BY DueSame DEF FlightInv, Resting, Posted, Waiting, Replied, Over

LEMMA ClosingSame ==
  ASSUME ClosingInv, UNCHANGED <<writes, shutdown, writeEnded, wClosing, channel, rClosing>>,
         own'.wOpen = own.wOpen, own'.rOpen = own.rOpen, own'.eof = own.eof
  PROVE  ClosingInv'
  BY DEF ClosingInv, Over

LEMMA WaitsInTime ==
  ASSUME StreamTypes, FlightInv, ClosingInv, own.slot \in ChunkSet
  PROVE  Waiting /\ writes # << >> /\ ~own.eof /\ ~Over
  <1>1. own.slot # NoChunk
    BY ChunkIs
  <1> QED
    BY <1>1 DEF FlightInv, ClosingInv, Resting, Posted, Replied, Over

\* The first write queued, in numbers.
LEMMA FirstIs ==
  ASSUME StreamTypes, QueueInv, writes # << >>
  PROVE  /\ Head(writes).id \in 1 .. Len(made) /\ Head(writes).sent \in Nat
         /\ Head(writes).sent < made[Head(writes).id].size /\ made[Head(writes).id].size \in Nat \ {0}
         /\ Head(writes).id = Told + 1
  <1>1. writes \in Seq(WriteSet) /\ made \in Seq(MadeSet) /\ \A k \in 1 .. Len(writes) : writes[k].id \in 1 .. Len(made)
    BY DEF StreamTypes, WriterTypes
  <1>2. Head(writes) = writes[1] /\ Head(writes) \in WriteSet /\ Len(writes) \in Nat \ {0}
    BY <1>1, TailIs
  <1>3. 1 \in 1 .. Len(writes)
    BY <1>2
  <1>4. Head(writes).id \in 1 .. Len(made)
    BY <1>1, <1>2, <1>3
  <1>5. made[Head(writes).id] \in MadeSet
    BY <1>1, <1>4
  <1> QED
    BY <1>2, <1>3, <1>4, <1>5 DEF QueueInv, WriteSet, MadeSet

LEMMA FirstOf == ASSUME NEW s, s = << >>, NEW x PROVE Append(s, x) = <<x>>
  OBVIOUS

\* A chunk that waited is answered when it is tried again, or waits on.
LEMMA FlightRetried ==
  ASSUME StreamTypes, FlightInv, ClosingInv, NEW q, q.slot = own.slot, q.toWriter = own.toWriter,
         q.rOpen = own.rOpen, q.eof = own.eof, Retried(q, own'), own'.rOpen = own.rOpen,
         UNCHANGED writer
  PROVE  FlightInv'
  <1>1. UNCHANGED <<made, writes, toOwner, shutdown, channel, wClosing>>
    BY DEF writer
  <1>2. CASE own'.slot = own.slot /\ own'.toWriter = own.toWriter
    BY <1>1, <1>2, FlightSame
  <1>3. CASE own.slot \in ChunkSet
    <2>1. Waiting /\ writes # << >> /\ ~own.eof /\ ~Over /\ ~Over'
      BY <1>1, <1>3, WaitsInTime DEF Over
    <2>2. own.toWriter = << >> /\ toOwner = << >> /\ Due' = Due
      BY <1>1, <2>1, DueSame DEF Waiting
    <2>3. CASE ~own.rOpen /\ Refused(q, own')
      <3>1. own'.slot = NoChunk /\ own'.toWriter = <<Pipe>>
        BY <2>2, <2>3, FirstOf DEF Refused
      <3>2. Replied'
        BY <1>1, <2>2, <2>3, <3>1 DEF Replied
      <3> QED
        BY <1>1, <2>1, <3>1, <3>2 DEF FlightInv, Over
    <2>4. CASE Accepted(q, q.slot, own')
      <3>1. own'.slot = NoChunk /\ own'.toWriter = <<OK>>
        BY <2>2, <2>4, FirstOf DEF Accepted
      <3>2. Replied'
        BY <1>1, <2>2, <3>1 DEF Replied
      <3> QED
        BY <1>1, <2>1, <3>1, <3>2 DEF FlightInv, Over
    <2>5. CASE Waits(q, q.slot, own')
      BY <1>1, <2>5, FlightSame DEF Waits
    <2>6. own.slot # NoChunk
      BY <1>3, ChunkIs
    <2> QED
      BY <1>3, <2>1, <2>3, <2>4, <2>5, <2>6 DEF Retried
  <1> QED
    BY <1>2, <1>3 DEF Retried

LEMMA ControlPublished ==
  ASSUME StreamTypes, ControlInv, SameEnds(own, own'), Published(own, own'), UNCHANGED writer,
         rClosing' = rClosing
  PROVE  ControlInv'
  <1>1. UNCHANGED <<made, writes, answers, toOwner, shutdown, channel, wClosing, writeEnded>>
    BY DEF writer
  <1>2. QueueInv'
    BY <1>1, QueueSame DEF ControlInv, SameEnds
  <1>3. ClosingInv'
    BY <1>1, ClosingSame DEF ControlInv, SameEnds
  <1>4. FlightInv'
    <2>1. CASE own'.slot = own.slot /\ own'.toWriter = own.toWriter
      BY <1>1, <2>1, FlightSame DEF ControlInv, SameEnds
    <2>2. CASE \E q \in Owners : OneRead(own, q) /\ SameEnds(own, q) /\ Retried(q, own')
      BY <2>2, FlightRetried DEF ControlInv, SameEnds, OneRead
    <2> QED
      BY <2>1, <2>2 DEF Published
  <1> QED
    BY <1>2, <1>3, <1>4 DEF ControlInv

LEMMA ControlTakeWrite ==
  ASSUME StreamTypes, ControlInv, TakeWrite
  PROVE  /\ ControlInv'
         /\ Head(toOwner) \in ChunkSet => Posted /\ writes # << >> /\ ~own.eof /\ Head(toOwner) = Due
  <1>1. own \in Owners /\ WriterTypes
    BY DEF StreamTypes
  <1>2. PICK msg \in ChunkSet \cup {Eof} :
          /\ toOwner # << >> /\ msg = Head(toOwner) /\ toOwner' = Tail(toOwner)
          /\ own'.wOpen = own.wOpen /\ own'.rOpen = own.rOpen
          /\ \/ /\ msg = Eof /\ own'.slot = own.slot /\ own'.inbound = own.inbound
                /\ own'.toWriter = Append(own.toWriter, "shutdown")
                /\ own'.eof = (own.eof \/ own.slot = NoChunk)
             \/ /\ msg \in ChunkSet /\ ~own.wOpen /\ own'.eof = own.eof
                /\ own'.slot = own.slot /\ own'.inbound = own.inbound
                /\ own'.toWriter = Append(own.toWriter, BadHandle)
             \/ /\ msg \in ChunkSet /\ own.wOpen /\ own'.eof = own.eof
                /\ \/ (~own.rOpen \/ own.eof) /\ Refused(own, own')
                   \/ own.rOpen /\ ~own.eof /\ Accepted(own, msg, own')
                   \/ own.rOpen /\ Waits(own, msg, own')
          /\ UNCHANGED <<writes, made, answers, writeEnded, shutdown, wClosing, channel, reader>>
    BY <1>1, TakeWriteIs
  <1>3. QueueInv'
    BY <1>2, QueueSame DEF ControlInv
  <1>4. ~Over /\ own.wOpen /\ ~Over' /\ channel = "open"
    BY <1>2 DEF ControlInv, FlightInv, ClosingInv, Over
  <1>5. CASE msg = Eof
    <2>1. writes = << >> /\ toOwner = <<Eof>> /\ own.toWriter = << >> /\ shutdown = "posted" /\ own.slot = NoChunk
      <3>1. writes # << >> => Due \in ChunkSet /\ Due # Eof
        BY <1>1, DueIs, ChunkIs
      <3> QED
        BY <1>2, <1>4, <1>5, <3>1 DEF ControlInv, FlightInv, Resting, Posted, Waiting, Replied
    <2>2. own'.toWriter = <<"shutdown">> /\ own'.slot = NoChunk /\ own'.inbound = own.inbound /\ toOwner' = << >>
      BY <1>2, <1>5, <2>1, ChunkIs
    <2>3. FlightInv'
      BY <1>2, <1>4, <2>1, <2>2 DEF FlightInv, Resting, Over
    <2>4. ClosingInv'
      BY <1>2, <1>4, <2>1 DEF ControlInv, ClosingInv, reader
    <2>5. Head(toOwner) \notin ChunkSet
      BY <1>2, <1>5, ChunkIs
    <2> QED
      BY <1>3, <2>2, <2>3, <2>4, <2>5 DEF ControlInv
  <1>6. CASE msg \in ChunkSet
    <2>1. msg # Eof
      BY <1>6, ChunkIs
    <2>2. writes # << >> /\ Posted
      <3>1. toOwner = <<Eof>> => Head(toOwner) = Eof
        OBVIOUS
      <3> QED
        BY <1>2, <1>4, <2>1, <3>1 DEF ControlInv, FlightInv, Resting, Waiting, Replied
    <2>3. msg = Due /\ own.slot = NoChunk /\ own.toWriter = << >> /\ toOwner' = << >> /\ Due' = Due
      BY <1>2, <2>2, DueSame DEF Posted
    <2>4. ~own.eof
      BY <1>4, <2>2 DEF ControlInv, ClosingInv
    <2>5. ClosingInv'
      BY <1>2, <1>4, <2>1, ClosingSame DEF ControlInv, reader
    <2>6. CASE ~own.rOpen /\ Refused(own, own')
      <3>1. own'.slot = NoChunk /\ own'.toWriter = <<Pipe>>
        BY <2>3, <2>6 DEF Refused
      <3>2. Replied'
        BY <1>2, <2>3, <2>6, <3>1 DEF Replied
      <3> QED
        BY <1>2, <1>3, <1>4, <2>2, <2>3, <2>4, <2>5, <2>6, <3>1, <3>2 DEF ControlInv, FlightInv, Refused
    <2>7. CASE ~own.eof /\ Accepted(own, msg, own')
      <3>1. own'.slot = NoChunk /\ own'.toWriter = <<OK>>
        BY <2>3, <2>7 DEF Accepted
      <3>2. Replied'
        BY <1>2, <2>3, <3>1 DEF Replied
      <3> QED
        BY <1>2, <1>3, <1>4, <2>2, <2>3, <2>4, <2>5, <3>1, <3>2 DEF ControlInv, FlightInv
    <2>8. CASE Waits(own, msg, own')
      <3>1. Waiting'
        BY <2>3, <2>8 DEF Waiting, Waits
      <3> QED
        BY <1>2, <1>3, <1>4, <2>2, <2>3, <2>4, <2>5, <2>8, <3>1 DEF ControlInv, FlightInv, Waits
    <2> QED
      BY <1>2, <1>4, <2>1, <2>4, <2>6, <2>7, <2>8
  <1> QED
    BY <1>5, <1>6

\* The first write queued goes on with its next chunk.
GoesOn ==
  LET w == Head(writes)
      next == [w EXCEPT !.sent = @ + 1]
  IN  /\ ~wClosing /\ own.toWriter = <<OK>> /\ w.sent + 1 < made[w.id].size
      /\ writes' = <<next>> \o Tail(writes) /\ toOwner' = <<ChunkOf(next)>>
      /\ UNCHANGED <<answers, shutdown>>

\* It is answered, and in a closing driver so are all those behind it.
IsAnswered ==
  LET w == Head(writes)
      status == Head(own.toWriter)
      more == status = OK /\ w.sent + 1 < made[w.id].size
  IN  /\ more => wClosing
      /\ Len(answers') = Len(answers) /\ answers' \in Seq(Seq(Replies))
      /\ answers'[w.id] = <<IF more THEN Canceled ELSE status>>
      /\ \A i \in 1 .. Len(made) : i <= Told => answers'[i] = answers[i]
      /\ wClosing =>
           /\ \A i \in 1 .. Len(made) : i > Told + 1 => answers'[i] = <<Canceled>>
           /\ writes' = << >> /\ toOwner' = << >>
           /\ shutdown' = IF shutdown = "pending" THEN "done" ELSE shutdown
      /\ ~wClosing =>
           /\ \A i \in 1 .. Len(made) : i > Told + 1 => answers'[i] = answers[i]
           /\ \/ /\ writes' = << >> /\ Tail(writes) = << >>
                 /\ shutdown' = (IF shutdown = "pending" THEN "posted" ELSE shutdown)
                 /\ toOwner' = IF shutdown = "pending" THEN <<Eof>> ELSE << >>
              \/ /\ Tail(writes) # << >> /\ writes' = Tail(writes) /\ shutdown' = shutdown
                 /\ toOwner' = <<ChunkOf(Head(Tail(writes)))>>

LEMMA OneTail == ASSUME NEW s, s = <<Head(s)>> PROVE Tail(s) = << >>
  <1>1. PICK x : x = Head(s)
    OBVIOUS
  <1>2. s = <<x>>
    BY <1>1
  <1> HIDE <1>1
  <1> QED
    BY <1>2

LEMMA SameLength ==
  ASSUME NEW m \in Nat, NEW n \in Nat, 1 .. m = 1 .. n
  PROVE  m = n
  <1>1. \A k \in Nat \ {0} : k \in 1 .. m <=> k \in 1 .. n
    OBVIOUS
  <1>2. m # 0 => m <= n
    BY <1>1
  <1>3. n # 0 => n <= m
    BY <1>1
  <1> QED
    BY <1>2, <1>3

LEMMA TakeAnswerIs ==
  ASSUME StreamTypes, ControlInv, TakeAnswer
  PROVE  /\ writes # << >> /\ Replied /\ (own.toWriter = <<Head(own.toWriter)>>) /\ channel = "open"
         /\ Head(writes) \in WriteSet /\ Head(writes).id = Told + 1 /\ Head(writes) = writes[1]
         /\ Head(writes).sent < made[Told + 1].size
         /\ GoesOn \/ IsAnswered
  <1>1. /\ writes # << >> /\ own.toWriter # << >> /\ writes \in Seq(WriteSet) /\ WriterTypes
        /\ answers \in Seq(Seq(Replies)) /\ made \in Seq(MadeSet)
    BY DEF TakeAnswer, StreamTypes, WriterTypes
  <1>2. Replied /\ toOwner = << >> /\ channel = "open"
    BY <1>1 DEF ControlInv, FlightInv, Posted, Waiting, Replied
  <1>3. PICK w, rest, status : w = Head(writes) /\ rest = Tail(writes) /\ status = Head(own.toWriter)
    OBVIOUS
  <1>4. own.toWriter = <<status>>
    BY <1>2, <1>3 DEF Replied
  <1>5. /\ w \in WriteSet /\ rest \in Seq(WriteSet) /\ w = writes[1] /\ 1 \in 1 .. Len(writes)
        /\ Len(writes) \in Nat \ {0} /\ Len(rest) = Len(writes) - 1
    BY <1>1, <1>3
  <1>6. w.id = Told + 1 /\ w.sent < made[w.id].size /\ Len(answers) = Len(made) /\ Len(made) \in Nat
        /\ Told \in Nat /\ \A k \in 1 .. Len(writes) : writes[k].id = Told + k
        /\ Len(made) = Told + Len(writes) /\ \A i \in 1 .. Len(made) : i > Told => answers[i] = << >>
    BY <1>1, <1>5 DEF ControlInv, QueueInv, Told
  <1> DEFINE more == status = OK /\ w.sent + 1 < made[w.id].size
             over == IF wClosing THEN writes ELSE <<w>>
             next == [w EXCEPT !.sent = @ + 1]
  <1>7. CASE more /\ ~wClosing
    <2>1. writes' = <<next>> \o rest /\ toOwner' = Append(toOwner, ChunkOf(next))
          /\ UNCHANGED <<answers, shutdown>>
      BY <1>3, <1>7 DEF TakeAnswer
    <2>2. toOwner' = <<ChunkOf(next)>>
      BY <1>2, <2>1, FirstOf
    <2>3. GoesOn
      BY <1>3, <1>4, <1>7, <2>1, <2>2 DEF GoesOn
    <2> QED
      BY <1>1, <1>2, <1>3, <1>4, <1>5, <1>6, <2>3
  <1>8. CASE ~(more /\ ~wClosing)
    <2>1. /\ answers' = [i \in DOMAIN answers |->
                IF i = w.id THEN Append(answers[i], IF more THEN Canceled ELSE status)
                ELSE IF \E j \in DOMAIN over : over[j].id = i THEN Append(answers[i], Canceled)
                ELSE answers[i]]
          /\ IF over = writes \/ rest = <<>> THEN Emptied
             ELSE /\ writes' = rest
                  /\ toOwner' = Append(toOwner, ChunkOf(Head(rest)))
                  /\ UNCHANGED shutdown
      BY <1>3, <1>8 DEF TakeAnswer
    <2>2. DOMAIN answers = 1 .. Len(made) /\ Len(answers) = Len(made)
      BY <1>1, <1>6
    <2>3. answers' \in Seq(Seq(Replies))
      BY TakeAnswerTypes DEF StreamTypes, WriterTypes
    <2>4. Len(answers') = Len(answers)
      <3>1. DOMAIN answers' = 1 .. Len(answers')
        BY <2>3
      <3>2. DOMAIN answers' = 1 .. Len(made)
        BY <2>1, <2>2
      <3>3. Len(answers') \in Nat
        BY <2>3
      <3> QED
        BY <1>6, <2>2, <3>1, <3>2, <3>3, SameLength
    <2>5. DOMAIN over = IF wClosing THEN 1 .. Len(writes) ELSE {1}
      BY <1>1
    <2>6. \A j \in DOMAIN over : over[j].id = Told + j
      <3>1. CASE wClosing
        BY <1>6, <2>5, <3>1
      <3>2. CASE ~wClosing
        <4>1. over[1] = w
          BY <3>2
        <4> QED
          BY <1>6, <2>5, <3>2, <4>1
      <3> QED
        BY <3>1, <3>2
    <2> HIDE DEF over
    <2>7. answers'[w.id] = <<IF more THEN Canceled ELSE status>>
      <3>1. w.id \in 1 .. Len(made) /\ answers[w.id] = << >>
        BY <1>5, <1>6
      <3>2. answers'[w.id] = Append(answers[w.id], IF more THEN Canceled ELSE status)
        BY <2>1, <2>2, <3>1
      <3> HIDE DEF more
      <3> QED
        BY <3>1, <3>2, FirstOf
    <2>8. ASSUME NEW i \in 1 .. Len(made), i # Told + 1, ~\E j \in DOMAIN over : Told + j = i
          PROVE  answers'[i] = answers[i]
      BY <1>6, <2>1, <2>2, <2>6, <2>8
    <2>9. ASSUME NEW i \in 1 .. Len(made), i # Told + 1, \E j \in DOMAIN over : Told + j = i
          PROVE  answers'[i] = Append(answers[i], Canceled)
      BY <1>6, <2>1, <2>2, <2>6, <2>9
    <2>10. \A i \in 1 .. Len(made) : i <= Told => answers'[i] = answers[i]
      BY <1>6, <2>5, <2>8
    <2>11. more => wClosing
      BY <1>8
    <2> HIDE DEF more
    <2>12. CASE wClosing
      <3>1. over = writes /\ writes' = << >> /\ toOwner' = << >>
            /\ shutdown' = IF shutdown = "pending" THEN "done" ELSE shutdown
        BY <1>2, <2>1, <2>12 DEF over, Emptied
      <3>2. ASSUME NEW i \in 1 .. Len(made), i > Told + 1 PROVE answers'[i] = <<Canceled>>
        <4>1. i - Told \in DOMAIN over /\ Told + (i - Told) = i /\ answers[i] = << >>
          <5>1. DOMAIN over = 1 .. Len(writes)
            BY <2>5, <2>12
          <5>2. PICK t \in Nat, n \in Nat, m \in Nat : t = Told /\ n = Len(writes) /\ m = Len(made) /\ m = t + n
            BY <1>5, <1>6
          <5>3. i - t \in 1 .. n /\ t + (i - t) = i /\ i > t
            BY <3>2, <5>2
          <5> QED
            BY <1>6, <5>1, <5>2, <5>3
        <4>2. answers'[i] = Append(answers[i], Canceled)
          BY <1>6, <2>9, <3>2, <4>1
        <4> QED
          BY <4>1, <4>2, FirstOf
      <3>3. IsAnswered
        BY <1>3, <2>3, <2>4, <2>7, <2>10, <2>11, <2>12, <3>1, <3>2 DEF IsAnswered, more
      <3> QED
        BY <1>1, <1>2, <1>3, <1>4, <1>5, <1>6, <3>3
    <2>13. CASE ~wClosing
      <3>1. ASSUME NEW i \in 1 .. Len(made), i > Told + 1 PROVE answers'[i] = answers[i]
        BY <1>6, <2>5, <2>8, <2>13, <3>1
      <3>2. over = <<w>> /\ (over = writes => rest = << >>)
        BY <1>1, <1>3, <2>13 DEF over
      <3>3. \/ /\ writes' = << >> /\ rest = << >>
               /\ shutdown' = (IF shutdown = "pending" THEN "posted" ELSE shutdown)
               /\ toOwner' = IF shutdown = "pending" THEN <<Eof>> ELSE << >>
            \/ /\ rest # << >> /\ writes' = rest /\ shutdown' = shutdown
               /\ toOwner' = <<ChunkOf(Head(rest))>>
        BY <1>2, <2>1, <2>13, <3>2, FirstOf DEF Emptied
      <3>4. IsAnswered
        BY <1>3, <2>3, <2>4, <2>7, <2>10, <2>11, <2>13, <3>1, <3>3 DEF IsAnswered, more
      <3> QED
        BY <1>1, <1>2, <1>3, <1>4, <1>5, <1>6, <3>4
    <2> QED
      BY <2>12, <2>13
  <1> QED
    BY <1>7, <1>8

LEMMA QueueAnswered ==
  ASSUME StreamTypes, StreamTypes', ControlInv, TakeAnswer, IsAnswered
  PROVE  QueueInv'
  <1>1. /\ writes # << >> /\ Replied /\ own.toWriter = <<Head(own.toWriter)>>
        /\ Head(writes).id = Told + 1 /\ QueueInv
        /\ own'.rOpen = own.rOpen /\ UNCHANGED <<made, wClosing, channel>>
    BY TakeAnswerIs, TakeAnswerTypes DEF TakeAnswer, ControlInv
  <1>2. writes \in Seq(WriteSet) /\ made \in Seq(MadeSet) /\ Len(made) \in Nat
    BY DEF StreamTypes, WriterTypes
  <1>3. PICK t \in Nat, n \in Nat \ {0} : t = Told /\ n = Len(writes) /\ Len(made) = t + n
    <2>1. Len(writes) \in Nat \ {0}
      BY <1>1, <1>2, TailIs
    <2>2. PICK m \in Nat, n \in Nat \ {0} : m = Len(made) /\ n = Len(writes) /\ n <= m
      BY <1>1, <1>2, <2>1 DEF QueueInv
    <2>3. Told = m - n /\ m - n \in Nat /\ m = (m - n) + n
      BY <2>2 DEF Told
    <2> QED
      BY <2>2, <2>3
  <1>4. PICK status : status = Head(own.toWriter)
    OBVIOUS
  <1>5. Answer(t + 1)'
    <2>1. \/ answers'[t + 1] = <<Canceled>> /\ wClosing
          \/ answers'[t + 1] = <<status>>
      BY <1>1, <1>3, <1>4 DEF IsAnswered
    <2>2. \/ status = OK
          \/ status = Pipe /\ ~own.rOpen
          \/ status = Canceled /\ wClosing
      BY <1>1, <1>4 DEF Replied
    <2> QED
      BY <1>1, <2>1, <2>2 DEF Answer, Over
  <1>6. ASSUME NEW i \in 1 .. Len(made), i <= t PROVE Answer(i)'
    <2>1. Answer(i) /\ answers'[i] = answers[i]
      BY <1>1, <1>3, <1>6 DEF QueueInv, IsAnswered
    <2> QED
      BY <1>1, <2>1 DEF Answer, Over
  <1>7. Len(answers') = Len(made) /\ made' = made
    BY <1>1 DEF QueueInv, IsAnswered
  <1>8. CASE wClosing
    <2>1. writes' = << >> /\ Told' = Len(made) /\ Len(writes') = 0
      BY <1>1, <1>2, <1>8 DEF IsAnswered, Told
    <2>2. ASSUME NEW i \in 1 .. Len(made), i > t + 1 PROVE Answer(i)'
      <3>1. answers'[i] = <<Canceled>> /\ wClosing'
        BY <1>1, <1>3, <1>8, <2>2 DEF IsAnswered
      <3> QED
        BY <3>1 DEF Answer, Over
    <2>3. ASSUME NEW i \in 1 .. Len(made) PROVE Answer(i)'
      <3>1. i <= t \/ i = t + 1 \/ i > t + 1
        BY <1>3
      <3> QED
        BY <1>5, <1>6, <2>2, <3>1
    <2> QED
      BY <1>2, <1>7, <2>1, <2>3 DEF QueueInv
  <1>9. CASE ~wClosing
    <2>1. writes' = Tail(writes)
      BY <1>9 DEF IsAnswered
    <2>2. Len(writes') = n - 1 /\ \A k \in 1 .. n - 1 : writes'[k] = writes[k + 1]
      BY <1>1, <1>2, <1>3, <2>1, TailIs
    <2>3. Told' = t + 1
      BY <1>3, <1>7, <2>2 DEF Told
    <2>4. ASSUME NEW k \in 1 .. Len(writes')
          PROVE  /\ writes'[k].id = Told' + k /\ writes'[k].sent < made'[writes'[k].id].size
                 /\ writes'[k].sent = 0
      <3>1. k + 1 \in 1 .. Len(writes) /\ k + 1 > 1 /\ writes'[k] = writes[k + 1]
        BY <1>3, <2>2
      <3>2. writes[k + 1].id = t + (k + 1) /\ writes[k + 1].sent < made[writes[k + 1].id].size
            /\ writes[k + 1].sent = 0
        BY <1>1, <1>3, <3>1 DEF QueueInv
      <3>3. t + (k + 1) = (t + 1) + k
        BY <1>3
      <3> QED
        BY <1>7, <2>3, <3>1, <3>2, <3>3
    <2>5. ASSUME NEW i \in 1 .. Len(made) PROVE IF i > Told' THEN answers'[i] = << >> ELSE Answer(i)'
      <3>1. CASE i > t + 1
        <4>1. answers'[i] = answers[i] /\ i > t
          BY <1>3, <1>9, <3>1 DEF IsAnswered
        <4>2. answers[i] = << >>
          BY <1>1, <1>3, <4>1 DEF QueueInv
        <4> QED
          BY <2>3, <3>1, <4>1, <4>2
      <3>2. CASE i <= t
        <4>1. ~(i > t + 1)
          BY <1>3, <3>2
        <4> QED
          BY <1>6, <2>3, <3>2, <4>1
      <3>3. CASE i = t + 1
        BY <1>3, <1>5, <2>3, <3>3
      <3> QED
        BY <1>3, <3>1, <3>2, <3>3
    <2>6. Len(writes') <= Len(made')
      BY <1>3, <1>7, <2>2
    <2> QED
      BY <1>7, <2>4, <2>5, <2>6 DEF QueueInv
  <1> QED
    BY <1>8, <1>9

LEMMA ControlTakeAnswer ==
  ASSUME StreamTypes, ControlInv, TakeAnswer
  PROVE  ControlInv'
  <1>1. /\ writes # << >> /\ Replied /\ own.toWriter = <<Head(own.toWriter)>>
        /\ Head(writes) \in WriteSet /\ Head(writes).id = Told + 1 /\ Head(writes) = writes[1]
        /\ (GoesOn \/ IsAnswered) /\ QueueInv /\ FlightInv /\ ClosingInv
        /\ UNCHANGED <<made, writeEnded, wClosing, channel, rClosing>>
    BY TakeAnswerIs DEF TakeAnswer, ControlInv, reader
  <1>2. /\ own'.wOpen = own.wOpen /\ own'.rOpen = own.rOpen /\ own'.eof = own.eof
        /\ own'.toWriter = << >> /\ own'.slot = NoChunk /\ StreamTypes'
    <2>1. own.slot = NoChunk /\ Tail(own.toWriter) = << >>
      BY <1>1, OneTail DEF Replied
    <2> QED
      BY <2>1, TakeAnswerTypes
  <1>3. writes \in Seq(WriteSet) /\ made \in Seq(MadeSet) /\ WriterTypes' /\ channel = "open"
        /\ shutdown \in {"none", "pending"}
    BY <1>1, <1>2, TakeAnswerIs DEF StreamTypes, WriterTypes, FlightInv, ClosingInv
  <1>4. CASE GoesOn
    <2>1. PICK w, next, rest : w = Head(writes) /\ next = [w EXCEPT !.sent = @ + 1] /\ rest = Tail(writes)
      OBVIOUS
    <2>2. /\ ~wClosing /\ w.sent + 1 < made[w.id].size
          /\ writes' = <<next>> \o rest /\ toOwner' = <<ChunkOf(next)>>
          /\ UNCHANGED <<answers, shutdown>>
      BY <1>4, <2>1 DEF GoesOn
    <2>3. next \in WriteSet /\ next.id = w.id /\ next.sent = w.sent + 1
      BY <1>1, <2>1 DEF WriteSet
    <2>4. Len(writes') = Len(writes) /\ writes'[1] = next /\ writes' # << >> /\ Head(writes') = next
          /\ \A k \in 2 .. Len(writes) : writes'[k] = writes[k]
      <3>1. rest \in Seq(WriteSet) /\ Len(rest) = Len(writes) - 1 /\ Len(writes) \in Nat \ {0}
            /\ \A i \in 1 .. Len(writes) - 1 : rest[i] = writes[i + 1]
        BY <1>1, <1>3, <2>1, TailIs
      <3>2. PICK q \in Seq(WriteSet) : q = <<next>> \o rest
        <4>1. <<next>> \in Seq(WriteSet)
          BY <2>3
        <4> QED
          BY <3>1, <4>1, ConcatProperties
      <3>3. Len(q) = Len(writes) /\ q[1] = next /\ \A k \in 2 .. Len(writes) : q[k] = rest[k - 1]
        BY <2>3, <3>1, <3>2
      <3>4. \A k \in 2 .. Len(writes) : q[k] = writes[k]
        BY <3>1, <3>3
      <3> QED
        BY <2>2, <3>1, <3>2, <3>3, <3>4
    <2>5. QueueInv'
      <3>1. Told' = Told /\ answers' = answers /\ made' = made
        BY <1>1, <2>2, <2>4 DEF Told
      <3>2. \A i \in 1 .. Len(made') : IF i > Told' THEN answers'[i] = << >> ELSE Answer(i)'
        BY <1>1, <1>2, <3>1 DEF QueueInv, Answer, Over
      <3>3. ASSUME NEW k \in 1 .. Len(writes')
            PROVE  /\ writes'[k].id = Told' + k /\ writes'[k].sent < made'[writes'[k].id].size
                   /\ k > 1 => writes'[k].sent = 0
        <4>1. CASE k = 1
          <5>1. next.id = Told' + 1 /\ next.sent < made'[next.id].size
            BY <1>1, <2>1, <2>2, <2>3, <3>1
          <5> QED
            BY <2>4, <4>1, <5>1
        <4>2. CASE k # 1
          <5>1. k \in 2 .. Len(writes) /\ k \in 1 .. Len(writes) /\ k > 1
            BY <1>3, <2>4, <4>2
          <5> QED
            BY <1>1, <2>4, <3>1, <5>1 DEF QueueInv
        <4> QED
          BY <4>1, <4>2
      <3> QED
        BY <1>1, <2>4, <3>1, <3>2, <3>3 DEF QueueInv
    <2>6. Posted'
      <3>1. ChunkOf(next) = Due'
        BY <2>3, <2>4, ChunkOfPart, PartNext
      <3> QED
        BY <1>2, <2>2, <3>1 DEF Posted
    <2>7. FlightInv'
      BY <1>1, <1>3, <2>2, <2>4, <2>6 DEF FlightInv, Over
    <2>8. ClosingInv'
      BY <1>1, <1>2, <1>3, <2>2, <2>4 DEF ClosingInv, Over
    <2> QED
      BY <2>5, <2>7, <2>8 DEF ControlInv
  <1>5. CASE IsAnswered
    <2>1. QueueInv'
      BY <1>2, <1>5, QueueAnswered
    <2>2. CASE wClosing
      <3>1. writes' = << >> /\ toOwner' = << >>
            /\ shutdown' = IF shutdown = "pending" THEN "done" ELSE shutdown
        BY <1>5, <2>2 DEF IsAnswered
      <3>2. FlightInv'
        BY <1>1, <1>2, <1>3, <3>1 DEF FlightInv, Resting, Over
      <3>3. ClosingInv'
        BY <1>1, <1>2, <1>3, <2>2, <3>1 DEF ClosingInv, Over
      <3> QED
        BY <2>1, <3>2, <3>3 DEF ControlInv
    <2>3. CASE ~wClosing /\ Tail(writes) = << >>
      <3>1. /\ writes' = << >>
            /\ shutdown' = (IF shutdown = "pending" THEN "posted" ELSE shutdown)
            /\ toOwner' = IF shutdown = "pending" THEN <<Eof>> ELSE << >>
        BY <1>5, <2>3 DEF IsAnswered
      <3>2. FlightInv'
        BY <1>1, <1>2, <1>3, <2>3, <3>1 DEF FlightInv, Resting, Over
      <3>3. ClosingInv'
        BY <1>1, <1>2, <1>3, <2>3, <3>1 DEF ClosingInv, Over
      <3> QED
        BY <2>1, <3>2, <3>3 DEF ControlInv
    <2>4. CASE ~wClosing /\ Tail(writes) # << >>
      <3>1. writes' = Tail(writes) /\ shutdown' = shutdown /\ toOwner' = <<ChunkOf(Head(Tail(writes)))>>
        BY <1>5, <2>4 DEF IsAnswered
      <3>2. Head(writes') \in WriteSet /\ writes' # << >>
        BY <1>3, <2>4, <3>1 DEF WriterTypes
      <3>3. ChunkOf(Head(writes')) = Due'
        BY <3>2, ChunkOfPart, PartNext
      <3>4. Posted'
        BY <1>2, <3>1, <3>3 DEF Posted
      <3>5. FlightInv'
        BY <1>1, <1>3, <2>4, <3>2, <3>4 DEF FlightInv, Over
      <3>6. ClosingInv'
        BY <1>1, <1>2, <1>3, <3>1, <3>2 DEF ClosingInv, Over
      <3> QED
        BY <2>1, <3>5, <3>6 DEF ControlInv
    <2> QED
      BY <2>2, <2>3, <2>4
  <1> QED
    BY <1>1, <1>4, <1>5

\* A write made goes behind the others, or is answered at once where there is none.
LEMMA QueueMade ==
  ASSUME StreamTypes, StreamTypes', QueueInv, NEW size \in Sizes, NEW carries \in BOOLEAN,
         Write(size, carries), own'.rOpen = own.rOpen, NEW a, answers' = Append(answers, a),
         \/ /\ writes = << >> /\ writes' = << >>
            /\ a = <<OK>> \/ (a = <<Pipe>> /\ (~own.rOpen \/ channel # "open"))
         \/ /\ a = << >> /\ writes' = Append(writes, [id |-> Len(made) + 1, sent |-> 0])
  PROVE  QueueInv'
  <1>1. /\ Len(made') = Len(made) + 1 /\ Len(made) \in Nat /\ UNCHANGED <<wClosing, channel>>
        /\ \A i \in 1 .. Len(made) : made'[i] = made[i]
        /\ made'[Len(made) + 1].size \in Nat \ {0}
    BY WriteIs DEF MadeSet
  <1>2. /\ writes \in Seq(WriteSet) /\ writes' \in Seq(WriteSet)
        /\ answers \in Seq(Seq(Replies)) /\ answers' \in Seq(Seq(Replies))
        /\ \A k \in 1 .. Len(writes) : writes[k].id \in 1 .. Len(made)
    BY DEF StreamTypes, WriterTypes
  <1>3. /\ Len(answers') = Len(answers) + 1 /\ answers'[Len(answers) + 1] = a
        /\ \A i \in 1 .. Len(answers) : answers'[i] = answers[i]
    <2>1. DOMAIN answers' = 1 .. Len(answers) + 1 /\ Len(answers) + 1 \in 1 .. Len(answers) + 1
      BY <1>2
    <2> QED
      BY <1>2, <2>1
  <1>4. PICK n \in Nat, t \in Int, q \in Nat :
          n = Len(made) /\ t = Told /\ q = Len(writes) /\ n = Len(answers) /\ q <= n /\ t = n - q
    BY <1>1, <1>2 DEF QueueInv, Told
  <1>5. CASE writes = << >> /\ writes' = << >> /\ (a = <<OK>> \/ (a = <<Pipe>> /\ (~own.rOpen \/ channel # "open")))
    <2>1. Len(writes') = 0 /\ q = 0
      BY <1>4, <1>5
    <2>2. Told' = n + 1 /\ t = n
      BY <1>1, <1>4, <2>1 DEF Told
    <2>3. ASSUME NEW i \in 1 .. n + 1 PROVE Answer(i)'
      <3>1. CASE i = n + 1
        BY <1>1, <1>3, <1>4, <1>5, <3>1 DEF Answer, Over
      <3>2. CASE i \in 1 .. n
        <4>1. Answer(i) /\ answers'[i] = answers[i]
          BY <1>3, <1>4, <2>2, <3>2 DEF QueueInv
        <4> QED
          BY <1>1, <4>1 DEF Answer, Over
      <3> QED
        BY <3>1, <3>2
    <2>4. \A i \in 1 .. Len(made') : ~(i > Told')
      BY <1>1, <1>4, <2>2
    <2> QED
      BY <1>1, <1>3, <1>4, <2>1, <2>2, <2>3, <2>4 DEF QueueInv
  <1>6. CASE a = << >> /\ writes' = Append(writes, [id |-> Len(made) + 1, sent |-> 0])
    <2>a. [id |-> n + 1, sent |-> 0] \in WriteSet
      BY DEF WriteSet
    <2>1. PICK w \in WriteSet : w = [id |-> n + 1, sent |-> 0]
      BY <2>a
    <2>2. Len(writes') = q + 1 /\ writes'[q + 1] = w /\ \A k \in 1 .. q : writes'[k] = writes[k]
      BY <1>2, <1>4, <1>6, <2>1, AppendIs
    <2>3. Told' = t
      BY <1>1, <1>4, <2>2 DEF Told
    <2>4. ASSUME NEW i \in 1 .. n + 1
          PROVE  IF i > t THEN answers'[i] = << >> ELSE Answer(i)'
      <3>1. CASE i = n + 1
        BY <1>3, <1>4, <1>6, <3>1
      <3>2. CASE i \in 1 .. n
        <4>1. answers'[i] = answers[i] /\ (IF i > t THEN answers[i] = << >> ELSE Answer(i))
          BY <1>3, <1>4, <3>2 DEF QueueInv
        <4> QED
          BY <1>1, <4>1 DEF Answer, Over
      <3>3. i = n + 1 \/ i \in 1 .. n
        OBVIOUS
      <3> QED
        BY <3>1, <3>2, <3>3, Zenon
    <2>5. ASSUME NEW k \in 1 .. q + 1
          PROVE  /\ writes'[k].id = t + k /\ writes'[k].sent < made'[writes'[k].id].size
                 /\ k > 1 => writes'[k].sent = 0
      <3>1. CASE k = q + 1
        <4>1. w.id = n + 1 /\ w.sent = 0 /\ n + 1 = t + k /\ made'[n + 1].size \in Nat \ {0}
          BY <1>1, <1>4, <2>1, <3>1
        <4> QED
          BY <2>2, <3>1, <4>1
      <3>2. CASE k \in 1 .. q
        <4>1. /\ writes[k].id = t + k /\ writes[k].sent < made[writes[k].id].size
              /\ k > 1 => writes[k].sent = 0
          BY <1>4, <3>2 DEF QueueInv
        <4>2. writes[k].id \in 1 .. Len(made)
          BY <1>2, <1>4, <3>2
        <4> QED
          BY <1>1, <2>2, <3>2, <4>1, <4>2
      <3> QED
        BY <3>1, <3>2
    <2>6. /\ Len(answers') = Len(made') /\ Len(writes') <= Len(made')
          /\ \A k \in 1 .. Len(writes') :
               /\ writes'[k].id = Told' + k /\ writes'[k].sent < made'[writes'[k].id].size
               /\ k > 1 => writes'[k].sent = 0
      BY <1>1, <1>3, <1>4, <2>2, <2>3, <2>5
    <2>7. \A i \in 1 .. Len(made') : IF i > Told' THEN answers'[i] = << >> ELSE Answer(i)'
      BY <1>1, <1>4, <2>3, <2>4
    <2> QED
      BY <2>6, <2>7 DEF QueueInv
  <1> QED
    BY <1>5, <1>6

LEMMA ControlWrite ==
  ASSUME StreamTypes, ControlInv, NEW size \in Sizes, NEW carries \in BOOLEAN, Write(size, carries)
  PROVE  ControlInv'
  <1>1. /\ ~wClosing /\ ~writeEnded /\ UNCHANGED <<writeEnded, shutdown, wClosing, channel, rClosing>>
        /\ Len(made') = Len(made) + 1 /\ Len(made) \in Nat
        /\ \A i \in 1 .. Len(made) : made'[i] = made[i]
        /\ made'[Len(made) + 1] = [size |-> size, carries |-> carries]
        /\ (size = 1 /\ ~carries /\ WriteNow) \/ WriteQueued(carries)
    BY WriteIs DEF reader
  <1>2. /\ own \in Owners /\ StreamTypes' /\ QueueInv /\ FlightInv /\ ClosingInv /\ WriterTypes
        /\ shutdown = "none" /\ (channel = "open" => ~own.eof)
    BY <1>1, WriteTypes DEF StreamTypes, ControlInv, FlightInv, ClosingInv, Over
  <1>3. CASE size = 1 /\ ~carries /\ WriteNow
    <2>1. made'[Len(made) + 1] = [size |-> size, carries |-> FALSE]
      BY <1>1, <1>3
    <2>2. /\ writes = << >> /\ toOwner = << >> /\ own'.slot = own.slot /\ UNCHANGED <<writes, toOwner>>
          /\ own'.wOpen = own.wOpen /\ own'.rOpen = own.rOpen /\ own'.eof = own.eof
          /\ own'.toWriter = own.toWriter
          /\ \/ answers' = Append(answers, <<Pipe>>) /\ (~own.rOpen \/ channel # "open")
             \/ answers' = Append(answers, <<OK>>)
      BY <1>1, <1>2, <1>3, <2>1, WriteNowIs DEF Untouched
    <2>3. QueueInv'
      BY <1>2, <2>2, QueueMade
    <2>4. FlightInv'
      BY <1>1, <1>2, <2>2 DEF FlightInv, Resting, Over
    <2>5. ClosingInv'
      BY <1>1, <1>2, <2>2, ClosingSame
    <2> QED
      BY <2>3, <2>4, <2>5 DEF ControlInv
  <1>4. CASE WriteQueued(carries)
    <2>1. PICK w : w = [id |-> Len(made) + 1, sent |-> 0]
      OBVIOUS
    <2>2. /\ w \in WriteSet /\ writes' = Append(writes, w) /\ answers' = Append(answers, << >>)
          /\ toOwner' = IF writes = << >> /\ channel = "open" THEN Append(toOwner, ChunkOf(w)) ELSE toOwner
          /\ own'.wOpen = own.wOpen /\ own'.rOpen = own.rOpen /\ own'.eof = own.eof
          /\ own'.slot = own.slot /\ own'.toWriter = own.toWriter
      BY <1>1, <1>2, <1>4, <2>1, WriteQueuedIs
    <2>3. QueueInv'
      <3>1. PICK a : a = << >>
        OBVIOUS
      <3>2. answers' = Append(answers, a) /\ writes' = Append(writes, [id |-> Len(made) + 1, sent |-> 0])
        BY <2>1, <2>2, <3>1
      <3> QED
        BY <1>2, <2>2, <3>1, <3>2, QueueMade
    <2>4. writes \in Seq(WriteSet) /\ writes' # << >>
      <3>1. writes \in Seq(WriteSet)
        BY <1>2 DEF WriterTypes
      <3>2. Append(writes, w) # << >>
        BY <2>2, <3>1
      <3> QED
        BY <2>2, <3>1, <3>2
    <2>5. ClosingInv'
      BY <1>1, <1>2, <2>2, <2>4 DEF ClosingInv, Over
    <2>6. CASE writes = << >> /\ channel = "open"
      <3>1. own.slot = NoChunk /\ toOwner = << >> /\ own.toWriter = << >>
        BY <1>2, <2>6 DEF FlightInv, Resting
      <3>2. writes' = <<w>> /\ toOwner' = <<ChunkOf(w)>>
        BY <2>2, <2>6, <3>1, FirstOf
      <3>3. Head(writes') = w
        BY <3>2
      <3>4. ChunkOf(w) = Due'
        BY <2>2, <3>3, ChunkOfPart, PartNext
      <3>5. Posted'
        BY <2>2, <3>1, <3>2, <3>4 DEF Posted
      <3>6. FlightInv'
        BY <1>1, <1>2, <2>4, <2>6, <3>5 DEF FlightInv, Over
      <3> QED
        BY <2>3, <2>5, <3>6 DEF ControlInv
    <2>7. CASE writes # << >> /\ channel = "open"
      <3>1. Head(writes') = Head(writes) /\ Head(writes).id \in 1 .. Len(made)
        <4>1. Head(writes) = writes[1] /\ Len(writes) \in Nat \ {0} /\ Head(writes') = writes'[1]
              /\ writes'[1] = writes[1]
          BY <2>2, <2>4, <2>7
        <4> QED
          BY <1>2, <4>1 DEF WriterTypes
      <3>2. Due' = Due
        <4>1. made'[Head(writes).id] = made[Head(writes).id]
          BY <1>1, <3>1
        <4>2. Due = PartOf(made, Head(writes).id, Head(writes).sent + 1)
          BY PartIs DEF Due
        <4>3. Due' = PartOf(made', Head(writes).id, Head(writes).sent + 1)
          BY <3>1, PartNext
        <4>4. PICK i, k : i = Head(writes).id /\ k = Head(writes).sent + 1
          OBVIOUS
        <4>5. made'[i] = made[i]
          BY <4>1, <4>4
        <4>6. PartOf(made', i, k) = PartOf(made, i, k)
          BY <4>5, PartOfStable
        <4> QED
          BY <4>2, <4>3, <4>4, <4>6
      <3>3. Posted' \/ Waiting' \/ Replied'
        BY <1>1, <1>2, <2>2, <2>7, <3>2 DEF FlightInv, Posted, Waiting, Replied
      <3>4. FlightInv'
        BY <1>1, <1>2, <2>2, <2>4, <2>7, <3>3 DEF FlightInv, Over
      <3> QED
        BY <2>3, <2>5, <3>4 DEF ControlInv
    <2>8. CASE channel # "open"
      <3>1. toOwner' = toOwner /\ FlightInv'
        BY <1>1, <1>2, <2>2, <2>4, <2>8 DEF FlightInv, Over
      <3> QED
        BY <2>3, <2>5, <3>1 DEF ControlInv
    <2> QED
      BY <2>6, <2>7, <2>8
  <1> QED
    BY <1>1, <1>3, <1>4

LEMMA ClosedWriterIs ==
  ASSUME NEW o \in Owners, NEW p, p = CloseWriter(o)
  PROVE  /\ ~p.wOpen /\ p.eof /\ p.rOpen = o.rOpen /\ p.slot = NoChunk
         /\ p.toWriter = IF o.slot = NoChunk THEN o.toWriter ELSE Append(o.toWriter, Canceled)
  <1>1. PICK q \in Owners :
          /\ SameEnds(q, p) /\ Published(q, p)
          /\ ~q.wOpen /\ q.eof /\ q.rOpen = o.rOpen /\ q.slot = NoChunk
          /\ q.toWriter = IF o.slot = NoChunk THEN o.toWriter ELSE Append(o.toWriter, Canceled)
    BY CloseWriterIs
  <1>2. p.slot = q.slot /\ p.toWriter = q.toWriter
    <2>1. CASE \E r \in Owners : OneRead(q, r) /\ Retried(r, p)
      <3>1. PICK r \in Owners : OneRead(q, r) /\ Retried(r, p)
        BY <2>1
      <3>2. r.slot = NoChunk /\ r.toWriter = q.toWriter
        BY <1>1, <3>1 DEF OneRead
      <3>3. NoChunk \notin ChunkSet
        BY ChunkIs
      <3> QED
        BY <1>1, <3>1, <3>2, <3>3 DEF Retried
    <2> QED
      BY <1>1, <2>1 DEF Published
  <1> QED
    BY <1>1, <1>2 DEF SameEnds

LEMMA ControlClose ==
  ASSUME StreamTypes, ControlInv, Close
  PROVE  ControlInv'
  <1>1. /\ ~wClosing /\ toOwner = << >> /\ wClosing'
        /\ UNCHANGED <<writes, made, answers, writeEnded, channel, toOwner, rClosing>>
        /\ own \in Owners /\ WriterTypes /\ Over'
    BY DEF Close, StreamTypes, reader, Over
  <1>2. CASE channel = "open"
    <2>a. own' = CloseWriter(own) /\ shutdown' = shutdown
      BY <1>2 DEF Close
    <2>1. /\ ~own'.wOpen /\ own'.eof /\ own'.rOpen = own.rOpen /\ own'.slot = NoChunk
          /\ own'.toWriter = IF own.slot = NoChunk THEN own.toWriter ELSE Append(own.toWriter, Canceled)
      BY <1>1, <2>a, ClosedWriterIs
    <2>2. QueueInv'
      BY <1>1, <2>1, QueueSame DEF ControlInv
    <2>3. ClosingInv'
      BY <1>1, <2>a, <2>1 DEF ControlInv, ClosingInv, Over
    <2>4. CASE writes = << >>
      <3>1. FlightInv'
        BY <1>1, <1>2, <2>a, <2>1, <2>4 DEF ControlInv, FlightInv, Resting
      <3> QED
        BY <2>2, <2>3, <3>1 DEF ControlInv
    <2>5. CASE writes # << >> /\ Waiting
      <3>1. own.slot # NoChunk /\ own.toWriter = << >>
        BY <1>1, <2>5, DueIs, ChunkIs DEF Waiting
      <3>2. own'.toWriter = <<Canceled>>
        BY <2>1, <3>1, FirstOf
      <3>3. FlightInv'
        BY <1>1, <1>2, <2>1, <2>5, <3>2 DEF FlightInv, Replied
      <3> QED
        BY <2>2, <2>3, <3>3 DEF ControlInv
    <2>6. CASE writes # << >> /\ Replied
      <3>1. FlightInv'
        BY <1>1, <1>2, <2>1, <2>6 DEF FlightInv, Replied
      <3> QED
        BY <2>2, <2>3, <3>1 DEF ControlInv
    <2>7. ~Posted
      BY <1>1 DEF Posted
    <2> QED
      BY <1>2, <2>4, <2>5, <2>6, <2>7 DEF ControlInv, FlightInv
  <1>3. CASE channel # "open"
    <2>1. own' = own /\ shutdown' = IF shutdown = "posted" THEN "lost" ELSE shutdown
      BY <1>3 DEF Close
    <2>2. QueueInv'
      BY <1>1, <2>1, QueueSame DEF ControlInv
    <2>3. ClosingInv'
      BY <1>1, <1>3, <2>1 DEF ControlInv, ClosingInv, Over
    <2>4. FlightInv'
      BY <1>1, <1>3, <2>1 DEF ControlInv, FlightInv, Resting, Over
    <2> QED
      BY <2>2, <2>3, <2>4 DEF ControlInv
  <1> QED
    BY <1>2, <1>3

LEMMA ControlTransport ==
  ASSUME StreamTypes, ControlInv, TransportClosed
  PROVE  ControlInv'
  <1>1. /\ channel' # "open" /\ toOwner' = << >> /\ own'.toWriter = << >>
        /\ UNCHANGED <<writes, made, answers, writeEnded, shutdown, wClosing, rClosing>>
        /\ own \in Owners /\ Over'
    BY TransportClosedIs DEF StreamTypes, reader, Over
  <1>2. ~own'.wOpen /\ own'.rOpen = own.rOpen /\ own'.slot = NoChunk
    BY <1>1, TransportClosedIs, ClosedWriterIs
  <1>3. QueueInv'
    BY <1>1, <1>2, QueueSame DEF ControlInv
  <1>4. FlightInv'
    BY <1>1, <1>2 DEF FlightInv, Resting
  <1>5. ClosingInv'
    BY <1>1, <1>2 DEF ControlInv, ClosingInv
  <1> QED
    BY <1>3, <1>4, <1>5 DEF ControlInv

\* The first write queued is answered in the driver, and nothing else changes.
LEMMA AnsweredFirst ==
  ASSUME StreamTypes, QueueInv, writes # << >>, NEW status \in {Pipe, Canceled},
         answers' = Answered(<<Head(writes)>>, status)
  PROVE  /\ Len(answers') = Len(made)
         /\ \A i \in 1 .. Len(made) :
              answers'[i] = IF i = Told + 1 THEN <<status>> ELSE answers[i]
  <1>1. Head(writes).id = Told + 1 /\ Head(writes).id \in 1 .. Len(made)
    BY FirstIs
  <1>2. /\ answers \in Seq(Seq(Replies)) /\ DOMAIN answers = 1 .. Len(made) /\ Len(answers) = Len(made)
        /\ status \in Replies
    BY DEF StreamTypes, WriterTypes, QueueInv, Replies
  <1>3. PICK w : w = Head(writes)
    OBVIOUS
  <1>4. DOMAIN <<w>> = {1} /\ <<w>>[1] = w
    OBVIOUS
  <1>5. \A i \in 1 .. Len(made) :
          answers'[i] = IF i = Told + 1 THEN Append(answers[i], status) ELSE answers[i]
    BY <1>1, <1>2, <1>3, <1>4 DEF Answered
  <1>6. answers[Told + 1] = << >>
    <2>1. made \in Seq(MadeSet) /\ writes \in Seq(WriteSet)
      BY DEF StreamTypes, WriterTypes
    <2>2. PICK n \in Nat, q \in Nat : n = Len(made) /\ q = Len(writes)
      BY <2>1
    <2>3. Told + 1 > Told
      BY <2>2 DEF Told
    <2> QED
      BY <1>1, <2>3 DEF QueueInv
  <1>7. Append(answers[Told + 1], status) = <<status>>
    BY <1>6, FirstOf
  <1>8. Len(answers') = Len(made)
    BY <1>2, AnsweredTypes
  <1> QED
    BY <1>5, <1>7, <1>8

LEMMA ControlFails ==
  ASSUME StreamTypes, ControlInv, WriteFails
  PROVE  /\ ControlInv' /\ writes # << >> /\ channel # "open" /\ channel' # "open"
         /\ UNCHANGED <<made, own, reader>>
         /\ \A i \in 1 .. Len(made) : answers'[i] = <<OK>> => answers[i] = <<OK>>
         /\ writes' # << >> => Head(writes').sent = 0
  <1>1. /\ channel # "open" /\ writes # << >> /\ writes' = Tail(writes)
        /\ shutdown' = (IF shutdown = "pending" /\ Tail(writes) = << >> THEN "done" ELSE shutdown)
        /\ UNCHANGED <<made, writeEnded, wClosing, channel, toOwner, own, reader>> /\ QueueInv
    BY DEF WriteFails, ControlInv
  <1>2. PICK status \in {Pipe, Canceled} : answers' = Answered(<<Head(writes)>>, status)
    BY DEF WriteFails
  <1>3. /\ Len(answers') = Len(made)
        /\ \A i \in 1 .. Len(made) : answers'[i] = IF i = Told + 1 THEN <<status>> ELSE answers[i]
    BY <1>1, <1>2, AnsweredFirst
  <1>4. /\ writes \in Seq(WriteSet) /\ writes' \in Seq(WriteSet) /\ Len(writes) \in Nat \ {0}
        /\ Len(writes') = Len(writes) - 1 /\ \A k \in 1 .. Len(writes) - 1 : writes'[k] = writes[k + 1]
    <2>1. writes \in Seq(WriteSet)
      BY DEF StreamTypes, WriterTypes
    <2> QED
      BY <1>1, <2>1, TailIs
  <1>5. PICK t \in Nat, n \in Nat \ {0} : t = Told /\ n = Len(writes) /\ Len(made) = t + n
    <2>1. made \in Seq(MadeSet)
      BY DEF StreamTypes, WriterTypes
    <2>a. Len(made) \in Nat /\ Len(writes) \in Nat \ {0} /\ Len(writes) <= Len(made)
      BY <1>1, <1>4, <2>1 DEF QueueInv
    <2>2. PICK m \in Nat, n \in Nat \ {0} : m = Len(made) /\ n = Len(writes) /\ n <= m
      BY <2>a
    <2>3. Told = m - n /\ m - n \in Nat /\ m = (m - n) + n
      BY <2>2 DEF Told
    <2> QED
      BY <2>2, <2>3
  <1>6. Told' = t + 1
    BY <1>1, <1>4, <1>5 DEF Told
  <1>7. ASSUME NEW k \in 1 .. Len(writes')
        PROVE  /\ writes'[k].id = Told' + k /\ writes'[k].sent < made'[writes'[k].id].size
               /\ writes'[k].sent = 0
    <2>1. k + 1 \in 1 .. Len(writes) /\ k + 1 > 1 /\ writes'[k] = writes[k + 1]
      BY <1>4
    <2>2. writes[k + 1].id = t + (k + 1) /\ writes[k + 1].sent < made[writes[k + 1].id].size
          /\ writes[k + 1].sent = 0
      BY <1>1, <1>5, <2>1 DEF QueueInv
    <2>3. t + (k + 1) = (t + 1) + k
      BY <1>5
    <2> QED
      BY <1>1, <1>6, <2>1, <2>2, <2>3
  <1>8. ASSUME NEW i \in 1 .. Len(made) PROVE IF i > Told' THEN answers'[i] = << >> ELSE Answer(i)'
    <2>1. CASE i > t + 1
      <3>1. answers'[i] = answers[i] /\ i > t
        BY <1>3, <1>5, <2>1
      <3>2. answers[i] = << >>
        BY <1>1, <1>5, <3>1 DEF QueueInv
      <3> QED
        BY <1>6, <2>1, <3>1, <3>2
    <2>2. CASE i <= t
      <3>1. ~(i > t + 1) /\ answers'[i] = answers[i]
        BY <1>3, <1>5, <2>2
      <3>2. Answer(i)
        BY <1>1, <1>5, <2>2 DEF QueueInv
      <3>3. Answer(i)'
        BY <1>1, <3>1, <3>2 DEF Answer, Over
      <3> QED
        BY <1>6, <3>1, <3>3
    <2>3. CASE i = t + 1
      <3>1. answers'[i] = <<status>>
        BY <1>3, <1>5, <2>3
      <3>2. Answer(i)'
        BY <1>1, <3>1 DEF Answer, Over
      <3> QED
        BY <1>5, <1>6, <2>3, <3>2
    <2> QED
      BY <1>5, <2>1, <2>2, <2>3
  <1>9. QueueInv'
    <2>1. Len(writes') <= Len(made')
      BY <1>1, <1>4, <1>5
    <2> QED
      BY <1>1, <1>3, <1>7, <1>8, <2>1 DEF QueueInv
  <1>10. FlightInv'
    BY <1>1 DEF ControlInv, FlightInv, Resting, Over
  <1>11. ClosingInv'
    BY <1>1 DEF ControlInv, ClosingInv, Over, reader
  <1>12. ASSUME NEW i \in 1 .. Len(made), answers'[i] = <<OK>> PROVE answers[i] = <<OK>>
    BY <1>3, <1>12, NotYet
  <1>13. ASSUME writes' # << >> PROVE Head(writes').sent = 0
    <2>1. Head(writes') = writes'[1] /\ Len(writes') \in Nat \ {0}
      BY <1>4, <1>13, TailIs
    <2>2. 1 \in 1 .. Len(writes')
      BY <2>1
    <2> QED
      BY <1>7, <2>1, <2>2
  <1> QED
    BY <1>1, <1>9, <1>10, <1>11, <1>12, <1>13 DEF ControlInv

LEMMA ControlStopped ==
  ASSUME StreamTypes, ControlInv, OwnerStopped
  PROVE  ControlInv'
  <1>1. /\ channel # "open" /\ channel' # "open" /\ wClosing' /\ writes' = << >>
        /\ answers' = Answered(writes, Canceled)
        /\ shutdown' = (IF shutdown \in {"none", "lost"} THEN shutdown ELSE "done")
        /\ UNCHANGED <<made, writeEnded, toOwner, own, rClosing>>
        /\ WriterTypes /\ Over /\ Over'
    BY DEF OwnerStopped, StreamTypes, reader, Over
  <1>3. FlightInv'
    BY <1>1 DEF ControlInv, FlightInv, Resting
  <1>4. ClosingInv'
    BY <1>1 DEF ControlInv, ClosingInv
  <1>5. QueueInv'
    <2>1. /\ writes \in Seq(WriteSet) /\ answers \in Seq(Seq(Replies)) /\ Len(made) \in Nat
          /\ DOMAIN answers = 1 .. Len(made) /\ DOMAIN writes = 1 .. Len(writes) /\ QueueInv
      BY <1>1 DEF WriterTypes, ControlInv, QueueInv
    <2>2. PICK n \in Nat, t \in Nat, q \in Nat : n = Len(made) /\ t = Told /\ q = Len(writes) /\ n = t + q
      <3>a. Len(writes) \in Nat
        BY <2>1
      <3>1. PICK m \in Nat, q \in Nat : m = Len(made) /\ q = Len(writes) /\ q <= m
        BY <2>1, <3>a DEF QueueInv
      <3>2. Told = m - q /\ m - q \in Nat /\ m = (m - q) + q
        BY <3>1 DEF Told
      <3> QED
        BY <3>1, <3>2
    <2>3. answers' = [i \in 1 .. n |-> IF \E j \in 1 .. q : writes[j].id = i
                                       THEN Append(answers[i], Canceled) ELSE answers[i]]
      BY <1>1, <2>1, <2>2 DEF Answered
    <2>4. Len(answers') = n
      <3>1. answers' \in Seq(Seq(Replies))
        BY WriterEndTypes DEF StreamTypes, WriterTypes
      <3>2. DOMAIN answers' = 1 .. n /\ DOMAIN answers' = 1 .. Len(answers') /\ Len(answers') \in Nat
        BY <2>3, <3>1
      <3> QED
        BY <3>2, SameLength
    <2>5. Told' = n /\ Len(writes') = 0
      BY <1>1, <2>2 DEF Told
    <2>6. \A j \in 1 .. q : writes[j].id = t + j
      BY <2>1, <2>2 DEF QueueInv
    <2>7. ASSUME NEW i \in 1 .. n PROVE Answer(i)'
      <3>1. CASE i > t
        <4>1. i - t \in 1 .. q /\ writes[i - t].id = i
          <5>1. i - t \in 1 .. q /\ t + (i - t) = i
            BY <2>2, <3>1
          <5> QED
            BY <2>6, <5>1
        <4>2. answers[i] = << >>
          BY <2>1, <2>2, <3>1 DEF QueueInv
        <4>3. answers'[i] = Append(answers[i], Canceled)
          BY <2>3, <4>1
        <4>4. answers'[i] = <<Canceled>>
          BY <4>2, <4>3, FirstOf
        <4> QED
          BY <1>1, <4>4 DEF Answer, Over
      <3>2. CASE ~(i > t)
        <4>1. ~\E j \in 1 .. q : writes[j].id = i
          BY <2>6, <3>2
        <4>2. answers'[i] = answers[i]
          BY <2>3, <4>1
        <4>3. Answer(i)
          BY <2>1, <2>2, <3>2 DEF QueueInv
        <4> QED
          BY <1>1, <4>2, <4>3 DEF Answer, Over
      <3> QED
        BY <3>1, <3>2
    <2>8. Len(made') = n
      BY <1>1, <2>2
    <2>9. \A i \in 1 .. Len(made') : ~(i > Told') /\ Answer(i)'
      BY <2>5, <2>7, <2>8
    <2>10. Len(answers') = Len(made') /\ Len(writes') <= Len(made') /\ 1 .. Len(writes') = {}
      BY <2>4, <2>5, <2>8
    <2> QED
      BY <2>9, <2>10 DEF QueueInv
  <1> QED
    BY <1>3, <1>4, <1>5 DEF ControlInv

LEMMA ControlShutdown ==
  ASSUME StreamTypes, ControlInv, Shutdown \/ TakeShutdown
  PROVE  /\ ControlInv' /\ own'.inbound = own.inbound /\ own'.toReader = own.toReader
         /\ own'.ended = own.ended /\ own'.eof = own.eof
         /\ UNCHANGED <<writes, made, answers, wClosing, channel, reader>>
         /\ own'.toWriter = own.toWriter \/ (writes = << >> /\ own'.toWriter = << >>)
  <1>1. CASE Shutdown
    <2>1. /\ ~wClosing /\ ~writeEnded /\ writeEnded'
          /\ UNCHANGED <<writes, made, answers, wClosing, channel, own, reader>>
      BY <1>1 DEF Shutdown
    <2>2. shutdown = "none" /\ (channel = "open" => ~own.eof)
      BY <2>1 DEF ControlInv, ClosingInv, FlightInv, Over
    <2>3. QueueInv'
      BY <2>1, QueueSame DEF ControlInv
    <2>4. CASE writes = << >> /\ channel = "open"
      <3>1. own.slot = NoChunk /\ toOwner = << >> /\ own.toWriter = << >>
        BY <2>2, <2>4 DEF ControlInv, FlightInv, Resting
      <3>2. shutdown' = "posted" /\ toOwner' = <<Eof>>
        BY <1>1, <2>4, <3>1, FirstOf DEF Shutdown
      <3>3. FlightInv'
        BY <2>1, <2>2, <2>4, <3>1, <3>2 DEF FlightInv, Resting, Over
      <3>4. ClosingInv'
        BY <2>1, <2>2, <2>4, <3>2 DEF ControlInv, ClosingInv, reader, Over
      <3> QED
        BY <2>1, <2>3, <3>3, <3>4 DEF ControlInv
    <2>5. CASE writes # << >>
      <3>1. shutdown' = "pending" /\ toOwner' = toOwner
        BY <1>1, <2>5 DEF Shutdown
      <3>2. Due' = Due
        BY <2>1, DueSame
      <3>3. channel = "open" => Posted' \/ Waiting' \/ Replied'
        BY <2>1, <2>5, <3>1, <3>2 DEF ControlInv, FlightInv, Posted, Waiting, Replied
      <3>4. FlightInv'
        BY <2>1, <2>2, <2>5, <3>1, <3>3 DEF ControlInv, FlightInv, Over
      <3>5. ClosingInv'
        BY <2>1, <2>2, <2>5, <3>1 DEF ControlInv, ClosingInv, reader, Over
      <3> QED
        BY <2>1, <2>3, <3>4, <3>5 DEF ControlInv
    <2>6. CASE writes = << >> /\ channel # "open"
      <3>1. shutdown' = "done" /\ toOwner' = toOwner
        BY <1>1, <2>6 DEF Shutdown
      <3>2. FlightInv'
        BY <2>1, <2>2, <2>6, <3>1 DEF ControlInv, FlightInv, Resting, Over
      <3>3. ClosingInv'
        BY <2>1, <2>2, <2>6, <3>1 DEF ControlInv, ClosingInv, reader, Over
      <3> QED
        BY <2>1, <2>3, <3>2, <3>3 DEF ControlInv
    <2> QED
      BY <2>4, <2>5, <2>6
  <1>2. CASE TakeShutdown
    <2>1. /\ own.toWriter # << >> /\ Head(own.toWriter) = "shutdown" /\ shutdown' = "done"
          /\ own' = [own EXCEPT !.toWriter = Tail(@)] /\ own \in Owners
          /\ UNCHANGED <<writes, made, answers, writeEnded, wClosing, channel, toOwner, reader>>
      BY <1>2 DEF TakeShutdown, StreamTypes
    <2>2. /\ own'.wOpen = own.wOpen /\ own'.rOpen = own.rOpen /\ own'.eof = own.eof
          /\ own'.slot = own.slot /\ own'.toWriter = Tail(own.toWriter)
          /\ own'.inbound = own.inbound /\ own'.toReader = own.toReader /\ own'.ended = own.ended
      BY <2>1 DEF Owners
    <2>3. writes = << >>
      <3>1. own.toWriter # <<OK>> /\ own.toWriter # <<Pipe>> /\ own.toWriter # <<Canceled>>
        BY <2>1 DEF OK, Pipe, Canceled
      <3> QED
        BY <2>1, <3>1 DEF ControlInv, FlightInv, Posted, Waiting, Replied
    <2>4. toOwner = << >> /\ own.toWriter = <<"shutdown">> /\ shutdown = "posted" /\ own.slot = NoChunk
      BY <2>1, <2>3 DEF ControlInv, FlightInv, Resting
    <2>5. own'.toWriter = << >>
      BY <2>2, <2>4
    <2>6. FlightInv'
      BY <2>1, <2>2, <2>3, <2>4, <2>5 DEF ControlInv, FlightInv, Resting, Over
    <2>7. ClosingInv'
      BY <2>1, <2>2, <2>3, <2>4 DEF ControlInv, ClosingInv, reader, Over
    <2>8. QueueInv'
      BY <2>1, <2>2, QueueSame DEF ControlInv
    <2> QED
      BY <2>1, <2>2, <2>3, <2>5, <2>6, <2>7, <2>8 DEF ControlInv
  <1> QED
    BY <1>1, <1>2

LEMMA ControlReaderClose ==
  ASSUME StreamTypes, ControlInv, ReaderClose
  PROVE  ControlInv'
  <1>1. own \in Owners /\ WriterTypes
    BY DEF StreamTypes
  <1>2. /\ rClosing' /\ ~own'.rOpen /\ own'.wOpen = own.wOpen /\ own'.eof = own.eof
        /\ own'.slot = NoChunk
        /\ own'.toWriter = (IF own.slot = NoChunk THEN own.toWriter ELSE Append(own.toWriter, Pipe))
        /\ UNCHANGED <<writes, made, answers, writeEnded, shutdown, wClosing, channel, toOwner>>
    BY <1>1, ReaderCloseIs DEF writer
  <1>3. QueueInv'
    BY <1>2, QueueSame DEF ControlInv
  <1>4. ClosingInv'
    BY <1>2 DEF ControlInv, ClosingInv, Over
  <1>5. Due' = Due
    BY <1>2, DueSame
  <1>6. FlightInv'
    <2>1. CASE own.slot = NoChunk
      BY <1>2, <1>5, <2>1 DEF ControlInv, FlightInv, Resting, Posted, Waiting, Replied, Over
    <2>2. CASE own.slot # NoChunk
      <3>1. own.slot \in ChunkSet
        BY <1>1, <2>2 DEF Owners
      <3>2. Waiting /\ writes # << >> /\ ~Over
        BY <3>1, WaitsInTime DEF ControlInv
      <3>3. own'.toWriter = <<Pipe>> /\ toOwner' = << >>
        BY <1>2, <2>2, <3>2, FirstOf DEF Waiting
      <3>4. Replied'
        BY <1>2, <3>3 DEF Replied
      <3> QED
        BY <1>2, <3>2, <3>4 DEF ControlInv, FlightInv, Over
    <2> QED
      BY <2>1, <2>2
  <1> QED
    BY <1>3, <1>4, <1>6 DEF ControlInv

\* Nothing that the writer's queue depends on is touched.
LEMMA ControlSame ==
  ASSUME ControlInv, UNCHANGED <<writer, rClosing>>, own'.wOpen = own.wOpen, own'.rOpen = own.rOpen,
         own'.eof = own.eof, own'.slot = own.slot, own'.toWriter = own.toWriter
  PROVE  ControlInv'
  <1>1. UNCHANGED <<made, writes, answers, toOwner, shutdown, channel, wClosing, writeEnded>>
    BY DEF writer
  <1> QED
    BY <1>1, QueueSame, FlightSame, ClosingSame DEF ControlInv

LEMMA ControlStart == ASSUME StreamInit PROVE ControlInv
  <1>1. /\ writes = << >> /\ made = << >> /\ answers = << >> /\ ~writeEnded /\ shutdown = "none"
        /\ ~wClosing /\ channel = "open" /\ toOwner = << >> /\ ~rClosing
        /\ own.wOpen /\ own.rOpen /\ own.slot = NoChunk /\ ~own.eof /\ own.toWriter = << >>
    BY DEF StreamInit
  <1>2. Len(writes) = 0 /\ Len(made) = 0 /\ Len(answers) = 0 /\ Told = 0
    BY <1>1 DEF Told
  <1>3. QueueInv
    BY <1>2 DEF QueueInv
  <1> QED
    BY <1>1, <1>3 DEF ControlInv, FlightInv, Resting, ClosingInv, Over

LEMMA ControlStep == ASSUME StreamTypes, ControlInv, StreamNext PROVE ControlInv'
  <1>1. own \in Owners /\ ReaderTypes
    BY DEF StreamTypes
  <1>2. CASE OwnerTurn
    BY <1>1, <1>2, OwnerTurnIs, ControlPublished DEF reader
  <1>3. CASE TakeGrant
    BY <1>1, <1>3, TakeGrantIs, ControlPublished
  <1>4. CASE ReadStart \/ ReadStop \/ ReaderTurn
    <2>1. Alike(own, own') /\ UNCHANGED <<writer, rClosing>>
      BY <1>1, <1>4, ReadsAre DEF Quiet, Delivered
    <2> QED
      BY <2>1, ControlSame DEF Alike
  <1>5. CASE ReceiveEvent
    <2>1. SameEnds(own, own') /\ own'.slot = own.slot /\ own'.toWriter = own.toWriter
          /\ UNCHANGED <<writer, rClosing>>
      BY <1>1, <1>5, ReceiveIs
    <2> QED
      BY <2>1, ControlSame DEF SameEnds
  <1> QED
    BY <1>2, <1>3, <1>4, <1>5, ControlTakeWrite, ControlTakeAnswer, ControlWrite, ControlShutdown,
       ControlClose, ControlTransport, ControlFails, ControlStopped, ControlReaderClose DEF StreamNext, Steps

----------------------------------------------------------------------------
(* No descriptor leaks                                                      *)

DescriptorInv == StreamTypes /\ ControlInv /\ CopiesKept /\ EntriesKept

LEMMA DescriptorsStart == ASSUME StreamInit PROVE DescriptorInv
  <1>1. Carried(<< >>) = 0 /\ Copies(<< >>) = 0
    BY CountEmpty, CopiesIs
  <1>2. /\ own.copies = 0 /\ own.entries = 0 /\ own.toReader = << >>
        /\ writes = << >> /\ inbound = << >> /\ adopted = 0 /\ channel = "open"
    BY DEF StreamInit
  <1>3. CopiesKept
    BY <1>1, <1>2 DEF CopiesKept
  <1>4. EntriesKept
    BY <1>1, <1>2 DEF EntriesKept
  <1> QED
    BY <1>3, <1>4, TypesStart, ControlStart DEF DescriptorInv

LEMMA DescriptorsStep == ASSUME DescriptorInv, [StreamNext]_streamVars PROVE DescriptorInv'
  <1>1. CASE StreamNext
    <2>1. StreamTypes /\ ControlInv /\ CopiesKept /\ EntriesKept
      BY DEF DescriptorInv
    <2>2. channel # "open" => own.toWriter = << >>
      BY <2>1 DEF ControlInv, FlightInv
    <2>3. StreamTypes' /\ ControlInv'
      BY <1>1, <2>1, TypesStep, ControlStep
    <2>4. CopiesKept'
      BY <1>1, <2>1, <2>2, CopiesStep
    <2>5. EntriesKept'
      BY <1>1, <2>1, <2>3, EntriesStep
    <2> QED
      BY <2>3, <2>4, <2>5 DEF DescriptorInv
  <1>2. CASE UNCHANGED streamVars
    <2>1. UNCHANGED <<writer, own, reader>>
      BY <1>2 DEF streamVars
    <2>2. StreamTypes'
      BY <2>1, WriterSame, ReaderSame DEF DescriptorInv, StreamTypes
    <2>3. CopiesKept'
      BY <2>1, CopiesSame DEF DescriptorInv, writer
    <2>4. EntriesKept'
      BY <2>1, EntriesSame DEF DescriptorInv, reader
    <2>5. ControlInv'
      BY <2>1, ControlSame DEF DescriptorInv, reader
    <2> QED
      BY <2>2, <2>3, <2>4, <2>5 DEF DescriptorInv
  <1> QED
    BY <1>1, <1>2

\* No descriptor leaks, whatever is written and however the two ends stop, close or lose
\* their owner: the copies a writer's scope keeps are those of the writes queued, and the
\* entries of the reader's are what is on its way, waits in its driver or was given to its
\* program.  That nothing is answered through a transport that closed, which is part of
\* the writer's queue's own invariant, is what keeps the copies from being given back twice.
THEOREM DescriptorsNeverLeak == StreamSpec => []DescriptorsAccounted
  <1>1. StreamInit => DescriptorInv
    BY DescriptorsStart
  <1>2. DescriptorInv /\ [StreamNext]_streamVars => DescriptorInv'
    BY DescriptorsStep
  <1>3. DescriptorInv => DescriptorsAccounted
    BY DEF DescriptorInv, CopiesKept, EntriesKept, DescriptorsAccounted
  <1> QED
    BY <1>1, <1>2, <1>3, PTL DEF StreamSpec

----------------------------------------------------------------------------
(* The stream, in four pieces, and the chunks written in order              *)

Joined(t, i, r, q) == t \o i \o r \o q

LEMMA JoinedIs ==
  ASSUME NEW S, NEW t \in Seq(S), NEW i \in Seq(S), NEW r \in Seq(S), NEW q \in Seq(S)
  PROVE  Joined(t, i, r, q) \in Seq(S)
  <1>1. t \o i \in Seq(S)
    BY ConcatProperties
  <1>2. (t \o i) \o r \in Seq(S)
    BY <1>1, ConcatProperties
  <1> QED
    BY <1>2, ConcatProperties DEF Joined

\* The first of a piece becomes the last of the piece before it.
LEMMA FirstMoves ==
  ASSUME NEW S, NEW s \in Seq(S), NEW q \in Seq(S), q # << >>
  PROVE  Append(s, Head(q)) \o Tail(q) = s \o q
  <1>1. q = <<Head(q)>> \o Tail(q) /\ Head(q) \in S /\ Tail(q) \in Seq(S) /\ <<Head(q)>> \in Seq(S)
    BY HeadFirst
  <1>2. Append(s, Head(q)) = s \o <<Head(q)>>
    BY <1>1, AppendIs
  <1> QED
    BY <1>1, <1>2, ConcatAssociative

LEMMA AppendLast ==
  ASSUME NEW S, NEW s \in Seq(S), NEW q \in Seq(S), NEW c \in S
  PROVE  s \o Append(q, c) = Append(s \o q, c)
  <1>1. Append(q, c) = q \o <<c>> /\ <<c>> \in Seq(S) /\ s \o q \in Seq(S)
    BY AppendIs, ConcatProperties
  <1>2. Append(s \o q, c) = (s \o q) \o <<c>>
    BY <1>1, AppendIs
  <1> QED
    BY <1>1, <1>2, ConcatAssociative

\* Concatenation, as an operator of its own: the provers regroup it and look no further.
Cat(s, x) == s \o x
LEMMA InAnyOrder == \A s, x, y \in Seq(ChunkSet) : Cat(Cat(s, x), y) = Cat(s, Cat(x, y))
  BY ConcatAssociative DEF Cat

\* What was published to the reader, `r`, and the end where it is among it.
Line(x, e, r) == r \in Seq(ChunkSet) /\ (x = r \/ (e /\ x = Append(r, Eof)))

LEMMA ChunksIs ==
  ASSUME NEW x, NEW e, NEW r, Line(x, e, r)
  PROVE  Chunks(x) = r
  <1>1. r \in Seq(ChunkSet)
    BY DEF Line
  <1>2. CASE x = r
    <2>1. r # << >> => r[Len(r)] \in ChunkSet
      BY <1>1
    <2>2. r # << >> => Last(r) # Eof
      BY <2>1, ChunkIs DEF Last
    <2> QED
      BY <1>2, <2>2 DEF Chunks
  <1>3. CASE x = Append(r, Eof)
    <2>1. r \in Seq(ChunkSet \cup {Eof}) /\ Len(r) \in Nat
      BY <1>1
    <2>2. x \in Seq(ChunkSet \cup {Eof}) /\ x # << >> /\ Len(x) = Len(r) + 1 /\ x[Len(r) + 1] = Eof
          /\ \A k \in 1 .. Len(r) : x[k] = r[k]
      BY <1>3, <2>1, AppendProperties
    <2>3. Last(x) = Eof
      BY <2>2 DEF Last
    <2>4. Front(x) = r
      <3>1. Front(x) = SubSeq(x, 1, Len(r))
        BY <2>1, <2>2 DEF Front
      <3>2. SubSeq(x, 1, Len(r)) \in Seq(ChunkSet \cup {Eof}) /\ Len(SubSeq(x, 1, Len(r))) = Len(r)
            /\ \A k \in 1 .. Len(r) : SubSeq(x, 1, Len(r))[k] = x[k]
        BY <2>1, <2>2
      <3> QED
        BY <2>1, <2>2, <3>1, <3>2, SeqEqual
    <2> QED
      BY <2>2, <2>3, <2>4 DEF Chunks
  <1> QED
    BY <1>2, <1>3 DEF Line

\* The chunks of the writes `all`, in order; and `s` ends before chunk n + 1 of write i.
FollowsIn(all, c, d) ==
  \/ d.write = c.write /\ d.part = c.part + 1
  \/ c.part = all[c.write].size /\ d.write = c.write + 1 /\ d.part = 1
IsPart(all, c) ==
  /\ c.part > 0 /\ c.write \in DOMAIN all /\ c.part <= all[c.write].size
  /\ c = PartOf(all, c.write, c.part)
AsWrittenIn(all, s) ==
  \A k \in DOMAIN s :
    /\ IsPart(all, s[k])
    /\ IF k = 1 THEN s[k].write = 1 /\ s[k].part = 1 ELSE FollowsIn(all, s[k - 1], s[k])
EndsIn(all, s, i, n) ==
  IF n > 0 THEN s # << >> /\ s[Len(s)] = PartOf(all, i, n)
  ELSE IF i = 1 THEN s = << >>
  ELSE s # << >> /\ s[Len(s)] = PartOf(all, i - 1, all[i - 1].size)

LEMMA AsWrittenIs == ASSUME NEW s PROVE AsWritten(s) <=> AsWrittenIn(made, s)
  BY PartIs DEF AsWritten, AsWrittenIn, IsPart, Follows, FollowsIn

LEMMA AsWrittenNext ==
  /\ AsWritten(taken)' <=> AsWrittenIn(made', taken')
  /\ AsWritten(Stream)' <=> AsWrittenIn(made', Stream')
  BY DEF AsWritten, AsWrittenIn, IsPart, Follows, FollowsIn, Part, PartOf

LEMMA WrittenPrefix ==
  ASSUME NEW all, NEW s \in Seq(ChunkSet), NEW u \in Seq(ChunkSet), AsWrittenIn(all, s \o u)
  PROVE  AsWrittenIn(all, s)
  <1>1. \A k \in 1 .. Len(s) : k \in 1 .. Len(s \o u) /\ (s \o u)[k] = s[k]
    OBVIOUS
  <1>2. DOMAIN s = 1 .. Len(s) /\ DOMAIN (s \o u) = 1 .. Len(s \o u) /\ Len(s) \in Nat
    BY ConcatProperties
  <1>3. \A k \in 1 .. Len(s) : k # 1 => k - 1 \in 1 .. Len(s)
    BY <1>2
  <1>4. PICK v : v = s \o u
    OBVIOUS
  <1> QED
    BY <1>1, <1>2, <1>3, <1>4 DEF AsWrittenIn

\* More writes are made.
Extends(all, more) ==
  /\ all \in Seq(MadeSet) /\ more \in Seq(MadeSet) /\ Len(all) <= Len(more)
  /\ \A i \in 1 .. Len(all) : more[i] = all[i]

LEMMA WrittenMore ==
  ASSUME NEW all, NEW more, Extends(all, more), NEW s \in Seq(ChunkSet), AsWrittenIn(all, s)
  PROVE  AsWrittenIn(more, s)
  <1>1. DOMAIN all = 1 .. Len(all) /\ DOMAIN more = 1 .. Len(more) /\ \A i \in 1 .. Len(all) : i \in 1 .. Len(more)
    BY DEF Extends
  <1>2. ASSUME NEW c, IsPart(all, c) PROVE IsPart(more, c) /\ more[c.write] = all[c.write]
    <2>1. c.write \in 1 .. Len(all) /\ more[c.write] = all[c.write]
      BY <1>1, <1>2 DEF IsPart, Extends
    <2>2. PICK i, k : i = c.write /\ k = c.part
      OBVIOUS
    <2>3. PartOf(more, i, k) = PartOf(all, i, k)
      BY <2>1, <2>2, PartOfStable
    <2> QED
      BY <1>1, <1>2, <2>1, <2>2, <2>3 DEF IsPart
  <1>3. DOMAIN s = 1 .. Len(s) /\ Len(s) \in Nat
    OBVIOUS
  <1>4. ASSUME NEW k \in 1 .. Len(s), k # 1 PROVE FollowsIn(more, s[k - 1], s[k])
    <2>1. k - 1 \in 1 .. Len(s)
      BY <1>3, <1>4
    <2>2. PICK c, d : c = s[k - 1] /\ d = s[k]
      OBVIOUS
    <2>3. FollowsIn(all, c, d) /\ IsPart(all, c)
      BY <1>3, <1>4, <2>1, <2>2 DEF AsWrittenIn
    <2>4. more[c.write] = all[c.write]
      BY <1>2, <2>3
    <2> QED
      BY <2>2, <2>3, <2>4 DEF FollowsIn
  <1> QED
    BY <1>2, <1>3, <1>4 DEF AsWrittenIn

LEMMA EndsMore ==
  ASSUME NEW all, NEW more, Extends(all, more), NEW s, NEW i \in Nat \ {0}, NEW n \in Nat,
         i <= Len(all) + 1, n > 0 => i <= Len(all), EndsIn(all, s, i, n)
  PROVE  EndsIn(more, s, i, n)
  <1>1. Len(all) \in Nat /\ \A j \in 1 .. Len(all) : more[j] = all[j]
    BY DEF Extends
  <1>2. CASE n > 0
    <2>1. more[i] = all[i]
      BY <1>1, <1>2
    <2>2. PartOf(more, i, n) = PartOf(all, i, n)
      BY <2>1, PartOfStable
    <2> QED
      BY <1>2, <2>2 DEF EndsIn
  <1>3. CASE ~(n > 0) /\ i = 1
    BY <1>3 DEF EndsIn
  <1>4. CASE ~(n > 0) /\ i # 1
    <2>1. PICK j, z : j = i - 1 /\ z = all[j].size
      OBVIOUS
    <2>2. more[j] = all[j]
      BY <1>1, <1>4, <2>1
    <2>3. PartOf(more, j, z) = PartOf(all, j, z)
      BY <2>2, PartOfStable
    <2> QED
      BY <1>4, <2>1, <2>2, <2>3 DEF EndsIn
  <1> QED
    BY <1>2, <1>3, <1>4

LEMMA WrittenNext ==
  ASSUME NEW all \in Seq(MadeSet), NEW s \in Seq(ChunkSet), AsWrittenIn(all, s),
         NEW i \in 1 .. Len(all), NEW n \in Nat, n < all[i].size, EndsIn(all, s, i, n)
  PROVE  LET c == PartOf(all, i, n + 1)
         IN  c \in ChunkSet /\ AsWrittenIn(all, Append(s, c)) /\ EndsIn(all, Append(s, c), i, n + 1)
  <1>1. PICK c : c = PartOf(all, i, n + 1)
    OBVIOUS
  <1>2. Len(all) \in Nat /\ DOMAIN all = 1 .. Len(all) /\ i \in Nat \ {0} /\ n + 1 \in Nat \ {0} /\ n + 1 > 0
        /\ \A j \in 1 .. Len(all) : all[j].size \in Nat \ {0}
    <2>1. Len(all) \in Nat /\ DOMAIN all = 1 .. Len(all) /\ \A j \in 1 .. Len(all) : all[j] \in MadeSet
      OBVIOUS
    <2>2. i \in Nat \ {0} /\ n + 1 \in Nat \ {0} /\ n + 1 > 0
      BY <2>1
    <2> QED
      BY <2>1, <2>2 DEF MadeSet
  <1>3. c \in ChunkSet /\ c.write = i /\ c.part = n + 1
    BY <1>1, <1>2, PartOfIs
  <1>4. IsPart(all, c)
    <2>1. n + 1 <= all[i].size
      BY <1>2
    <2> QED
      BY <1>1, <1>2, <1>3, <2>1 DEF IsPart
  <1>5. PICK v \in Seq(ChunkSet) : v = Append(s, c)
    BY <1>3, AppendProperties
  <1>6. /\ Len(v) = Len(s) + 1 /\ Len(s) \in Nat /\ v[Len(s) + 1] = c /\ v # << >>
        /\ \A k \in 1 .. Len(s) : v[k] = s[k]
    BY <1>3, <1>5, AppendProperties
  <1>7. IF Len(s) + 1 = 1 THEN c.write = 1 /\ c.part = 1 ELSE FollowsIn(all, s[Len(s)], c)
    <2>1. CASE n > 0
      <3>1. s # << >> /\ s[Len(s)] = PartOf(all, i, n)
        BY <2>1 DEF EndsIn
      <3>2. PartOf(all, i, n).write = i /\ PartOf(all, i, n).part = n
        BY <1>2, <2>1, PartOfIs
      <3>3. Len(s) # 0
        BY <3>1
      <3> QED
        BY <1>3, <1>6, <3>1, <3>2, <3>3 DEF FollowsIn
    <2>2. CASE n = 0 /\ i = 1
      <3>1. s = << >> /\ Len(s) = 0
        BY <2>2 DEF EndsIn
      <3> QED
        BY <1>3, <2>2, <3>1
    <2>3. CASE n = 0 /\ i # 1
      <3>1. PICK j \in 1 .. Len(all) : j = i - 1 /\ j + 1 = i
        BY <1>2, <2>3
      <3>2. s # << >> /\ s[Len(s)] = PartOf(all, j, all[j].size)
        BY <2>3, <3>1 DEF EndsIn
      <3>3. PartOf(all, j, all[j].size).write = j /\ PartOf(all, j, all[j].size).part = all[j].size
        <4>1. j \in Nat /\ all[j].size \in Nat \ {0}
          BY <1>2
        <4> QED
          BY <4>1, PartOfIs
      <3>4. Len(s) # 0
        BY <3>2
      <3>5. FollowsIn(all, s[Len(s)], c)
        <4>1. c.write = j + 1 /\ c.part = 1
          BY <1>3, <2>3, <3>1
        <4> QED
          BY <3>2, <3>3, <4>1 DEF FollowsIn
      <3> QED
        BY <1>6, <3>4, <3>5
    <2> QED
      BY <2>1, <2>2, <2>3
  <1>8. AsWrittenIn(all, v)
    <2>1. DOMAIN v = 1 .. Len(s) + 1 /\ DOMAIN s = 1 .. Len(s)
      BY <1>6
    <2>2. ASSUME NEW k \in 1 .. Len(s) + 1
          PROVE  /\ IsPart(all, v[k])
                 /\ IF k = 1 THEN v[k].write = 1 /\ v[k].part = 1 ELSE FollowsIn(all, v[k - 1], v[k])
      <3>1. CASE k = Len(s) + 1
        <4>1. k - 1 = Len(s) /\ (k # 1 => v[k - 1] = s[Len(s)])
          BY <1>6, <3>1
        <4> QED
          BY <1>4, <1>6, <1>7, <3>1, <4>1
      <3>2. CASE k \in 1 .. Len(s)
        <4>1. k # 1 => k - 1 \in 1 .. Len(s)
          BY <1>6, <3>2
        <4>2. v[k] = s[k] /\ (k # 1 => v[k - 1] = s[k - 1])
          BY <1>6, <3>2, <4>1
        <4>3. /\ IsPart(all, s[k])
              /\ IF k = 1 THEN s[k].write = 1 /\ s[k].part = 1 ELSE FollowsIn(all, s[k - 1], s[k])
          BY <2>1, <3>2 DEF AsWrittenIn
        <4> QED
          BY <4>2, <4>3
      <3> QED
        BY <1>6, <3>1, <3>2
    <2> QED
      BY <2>1, <2>2 DEF AsWrittenIn
  <1>9. EndsIn(all, v, i, n + 1)
    BY <1>1, <1>2, <1>6 DEF EndsIn
  <1> QED
    BY <1>1, <1>3, <1>5, <1>8, <1>9

----------------------------------------------------------------------------
(* What the reader was sent, and what a step does to the stream             *)

ReadInv ==
  ~rClosing =>
    /\ own.ended => own.eof /\ own.inbound = << >>
    /\ \E r : Line(own.toReader, own.ended, r)
    /\ ended => own.ended /\ own.toReader = << >>
    /\ told => ended /\ inbound = << >>

LEMMA StreamIs ==
  ASSUME StreamTypes, NEW r, Line(own.toReader, own.ended, r)
  PROVE  Stream = Joined(taken, inbound, r, own.inbound) /\ Stream \in Seq(ChunkSet)
  <1>1. Chunks(own.toReader) = r
    BY ChunksIs
  <1>2. /\ taken \in Seq(ChunkSet) /\ inbound \in Seq(ChunkSet) /\ r \in Seq(ChunkSet)
        /\ own.inbound \in Seq(ChunkSet)
    BY DEF StreamTypes, ReaderTypes, Owners, Line
  <1> QED
    BY <1>1, <1>2, JoinedIs DEF Stream, Joined

LEMMA StreamIsThen ==
  ASSUME NEW r, Line(own'.toReader, own'.ended, r)
  PROVE  Stream' = Joined(taken', inbound', r, own'.inbound)
  <1>1. Chunks(own'.toReader) = r
    BY ChunksIs
  <1>2. Chunks(own.toReader)' = Chunks(own'.toReader)
    BY DEF Chunks, Last, Front
  <1> QED
    BY <1>1, <1>2 DEF Stream, Joined

\* The reader is given the same: what counts is the stream, and what its program was given
\* once it has closed.
GotSame ==
  /\ ~rClosing' => ~rClosing /\ Stream' = Stream
  /\ rClosing' => UNCHANGED <<taken, told>> /\ (~rClosing /\ told => taken = Stream)

LEMMA ReadSame ==
  ASSUME ReadInv, UNCHANGED <<rClosing, inbound, taken, ended, told>>, own'.toReader = own.toReader,
         own'.inbound = own.inbound, own'.ended = own.ended, own.eof => own'.eof
  PROVE  ReadInv' /\ GotSame
  <1>1. Stream' = Stream
    BY DEF Stream, Chunks
  <1> QED
    BY <1>1 DEF ReadInv, GotSame

LEMMA ReadGrown ==
  ASSUME StreamTypes, ReadInv, UNCHANGED <<rClosing, inbound, taken, ended, told>>,
         own'.toReader = own.toReader, own'.ended = own.ended, own'.eof = own.eof,
         NEW c \in ChunkSet, own'.inbound = Append(own.inbound, c), ~own.eof, ~rClosing
  PROVE  ReadInv' /\ Stream' = Append(Stream, c)
  <1>1. PICK r : Line(own.toReader, own.ended, r)
    BY DEF ReadInv
  <1>2. Line(own'.toReader, own'.ended, r)
    BY <1>1
  <1>3. /\ taken \in Seq(ChunkSet) /\ inbound \in Seq(ChunkSet) /\ r \in Seq(ChunkSet)
        /\ own.inbound \in Seq(ChunkSet)
    BY <1>1 DEF StreamTypes, ReaderTypes, Owners, Line
  <1>4. Joined(taken, inbound, r, Append(own.inbound, c)) = Append(Joined(taken, inbound, r, own.inbound), c)
    <2>1. PICK s \in Seq(ChunkSet) : s = taken \o inbound \o r
      <3>1. taken \o inbound \in Seq(ChunkSet)
        BY <1>3, ConcatProperties
      <3>2. (taken \o inbound) \o r \in Seq(ChunkSet)
        BY <1>3, <3>1, ConcatProperties
      <3> QED
        BY <3>2
    <2>2. PICK q \in Seq(ChunkSet) : q = own.inbound
      BY <1>3
    <2>3. s \o Append(q, c) = Append(s \o q, c)
      BY AppendLast
    <2> QED
      BY <2>1, <2>2, <2>3, Zenon DEF Joined
  <1>5. Stream' = Append(Stream, c)
    BY <1>1, <1>2, <1>4, StreamIs, StreamIsThen
  <1>6. ~own.ended
    BY DEF ReadInv
  <1> QED
    BY <1>2, <1>5, <1>6 DEF ReadInv

\* The stream is the same after it, or the chunk that waited is the last of it.
Carries(o, p, t, i, r) ==
  \E x : /\ Line(p.toReader, p.ended, x)
         /\ \/ /\ Joined(t, i, x, p.inbound) = Joined(t, i, r, o.inbound)
               /\ \/ p.toWriter = o.toWriter
                  \/ o.slot \in ChunkSet /\ p.toWriter = Append(o.toWriter, Pipe)
            \/ /\ o.slot \in ChunkSet /\ p.toWriter = Append(o.toWriter, OK)
               /\ Joined(t, i, x, p.inbound) = Append(Joined(t, i, r, o.inbound), o.slot)

LEMMA PublishedLine ==
  ASSUME NEW o \in Owners, NEW p \in Owners, SameEnds(o, p), Published(o, p),
         o.ended => o.eof /\ o.inbound = << >>, NEW r, Line(o.toReader, o.ended, r),
         NEW t \in Seq(ChunkSet), NEW i \in Seq(ChunkSet)
  PROVE  /\ p.ended => p.eof /\ p.inbound = << >>
         /\ o.ended => p.ended /\ p.toReader = o.toReader
         /\ Carries(o, p, t, i, r)
  <1>1. r \in Seq(ChunkSet) /\ o.inbound \in Seq(ChunkSet) /\ p.eof = o.eof
    BY DEF Line, Owners, SameEnds
  <1>2. CASE /\ p.ended = o.ended /\ p.toReader = o.toReader
             /\ p.inbound = o.inbound /\ p.toWriter = o.toWriter
    BY <1>1, <1>2 DEF Carries
  <1>3. CASE /\ o.rOpen /\ p.ended = o.ended
             /\ \E q \in Owners : OneRead(o, q) /\ SameEnds(o, q) /\ Retried(q, p) /\ p.toReader = q.toReader
    <2>1. PICK q \in Owners : OneRead(o, q) /\ SameEnds(o, q) /\ Retried(q, p) /\ p.toReader = q.toReader
      BY <1>3
    <2>2. /\ o.inbound # << >> /\ q.inbound = Tail(o.inbound) /\ p.toReader = Append(o.toReader, Head(o.inbound))
          /\ q.slot = o.slot /\ q.toWriter = o.toWriter /\ q.eof = o.eof /\ ~o.ended /\ ~p.ended
      BY <1>3, <2>1 DEF OneRead, SameEnds
    <2>3. o.toReader = r /\ Head(o.inbound) \in ChunkSet /\ Tail(o.inbound) \in Seq(ChunkSet)
      BY <1>1, <2>2, TailIs DEF Line
    <2>4. PICK x \in Seq(ChunkSet) : x = Append(r, Head(o.inbound))
      BY <1>1, <2>3, AppendProperties
    <2>5. Line(p.toReader, p.ended, x)
      BY <2>2, <2>3, <2>4 DEF Line
    <2>6. Joined(t, i, x, q.inbound) = Joined(t, i, r, o.inbound)
      <3>a. t \o i \in Seq(ChunkSet)
        BY ConcatProperties
      <3>1. PICK s \in Seq(ChunkSet), v \in Seq(ChunkSet) : s = t \o i /\ v = o.inbound
        BY <1>1, <3>a
      <3>2. PICK w \in Seq(ChunkSet) : w = q.inbound
        BY <2>2, <2>3
      <3>3. x \o w = r \o v
        BY <1>1, <2>2, <2>4, <3>1, <3>2, FirstMoves
      <3>4. (s \o x) \o w = s \o (x \o w)
        <4>1. Cat(Cat(s, x), w) = Cat(s, Cat(x, w))
          BY InAnyOrder
        <4> QED
          BY <4>1, Zenon DEF Cat
      <3>5. (s \o r) \o v = s \o (r \o v)
        <4>1. Cat(Cat(s, r), v) = Cat(s, Cat(r, v))
          BY <1>1, InAnyOrder
        <4> QED
          BY <4>1, Zenon DEF Cat
      <3> QED
        BY <3>1, <3>2, <3>3, <3>4, <3>5, Zenon DEF Joined
    <2>7. CASE p.inbound = q.inbound /\ (p.toWriter = q.toWriter
                  \/ (q.slot \in ChunkSet /\ p.toWriter = Append(q.toWriter, Pipe)))
      BY <2>2, <2>5, <2>6, <2>7 DEF Carries
    <2>8. CASE q.slot \in ChunkSet /\ ~q.eof /\ Accepted(q, q.slot, p)
      <3>1. p.inbound = Append(q.inbound, q.slot) /\ p.toWriter = Append(o.toWriter, OK)
        BY <2>2, <2>8 DEF Accepted
      <3>2. Joined(t, i, x, Append(q.inbound, q.slot)) = Append(Joined(t, i, x, q.inbound), q.slot)
        <4>1. PICK v \in Seq(ChunkSet), c \in ChunkSet : v = q.inbound /\ c = q.slot
          BY <2>2, <2>3, <2>8
        <4>2. PICK s \in Seq(ChunkSet) : s = t \o i \o x
          <5>1. t \o i \in Seq(ChunkSet)
            BY ConcatProperties
          <5>2. (t \o i) \o x \in Seq(ChunkSet)
            BY <5>1, ConcatProperties
          <5> QED
            BY <5>2
        <4>3. s \o Append(v, c) = Append(s \o v, c)
          BY AppendLast
        <4> QED
          BY <4>1, <4>2, <4>3, Zenon DEF Joined
      <3>3. Joined(t, i, x, p.inbound) = Append(Joined(t, i, r, o.inbound), o.slot)
        BY <2>2, <2>6, <3>1, <3>2
      <3> QED
        BY <1>3, <2>2, <2>5, <2>8, <3>1, <3>3 DEF Carries
    <2> QED
      BY <2>1, <2>7, <2>8 DEF Retried, Refused, Waits
  <1>4. CASE /\ o.inbound = << >> /\ o.eof /\ ~o.ended
             /\ p.ended /\ p.toReader = Append(o.toReader, Eof)
             /\ p.inbound = o.inbound /\ p.toWriter = o.toWriter
    <2>1. Line(p.toReader, p.ended, r)
      BY <1>4 DEF Line
    <2> QED
      BY <1>1, <1>4, <2>1 DEF Carries
  <1> QED
    BY <1>2, <1>3, <1>4 DEF Published

\* A step that takes nothing new of the writer's queue, and one that takes its chunk due.
Fixed == UNCHANGED <<made, writes, answers>> /\ (Over => Over')
Steady == Fixed /\ GotSame /\ (own'.toWriter = <<OK>> <=> own.toWriter = <<OK>>)
Gained ==
  /\ Fixed /\ ~rClosing /\ ~rClosing' /\ ~Over /\ writes # << >>
  /\ own.toWriter # <<OK>> /\ own'.toWriter = <<OK>>
  /\ Stream' = Append(Stream, Due)
\* The writer's transport is gone: what it had queued fails, or is cancelled.
Dropped ==
  /\ UNCHANGED <<made, own>> /\ GotSame /\ channel # "open" /\ Over'
  /\ \A i \in 1 .. Len(made) : answers'[i] = <<OK>> => answers[i] = <<OK>>
  /\ writes' # << >> => Head(writes').sent = 0

LEMMA ReadPublished ==
  ASSUME StreamTypes, StreamTypes', ControlInv, ReadInv, SameEnds(own, own'), Published(own, own'),
         UNCHANGED <<writer, inbound, taken, rClosing, ended, told>>
  PROVE  ReadInv' /\ (Steady \/ Gained)
  <1>1. own \in Owners /\ own' \in Owners /\ taken \in Seq(ChunkSet) /\ inbound \in Seq(ChunkSet)
        /\ Fixed /\ own'.eof = own.eof
    BY DEF StreamTypes, ReaderTypes, Fixed, writer, SameEnds, Over
  <1>2. CASE rClosing
    <2>1. ~own.rOpen
      BY <1>2 DEF ControlInv, ClosingInv
    <2>2. own'.toReader = own.toReader /\ own'.inbound = own.inbound /\ own'.ended = own.ended
          /\ own'.toWriter = own.toWriter
      BY <2>1 DEF Published
    <2> QED
      BY <1>1, <2>2, ReadSame DEF Steady
  <1>3. CASE ~rClosing
    <2>1. PICK r : Line(own.toReader, own.ended, r)
      BY <1>3 DEF ReadInv
    <2>2. own.ended => own.eof /\ own.inbound = << >>
      BY <1>3 DEF ReadInv
    <2>3. /\ own'.ended => own'.eof /\ own'.inbound = << >>
          /\ own.ended => own'.ended /\ own'.toReader = own.toReader
      BY <1>1, <2>1, <2>2, PublishedLine
    <2>a. Carries(own, own', taken, inbound, r)
      BY <1>1, <2>1, <2>2, PublishedLine
    <2>4. PICK x :
            /\ Line(own'.toReader, own'.ended, x)
            /\ \/ /\ Joined(taken, inbound, x, own'.inbound) = Joined(taken, inbound, r, own.inbound)
                  /\ \/ own'.toWriter = own.toWriter
                     \/ own.slot \in ChunkSet /\ own'.toWriter = Append(own.toWriter, Pipe)
               \/ /\ own.slot \in ChunkSet
                  /\ own'.toWriter = Append(own.toWriter, OK)
                  /\ Joined(taken, inbound, x, own'.inbound)
                       = Append(Joined(taken, inbound, r, own.inbound), own.slot)
      BY <2>a DEF Carries
    <2>5. Stream = Joined(taken, inbound, r, own.inbound) /\ Stream' = Joined(taken, inbound, x, own'.inbound)
      BY <2>1, <2>4, StreamIs, StreamIsThen
    <2>6. ReadInv'
      BY <1>3, <2>3, <2>4 DEF ReadInv
    <2>7. own.slot \in ChunkSet => Waiting /\ writes # << >> /\ ~Over
      BY WaitsInTime DEF ControlInv
    <2>8. CASE Stream' = Stream /\ own'.toWriter = own.toWriter
      BY <1>1, <1>3, <2>6, <2>8 DEF Steady, GotSame
    <2>9. CASE Stream' = Stream /\ own.slot \in ChunkSet /\ own'.toWriter = Append(own.toWriter, Pipe)
      <3>1. own.toWriter = << >> /\ own'.toWriter = <<Pipe>>
        BY <2>7, <2>9, FirstOf DEF Waiting
      <3> QED
        BY <1>1, <1>3, <2>6, <2>9, <3>1, NotYet DEF Steady, GotSame
    <2>10. CASE /\ own.slot \in ChunkSet /\ own'.toWriter = Append(own.toWriter, OK)
                /\ Stream' = Append(Stream, own.slot)
      <3>1. own.toWriter = << >> /\ own'.toWriter = <<OK>> /\ own.slot = Due
        BY <2>7, <2>10, FirstOf DEF Waiting
      <3> QED
        BY <1>1, <1>3, <2>6, <2>7, <2>10, <3>1, NotYet DEF Gained
    <2> QED
      BY <2>4, <2>5, <2>8, <2>9, <2>10
  <1> QED
    BY <1>2, <1>3

LEMMA ReadTakeWrite ==
  ASSUME StreamTypes, ControlInv, ReadInv, TakeWrite
  PROVE  ReadInv' /\ (Steady \/ Gained)
  <1>1. own \in Owners /\ WriterTypes
    BY DEF StreamTypes
  <1>2. PICK msg \in ChunkSet \cup {Eof} :
          /\ toOwner # << >> /\ msg = Head(toOwner)
          /\ own'.rOpen = own.rOpen /\ own'.ended = own.ended /\ own'.toReader = own.toReader
          /\ \/ /\ msg = Eof /\ own'.inbound = own.inbound
                /\ own'.toWriter = Append(own.toWriter, "shutdown")
                /\ own'.eof = (own.eof \/ own.slot = NoChunk)
             \/ msg \in ChunkSet /\ ~own.wOpen
             \/ /\ msg \in ChunkSet /\ own.wOpen /\ own'.eof = own.eof
                /\ \/ (~own.rOpen \/ own.eof) /\ Refused(own, own')
                   \/ own.rOpen /\ ~own.eof /\ Accepted(own, msg, own')
                   \/ own.rOpen /\ Waits(own, msg, own')
          /\ UNCHANGED <<writes, made, answers, writeEnded, shutdown, wClosing, channel, reader>>
    BY <1>1, TakeWriteIs
  <1>3. UNCHANGED <<rClosing, inbound, taken, ended, told>> /\ Fixed
    BY <1>2 DEF reader, Fixed, Over
  <1>4. own.wOpen /\ ~Over /\ (own.rOpen <=> ~rClosing) /\ own.toWriter = << >>
    <2>1. ~Over
      BY <1>2 DEF ControlInv, FlightInv
    <2> QED
      BY <1>2, <2>1 DEF ControlInv, FlightInv, ClosingInv, Posted, Waiting, Replied, Resting
  <1>5. CASE msg = Eof
    <2>1. msg \notin ChunkSet
      BY <1>5, ChunkIs
    <2>2. own'.inbound = own.inbound /\ own'.toWriter = <<"shutdown">> /\ (own.eof => own'.eof)
      BY <1>2, <1>4, <2>1, FirstOf
    <2> QED
      BY <1>2, <1>3, <1>4, <2>2, ReadSame, NotYet DEF Steady
  <1>6. CASE msg \in ChunkSet
    <2>1. msg # Eof
      BY <1>6, ChunkIs
    <2>2. writes # << >> /\ ~own.eof /\ msg = Due
      BY <1>2, <1>6, ControlTakeWrite
    <2>3. own'.eof = own.eof
      BY <1>2, <1>4, <2>1
    <2>4. CASE Refused(own, own')
      <3>1. own'.inbound = own.inbound /\ own'.toWriter = <<Pipe>>
        BY <1>4, <2>4, FirstOf DEF Refused
      <3> QED
        BY <1>2, <1>3, <1>4, <2>3, <3>1, ReadSame, NotYet DEF Steady
    <2>5. CASE Waits(own, msg, own')
      BY <1>2, <1>3, <1>4, <2>3, <2>5, ReadSame DEF Steady, Waits
    <2>6. CASE own.rOpen /\ Accepted(own, msg, own')
      <3>1. own'.inbound = Append(own.inbound, msg) /\ own'.toWriter = <<OK>> /\ ~rClosing
        BY <1>4, <2>6, FirstOf DEF Accepted
      <3>2. ReadInv' /\ Stream' = Append(Stream, msg)
        BY <1>2, <1>3, <1>6, <2>2, <2>3, <3>1, ReadGrown
      <3> QED
        BY <1>3, <1>4, <2>2, <3>1, <3>2, NotYet DEF Gained
    <2> QED
      BY <1>2, <1>4, <2>1, <2>4, <2>5, <2>6
  <1> QED
    BY <1>5, <1>6

LEMMA ReadReads ==
  ASSUME StreamTypes, ReadInv, ReadStart \/ ReadStop \/ ReaderTurn
  PROVE  ReadInv' /\ Steady
  <1>1. own \in Owners /\ ReaderTypes /\ taken \in Seq(ChunkSet)
    BY DEF StreamTypes, ReaderTypes
  <1>2. UNCHANGED <<writer, rClosing, ended>> /\ (Quiet \/ (~rClosing /\ \E given, rest : Delivered(given, rest)))
    BY <1>1, ReadsAre
  <1>3. Fixed
    BY <1>2 DEF Fixed, writer, Over
  <1>4. CASE Quiet
    BY <1>2, <1>3, <1>4, ReadSame DEF Quiet, Alike, Steady
  <1>5. CASE ~rClosing /\ \E given, rest : Delivered(given, rest)
    <2>1. PICK given, rest : Delivered(given, rest)
      BY <1>5
    <2>2. PICK r : Line(own.toReader, own.ended, r)
      BY <1>5 DEF ReadInv
    <2>3. /\ own'.toReader = own.toReader /\ own'.inbound = own.inbound /\ own'.ended = own.ended
          /\ own'.eof = own.eof /\ own'.toWriter = own.toWriter
      BY <2>1 DEF Delivered, Alike
    <2>4. Stream' = Stream
      <3>1. given \in Seq(ChunkSet) /\ rest \in Seq(ChunkSet) /\ inbound = given \o rest
            /\ inbound' = rest /\ taken' = taken \o given
        BY <2>1 DEF Delivered
      <3>2. (taken \o given) \o rest = taken \o (given \o rest)
        BY <1>1, <3>1, ConcatAssociative
      <3>3. Line(own'.toReader, own'.ended, r)
        BY <2>2, <2>3
      <3>4. Stream = Joined(taken, inbound, r, own.inbound) /\ Stream' = Joined(taken', inbound', r, own'.inbound)
        BY <2>2, <3>3, StreamIs, StreamIsThen
      <3> QED
        BY <2>3, <3>1, <3>2, <3>4, Zenon DEF Joined
    <2>5. told' => ended /\ inbound' = << >>
      <3>1. CASE told
        <4>1. ended /\ inbound = << >>
          BY <1>5, <3>1 DEF ReadInv
        <4>2. given \in Seq(ChunkSet) /\ rest \in Seq(ChunkSet) /\ given \o rest = << >> /\ inbound' = rest
          BY <2>1, <4>1 DEF Delivered
        <4>3. rest = << >>
          BY <4>2, ConcatEqualIffEmpty
        <4> QED
          BY <4>1, <4>2, <4>3
      <3>2. CASE ~told
        BY <2>1, <3>2 DEF Delivered
      <3> QED
        BY <3>1, <3>2
    <2>6. ReadInv'
      BY <1>2, <1>5, <2>3, <2>5 DEF ReadInv
    <2> QED
      BY <1>2, <1>3, <1>5, <2>3, <2>4, <2>6 DEF Steady, GotSame
  <1> QED
    BY <1>2, <1>4, <1>5

LEMMA LineHead ==
  ASSUME NEW x, NEW e, NEW r, Line(x, e, r), x # << >>
  PROVE  \/ r # << >> /\ Head(x) = Head(r) /\ Head(x) \in ChunkSet /\ Line(Tail(x), e, Tail(r))
         \/ e /\ r = << >> /\ Head(x) = Eof /\ Tail(x) = << >>
  <1>1. r \in Seq(ChunkSet)
    BY DEF Line
  <1>2. CASE x = r
    <2>1. Head(r) \in ChunkSet /\ Tail(r) \in Seq(ChunkSet)
      BY <1>1, <1>2, TailIs
    <2> QED
      BY <1>2, <2>1 DEF Line
  <1>3. CASE e /\ x = Append(r, Eof) /\ r = << >>
    <2>1. x = <<Eof>>
      BY <1>3, FirstOf
    <2>2. Head(x) = Eof /\ Tail(x) = << >>
      BY <2>1
    <2> QED
      BY <1>3, <2>2
  <1>4. CASE e /\ x = Append(r, Eof) /\ r # << >>
    <2>1. Head(r) \in ChunkSet /\ Tail(r) \in Seq(ChunkSet)
      BY <1>1, <1>4, TailIs
    <2>2. Head(Append(r, Eof)) = Head(r) /\ Tail(Append(r, Eof)) = Append(Tail(r), Eof)
      BY <1>1, <1>4, HeadTailAppend
    <2> QED
      BY <1>4, <2>1, <2>2 DEF Line
  <1> QED
    BY <1>2, <1>3, <1>4 DEF Line

LEMMA ReadReceive ==
  ASSUME StreamTypes, ReadInv, ReceiveEvent
  PROVE  ReadInv' /\ Steady
  <1>1. own \in Owners /\ ReaderTypes /\ taken \in Seq(ChunkSet) /\ inbound \in Seq(ChunkSet)
        /\ own.inbound \in Seq(ChunkSet)
    BY DEF StreamTypes, ReaderTypes, Owners
  <1>2. PICK event \in ChunkSet \cup {Eof, Closed} :
          /\ own.toReader # << >> /\ event = Head(own.toReader)
          /\ SameEnds(own, own') /\ own'.toReader = Tail(own.toReader)
          /\ own'.ended = own.ended /\ own'.inbound = own.inbound /\ own'.toWriter = own.toWriter
          /\ \/ event = Closed
             \/ rClosing
             \/ event = Eof /\ inbound' = inbound /\ ended'
             \/ event \in ChunkSet /\ inbound' = Append(inbound, event) /\ ended' = ended
          /\ UNCHANGED <<writer, rClosing, taken, told, adopted>>
    BY <1>1, ReceiveIs
  <1>3. Fixed /\ own'.eof = own.eof
    BY <1>2 DEF Fixed, writer, SameEnds, Over
  <1>4. CASE rClosing
    BY <1>2, <1>3, <1>4 DEF Steady, GotSame, ReadInv
  <1>5. CASE ~rClosing
    <2>1. PICK r : Line(own.toReader, own.ended, r)
      BY <1>5 DEF ReadInv
    <2>2. r \in Seq(ChunkSet) /\ ~ended /\ ~told
      BY <1>2, <1>5, <2>1 DEF ReadInv, Line
    <2>3. CASE r # << >> /\ event = Head(r) /\ event \in ChunkSet /\ Line(own'.toReader, own.ended, Tail(r))
      <3>1. event # Closed /\ event # Eof
        BY <2>3, ChunkIs
      <3>2. inbound' = Append(inbound, Head(r)) /\ ended' = ended
        BY <1>2, <1>5, <2>3, <3>1
      <3>3. Stream = Joined(taken, inbound, r, own.inbound)
            /\ Stream' = Joined(taken, inbound', Tail(r), own.inbound)
        BY <1>2, <2>1, <2>3, StreamIs, StreamIsThen
      <3>4. (taken \o inbound') \o Tail(r) = (taken \o inbound) \o r
        <4>1. Head(r) \in ChunkSet /\ Tail(r) \in Seq(ChunkSet)
          BY <2>2, <2>3, TailIs
        <4>2. Append(inbound, Head(r)) \in Seq(ChunkSet)
          BY <1>1, <4>1, AppendProperties
        <4>3. inbound' \o Tail(r) = inbound \o r
          BY <1>1, <2>2, <2>3, <3>2, FirstMoves
        <4>4. (taken \o inbound') \o Tail(r) = taken \o (inbound' \o Tail(r))
          <5>1. Cat(Cat(taken, inbound'), Tail(r)) = Cat(taken, Cat(inbound', Tail(r)))
            BY <1>1, <3>2, <4>1, <4>2, InAnyOrder
          <5> QED
            BY <5>1, Zenon DEF Cat
        <4>5. (taken \o inbound) \o r = taken \o (inbound \o r)
          <5>1. Cat(Cat(taken, inbound), r) = Cat(taken, Cat(inbound, r))
            BY <1>1, <2>2, InAnyOrder
          <5> QED
            BY <5>1, Zenon DEF Cat
        <4> QED
          BY <4>3, <4>4, <4>5, Zenon
      <3>5. Stream' = Stream
        BY <3>3, <3>4, Zenon DEF Joined
      <3>6. ReadInv'
        BY <1>2, <1>3, <1>5, <2>2, <2>3, <3>2 DEF ReadInv
      <3> QED
        BY <1>2, <1>3, <1>5, <3>5, <3>6 DEF Steady, GotSame
    <2>4. CASE own.ended /\ r = << >> /\ event = Eof /\ own'.toReader = << >>
      <3>1. event # Closed /\ event \notin ChunkSet
        BY <2>4, EndIs, ChunkIs
      <3>2. inbound' = inbound /\ ended'
        BY <1>2, <1>5, <2>4, <3>1
      <3>3. Line(own'.toReader, own'.ended, r)
        BY <2>2, <2>4 DEF Line
      <3>4. Stream' = Stream
        BY <1>2, <2>1, <3>2, <3>3, StreamIs, StreamIsThen
      <3>5. ReadInv'
        BY <1>2, <1>3, <1>5, <2>2, <2>4, <3>2, <3>3 DEF ReadInv
      <3> QED
        BY <1>2, <1>3, <1>5, <3>4, <3>5 DEF Steady, GotSame
    <2>5. \/ /\ r # << >> /\ Head(own.toReader) = Head(r) /\ Head(own.toReader) \in ChunkSet
             /\ Line(Tail(own.toReader), own.ended, Tail(r))
          \/ own.ended /\ r = << >> /\ Head(own.toReader) = Eof /\ Tail(own.toReader) = << >>
      <3>1. own.toReader # << >>
        BY <1>2
      <3> QED
        BY <2>1, <3>1, LineHead
    <2> QED
      BY <1>2, <2>3, <2>4, <2>5
  <1> QED
    BY <1>4, <1>5

LEMMA ReadReaderClose ==
  ASSUME StreamTypes, ControlInv, ReadInv, ReaderClose
  PROVE  ReadInv' /\ Steady
  <1>1. own \in Owners /\ taken \in Seq(ChunkSet)
    BY DEF StreamTypes, ReaderTypes
  <1>2. /\ rClosing' /\ ~rClosing
        /\ own'.toWriter = (IF own.slot = NoChunk THEN own.toWriter ELSE Append(own.toWriter, Pipe))
        /\ UNCHANGED <<writer, inbound, taken, adopted, told, ended>>
    BY <1>1, ReaderCloseIs
  <1>3. Fixed
    BY <1>2 DEF Fixed, writer, Over
  <1>4. own'.toWriter = <<OK>> <=> own.toWriter = <<OK>>
    <2>1. CASE own.slot = NoChunk
      BY <1>2, <2>1
    <2>2. CASE own.slot # NoChunk
      <3>1. own.toWriter = << >>
        BY <1>1, <2>2, WaitsInTime DEF ControlInv, Waiting, Owners
      <3>2. own'.toWriter = <<Pipe>>
        BY <1>2, <2>2, <3>1, FirstOf
      <3> QED
        BY <3>1, <3>2, NotYet
    <2> QED
      BY <2>1, <2>2
  <1>5. told => taken = Stream
    <2>1. ASSUME told PROVE taken = Stream
      <3>1. inbound = << >> /\ own.toReader = << >> /\ own.inbound = << >>
        BY <1>2, <2>1 DEF ReadInv
      <3>2. Chunks(own.toReader) = << >>
        BY <3>1 DEF Chunks
      <3>3. taken \o << >> = taken
        BY <1>1, ConcatEmptySeq
      <3> QED
        BY <3>1, <3>2, <3>3 DEF Stream
    <2> QED
      BY <2>1
  <1> QED
    BY <1>2, <1>3, <1>4, <1>5 DEF ReadInv, Steady, GotSame

LEMMA ReadWriterCloses ==
  ASSUME StreamTypes, ReadInv, NEW p, p = CloseWriter(own), own'.toReader = p.toReader,
         own'.ended = p.ended, own'.inbound = p.inbound, own'.eof = p.eof,
         UNCHANGED <<rClosing, inbound, taken, ended, told>>
  PROVE  ReadInv' /\ GotSame
  <1>1. own \in Owners /\ taken \in Seq(ChunkSet) /\ inbound \in Seq(ChunkSet)
    BY DEF StreamTypes, ReaderTypes
  <1>2. CASE rClosing
    BY <1>2 DEF ReadInv, GotSame
  <1>3. CASE ~rClosing
    <2>1. p \in Owners
      BY <1>1, CloseWriterIs
    <2>2. PICK q \in Owners :
            /\ SameEnds(q, p) /\ Published(q, p) /\ q.eof /\ q.ended = own.ended
            /\ q.toReader = own.toReader /\ q.slot = NoChunk /\ q.inbound = own.inbound
      BY <1>1, CloseWriterIs
    <2>3. PICK r : Line(own.toReader, own.ended, r)
      BY <1>3 DEF ReadInv
    <2>4. Line(q.toReader, q.ended, r) /\ (q.ended => q.eof /\ q.inbound = << >>)
      BY <1>3, <2>2, <2>3 DEF ReadInv
    <2>5. /\ p.ended => p.eof /\ p.inbound = << >>
          /\ q.ended => p.ended /\ p.toReader = q.toReader
      BY <1>1, <2>1, <2>2, <2>4, PublishedLine
    <2>6. Carries(q, p, taken, inbound, r)
      BY <1>1, <2>1, <2>2, <2>4, PublishedLine
    <2>7. q.slot \notin ChunkSet
      BY <2>2, ChunkIs
    <2>8. PICK x : /\ Line(p.toReader, p.ended, x)
                   /\ Joined(taken, inbound, x, p.inbound) = Joined(taken, inbound, r, q.inbound)
      BY <2>6, <2>7 DEF Carries
    <2>9. Stream = Joined(taken, inbound, r, own.inbound) /\ Stream' = Joined(taken, inbound, x, p.inbound)
      BY <2>3, <2>8, StreamIs, StreamIsThen
    <2>10. ReadInv'
      BY <1>3, <2>2, <2>5, <2>8 DEF ReadInv
    <2> QED
      BY <1>3, <2>2, <2>8, <2>9, <2>10 DEF GotSame
  <1> QED
    BY <1>2, <1>3

LEMMA ReadClose ==
  ASSUME StreamTypes, ControlInv, ReadInv, Close
  PROVE  ReadInv' /\ Steady
  <1>1. /\ UNCHANGED <<writes, made, answers, reader>> /\ Over' /\ own \in Owners
        /\ own' = IF channel = "open" THEN CloseWriter(own) ELSE own
    BY DEF Close, StreamTypes, Over
  <1>2. CASE channel # "open"
    <2>1. own' = own
      BY <1>1, <1>2
    <2> QED
      BY <1>1, <2>1, ReadSame DEF Steady, Fixed, reader
  <1>3. CASE channel = "open"
    <2>1. own' = CloseWriter(own)
      BY <1>1, <1>3
    <2>2. ReadInv' /\ GotSame
      BY <1>1, <2>1, ReadWriterCloses DEF reader
    <2>3. own'.toWriter = IF own.slot = NoChunk THEN own.toWriter ELSE Append(own.toWriter, Canceled)
      BY <1>1, <2>1, ClosedWriterIs
    <2>4. own'.toWriter = <<OK>> <=> own.toWriter = <<OK>>
      <3>1. CASE own.slot = NoChunk
        BY <2>3, <3>1
      <3>2. CASE own.slot # NoChunk
        <4>1. own.toWriter = << >>
          BY <1>1, <3>2, WaitsInTime DEF ControlInv, Waiting, Owners
        <4>2. own'.toWriter = <<Canceled>>
          BY <2>3, <3>2, <4>1, FirstOf
        <4> QED
          BY <4>1, <4>2, NotYet
      <3> QED
        BY <3>1, <3>2
    <2> QED
      BY <1>1, <2>2, <2>4 DEF Steady, Fixed
  <1> QED
    BY <1>2, <1>3

LEMMA ReadShutdown ==
  ASSUME StreamTypes, ControlInv, ReadInv, Shutdown \/ TakeShutdown
  PROVE  ReadInv' /\ Steady
  <1>1. /\ own'.inbound = own.inbound /\ own'.toReader = own.toReader
        /\ own'.ended = own.ended /\ own'.eof = own.eof
        /\ UNCHANGED <<writes, made, answers, wClosing, channel, reader>>
        /\ own'.toWriter = own.toWriter \/ (writes = << >> /\ own'.toWriter = << >>)
    BY ControlShutdown
  <1>2. ReadInv' /\ GotSame
    BY <1>1, ReadSame DEF reader
  <1>3. writes = << >> => own.toWriter # <<OK>>
    BY NotYet DEF ControlInv, FlightInv, Resting
  <1>4. own'.toWriter = <<OK>> <=> own.toWriter = <<OK>>
    BY <1>1, <1>3, NotYet
  <1> QED
    BY <1>1, <1>2, <1>4 DEF Steady, Fixed, Over

LEMMA ReadAnswers ==
  ASSUME StreamTypes, ReadInv, TakeAnswer
  PROVE  ReadInv' /\ GotSame
  <1>1. UNCHANGED <<rClosing, inbound, taken, ended, told>>
    BY DEF TakeAnswer, reader
  <1>2. own'.toReader = own.toReader /\ own'.inbound = own.inbound /\ own'.ended = own.ended
        /\ own'.eof = own.eof
    BY TakeAnswerTypes
  <1> QED
    BY <1>1, <1>2, ReadSame

LEMMA ReadTransport ==
  ASSUME StreamTypes, ReadInv, TransportClosed
  PROVE  ReadInv' /\ GotSame
  <1>1. own \in Owners
    BY DEF StreamTypes
  <1>2. PICK p : p = CloseWriter(own) /\ own'.eof = p.eof /\ own'.ended = p.ended
                 /\ own'.toReader = p.toReader /\ own'.inbound = p.inbound
    BY <1>1, TransportClosedIs
  <1>3. UNCHANGED <<rClosing, inbound, taken, ended, told>>
    BY DEF TransportClosed, reader
  <1> QED
    BY <1>2, <1>3, ReadWriterCloses

LEMMA StoppedKeeps ==
  ASSUME StreamTypes, QueueInv, OwnerStopped, NEW i \in 1 .. Len(made), answers'[i] = <<OK>>
  PROVE  answers[i] = <<OK>>
  <1>1. /\ answers \in Seq(Seq(Replies)) /\ writes \in Seq(WriteSet) /\ made \in Seq(MadeSet)
        /\ answers' = Answered(writes, Canceled)
    BY DEF StreamTypes, WriterTypes, OwnerStopped
  <1>2. DOMAIN answers = 1 .. Len(made) /\ DOMAIN writes = 1 .. Len(writes)
    BY <1>1 DEF QueueInv
  <1>3. answers'[i] = IF \E j \in 1 .. Len(writes) : writes[j].id = i
                      THEN Append(answers[i], Canceled) ELSE answers[i]
    BY <1>1, <1>2 DEF Answered
  <1>4. ASSUME NEW j \in 1 .. Len(writes), writes[j].id = i PROVE FALSE
    <2>1. PICK n \in Nat, q \in Nat : n = Len(made) /\ q = Len(writes)
      BY <1>1
    <2>2. i = Told + j /\ Told = n - q
      BY <1>4, <2>1 DEF QueueInv, Told
    <2>3. i > Told
      BY <2>1, <2>2
    <2>4. answers[i] = << >>
      BY <2>3 DEF QueueInv
    <2>5. answers'[i] = <<Canceled>>
      BY <1>3, <1>4, <2>4, FirstOf
    <2> QED
      BY <2>5, NotYet
  <1> QED
    BY <1>3, <1>4

LEMMA ReadDropped ==
  ASSUME StreamTypes, ControlInv, ReadInv, WriteFails \/ OwnerStopped
  PROVE  ReadInv' /\ Dropped
  <1>1. UNCHANGED <<made, own, reader>> /\ channel # "open" /\ Over'
    BY ControlFails DEF OwnerStopped, Over
  <1>2. \A i \in 1 .. Len(made) : answers'[i] = <<OK>> => answers[i] = <<OK>>
    BY ControlFails, StoppedKeeps DEF ControlInv
  <1>3. writes' # << >> => Head(writes').sent = 0
    BY ControlFails DEF OwnerStopped
  <1>4. ReadInv' /\ GotSame
    BY <1>1, ReadSame DEF reader
  <1> QED
    BY <1>1, <1>2, <1>3, <1>4 DEF Dropped

\* The write is queued, or answered at once; then its only chunk is the last of the stream.
WriteBehind ==
  /\ writes' = Append(writes, [id |-> Len(made) + 1, sent |-> 0]) /\ answers' = Append(answers, << >>)
  /\ GotSame /\ own'.toWriter = own.toWriter
WriteAtOnce ==
  /\ writes = << >> /\ writes' = << >> /\ made'[Len(made) + 1].size = 1
  /\ \/ (rClosing \/ Over) /\ GotSame /\ answers' = Append(answers, <<Pipe>>)
     \/ /\ ~rClosing /\ ~rClosing' /\ ~Over /\ answers' = Append(answers, <<OK>>)
        /\ Stream' = Append(Stream, PartOf(made', Len(made) + 1, 1))

LEMMA ReadWrite ==
  ASSUME StreamTypes, ControlInv, ReadInv, NEW size \in Sizes, NEW carries \in BOOLEAN, Write(size, carries)
  PROVE  ReadInv' /\ (WriteBehind \/ WriteAtOnce)
  <1>1. /\ ~wClosing /\ ~writeEnded /\ UNCHANGED <<rClosing, inbound, taken, ended, told>>
        /\ Len(made') = Len(made) + 1 /\ Len(made) \in Nat
        /\ made'[Len(made) + 1] = [size |-> size, carries |-> carries]
        /\ (size = 1 /\ ~carries /\ WriteNow) \/ WriteQueued(carries)
    BY WriteIs DEF reader
  <1>2. own \in Owners /\ (~Over => ~own.eof) /\ (own.rOpen <=> ~rClosing) /\ (Over <=> channel # "open")
    BY <1>1 DEF StreamTypes, ControlInv, ClosingInv, Over
  <1>3. CASE size = 1 /\ ~carries /\ WriteNow
    <2>b. made'[Len(made) + 1] = [size |-> size, carries |-> FALSE]
      BY <1>1, <1>3
    <2>1. made'[Len(made) + 1] = [size |-> size, carries |-> FALSE] /\ made'[Len(made) + 1].size = 1
      BY <1>3, <2>b
    <2>a. PICK chunk : chunk = [write |-> Len(made) + 1, part |-> 1, handle |-> FALSE]
      OBVIOUS
    <2>2. /\ chunk \in ChunkSet /\ chunk = [write |-> Len(made) + 1, part |-> 1, handle |-> FALSE]
          /\ writes = << >> /\ UNCHANGED writes
          /\ \/ (~own.rOpen \/ Over) /\ answers' = Append(answers, <<Pipe>>) /\ UNCHANGED own
             \/ /\ own.rOpen /\ ~Over /\ answers' = Append(answers, <<OK>>)
                /\ Untouched(own, own') /\ own'.inbound = Append(own.inbound, chunk)
      BY <1>1, <1>2, <1>3, <2>1, <2>a, WriteNowIs
    <2>3. chunk = PartOf(made', Len(made) + 1, 1)
      <3>1. PICK h : h = (made'[Len(made) + 1].carries /\ 1 = 1)
        OBVIOUS
      <3>2. made'[Len(made) + 1].carries = FALSE
        BY <2>1
      <3>3. h = FALSE
        BY <3>1, <3>2, Zenon
      <3>4. PartOf(made', Len(made) + 1, 1) = [write |-> Len(made) + 1, part |-> 1, handle |-> h]
        BY <3>1, Zenon DEF PartOf
      <3> QED
        BY <2>2, <3>3, <3>4, Zenon
    <2>4. CASE ~own.rOpen \/ Over
      BY <1>1, <1>2, <2>1, <2>2, <2>4, ReadSame DEF WriteAtOnce
    <2>5. CASE own.rOpen /\ ~Over
      <3>1. ReadInv' /\ Stream' = Append(Stream, chunk)
        BY <1>1, <1>2, <2>2, <2>5, ReadGrown DEF Untouched
      <3> QED
        BY <1>1, <1>2, <2>1, <2>2, <2>3, <2>5, <3>1 DEF WriteAtOnce
    <2> QED
      BY <2>4, <2>5
  <1>4. CASE WriteQueued(carries)
    <2>1. /\ writes' = Append(writes, [id |-> Len(made) + 1, sent |-> 0])
          /\ answers' = Append(answers, << >>)
          /\ own'.eof = own.eof /\ own'.ended = own.ended /\ own'.inbound = own.inbound
          /\ own'.toWriter = own.toWriter /\ own'.toReader = own.toReader
      BY <1>1, <1>2, <1>4, WriteQueuedIs
    <2> QED
      BY <1>1, <2>1, ReadSame DEF WriteBehind
  <1> QED
    BY <1>1, <1>3, <1>4

LEMMA ReadStarts == ASSUME StreamInit PROVE ReadInv
  <1>1. own.toReader = << >> /\ ~own.ended /\ ~ended /\ ~told
    BY DEF StreamInit
  <1>2. Line(own.toReader, own.ended, << >>)
    BY <1>1 DEF Line
  <1> QED
    BY <1>1, <1>2 DEF ReadInv

\* Every step, by what it does to the stream.
LEMMA ReadStep ==
  ASSUME StreamTypes, ControlInv, ReadInv, StreamNext
  PROVE  /\ ReadInv'
         /\ \/ Steady
            \/ Gained
            \/ (TakeAnswer \/ TransportClosed) /\ GotSame
            \/ Dropped
            \/ /\ \E size \in Sizes, carries \in BOOLEAN : Write(size, carries)
               /\ WriteBehind \/ WriteAtOnce
  <1>1. StreamTypes' /\ own \in Owners
    BY TypesStep DEF StreamTypes
  <1>2. CASE OwnerTurn
    BY <1>1, <1>2, OwnerTurnIs, ReadPublished DEF reader
  <1>3. CASE TakeGrant
    BY <1>1, <1>3, TakeGrantIs, ReadPublished
  <1>4. CASE TakeAnswer \/ TransportClosed
    BY <1>4, ReadAnswers, ReadTransport
  <1>5. CASE \E size \in Sizes, carries \in BOOLEAN : Write(size, carries)
    BY <1>5, ReadWrite
  <1> QED
    BY <1>2, <1>3, <1>4, <1>5, ReadTakeWrite, ReadReads, ReadReceive, ReadReaderClose, ReadClose,
       ReadShutdown, ReadDropped DEF StreamNext, Steps

----------------------------------------------------------------------------
(* The stream is what was written, and what was answered is in it           *)

\* The first chunks of write i are among those the reader got.
Whole(all, got, i, n) == \A k \in 1 .. n : PartOf(all, i, k) \in Range(got)

LEMMA WholeMore ==
  ASSUME NEW all, NEW more, Extends(all, more), NEW got, NEW i \in 1 .. Len(all), NEW n, Whole(all, got, i, n)
  PROVE  Whole(more, got, i, n)
  <1>1. more[i] = all[i]
    BY DEF Extends
  <1>2. ASSUME NEW k \in 1 .. n PROVE PartOf(more, i, k) = PartOf(all, i, k)
    BY <1>1, Zenon DEF PartOf
  <1> QED
    BY <1>2 DEF Whole

LEMMA RangeNext ==
  ASSUME NEW got \in Seq(ChunkSet), NEW c \in ChunkSet
  PROVE  c \in Range(Append(got, c)) /\ Range(got) \subseteq Range(Append(got, c))
  <1>1. PICK v \in Seq(ChunkSet) : v = Append(got, c)
    BY AppendProperties
  <1>2. Len(v) = Len(got) + 1 /\ Len(got) \in Nat /\ v[Len(got) + 1] = c /\ \A k \in 1 .. Len(got) : v[k] = got[k]
    BY <1>1, AppendProperties
  <1>3. DOMAIN v = 1 .. Len(got) + 1 /\ DOMAIN got = 1 .. Len(got)
    BY <1>2
  <1>4. Len(got) + 1 \in DOMAIN v /\ \A k \in 1 .. Len(got) : k \in DOMAIN v
    BY <1>2, <1>3
  <1>5. c \in Range(v)
    BY <1>2, <1>4, Zenon DEF Range
  <1>6. ASSUME NEW x \in Range(got) PROVE x \in Range(v)
    <2>1. PICK k \in DOMAIN got : x = got[k]
      BY Zenon DEF Range
    <2>2. k \in DOMAIN v /\ v[k] = x
      BY <1>2, <1>3, <1>4, <2>1
    <2> QED
      BY <2>2, Zenon DEF Range
  <1> QED
    BY <1>1, <1>5, <1>6

LEMMA WholeLonger ==
  ASSUME NEW all, NEW got \in Seq(ChunkSet), NEW c \in ChunkSet, NEW i, NEW n, Whole(all, got, i, n)
  PROVE  Whole(all, Append(got, c), i, n)
  <1>1. Range(got) \subseteq Range(Append(got, c))
    BY RangeNext
  <1> QED
    BY <1>1 DEF Whole

LEMMA WholeNext ==
  ASSUME NEW all, NEW got \in Seq(ChunkSet), NEW i, NEW n \in Nat, Whole(all, got, i, n),
         NEW c \in ChunkSet, c = PartOf(all, i, n + 1)
  PROVE  Whole(all, Append(got, c), i, n + 1)
  <1>1. c \in Range(Append(got, c)) /\ Range(got) \subseteq Range(Append(got, c))
    BY RangeNext
  <1>2. \A k \in 1 .. n + 1 : k = n + 1 \/ k \in 1 .. n
    OBVIOUS
  <1> QED
    BY <1>1, <1>2 DEF Whole

LEMMA EndsWhole ==
  ASSUME NEW all, NEW s, NEW i \in Nat \ {0}, all[i].size \in Nat \ {0}, EndsIn(all, s, i, all[i].size)
  PROVE  EndsIn(all, s, i + 1, 0)
  <1>1. s # << >> /\ s[Len(s)] = PartOf(all, i, all[i].size)
    BY DEF EndsIn
  <1>2. i + 1 # 1 /\ (i + 1) - 1 = i /\ ~(0 > 0)
    OBVIOUS
  <1> QED
    BY <1>1, <1>2 DEF EndsIn

\* The chunks of the first write queued that the owner has answered and the writer has not
\* seen it.
Ahead == IF own.toWriter = <<OK>> THEN 1 ELSE 0
Got == IF rClosing THEN taken ELSE Stream

\* The stream ends where the first write queued has got to.
TipInv ==
  ~rClosing /\ ~Over =>
    IF writes = << >> THEN EndsIn(made, Stream, Len(made) + 1, 0)
    ELSE EndsIn(made, Stream, Head(writes).id, Head(writes).sent + Ahead)
OrderInv == AsWrittenIn(made, taken) /\ (~rClosing => AsWrittenIn(made, Stream))
\* What was answered, and what is about to be, is with the reader.
KeptInv ==
  ~rClosing \/ told =>
    /\ \A i \in 1 .. Len(made) : answers[i] = <<OK>> => Whole(made, Got, i, made[i].size)
    /\ writes # << >> => Whole(made, Got, Head(writes).id, Head(writes).sent + Ahead)

LEMMA GotSameIs ==
  ASSUME GotSame, ~rClosing' \/ told'
  PROVE  (~rClosing \/ told) /\ Got' = Got
  BY DEF GotSame, Got

LEMMA StreamSeq ==
  ASSUME StreamTypes, ReadInv, ~rClosing
  PROVE  Stream \in Seq(ChunkSet)
  BY StreamIs DEF ReadInv

LEMMA MadeExtends ==
  ASSUME StreamTypes
  PROVE  /\ Extends(made, made)
         /\ \A size \in Sizes, carries \in BOOLEAN : Write(size, carries) => Extends(made, made')
  <1>1. made \in Seq(MadeSet) /\ Len(made) \in Nat
    BY DEF StreamTypes, WriterTypes
  <1>2. ASSUME NEW size \in Sizes, NEW carries \in BOOLEAN, Write(size, carries) PROVE Extends(made, made')
    <2>1. /\ made' \in Seq(MadeSet) /\ Len(made') = Len(made) + 1
          /\ \A i \in 1 .. Len(made) : made'[i] = made[i]
      BY <1>2, WriteIs
    <2>2. Len(made) <= Len(made')
      BY <1>1, <2>1
    <2> QED
      BY <1>1, <2>1, <2>2 DEF Extends
  <1>3. Extends(made, made)
    BY <1>1 DEF Extends
  <1> QED
    BY <1>2, <1>3

LEMMA ToldAll ==
  ASSUME StreamTypes, ReadInv, told, ~rClosing
  PROVE  taken = Stream
  <1>1. inbound = << >> /\ own.toReader = << >> /\ own.inbound = << >>
    BY DEF ReadInv
  <1>2. Chunks(own.toReader) = << >>
    BY <1>1 DEF Chunks
  <1>3. taken \o << >> = taken
    BY ConcatEmptySeq DEF StreamTypes, ReaderTypes
  <1> QED
    BY <1>1, <1>2, <1>3 DEF Stream

\* What an answer does to the first write queued: its next chunk is due, or it is over.
Advances ==
  /\ own.toWriter = <<OK>> /\ writes' # << >> /\ answers' = answers
  /\ Head(writes').id = Head(writes).id /\ Head(writes').sent = Head(writes).sent + 1
Complete == own.toWriter = <<OK>> /\ Head(writes).sent + 1 = made[Head(writes).id].size
Completes ==
  /\ ~rClosing /\ ~Over => Complete
  /\ \A i \in 1 .. Len(made) :
       answers'[i] = <<OK>> => answers[i] = <<OK>> \/ (i = Head(writes).id /\ Complete)
  /\ writes' # << >> => Head(writes').id = Head(writes).id + 1 /\ Head(writes').sent = 0
  /\ writes' = << >> /\ ~Over => Len(made) = Head(writes).id

LEMMA HeadOfOne == ASSUME NEW s, NEW x, s = <<x>> PROVE Head(s) = x
  OBVIOUS

LEMMA AnswerMoves ==
  ASSUME StreamTypes, ControlInv, TakeAnswer
  PROVE  /\ writes # << >> /\ own'.toWriter = << >> /\ UNCHANGED <<made, rClosing>> /\ Over' = Over
         /\ Advances \/ Completes
  <1>1. /\ writes # << >> /\ Replied /\ own.toWriter = <<Head(own.toWriter)>>
        /\ Head(writes) \in WriteSet /\ Head(writes).id = Told + 1 /\ Head(writes) = writes[1]
        /\ Head(writes).sent < made[Told + 1].size
        /\ (GoesOn \/ IsAnswered) /\ QueueInv /\ ClosingInv
        /\ UNCHANGED <<made, rClosing>> /\ Over' = Over /\ (Over <=> wClosing)
    BY TakeAnswerIs DEF TakeAnswer, ControlInv, reader, Over
  <1>2. own'.toWriter = << >>
    <2>1. Tail(own.toWriter) = << >>
      BY <1>1, OneTail
    <2> QED
      BY <2>1, TakeAnswerTypes
  <1>3. writes \in Seq(WriteSet) /\ made \in Seq(MadeSet)
    BY DEF StreamTypes, WriterTypes
  <1>4. PICK w, rest, status :
          w = Head(writes) /\ rest = Tail(writes) /\ status = Head(own.toWriter)
    OBVIOUS
  <1>5. w \in WriteSet /\ w.id = Told + 1 /\ w.sent \in Nat /\ w.id \in 1 .. Len(made)
        /\ w.sent < made[w.id].size /\ made[w.id].size \in Nat
    BY <1>1, <1>4, FirstIs
  <1>6. CASE GoesOn
    <2>1. PICK next : next = [w EXCEPT !.sent = @ + 1]
      OBVIOUS
    <2>2. own.toWriter = <<OK>> /\ writes' = <<next>> \o rest /\ answers' = answers
      BY <1>4, <1>6, <2>1 DEF GoesOn
    <2>3. next \in WriteSet /\ next.id = w.id /\ next.sent = w.sent + 1
      BY <1>5, <2>1 DEF WriteSet
    <2>4. rest \in Seq(WriteSet)
      BY <1>1, <1>3, <1>4, TailIs
    <2>5. writes' # << >> /\ Head(writes') = next
      BY <2>2, <2>3, <2>4
    <2>6. Advances
      BY <1>4, <2>2, <2>3, <2>5 DEF Advances
    <2> QED
      BY <1>1, <1>2, <2>6
  <1>7. CASE IsAnswered
    <2>1. PICK more : more = (status = OK /\ w.sent + 1 < made[w.id].size)
      OBVIOUS
    <2>2. /\ more => wClosing
          /\ answers'[w.id] = <<IF more THEN Canceled ELSE status>>
          /\ \A i \in 1 .. Len(made) : i <= Told => answers'[i] = answers[i]
          /\ wClosing => /\ \A i \in 1 .. Len(made) : i > Told + 1 => answers'[i] = <<Canceled>>
                         /\ writes' = << >>
          /\ ~wClosing => /\ \A i \in 1 .. Len(made) : i > Told + 1 => answers'[i] = answers[i]
                          /\ \/ writes' = << >> /\ rest = << >>
                             \/ rest # << >> /\ writes' = rest
      BY <1>4, <1>7, <2>1 DEF IsAnswered
    <2>3. own.toWriter = <<status>>
      BY <1>1, <1>4
    <2>4. status = OK /\ ~more => Complete
      <3>1. ASSUME status = OK, ~more PROVE w.sent + 1 = made[w.id].size
        <4>1. ~(w.sent + 1 < made[w.id].size)
          BY <2>1, <3>1, Zenon
        <4> QED
          BY <1>5, <4>1
      <3> QED
        BY <1>4, <2>3, <3>1 DEF Complete
    <2>5. ~rClosing /\ ~Over => Complete
      <3>1. ASSUME ~rClosing, ~Over PROVE status = OK /\ ~more
        <4>1. own.toWriter = <<OK>>
          BY <1>1, <3>1 DEF Replied, ClosingInv
        <4>2. Head(own.toWriter) = OK
          BY <4>1, HeadOfOne
        <4> QED
          BY <1>1, <1>4, <2>2, <3>1, <4>2
      <3> QED
        BY <2>4, <3>1
    <2>6. ASSUME NEW i \in 1 .. Len(made), answers'[i] = <<OK>>
          PROVE  answers[i] = <<OK>> \/ (i = w.id /\ Complete)
      <3>1. CASE i <= Told
        BY <2>2, <2>6, <3>1
      <3>2. CASE i > Told + 1
        BY <2>2, <2>6, <3>2, NotYet
      <3>3. CASE i = w.id
        <4>1. <<IF more THEN Canceled ELSE status>> = <<OK>>
          BY <2>2, <2>6, <3>3
        <4>2. (IF more THEN Canceled ELSE status) = OK
          BY <4>1
        <4>3. Canceled # OK
          BY DEF Canceled, OK
        <4>4. ~more /\ status = OK
          BY <4>2, <4>3
        <4> QED
          BY <2>4, <3>3, <4>4
      <3>4. i <= Told \/ i = Told + 1 \/ i > Told + 1
        <4>1. PICK n \in Nat, q \in Nat : n = Len(made) /\ q = Len(writes)
          BY <1>3
        <4>2. Told = n - q
          BY <4>1 DEF Told
        <4> QED
          BY <4>1, <4>2
      <3> QED
        BY <1>5, <3>1, <3>2, <3>3, <3>4
    <2>7. ASSUME writes' # << >> PROVE Head(writes').id = w.id + 1 /\ Head(writes').sent = 0
      <3>1. rest # << >> /\ writes' = rest
        BY <2>2, <2>7
      <3>2. rest \in Seq(WriteSet) /\ Len(rest) = Len(writes) - 1 /\ Len(writes) \in Nat
            /\ \A k \in 1 .. Len(writes) - 1 : rest[k] = writes[k + 1]
        BY <1>1, <1>3, <1>4, TailIs
      <3>3. Head(rest) = rest[1] /\ Len(rest) \in Nat \ {0}
        BY <3>1, <3>2, TailIs
      <3>4. Head(rest) = writes[2] /\ 2 \in 1 .. Len(writes)
        BY <3>2, <3>3
      <3>5. writes[2].id = Told + 2 /\ writes[2].sent = 0
        BY <1>1, <3>4 DEF QueueInv
      <3>6. Told + 2 = (Told + 1) + 1
        <4>1. PICK n \in Nat, q \in Nat : n = Len(made) /\ q = Len(writes)
          BY <1>3
        <4>2. Told = n - q
          BY <4>1 DEF Told
        <4> QED
          BY <4>2
      <3> QED
        BY <1>5, <3>1, <3>4, <3>5, <3>6
    <2>8. ASSUME writes' = << >>, ~Over PROVE Len(made) = w.id
      <3>1. rest = << >>
        BY <1>1, <2>2, <2>8
      <3>2. Len(writes) = 1
        <4>1. Len(rest) = Len(writes) - 1 /\ Len(writes) \in Nat
          BY <1>1, <1>3, <1>4, TailIs
        <4>2. Len(rest) = 0
          BY <3>1
        <4> QED
          BY <4>1, <4>2
      <3>3. PICK n \in Nat : n = Len(made)
        BY <1>3
      <3>4. Told = n - 1
        BY <3>2, <3>3 DEF Told
      <3> QED
        BY <1>5, <3>3, <3>4
    <2>9. Completes
      BY <1>4, <2>5, <2>6, <2>7, <2>8 DEF Completes
    <2> QED
      BY <1>1, <1>2, <2>9
  <1> QED
    BY <1>1, <1>6, <1>7

----------------------------------------------------------------------------
(* In order                                                                 *)

\* What the reader's program was given is the first of the stream.
LEMMA TakenFirst ==
  ASSUME StreamTypes', ReadInv', ~rClosing'
  PROVE  \E u \in Seq(ChunkSet) : Stream' = taken' \o u
  <1>1. PICK r : Line(own'.toReader, own'.ended, r)
    BY DEF ReadInv
  <1>2. /\ taken' \in Seq(ChunkSet) /\ inbound' \in Seq(ChunkSet) /\ r \in Seq(ChunkSet)
        /\ own'.inbound \in Seq(ChunkSet)
    BY <1>1 DEF StreamTypes, ReaderTypes, Owners, Line
  <1>3. Stream' = Joined(taken', inbound', r, own'.inbound)
    BY <1>1, StreamIsThen
  <1>4. PICK t \in Seq(ChunkSet), i \in Seq(ChunkSet) : t = taken' /\ i = inbound'
    BY <1>2
  <1>5. PICK q \in Seq(ChunkSet) : q = own'.inbound
    BY <1>2
  <1>6. PICK v \in Seq(ChunkSet) : v = i \o r
    BY <1>2, ConcatProperties
  <1>7. PICK u \in Seq(ChunkSet) : u = v \o q
    BY ConcatProperties
  <1>8. (t \o i) \o r = t \o v
    <2>1. r \in Seq(ChunkSet)
      BY <1>2
    <2>2. Cat(Cat(t, i), r) = Cat(t, Cat(i, r))
      BY <2>1, InAnyOrder
    <2> QED
      BY <1>6, <2>2, Zenon DEF Cat
  <1>9. (t \o v) \o q = t \o u
    <2>1. Cat(Cat(t, v), q) = Cat(t, Cat(v, q))
      BY InAnyOrder
    <2> QED
      BY <1>7, <2>1, Zenon DEF Cat
  <1>10. Joined(t, i, r, q) = t \o u
    BY <1>8, <1>9, Zenon DEF Joined
  <1> QED
    BY <1>3, <1>4, <1>5, <1>10

LEMMA OrderThen ==
  ASSUME StreamTypes', ReadInv', ~rClosing', AsWrittenIn(made', Stream')
  PROVE  OrderInv'
  <1>1. PICK u \in Seq(ChunkSet) : Stream' = taken' \o u
    BY TakenFirst
  <1>2. taken' \in Seq(ChunkSet)
    BY DEF StreamTypes, ReaderTypes
  <1>3. AsWrittenIn(made', taken' \o u)
    BY <1>1
  <1>4. AsWrittenIn(made', taken')
    BY <1>2, <1>3, WrittenPrefix
  <1> QED
    BY <1>4 DEF OrderInv, AsWrittenIn, IsPart, PartOf, FollowsIn

LEMMA OrderSame ==
  ASSUME StreamTypes, StreamTypes', ReadInv, ReadInv', OrderInv, GotSame, Extends(made, made')
  PROVE  OrderInv'
  <1>1. CASE rClosing'
    <2>1. taken' = taken /\ taken \in Seq(ChunkSet)
      BY <1>1 DEF GotSame, StreamTypes, ReaderTypes
    <2>2. AsWrittenIn(made', taken)
      BY <2>1, WrittenMore DEF OrderInv
    <2> QED
      BY <1>1, <2>1, <2>2 DEF OrderInv, AsWrittenIn, IsPart, PartOf, FollowsIn
  <1>2. CASE ~rClosing'
    <2>1. ~rClosing /\ Stream' = Stream
      BY <1>2 DEF GotSame
    <2>2. Stream \in Seq(ChunkSet) /\ AsWrittenIn(made, Stream)
      BY <2>1, StreamSeq DEF OrderInv
    <2>3. AsWrittenIn(made', Stream')
      BY <2>1, <2>2, WrittenMore
    <2> QED
      BY <1>2, <2>3, OrderThen
  <1> QED
    BY <1>1, <1>2

\* The chunk due goes to the end of the stream.
LEMMA GainedIs ==
  ASSUME StreamTypes, ControlInv, ReadInv, OrderInv, TipInv, Gained
  PROVE  /\ Due \in ChunkSet /\ Due = PartOf(made, Head(writes).id, Head(writes).sent + 1)
         /\ Stream \in Seq(ChunkSet) /\ Ahead = 0 /\ Ahead' = 1
         /\ AsWrittenIn(made, Stream') /\ EndsIn(made, Stream', Head(writes).id, Head(writes).sent + 1)
  <1>1. ~rClosing /\ ~Over /\ writes # << >> /\ Stream' = Append(Stream, Due) /\ Ahead = 0 /\ Ahead' = 1
    BY DEF Gained, Ahead
  <1>2. made \in Seq(MadeSet) /\ Stream \in Seq(ChunkSet) /\ AsWrittenIn(made, Stream)
    BY <1>1, StreamSeq DEF StreamTypes, WriterTypes, OrderInv
  <1>3. PICK i \in 1 .. Len(made), n \in Nat : i = Head(writes).id /\ n = Head(writes).sent /\ n < made[i].size
    BY <1>1, FirstIs DEF ControlInv
  <1>4. EndsIn(made, Stream, i, n)
    <2>1. n + 0 = n
      OBVIOUS
    <2> QED
      BY <1>1, <1>3, <2>1 DEF TipInv
  <1>5. Due = PartOf(made, i, n + 1)
    BY <1>3, PartIs DEF Due
  <1> QED
    BY <1>1, <1>2, <1>3, <1>4, <1>5, WrittenNext

\* A write taken at once is the next of it, whole.
LEMMA AtOnceIs ==
  ASSUME StreamTypes, ControlInv, ReadInv, OrderInv, TipInv, ~rClosing, ~Over, writes = << >>,
         Extends(made, made'), Len(made') = Len(made) + 1, made'[Len(made) + 1].size = 1,
         Stream' = Append(Stream, PartOf(made', Len(made) + 1, 1))
  PROVE  /\ PartOf(made', Len(made) + 1, 1) \in ChunkSet
         /\ AsWrittenIn(made', Stream') /\ EndsIn(made', Stream', Len(made) + 1, 1)
  <1>1. made \in Seq(MadeSet) /\ made' \in Seq(MadeSet) /\ Len(made) \in Nat
    BY DEF Extends
  <1>2. Stream \in Seq(ChunkSet) /\ AsWrittenIn(made, Stream) /\ EndsIn(made, Stream, Len(made) + 1, 0)
    BY StreamSeq DEF OrderInv, TipInv
  <1>3. PICK i \in Nat \ {0} : i = Len(made) + 1
    BY <1>1
  <1>4. i <= Len(made) + 1 /\ (0 > 0 => i <= Len(made)) /\ i \in 1 .. Len(made') /\ 0 < made'[i].size
    BY <1>1, <1>3
  <1>5. EndsIn(made', Stream, i, 0)
    BY <1>2, <1>3, <1>4, EndsMore
  <1>6. AsWrittenIn(made', Stream)
    BY <1>2, WrittenMore
  <1>7. /\ PartOf(made', i, 0 + 1) \in ChunkSet
        /\ AsWrittenIn(made', Append(Stream, PartOf(made', i, 0 + 1)))
        /\ EndsIn(made', Append(Stream, PartOf(made', i, 0 + 1)), i, 0 + 1)
    BY <1>1, <1>2, <1>4, <1>5, <1>6, WrittenNext
  <1>8. 0 + 1 = 1
    OBVIOUS
  <1> QED
    BY <1>3, <1>7, <1>8

LEMMA OrderStep ==
  ASSUME StreamTypes, ControlInv, ReadInv, OrderInv, TipInv, StreamNext
  PROVE  OrderInv'
  <1>1. StreamTypes' /\ ReadInv'
    BY TypesStep, ReadStep
  <1>2. CASE Steady
    <2>1. Extends(made, made')
      BY <1>2, MadeExtends DEF Steady, Fixed
    <2> QED
      BY <1>1, <1>2, <2>1, OrderSame DEF Steady
  <1>3. CASE Gained
    <2>1. made' = made /\ ~rClosing' /\ AsWrittenIn(made, Stream')
      BY <1>3, GainedIs DEF Gained, Fixed
    <2> QED
      BY <1>1, <2>1, OrderThen
  <1>4. CASE ((TakeAnswer \/ TransportClosed) /\ GotSame) \/ Dropped
    <2>1. made' = made /\ GotSame
      BY <1>4 DEF TakeAnswer, TransportClosed, Dropped
    <2>2. Extends(made, made')
      BY <2>1, MadeExtends
    <2> QED
      BY <1>1, <2>1, <2>2, OrderSame
  <1>5. ASSUME NEW size \in Sizes, NEW carries \in BOOLEAN, Write(size, carries), WriteBehind \/ WriteAtOnce
        PROVE  OrderInv'
    <2>1. Extends(made, made')
      BY <1>5, MadeExtends
    <2>2. CASE GotSame
      BY <1>1, <2>1, <2>2, OrderSame
    <2>3. CASE ~GotSame
      <3>1. /\ ~rClosing /\ ~rClosing' /\ ~Over /\ writes = << >> /\ made'[Len(made) + 1].size = 1
            /\ Stream' = Append(Stream, PartOf(made', Len(made) + 1, 1))
        BY <1>5, <2>3 DEF WriteBehind, WriteAtOnce
      <3>2. Len(made') = Len(made) + 1
        BY <1>5, WriteIs
      <3> QED
        BY <1>1, <2>1, <3>1, <3>2, AtOnceIs, OrderThen
    <2> QED
      BY <2>2, <2>3
  <1> QED
    BY <1>2, <1>3, <1>4, <1>5, ReadStep

----------------------------------------------------------------------------
(* Where the stream ends                                                    *)

LEMMA TipThen ==
  \/ rClosing' \/ Over'
  \/ writes' = << >> /\ EndsIn(made', Stream', Len(made') + 1, 0)
  \/ writes' # << >> /\ EndsIn(made', Stream', Head(writes').id, Head(writes').sent + Ahead')
  => TipInv'
  BY DEF TipInv, EndsIn, PartOf

LEMMA TipAnswers ==
  ASSUME StreamTypes, ControlInv, ReadInv, TipInv, TakeAnswer, GotSame
  PROVE  TipInv'
  <1>1. /\ writes # << >> /\ own'.toWriter = << >> /\ UNCHANGED <<made, rClosing>> /\ Over' = Over
        /\ Advances \/ Completes
    BY AnswerMoves
  <1>2. Ahead' = 0
    BY <1>1, NotYet DEF Ahead
  <1>3. CASE rClosing \/ Over
    BY <1>1, <1>3, TipThen
  <1>4. CASE ~rClosing /\ ~Over
    <2>1. Stream' = Stream
      BY <1>1, <1>4 DEF GotSame
    <2>2. PICK i \in Nat \ {0}, n \in Nat :
            /\ i = Head(writes).id /\ n = Head(writes).sent /\ made[i].size \in Nat \ {0}
      <3>1. made \in Seq(MadeSet) /\ Len(made) \in Nat
        BY DEF StreamTypes, WriterTypes
      <3>2. Head(writes).id \in 1 .. Len(made) /\ Head(writes).sent \in Nat
            /\ made[Head(writes).id].size \in Nat \ {0}
        BY <1>1, FirstIs DEF ControlInv
      <3>3. Head(writes).id \in Nat \ {0}
        BY <3>1, <3>2
      <3> QED
        BY <3>2, <3>3
    <2>3. own.toWriter = <<OK>>
      BY <1>1, <1>4 DEF Advances, Completes, Complete
    <2>4. EndsIn(made, Stream, i, n + 1)
      <3>1. Ahead = 1
        BY <2>3 DEF Ahead
      <3> QED
        BY <1>1, <1>4, <2>2, <3>1 DEF TipInv
    <2>5. CASE Advances
      <3>1. Head(writes').id = i /\ Head(writes').sent + Ahead' = n + 1
        BY <1>2, <2>2, <2>5 DEF Advances
      <3> QED
        BY <1>1, <2>1, <2>4, <2>5, <3>1, TipThen DEF Advances
    <2>6. CASE Completes
      <3>1. n + 1 = made[i].size
        BY <1>4, <2>2, <2>6 DEF Completes, Complete
      <3>2. EndsIn(made, Stream, i + 1, 0)
        BY <2>2, <2>4, <3>1, EndsWhole
      <3>3. CASE writes' = << >>
        <4>1. Len(made') + 1 = i + 1
          BY <1>1, <1>4, <2>2, <2>6, <3>3 DEF Completes
        <4> QED
          BY <1>1, <2>1, <3>2, <3>3, <4>1, TipThen
      <3>4. CASE writes' # << >>
        <4>1. Head(writes').id = i + 1 /\ Head(writes').sent + Ahead' = 0
          BY <1>2, <2>2, <2>6, <3>4 DEF Completes
        <4> QED
          BY <1>1, <2>1, <3>2, <3>4, <4>1, TipThen
      <3> QED
        BY <3>3, <3>4
    <2> QED
      BY <1>1, <2>5, <2>6
  <1> QED
    BY <1>3, <1>4

\* The first write queued when one is added.
LEMMA FirstQueued ==
  ASSUME StreamTypes, ControlInv, WriteBehind, Len(made) \in Nat
  PROVE  /\ writes' # << >>
         /\ writes # << >> => Head(writes') = Head(writes) /\ Ahead' = Ahead
         /\ writes = << >> => Head(writes').id = Len(made) + 1 /\ Head(writes').sent = 0 /\ Ahead' = 0
  <1>1. PICK w : w = [id |-> Len(made) + 1, sent |-> 0]
    OBVIOUS
  <1>2. w \in WriteSet /\ writes \in Seq(WriteSet) /\ w.id = Len(made) + 1 /\ w.sent = 0
    BY <1>1 DEF WriteSet, StreamTypes, WriterTypes
  <1>3. writes' = Append(writes, w) /\ own'.toWriter = own.toWriter
    BY <1>1 DEF WriteBehind
  <1>4. CASE writes = << >>
    <2>1. writes' = <<w>>
      BY <1>3, <1>4, FirstOf
    <2>2. Head(writes') = w /\ writes' # << >>
      BY <2>1
    <2>3. own.toWriter # <<OK>>
      BY <1>4, NotYet DEF ControlInv, FlightInv, Resting
    <2>4. Ahead' = 0
      BY <1>3, <2>3 DEF Ahead
    <2> QED
      BY <1>2, <1>4, <2>2, <2>4
  <1>5. CASE writes # << >>
    <2>1. writes' # << >> /\ Head(writes') = Head(writes)
      BY <1>2, <1>3, <1>5
    <2> QED
      BY <1>3, <1>5, <2>1 DEF Ahead
  <1> QED
    BY <1>4, <1>5

LEMMA TipBehind ==
  ASSUME StreamTypes, ControlInv, ReadInv, TipInv, WriteBehind, Extends(made, made'), Over' = Over
  PROVE  TipInv'
  <1>1. CASE rClosing' \/ Over'
    BY <1>1, TipThen
  <1>2. CASE ~rClosing' /\ ~Over'
    <2>1. ~rClosing /\ ~Over /\ Stream' = Stream /\ Len(made) \in Nat
      BY <1>2 DEF WriteBehind, GotSame, Extends
    <2>2. CASE writes = << >>
      <3>1. EndsIn(made, Stream, Len(made) + 1, 0)
        BY <2>1, <2>2 DEF TipInv
      <3>2. PICK i \in Nat \ {0} : i = Len(made) + 1
        BY <2>1
      <3>3. EndsIn(made', Stream, i, 0)
        BY <2>1, <3>1, <3>2, EndsMore
      <3>4. writes' # << >> /\ Head(writes').id = i /\ Head(writes').sent + Ahead' = 0
        BY <2>1, <2>2, <3>2, FirstQueued
      <3> QED
        BY <2>1, <3>3, <3>4, TipThen
    <2>3. CASE writes # << >>
      <3>1. PICK i \in 1 .. Len(made), n \in Nat : i = Head(writes).id /\ n = Head(writes).sent + Ahead
        <4>1. Head(writes).id \in 1 .. Len(made) /\ Head(writes).sent \in Nat
          BY <2>3, FirstIs DEF ControlInv
        <4>2. Head(writes).sent + Ahead \in Nat
          BY <4>1 DEF Ahead
        <4> QED
          BY <4>1, <4>2
      <3>2. EndsIn(made, Stream, i, n)
        BY <2>1, <2>3, <3>1 DEF TipInv
      <3>3. i \in Nat \ {0} /\ i <= Len(made) + 1 /\ i <= Len(made)
        BY <2>1
      <3>4. EndsIn(made', Stream, i, n)
        BY <3>2, <3>3, EndsMore
      <3>5. writes' # << >> /\ Head(writes').id = i /\ Head(writes').sent + Ahead' = n
        BY <2>1, <2>3, <3>1, FirstQueued
      <3> QED
        BY <2>1, <3>4, <3>5, TipThen
    <2> QED
      BY <2>2, <2>3
  <1> QED
    BY <1>1, <1>2

LEMMA TipStep ==
  ASSUME StreamTypes, ControlInv, ReadInv, OrderInv, TipInv, StreamNext
  PROVE  TipInv'
  <1>1. CASE Steady
    <2>1. CASE rClosing' \/ Over'
      BY <2>1, TipThen
    <2>2. CASE ~rClosing' /\ ~Over'
      <3>1. ~rClosing /\ ~Over /\ Stream' = Stream /\ made' = made /\ writes' = writes /\ Ahead' = Ahead
        BY <1>1, <2>2 DEF Steady, Fixed, GotSame, Ahead
      <3>2. \/ writes' = << >> /\ EndsIn(made', Stream', Len(made') + 1, 0)
            \/ writes' # << >> /\ EndsIn(made', Stream', Head(writes').id, Head(writes').sent + Ahead')
        BY <3>1 DEF TipInv
      <3> QED
        BY <3>2, TipThen
    <2> QED
      BY <2>1, <2>2
  <1>2. CASE Gained
    <2>1. /\ made' = made /\ writes' = writes /\ writes # << >> /\ Ahead' = 1
          /\ EndsIn(made, Stream', Head(writes).id, Head(writes).sent + 1)
      BY <1>2, GainedIs DEF Gained, Fixed
    <2> QED
      BY <2>1, TipThen
  <1>3. CASE TakeAnswer /\ GotSame
    BY <1>3, TipAnswers
  <1>4. CASE TransportClosed \/ Dropped
    BY <1>4, TipThen DEF TransportClosed, Dropped, Over
  <1>5. ASSUME NEW size \in Sizes, NEW carries \in BOOLEAN, Write(size, carries), WriteBehind \/ WriteAtOnce
        PROVE  TipInv'
    <2>a. UNCHANGED <<wClosing, channel, rClosing>> /\ Len(made') = Len(made) + 1 /\ Len(made) \in Nat
      BY <1>5, WriteIs DEF reader
    <2>1. Extends(made, made') /\ Over' = Over /\ rClosing' = rClosing
          /\ Len(made') = Len(made) + 1 /\ Len(made) \in Nat
      BY <1>5, <2>a, MadeExtends DEF Over
    <2>2. CASE WriteBehind
      BY <2>1, <2>2, TipBehind
    <2>3. CASE WriteAtOnce /\ (rClosing \/ Over)
      BY <2>1, <2>3, TipThen
    <2>4. CASE WriteAtOnce /\ ~rClosing /\ ~Over
      <3>1. /\ writes = << >> /\ writes' = << >> /\ made'[Len(made) + 1].size = 1
            /\ Stream' = Append(Stream, PartOf(made', Len(made) + 1, 1))
        BY <2>4 DEF WriteAtOnce
      <3>2. EndsIn(made', Stream', Len(made) + 1, 1)
        BY <2>1, <2>4, <3>1, AtOnceIs
      <3>3. PICK i \in Nat \ {0} : i = Len(made) + 1
        BY <2>1
      <3>4. EndsIn(made', Stream', i + 1, 0)
        BY <3>1, <3>2, <3>3, EndsWhole
      <3> QED
        BY <2>1, <3>1, <3>3, <3>4, TipThen
    <2> QED
      BY <1>5, <2>2, <2>3, <2>4
  <1> QED
    BY <1>1, <1>2, <1>3, <1>4, <1>5, ReadStep

----------------------------------------------------------------------------
(* What was answered is with the reader                                     *)

LEMMA WholeNone == ASSUME NEW all, NEW got, NEW i PROVE Whole(all, got, i, 0)
  BY DEF Whole

LEMMA KeptThen ==
  ASSUME ~rClosing' \/ told' =>
           /\ \A i \in 1 .. Len(made') : answers'[i] = <<OK>> => Whole(made', Got', i, made'[i].size)
           /\ writes' # << >> => Whole(made', Got', Head(writes').id, Head(writes').sent + Ahead')
  PROVE  KeptInv'
  BY DEF KeptInv, Whole, PartOf, Range

LEMMA KeptGained ==
  ASSUME StreamTypes, ControlInv, ReadInv, OrderInv, TipInv, KeptInv, Gained
  PROVE  KeptInv'
  <1>1. /\ Due \in ChunkSet /\ Due = PartOf(made, Head(writes).id, Head(writes).sent + 1)
        /\ Stream \in Seq(ChunkSet) /\ Ahead = 0 /\ Ahead' = 1
    BY GainedIs
  <1>2. /\ UNCHANGED <<made, writes, answers>> /\ ~rClosing /\ ~rClosing' /\ writes # << >>
        /\ Stream' = Append(Stream, Due)
    BY DEF Gained, Fixed
  <1>3. Got = Stream /\ Got' = Append(Stream, Due)
    BY <1>2 DEF Got
  <1>4. PICK w, n \in Nat, c \in ChunkSet : w = Head(writes).id /\ n = Head(writes).sent /\ c = Due
    BY <1>1, <1>2, FirstIs DEF ControlInv
  <1>5. ASSUME NEW i \in 1 .. Len(made), answers[i] = <<OK>>
        PROVE  Whole(made, Append(Stream, c), i, made[i].size)
    <2>1. Whole(made, Stream, i, made[i].size)
      BY <1>2, <1>3, <1>5 DEF KeptInv
    <2> QED
      BY <1>1, <2>1, WholeLonger
  <1>6. Whole(made, Append(Stream, c), w, n + 1)
    <2>1. n + 0 = n
      OBVIOUS
    <2>2. Whole(made, Stream, w, n)
      BY <1>1, <1>2, <1>3, <1>4, <2>1 DEF KeptInv
    <2> QED
      BY <1>1, <1>4, <2>2, WholeNext
  <1> QED
    BY <1>1, <1>2, <1>3, <1>4, <1>5, <1>6, KeptThen

LEMMA KeptAnswers ==
  ASSUME StreamTypes, ControlInv, KeptInv, TakeAnswer, GotSame
  PROVE  KeptInv'
  <1>1. /\ writes # << >> /\ own'.toWriter = << >> /\ UNCHANGED <<made, rClosing>>
        /\ Advances \/ Completes
    BY AnswerMoves
  <1>2. Ahead' = 0
    BY <1>1, NotYet DEF Ahead
  <1>3. PICK w \in 1 .. Len(made), n \in Nat : w = Head(writes).id /\ n = Head(writes).sent
    BY <1>1, FirstIs DEF ControlInv
  <1>4. SUFFICES ASSUME ~rClosing' \/ told'
                 PROVE  /\ \A i \in 1 .. Len(made) : answers'[i] = <<OK>> => Whole(made, Got, i, made[i].size)
                        /\ writes' # << >> => Whole(made, Got, Head(writes').id, Head(writes').sent + Ahead')
    BY <1>1, GotSameIs, KeptThen
  <1>5. /\ \A i \in 1 .. Len(made) : answers[i] = <<OK>> => Whole(made, Got, i, made[i].size)
        /\ Whole(made, Got, w, n + Ahead)
    BY <1>1, <1>3, <1>4, GotSameIs DEF KeptInv
  <1>6. own.toWriter = <<OK>> => Whole(made, Got, w, n + 1)
    BY <1>5 DEF Ahead
  <1>7. CASE Advances
    <2>1. Head(writes').id = w /\ Head(writes').sent + Ahead' = n + 1
      BY <1>2, <1>3, <1>7 DEF Advances
    <2> QED
      BY <1>5, <1>6, <1>7, <2>1 DEF Advances
  <1>8. CASE Completes
    <2>1. ASSUME NEW i \in 1 .. Len(made), answers'[i] = <<OK>> PROVE Whole(made, Got, i, made[i].size)
      <3>1. CASE answers[i] = <<OK>>
        BY <1>5, <3>1
      <3>2. CASE i = w /\ own.toWriter = <<OK>> /\ n + 1 = made[w].size
        BY <1>6, <3>2
      <3> QED
        BY <1>3, <1>8, <2>1, <3>1, <3>2 DEF Completes, Complete
    <2>2. ASSUME writes' # << >> PROVE Whole(made, Got, Head(writes').id, Head(writes').sent + Ahead')
      <3>1. Head(writes').sent + Ahead' = 0
        BY <1>2, <1>8, <2>2 DEF Completes
      <3> QED
        BY <3>1, WholeNone
    <2> QED
      BY <2>1, <2>2
  <1> QED
    BY <1>1, <1>7, <1>8

\* A write is added: what was kept of the others is.
LEMMA KeptOld ==
  ASSUME StreamTypes, QueueInv, KeptInv, ~rClosing \/ told, Extends(made, made'), NEW a, answers' = Append(answers, a),
         a \in Seq(Replies), NEW i \in 1 .. Len(made), answers'[i] = <<OK>>
  PROVE  Whole(made', Got, i, made'[i].size)
  <1>1. answers \in Seq(Seq(Replies)) /\ Len(answers) = Len(made) /\ made \in Seq(MadeSet)
    BY DEF StreamTypes, WriterTypes, QueueInv
  <1>2. answers'[i] = answers[i]
    BY <1>1, AppendIs
  <1>3. Whole(made, Got, i, made[i].size)
    BY <1>2 DEF KeptInv
  <1>4. made'[i] = made[i]
    BY DEF Extends
  <1> QED
    BY <1>3, <1>4, WholeMore

LEMMA LastAnswer ==
  ASSUME StreamTypes, QueueInv, NEW a \in Seq(Replies), answers' = Append(answers, a)
  PROVE  answers'[Len(made) + 1] = a
  <1>1. answers \in Seq(Seq(Replies)) /\ Len(answers) = Len(made)
    BY DEF StreamTypes, WriterTypes, QueueInv
  <1> QED
    BY <1>1, AppendIs

LEMMA NewAnswers == << >> \in Seq(Replies) /\ <<Pipe>> \in Seq(Replies) /\ <<OK>> \in Seq(Replies)
  <1>1. Pipe \in Replies /\ OK \in Replies
    BY DEF Replies
  <1> QED
    BY <1>1

LEMMA KeptBehind ==
  ASSUME StreamTypes, ControlInv, KeptInv, WriteBehind, Extends(made, made'), Len(made') = Len(made) + 1
  PROVE  KeptInv'
  <1>1. QueueInv /\ Len(made) \in Nat /\ answers' = Append(answers, << >>) /\ GotSame
    BY DEF ControlInv, WriteBehind, Extends
  <1>2. SUFFICES ASSUME ~rClosing' \/ told'
                 PROVE  /\ \A i \in 1 .. Len(made') : answers'[i] = <<OK>> => Whole(made', Got, i, made'[i].size)
                        /\ writes' # << >> => Whole(made', Got, Head(writes').id, Head(writes').sent + Ahead')
    BY <1>1, GotSameIs, KeptThen
  <1>3. ~rClosing \/ told
    BY <1>1, <1>2, GotSameIs
  <1>4. ASSUME NEW i \in 1 .. Len(made'), answers'[i] = <<OK>> PROVE Whole(made', Got, i, made'[i].size)
    <2>1. i \in 1 .. Len(made) \/ i = Len(made) + 1
      BY <1>1
    <2>2. i # Len(made) + 1
      BY <1>1, <1>4, LastAnswer, NewAnswers, NotYet
    <2> QED
      BY <1>1, <1>3, <1>4, <2>1, <2>2, KeptOld, NewAnswers
  <1>5. CASE writes = << >>
    <2>1. Head(writes').sent + Ahead' = 0
      BY <1>1, <1>5, FirstQueued
    <2> QED
      BY <1>4, <2>1, WholeNone
  <1>6. CASE writes # << >>
    <2>1. PICK w \in 1 .. Len(made), n \in Nat : w = Head(writes).id /\ n = Head(writes).sent + Ahead
      <3>1. Head(writes).id \in 1 .. Len(made) /\ Head(writes).sent \in Nat
        BY <1>1, <1>6, FirstIs
      <3>2. Head(writes).sent + Ahead \in Nat
        BY <3>1 DEF Ahead
      <3> QED
        BY <3>1, <3>2
    <2>2. Whole(made, Got, w, n)
      BY <1>3, <1>6, <2>1 DEF KeptInv
    <2>3. Whole(made', Got, w, n)
      BY <2>2, WholeMore
    <2>4. Head(writes').id = w /\ Head(writes').sent + Ahead' = n
      BY <1>1, <1>6, <2>1, FirstQueued
    <2> QED
      BY <1>4, <2>3, <2>4
  <1> QED
    BY <1>5, <1>6

LEMMA KeptAtOnce ==
  ASSUME StreamTypes, ControlInv, ReadInv, OrderInv, TipInv, KeptInv, WriteAtOnce, Extends(made, made'),
         Len(made') = Len(made) + 1
  PROVE  KeptInv'
  <1>1. QueueInv /\ Len(made) \in Nat /\ writes = << >> /\ writes' = << >> /\ made'[Len(made) + 1].size = 1
        /\ \A i \in 1 .. Len(made') : i \in 1 .. Len(made) \/ i = Len(made) + 1
    BY DEF ControlInv, WriteAtOnce, Extends
  <1>2. CASE GotSame /\ answers' = Append(answers, <<Pipe>>)
    <2>1. ASSUME ~rClosing' \/ told', NEW i \in 1 .. Len(made'), answers'[i] = <<OK>>
          PROVE  Whole(made', Got, i, made'[i].size)
      <3>1. ~rClosing \/ told
        BY <1>2, <2>1, GotSameIs
      <3>2. i # Len(made) + 1
        BY <1>1, <1>2, <2>1, LastAnswer, NewAnswers, NotYet
      <3> QED
        BY <1>1, <1>2, <2>1, <3>1, <3>2, KeptOld, NewAnswers
    <2> QED
      BY <1>1, <1>2, <2>1, GotSameIs, KeptThen
  <1>3. CASE /\ ~rClosing /\ ~rClosing' /\ ~Over /\ answers' = Append(answers, <<OK>>)
             /\ Stream' = Append(Stream, PartOf(made', Len(made) + 1, 1))
    <2>1. PICK c \in ChunkSet : c = PartOf(made', Len(made) + 1, 1)
      BY <1>1, <1>3, AtOnceIs
    <2>2. Stream \in Seq(ChunkSet) /\ Got = Stream /\ Got' = Append(Stream, c)
      BY <1>3, <2>1, StreamSeq DEF Got
    <2>3. ASSUME NEW i \in 1 .. Len(made), answers'[i] = <<OK>>
          PROVE  Whole(made', Append(Stream, c), i, made'[i].size)
      <3>1. Whole(made', Stream, i, made'[i].size)
        BY <1>1, <1>3, <2>2, <2>3, KeptOld, NewAnswers
      <3> QED
        BY <2>2, <3>1, WholeLonger
    <2>4. Whole(made', Append(Stream, c), Len(made) + 1, made'[Len(made) + 1].size)
      <3>1. PICK i : i = Len(made) + 1
        OBVIOUS
      <3>2. Whole(made', Stream, i, 0) /\ 0 + 1 = 1
        BY WholeNone
      <3>3. Whole(made', Append(Stream, c), i, 0 + 1)
        BY <2>1, <2>2, <3>1, <3>2, WholeNext
      <3> QED
        BY <1>1, <3>1, <3>2, <3>3
    <2> QED
      BY <1>1, <2>2, <2>3, <2>4, KeptThen
  <1> QED
    BY <1>2, <1>3 DEF WriteAtOnce

LEMMA KeptStep ==
  ASSUME StreamTypes, ControlInv, ReadInv, OrderInv, TipInv, KeptInv, StreamNext
  PROVE  KeptInv'
  <1>1. CASE Steady
    <2>1. UNCHANGED <<made, writes, answers>> /\ GotSame /\ Ahead' = Ahead
      BY <1>1 DEF Steady, Fixed, Ahead
    <2>2. ASSUME ~rClosing' \/ told' PROVE (~rClosing \/ told) /\ Got' = Got
      BY <2>1, <2>2, GotSameIs
    <2> QED
      BY <2>1, <2>2, KeptThen DEF KeptInv
  <1>2. CASE Gained
    BY <1>2, KeptGained
  <1>3. CASE TakeAnswer /\ GotSame
    BY <1>3, KeptAnswers
  <1>4. CASE TransportClosed /\ GotSame
    <2>1. UNCHANGED <<made, writes, answers>> /\ GotSame /\ own'.toWriter = << >> /\ Ahead' = 0
      BY <1>4, TransportClosedIs, NotYet DEF StreamTypes, Ahead
    <2>2. ASSUME ~rClosing' \/ told', writes # << >>
          PROVE  Whole(made, Got, Head(writes).id, Head(writes).sent + 0)
      <3>1. PICK w, n \in Nat : w = Head(writes).id /\ n = Head(writes).sent
        BY <2>2, FirstIs DEF ControlInv
      <3>2. Whole(made, Got, w, n + Ahead)
        BY <2>1, <2>2, <3>1, GotSameIs DEF KeptInv
      <3>3. \A k \in 1 .. n + 0 : k \in 1 .. n + Ahead
        BY <3>1 DEF Ahead
      <3> QED
        BY <3>1, <3>2, <3>3 DEF Whole
    <2>3. ASSUME ~rClosing' \/ told' PROVE (~rClosing \/ told) /\ Got' = Got
      BY <2>1, <2>3, GotSameIs
    <2> QED
      BY <2>1, <2>2, <2>3, KeptThen DEF KeptInv
  <1>6. CASE Dropped
    <2>1. made' = made /\ GotSame /\ own' = own /\ own.toWriter = << >>
          /\ \A i \in 1 .. Len(made) : answers'[i] = <<OK>> => answers[i] = <<OK>>
      BY <1>6 DEF Dropped, ControlInv, FlightInv
    <2>2. Ahead' = 0
      BY <2>1, NotYet DEF Ahead
    <2>3. writes' # << >> => Head(writes').sent + Ahead' = 0
      BY <1>6, <2>2 DEF Dropped
    <2>4. writes' # << >> => Whole(made', Got', Head(writes').id, Head(writes').sent + Ahead')
      BY <2>3, WholeNone
    <2>5. ASSUME ~rClosing' \/ told' PROVE (~rClosing \/ told) /\ Got' = Got
      BY <2>1, <2>5, GotSameIs
    <2> QED
      BY <2>1, <2>4, <2>5, KeptThen DEF KeptInv
  <1>5. ASSUME NEW size \in Sizes, NEW carries \in BOOLEAN, Write(size, carries), WriteBehind \/ WriteAtOnce
        PROVE  KeptInv'
    <2>1. Extends(made, made') /\ Len(made') = Len(made) + 1
      BY <1>5, MadeExtends, WriteIs
    <2> QED
      BY <1>5, <2>1, KeptBehind, KeptAtOnce
  <1> QED
    BY <1>1, <1>2, <1>3, <1>4, <1>5, <1>6, ReadStep

----------------------------------------------------------------------------
(* The theorem                                                              *)

AnswerInv == StreamTypes /\ ControlInv /\ ReadInv /\ OrderInv /\ TipInv /\ KeptInv

LEMMA AnswerStarts == ASSUME StreamInit PROVE AnswerInv
  <1>1. StreamTypes /\ ControlInv /\ ReadInv
    BY TypesStart, ControlStart, ReadStarts
  <1>2. /\ made = << >> /\ writes = << >> /\ taken = << >> /\ inbound = << >> /\ own.toReader = << >>
        /\ own.inbound = << >> /\ Len(made) = 0
    BY DEF StreamInit
  <1>3. Stream = << >>
    <2>1. Chunks(own.toReader) = << >>
      BY <1>2 DEF Chunks
    <2> QED
      BY <1>2, <2>1 DEF Stream
  <1>4. AsWrittenIn(made, << >>) /\ EndsIn(made, << >>, 1, 0)
    BY DEF AsWrittenIn, EndsIn
  <1>5. OrderInv
    BY <1>2, <1>3, <1>4 DEF OrderInv
  <1>6. TipInv
    BY <1>2, <1>3, <1>4 DEF TipInv
  <1>7. KeptInv
    BY <1>2 DEF KeptInv
  <1> QED
    BY <1>1, <1>5, <1>6, <1>7 DEF AnswerInv

LEMMA AnswerStutters == ASSUME AnswerInv, UNCHANGED streamVars PROVE AnswerInv'
  <1>1. UNCHANGED <<writes, made, answers, writeEnded, shutdown, wClosing, channel, toOwner, own>>
        /\ UNCHANGED <<rClosing, inbound, ended, taken, told, adopted>>
    BY DEF streamVars, writer, reader
  <1>2. StreamTypes'
    BY <1>1 DEF AnswerInv, StreamTypes, WriterTypes, ReaderTypes
  <1>3. ControlInv'
    BY <1>1, ControlSame DEF AnswerInv, writer
  <1>4. ReadInv' /\ GotSame
    BY <1>1, ReadSame DEF AnswerInv
  <1>5. Stream' = Stream /\ Ahead' = Ahead /\ Got' = Got
    BY <1>1 DEF Stream, Chunks, Ahead, Got
  <1>6. OrderInv'
    BY <1>1, <1>5 DEF AnswerInv, OrderInv
  <1>7. TipInv'
    BY <1>1, <1>5 DEF AnswerInv, TipInv, Over
  <1>8. KeptInv'
    BY <1>1, <1>5, KeptThen DEF AnswerInv, KeptInv
  <1> QED
    BY <1>2, <1>3, <1>4, <1>6, <1>7, <1>8 DEF AnswerInv

LEMMA AnswerIsTrue == ASSUME AnswerInv PROVE AnswersAreTrue
  <1>1. /\ made \in Seq(MadeSet) /\ DOMAIN made = 1 .. Len(made) /\ DOMAIN answers = 1 .. Len(made)
        /\ QueueInv
    BY DEF AnswerInv, StreamTypes, WriterTypes, ControlInv, QueueInv
  <1>2. AsWritten(taken) /\ (~rClosing => AsWritten(Stream))
    BY AsWrittenIs DEF AnswerInv, OrderInv
  <1>3. ASSUME NEW i \in DOMAIN made, answers[i] = <<OK>>
        PROVE  LET parts == {Part(i, k) : k \in 1 .. made[i].size}
               IN  /\ ~rClosing => parts \subseteq Range(Stream)
                   /\ told => parts \subseteq Range(taken)
    <2>1. i \in 1 .. Len(made)
      BY <1>1
    <2>2. ASSUME ~rClosing \/ told PROVE \A k \in 1 .. made[i].size : Part(i, k) \in Range(Got)
      <3>1. Whole(made, Got, i, made[i].size)
        BY <1>3, <2>1, <2>2 DEF AnswerInv, KeptInv
      <3> QED
        BY <3>1, PartIs DEF Whole
    <2>3. ~rClosing => Got = Stream
      BY DEF Got
    <2>4. told => Got = taken
      BY ToldAll DEF Got, AnswerInv
    <2> QED
      BY <2>2, <2>3, <2>4
  <1>4. ASSUME NEW i \in DOMAIN answers
        PROVE  /\ Len(answers[i]) <= 1 /\ answers[i] # <<BadHandle>>
               /\ answers[i] = <<Pipe>> => ~own.rOpen \/ channel # "open"
               /\ answers[i] = <<Canceled>> => wClosing \/ channel # "open"
    <2>1. answers[i] = << >> \/ Answer(i)
      BY <1>1 DEF QueueInv
    <2>2. /\ Len(<< >>) = 0 /\ Len(<<OK>>) = 1 /\ Len(<<Pipe>>) = 1 /\ Len(<<Canceled>>) = 1
      OBVIOUS
    <2>3. Len(answers[i]) <= 1
      <3>1. PICK a : a = answers[i]
        OBVIOUS
      <3>2. a = << >> \/ a = <<OK>> \/ a = <<Pipe>> \/ a = <<Canceled>>
        BY <2>1, <3>1, Zenon DEF Answer
      <3>3. Len(a) = 0 \/ Len(a) = 1
        BY <2>2, <3>2, Zenon
      <3> QED
        BY <3>1, <3>3
    <2>4. /\ <<OK>> # <<BadHandle>> /\ <<Pipe>> # <<BadHandle>> /\ <<Canceled>> # <<BadHandle>>
          /\ << >> # <<BadHandle>> /\ << >> # <<Pipe>> /\ << >> # <<Canceled>> /\ <<OK>> # <<Pipe>>
          /\ <<OK>> # <<Canceled>> /\ <<Pipe>> # <<Canceled>>
      BY DEF OK, Pipe, Canceled, BadHandle
    <2> QED
      BY <2>1, <2>3, <2>4 DEF Answer, Over
  <1> QED
    BY <1>2, <1>3, <1>4 DEF AnswersAreTrue

\* What the writer's program is told of its writes is true: whatever their sizes, the room
\* and the grants, the reader gets what was written, in order, with no gap and none of it
\* twice, a write told to have succeeded is there, whole, and is given before the end, and
\* one that failed has a cause: a close of either end, or of the writer's transport.
THEOREM AnswersStayTrue == StreamSpec => []AnswersAreTrue
  <1>1. StreamInit => AnswerInv
    BY AnswerStarts
  <1>2. AnswerInv /\ [StreamNext]_streamVars => AnswerInv'
    <2>1. ASSUME AnswerInv, StreamNext PROVE AnswerInv'
      <3>1. StreamTypes /\ ControlInv /\ ReadInv /\ OrderInv /\ TipInv /\ KeptInv
        BY <2>1 DEF AnswerInv
      <3> QED
        BY <2>1, <3>1, TypesStep, ControlStep, ReadStep, OrderStep, TipStep, KeptStep DEF AnswerInv
    <2> QED
      BY <2>1, AnswerStutters
  <1>3. AnswerInv => AnswersAreTrue
    BY AnswerIsTrue
  <1> QED
    BY <1>1, <1>2, <1>3, PTL DEF StreamSpec

================================================================================
