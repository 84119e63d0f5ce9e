----------------------------- MODULE NativeStream -----------------------------
(****************************************************************************)
(* A pipe whose two ends are held by two workers and owned by a third:        *)
(* NativeStreamDriver in each worker (src/native-stream-binding.ts), a        *)
(* NativeStreamScope for each in the owner (src/native-stream-owner.ts), and   *)
(* the paired endpoints between them (src/node-lib/binding/stream_wrap.ts).   *)
(* One direction is modelled: the writer's writes, its shutdown and close, and*)
(* the reader's reads, under one read grant at a time.                        *)
(*                                                                           *)
(* A chunk, at most maxReadChunkBytes, is the unit of data; a write is one or  *)
(* more, and its first may carry a descriptor.  Posts and writes go to the    *)
(* owner through a worker's port, in order; a call waits until what was posted*)
(* before it has been taken, so its guard asks for an empty port.  What the   *)
(* owner publishes goes back through a port of its own.                       *)
(****************************************************************************)
EXTENDS Integers, Sequences, FiniteSets, SequencesExt

CONSTANTS
  Sizes,      \* the chunks of a write
  MaxQueued,  \* maxQueuedBytes, in chunks
  MaxWrites,  \* bound: writes
  MaxStops    \* bound: times the reader stops

ASSUME StreamAssumption ==
  /\ Sizes \subseteq Nat \ {0} /\ MaxQueued \in Nat \ {0}
  /\ MaxWrites \in Nat /\ MaxStops \in Nat

OK == "ok"
Canceled == "ECANCELED"
Pipe == "EPIPE"
BadHandle == "EBADF"

NoChunk == [part |-> 0]
Eof == [part |-> -1]

VARIABLES
  \* the writer's driver
  writes,      \* its queue: [id, sent], `sent` of the write's chunks were written
  made,        \* every write: its size in chunks, and whether it carries a descriptor
  answers,     \* for each, the statuses its request was completed with
  writeEnded, shutdown, wClosing,
  channel,     \* its transport: "open", "revoked", and "stopped" once the driver is told
  toOwner,     \* its port
  \* the owner: both scopes and both endpoints
  own,
  \* the reader's driver
  reading, readingCredit, buffered, readEnded, rClosing, stops,
  inbound, ended, due,   \* its own queue, whether the end has arrived, its scheduled flush
  toOwnerR,    \* its port
  taken, told, \* what its program was given, and that it was told the end
  adopted      \* the descriptors its program was given

writer == <<writes, made, answers, writeEnded, shutdown, wClosing, channel, toOwner>>
reader == <<reading, readingCredit, buffered, readEnded, rClosing, stops, inbound, ended, due,
            toOwnerR, taken, told, adopted>>
streamVars == <<writer, own, reader>>

StreamInit ==
  /\ writes = <<>> /\ made = <<>> /\ answers = <<>>
  /\ writeEnded = FALSE /\ shutdown = "none" /\ wClosing = FALSE /\ channel = "open"
  /\ toOwner = <<>>
  /\ own = [wOpen |-> TRUE, rOpen |-> TRUE, slot |-> NoChunk, inbound |-> <<>>, eof |-> FALSE,
            ended |-> FALSE, reading |-> FALSE, due |-> FALSE, copies |-> 0, entries |-> 0,
            toWriter |-> <<>>, toReader |-> <<>>]
  /\ reading = FALSE /\ readingCredit = FALSE /\ buffered = FALSE /\ readEnded = FALSE
  /\ rClosing = FALSE /\ stops = 0 /\ inbound = <<>> /\ ended = FALSE /\ due = FALSE
  /\ toOwnerR = <<>> /\ taken = <<>> /\ told = FALSE /\ adopted = 0

\* How many of them carry a descriptor; the end and the close carry none.
Carried(chunks) == Cardinality({k \in DOMAIN chunks : chunks[k].part > 0 /\ chunks[k].handle})

----------------------------------------------------------------------------
(* The owner.  Each operator takes the owner's state to its next.           *)

Reply(o, status) == [o EXCEPT !.toWriter = Append(@, status)]

\* dispatchWrite and receive: into the reader's queue, its flush a turn later.
Enqueue(o, chunk) == [o EXCEPT !.inbound = Append(@, chunk), !.due = TRUE]

\* write's attempt, now or when the reader's end says it has room; after the writer's
\* end, dispatchWrite refuses it.
Attempt(o, chunk) ==
  IF ~o.rOpen THEN Reply([o EXCEPT !.slot = NoChunk], Pipe)
  ELSE IF Len(o.inbound) >= MaxQueued THEN [o EXCEPT !.slot = chunk]
  ELSE IF o.eof THEN Reply([o EXCEPT !.slot = NoChunk], Pipe)
  ELSE Reply(Enqueue([o EXCEPT !.slot = NoChunk], chunk), OK)

CapacityChanged(o) == IF o.slot = NoChunk THEN o ELSE Attempt(o, o.slot)

\* flushInbound of the reader's end: one chunk, or the end, and the grant is used.
Flushed(o) ==
  IF ~o.reading \/ ~o.rOpen THEN o
  ELSE IF o.inbound # <<>>
  THEN CapacityChanged([o EXCEPT !.inbound = Tail(@), !.reading = FALSE,
                                 !.entries = @ + (IF Head(o.inbound).handle THEN 1 ELSE 0),
                                 !.toReader = Append(@, Head(o.inbound))])
  ELSE IF o.eof /\ ~o.ended
  THEN [o EXCEPT !.ended = TRUE, !.reading = FALSE, !.toReader = Append(@, Eof)]
  ELSE o

\* The writer's end closes: a write that waits is cancelled, and the reader's end
\* reads what is queued, then the end.
CloseWriter(o) ==
  LET freed == IF o.slot = NoChunk THEN o ELSE Reply([o EXCEPT !.slot = NoChunk], Canceled)
  IN  Flushed([freed EXCEPT !.wOpen = FALSE, !.eof = TRUE])

\* Mutant of CloseReader: the writers that wait for room are not woken.
CloseReaderQuietly(o) ==
  [o EXCEPT !.rOpen = FALSE, !.reading = FALSE, !.inbound = <<>>, !.due = FALSE]

\* The reader's end closes: what nobody read is dropped, its descriptors closed.
CloseReader(o) ==
  CapacityChanged([o EXCEPT !.rOpen = FALSE, !.reading = FALSE, !.inbound = <<>>, !.due = FALSE])

\* The scheduled flush of the reader's end.
OwnerTurn ==
  /\ own.due
  /\ own' = Flushed([own EXCEPT !.due = FALSE])
  /\ UNCHANGED <<writer, reader>>

\* The writer's port: a write, the bounded attempt that goes on as one, a shutdown, which
\* a write that still waits refuses (EBUSY).
TakeWrite ==
  /\ toOwner # <<>> /\ toOwner' = Tail(toOwner)
  /\ LET msg == Head(toOwner)
     IN  own' = IF msg = Eof /\ own.slot = NoChunk
                THEN Reply([own EXCEPT !.eof = TRUE, !.due = TRUE], "shutdown")
                ELSE IF msg = Eof THEN Reply(own, "shutdown")
                ELSE IF ~own.wOpen THEN Reply(own, BadHandle)
                ELSE Attempt(own, msg)
  /\ UNCHANGED <<writes, made, answers, writeEnded, shutdown, wClosing, channel, reader>>

\* The reader's port: a read grant.
TakeGrant ==
  /\ toOwnerR # <<>> /\ toOwnerR' = Tail(toOwnerR)
  /\ own' = Flushed([own EXCEPT !.reading = own.rOpen])
  /\ UNCHANGED <<writer, reading, readingCredit, buffered, readEnded, rClosing, stops, inbound,
                 ended, due, taken, told, adopted>>

----------------------------------------------------------------------------
(* The writer's driver                                                      *)

ChunkOf(w) == [write |-> w.id, part |-> w.sent + 1, handle |-> made'[w.id].carries /\ w.sent = 0]
\* The owner's copy of its descriptor is held until its first chunk is answered.
HoldsCopy(w) == made[w.id].carries /\ w.sent = 0
Copies(queue) == Cardinality({k \in DOMAIN queue : HoldsCopy(queue[k])})

\* A write the owner takes at once, within the budget, in one chunk, or refuses; a revoked
\* transport throws, which is the same to the program as a refusal.
WriteNow ==
  /\ writes = <<>> /\ toOwner = <<>> /\ own.slot = NoChunk
  /\ LET chunk == ChunkOf([id |-> Len(made'), sent |-> 0])
     IN  \/ /\ ~own.rOpen \/ channel # "open"
            /\ answers' = Append(answers, <<Pipe>>) /\ UNCHANGED own
         \/ /\ own.rOpen /\ channel = "open" /\ Len(own.inbound) < MaxQueued
            /\ own' = Enqueue(own, chunk)
            /\ answers' = Append(answers, <<OK>>)
  /\ UNCHANGED <<writes, toOwner>>

\* Any other is queued; the first is submitted, by the pump or by the bounded attempt
\* that outlived its wait, once.  A revoked transport takes no copy of a descriptor.
WriteQueued(carries) ==
  LET w == [id |-> Len(made'), sent |-> 0]
  IN  /\ carries => toOwner = <<>> /\ channel = "open"
      /\ own' = IF carries THEN [own EXCEPT !.copies = @ + 1] ELSE own
      /\ writes' = Append(writes, w)
      /\ toOwner' = IF writes = <<>> /\ channel = "open" THEN Append(toOwner, ChunkOf(w)) ELSE toOwner
      /\ answers' = Append(answers, <<>>)

Write(size, carries) ==
  /\ Len(made) < MaxWrites /\ ~wClosing /\ ~writeEnded
  /\ made' = Append(made, [size |-> size, carries |-> carries])
  /\ (size = 1 /\ ~carries /\ WriteNow) \/ WriteQueued(carries)
  /\ UNCHANGED <<writeEnded, shutdown, wClosing, channel, reader>>

\* finishWrite of each of them, with its status.
Answered(queue, status) ==
  [i \in DOMAIN answers |->
     IF \E j \in DOMAIN queue : queue[j].id = i THEN Append(answers[i], status) ELSE answers[i]]

\* The queue is empty: a shutdown that waited for it goes to the owner.
Emptied ==
  /\ writes' = <<>>
  /\ shutdown' = IF shutdown # "pending" THEN shutdown ELSE IF wClosing THEN "done" ELSE "posted"
  /\ toOwner' = IF shutdown = "pending" /\ ~wClosing THEN Append(toOwner, Eof) ELSE toOwner

\* writeNext goes on: the next chunk, the write's completion, the next write, and in a
\* closing driver the end of them all.
TakeAnswer ==
  /\ own.toWriter # <<>> /\ Head(own.toWriter) # "shutdown" /\ writes # <<>>
  /\ UNCHANGED made
  /\ LET w == Head(writes)
         rest == Tail(writes)
         status == Head(own.toWriter)
         more == status = OK /\ w.sent + 1 < made[w.id].size
         over == IF wClosing THEN writes ELSE <<w>>
         held == Copies(IF wClosing THEN writes ELSE <<w>>)
     IN  /\ own' = [own EXCEPT !.toWriter = Tail(@), !.copies = @ - held]
         /\ IF more /\ ~wClosing
            THEN LET next == [w EXCEPT !.sent = @ + 1]
                 IN  /\ writes' = <<next>> \o rest
                     /\ toOwner' = Append(toOwner, ChunkOf(next))
                     /\ UNCHANGED <<answers, shutdown>>
            ELSE /\ answers' = [i \in DOMAIN answers |->
                       IF i = w.id THEN Append(answers[i], IF more THEN Canceled ELSE status)
                       ELSE IF \E j \in DOMAIN over : over[j].id = i THEN Append(answers[i], Canceled)
                       ELSE answers[i]]
                 /\ IF over = writes \/ rest = <<>> THEN Emptied
                    ELSE /\ writes' = rest
                         /\ toOwner' = Append(toOwner, ChunkOf(Head(rest)))
                         /\ UNCHANGED shutdown
  /\ UNCHANGED <<writeEnded, wClosing, channel, reader>>

TakeShutdown ==
  /\ own.toWriter # <<>> /\ Head(own.toWriter) = "shutdown"
  /\ own' = [own EXCEPT !.toWriter = Tail(@)]
  /\ shutdown' = "done"
  /\ UNCHANGED <<writes, made, answers, writeEnded, wClosing, channel, toOwner, reader>>

\* Mutant of Shutdown: the end is sent at once, ahead of the writes queued.
ShutdownAtOnce ==
  /\ ~wClosing /\ ~writeEnded /\ writeEnded' = TRUE
  /\ shutdown' = "posted" /\ toOwner' = Append(toOwner, Eof)
  /\ UNCHANGED <<writes, made, answers, wClosing, channel, own, reader>>

\* The end goes to the owner behind every write accepted; through a revoked transport it
\* cannot go, which is thrown to the program.
Shutdown ==
  /\ ~wClosing /\ ~writeEnded /\ writeEnded' = TRUE
  /\ IF writes = <<>> /\ channel = "open"
     THEN shutdown' = "posted" /\ toOwner' = Append(toOwner, Eof)
     ELSE shutdown' = (IF writes = <<>> THEN "done" ELSE "pending") /\ UNCHANGED toOwner
  /\ UNCHANGED <<writes, made, answers, wClosing, channel, own, reader>>

\* The driver closes; what the owner has not taken is cancelled there.  With the transport
\* revoked nothing is told, and the driver forgets the handle at once, and with it the
\* completion of a shutdown posted before.
Close ==
  /\ ~wClosing /\ toOwner = <<>>
  /\ wClosing' = TRUE
  /\ own' = IF channel = "open" THEN CloseWriter(own) ELSE own
  /\ shutdown' = IF channel # "open" /\ shutdown = "posted" THEN "lost" ELSE shutdown
  /\ UNCHANGED <<writes, made, answers, writeEnded, channel, toOwner, reader>>

\* The writer's transport closes: its scope is disposed and nothing comes back.  The
\* driver is told two turns of its loop later.
TransportClosed ==
  /\ channel = "open" /\ channel' = "revoked"
  /\ own' = [CloseWriter(own) EXCEPT !.toWriter = <<>>, !.copies = 0]
  /\ toOwner' = <<>>
  /\ UNCHANGED <<writes, made, answers, writeEnded, shutdown, wClosing, reader>>

\* Until then what was submitted is rejected, and so is what the pump submits next: EPIPE,
\* or ECANCELED where the descriptor's copy cannot be closed either, and where a closing
\* driver no longer submits it.
WriteFails ==
  /\ channel = "revoked" /\ writes # <<>>
  /\ LET w == Head(writes)
     IN  \E status \in IF HoldsCopy(w) THEN {Canceled} ELSE IF wClosing THEN {Pipe, Canceled} ELSE {Pipe} :
           answers' = Answered(<<w>>, status)
  /\ writes' = Tail(writes)
  /\ shutdown' = IF shutdown = "pending" /\ Tail(writes) = <<>> THEN "done" ELSE shutdown
  /\ UNCHANGED <<made, writeEnded, wClosing, channel, toOwner, own, reader>>

\* ownerStopped completes what is still open; in a driver that closed before it, and was
\* forgotten, the pump does, with the same status.
OwnerStopped ==
  /\ channel = "revoked" /\ channel' = "stopped" /\ wClosing' = TRUE
  /\ writes' = <<>>
  /\ answers' = Answered(writes, Canceled)
  /\ shutdown' = IF shutdown \in {"none", "lost"} THEN shutdown ELSE "done"
  /\ UNCHANGED <<made, writeEnded, toOwner, own, reader>>

----------------------------------------------------------------------------
(* The reader's driver                                                      *)

\* flushInbound with the handle reading: `n` chunks are given to the program, which may
\* stop there, and the end where nothing is left; then readFlushed asks for more.
Deliver(credit, port) ==
  \E n \in 0 .. Len(inbound), stop \in BOOLEAN :
    LET given == SubSeq(inbound, 1, n)
        rest == SubSeq(inbound, n + 1, Len(inbound))
        end == ~stop /\ ended /\ ~told
        again == ~stop /\ ~credit /\ ~readEnded /\ ~end
    IN  /\ rest # <<>> => stop
        /\ stop => n > 0 /\ stops < MaxStops /\ (credit => port = <<>>)
        /\ inbound' = rest /\ taken' = taken \o given
        /\ adopted' = adopted + Carried(given)
        /\ told' = (told \/ end)
        /\ reading' = ~stop
        /\ stops' = IF stop THEN stops + 1 ELSE stops
        /\ own' = IF stop /\ credit THEN [own EXCEPT !.reading = FALSE] ELSE own
        /\ buffered' = (rest # <<>>)
        /\ readEnded' = (readEnded \/ end)
        /\ readingCredit' = (again \/ (credit /\ ~stop))
        /\ toOwnerR' = IF again THEN Append(port, "readStart") ELSE port

ReadStart ==
  /\ ~rClosing /\ ~reading
  /\ LET begin == ~readingCredit /\ ~buffered /\ ~readEnded
     IN  Deliver(readingCredit \/ begin, IF begin THEN Append(toOwnerR, "readStart") ELSE toOwnerR)
  /\ UNCHANGED <<writer, rClosing, ended, due>>

\* The program pauses; a grant still out is taken back, by a call.
ReadStop ==
  /\ ~rClosing /\ reading /\ stops < MaxStops
  /\ reading' = FALSE /\ stops' = stops + 1
  /\ IF readingCredit
     THEN toOwnerR = <<>> /\ own' = [own EXCEPT !.reading = FALSE]
     ELSE UNCHANGED own
  /\ readingCredit' = FALSE
  /\ UNCHANGED <<writer, buffered, readEnded, rClosing, inbound, ended, due, toOwnerR, taken,
                 told, adopted>>

\* The scheduled flush.
ReaderTurn ==
  /\ due /\ due' = FALSE
  /\ \/ reading /\ ~rClosing /\ Deliver(readingCredit, toOwnerR)
     \/ /\ ~(reading /\ ~rClosing)
        /\ buffered' = (inbound # <<>>)
        /\ UNCHANGED <<own, reading, readingCredit, readEnded, stops, inbound, toOwnerR, taken,
                       told, adopted>>
  /\ UNCHANGED <<writer, rClosing, ended>>

Closed == [part |-> -2]

\* Mutant of ReceiveEvent: a descriptor that arrives in a closing driver is dropped.
ReceiveDrops ==
  /\ own.toReader # <<>>
  /\ LET event == Head(own.toReader)
     IN  /\ readingCredit' = FALSE
         /\ own' = [own EXCEPT !.toReader = Tail(@)]
         /\ IF event = Closed \/ rClosing
            THEN inbound' = <<>> /\ UNCHANGED <<buffered, ended, due>>
            ELSE /\ buffered' = TRUE /\ due' = TRUE
                 /\ inbound' = IF event = Eof THEN inbound ELSE Append(inbound, event)
                 /\ ended' = (ended \/ event = Eof)
         /\ readEnded' = (readEnded \/ (event = Eof /\ ~rClosing))
  /\ UNCHANGED <<writer, reading, rClosing, stops, toOwnerR, taken, told, adopted>>

\* An event of the owner's: a read, the end, or the close of this end.
ReceiveEvent ==
  /\ own.toReader # <<>>
  /\ LET event == Head(own.toReader)
         dropped == IF event = Closed THEN Carried(inbound)
                    ELSE IF rClosing THEN Carried(<<event>>) ELSE 0
     IN  /\ readingCredit' = (readingCredit /\ event = Closed)
         /\ own' = [own EXCEPT !.toReader = Tail(@), !.entries = @ - dropped]
         /\ IF event = Closed THEN inbound' = <<>> /\ UNCHANGED <<buffered, ended, due>>
            ELSE IF rClosing THEN UNCHANGED <<inbound, buffered, ended, due>>
            ELSE /\ buffered' = TRUE /\ due' = TRUE
                 /\ inbound' = IF event = Eof THEN inbound ELSE Append(inbound, event)
                 /\ ended' = (ended \/ event = Eof)
         /\ readEnded' = (readEnded \/ (event = Eof /\ ~rClosing))
  /\ UNCHANGED <<writer, reading, rClosing, stops, toOwnerR, taken, told, adopted>>

ReaderClose ==
  /\ ~rClosing /\ toOwnerR = <<>>
  /\ rClosing' = TRUE /\ reading' = FALSE
  /\ LET o == CloseReader(own) IN own' = [o EXCEPT !.toReader = Append(@, Closed)]
  /\ UNCHANGED <<writer, readingCredit, buffered, readEnded, stops, inbound, ended, due, toOwnerR,
                 taken, told, adopted>>

----------------------------------------------------------------------------
Steps ==
  \/ OwnerTurn \/ TakeWrite \/ TakeGrant \/ TakeAnswer \/ TakeShutdown \/ ReaderTurn
  \/ ReceiveEvent \/ WriteFails \/ OwnerStopped

StreamNext ==
  \/ Steps
  \/ \E size \in Sizes, carries \in BOOLEAN : Write(size, carries)
  \/ Shutdown \/ Close \/ TransportClosed \/ ReadStart \/ ReadStop \/ ReaderClose

StreamSpec == StreamInit /\ [][StreamNext]_streamVars

\* Each port is emptied and each scheduled turn runs.
StreamFairness ==
  /\ WF_streamVars(OwnerTurn) /\ WF_streamVars(TakeWrite) /\ WF_streamVars(TakeGrant)
  /\ WF_streamVars(TakeAnswer \/ TakeShutdown) /\ WF_streamVars(OwnerStopped)
  /\ WF_streamVars(ReaderTurn) /\ WF_streamVars(ReceiveEvent)

FairStreamSpec == StreamSpec /\ StreamFairness
----------------------------------------------------------------------------
(* Properties                                                               *)

\* What was published to the reader, without the end, which is the last of it.
Chunks(seq) == IF seq # <<>> /\ Last(seq) = Eof THEN Front(seq) ELSE seq
\* Every chunk the owner has taken, from the program that reads back to the queue.
Stream == taken \o inbound \o Chunks(own.toReader) \o own.inbound

\* The k-th chunk of the i-th write.
Part(i, k) == [write |-> i, part |-> k, handle |-> made[i].carries /\ k = 1]
\* Chunk d is the one after c: of the same write, or the first of the next.
Follows(c, d) ==
  \/ d.write = c.write /\ d.part = c.part + 1
  \/ c.part = made[c.write].size /\ d.write = c.write + 1 /\ d.part = 1
\* They are the chunks of the writes made, from the first on, in order, with no gap.
AsWritten(chunks) ==
  \A k \in DOMAIN chunks :
    LET c == chunks[k]
    IN  /\ c.part > 0 /\ c.write \in DOMAIN made /\ c.part <= made[c.write].size
        /\ c = Part(c.write, c.part)
        /\ IF k = 1 THEN c.write = 1 /\ c.part = 1 ELSE Follows(chunks[k - 1], c)

\* What the writer's program is told of its writes is true, whatever their sizes, the
\* room, the grants and the closes did.  The stream is what was written, in order, none of
\* it twice and with no gap; a write told to have succeeded is with the reader's end, all
\* of it, and given to its program before the end is; a write is answered once, and one
\* that failed has a cause: the reader's end had closed, the writer closed, or its transport
\* did.  An end sent after it is none: it waits for the writes before it.
AnswersAreTrue ==
  /\ AsWritten(taken) /\ (~rClosing => AsWritten(Stream))
  /\ \A i \in DOMAIN made :
       answers[i] = <<OK>> =>
         LET parts == {Part(i, k) : k \in 1 .. made[i].size}
         IN  /\ ~rClosing => parts \subseteq Range(Stream)
             /\ told => parts \subseteq Range(taken)
  /\ \A i \in DOMAIN answers :
       /\ Len(answers[i]) <= 1
       /\ answers[i] = <<Pipe>> => ~own.rOpen \/ channel # "open"
       /\ answers[i] = <<Canceled>> => wClosing \/ channel # "open"
       /\ answers[i] # <<BadHandle>>

\* No descriptor leaks: the owner's copies are those of writes not yet taken, and the
\* reader's scope holds exactly the ones on their way, waiting, or given to its program.
DescriptorsAccounted ==
  /\ own.copies = IF channel # "open" THEN 0 ELSE Copies(writes)
  /\ own.entries = Carried(own.toReader) + Carried(inbound) + adopted

\* The stream moves: a write is answered, provided the reader in the end reads or closes,
\* and what the owner took, a reader that goes on reading is given, the end too.
StreamMoves ==
  /\ <>[](reading \/ rClosing) =>
       \A i \in 1 .. MaxWrites : (i \in DOMAIN made) ~> (i \in DOMAIN answers /\ answers[i] # <<>>)
  /\ <>[]reading => /\ \A n \in 1 .. 2 : (Len(Stream) >= n) ~> (Len(taken) >= n)
                    /\ own.eof ~> told
=============================================================================
