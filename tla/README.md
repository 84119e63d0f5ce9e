# A TLA+ verification of tabnode's concurrent core

tabnode runs Node programs in a browser tab: Node's own JavaScript, vendored
unmodified, over bindings, a process model and a loop that the engine implements
itself in TypeScript.  Most of the engine is data (module resolution, codecs,
source transforms, a file tree); what is hard to get right, and hard to test, is
the part where several realms, threads, callbacks and microtasks meet.  This
directory models that part, checks it with TLC, and proves with TLAPS the safety
properties of nine of its ten components for every value of their bounds, and of the
tenth those about what its two ends know of each other.

Paths below are relative to the repository's `src/` directory, where the
engine's implementation lives (`src/native-queue.ts` is written
`native-queue.ts`); the service worker is `public/__sw__.js`.

## 1. Inventory

### The parts that are modelled

| Part | Source | Modules | State it keeps | Operations |
|---|---|---|---|---|
| Native addon queue | `native-queue.ts` | `NativeQueue` | four shared words (HEAD, TAIL, LOCK, STOP) and a ring of slots | `sendNative` from any addon thread, `receiveNative` on the process's thread, `stopNative` |
| Shared stdin ring | `stdin-ring.ts`; its users in `shims/child_process.ts` and `node-lib/binding/fs.ts` | `StdinRing`, `BytePipe` | shared indices, CLOSED, SIGNAL and the data area | `write`, `put`, `close`; `take`, `takeAll`, `takeBlocking`, `whenWritten`; the drain of `process.stdin`, a blocking `read` of fd 0 |
| Process registry | `process-registry.ts` | `ProcessRegistry` | numbers held, the live table, receivers; per realm its numbers and runs | `allocate`, `claim`, `publish`, `exec`, `forget`, `dispose`, `receiveSignals`, `signal`, `signalGroup`, `installAllocator` |
| Guest execution loop | `guest-loop.ts` | `GuestLoop` | depth counters, the tick queue and its two flags, the account of active time | the brackets, `withGuestCallback`, `queueGuestNextTick`, the drains, `resumeGuestTurn` |
| Web Locks | `node-lib/internals/locks.ts` | `WebLocks` | locks held, requests waiting | `request` with its options, release, abort, steal |
| A run of Node | `shims/child_process.ts` (`launchNode`), `shims/process.ts` | `NodeRun` | a dozen flags round `process.exit`, the status, the promise the caller awaits | `process.exit`, `exitCode`, signals, uncaught exceptions, `beforeExit` and `exit`, the wait for the loop |
| Cross-worker pipes | `native-stream-binding.ts`, `native-stream-owner.ts`, `node-lib/binding/stream_wrap.ts` | `NativeStream` | a driver in each worker, a scope and an endpoint for each in the owner, the ports between | write, shutdown, close, read start and stop, the owner's stop |
| What holds a run's loop | `node-lib/binding/handles.ts`, `guest-timers.ts`, `guest-message-ports.ts`, `process-tokens.ts` | `RunNames`, `OwnedHandles`, `GuestTimers`, `GuestPorts`, `LoopWork` | the handles each run owns and those that hold it, its timers, its ports, its record and the completion of its end | register, start, stop, ref, unref, adopt, request, release; timers set, fired, cleared, ref'd; ports' listeners; `__endOwnedProcess` |
| Preview bridge | `port-bridge.ts`, `public/__sw__.js` | `PreviewChannels`, `PreviewPage`, `PreviewWorker`, `PreviewBridge` | the page's servers, primary port, streams and waits; the worker's copy of the registrations and its pending requests; the channel between | registrations, the primary port and its mapping, requests with credits and by the older protocol, timeouts, a worker restarted or replaced |
| Synchronous children | `shims/sync-child.ts`, `node-lib/binding/spawn_sync.ts`, `node-lib/binding/child_stdio.ts` | `SyncThread`, `SyncPipes`, `SpawnSync` | two windows of shared memory with a word each and the thread behind them; or a set of kernel pipes, what is kept, the deadline | `runSyncChild` and the thread's loop; `spawn` and `drainSyncPipes` |

How they meet.  A run (`NodeRun`) executes guest code through the brackets of the
loop (`GuestLoop`); it is published in the registry (`ProcessRegistry`), which is
where signals to it come from; it goes on while something of `LoopWork` holds it.
Its fd 0 is a `StdinRing` when its host is another thread.  Its pipes to children in
other workers are `NativeStream`s, whose callbacks are binding tasks of the loop.
An addon's threads reach the loop through a `NativeQueue`.  `spawnSync` blocks its
thread, loop and all, until a child on another thread or of the host has ended.
The servers its programs start are previewed in frames through the service worker
(`PreviewBridge`).

Three modules are compositions of parts that interact: `LoopWork` of handles, timers and
ports under one end of the process, `PreviewBridge` of the page, the worker and their
channels, and `SpawnSync` of the two doors a synchronous child may leave by.  The others
are kept apart, each naming, where another part touches it, the few things that part can
do: `NodeRun` has a count `work` for what `LoopWork` is in detail, and `StdinRing` puts
the drain and the blocking read that share the run's thread in one model, since their
interleaving is the point.

The modules `MCThreads`, `MCRealm`, `MCProcesses` and `MCRuns` put two parts each into
one run of TLC.  Those share no state and do not interact: a variable `part`, chosen at
the start, says which is explored, and the other stays as it began.

### What is hard, part by part

* *Native queue.*  Writers spin and sleep on one word, the writer inside sleeps on
  another while it holds the lock, counters wrap, the receiver re-arms a
  `waitAsync`, and a stop lands anywhere.  Correct: one writer at a time; what is
  received is what was published, in order; no wake is lost.
* *Stdin ring.*  A reader looks at the bytes, then at CLOSED, then sleeps: each gap
  admits a write or the close.  Two readers of one ring take turns on one thread.
  Correct: it is a byte pipe; nobody sleeps on something to read or room to write.
* *Registry.*  Numbers come from a counter, an allocator or the embedder, and go
  when a run or a whole realm ends, perhaps in the middle of a group's signal.
  Correct: tables agree, numbers are owned once, signals reach whom they were for.
* *Loop.*  Callbacks nest under guest code, throw in mid-drain, and microtask
  continuations outlive the bracket they began in.  Correct: ticks run once, in
  order, never under the code that queued them, and always; time is counted once.
* *Locks.*  Grants, steals and aborts cascade.  Correct: exclusion, order, every
  request answered.
* *Run.*  `process.exit` may be called inside its own listeners, by a handler of a
  listener's throw, by a signal; the stop it throws may be caught.  Correct: one
  end, answered, with the status the program ended with; the loop's emptiness is
  not judged on a stale count.
* *Pipes.*  A write is several chunks, each of which may wait at the owner for
  room while either end stops, ends, closes or dies; a grant to read is posted
  ahead of the data and taken back.  Correct: what succeeded is read, in order and
  before the end; each write is answered once, for a reason; no descriptor leaks.
* *What holds a loop.*  A handle's owner, its reference and its activity change
  independently, under whichever run is executing; a process is ended several
  times, by exit, kill and `finally`, while closes throw or take their time.
  Correct: the count is exact; an end takes everything and reports every failure.
* *Preview.*  The browser stops the worker whenever it likes and the next life
  knows nothing; registrations, mappings, uploads and answers cross.  Correct: an
  answer is whole and from its own server; the worker comes to know what the page
  registered; every request settles and every stream is let go.
* *Synchronous children.*  A blocked caller turns no loop, so each wait must end
  by itself; a message is cut into parts under one word; a child floods its
  output, never reads its input, or leaves its pipes to a descendant.  Correct:
  messages and output are whole, the error is the cause, and the call returns.

`PROJECT.json` lists these hazards at their lines, with the properties that would
catch each going wrong.

### The parts that are not modelled

| Part | Why |
|---|---|
| Shell and its jobs, spawn, exec, fork | jobs and `wait` are the next to model (section 2); commands and parsing are data |
| Kernel sockets, datagrams, TLS | handles over a kernel that is outside the repository |
| Workers' start and end | around the host's `Worker`; its queue to addons is `NativeQueue` |
| Asynchronous context | depends on the order in which the realm's promises settle |
| File system, modules, transforms, package installation | data structures on strings and paths, mostly sequential |
| Codecs, crypto, zlib, WASI, parsers | pure functions or WebAssembly built elsewhere; out of TLC's reach |
| Names and addresses | conversions and tables |
| Node's JavaScript under `node-lib` | third-party, unmodified; about seven tenths of the lines under `src/` |

## 2. Plan

The order followed, and what is left:

1. `NativeQueue`: modelled and proved.
2. `StdinRing`, refining `BytePipe`: modelled, the refinement proved.
3. `ProcessRegistry`: modelled and proved.
4. `GuestLoop`, `WebLocks`, `NodeRun`, `NativeStream` (one direction of a pair): modelled
   and proved.
5. `LoopWork` over `OwnedHandles`, `GuestTimers` and `GuestPorts`: modelled and proved.
6. `PreviewBridge` over `PreviewPage` and `PreviewWorker`: modelled; what the page and
   the worker know of the servers, and the waits for a mapping, proved.
7. `SpawnSync` over `SyncThread` and `SyncPipes`: modelled and proved.
8. Left to model: send credits of `NativeStream` (the owner's publishing half), the
   shell's jobs and `wait`, several pages behind one worker.

"Proved" is the safety properties of the component's run; its liveness stays with TLC.

Theorems to come: `PreviewBridge`'s bound on credits and `AnsweredByItsServer`, which
need an account of each request's messages on both lines of its channel next to that of
the registrations.  `BodyIsWhole` speaks of sequences that are filtered and joined, and
would have to be said of places in them first, as `NativeStream`'s invariants are
(section 6).

## 3. Modules, and how they correspond to the code

Each definition's lines are in `PROJECT.json` under `map`.  Operators whose comment
begins with "Mutant of" or "Mutation" are deliberate errors, used only to show that
a property would notice them; no specification refers to them.

### NativeQueue

One action is one access to shared memory, named for it: `TakeLock`, `WaitLock`,
`LoadHead`, `LoadTail`, `TestFull`, `TestStopFull`, `WaitHead`, `ReloadHead`,
`TestStopLast`, `WriteSlot`, `Publish`, `NotifyTail`, `Unlock`, `NotifyLock` are
`sendNative` in order; `Drain` to `Rearm` are `receiveNative`; `Stop` and its two
notifies are `stopNative`.  `Atomics.wait` compares and sleeps in one step, as the
language defines it.  A notify of one wakes any one of the sleepers, which
includes the oldest.  The receiver's callback may throw (`ReceiveReturns`), as the
`finally` allows for.  A message is its sender and number.  The constants `Slots`
and `CounterModulus` stand for 1024 and 2^32; the proofs need only that `Slots` divides
`CounterModulus` and that a full ring is positive as a signed word.

### StdinRing and BytePipe

The same granularity.  `put` is a loop of `LoadRead`, `TestRoom`, `WaitRoom`, `Copy`,
`StoreWrite`, `AddSignal`, `NotifySignal`; a write queued behind another starts when
the first is through.  A read is `LoadSignal`, `Look`, `LookClosed`, `LookAgain`,
`StoreRead`, `NotifyRead`, `Wait`, of one of three kinds (blocking, once, the drain's).
A byte is its number in the stream, so order and identity are the same thing, and a
queued write is the number of its last byte: `Left` is what a put still has to store.
`BytePipe` is fd 0 as a program may expect it: what is got is what was sent, in
order, the end is told only with nothing left, and a pipe that is shut takes nothing
more.  The refinement maps the stores to `WRITE_INDEX` and `READ_INDEX` to its steps and
takes a reader's second look at the bytes as the moment it decides on the end.  A close
under a put is not mapped to the pipe's end, since the put goes on (`early` remembers
it): what such a close does to a reader is `NothingAfterTheEnd`'s, and goes wrong
(section 4).

### ProcessRegistry

One action per method.  The conditions under which a method throws before changing
anything are guards; `exec`, which claims and then publishes, keeps the claim where
the publication throws.  `signalGroup` takes a snapshot and calls a handler per
member, which may do anything; so it is two actions, with any other between.
Numbers come from the counter, from an installed allocator or from the embedder's
claims; of the last two any that is not held or live may be named, one that was handed
out before included.  So a group may outlive its leader while the leader's number is
another process's, of another realm perhaps.  `leads` remembers, per realm, the groups
its own processes started.

### GuestLoop

The JavaScript stack is explicit, since the code's question is always "is there
guest code below me".  Guest code on top may call back (`Task`, `Call`, `Enter`),
queue ticks and microtasks, return or throw; a microtask runs on an empty stack.
`Drained`, `RunTick` and `EndDrain` are `drainGuestNextTicks` with its `finally`.
`spent` counts the clock while guest code is on the stack or a continuation's turn
is open, independently of the code's own account.

### WebLocks

`Advance` is `#advance`, one pass over the waiting requests in the order they were
asked: a request has a number, the queue is the set of the numbers that wait, and
`Granted` is in closed form what the pass grants, each request that nothing held and
nothing granted or waiting before it excludes.  `MCRealm` writes the pass out as the
code's walk, one request after the other, and its `WalkAssumption` has TLC compare the
two on every queue and every set of holders of the instance's requests.  A steal rejects
the holders and goes to the front; the callback of a stolen lock still runs, and
`Settle` is its end.

### NodeRun

Guest code is anything: it sets `exitCode`, exits, signals itself, opens
work, throws, catches, `Fuel` times in all.  `stack` has a frame per entry of guest
code, by the engine function that made it, and `raise` is an exception on its way
out, an error or the stop that `process.exit` throws.  `phase` is where the launcher
stands: `Entered`, `Settling`, `Early`, `Look`, `Check`, `Again`, `Wait`, `Drain`,
`Return`, `TornDown`.  `Wait` is the 50 ms tick: at its end an unregistered run that has
printed or fallen silent may be over, and any run a minute old whose references have gone
by then, registered or not.  A registered run's answer awaits the teardown of what it
held, which may fail (`Rejected`).  Whether the run is registered (`named`) and whether
its caller holds it (`held`) are chosen at the start.

### NativeStream

The owner's state is a record, and each of its operations an operator from a state to
the next (`Attempt`, `CapacityChanged`, `Flushed`, `CloseWriter`, `CloseReader`),
because the code nests them: a read makes room, which completes a write that waited,
which queues a chunk.  A worker's actions are its driver's methods.  The port to the
owner is in order and a call waits for what was posted before it
(`NativeStreamTransport.post`, "the owner takes it in order with every call after it"),
so an action that calls asks for an empty port.  The transport itself is the embedder's
and outside the repository.  A chunk is the unit of data and of room.  `Write` has both
ways: the bounded attempt answered in the call, and the queue, which the attempt joins
when its wait expires without being sent again.  A worker's transport is `open`, then
`revoked` (`TransportClosed`: the port is closed and the driver does not know yet, so
that a write made or waiting meanwhile fails with EPIPE, `WriteFails`), then `stopped`
(`OwnerStopped`, two turns later: what is left fails with ECANCELED).  A shutdown whose
driver has let go of the handle by then is lost.  `AsWritten` says of each chunk which
comes before it, and `Carried` and `Copies` count places, so that both properties speak
of a sequence's places and not of a walk over it.

### OwnedHandles, GuestTimers, GuestPorts, LoopWork

`OwnedHandles` keeps the five tables of `handles.ts` in one record `count`, and each
exported function is an operator from a count to the next, as the code calls them from
one another.  The actions are the bindings' uses of them: a stream's constructor, its
`ref` and `unref`, its `readStart`, its close; an accepted connection given to another
run; a request's hold; and the internal timer that is armed again, by `refresh` or by
`reuse` after it fired or was cleared, by whichever run is executing.  `GuestTimers` and
`GuestPorts` are the functions a guest is given, the `refresh` of a host's own `Timeout`
among them.  `LoopWork` adds the record of the run and its end: `End` (an exit, a kill,
`stopProcess`) and `BeginFinally` make the same sweep, in which each close returns,
throws before or after it released its handle, or begins a teardown that ends later
(`TeardownDone`); `Finish` is the await of the kept completion.  Guest code goes on
after an end, as the code allows.

### PreviewChannels, PreviewPage, PreviewWorker, PreviewBridge

`PreviewChannels` is the ports between the two: one pair per call of `reinit`, each in
order, lost when the worker's life ends.  `PreviewPage` has one action per method of
`PortBridge` and one per callback of the server behind a stream; a registration carries
its generation.  The primary port may be one no server has, as `setPrimaryPort` allows:
the worker is told of it with the generation `NoServer`.  With `MidFlight`, a worker
that stops may leave its messages to a page that is told of the next worker before it
takes them; without it the page has taken them.  `PreviewWorker` has one action per
handler and per place where a request's handling resumes: it arrives (`Fetch`), waits
for a page (`HostFound`, `AskTimeout`), reads its body, and is sent (`Send`) by the
protocol its port's registration names; then messages, pulls, a cancel and the timeouts
settle it.  `Restart` and `Replace` are the browser's.  A server is external: it starts,
gives `Chunks` chunks and ends, or fails, at any time.

### SyncThread, SyncPipes, SpawnSync

`SyncThread` is `sync-child.ts`: caller and thread alternate through two words, and one
action is what either does between two operations on them.  Waits that look at their
word again are guards.  The caller's wait for the thread does not look again, so it is a
step of its own and the thread's store and notify are two.  The thread may die, or not
start, or give up its caller; a call may throw in the caller's own writer.  `SyncPipes`
is the host's route: `Sweep` is the head of the drain's loop (ends closed, inputs shut
down, the loop's exits), then a poll and the service of each ready pipe in turn, lowest
first as the code's loop has them (`SendInput`, `ReadOutput`, `ReadEnd`, `ServeAgain`,
`ServeFails`).  The kernel's pipes, the child and its descendants do anything a process
may.  `SpawnSync` has one route or the other, as a realm does.

## 4. Runs

Every property of a passing run has a mutant of the code's definition that violates
it.  With two workers a passing run takes between half a minute and two minutes.

| Run | Bounds | Distinct states | What it shows |
|---|---|---|---|
| `threads` (`MCThreads`) | queue: 2 threads, 2 sends each, 1 slot, counters modulo 3; ring: 2 bytes, indices modulo 4, 5 bytes in writes of 1 and 3, reads of 1 | 389 000 | queue: exclusion, order, every send returned and every message received before a stop; ring: refinement of `BytePipe`, no lost wake on either side |
| `realm` (`MCRealm`) | loop: 2 ticks, 2 frames and a tick on the last, 1 guest microtask, 1 tick of the clock; locks: 4 requests, 2 names, 1 steal | 204 000 | ticks in order, never under their own code, all run, time counted once; locks exclude, are granted in order, every request is answered |
| `processes` (`MCProcesses`) | registry: 2 realms, 2 tokens each, numbers 2 and 3, 3 publications; work: 2 runs, 2 handles or 1 timer and 1 port, 2 listeners | 617 000 (realms, tokens, runs and handles interchangeable) | numbers owned once, tables in agreement, groups of a realm's own, signals to the process meant; the loop's count is exact, an end leaves nothing and is reported |
| `runs` (`MCRuns`) | run: statuses 0 and 3, 1 reference, 1 microtask, 4 operations, 4 frames; `spawnSync`: 2 calls, messages of up to 2 parts; 1 input of 2 bytes, 2 outputs, pipes of 1 byte, limit 1 | 374 000 | a fatal error is no success, an end cuts no work, every run returns; messages and output whole, the error is the cause, every call returns |
| `native_stream` | 2 writes of 1 or 2 chunks, room for 1, 1 stop | 395 000 | answers true (order, success, cause), descriptors accounted for, nobody waits for ever |
| `preview` | 2 ports, 2 requests, 1 wait, 2 channels, 2 registrations, 2 chunks, 2 notices on their way | 2 244 000 | bodies whole, from the right server, registrations in agreement, mappings true |
| `preview_live` | 1 port, 1 request, 3 channels, 2 registrations, 2 chunks | 191 000 | types and credits, every request settles, every stream is released |

Five runs have one property each, which says what the code says of itself and which TLC
finds violated: `stdin_ring_close`, `loop_timer_ref`, `preview_primary`,
`preview_crossed` and `spawn_sync_wake`, below.

Why the bounds are enough for the cases that matter: a ring of one slot is full
after one send, and its counters wrap within the sends; a ring of two bytes cannot
hold a write of three, so a put waits in the middle of it; three publications over two
numbers let a number be reused, by the other realm too, while a group's signal is under
way or while its old group lives on; the frames are guest code, a
callback under it and a tick's; four requests are a holder, an exclusive waiter, a
shared one behind it and a thief; four operations suffice for an exit inside an
exit's listener whose stop is caught and followed by a throw; two writes, one of two
chunks, with room for one, make the first's second chunk wait while the second write
is queued behind it; two runs and two handles give every transfer, one handle
failing while the other's teardown goes on; two channels are a replacement under a
request, three a second one before the first is taken; two calls of two parts let a
late answer meet the next call; a pipe of one byte is full after one write.

Three constraints keep the runs small without losing a case.  `OneKind` (`processes`,
`preview`, `preview_live`) explores the kinds of work one at a time: handles touch
timers and ports only in the end of a process, which treats them one after the other,
and the primary port is to a request a registration like any other.  `OneAtATime`
(`preview`) sends one request in each life of the worker, since requests of one life
have numbers of their own and meet only in them.  `LateOnce` (`preview`) lets what a
worker leaves behind meet one registration.

Deadlock is not checked, since every part may rest: a queue nobody sends to, a
process that has ended, a bound that is used up.

`preview_live` has `MidFlight` `FALSE`: a request that is answered on another request's
behalf may be left without an answer of its own, and a stream opened twice under one
number has two credits, so that neither the liveness nor `TypeOK`'s bound on credits
would hold.  `preview` has it `TRUE`; what is another request's answer is then
`preview_crossed`'s to find, and `BodyIsWhole` and `AnsweredByItsServer` speak of a
request that got its own.

### Where the code does not do what it says

* `stdin_ring_close` (`NothingAfterTheEnd`).  `close` stores CLOSED at once, also while a
  put waits for room, and a put looks at CLOSED only when it begins.  A reader that
  empties the ring in between reads 0, which is the end, and then the put publishes the
  rest.  `stdin-ring.ts:193` says "EOF: the reader takes what is left, then reads 0."
* `loop_timer_ref` (`HeldTimerIsPending`).  `ref()` puts a timer that has fired, or was
  cleared, back among those that hold the run, and nothing but another clear, `unref()`
  or the process's end takes it out.  `guest-timers.ts:8` says a timer is held "until it
  fires, is cleared, or is unref'd".
* `preview_primary` (`PrimaryIsTold`).  A primary port named before it listens is told to
  the worker once.  `announceServers`, which tells a worker that is initialized again,
  goes through the servers and leaves it out, so the next worker serves nothing at the
  root.  `port-bridge.ts:204` says the port is told "again whenever the worker is
  (re)initialized".  `RegistrationsAgree` speaks of the servers there are.
* `preview_crossed` (`StreamIsItsOwn`).  A stream is given the channel that is current
  when it is opened, and request numbers begin again with each life of the worker.  A
  request left behind by a worker that stopped is answered on the next one's channel, to
  its request of the same number.  `port-bridge.ts:758` says "the stream belongs to the
  channel it arrived on".
* `spawn_sync_wake` (`GivesUpInTime`).  The caller of a synchronous child reports that
  the thread "answered nothing within" so many seconds.  Its wait looks at the word
  once.  The thread stores the word and notifies in two operations: a caller that was
  awake reads the part, clears the word and waits for the next, and the notify of the
  part it has read wakes it with the word still 0.  It takes that for silence, drops
  the service and throws: a child that runs is cut off at once.  Every other wait of
  the file looks again in a loop.

### Observations

Met while modelling; no run is kept for them.

* `native-queue.ts:30`, `:81`.  A stop between a writer's look at STOP and its wait
  on HEAD leaves it asleep with the lock: HEAD did not change and the notify came
  before the wait.  `SendsAreServed` speaks of the time before a stop.
* `process-registry.ts:150`, `:141`.  Claims and allocation pass over numbers that are
  held or live, not over groups still in use: where an allocator or an embedder gives a
  number again, a process may start a group under the id of one whose leader has gone
  and whose members live on, and a signal to either reaches both.  `GroupsHaveLeaders`
  says whose groups a process may be in.
* `guest-loop.ts:129`.  A callback from the loop made while an earlier continuation's
  turn has not been ended by its microtask is taken for one inside that turn, and its
  ticks wait for the microtask.
* `shims/child_process.ts:952`.  An exit listener that exits, catches the stop and
  throws undoes the end, and a later exit settles with another status.
* `shims/child_process.ts:1479`.  The 60 s bound does not ask whether the run is
  registered: one that old whose last reference goes during the 50 ms tick leaves its
  loop there, without the checkpoint, `beforeExit` and the second look that
  `:1357` promises it ("A named run's loop ends once its registered work is empty, after
  a native task/rejection checkpoint.").  Nothing is cut even so (`EndCutsNothing`), but
  a program that opens more work in `beforeExit` is ended instead.
* `native-stream-binding.ts:578`.  Stop while a chunk is on its way, start again, and
  that chunk clears the credit of the new grant; the next stop then takes nothing
  back, and the owner reads one more chunk for a paused reader, which `:330` says it
  never does.
* `guest-timers.ts:42`.  The end of a process stops the timers that hold it; one its
  program unref'd stays queued and may run afterwards.  `EndLeavesNothing` speaks of
  the others.
* `guest-timers.ts:99`.  On a host that keeps its own `Timeout`, `refresh()` of one that
  has fired queues it again and does not hold the run, as it would in Node.
* `port-bridge.ts:666`, `public/__sw__.js:106`.  A guest server's streamed answer to a
  request of the older protocol is in a form the worker drops, so the body is empty;
  these streams have no time limit, and one whose channel is replaced never ends.
  `BodyIsWhole` speaks of requests under flow control, and `EveryRequestSettles` excepts
  these streams.
* `port-bridge.ts:207`.  `setPrimaryPort` announces its port again, which the worker
  takes for a new registration and fails the requests in flight there.
* `shims/sync-child.ts:353`.  `sendToWorker` has no bound: an answer handed to a
  thread that has died is waited for without end (`AnswerNotTaken`).
* `shims/sync-child.ts:499`.  A writer of the caller's that throws leaves the child on
  the thread, and its messages meet the next call (`abandoned`).

## 5. Fairness

* `NativeQueue`, `StdinRing`: weak fairness of each thread's next step.  Threads are
  scheduled by the platform, and a sleeper has no enabled step until it is woken.
  Nobody is bound to send, stop, write, close or read.
* `GuestLoop`: microtasks and drains run (weak).  Guest code that has been entered
  returns or throws: strong fairness per stack depth, since calls nest and unnest
  in between.  This excludes programs that never return, for which no tick runs in
  Node either.
* `WebLocks`: a callback the manager called settles.  Without that a lock is held
  for ever, as the standard has it.
* `NodeRun`: guest code returns; the program's microtasks run; the launcher's own
  continuation, queued in the realm behind finitely many others, runs although the
  program's callbacks keep coming (strong), and the teardown of what it held settles.
  Callbacks of timers and handles are not fair: they may never come.
* `NativeStream`: each port is emptied, each scheduled flush runs, and a driver is told
  of its transport's close, which is two turns of its own loop.  Programs are
  not bound to read, so `StreamMoves` is conditional: on a reader that in the end
  goes on reading or closes.
* `PreviewBridge`: messages arrive, timers fire, a page that loads becomes ready, a
  server still registered answers, and a reader that has not gone away reads on (all
  weak).  A worker is not bound to live, nor a server to stay.
* `SpawnSync`: the caller, the thread, the drain and the host run, time passes, and a
  child the host started ends (weak); a child on the thread ends although it may go
  on asking (strong); a transfer that is possible again and again is not refused for
  ever (strong: the kernel may answer EAGAIN in between).  Nothing makes a descendant
  close a pipe, so `EveryCallReturns` excepts a spawn without a timeout whose pipes
  somebody holds (`HeldByOthers`), as Node's does.

A run of two parts states the fairness of each under the condition that it is the part
explored.  `MCRuns` joins conditions on steps of parts of which only one is ever
explored (a run, a call of the thread's, a spawn of the host's) into one, which says the
same as one for each and is cheaper to check.

## 6. What is proved

TLAPS proves the following for every value of the constants that satisfies the
assumptions named in the modules that declare them (`QueueAssumption`,
`RingAssumption`, `RegistryAssumption`, `RunAssumption`, `KindsAssumption`,
`SyncPipesBounds` and the others): that bounds are numbers, that sets of names do not
overlap, that a ring's length divides the modulus of its counters.  TLC evaluates each
on the checked instances.  Every inductive invariant below was checked by TLC as an
invariant, on bounds at least those of the run, before it was proved.

`RingProofs`, of `NativeQueue` (any set of threads, any ring, modulus and number of sends):

* `TypeCorrect`: `QueueSpec => []TypeOK`.  The strengthening is `Began`: a thread inside
  `sendNative` has begun the send it is in.
* `Exclusion`: `QueueSpec => []WritersExclude`.  `WritersExclude` says that LOCK is 1
  while a thread is inside; that conjunct makes it inductive, as only a
  compare-exchange from 0 lets a thread in.
* `Order`: `QueueSpec => []InOrder`.  The inductive invariant `OrderInv` counts what was
  ever published and taken, without wrapping: HEAD and TAIL are those counts modulo
  the modulus, and the fill, a difference of wrapped words, is the true difference
  since that never exceeds `Slots` (lemma `TrueFill`).  A writer's local copy of HEAD
  may be stale, never ahead, so a ring it finds with room has room
  (`TestFullOrder`); the slot it writes is none of those still to be read, since
  `Slots` divides the modulus (`SlotOfWrapped`, `WriteSlotOrder`).  The stop and a
  throwing callback disturb nothing of this (`MainOrder`).

and of `StdinRing` (any capacity, modulus, sizes of writes and reads, number of bytes):

* `RingIsPipe`: `StdinSpec => ImplementsPipe`, the refinement of `BytePipe`.  Its invariant
  `RingInv` says that the two indices are the counts of bytes published and taken modulo
  2^32, at most the capacity apart; that every byte between them is in its place; that
  what a put saw of the read index is past and still leaves it room (`Seen`), and what it
  stores is in place before it is published (`Stored`); and that a reader that has found
  CLOSED set and then nothing has found everything.  The last is why the end is never
  told early: CLOSED is looked at before the bytes are looked at again.  `Ending` says
  that a ring closed with no put under way has nothing more to publish, so that the pipe
  it is takes nothing after its end; a close under a put is `NothingAfterTheEnd`'s.

Both rings rest on a few facts about counters that wrap (`ModAdd`, `ModSub`,
`ModOfMultiple`), which follow from one, that once more round changes no remainder
(`ModRound`).

`ProcessRegistryProofs` (any realms, tokens, numbers, publications):

* `Ownership`: `RegistrySpec => []NumbersAreOwned`; `Agreement`: `RegistrySpec =>
  []LiveIsRun`; `RegistryTyped`: `RegistrySpec => []RegistryTypeOK`.  The inductive
  invariant `RegistryInv` adds that an entry is filed under its own number (`PidsMatch`)
  and that no two tokens of a realm name one run (`OneToken`): without the second,
  forgetting one of them would leave the other's run dead.
* `GroupsLed`: `RegistrySpec => []GroupsHaveLeaders`, however numbers are handed out
  again: a run enters its own group, which its realm starts with it, or its parent's, and
  the parent is a run of the same realm (`EnterGroups`).
* `SignalsReach`: `RegistrySpec => SignalsReachTheirProcess`, an action property, from
  `RegistryInv` and the fact that a realm that is closed runs nothing
  (`ClosedStep`).

`RealmProofs`, of `GuestLoop` (any number of ticks, frames and microtasks, any clock):

* `TicksKeepOrder`: `Spec => []TicksInOrder`, and `TicksWait`: `Spec =>
  TicksWaitForTheirCode`, an action property.  `TickInv` says that at most one drain is
  under way, with at most one tick's frame on it (`OneDrain`); that what has run, what
  the drain has taken and what waits are consecutive numbers (`InOrder`); and that a tick
  is owned by a frame at or above the one whose drain could reach it, or by none
  (`Owners`).  The last is what `FromTheLoop` guarantees and the properties need.
* `TimeCountedOnce`: `Spec => []TimeIsCountedOnce`.  `TimeInv` says that the depth is
  the number of brackets on the stack and that drains are inside one (`Brackets`), that
  an open turn has exactly one microtask that will end it (`OneEnd`), and that the
  account is right between spans and inside one (`Account`).

and of `WebLocks` (any requests and names):

* `LocksExclude`: `LocksSpec => []Exclusion`, and `LocksInOrder`: `LocksSpec =>
  InTheOrderAsked`, an action property.  `LocksInv` adds to exclusion that what is held
  or waits was asked for and nothing does both; the weight is in the lemmas about
  `Granted`, that what one pass grants may be held together with what is held, and that
  it passes nobody over.

`NodeRunProofs` (any statuses, references, microtasks and depth, any program):

* `FatalNotReportedAsSuccess`: `Spec => []FatalIsNotSuccess`.  `StatusInv` follows a
  status through nested exits.  While the program has chosen none, only 1 and 7 are ever
  put into `process.exitCode`, and after a fatal error one of them is there; or the loop
  had drained, and then it is in the launcher's own `exitCode`, which is what `endExit`
  settles with.  What makes this inductive is that a drained run has no emission of
  `process.exit` below it, whose end would settle it with `process.exitCode` instead.
* `NothingIsCut`: `Spec => EndCutsNothing`, an action property.  `Emptied`: between the
  look that finds the loop empty, be it for its references, its silence or the 60 s
  bound, and the mark on the run nothing of the program runs.

`NativeStreamProofs` (writes of any sizes, any room, any number of writes and stops):

* `DescriptorsNeverLeak`: `StreamSpec => []DescriptorsAccounted`.  With the types
  (`StreamTypes`) and `ControlInv` below, by which nothing is answered through a
  transport that has closed, the property is nearly inductive; the weight is in how
  counts of places change when a sequence is joined, cut or moved on (`CountJoined`),
  and in what the owner's nested operations leave alone: each has a lemma that says what
  becomes of each field of its record, which the actions cite.
* `AnswersStayTrue`: `StreamSpec => []AnswersAreTrue`.  Its invariant, `AnswerInv`, has five
  parts next to the types.  `ControlInv`: the writes queued are the last made, only the
  first of them has begun, and its next chunk is in exactly one place, on the port, waiting
  at the owner, or answered (`FlightInv`); the end is sent with no write queued
  (`ClosingInv`), which is why a write is never refused for it.  `ReadInv`: the end is last
  on the line to the reader, and it is told with nothing left.  `OrderInv`: the stream is as
  written.  `TipInv`: it ends where the first write queued has got to, so that the chunk due
  is the one that comes next.  `KeptInv`: every chunk of a write that is answered, and every
  one the owner has taken of the first write queued, is with the reader.  Every step leaves
  the stream as it is, or appends the chunk due and answers it, or takes a write of one
  chunk at once (`ReadStep`); the last three parts are proved from that alone.

`LoopWorkProofs` (any runs, handles, timers and ports):

* `WorkTyped`, `HeldByItsOwn`, `EndTakesAll`, `EndsReported`: `Spec => []` of `TypeOK`,
  `LoopIsHeldByItsOwn`, `EndLeavesNothing` and `EndIsReported`.  One invariant,
  `WorkInv`, relates the five tables of `handles.ts` to each other and to what became of
  each handle (`HandleOK`), says that what an ended run has came after its end
  (`AllIsLate`), and that the completion a run will await, or awaits, answers for every
  handle its ends closed (`EndsAreAccounted`): without it a second end could drop what
  the first one owes.  Each exported function, an operator from a count to the next, has
  a lemma that it keeps them, which the actions cite in whichever order they call them.

`SpawnSyncProofs` (any pipes, sizes and limits; any calls and parts):

* `NothingLost`: `SpawnSpec => []OutputIsWhole`, and `CutsReported`: `SpawnSpec =>
  []CutIsReported`, by `PipesInv`: a child is killed only for its time or for the limit,
  and the error says which (`KilledFor`); and an output the drain is done with, no pipe
  having failed, is empty and has no writer left (`Drained`).
* `MessagesCross`: `SpawnSpec => []MessagesWhole`, by `ThreadInv`: unless a call was
  abandoned, caller and thread take turns (`InTurn`).  Nothing is in the windows, or the
  thread speaks, or it has been told, or it is answered, and each of these fixes the two
  words, the phase of the thread's job and the caller's place in `runSyncChild`; and no
  child runs but the call's own (`OwnChild`).

`PreviewBridgeProofs` (any finite sets of ports, requests and waits, any bounds, whatever
a worker leaves behind: `MidFlight` either way):

* `BridgeInvariant`: `Spec => []BridgeInv`.  Its heart is `Announced`: while the worker has
  the page's channel, or will when it takes the introduction on its way, the messages on
  that channel, taken in turn, bring its tables from what they say to ones that agree with
  the page (`Replay`, a sequence of tables, one for each message; `Fits`, which asks that
  every server is there and says of each whether it is the primary one, and leaves open
  what the table has of a port without a server, as a primary port named before it
  listens does).  A step of the page appends to
  the replay (`ReplayJoin`), one of the worker takes its first message off (`ReplayTail`),
  and a new channel starts one from nothing: that telling every server, whatever the order,
  makes the page's own table is `AnnounceReplays`.  `Lines` is what lets a channel be
  told from its successors: introductions are taken in the order of the channels, and a
  channel not yet opened is empty.  Of the rest the types say that a request which is sent
  has a number, as no life of a worker gives more numbers than there are requests posted.
* `RegistrationsAlwaysAgree`: `Spec => []RegistrationsAgree`, the case where nothing is on
  its way and so the replay is empty, whether or not the primary port has a server.
* `MappingsAreTrue`: `Spec => MappingIsTrue`, an action property, by the last part of the
  invariant, `Mapped`.  A wait that still waits is for the page's primary port on its
  current channel (`Waiting`).  Its check is followed on the line by nothing that would take
  the port from the root (`Checked`), since whatever in the page does that also ends the
  wait; so when the worker has answered yes it serves the port there, and still will when
  it has taken what comes behind (`Confirmed`).

Only model-checked, and why:

* Every liveness property: the prover does not treat fairness or `ENABLED`.
* `PreviewBridge`'s `BodyIsWhole`: it compares sequences that are filtered or joined
  (`SelectSeq`, `FlattenSeq`), which are defined by recursion over the sequence, and
  induction over data is out of the prover's reach.
* `PreviewBridge`'s `TypeOK` and `AnsweredByItsServer`.  Of the first everything but the
  bound on credits is in `BridgeInv`; that no stream has a second credit, which is so only
  while a worker leaves nothing behind, and that an answer is of the server the request
  was sent to, which is so either way, are matters of each request's own messages on the
  two lines of its channel.

The type invariants of the other modules are parts of the inductive invariants and are
not properties of a run of their own; the queue, the registry, `LoopWork` and
`PreviewBridge` have one, where it says more than a type (words that wrap; numbers within
their range; a port's listeners never below none; a stream's one credit).

## 7. What the models leave out

* Memory ordering: `Atomics` are sequentially consistent, and the plain accesses to
  slots and bytes are ordered by them, so an interleaving of accesses is exact.
* Spurious wakes, which `Atomics.wait` does not have, and timeouts, which these
  waits are not given; the timeouts of `SyncThread`, `SyncPipes` and the worker are steps.
* `StdinRing`: the checks of its arguments.
* `ProcessRegistry`: queries, and the descriptive fields of an identity.
* `GuestLoop`: the names of entries and the limit on their number.
* `WebLocks`: requests refused for their options; `query`.
* `NodeRun`: what comes before the entry (arguments, streams, preloads), and
  anything of the same file that is not the launch.
* `NativeStream`: the other direction (the same code), duplicates and inheritance of
  a descriptor, send credits, the limits on handles and on pending bytes, ref and
  unref.  A chunk that carries a descriptor counts against the room in bytes; the
  separate limit on queued descriptors is implied by it at this bound.
* `LoopWork`: the lists behind `process._getActiveHandles`, which only report.
* `PreviewBridge`: several pages behind one worker, the routing of a frame's paths,
  document rewriting, WebSocket connectors, and HTTP itself.
* `SpawnSync`: the credentials a child may be given, the choice of the door, hosts
  without kernel pipes, and the reading of a shell's 126 and 127.
