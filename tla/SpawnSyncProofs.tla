---------------------------- MODULE SpawnSyncProofs ----------------------------
(****************************************************************************)
(* Synchronous children.  First the host's route: what a spawn reports, for   *)
(* any pipes, limits and deadline.  Then the thread's: what crosses the two   *)
(* windows, for any number of calls and parts.  One route's steps leave the   *)
(* other's state alone, so each has an inductive invariant of its own.        *)
(****************************************************************************)
EXTENDS SpawnSync, WellFoundedInduction, TLAPS

BeforeEnd == spawn.pc \in {"idle", "forked", "sweep", "poll", "serve"}

SpawnRecord ==
  [pc : {"idle", "forked", "sweep", "poll", "serve", "ending", "returned"},
   timed : BOOLEAN, limited : BOOLEAN, late : BOOLEAN, ready : SUBSET Pipes, buffered : Nat,
   error : {"none", "ETIMEDOUT", "ENOBUFS"}, pipeError : {"none", "EIO"},
   answer : {"none", "ETIMEDOUT"},
   result : {"none", "EPERM", "ENOSYS", "ETIMEDOUT", "ENOBUFS", "EIO"}]
PipeRecord == [reading : BOOLEAN, writing : BOOLEAN, left : Nat]
KernelRecord == [bytes : Nat, ours : BOOLEAN, made : BOOLEAN, theirs : BOOLEAN,
                 shut : BOOLEAN, refused : BOOLEAN]
ChildRecord == [state : {"none", "forked", "running", "ended"}, killed : BOOLEAN]

PipeTypes ==
  /\ spawn \in SpawnRecord /\ child \in ChildRecord
  /\ pipe \in [Pipes -> PipeRecord] /\ kernel \in [Pipes -> KernelRecord]
  /\ spawn.pc = "serve" => spawn.ready # {}
  /\ \A p \in Pipes : /\ pipe[p].reading => p \in Outputs
                      /\ pipe[p].writing => p \in Inputs

\* Why a child is killed: its time is up, or more is kept than the limit.
KilledFor ==
  /\ BeforeEnd => spawn.error = "none" /\ spawn.answer = "none" /\ ~child.killed
  /\ spawn.error = "ETIMEDOUT" \/ spawn.answer = "ETIMEDOUT" => spawn.late
  /\ spawn.error = "ENOBUFS" <=> spawn.buffered > MaxBuffer
  /\ spawn.buffered <= MaxBuffer + ReadBytes
  /\ child.killed => spawn.error # "none" \/ spawn.answer # "none"
  /\ CutIsReported

\* A pipe that is done with, no pipe having failed, has nothing in it and no writer.
Drained ==
  /\ spawn.pc = "idle" => /\ \A p \in Outputs : pipe[p].reading
                          /\ \A p \in Pipes : ~kernel[p].theirs
  /\ BeforeEnd => \A p \in Pipes : ~kernel[p].refused /\ (kernel[p].ours \/ spawn.pc = "idle")
  /\ BeforeEnd /\ spawn.pipeError = "none" =>
       \A p \in Outputs : pipe[p].reading \/ (kernel[p].bytes = 0 /\ ~kernel[p].theirs)
  /\ spawn.pc = "ending" /\ spawn.error = "none" /\ spawn.pipeError = "none" =>
       \A p \in Outputs : kernel[p].bytes = 0 /\ ~kernel[p].theirs /\ ~kernel[p].refused
  /\ OutputIsWhole

PipesInv == PipeTypes /\ KilledFor /\ Drained


\* The bounds, and which pipes are which.
LEMMA SpawnBounds ==
  /\ Pipes \subseteq Nat /\ Pipes = Inputs \cup Outputs /\ Inputs \cap Outputs = {}
  /\ MaxBuffer \in Nat \ {0} /\ ReadBytes \in Nat \ {0} /\ InputBytes \in Nat /\ Room \in Nat
  BY SyncPipesBounds DEF Pipes

\* Pipes are served in their order: of those that are ready there is a first.
LEMMA LeastIs ==
  ASSUME NEW S \in SUBSET Nat, S # {}
  PROVE  \E x \in S : \A y \in S : x <= y
  <1>1. PICK R : R = OpToRel(<, Nat)
    OBVIOUS
  <1>2. IsWellFoundedOn(R, Nat)
    BY <1>1, NatLessThanWellFounded, Zenon
  <1>3. PICK x \in S : \A y \in S : ~ (<<y, x>> \in R)
    BY <1>2, WFMin, Zenon
  <1>4. R = {ss \in Nat \X Nat : ss[1] < ss[2]}
    BY <1>1, Zenon DEF OpToRel
  <1>5. \A y \in S : ~(y < x)
    BY <1>3, <1>4
  <1> QED
    BY <1>3, <1>5

\* The pipe being served is one of the ready.
LEMMA FirstIs ==
  ASSUME PipeTypes, spawn.pc = "serve"
  PROVE  First \in spawn.ready /\ First \in Pipes
  <1>1. spawn.ready \in SUBSET Pipes /\ spawn.ready # {}
    BY DEF PipeTypes, SpawnRecord
  <1>2. \E x \in spawn.ready : \A y \in spawn.ready : x <= y
    BY <1>1, SpawnBounds, LeastIs
  <1>3. First \in spawn.ready
    BY <1>2, Zenon DEF First
  <1> QED
    BY <1>1, <1>3

\* The pipes a spawn begins with: inputs to write, outputs to read.
LEMMA NewPipesAre ==
  /\ NewPipes \in [Pipes -> PipeRecord]
  /\ \A p \in Pipes : (NewPipes[p].reading <=> p \in Outputs) /\ (NewPipes[p].writing <=> p \in Inputs)
  <1>1. ASSUME NEW p \in Pipes
        PROVE  /\ NewPipes[p].reading = (p \in Outputs) /\ NewPipes[p].writing = (p \in Inputs)
               /\ NewPipes[p] \in PipeRecord
    <2>1. NewPipes[p] = [reading |-> p \in Outputs, writing |-> p \in Inputs,
                         left |-> IF p \in Inputs THEN InputBytes ELSE 0]
      BY DEF NewPipes
    <2>2. NewPipes[p].reading = (p \in Outputs) /\ NewPipes[p].writing = (p \in Inputs)
      BY <2>1
    <2>3. (p \in Outputs) \in BOOLEAN /\ (p \in Inputs) \in BOOLEAN
      OBVIOUS
    <2>4. (IF p \in Inputs THEN InputBytes ELSE 0) \in Nat
      BY SpawnBounds
    <2>5. NewPipes[p] \in PipeRecord
      <3>1. \A a, b \in BOOLEAN, n \in Nat : [reading |-> a, writing |-> b, left |-> n] \in PipeRecord
        BY DEF PipeRecord
      <3>2. PICK n : n = IF p \in Inputs THEN InputBytes ELSE 0
        OBVIOUS
      <3> QED
        BY <2>1, <2>3, <2>4, <3>1, <3>2, Zenon
    <2> QED
      BY <2>2, <2>5
  <1>2. NewPipes = [p \in Pipes |-> NewPipes[p]]
    BY DEF NewPipes
  <1> QED
    BY <1>1, <1>2

\* Nothing has been forked at first.
LEMMA PipesStart == PipesInit => PipesInv
  <1> SUFFICES ASSUME PipesInit
               PROVE  PipesInv
    OBVIOUS
  <1>1. /\ spawn.pc = "idle" /\ spawn.error = "none" /\ spawn.pipeError = "none"
        /\ spawn.answer = "none" /\ spawn.buffered = 0 /\ spawn \in SpawnRecord
    BY DEF PipesInit, SpawnRecord
  <1>2. PipeTypes
    <2>1. child \in ChildRecord /\ kernel \in [Pipes -> KernelRecord]
      BY DEF PipesInit, ChildRecord, KernelRecord
    <2> QED
      BY <1>1, <2>1, NewPipesAre DEF PipesInit, PipeTypes
  <1>3. KilledFor
    BY <1>1, SpawnBounds DEF PipesInit, KilledFor, CutIsReported
  <1>4. Drained
    <2>1. \A p \in Pipes : ~kernel[p].refused /\ ~kernel[p].theirs
      BY DEF PipesInit
    <2>2. \A p \in Outputs : pipe[p].reading
      BY SpawnBounds, NewPipesAre DEF PipesInit
    <2> QED
      BY <1>1, <2>1, <2>2 DEF Drained, OutputIsWhole
  <1> QED
    BY <1>2, <1>3, <1>4 DEF PipesInv

----------------------------------------------------------------------------
(* The call's steps                                                         *)

\* A step that kills nobody and counts nothing.
LEMMA KilledKept ==
  ASSUME PipesInv, spawn' \in SpawnRecord, child' \in ChildRecord,
         child'.killed = child.killed, spawn'.error = spawn.error, spawn'.answer = spawn.answer,
         spawn'.buffered = spawn.buffered, spawn.late => spawn'.late,
         BeforeEnd' => BeforeEnd, spawn'.pc # "returned"
  PROVE  KilledFor'
  <1>1. CutIsReported'
    BY DEF PipesInv, KilledFor, CutIsReported
  <1> QED
    BY <1>1 DEF PipesInv, KilledFor

\* A step of the drain, or of the child under it.
LEMMA DrainedKept ==
  ASSUME BeforeEnd',
         \A p \in Pipes : ~kernel'[p].refused /\ (kernel'[p].ours \/ spawn'.pc = "idle"),
         spawn'.pc # "idle",
         spawn'.pipeError = "none" =>
           \A p \in Outputs : pipe'[p].reading \/ (kernel'[p].bytes = 0 /\ ~kernel'[p].theirs)
  PROVE  Drained'
  <1>1. spawn'.pc \notin {"ending", "returned"}
    BY DEF BeforeEnd
  <1> QED
    BY <1>1 DEF Drained, OutputIsWhole

\* The child is forked.
LEMMA ForkStep ==
  ASSUME PipesInv, Fork
  PROVE  PipesInv'
  <1>1. /\ spawn.pc = "idle" /\ spawn' = [spawn EXCEPT !.pc = "forked"]
        /\ child' = [child EXCEPT !.state = "forked"] /\ kernel' = HandedOver /\ pipe' = pipe
    BY DEF Fork
  <1>2. PipeTypes
    BY DEF PipesInv
  <1>3. /\ spawn' \in SpawnRecord /\ spawn'.pc = "forked" /\ spawn'.error = spawn.error
        /\ spawn'.answer = spawn.answer /\ spawn'.buffered = spawn.buffered
        /\ spawn'.late = spawn.late /\ spawn'.pipeError = spawn.pipeError
    BY <1>1, <1>2 DEF PipeTypes, SpawnRecord
  <1>4. child' \in ChildRecord /\ child'.killed = child.killed
    BY <1>1, <1>2 DEF PipeTypes, ChildRecord
  <1>5. /\ kernel' \in [Pipes -> KernelRecord]
        /\ \A p \in Pipes : kernel'[p].refused = kernel[p].refused /\ kernel'[p].ours
    BY <1>1, <1>2 DEF PipeTypes, KernelRecord, HandedOver
  <1>6. PipeTypes'
    BY <1>1, <1>2, <1>3, <1>4, <1>5 DEF PipeTypes
  <1>7. KilledFor'
    BY <1>1, <1>3, <1>4, KilledKept DEF BeforeEnd
  <1>8. Drained'
    BY <1>1, <1>3, <1>5, DrainedKept DEF BeforeEnd, PipesInv, Drained
  <1> QED
    BY <1>6, <1>7, <1>8 DEF PipesInv

\* The fork is refused, and the spawn returns at once.
LEMMA ForkFailsStep ==
  ASSUME PipesInv, ForkFails
  PROVE  PipesInv'
  <1>1. /\ spawn.pc = "idle" /\ spawn' = [spawn EXCEPT !.pc = "returned", !.result = "EPERM"]
        /\ UNCHANGED <<pipe, kernel, child>>
    BY DEF ForkFails
  <1>2. PipeTypes
    BY DEF PipesInv
  <1>3. /\ spawn' \in SpawnRecord /\ spawn'.pc = "returned" /\ spawn'.error = spawn.error
        /\ spawn'.answer = spawn.answer /\ spawn'.buffered = spawn.buffered
        /\ spawn'.late = spawn.late /\ spawn'.result = "EPERM"
    BY <1>1, <1>2 DEF PipeTypes, SpawnRecord
  <1>4. PipeTypes'
    BY <1>1, <1>2, <1>3 DEF PipeTypes
  <1>5. spawn.error = "none" /\ spawn.answer = "none" /\ ~child.killed /\ ~(spawn.buffered > MaxBuffer)
    BY <1>1 DEF PipesInv, KilledFor, BeforeEnd
  <1>6. KilledFor'
    BY <1>1, <1>3, <1>5 DEF PipesInv, KilledFor, BeforeEnd, CutIsReported
  <1>7. Drained'
    BY <1>3 DEF Drained, BeforeEnd, OutputIsWhole
  <1> QED
    BY <1>4, <1>6, <1>7 DEF PipesInv

\* The host runs the child.
LEMMA HostStartsStep ==
  ASSUME PipesInv, HostStarts
  PROVE  PipesInv'
  <1>1. /\ spawn.pc = "forked" /\ spawn' = [spawn EXCEPT !.pc = "sweep"]
        /\ child' = [child EXCEPT !.state = "running"] /\ UNCHANGED <<pipe, kernel>>
    BY DEF HostStarts
  <1>2. PipeTypes
    BY DEF PipesInv
  <1>3. /\ spawn' \in SpawnRecord /\ spawn'.pc = "sweep" /\ spawn'.error = spawn.error
        /\ spawn'.answer = spawn.answer /\ spawn'.buffered = spawn.buffered
        /\ spawn'.late = spawn.late /\ spawn'.pipeError = spawn.pipeError
    BY <1>1, <1>2 DEF PipeTypes, SpawnRecord
  <1>4. child' \in ChildRecord /\ child'.killed = child.killed
    BY <1>1, <1>2 DEF PipeTypes, ChildRecord
  <1>5. PipeTypes'
    BY <1>1, <1>2, <1>3, <1>4 DEF PipeTypes
  <1>6. KilledFor'
    BY <1>1, <1>3, <1>4, KilledKept DEF BeforeEnd
  <1>7. Drained'
    BY <1>1, <1>3, DrainedKept DEF BeforeEnd, PipesInv, Drained
  <1> QED
    BY <1>5, <1>6, <1>7 DEF PipesInv


\* Closing this realm's ends leaves the bytes, the writers and the refusals.
LEMMA ClosedIs ==
  ASSUME NEW k \in [Pipes -> KernelRecord]
  PROVE  /\ Closed(k) \in [Pipes -> KernelRecord]
         /\ \A p \in Pipes : /\ Closed(k)[p].bytes = k[p].bytes
                             /\ Closed(k)[p].theirs = k[p].theirs
                             /\ Closed(k)[p].refused = k[p].refused
  BY DEF Closed, KernelRecord

\* The host does not, and the spawn returns.
LEMMA HostRefusesStep ==
  ASSUME PipesInv, HostRefuses
  PROVE  PipesInv'
  <1>1. /\ spawn' = [spawn EXCEPT !.pc = "returned", !.result = "ENOSYS"]
        /\ \E handed \in BOOLEAN :
             child' = [child EXCEPT !.state = IF handed THEN @ ELSE "ended"]
        /\ kernel' = Closed(kernel) /\ pipe' = pipe
    BY DEF HostRefuses
  <1>2. PipeTypes
    BY DEF PipesInv
  <1>3. /\ spawn' \in SpawnRecord /\ spawn'.pc = "returned" /\ spawn'.error = spawn.error
        /\ spawn'.answer = spawn.answer /\ spawn'.buffered = spawn.buffered
        /\ spawn'.late = spawn.late /\ spawn'.result = "ENOSYS"
    BY <1>1, <1>2 DEF PipeTypes, SpawnRecord
  <1>4. child' \in ChildRecord /\ child'.killed = child.killed
    <2>1. \/ child' = [child EXCEPT !.state = child.state]
          \/ child' = [child EXCEPT !.state = "ended"]
      BY <1>1
    <2> QED
      BY <1>2, <2>1 DEF PipeTypes, ChildRecord
  <1>5. kernel' \in [Pipes -> KernelRecord]
    BY <1>1, <1>2, ClosedIs DEF PipeTypes
  <1>6. PipeTypes'
    BY <1>1, <1>2, <1>3, <1>4, <1>5 DEF PipeTypes
  <1>7. KilledFor'
    BY <1>3, <1>4 DEF PipesInv, KilledFor, BeforeEnd, CutIsReported
  <1>8. Drained'
    BY <1>3 DEF Drained, BeforeEnd, OutputIsWhole
  <1> QED
    BY <1>6, <1>7, <1>8 DEF PipesInv

\* The host kills a child whose time is over and answers for it.
LEMMA HostKillsStep ==
  ASSUME PipesInv, HostKills
  PROVE  PipesInv'
  <1>1. /\ spawn.pc = "ending" /\ spawn.late
        /\ spawn' = [spawn EXCEPT !.answer = "ETIMEDOUT"]
        /\ child' = [child EXCEPT !.killed = TRUE] /\ UNCHANGED <<pipe, kernel>>
    BY DEF HostKills
  <1>2. PipeTypes
    BY DEF PipesInv
  <1>3. /\ spawn' \in SpawnRecord /\ spawn'.pc = "ending" /\ spawn'.error = spawn.error
        /\ spawn'.answer = "ETIMEDOUT" /\ spawn'.buffered = spawn.buffered
        /\ spawn'.late = spawn.late /\ spawn'.pipeError = spawn.pipeError
    BY <1>1, <1>2 DEF PipeTypes, SpawnRecord
  <1>4. child' \in ChildRecord
    BY <1>1, <1>2 DEF PipeTypes, ChildRecord
  <1>5. PipeTypes'
    BY <1>1, <1>2, <1>3, <1>4 DEF PipeTypes
  <1>6. KilledFor'
    BY <1>1, <1>3 DEF PipesInv, KilledFor, BeforeEnd, CutIsReported
  <1>7. Drained'
    BY <1>1, <1>3 DEF PipesInv, Drained, BeforeEnd, OutputIsWhole
  <1> QED
    BY <1>5, <1>6, <1>7 DEF PipesInv

\* GetError: the runner's own error before a pipe's.
LEMMA HostAnswersStep ==
  ASSUME PipesInv, HostAnswers
  PROVE  PipesInv'
  <1>1. /\ spawn.pc = "ending" /\ spawn' = [spawn EXCEPT !.pc = "returned", !.result = GetError]
        /\ kernel' = Closed(kernel) /\ UNCHANGED <<pipe, child>>
    BY DEF HostAnswers
  <1>2. PipeTypes
    BY DEF PipesInv
  <1>3. /\ spawn.error \in {"none", "ETIMEDOUT", "ENOBUFS"} /\ spawn.pipeError \in {"none", "EIO"}
        /\ spawn.answer \in {"none", "ETIMEDOUT"}
    BY <1>2 DEF PipeTypes, SpawnRecord
  <1>4. GetError \in {"none", "ETIMEDOUT", "ENOBUFS", "EIO"}
    BY <1>3 DEF GetError
  <1>5. /\ spawn' \in SpawnRecord /\ spawn'.pc = "returned" /\ spawn'.error = spawn.error
        /\ spawn'.answer = spawn.answer /\ spawn'.buffered = spawn.buffered
        /\ spawn'.late = spawn.late /\ spawn'.result = GetError
    BY <1>1, <1>2, <1>4 DEF PipeTypes, SpawnRecord
  <1>6. PipeTypes'
    BY <1>1, <1>2, <1>5, ClosedIs DEF PipeTypes
  <1>7. KilledFor'
    BY <1>1, <1>3, <1>5 DEF PipesInv, KilledFor, BeforeEnd, CutIsReported, GetError
  <1>8. Drained'
    <2> SUFFICES ASSUME GetError = "none"
                 PROVE  \A p \in Outputs : kernel'[p].bytes = 0 /\ ~kernel'[p].refused
      BY <1>5 DEF Drained, BeforeEnd, OutputIsWhole
    <2>1. spawn.error = "none" /\ spawn.pipeError = "none"
      BY <1>3 DEF GetError
    <2>2. \A p \in Outputs : p \in Pipes /\ kernel[p].bytes = 0 /\ ~kernel[p].refused
      BY <1>1, <2>1, SpawnBounds DEF PipesInv, Drained
    <2> QED
      BY <1>1, <1>2, <2>2, ClosedIs DEF PipeTypes
  <1> QED
    BY <1>6, <1>7, <1>8 DEF PipesInv

\* The deadline passes.
LEMMA TimePassesStep ==
  ASSUME PipesInv, TimePasses
  PROVE  PipesInv'
  <1>1. /\ spawn.pc \notin {"idle", "returned"} /\ spawn' = [spawn EXCEPT !.late = TRUE]
        /\ UNCHANGED <<pipe, kernel, child>>
    BY DEF TimePasses
  <1>2. PipeTypes
    BY DEF PipesInv
  <1>3. /\ spawn' \in SpawnRecord /\ spawn'.pc = spawn.pc /\ spawn'.error = spawn.error
        /\ spawn'.answer = spawn.answer /\ spawn'.buffered = spawn.buffered
        /\ spawn'.late /\ spawn'.pipeError = spawn.pipeError /\ spawn'.ready = spawn.ready
    BY <1>1, <1>2 DEF PipeTypes, SpawnRecord
  <1>4. PipeTypes'
    BY <1>1, <1>2, <1>3 DEF PipeTypes
  <1>5. KilledFor'
    BY <1>1, <1>2, <1>3, KilledKept DEF BeforeEnd, PipeTypes
  <1>6. Drained'
    BY <1>1, <1>3 DEF PipesInv, Drained, BeforeEnd, OutputIsWhole
  <1> QED
    BY <1>4, <1>5, <1>6 DEF PipesInv


----------------------------------------------------------------------------
(* drainSyncPipes                                                           *)

Draining == {"sweep", "poll", "serve"}

\* The pipe is done with for this round: the next is served, or the loop begins again.
LEMMA ServedIs ==
  ASSUME PipesInv, spawn.pc = "serve"
  PROVE  /\ Served \in SpawnRecord /\ Served.pc \in {"sweep", "serve"}
         /\ Served.pc = "serve" => Served.ready # {}
         /\ Served.error = spawn.error /\ Served.answer = spawn.answer
         /\ Served.buffered = spawn.buffered /\ Served.late = spawn.late
         /\ Served.pipeError = spawn.pipeError /\ Served.limited = spawn.limited
  <1>1. PICK rest : rest = spawn.ready \ {First}
    OBVIOUS
  <1>2. spawn \in SpawnRecord /\ rest \in SUBSET Pipes
    BY <1>1 DEF PipesInv, PipeTypes, SpawnRecord
  <1>3. Served = [spawn EXCEPT !.ready = rest, !.pc = IF rest = {} THEN "sweep" ELSE spawn.pc]
    BY <1>1 DEF Served
  <1> QED
    BY <1>2, <1>3 DEF SpawnRecord

\* The pipes of a round: each still on its side, and those done with drained.
SidesHold(ps) ==
  /\ ps \in [Pipes -> PipeRecord]
  /\ \A p \in Pipes : /\ ps[p].reading => p \in Outputs
                      /\ ps[p].writing => p \in Inputs

\* Within a round of the drain, what is kept and what is reported change only as said.
LEMMA RoundKeeps ==
  ASSUME PipesInv, spawn.pc \in Draining, spawn' \in SpawnRecord, spawn'.pc \in Draining,
         spawn'.pc = "serve" => spawn'.ready # {},
         spawn'.error = spawn.error, spawn'.answer = spawn.answer,
         spawn'.buffered = spawn.buffered, spawn'.late = spawn.late,
         child' = child, SidesHold(pipe'), kernel' \in [Pipes -> KernelRecord],
         \A p \in Pipes : kernel'[p].refused = kernel[p].refused /\ kernel'[p].ours = kernel[p].ours,
         spawn'.pipeError = "none" =>
           \A p \in Outputs : pipe'[p].reading \/ (kernel'[p].bytes = 0 /\ ~kernel'[p].theirs)
  PROVE  PipesInv'
  <1>1. child' \in ChildRecord
    BY DEF PipesInv, PipeTypes
  <1>2. PipeTypes'
    BY <1>1 DEF PipeTypes, SidesHold
  <1>3. KilledFor'
    BY <1>1, KilledKept DEF BeforeEnd, Draining
  <1>4. \A p \in Pipes : ~kernel'[p].refused /\ kernel'[p].ours
    BY DEF PipesInv, Drained, BeforeEnd, Draining
  <1>5. BeforeEnd' /\ spawn'.pc # "idle"
    BY DEF BeforeEnd, Draining
  <1>6. Drained'
    BY <1>4, <1>5, DrainedKept
  <1> QED
    BY <1>2, <1>3, <1>6 DEF PipesInv

\* A poll, and a pipe that had nothing after all.
LEMMA PollStep ==
  ASSUME PipesInv, PollReady \/ PollAgain \/ ServeAgain
  PROVE  PipesInv'
  <1>1. /\ spawn.pc \in Draining /\ UNCHANGED <<pipe, kernel, child>>
        /\ spawn \in SpawnRecord
    BY DEF PollReady, PollAgain, ServeAgain, Draining, PipesInv, PipeTypes
  <1>2. /\ spawn' \in SpawnRecord /\ spawn'.pc \in Draining
        /\ spawn'.pc = "serve" => spawn'.ready # {}
        /\ spawn'.error = spawn.error /\ spawn'.answer = spawn.answer
        /\ spawn'.buffered = spawn.buffered /\ spawn'.late = spawn.late
        /\ spawn'.pipeError = spawn.pipeError
    <2>1. CASE PollReady
      <3>1. spawn' = [spawn EXCEPT !.pc = "serve", !.ready = Ready] /\ Ready # {}
        BY <2>1 DEF PollReady
      <3>2. Ready \in SUBSET Pipes
        BY DEF Ready, Asked
      <3> QED
        BY <1>1, <3>1, <3>2 DEF SpawnRecord, Draining
    <2>2. CASE PollAgain
      BY <1>1, <2>2 DEF PollAgain, SpawnRecord, Draining
    <2>3. CASE ServeAgain
      BY <2>3, ServedIs DEF ServeAgain, Draining
    <2> QED
      BY <2>1, <2>2, <2>3
  <1>3. SidesHold(pipe') /\ kernel' \in [Pipes -> KernelRecord]
    BY <1>1 DEF PipesInv, PipeTypes, SidesHold
  <1>4. spawn'.pipeError = "none" =>
          \A p \in Outputs : pipe'[p].reading \/ (kernel'[p].bytes = 0 /\ ~kernel'[p].theirs)
    BY <1>1, <1>2 DEF PipesInv, Drained, BeforeEnd, Draining
  <1> QED
    BY <1>1, <1>2, <1>3, <1>4, RoundKeeps

\* A failure is the pipe's, and the call has it to report.
LEMMA FailStep ==
  ASSUME PipesInv, PollFails \/ ServeFails
  PROVE  PipesInv'
  <1>1. /\ spawn.pc \in Draining /\ UNCHANGED <<kernel, child>>
        /\ spawn \in SpawnRecord /\ SidesHold(pipe) /\ kernel \in [Pipes -> KernelRecord]
    BY DEF PollFails, ServeFails, Draining, PipesInv, PipeTypes, SidesHold
  <1>2. /\ spawn' \in SpawnRecord /\ spawn'.pc \in Draining
        /\ spawn'.pc = "serve" => spawn'.ready # {}
        /\ spawn'.error = spawn.error /\ spawn'.answer = spawn.answer
        /\ spawn'.buffered = spawn.buffered /\ spawn'.late = spawn.late
        /\ spawn'.pipeError = "EIO"
    <2>1. CASE PollFails
      BY <1>1, <2>1 DEF PollFails, SpawnRecord, Draining
    <2>2. CASE ServeFails
      <3>1. spawn' = [Served EXCEPT !.pipeError = "EIO"] /\ spawn.pc = "serve"
        BY <2>2 DEF ServeFails
      <3>2. PICK s : s = Served
        OBVIOUS
      <3> QED
        BY <3>1, <3>2, ServedIs DEF SpawnRecord, Draining
    <2> QED
      BY <2>1, <2>2
  <1>3. \A p \in Pipes : Failed(pipe[p]) \in PipeRecord /\ ~Failed(pipe[p]).reading /\ ~Failed(pipe[p]).writing
    BY <1>1 DEF SidesHold, PipeRecord, Failed
  <1>4. SidesHold(pipe')
    <2>1. CASE PollFails
      <3>1. pipe' = [p \in Pipes |-> Failed(pipe[p])]
        BY <2>1 DEF PollFails
      <3> QED
        BY <1>3, <3>1 DEF SidesHold
    <2>2. CASE ServeFails
      <3>1. pipe' = [pipe EXCEPT ![First] = Failed(pipe[First])]
        BY <2>2 DEF ServeFails
      <3> QED
        BY <1>1, <1>3, <3>1 DEF SidesHold
    <2> QED
      BY <2>1, <2>2
  <1> QED
    BY <1>1, <1>2, <1>4, RoundKeeps


\* Input is written: as much as the kernel's pipe takes.
LEMMA SendInputStep ==
  ASSUME PipesInv, SendInput
  PROVE  PipesInv'
  <1>1. /\ spawn.pc = "serve" /\ spawn' = Served /\ child' = child /\ pipe[First].writing
        /\ SidesHold(pipe) /\ kernel \in [Pipes -> KernelRecord]
    BY DEF SendInput, PipesInv, PipeTypes, SidesHold
  <1>2. First \in Pipes /\ First \notin Outputs
    BY <1>1, FirstIs, SpawnBounds DEF PipesInv, SidesHold
  <1>3. pipe[First].left \in Nat /\ kernel[First].bytes \in Nat
    BY <1>1, <1>2 DEF SidesHold, PipeRecord, KernelRecord
  <1>4. PICK l, b \in Nat : /\ pipe' = [pipe EXCEPT ![First].left = l]
                            /\ kernel' = [kernel EXCEPT ![First].bytes = b]
    <2>1. PICK n \in 1 .. pipe[First].left :
            /\ pipe' = [pipe EXCEPT ![First].left = pipe[First].left - n]
            /\ kernel' = [kernel EXCEPT ![First].bytes = kernel[First].bytes + n]
      BY DEF SendInput
    <2>2. pipe[First].left - n \in Nat /\ kernel[First].bytes + n \in Nat
      BY <1>3
    <2> QED
      BY <2>1, <2>2
  <1>5. SidesHold(pipe')
    BY <1>1, <1>4 DEF SidesHold, PipeRecord
  <1>6. kernel' \in [Pipes -> KernelRecord]
    BY <1>1, <1>4 DEF KernelRecord
  <1>7. \A p \in Pipes : kernel'[p].refused = kernel[p].refused /\ kernel'[p].ours = kernel[p].ours
    BY <1>1, <1>4 DEF KernelRecord
  <1>8. \A p \in Outputs : pipe'[p] = pipe[p] /\ kernel'[p] = kernel[p]
    BY <1>1, <1>2, <1>4, SpawnBounds DEF SidesHold
  <1>9. spawn'.pipeError = "none" =>
          \A p \in Outputs : pipe'[p].reading \/ (kernel'[p].bytes = 0 /\ ~kernel'[p].theirs)
    BY <1>1, <1>8, ServedIs DEF PipesInv, Drained, BeforeEnd
  <1> QED
    BY <1>1, <1>5, <1>6, <1>7, <1>9, ServedIs, RoundKeeps DEF Draining

\* A pipe is read to its end: no writer is left, and no byte.
LEMMA ReadEndStep ==
  ASSUME PipesInv, ReadEnd
  PROVE  PipesInv'
  <1>1. /\ spawn.pc = "serve" /\ spawn' = Served /\ UNCHANGED <<kernel, child>>
        /\ pipe' = [pipe EXCEPT ![First].reading = FALSE]
        /\ ~kernel[First].theirs /\ kernel[First].bytes = 0
        /\ SidesHold(pipe) /\ kernel \in [Pipes -> KernelRecord]
    BY DEF ReadEnd, AtEnd, Ended, PipesInv, PipeTypes, SidesHold
  <1>2. SidesHold(pipe')
    BY <1>1 DEF SidesHold, PipeRecord
  <1>3. \A p \in Pipes : p # First => pipe'[p] = pipe[p]
    BY <1>1 DEF SidesHold
  <1>4. spawn'.pipeError = "none" =>
          \A p \in Outputs : pipe'[p].reading \/ (kernel'[p].bytes = 0 /\ ~kernel'[p].theirs)
    BY <1>1, <1>3, SpawnBounds, ServedIs DEF PipesInv, Drained, BeforeEnd
  <1> QED
    BY <1>1, <1>2, <1>4, ServedIs, RoundKeeps DEF Draining

\* end(error): the child is killed, the call has its own error and the pipes are closed.
LEMMA EndStep ==
  ASSUME PipesInv, spawn.pc \in Draining, NEW e \in {"ETIMEDOUT", "ENOBUFS"},
         spawn' \in SpawnRecord, spawn'.pc = "ending", spawn'.error = e,
         spawn'.answer = spawn.answer, spawn'.late = spawn.late,
         e = "ETIMEDOUT" => spawn.late,
         e = "ENOBUFS" <=> spawn'.buffered > MaxBuffer,
         spawn'.buffered <= MaxBuffer + ReadBytes,
         child' = [child EXCEPT !.killed = TRUE],
         NEW k \in [Pipes -> KernelRecord], kernel' = Closed(k), pipe' = NewPipes
  PROVE  PipesInv'
  <1>1. child' \in ChildRecord
    BY DEF PipesInv, PipeTypes, ChildRecord
  <1>2. PipeTypes'
    BY <1>1, ClosedIs, NewPipesAre DEF PipeTypes
  <1>3. KilledFor'
    <2>1. spawn.answer = "none"
      BY DEF PipesInv, KilledFor, BeforeEnd, Draining
    <2> QED
      BY <2>1 DEF KilledFor, BeforeEnd, CutIsReported
  <1>4. Drained'
    BY DEF Drained, BeforeEnd, OutputIsWhole
  <1> QED
    BY <1>2, <1>3, <1>4 DEF PipesInv

\* Output is read and kept; once more than the limit is kept the drain ends for it.
LEMMA ReadOutputStep ==
  ASSUME PipesInv, ReadOutput
  PROVE  PipesInv'
  <1>1. PICK b, n : /\ b = kernel[First].bytes
                    /\ n = IF kernel[First].bytes < ReadBytes THEN kernel[First].bytes ELSE ReadBytes
    OBVIOUS
  <1>2. PICK s : s = IF spawn.limited THEN [Served EXCEPT !.buffered = Served.buffered + n] ELSE Served
    OBVIOUS
  <1>3. PICK k : k = [kernel EXCEPT ![First].bytes = b - n]
    OBVIOUS
  <1>4. /\ spawn.pc = "serve" /\ pipe[First].reading
        /\ IF s.buffered > MaxBuffer
           THEN /\ spawn' = [s EXCEPT !.error = "ENOBUFS", !.pc = "ending", !.ready = {}]
                /\ child' = [child EXCEPT !.killed = TRUE]
                /\ kernel' = Closed(k) /\ pipe' = NewPipes
           ELSE spawn' = s /\ kernel' = k /\ UNCHANGED <<pipe, child>>
    BY <1>1, <1>2, <1>3 DEF ReadOutput, Over, End, ClosePipes
  <1>5. First \in Pipes /\ kernel \in [Pipes -> KernelRecord] /\ SidesHold(pipe)
    BY <1>4, FirstIs DEF PipesInv, PipeTypes, SidesHold
  <1>6. b \in Nat /\ n \in Nat /\ b - n \in Nat /\ n <= ReadBytes
    <2>1. b \in Nat
      BY <1>1, <1>5 DEF KernelRecord
    <2> QED
      BY <1>1, <2>1, SpawnBounds
  <1>7. /\ k \in [Pipes -> KernelRecord]
        /\ \A p \in Pipes : /\ k[p].refused = kernel[p].refused /\ k[p].ours = kernel[p].ours
                            /\ p # First => k[p] = kernel[p]
    BY <1>3, <1>5, <1>6 DEF KernelRecord
  <1>8. spawn.buffered \in Nat /\ spawn.buffered <= MaxBuffer /\ spawn.error = "none"
    <2>1. spawn.error = "none" /\ ~(spawn.buffered > MaxBuffer)
      BY <1>4 DEF PipesInv, KilledFor, BeforeEnd
    <2>2. spawn.buffered \in Nat
      BY DEF PipesInv, PipeTypes, SpawnRecord
    <2> QED
      BY <2>1, <2>2, SpawnBounds
  <1>9. /\ s \in SpawnRecord /\ s.pc \in {"sweep", "serve"}
        /\ s.pc = "serve" => s.ready # {}
        /\ s.error = spawn.error /\ s.answer = spawn.answer /\ s.late = spawn.late
        /\ s.pipeError = spawn.pipeError
        /\ s.buffered \in {spawn.buffered, spawn.buffered + n}
    <2>1. PICK v : v = Served
      OBVIOUS
    <2>2. CASE spawn.limited
      <3>1. s = [v EXCEPT !.buffered = v.buffered + n]
        BY <1>2, <2>1, <2>2
      <3>2. v.buffered + n \in Nat
        BY <1>4, <1>6, <1>8, <2>1, ServedIs
      <3> QED
        BY <1>4, <2>1, <3>1, <3>2, ServedIs DEF SpawnRecord
    <2>3. CASE ~spawn.limited
      BY <1>2, <1>4, <2>3, ServedIs
    <2> QED
      BY <2>2, <2>3
  <1>10. s.buffered \in Nat /\ s.buffered <= MaxBuffer + ReadBytes
    BY <1>6, <1>8, <1>9, SpawnBounds
  <1>11. CASE s.buffered > MaxBuffer
    <2>1. spawn' = [s EXCEPT !.error = "ENOBUFS", !.pc = "ending", !.ready = {}]
      BY <1>4, <1>11
    <2>2. /\ spawn' \in SpawnRecord /\ spawn'.pc = "ending" /\ spawn'.error = "ENOBUFS"
          /\ spawn'.answer = spawn.answer /\ spawn'.late = spawn.late
          /\ spawn'.buffered = s.buffered
      BY <1>9, <2>1 DEF SpawnRecord
    <2> QED
      BY <1>4, <1>7, <1>10, <1>11, <2>2, EndStep DEF Draining
  <1>12. CASE ~(s.buffered > MaxBuffer)
    <2>1. spawn' = s /\ kernel' = k /\ UNCHANGED <<pipe, child>>
      BY <1>4, <1>12
    <2>2. PipeTypes'
      BY <1>7, <1>9, <2>1 DEF PipesInv, PipeTypes
    <2>3. KilledFor'
      <3>1. CutIsReported'
        BY <1>9, <1>10, <2>1 DEF CutIsReported
      <3>2. spawn'.error = "none" /\ spawn'.answer = "none" /\ ~child'.killed
        BY <1>4, <1>9, <2>1 DEF PipesInv, KilledFor, BeforeEnd
      <3> QED
        BY <1>10, <1>12, <2>1, <3>1, <3>2 DEF KilledFor
    <2>4. Drained'
      <3>1. BeforeEnd' /\ spawn'.pc # "idle"
        BY <1>9, <2>1 DEF BeforeEnd
      <3>2. \A p \in Pipes : ~kernel'[p].refused /\ kernel'[p].ours
        BY <1>4, <1>7, <2>1 DEF PipesInv, Drained, BeforeEnd
      <3>3. spawn'.pipeError = "none" =>
              \A p \in Outputs : pipe'[p].reading \/ (kernel'[p].bytes = 0 /\ ~kernel'[p].theirs)
        BY <1>4, <1>7, <1>9, <2>1, SpawnBounds DEF PipesInv, Drained, BeforeEnd
      <3> QED
        BY <3>1, <3>2, <3>3, DrainedKept
    <2> QED
      BY <2>2, <2>3, <2>4 DEF PipesInv
  <1> QED
    BY <1>11, <1>12


\* Shutting down what is sent ends the writing, and no pipe's reading but a failed one's.
LEMMA ShutDownIs ==
  ASSUME SidesHold(pipe), NEW bad \in {{}, Sent}
  PROVE  /\ SidesHold(ShutDown(bad))
         /\ bad = {} => \A p \in Pipes : ShutDown(bad)[p].reading = pipe[p].reading
  <1>1. ASSUME NEW p \in Pipes, p \in bad
        PROVE  ShutDown(bad)[p] \in PipeRecord /\ ~ShutDown(bad)[p].reading /\ ~ShutDown(bad)[p].writing
    <2>1. ShutDown(bad)[p] = [pipe[p] EXCEPT !.reading = FALSE, !.writing = FALSE]
      BY <1>1 DEF ShutDown, Failed
    <2> QED
      BY <2>1 DEF SidesHold, PipeRecord
  <1>2. ASSUME NEW p \in Pipes, p \notin bad
        PROVE  /\ ShutDown(bad)[p] \in PipeRecord /\ ShutDown(bad)[p].reading = pipe[p].reading
               /\ ShutDown(bad)[p].writing => pipe[p].writing
    <2>1. PICK w : w = (pipe[p].writing /\ p \notin Sent)
      OBVIOUS
    <2>2. w \in BOOLEAN /\ (w => pipe[p].writing)
      BY <2>1
    <2>3. ShutDown(bad)[p] = [pipe[p] EXCEPT !.writing = w]
      BY <1>2, <2>1 DEF ShutDown
    <2>4. pipe[p] \in PipeRecord
      BY DEF SidesHold
    <2> QED
      BY <2>2, <2>3, <2>4 DEF PipeRecord
  <1>3. ShutDown(bad) = [p \in Pipes |-> ShutDown(bad)[p]]
    BY DEF ShutDown
  <1>4. ShutDown(bad) \in [Pipes -> PipeRecord]
    BY <1>1, <1>2, <1>3
  <1>5. \A p \in Pipes : /\ ShutDown(bad)[p].reading => p \in Outputs
                         /\ ShutDown(bad)[p].writing => p \in Inputs
    BY <1>1, <1>2 DEF SidesHold
  <1> QED
    BY <1>2, <1>4, <1>5 DEF SidesHold

\* The head of the drain's loop: ends closed, inputs shut down, and the loop left.
LEMMA SweepStep ==
  ASSUME PipesInv, Sweep
  PROVE  PipesInv'
  <1>1. PICK bad \in {{}, Sent} :
          LET ps == ShutDown(bad)
              s == [spawn EXCEPT !.pipeError = IF bad = {} THEN @ ELSE "EIO"]
              shut == [p \in Pipes |-> [kernel[p] EXCEPT !.shut = @ \/ p \in Sent \ bad]]
          IN \/ Asked(ps) = {} /\ Finish(s) /\ ClosePipes(kernel)
             \/ Asked(ps) # {} /\ spawn.late /\ End(s, "ETIMEDOUT") /\ ClosePipes(kernel)
             \/ /\ Asked(ps) # {} /\ ~spawn.late
                /\ spawn' = [s EXCEPT !.pc = "poll"]
                /\ pipe' = ps /\ kernel' = shut
                /\ UNCHANGED child
    BY DEF Sweep
  <1>2. PICK ps, s, shut :
          /\ ps = ShutDown(bad)
          /\ s = [spawn EXCEPT !.pipeError = IF bad = {} THEN spawn.pipeError ELSE "EIO"]
          /\ shut = [p \in Pipes |-> [kernel[p] EXCEPT !.shut = kernel[p].shut \/ p \in Sent \ bad]]
    OBVIOUS
  <1>3. \/ Asked(ps) = {} /\ Finish(s) /\ ClosePipes(kernel)
        \/ Asked(ps) # {} /\ spawn.late /\ End(s, "ETIMEDOUT") /\ ClosePipes(kernel)
        \/ /\ spawn' = [s EXCEPT !.pc = "poll"]
           /\ pipe' = ps /\ kernel' = shut
           /\ UNCHANGED child
    BY <1>1, <1>2
  <1>4. /\ spawn.pc = "sweep" /\ spawn \in SpawnRecord /\ SidesHold(pipe)
        /\ kernel \in [Pipes -> KernelRecord] /\ child \in ChildRecord
    BY DEF Sweep, PipesInv, PipeTypes, SidesHold
  <1>5. /\ SidesHold(ps)
        /\ bad = {} => \A p \in Pipes : ps[p].reading = pipe[p].reading
    BY <1>2, <1>4, ShutDownIs
  <1>6. /\ s \in SpawnRecord /\ s.pc = "sweep" /\ s.error = spawn.error /\ s.answer = spawn.answer
        /\ s.buffered = spawn.buffered /\ s.late = spawn.late
        /\ s.pipeError = "none" => bad = {} /\ spawn.pipeError = "none"
    BY <1>2, <1>4 DEF SpawnRecord
  <1>7. /\ spawn.error = "none" /\ spawn.answer = "none" /\ ~child.killed
        /\ ~(spawn.buffered > MaxBuffer) /\ spawn.buffered <= MaxBuffer + ReadBytes
        /\ \A p \in Pipes : ~kernel[p].refused /\ kernel[p].ours
        /\ spawn.pipeError = "none" =>
             \A p \in Outputs : pipe[p].reading \/ (kernel[p].bytes = 0 /\ ~kernel[p].theirs)
    BY <1>4 DEF PipesInv, KilledFor, Drained, BeforeEnd
  <1>8. CASE Asked(ps) = {} /\ Finish(s) /\ ClosePipes(kernel)
    <2>1. /\ spawn' = [s EXCEPT !.pc = "ending"] /\ child' = child
          /\ kernel' = Closed(kernel) /\ pipe' = NewPipes
      BY <1>8 DEF Finish, ClosePipes
    <2>2. /\ spawn' \in SpawnRecord /\ spawn'.pc = "ending" /\ spawn'.error = spawn.error
          /\ spawn'.answer = spawn.answer /\ spawn'.buffered = spawn.buffered
          /\ spawn'.late = spawn.late /\ spawn'.pipeError = s.pipeError
      BY <1>6, <2>1 DEF SpawnRecord
    <2>3. PipeTypes'
      BY <1>4, <2>1, <2>2, ClosedIs, NewPipesAre DEF PipeTypes
    <2>4. KilledFor'
      BY <1>4, <2>1, <2>2, KilledKept DEF BeforeEnd
    <2>5. Drained'
      <3> SUFFICES ASSUME s.pipeError = "none", NEW p \in Outputs
                   PROVE  kernel'[p].bytes = 0 /\ ~kernel'[p].theirs /\ ~kernel'[p].refused
        BY <2>2 DEF Drained, BeforeEnd, OutputIsWhole
      <3>1. p \in Pipes /\ ~ps[p].reading
        BY <1>8, SpawnBounds DEF Asked
      <3>2. kernel[p].bytes = 0 /\ ~kernel[p].theirs /\ ~kernel[p].refused
        BY <1>5, <1>6, <1>7, <3>1
      <3> QED
        BY <1>4, <2>1, <3>1, <3>2, ClosedIs
    <2> QED
      BY <2>3, <2>4, <2>5 DEF PipesInv
  <1>9. CASE Asked(ps) # {} /\ spawn.late /\ End(s, "ETIMEDOUT") /\ ClosePipes(kernel)
    <2>1. /\ spawn' = [s EXCEPT !.error = "ETIMEDOUT", !.pc = "ending", !.ready = {}]
          /\ child' = [child EXCEPT !.killed = TRUE]
          /\ kernel' = Closed(kernel) /\ pipe' = NewPipes
      BY <1>9 DEF End, ClosePipes
    <2>2. /\ spawn' \in SpawnRecord /\ spawn'.pc = "ending" /\ spawn'.error = "ETIMEDOUT"
          /\ spawn'.answer = spawn.answer /\ spawn'.buffered = spawn.buffered
          /\ spawn'.late = spawn.late
      BY <1>6, <2>1 DEF SpawnRecord
    <2> QED
      BY <1>4, <1>7, <1>9, <2>1, <2>2, EndStep DEF Draining
  <1>10. CASE /\ spawn' = [s EXCEPT !.pc = "poll"]
              /\ pipe' = ps /\ kernel' = shut
              /\ UNCHANGED child
    <2>1. /\ spawn' \in SpawnRecord /\ spawn'.pc = "poll" /\ spawn'.error = spawn.error
          /\ spawn'.answer = spawn.answer /\ spawn'.buffered = spawn.buffered
          /\ spawn'.late = spawn.late /\ spawn'.pipeError = s.pipeError
      BY <1>6, <1>10 DEF SpawnRecord
    <2>2. /\ shut \in [Pipes -> KernelRecord]
          /\ \A p \in Pipes : /\ shut[p].refused = kernel[p].refused /\ shut[p].ours = kernel[p].ours
                              /\ shut[p].bytes = kernel[p].bytes /\ shut[p].theirs = kernel[p].theirs
      BY <1>2, <1>4 DEF KernelRecord
    <2>3. spawn'.pipeError = "none" =>
            \A p \in Outputs : pipe'[p].reading \/ (kernel'[p].bytes = 0 /\ ~kernel'[p].theirs)
      BY <1>5, <1>6, <1>7, <1>10, <2>1, <2>2, SpawnBounds
    <2> QED
      BY <1>4, <1>5, <1>10, <2>1, <2>2, <2>3, RoundKeeps DEF Draining
  <1> QED
    BY <1>3, <1>8, <1>9, <1>10


----------------------------------------------------------------------------
(* The child                                                                *)

\* Only who has a pipe's end open writes to it: one read to its end stays empty.
LEMMA ChildStepKeeps ==
  ASSUME PipesInv, ChildStep, spawn.pc # "returned"
  PROVE  PipesInv'
  <1>1. /\ UNCHANGED <<spawn, pipe>> /\ spawn \in SpawnRecord
        /\ kernel \in [Pipes -> KernelRecord] /\ child \in ChildRecord
    BY DEF ChildStep, ChildWrites, ChildReads, ChildCloses, ChildEnds, PipesInv, PipeTypes
  <1>2. child' \in ChildRecord /\ child'.killed = child.killed
    BY <1>1 DEF ChildStep, ChildWrites, ChildReads, ChildCloses, ChildEnds, ChildRecord
  <1>3. /\ kernel' \in [Pipes -> KernelRecord]
        /\ \A p \in Pipes : /\ kernel'[p].ours = kernel[p].ours
                            /\ kernel'[p].theirs => kernel[p].theirs
                            /\ ~kernel[p].theirs => /\ kernel'[p].refused = kernel[p].refused
                                                    /\ p \in Outputs => kernel'[p].bytes = kernel[p].bytes
                            /\ kernel[p].ours => kernel'[p].refused = kernel[p].refused
    <2>1. CASE ChildWrites
      <3>1. PICK q \in Outputs :
              /\ kernel[q].theirs
              /\ \/ kernel[q].ours /\ kernel' = [kernel EXCEPT ![q].bytes = kernel[q].bytes + 1]
                 \/ ~kernel[q].ours /\ kernel' = [kernel EXCEPT ![q].refused = TRUE]
        BY <2>1 DEF ChildWrites
      <3>2. q \in Pipes /\ kernel[q].bytes + 1 \in Nat
        BY <1>1, SpawnBounds DEF KernelRecord
      <3>3. CASE kernel[q].ours /\ kernel' = [kernel EXCEPT ![q].bytes = kernel[q].bytes + 1]
        BY <1>1, <3>1, <3>2, <3>3 DEF KernelRecord
      <3>4. CASE ~kernel[q].ours /\ kernel' = [kernel EXCEPT ![q].refused = TRUE]
        BY <1>1, <3>1, <3>2, <3>4 DEF KernelRecord
      <3> QED
        BY <3>1, <3>3, <3>4
    <2>2. CASE ChildReads
      <3>1. PICK q \in Inputs : kernel[q].bytes > 0 /\ kernel' = [kernel EXCEPT ![q].bytes = kernel[q].bytes - 1]
        BY <2>2 DEF ChildReads
      <3>2. q \in Pipes /\ q \notin Outputs /\ kernel[q].bytes - 1 \in Nat
        <4>1. q \in Pipes /\ q \notin Outputs
          BY SpawnBounds
        <4>2. kernel[q].bytes \in Nat
          BY <1>1, <4>1 DEF KernelRecord
        <4> QED
          BY <3>1, <4>1, <4>2
      <3> QED
        BY <1>1, <3>1, <3>2 DEF KernelRecord
    <2>3. CASE ChildCloses
      <3>1. PICK q \in Pipes : kernel' = [kernel EXCEPT ![q].theirs = FALSE]
        BY <2>3 DEF ChildCloses
      <3> QED
        BY <1>1, <3>1 DEF KernelRecord
    <2>4. CASE ChildEnds
      BY <1>1, <2>4 DEF ChildEnds
    <2> QED
      BY <2>1, <2>2, <2>3, <2>4 DEF ChildStep
  <1>4. PipeTypes'
    BY <1>1, <1>2, <1>3 DEF PipesInv, PipeTypes
  <1>5. KilledFor'
    BY <1>1, <1>2, KilledKept DEF BeforeEnd
  <1>6. Drained'
    <2>1. spawn.pc = "idle" => \A p \in Pipes : ~kernel[p].theirs /\ ~kernel'[p].theirs
      BY <1>3 DEF PipesInv, Drained
    <2>2. spawn.pc = "idle" => \A p \in Outputs : pipe'[p].reading
      BY <1>1 DEF PipesInv, Drained
    <2>3. BeforeEnd => \A p \in Pipes : ~kernel'[p].refused /\ (kernel'[p].ours \/ spawn.pc = "idle")
      <3> SUFFICES ASSUME BeforeEnd, NEW p \in Pipes
                   PROVE  ~kernel'[p].refused /\ (kernel'[p].ours \/ spawn.pc = "idle")
        OBVIOUS
      <3>1. ~kernel[p].refused /\ (kernel[p].ours \/ spawn.pc = "idle")
        BY DEF PipesInv, Drained
      <3> QED
        BY <1>3, <2>1, <3>1
    <2>4. BeforeEnd /\ spawn.pipeError = "none" =>
            \A p \in Outputs : pipe'[p].reading \/ (kernel'[p].bytes = 0 /\ ~kernel'[p].theirs)
      BY <1>1, <1>3, SpawnBounds DEF PipesInv, Drained
    <2>5. spawn.pc = "ending" /\ spawn.error = "none" /\ spawn.pipeError = "none" =>
            \A p \in Outputs : kernel'[p].bytes = 0 /\ ~kernel'[p].theirs /\ ~kernel'[p].refused
      BY <1>3, SpawnBounds DEF PipesInv, Drained
    <2> QED
      BY <1>1, <2>1, <2>2, <2>3, <2>4, <2>5 DEF Drained, BeforeEnd, OutputIsWhole
  <1> QED
    BY <1>4, <1>5, <1>6 DEF PipesInv

\* Every step keeps the pipes' invariant.
LEMMA PipesStep == PipesInv /\ [SpawnNext]_spawnVars => PipesInv'
  <1> SUFFICES ASSUME PipesInv, [SpawnNext]_spawnVars
               PROVE  PipesInv'
    OBVIOUS
  <1>1. CASE UNCHANGED pipeVars
    BY <1>1 DEF pipeVars, PipesInv, PipeTypes, KilledFor, Drained, BeforeEnd, CutIsReported,
                OutputIsWhole
  <1>2. CASE DrainStep
    BY <1>2, SweepStep, PollStep, FailStep, SendInputStep, ReadEndStep, ReadOutputStep
       DEF DrainStep, Transfer
  <1>3. CASE HostStep
    BY <1>3, ForkStep, ForkFailsStep, HostStartsStep, HostRefusesStep, HostKillsStep,
       HostAnswersStep, TimePassesStep DEF HostStep
  <1>4. CASE spawn.pc # "returned" /\ ChildStep
    BY <1>4, ChildStepKeeps
  <1> QED
    BY <1>1, <1>2, <1>3, <1>4 DEF SpawnNext, PipesNext, spawnVars

\* It holds always.
LEMMA PipesHold == SpawnSpec => []PipesInv
  <1>1. SpawnInit => PipesInv
    BY PipesStart DEF SpawnInit
  <1> QED
    BY <1>1, PipesStep, PTL DEF SpawnSpec

\* A spawn that reports no error has everything its child wrote: nothing is left in
\* a pipe and nothing was refused, for any number of pipes, any sizes of pipe and read,
\* and however the child, its descendants and the drain take turns.
THEOREM NothingLost == SpawnSpec => []OutputIsWhole
  <1>1. PipesInv => OutputIsWhole
    BY DEF PipesInv, Drained
  <1> QED
    BY <1>1, PipesHold, PTL

\* A child that was killed is reported as killed for its time or its output, and no
\* spawn keeps more than maxBuffer and one read.
THEOREM CutsReported == SpawnSpec => []CutIsReported
  <1>1. PipesInv => CutIsReported
    BY DEF PipesInv, KilledFor
  <1> QED
    BY <1>1, PipesHold, PTL


----------------------------------------------------------------------------
(* The thread's route: where a message is between the two windows            *)

Active == call.pc \notin {"idle", "starting"}

\* The caller waits for a part, or is about to: its answer, if it gave one, is taken.
Listening == \/ call.pc \in {"reading", "waiting", "woken"}
             \/ call.pc = "answering" /\ call.at = call.parts

PartsOf(t, k, n, m) == [i \in 1 .. m |-> Part(t, k, n, i)]
Said(m) == PartsOf(thread.job.t, thread.job.k, thread.job.parts, m)
Answer(m) == PartsOf("answer", 0, call.parts, m)
Messages == {"begin", "out", "fs", "done", "failed"}
Holds(window, t, k, n, i) == window = [word |-> Word(i, n), part |-> Part(t, k, n, i)]

\* What is so whoever serves whom.
ThreadTypes ==
  /\ service \in BOOLEAN /\ abandoned \in BOOLEAN
  /\ DOMAIN thread = {"alive", "started", "inbox", "running", "job"}
  /\ DOMAIN thread.job = {"k", "t", "parts", "at", "phase", "got"}
  /\ DOMAIN call = {"pc", "k", "got", "parts", "at", "result", "expired"}
  /\ DOMAIN toParent = {"word", "part"} /\ DOMAIN toThread = {"word", "part"}
  /\ call.parts \in Nat /\ call.at \in Nat
  /\ ~service => ~abandoned
  /\ ~Active => call.got = << >>
  /\ call.pc # "idle" => call.result = 0 /\ service

\* The thread says nothing.
Silent == /\ thread.job.phase = "free" /\ toParent.word = 0 /\ toThread.word = 0
          /\ call.got = << >> /\ (Active => Listening)

\* A message of the caller's own child is on its way: the next part is to be put,
\* is in the window, or is taken with more to follow.
Speaking ==
  LET j == thread.job IN
  /\ j.k = call.k /\ j.parts \in Nat /\ j.at \in 1 .. j.parts /\ j.t \in Messages /\ j.got = << >>
  /\ toThread.word = 0
  /\ \/ /\ j.phase = "put" /\ toParent.word = 0
        /\ Listening /\ call.got = Said(j.at - 1)
     \/ /\ j.phase \in {"notify", "wait"} /\ Holds(toParent, j.t, j.k, j.parts, j.at)
        /\ \/ Listening /\ call.got = Said(j.at - 1)
           \/ call.pc = "copied" /\ call.got = Said(j.at)
     \/ /\ j.phase \in {"notify", "wait"} /\ toParent.word = 0 /\ j.at < j.parts
        /\ Listening /\ call.got = Said(j.at)

\* The whole of it is taken, the thread has yet to see that; of a child's end the
\* call it was for has returned, and another may have begun.
Told ==
  LET j == thread.job IN
  /\ j.phase \in {"notify", "wait"} /\ j.parts \in Nat /\ j.at = j.parts /\ j.got = << >>
  /\ toParent.word = 0 /\ toThread.word = 0 /\ call.got = << >>
  /\ \/ j.t \in {"begin", "out"} /\ Listening
     \/ j.t \in {"done", "failed"} /\ (Active => Listening)

\* The tree's answer crosses the other way.
Answering ==
  LET j == thread.job
      holds == Holds(toThread, "answer", 0, call.parts, call.at) IN
  /\ j.t = "fs" /\ j.parts \in Nat /\ toParent.word = 0 /\ call.got = << >> /\ call.at \in 1 .. call.parts
  /\ \/ /\ j.phase \in {"notify", "wait"} /\ j.at = j.parts /\ j.got = << >> /\ call.at = 1
        /\ \/ call.pc = "answer" /\ toThread.word = 0
           \/ call.pc = "answering" /\ holds
     \/ /\ j.phase = "receive" /\ j.got = Answer(call.at - 1)
        /\ \/ call.pc = "answer" /\ toThread.word = 0
           \/ call.pc = "answering" /\ holds
     \/ /\ j.phase = "receive" /\ call.pc = "answering" /\ toThread.word = 0
        /\ call.at < call.parts /\ j.got = Answer(call.at)
     \/ /\ j.phase = "ack" /\ call.pc = "answering" /\ holds /\ j.got = Answer(call.at)

\* An end that was told and taken, the child still counted as running.
LastWord == Told /\ thread.job.t \in {"done", "failed"}

\* No child runs but the call's own, and it is asked for once.
OwnChild ==
  /\ thread.inbox # << >> =>
       /\ thread.inbox = <<call.k>> /\ Active
       /\ LastWord \/ (Silent /\ thread.running = {})
  /\ IF LastWord THEN thread.running \subseteq {thread.job.k}
     ELSE thread.running \subseteq {call.k} /\ (thread.running # {} => Active)

InTurn == /\ Silent \/ Speaking \/ Told \/ Answering
          /\ thread.job.phase = "free" <=> thread.job = NoJob
          /\ OwnChild
          /\ call.result \in {0, call.k}

ThreadInv == ThreadTypes /\ (abandoned \/ InTurn)

\* A sequence of a message's parts grows by the next of them.
LEMMA PartsGrow ==
  ASSUME NEW t, NEW k, NEW n, NEW m \in Nat
  PROVE  /\ PartsOf(t, k, n, 0) = << >>
         /\ Append(PartsOf(t, k, n, m), Part(t, k, n, m + 1)) = PartsOf(t, k, n, m + 1)
         /\ Len(PartsOf(t, k, n, m)) = m
  <1>1. PICK S : S = {Part(t, k, n, i) : i \in Nat}
    OBVIOUS
  <1>2. /\ PartsOf(t, k, n, m) \in Seq(S) /\ Len(PartsOf(t, k, n, m)) = m
        /\ PartsOf(t, k, n, m + 1) \in Seq(S) /\ Len(PartsOf(t, k, n, m + 1)) = m + 1
    BY <1>1 DEF PartsOf
  <1>3. /\ Append(PartsOf(t, k, n, m), Part(t, k, n, m + 1)) \in Seq(S)
        /\ Len(Append(PartsOf(t, k, n, m), Part(t, k, n, m + 1))) = m + 1
    BY <1>1, <1>2
  <1>4. ASSUME NEW i \in 1 .. m + 1
        PROVE  Append(PartsOf(t, k, n, m), Part(t, k, n, m + 1))[i] = PartsOf(t, k, n, m + 1)[i]
    <2>1. CASE i = m + 1
      <3>1. Append(PartsOf(t, k, n, m), Part(t, k, n, m + 1))[m + 1] = Part(t, k, n, m + 1)
        BY <1>2
      <3>2. PartsOf(t, k, n, m + 1)[m + 1] = Part(t, k, n, m + 1)
        BY DEF PartsOf
      <3> QED
        BY <2>1, <3>1, <3>2
    <2>2. CASE i \in 1 .. m
      BY <1>2, <2>2 DEF PartsOf
    <2>3. i = m + 1 \/ i \in 1 .. m
      OBVIOUS
    <2> QED
      BY <2>1, <2>2, <2>3
  <1>5. PartsOf(t, k, n, 0) = << >>
    BY DEF PartsOf
  <1> QED
    BY <1>2, <1>3, <1>4, <1>5

\* The word of a part says whether more follow.
LEMMA WordIs ==
  ASSUME NEW n \in Nat, NEW i \in 1 .. n
  PROVE  /\ Word(i, n) # 0
         /\ Word(i, n) = 2 <=> i < n
         /\ Word(i, n) = 1 <=> i = n
  BY DEF Word

\* No thread has been started at first.
LEMMA ThreadStart == ThreadInit => ThreadInv
  <1> SUFFICES ASSUME ThreadInit
               PROVE  ThreadInv
    OBVIOUS
  <1>1. /\ call.pc = "idle" /\ call.got = << >> /\ call.result = 0 /\ ~abandoned /\ ~service
        /\ thread.job = NoJob /\ thread.inbox = << >> /\ thread.running = {}
        /\ toParent.word = 0 /\ toThread.word = 0
    BY DEF ThreadInit, NoThread, NewThread, Empty
  <1>2. ThreadTypes
    BY <1>1 DEF ThreadInit, ThreadTypes, NoThread, NewThread, NoJob, Empty
  <1>3. NoJob.phase = "free"
    BY DEF NoJob
  <1>4. Silent /\ ~LastWord
    BY <1>1, <1>3 DEF Silent, Active, LastWord, Told
  <1> QED
    BY <1>1, <1>2, <1>3, <1>4 DEF ThreadInv, InTurn, OwnChild

\* Where the windows, the job, the queue and the caller's place stay, so does the turn.
LEMMA TurnKept ==
  ASSUME InTurn, UNCHANGED <<toParent, toThread>>, thread'.job = thread.job,
         thread'.inbox = thread.inbox, thread'.running = thread.running,
         Active' <=> Active, Listening' <=> Listening,
         call'.pc = "copied" <=> call.pc = "copied",
         call'.pc = "answer" <=> call.pc = "answer",
         call'.pc = "answering" <=> call.pc = "answering",
         call'.k = call.k, call'.got = call.got, call'.result = call.result,
         call'.at = call.at, call'.parts = call.parts
  PROVE  InTurn'
  <1>1. \A m : Said(m)' = Said(m) /\ Answer(m)' = Answer(m)
    BY DEF Said, Answer
  <1>2. (Silent' <=> Silent) /\ (Told' <=> Told)
    BY DEF Silent, Told
  <1>3. LastWord' <=> LastWord
    BY <1>2 DEF LastWord
  <1>4. OwnChild'
    BY <1>2, <1>3 DEF InTurn, OwnChild
  <1>5. Speaking => Speaking'
    BY <1>1 DEF Speaking, Holds
  <1>6. Answering => Answering'
    BY <1>1 DEF Answering, Holds
  <1> QED
    BY <1>2, <1>4, <1>5, <1>6 DEF InTurn


\* The thread's steps leave the caller's record but for a wake.
LEMMA ThreadTypesKept ==
  ASSUME ThreadTypes, UNCHANGED <<service, abandoned>>,
         DOMAIN thread' = DOMAIN thread, DOMAIN thread'.job = DOMAIN thread.job,
         DOMAIN toParent' = DOMAIN toParent, DOMAIN toThread' = DOMAIN toThread,
         call' = call
  PROVE  ThreadTypes'
  BY DEF ThreadTypes, Active

\* A thread with nothing to do.
LEMMA NoJobIs == /\ DOMAIN NoJob = {"k", "t", "parts", "at", "phase", "got"}
                 /\ NoJob.phase = "free"
  BY DEF NoJob

\* A message the thread has begun to send.
LEMMA SendingIs ==
  ASSUME NEW k, NEW t, NEW n
  PROVE  LET j == Sending(k, t, n)
         IN  /\ DOMAIN j = {"k", "t", "parts", "at", "phase", "got"}
             /\ j.k = k /\ j.t = t /\ j.parts = n /\ j.at = 1 /\ j.phase = "put" /\ j.got = << >>
             /\ j # NoJob
  BY DEF Sending, NoJob

\* A message begins: the caller, whose child it is, has none of it yet.
LEMMA Begins ==
  ASSUME ThreadTypes, InTurn, thread.job = NoJob, Active,
         UNCHANGED <<toParent, toThread, call>>,
         NEW t \in Messages, NEW n \in Nat \ {0}, thread'.job = Sending(call.k, t, n),
         thread'.inbox = << >>, thread'.running \subseteq {call.k}
  PROVE  InTurn'
  <1>1. /\ thread'.job.k = call.k /\ thread'.job.t = t /\ thread'.job.parts = n
        /\ thread'.job.at = 1 /\ thread'.job.phase = "put" /\ thread'.job.got = << >>
        /\ thread'.job # NoJob
    BY SendingIs
  <1>2. Silent
    BY NoJobIs DEF InTurn, Speaking, Told, Answering
  <1>3. Listening' /\ Active' /\ toParent'.word = 0 /\ toThread'.word = 0 /\ call'.got = << >>
    BY <1>2 DEF Silent, Active, Listening
  <1>4. Said(0)' = << >>
    BY PartsGrow DEF Said
  <1>5. Speaking'
    BY <1>1, <1>3, <1>4 DEF Speaking
  <1>6. ~LastWord'
    BY <1>1 DEF LastWord, Told
  <1> QED
    BY <1>1, <1>3, <1>5, <1>6 DEF InTurn, OwnChild

\* The thread takes up a run.
LEMMA TakeRunTurn ==
  ASSUME ThreadInv, ~abandoned, TakeRun
  PROVE  InTurn'
  <1>1. /\ thread.job = NoJob /\ thread.inbox # << >> /\ InTurn /\ ThreadTypes
        /\ UNCHANGED <<toParent, toThread, call>>
        /\ thread' = [thread EXCEPT !.inbox = Tail(thread.inbox),
                                    !.running = thread.running \cup {Head(thread.inbox)},
                                    !.job = Sending(Head(thread.inbox), "begin", 1)]
    BY DEF TakeRun, Free, ThreadInv
  <1>2. ~LastWord
    BY <1>1, NoJobIs DEF LastWord, Told
  <1>3. thread.inbox = <<call.k>> /\ Active /\ thread.running = {}
    BY <1>1, <1>2 DEF InTurn, OwnChild
  <1>4. /\ thread'.inbox = Tail(thread.inbox) /\ thread'.running = thread.running \cup {Head(thread.inbox)}
        /\ thread'.job = Sending(Head(thread.inbox), "begin", 1)
    BY <1>1 DEF ThreadTypes
  <1>5. Head(thread.inbox) = call.k /\ Tail(thread.inbox) = << >>
    BY <1>3
  <1> QED
    BY <1>1, <1>3, <1>4, <1>5, Begins DEF Messages

\* The child says something: the thread cuts it into parts.
LEMMA ChildSaysTurn ==
  ASSUME ThreadInv, ~abandoned, NEW t \in {"fs", "out", "done", "failed"}, ChildSays(t)
  PROVE  InTurn'
  <1>1. PICK k \in thread.running, n \in Parts : thread' = [thread EXCEPT !.job = Sending(k, t, n)]
    BY DEF ChildSays, Job
  <1>2. /\ thread.job = NoJob /\ InTurn /\ ThreadTypes /\ UNCHANGED <<toParent, toThread, call>>
    BY DEF ChildSays, Job, Free, ThreadInv
  <1>3. ~LastWord
    BY <1>2, NoJobIs DEF LastWord, Told
  <1>4. k = call.k /\ Active /\ thread.running \subseteq {call.k} /\ thread.inbox = << >>
    BY <1>2, <1>3 DEF InTurn, OwnChild
  <1>5. thread'.inbox = thread.inbox /\ thread'.running = thread.running /\ thread'.job = Sending(k, t, n)
    BY <1>1, <1>2 DEF ThreadTypes
  <1>6. n \in Nat \ {0}
    BY SyncThreadBounds DEF Parts
  <1> QED
    BY <1>2, <1>4, <1>5, <1>6, Begins DEF Messages

\* A part is put into the window, and its word set.
LEMMA PutPartTurn ==
  ASSUME ThreadInv, ~abandoned, PutPart
  PROVE  InTurn'
  <1>1. PICK j : j = thread.job
    OBVIOUS
  <1>2. /\ j.phase = "put" /\ InTurn /\ ThreadTypes
        /\ toParent' = [word |-> Word(j.at, j.parts), part |-> Part(j.t, j.k, j.parts, j.at)]
        /\ thread' = [thread EXCEPT !.job = [j EXCEPT !.phase = "notify"]]
        /\ UNCHANGED <<toThread, call>>
    BY <1>1 DEF PutPart, Job, ThreadInv
  <1>3. /\ thread'.job = [j EXCEPT !.phase = "notify"] /\ thread'.inbox = thread.inbox
        /\ thread'.running = thread.running
    BY <1>2 DEF ThreadTypes
  <1>4. /\ thread'.job.k = j.k /\ thread'.job.t = j.t /\ thread'.job.parts = j.parts
        /\ thread'.job.at = j.at /\ thread'.job.phase = "notify" /\ thread'.job.got = j.got
    BY <1>1, <1>2, <1>3 DEF ThreadTypes
  <1>5. Speaking /\ ~LastWord
    BY <1>1, <1>2 DEF InTurn, Silent, Told, Answering, LastWord
  <1>6. /\ j.k = call.k /\ j.parts \in Nat /\ j.at \in 1 .. j.parts /\ j.t \in Messages
        /\ j.got = << >> /\ toThread.word = 0 /\ Listening /\ call.got = Said(j.at - 1)
    BY <1>1, <1>2, <1>5 DEF Speaking
  <1>7. Speaking'
    <2>1. Said(j.at - 1)' = Said(j.at - 1)
      BY <1>1, <1>4 DEF Said
    <2>2. Listening'
      BY <1>2, <1>6 DEF Listening
    <2> QED
      BY <1>2, <1>4, <1>6, <2>1, <2>2 DEF Speaking, Holds
  <1>8. toParent'.word # 0
    BY <1>2, <1>6, WordIs
  <1>9. ~LastWord' /\ ~Silent
    BY <1>1, <1>2, <1>8 DEF LastWord, Told, Silent
  <1>10. OwnChild'
    BY <1>2, <1>3, <1>5, <1>9 DEF InTurn, OwnChild, Active
  <1> QED
    BY <1>2, <1>4, <1>7, <1>10, NoJobIs DEF InTurn


\* The notify that follows: the caller wakes if it sleeps.
LEMMA NotifyCallerTurn ==
  ASSUME ThreadInv, ~abandoned, NotifyCaller
  PROVE  InTurn' /\ ThreadTypes'
  <1>1. PICK j, pc : j = thread.job /\ pc = IF call.pc = "waiting" THEN "woken" ELSE call.pc
    OBVIOUS
  <1>2. /\ j.phase = "notify" /\ InTurn /\ ThreadTypes
        /\ thread' = [thread EXCEPT !.job = [j EXCEPT !.phase = "wait"]]
        /\ call' = [call EXCEPT !.pc = pc]
        /\ UNCHANGED <<toParent, toThread, service, abandoned>>
    BY <1>1 DEF NotifyCaller, ThreadInv
  <1>3. /\ thread'.job = [j EXCEPT !.phase = "wait"] /\ thread'.inbox = thread.inbox
        /\ thread'.running = thread.running /\ DOMAIN thread' = DOMAIN thread
        /\ DOMAIN thread'.job = DOMAIN thread.job
    BY <1>1, <1>2 DEF ThreadTypes
  <1>4. /\ thread'.job.k = j.k /\ thread'.job.t = j.t /\ thread'.job.parts = j.parts
        /\ thread'.job.at = j.at /\ thread'.job.phase = "wait" /\ thread'.job.got = j.got
    BY <1>1, <1>2, <1>3 DEF ThreadTypes
  <1>5. /\ call'.pc = pc /\ call'.k = call.k /\ call'.got = call.got /\ call'.result = call.result
        /\ call'.at = call.at /\ call'.parts = call.parts /\ DOMAIN call' = DOMAIN call
    BY <1>2 DEF ThreadTypes
  <1>6. /\ Active' <=> Active
        /\ Listening' <=> Listening
        /\ call'.pc = "copied" <=> call.pc = "copied"
        /\ call'.pc = "answer" <=> call.pc = "answer"
        /\ call'.pc = "answering" <=> call.pc = "answering"
        /\ call'.pc = "idle" <=> call.pc = "idle"
    BY <1>1, <1>5 DEF Active, Listening
  <1>7. \A m : Said(m)' = Said(m) /\ Answer(m)' = Answer(m)
    BY <1>1, <1>4, <1>5 DEF Said, Answer
  <1>8. Told' <=> Told
    BY <1>1, <1>2, <1>4, <1>5, <1>6 DEF Told
  <1>9. LastWord' <=> LastWord
    BY <1>1, <1>4, <1>8 DEF LastWord
  <1>10. Speaking => Speaking'
    BY <1>1, <1>2, <1>4, <1>5, <1>6, <1>7 DEF Speaking, Holds
  <1>11. Answering => Answering'
    BY <1>1, <1>2, <1>4, <1>5, <1>6 DEF Answering, Holds
  <1>12. ~Silent
    BY <1>1, <1>2 DEF Silent
  <1>13. OwnChild'
    BY <1>1, <1>2, <1>3, <1>4, <1>5, <1>6, <1>9, <1>12 DEF InTurn, OwnChild
  <1>14. ThreadTypes'
    BY <1>2, <1>3, <1>5, <1>6 DEF ThreadTypes
  <1> QED
    BY <1>2, <1>4, <1>5, <1>8, <1>10, <1>11, <1>12, <1>13, <1>14, NoJobIs DEF InTurn

\* The part is taken: the next follows, the answer is awaited, or the child goes on.
LEMMA PartTakenTurn ==
  ASSUME ThreadInv, ~abandoned, PartTaken
  PROVE  InTurn'
  <1>1. PICK j : j = thread.job
    OBVIOUS
  <1>2. PICK next, rest :
          /\ next = IF j.at < j.parts THEN [j EXCEPT !.at = j.at + 1, !.phase = "put"]
                    ELSE IF j.t = "fs" THEN [j EXCEPT !.phase = "receive"] ELSE NoJob
          /\ rest = IF j.at = j.parts THEN thread.running \ JobDone ELSE thread.running
    OBVIOUS
  <1>3. /\ j.phase = "wait" /\ toParent.word = 0 /\ InTurn /\ ThreadTypes
        /\ thread' = [thread EXCEPT !.running = rest, !.job = next]
        /\ UNCHANGED <<toParent, toThread, call>>
    BY <1>1, <1>2 DEF PartTaken, ThreadInv
  <1>4. thread'.job = next /\ thread'.inbox = thread.inbox /\ thread'.running = rest
    BY <1>3 DEF ThreadTypes
  <1>5. DOMAIN j = {"k", "t", "parts", "at", "phase", "got"}
    BY <1>1, <1>3 DEF ThreadTypes
  <1>6. ~Silent /\ (Speaking \/ Told \/ Answering)
    BY <1>1, <1>3 DEF InTurn, Silent
  <1>7. /\ Active' <=> Active
        /\ Listening' <=> Listening
    BY <1>3 DEF Active, Listening
  <1>8. CASE Speaking
    <2>1. j.parts \in Nat /\ j.at \in 1 .. j.parts /\ toParent.word # Word(j.at, j.parts)
      BY <1>1, <1>3, <1>8, WordIs DEF Speaking
    <2>2. /\ j.k = call.k /\ j.t \in Messages /\ j.got = << >> /\ toThread.word = 0
          /\ j.at < j.parts /\ Listening /\ call.got = Said(j.at)
      BY <1>1, <1>3, <1>8, <2>1 DEF Speaking, Holds
    <2>3. next = [j EXCEPT !.at = j.at + 1, !.phase = "put"] /\ rest = thread.running
      BY <1>2, <2>1, <2>2
    <2>4. /\ next.k = j.k /\ next.t = j.t /\ next.parts = j.parts /\ next.at = j.at + 1
          /\ next.phase = "put" /\ next.got = j.got
      BY <1>5, <2>3
    <2>5. Said(j.at)' = Said(j.at) /\ next.at - 1 = j.at /\ next.at \in 1 .. j.parts
      BY <1>1, <1>4, <2>1, <2>2, <2>4 DEF Said
    <2>6. Speaking'
      BY <1>3, <1>4, <1>7, <2>1, <2>2, <2>4, <2>5 DEF Speaking
    <2>7. ~LastWord /\ ~LastWord'
      BY <1>1, <1>4, <2>1, <2>2, <2>4 DEF LastWord, Told
    <2>8. OwnChild'
      BY <1>3, <1>4, <1>6, <1>7, <2>3, <2>7 DEF InTurn, OwnChild
    <2> QED
      BY <1>3, <1>4, <2>4, <2>6, <2>8, NoJobIs DEF InTurn
  <1>9. CASE Told
    <2>1. /\ j.parts \in Nat /\ j.at = j.parts /\ j.t # "fs" /\ (Active => Listening)
          /\ toThread.word = 0 /\ call.got = << >>
      BY <1>1, <1>9 DEF Told
    <2>2. next = NoJob /\ rest = thread.running \ JobDone
      BY <1>2, <2>1
    <2>3. Silent'
      BY <1>3, <1>4, <1>7, <2>1, <2>2, NoJobIs DEF Silent
    <2>4. ~LastWord'
      BY <1>4, <2>2, NoJobIs DEF LastWord, Told
    <2>5. CASE LastWord
      <3>1. thread'.running = {}
        BY <1>1, <1>3, <1>4, <2>2, <2>5 DEF InTurn, OwnChild, LastWord, JobDone
      <3> QED
        BY <1>3, <1>4, <1>7, <2>2, <2>3, <2>4, <2>5, <3>1, NoJobIs DEF InTurn, OwnChild
    <2>6. CASE ~LastWord
      <3>1. thread'.running = thread.running
        BY <1>1, <1>4, <1>9, <2>2, <2>6 DEF LastWord, JobDone
      <3>2. OwnChild'
        BY <1>3, <1>4, <1>6, <1>7, <2>4, <2>6, <3>1 DEF InTurn, OwnChild
      <3> QED
        BY <1>3, <1>4, <2>2, <2>3, <3>2, NoJobIs DEF InTurn
    <2> QED
      BY <2>5, <2>6
  <1>10. CASE Answering
    <2>1. /\ j.t = "fs" /\ j.parts \in Nat /\ j.at = j.parts /\ j.got = << >> /\ call.at = 1
          /\ call.got = << >> /\ call.at \in 1 .. call.parts
          /\ \/ call.pc = "answer" /\ toThread.word = 0
             \/ call.pc = "answering" /\ Holds(toThread, "answer", 0, call.parts, call.at)
      BY <1>1, <1>3, <1>10 DEF Answering
    <2>2. next = [j EXCEPT !.phase = "receive"]
      BY <1>2, <2>1
    <2>3. rest = thread.running
      BY <1>1, <1>2, <2>1 DEF JobDone
    <2>4. next.t = j.t /\ next.parts = j.parts /\ next.phase = "receive" /\ next.got = << >>
      BY <1>5, <2>1, <2>2
    <2>5. Answer(call.at - 1)' = << >>
      <3>1. call'.at - 1 = 0
        BY <1>3, <2>1
      <3> QED
        BY <3>1, PartsGrow DEF Answer
    <2>6. Answering'
      BY <1>3, <1>4, <2>1, <2>4, <2>5 DEF Answering, Holds
    <2>7. ~LastWord /\ ~LastWord'
      BY <1>1, <1>4, <2>1, <2>4 DEF LastWord, Told
    <2>8. OwnChild'
      BY <1>3, <1>4, <1>6, <1>7, <2>3, <2>7 DEF InTurn, OwnChild
    <2> QED
      BY <1>3, <1>4, <2>4, <2>6, <2>8, NoJobIs DEF InTurn
  <1> QED
    BY <1>6, <1>8, <1>9, <1>10


\* The thread gives up on a caller only where some call has left a child behind.
LEMMA GiveUpNever ==
  ASSUME ThreadInv, ~abandoned, GiveUp
  PROVE  FALSE
  <1>1. /\ call.pc = "idle" /\ InTurn
        /\ \/ thread.job.phase = "wait" /\ toParent.word # 0
           \/ thread.job.phase = "receive" /\ toThread.word = 0
    BY DEF GiveUp, ThreadInv
  <1>2. ~Silent /\ ~Told /\ ~Speaking /\ ~Answering
    BY <1>1 DEF Silent, Told, Speaking, Answering, Listening
  <1> QED
    BY <1>1, <1>2 DEF InTurn

\* The thread takes a part of an answer.
LEMMA ReceivePartTurn ==
  ASSUME ThreadInv, ~abandoned, ReceivePart
  PROVE  InTurn'
  <1>1. PICK j : j = thread.job
    OBVIOUS
  <1>2. PICK next : next = [j EXCEPT !.got = Append(j.got, toThread.part), !.phase = "ack"]
    OBVIOUS
  <1>3. /\ j.phase = "receive" /\ toThread.word # 0 /\ InTurn /\ ThreadTypes
        /\ thread' = [thread EXCEPT !.job = next]
        /\ UNCHANGED <<toParent, toThread, call>>
    BY <1>1, <1>2 DEF ReceivePart, Job, ThreadInv
  <1>4. thread'.job = next /\ thread'.inbox = thread.inbox /\ thread'.running = thread.running
    BY <1>3 DEF ThreadTypes
  <1>5. /\ next.t = j.t /\ next.parts = j.parts /\ next.phase = "ack"
        /\ next.got = Append(j.got, toThread.part)
    BY <1>1, <1>2, <1>3 DEF ThreadTypes
  <1>6. ~Silent /\ ~Told /\ ~Speaking /\ Answering
    BY <1>1, <1>3 DEF InTurn, Silent, Told, Speaking
  <1>7. /\ j.t = "fs" /\ j.parts \in Nat /\ toParent.word = 0 /\ call.got = << >>
        /\ call.at \in 1 .. call.parts /\ j.got = Answer(call.at - 1)
        /\ call.pc = "answering" /\ Holds(toThread, "answer", 0, call.parts, call.at)
    BY <1>1, <1>3, <1>6 DEF Answering
  <1>8. next.got = Answer(call.at)
    <2>1. PICK m : m = call.at - 1
      OBVIOUS
    <2>2. m \in Nat /\ m + 1 = call.at
      BY <1>3, <1>7, <2>1 DEF ThreadTypes
    <2>3. toThread.part = Part("answer", 0, call.parts, m + 1)
      BY <1>7, <2>2 DEF Holds
    <2>4. Append(PartsOf("answer", 0, call.parts, m), Part("answer", 0, call.parts, m + 1))
            = PartsOf("answer", 0, call.parts, m + 1)
      BY <2>2, PartsGrow
    <2>5. next.got = PartsOf("answer", 0, call.parts, m + 1)
      BY <1>5, <1>7, <2>1, <2>3, <2>4 DEF Answer
    <2> QED
      BY <2>2, <2>5 DEF Answer
  <1>9. Answering'
    <2>1. Answer(call.at)' = Answer(call.at)
      BY <1>3 DEF Answer
    <2> QED
      BY <1>3, <1>4, <1>5, <1>7, <1>8, <2>1 DEF Answering, Holds
  <1>10. ~LastWord /\ ~LastWord'
    BY <1>1, <1>4, <1>5, <1>7 DEF LastWord
  <1>11. OwnChild'
    BY <1>3, <1>4, <1>6, <1>10 DEF InTurn, OwnChild, Active
  <1> QED
    BY <1>3, <1>4, <1>5, <1>9, <1>11, NoJobIs DEF InTurn

\* The thread acknowledges it, and has the answer when it was the last.
LEMMA AckPartTurn ==
  ASSUME ThreadInv, ~abandoned, AckPart
  PROVE  InTurn'
  <1>1. PICK j : j = thread.job
    OBVIOUS
  <1>2. PICK next : next = IF toThread.word = 2 THEN [j EXCEPT !.phase = "receive"] ELSE NoJob
    OBVIOUS
  <1>3. /\ j.phase = "ack" /\ InTurn /\ ThreadTypes
        /\ toThread' = [toThread EXCEPT !.word = 0] /\ thread' = [thread EXCEPT !.job = next]
        /\ UNCHANGED <<toParent, call>>
    BY <1>1, <1>2 DEF AckPart, Job, ThreadInv
  <1>4. /\ thread'.job = next /\ thread'.inbox = thread.inbox /\ thread'.running = thread.running
        /\ toThread'.word = 0
    BY <1>3 DEF ThreadTypes
  <1>5. ~Silent /\ ~Told /\ ~Speaking /\ Answering
    BY <1>1, <1>3 DEF InTurn, Silent, Told, Speaking
  <1>6. /\ j.t = "fs" /\ j.parts \in Nat /\ toParent.word = 0 /\ call.got = << >>
        /\ call.parts \in Nat /\ call.at \in 1 .. call.parts /\ j.got = Answer(call.at)
        /\ call.pc = "answering" /\ Holds(toThread, "answer", 0, call.parts, call.at)
    BY <1>1, <1>3, <1>5 DEF Answering, ThreadTypes
  <1>7. toThread.word = Word(call.at, call.parts)
    BY <1>6 DEF Holds
  <1>8. ~LastWord /\ Active /\ Active'
    BY <1>1, <1>3, <1>6 DEF LastWord, Active
  <1>9. CASE toThread.word = 2
    <2>1. next = [j EXCEPT !.phase = "receive"] /\ call.at < call.parts
      BY <1>2, <1>6, <1>7, <1>9, WordIs
    <2>2. next.t = j.t /\ next.parts = j.parts /\ next.phase = "receive" /\ next.got = j.got
      BY <1>1, <1>3, <2>1 DEF ThreadTypes
    <2>3. Answering'
      <3>1. Answer(call.at)' = Answer(call.at)
        BY <1>3 DEF Answer
      <3> QED
        BY <1>3, <1>4, <1>6, <2>1, <2>2, <3>1 DEF Answering
    <2>4. ~LastWord'
      BY <1>4, <1>6, <2>2 DEF LastWord
    <2>5. OwnChild'
      BY <1>3, <1>4, <1>5, <1>8, <2>4 DEF InTurn, OwnChild
    <2> QED
      BY <1>3, <1>4, <2>2, <2>3, <2>5, NoJobIs DEF InTurn
  <1>10. CASE toThread.word # 2
    <2>1. next = NoJob /\ call.at = call.parts
      BY <1>2, <1>6, <1>7, <1>10, WordIs
    <2>2. Silent'
      BY <1>3, <1>4, <1>6, <2>1, NoJobIs DEF Silent, Listening
    <2>3. ~LastWord'
      BY <1>4, <2>1, NoJobIs DEF LastWord, Told
    <2>4. OwnChild'
      BY <1>3, <1>4, <1>5, <1>8, <2>3 DEF InTurn, OwnChild
    <2> QED
      BY <1>3, <1>4, <2>1, <2>2, <2>4, NoJobIs DEF InTurn
  <1> QED
    BY <1>9, <1>10

----------------------------------------------------------------------------
(* The caller's steps                                                       *)

\* A thread that is new, or gone, has nothing to say.
LEMMA Anew ==
  ASSUME thread' \in {NewThread, NoThread}, toParent' = Empty, toThread' = Empty, ~abandoned',
         call'.pc \in {"idle", "starting"}, call'.got = << >>, call'.result \in {0, call'.k},
         call'.pc # "idle" => call'.result = 0 /\ service', service' \in BOOLEAN, abandoned' \in BOOLEAN,
         DOMAIN call' = {"pc", "k", "got", "parts", "at", "result", "expired"},
         call'.parts \in Nat, call'.at \in Nat
  PROVE  ThreadInv'
  <1>1. /\ DOMAIN thread' = {"alive", "started", "inbox", "running", "job"}
        /\ thread'.job = NoJob /\ thread'.inbox = << >> /\ thread'.running = {}
    BY DEF NewThread, NoThread
  <1>2. /\ DOMAIN toParent' = {"word", "part"} /\ DOMAIN toThread' = {"word", "part"}
        /\ toParent'.word = 0 /\ toThread'.word = 0
    BY DEF Empty
  <1>3. ThreadTypes'
    BY <1>1, <1>2, NoJobIs DEF ThreadTypes, Active
  <1>4. Silent' /\ ~LastWord'
    BY <1>1, <1>2, NoJobIs DEF Silent, Active, LastWord, Told
  <1> QED
    BY <1>1, <1>3, <1>4, NoJobIs DEF ThreadInv, InTurn, OwnChild

\* The caller gives the service up: the next call begins with another thread.
LEMMA DroppedTurn ==
  ASSUME ThreadInv, Dropped, Throws
  PROVE  ThreadInv'
  <1>1. /\ call' = [call EXCEPT !.pc = "idle", !.got = << >>, !.result = 0, !.at = 0, !.parts = 0,
                               !.expired = FALSE]
        /\ DOMAIN call = {"pc", "k", "got", "parts", "at", "result", "expired"}
    BY DEF Throws, ThreadInv, ThreadTypes
  <1>2. /\ call'.pc = "idle" /\ call'.got = << >> /\ call'.result = 0 /\ call'.at = 0
        /\ call'.parts = 0 /\ DOMAIN call' = DOMAIN call
    BY <1>1
  <1> QED
    BY <1>1, <1>2, Anew DEF Dropped

\* A thread is started before it is needed.
LEMMA WarmTurn ==
  ASSUME ThreadInv, Warm
  PROVE  ThreadInv'
  <1>1. call' = call /\ call.pc = "idle" /\ ~service /\ ThreadTypes
    BY DEF Warm, ThreadInv
  <1>2. InTurn /\ call.got = << >>
    BY <1>1 DEF ThreadInv, ThreadTypes, Active
  <1> QED
    BY <1>1, <1>2, Anew DEF Warm, WarmSyncChild, InTurn, ThreadTypes

\* A call begins.
LEMMA RunSyncChildTurn ==
  ASSUME ThreadInv, RunSyncChild
  PROVE  ThreadInv'
  <1>1. /\ call' = [call EXCEPT !.pc = "starting", !.k = call.k + 1, !.result = 0]
        /\ call.pc = "idle" /\ ThreadTypes
    BY DEF RunSyncChild, ThreadInv
  <1>2. /\ call'.pc = "starting" /\ call'.got = call.got /\ call'.result = 0 /\ call'.at = call.at
        /\ call'.parts = call.parts /\ DOMAIN call' = DOMAIN call /\ call.got = << >>
    BY <1>1 DEF ThreadTypes, Active
  <1>3. CASE ~service
    BY <1>1, <1>2, <1>3, Anew DEF RunSyncChild, WarmSyncChild, ThreadTypes
  <1>4. CASE service
    <2>1. UNCHANGED <<service, thread, toParent, toThread, abandoned>>
      BY <1>4 DEF RunSyncChild
    <2>2. ThreadTypes'
      BY <1>1, <1>2, <1>4, <2>1 DEF ThreadTypes, Active
    <2>3. ASSUME ~abandoned
          PROVE  InTurn'
      <3>1. InTurn /\ ~Active /\ ~Active' /\ ~Listening /\ ~Listening'
        BY <1>1, <1>2, <2>3 DEF ThreadInv, Active, Listening
      <3>2. ~Speaking /\ ~Answering
        BY <1>1, <3>1 DEF Speaking, Answering
      <3>3. (Silent => Silent') /\ (Told' <=> Told)
        BY <1>2, <2>1, <3>1 DEF Silent, Told
      <3>4. LastWord' <=> LastWord
        BY <2>1, <3>3 DEF LastWord
      <3>5. OwnChild'
        BY <2>1, <3>1, <3>4 DEF InTurn, OwnChild
      <3> QED
        BY <1>2, <2>1, <3>1, <3>2, <3>3, <3>5 DEF InTurn
    <2> QED
      BY <2>1, <2>2, <2>3 DEF ThreadInv
  <1> QED
    BY <1>1, <1>3, <1>4


\* The thread is up and is posted the run.
LEMMA StartedTurn ==
  ASSUME ThreadInv, ~abandoned, Started
  PROVE  InTurn'
  <1>1. /\ call.pc = "starting" /\ InTurn /\ ThreadTypes
        /\ toParent' = [toParent EXCEPT !.word = 0]
        /\ thread' = [thread EXCEPT !.inbox = Append(thread.inbox, call.k)]
        /\ call' = [call EXCEPT !.pc = "reading"] /\ toThread' = toThread
    BY DEF Started, ThreadInv
  <1>2. /\ call'.pc = "reading" /\ call'.got = call.got /\ call'.k = call.k
        /\ call'.result = call.result
    BY <1>1 DEF ThreadTypes
  <1>3. /\ toParent'.word = 0 /\ thread'.job = thread.job /\ thread'.running = thread.running
        /\ thread'.inbox = Append(thread.inbox, call.k)
    BY <1>1 DEF ThreadTypes
  <1>4. ~Active /\ ~Listening /\ Active' /\ Listening'
    BY <1>1, <1>2 DEF Active, Listening
  <1>5. ~Speaking /\ ~Answering
    BY <1>1, <1>4 DEF Speaking, Answering
  <1>6. (Silent => Silent') /\ (Told <=> LastWord) /\ (LastWord => LastWord')
    BY <1>1, <1>2, <1>3, <1>4 DEF Silent, Told, LastWord
  <1>7. thread.inbox = << >>
    BY <1>1, <1>4 DEF InTurn, OwnChild
  <1>8. thread'.inbox = <<call.k>>
    BY <1>3, <1>7
  <1>9. CASE LastWord
    <2>1. OwnChild'
      BY <1>1, <1>2, <1>3, <1>4, <1>6, <1>8, <1>9 DEF InTurn, OwnChild
    <2> QED
      BY <1>1, <1>2, <1>3, <1>6, <1>9, <2>1 DEF InTurn, LastWord
  <1>10. CASE ~LastWord
    <2>1. Silent /\ thread.running = {}
      BY <1>1, <1>4, <1>5, <1>6, <1>10 DEF InTurn, OwnChild
    <2>2. ~LastWord'
      BY <1>3, <2>1 DEF Silent, LastWord, Told
    <2>3. OwnChild'
      BY <1>2, <1>3, <1>4, <1>6, <1>8, <2>1, <2>2 DEF OwnChild
    <2> QED
      BY <1>1, <1>2, <1>3, <1>6, <2>1, <2>3 DEF InTurn
  <1> QED
    BY <1>9, <1>10

\* The caller goes to wait, or has waited long enough.
LEMMA WaitTurn ==
  ASSUME ThreadInv, ~abandoned, WaitForPart \/ Expire
  PROVE  InTurn'
  <1>1. /\ UNCHANGED <<thread, toParent, toThread>> /\ InTurn /\ ThreadTypes
        /\ \/ call.pc = "reading" /\ call' = [call EXCEPT !.pc = "waiting"]
           \/ call.pc = "waiting" /\ call' = [call EXCEPT !.pc = "woken", !.expired = TRUE]
    BY DEF WaitForPart, Expire, ThreadInv
  <1>2. /\ call.pc \in {"reading", "waiting"} /\ call'.pc \in {"waiting", "woken"}
        /\ call'.k = call.k /\ call'.got = call.got
        /\ call'.result = call.result /\ call'.at = call.at /\ call'.parts = call.parts
    BY <1>1 DEF ThreadTypes
  <1>3. (Active' <=> Active) /\ (Listening' <=> Listening)
    BY <1>2 DEF Active, Listening
  <1> QED
    BY <1>1, <1>2, <1>3, TurnKept

\* The caller reads a part and clears its word.
LEMMA ReadPartTurn ==
  ASSUME ThreadInv, ~abandoned, ReadPart
  PROVE  InTurn'
  <1>1. PICK j : j = thread.job
    OBVIOUS
  <1>2. /\ UNCHANGED <<thread, toParent, toThread>> /\ InTurn /\ ThreadTypes
        /\ call.pc \in {"reading", "woken"} /\ toParent.word # 0
        /\ call' = [call EXCEPT !.got = Append(call.got, toParent.part), !.pc = "copied",
                                !.expired = FALSE]
    BY DEF ReadPart, ThreadInv
  <1>3. /\ call'.pc = "copied" /\ call'.got = Append(call.got, toParent.part) /\ call'.k = call.k
        /\ call'.result = call.result /\ call'.at = call.at /\ call'.parts = call.parts
    BY <1>2 DEF ThreadTypes
  <1>4. Speaking /\ ~Silent /\ ~LastWord /\ ~LastWord'
    BY <1>2 DEF InTurn, Silent, Told, Answering, LastWord
  <1>5. /\ j.k = call.k /\ j.parts \in Nat /\ j.at \in 1 .. j.parts /\ j.t \in Messages
        /\ j.got = << >> /\ toThread.word = 0 /\ j.phase \in {"notify", "wait"}
        /\ Holds(toParent, j.t, j.k, j.parts, j.at) /\ call.got = Said(j.at - 1)
    BY <1>1, <1>2, <1>4 DEF Speaking
  <1>6. call'.got = Said(j.at)
    <2>1. PICK m : m = j.at - 1
      OBVIOUS
    <2>2. m \in Nat /\ m + 1 = j.at
      BY <1>5, <2>1
    <2>3. toParent.part = Part(j.t, j.k, j.parts, m + 1)
      BY <1>5, <2>2 DEF Holds
    <2>4. Append(PartsOf(j.t, j.k, j.parts, m), Part(j.t, j.k, j.parts, m + 1))
            = PartsOf(j.t, j.k, j.parts, m + 1)
      BY <2>2, PartsGrow
    <2>5. call'.got = PartsOf(j.t, j.k, j.parts, m + 1)
      BY <1>1, <1>3, <1>5, <2>1, <2>3, <2>4 DEF Said
    <2> QED
      BY <1>1, <2>2, <2>5 DEF Said
  <1>7. Speaking'
    <2>1. Said(j.at)' = Said(j.at)
      BY <1>2 DEF Said
    <2> QED
      BY <1>1, <1>2, <1>3, <1>5, <1>6, <2>1 DEF Speaking, Holds
  <1>8. Active /\ Active'
    BY <1>2, <1>3 DEF Active
  <1>9. OwnChild'
    BY <1>2, <1>3, <1>4, <1>8 DEF InTurn, OwnChild
  <1> QED
    BY <1>2, <1>3, <1>7, <1>9 DEF InTurn

\* The caller puts a part of its answer.
LEMMA AnswerPartTurn ==
  ASSUME ThreadInv, ~abandoned, AnswerPart
  PROVE  InTurn'
  <1>1. /\ UNCHANGED <<thread, toParent>> /\ InTurn /\ ThreadTypes /\ call.pc = "answer"
        /\ toThread' = [word |-> Word(call.at, call.parts),
                        part |-> Part("answer", 0, call.parts, call.at)]
        /\ call' = [call EXCEPT !.pc = "answering"]
    BY DEF AnswerPart, ThreadInv
  <1>2. /\ call'.pc = "answering" /\ call'.got = call.got /\ call'.k = call.k
        /\ call'.result = call.result /\ call'.at = call.at /\ call'.parts = call.parts
    BY <1>1 DEF ThreadTypes
  <1>3. Active /\ ~Listening /\ Active'
    BY <1>1, <1>2 DEF Active, Listening
  <1>4. Answering /\ ~Silent /\ ~LastWord
    BY <1>1, <1>3 DEF InTurn, Silent, Told, Speaking, LastWord
  <1>5. Answering'
    <2>1. Answer(call.at - 1)' = Answer(call.at - 1)
      BY <1>2 DEF Answer
    <2> QED
      BY <1>1, <1>2, <1>4, <2>1 DEF Answering, Holds
  <1>6. ~LastWord'
    BY <1>1, <1>4 DEF LastWord, Answering
  <1>7. OwnChild'
    BY <1>1, <1>2, <1>3, <1>4, <1>6 DEF InTurn, OwnChild
  <1> QED
    BY <1>1, <1>2, <1>5, <1>7 DEF InTurn

\* The thread has taken it, and the caller goes on.
LEMMA AnswerTakenTurn ==
  ASSUME ThreadInv, ~abandoned, AnswerTaken
  PROVE  InTurn'
  <1>1. /\ UNCHANGED <<thread, toParent, toThread>> /\ InTurn /\ ThreadTypes
        /\ call.pc = "answering" /\ toThread.word = 0 /\ call.parts \in Nat /\ call.at \in Nat
        /\ call' = IF call.at < call.parts THEN [call EXCEPT !.pc = "answer", !.at = call.at + 1]
                   ELSE [call EXCEPT !.pc = "reading", !.at = 0, !.parts = 0]
    BY DEF AnswerTaken, ThreadInv, ThreadTypes
  <1>2. CASE Answering
    <2>1. toThread.word # Word(call.at, call.parts)
      BY <1>1, <1>2, WordIs DEF Answering
    <2>2. /\ thread.job.phase = "receive" /\ call.at < call.parts
          /\ thread.job.got = Answer(call.at)
      BY <1>1, <1>2, <2>1 DEF Answering, Holds
    <2>3. call' = [call EXCEPT !.pc = "answer", !.at = call.at + 1]
      BY <1>1, <2>2
    <2>4. /\ call'.pc = "answer" /\ call'.got = call.got /\ call'.k = call.k
          /\ call'.result = call.result /\ call'.at = call.at + 1 /\ call'.parts = call.parts
      BY <1>1, <2>3 DEF ThreadTypes
    <2>5. /\ call'.at - 1 = call.at /\ call'.at \in 1 .. call'.parts
          /\ Answer(call.at - 1)' = Answer(call.at)
      BY <1>1, <2>2, <2>4 DEF Answer
    <2>6. Answering'
      BY <1>1, <1>2, <2>2, <2>4, <2>5 DEF Answering
    <2>7. ~Silent /\ ~LastWord /\ ~LastWord' /\ Active /\ Active'
      BY <1>1, <2>2, <2>4 DEF Silent, LastWord, Told, Active
    <2>8. OwnChild'
      BY <1>1, <2>4, <2>7 DEF InTurn, OwnChild
    <2> QED
      BY <1>1, <2>4, <2>6, <2>8 DEF InTurn
  <1>3. CASE ~Answering
    <2>1. Listening /\ Active
      BY <1>1, <1>3 DEF InTurn, Silent, Told, Speaking, Active
    <2>2. call.at = call.parts
      BY <1>1, <2>1 DEF Listening
    <2>3. call' = [call EXCEPT !.pc = "reading", !.at = 0, !.parts = 0]
      BY <1>1, <2>2
    <2>4. /\ call'.pc = "reading" /\ call'.got = call.got /\ call'.k = call.k
          /\ call'.result = call.result
      BY <1>1, <2>3 DEF ThreadTypes
    <2>5. Listening' /\ Active'
      BY <2>4 DEF Listening, Active
    <2>6. (Silent' <=> Silent) /\ (Told' <=> Told)
      BY <1>1, <2>1, <2>4, <2>5 DEF Silent, Told
    <2>7. Speaking => Speaking'
      <3>1. \A m : Said(m)' = Said(m)
        BY <1>1 DEF Said
      <3> QED
        BY <1>1, <2>1, <2>4, <2>5, <3>1 DEF Speaking, Holds
    <2>8. LastWord' <=> LastWord
      BY <1>1, <2>6 DEF LastWord
    <2>9. OwnChild'
      BY <1>1, <2>1, <2>4, <2>5, <2>6, <2>8 DEF InTurn, OwnChild
    <2> QED
      BY <1>1, <1>3, <2>4, <2>6, <2>7, <2>9 DEF InTurn
  <1> QED
    BY <1>2, <1>3


\* All the parts there are, in order, are a whole message.
LEMMA WholeParts ==
  ASSUME NEW t, NEW k, NEW n \in Nat \ {0}
  PROVE  /\ Whole(PartsOf(t, k, n, n))
         /\ PartsOf(t, k, n, n)[1].t = t /\ PartsOf(t, k, n, n)[1].of = k
  <1>1. PICK got : got = PartsOf(t, k, n, n)
    OBVIOUS
  <1>2. /\ DOMAIN got = 1 .. n /\ \A i \in 1 .. n : got[i] = Part(t, k, n, i)
        /\ got[1] = Part(t, k, n, 1)
    BY <1>1 DEF PartsOf
  <1>3. Len(got) = n
    BY <1>1, PartsGrow
  <1>4. got[1].t = t /\ got[1].of = k
    BY <1>2 DEF Part
  <1>5. got # << >>
    BY <1>3
  <1> QED
    BY <1>1, <1>2, <1>3, <1>4, <1>5 DEF Whole

\* What a caller that has copied a part holds.
LEMMA CopiedIs ==
  ASSUME ThreadInv, ~abandoned, call.pc = "copied"
  PROVE  LET j == thread.job
         IN  /\ Speaking /\ ~Silent /\ ~LastWord /\ j.k = call.k /\ j.t \in Messages
             /\ j.parts \in Nat \ {0} /\ j.at \in 1 .. j.parts
             /\ j.got = << >> /\ toThread.word = 0 /\ j.phase \in {"notify", "wait"}
             /\ toParent.word = Word(j.at, j.parts) /\ call.got = Said(j.at)
  <1>1. InTurn /\ Active /\ ~Listening
    BY DEF ThreadInv, Active, Listening
  <1>2. Speaking /\ ~Silent /\ ~Told /\ ~LastWord
    BY <1>1 DEF InTurn, Silent, Told, Answering, LastWord
  <1>3. thread.job.parts \in Nat /\ thread.job.at \in 1 .. thread.job.parts
    BY <1>2 DEF Speaking
  <1>4. thread.job.parts \in Nat \ {0}
    BY <1>3
  <1> QED
    BY <1>1, <1>2, <1>3, <1>4 DEF Speaking, Holds

\* A call that returns, or goes on, with the whole of its own child's message.
LEMMA AckMessageTurn ==
  ASSUME ThreadInv, ~abandoned, AckMessage, ~abandoned'
  PROVE  InTurn'
  <1>1. PICK j : j = thread.job
    OBVIOUS
  <1>2. /\ call.pc = "copied" /\ ThreadTypes /\ InTurn /\ UNCHANGED <<thread, toThread>>
        /\ toParent' = [toParent EXCEPT !.word = 0]
        /\ IF toParent.word = 2
           THEN call' = [call EXCEPT !.pc = "reading"]
           ELSE On(call.got[1], Whole(call.got))
    BY DEF AckMessage, ThreadInv
  <1>3. /\ Speaking /\ ~Silent /\ ~LastWord /\ j.k = call.k /\ j.t \in Messages
        /\ j.parts \in Nat \ {0} /\ j.at \in 1 .. j.parts
        /\ j.got = << >> /\ toThread.word = 0 /\ j.phase \in {"notify", "wait"}
        /\ toParent.word = Word(j.at, j.parts) /\ call.got = Said(j.at)
    BY <1>1, <1>2, CopiedIs
  <1>4. /\ toParent'.word = 0 /\ thread.inbox = << >> /\ thread.running \subseteq {call.k}
        /\ call.result = 0
    BY <1>2, <1>3 DEF ThreadTypes, InTurn, OwnChild
  <1>5. CASE toParent.word = 2
    <2>1. j.at < j.parts
      BY <1>3, <1>5, WordIs
    <2>2. /\ call'.pc = "reading" /\ call'.got = call.got /\ call'.k = call.k
          /\ call'.result = call.result
      BY <1>2, <1>5 DEF ThreadTypes
    <2>3. Said(j.at)' = Said(j.at) /\ Listening' /\ Active'
      BY <1>2, <2>2 DEF Said, Listening, Active
    <2>4. Speaking'
      BY <1>1, <1>2, <1>3, <1>4, <2>1, <2>2, <2>3 DEF Speaking
    <2>5. ~LastWord'
      BY <1>1, <1>2, <1>3, <2>1 DEF LastWord, Told
    <2>6. OwnChild'
      BY <1>2, <1>4, <2>2, <2>3, <2>5 DEF OwnChild
    <2> QED
      BY <1>2, <2>2, <2>4, <2>6 DEF InTurn
  <1>6. CASE toParent.word # 2
    <2>1. j.at = j.parts
      BY <1>3, <1>6, WordIs
    <2>2. call.got = PartsOf(j.t, j.k, j.parts, j.parts)
      BY <1>1, <1>3, <2>1 DEF Said
    <2>3. Whole(call.got) /\ call.got[1].t = j.t /\ call.got[1].of = call.k
      BY <1>3, <2>2, WholeParts
    <2>4. PICK more : more = [call EXCEPT !.pc = "reading", !.got = << >>]
      OBVIOUS
    <2>5. /\ more.pc = "reading" /\ more.got = << >> /\ more.k = call.k /\ more.result = 0
          /\ DOMAIN more = DOMAIN call
      BY <1>2, <1>4, <2>4 DEF ThreadTypes
    <2>6. \/ j.t \in {"begin", "out"} /\ call' = more
          \/ j.t = "fs" /\ \E n \in Parts : call' = [more EXCEPT !.pc = "answer", !.at = 1, !.parts = n]
          \/ j.t = "done" /\ call' = [more EXCEPT !.pc = "idle", !.result = call.k]
          \/ j.t = "failed" /\ Throws
      BY <1>2, <1>6, <2>3, <2>4 DEF On
    <2>7. CASE j.t \in {"begin", "out"} /\ call' = more
      <3>1. Listening' /\ Active'
        BY <2>5, <2>7 DEF Listening, Active
      <3>2. Told' /\ ~LastWord'
        BY <1>1, <1>2, <1>3, <1>4, <2>1, <2>5, <2>7, <3>1 DEF Told, LastWord
      <3>3. OwnChild'
        BY <1>2, <1>4, <2>5, <2>7, <3>1, <3>2 DEF OwnChild
      <3> QED
        BY <1>2, <2>5, <2>7, <3>2, <3>3 DEF InTurn
    <2>8. CASE j.t = "fs" /\ \E n \in Parts : call' = [more EXCEPT !.pc = "answer", !.at = 1, !.parts = n]
      <3>1. PICK n \in Parts : call' = [more EXCEPT !.pc = "answer", !.at = 1, !.parts = n]
        BY <2>8
      <3>2. /\ call'.pc = "answer" /\ call'.got = << >> /\ call'.k = call.k /\ call'.result = 0
            /\ call'.at = 1 /\ call'.parts = n
        BY <1>2, <2>5, <3>1 DEF ThreadTypes
      <3>3. call'.at \in 1 .. call'.parts
        BY <3>2, SyncThreadBounds DEF Parts
      <3>4. Answering' /\ ~LastWord' /\ Active'
        BY <1>1, <1>2, <1>3, <1>4, <2>1, <2>8, <3>2, <3>3 DEF Answering, LastWord, Active
      <3>5. OwnChild'
        BY <1>2, <1>4, <3>2, <3>4 DEF OwnChild
      <3> QED
        BY <1>2, <3>2, <3>4, <3>5 DEF InTurn
    <2>9. CASE \/ j.t = "done" /\ call' = [more EXCEPT !.pc = "idle", !.result = call.k]
               \/ j.t = "failed" /\ Throws
      <3>1. /\ call'.pc = "idle" /\ call'.got = << >> /\ call'.k = call.k
            /\ call'.result \in {0, call.k}
        <4>1. CASE j.t = "done" /\ call' = [more EXCEPT !.pc = "idle", !.result = call.k]
          BY <1>2, <2>5, <4>1 DEF ThreadTypes
        <4>2. CASE j.t = "failed" /\ Throws
          BY <1>2, <4>2 DEF Throws, ThreadTypes
        <4> QED
          BY <2>9, <4>1, <4>2
      <3>2. LastWord' /\ Told' /\ ~Active'
        BY <1>1, <1>2, <1>3, <1>4, <2>1, <2>9, <3>1 DEF LastWord, Told, Active
      <3>3. OwnChild'
        BY <1>1, <1>2, <1>3, <1>4, <3>2 DEF OwnChild
      <3> QED
        BY <1>2, <3>1, <3>2, <3>3 DEF InTurn
    <2> QED
      BY <2>6, <2>7, <2>8, <2>9
  <1> QED
    BY <1>5, <1>6


----------------------------------------------------------------------------
(* Every step                                                               *)

ThreadAlone == \/ Attach \/ TakeRun \/ PutPart \/ PartTaken \/ ReceivePart \/ AckPart
               \/ GiveUp \/ ThreadDies
               \/ \E t \in {"fs", "out", "done", "failed"} : ChildSays(t)

\* The thread's own steps keep the types.
LEMMA ThreadAloneTypes ==
  ASSUME ThreadTypes, ThreadAlone
  PROVE  ThreadTypes' /\ UNCHANGED <<service, abandoned>>
  <1>1. DOMAIN thread.job = DOMAIN NoJob
    BY NoJobIs DEF ThreadTypes
  <1>2. \A k, t, n : DOMAIN Sending(k, t, n) = DOMAIN NoJob
    BY SendingIs, NoJobIs
  <1>3. /\ UNCHANGED <<service, abandoned, call>>
        /\ DOMAIN toParent' = DOMAIN toParent /\ DOMAIN toThread' = DOMAIN toThread
    <2>1. CASE PutPart
      BY <2>1 DEF PutPart, Job, ThreadTypes
    <2>2. CASE AckPart
      BY <2>2 DEF AckPart, Job, ThreadTypes
    <2>3. CASE UNCHANGED <<service, abandoned, call, toParent, toThread>>
      BY <2>3
    <2> QED
      BY <2>1, <2>2, <2>3 DEF ThreadAlone, Attach, TakeRun, PartTaken, ReceivePart, GiveUp,
                              ThreadDies, ChildSays, Job
  <1>4. DOMAIN thread' = DOMAIN thread /\ DOMAIN thread'.job = DOMAIN thread.job
    <2>1. CASE Attach \/ ThreadDies
      BY <2>1 DEF Attach, ThreadDies, ThreadTypes
    <2>2. CASE TakeRun
      <3>1. PICK k, j : k = Head(thread.inbox) /\ j = Sending(k, "begin", 1)
        OBVIOUS
      <3>2. thread' = [thread EXCEPT !.inbox = Tail(thread.inbox), !.running = thread.running \cup {k},
                                     !.job = j]
        BY <2>2, <3>1 DEF TakeRun
      <3>3. DOMAIN j = DOMAIN NoJob
        BY <1>2, <3>1
      <3> QED
        BY <1>1, <3>2, <3>3 DEF ThreadTypes
    <2>3. ASSUME NEW j, DOMAIN j = DOMAIN NoJob, thread' = [thread EXCEPT !.job = j]
          PROVE  DOMAIN thread' = DOMAIN thread /\ DOMAIN thread'.job = DOMAIN thread.job
      BY <1>1, <2>3 DEF ThreadTypes
    <2>4. CASE PutPart
      <3>1. PICK j : j = [thread.job EXCEPT !.phase = "notify"]
        OBVIOUS
      <3>2. thread' = [thread EXCEPT !.job = j] /\ DOMAIN j = DOMAIN NoJob
        BY <1>1, <2>4, <3>1 DEF PutPart, Job
      <3> QED
        BY <2>3, <3>2
    <2>5. CASE ReceivePart
      <3>1. PICK j : j = [thread.job EXCEPT !.got = Append(thread.job.got, toThread.part), !.phase = "ack"]
        OBVIOUS
      <3>2. thread' = [thread EXCEPT !.job = j] /\ DOMAIN j = DOMAIN NoJob
        BY <1>1, <2>5, <3>1 DEF ReceivePart, Job
      <3> QED
        BY <2>3, <3>2
    <2>6. CASE AckPart
      <3>1. PICK j : j = IF toThread.word = 2 THEN [thread.job EXCEPT !.phase = "receive"] ELSE NoJob
        OBVIOUS
      <3>2. thread' = [thread EXCEPT !.job = j] /\ DOMAIN j = DOMAIN NoJob
        BY <1>1, <2>6, <3>1 DEF AckPart, Job
      <3> QED
        BY <2>3, <3>2
    <2>7. CASE \E t \in {"fs", "out", "done", "failed"} : ChildSays(t)
      <3>1. PICK k, t, n : thread' = [thread EXCEPT !.job = Sending(k, t, n)]
        BY <2>7 DEF ChildSays, Job
      <3> QED
        BY <1>2, <2>3, <3>1
    <2>8. CASE PartTaken
      <3>1. PICK r, j : /\ thread' = [thread EXCEPT !.running = r, !.job = j]
                        /\ \/ j = [thread.job EXCEPT !.at = thread.job.at + 1, !.phase = "put"]
                           \/ j = [thread.job EXCEPT !.phase = "receive"]
                           \/ j = NoJob
        BY <2>8 DEF PartTaken
      <3>2. DOMAIN j = DOMAIN NoJob
        BY <1>1, <3>1
      <3> QED
        BY <1>1, <3>1, <3>2 DEF ThreadTypes
    <2>9. CASE GiveUp
      <3>1. \/ thread' = [thread EXCEPT !.job = NoJob]
            \/ thread' = [thread EXCEPT !.job = Sending(thread.job.k, "failed", 1)]
            \/ thread' = [thread EXCEPT !.running = thread.running \ {thread.job.k}, !.job = NoJob]
        BY <2>9 DEF GiveUp, Job
      <3>2. DOMAIN Sending(thread.job.k, "failed", 1) = DOMAIN NoJob
        BY <1>2
      <3> QED
        BY <1>1, <3>1, <3>2 DEF ThreadTypes
    <2> QED
      BY <2>1, <2>2, <2>4, <2>5, <2>6, <2>7, <2>8, <2>9 DEF ThreadAlone
  <1> QED
    BY <1>3, <1>4, ThreadTypesKept

\* They keep the turns.
LEMMA ThreadAloneTurn ==
  ASSUME ThreadInv, ThreadAlone
  PROVE  ThreadInv'
  <1>1. ThreadTypes' /\ UNCHANGED <<service, abandoned>>
    BY ThreadAloneTypes DEF ThreadInv
  <1>2. ASSUME ~abandoned
        PROVE  InTurn'
    <2>1. CASE Attach \/ ThreadDies
      <3>1. /\ thread'.job = thread.job /\ thread'.inbox = thread.inbox
            /\ thread'.running = thread.running /\ UNCHANGED <<toParent, toThread, call>> /\ InTurn
        BY <1>2, <2>1 DEF Attach, ThreadDies, ThreadInv, ThreadTypes
      <3>2. (Active' <=> Active) /\ (Listening' <=> Listening)
        BY <3>1 DEF Active, Listening
      <3> QED
        BY <3>1, <3>2, TurnKept
    <2> QED
      BY <1>2, <2>1, TakeRunTurn, PutPartTurn, PartTakenTurn, ReceivePartTurn, AckPartTurn,
         GiveUpNever, ChildSaysTurn DEF ThreadAlone
  <1> QED
    BY <1>1, <1>2 DEF ThreadInv

\* The caller's record between two of its steps, and a wake.
LEMMA CallTypes ==
  ASSUME ThreadTypes, service' = service, abandoned' \in BOOLEAN, service \/ ~abandoned',
         DOMAIN thread' = DOMAIN thread, DOMAIN thread'.job = DOMAIN thread.job,
         DOMAIN toParent' = DOMAIN toParent, DOMAIN toThread' = {"word", "part"},
         DOMAIN call' = DOMAIN call, call'.parts \in Nat, call'.at \in Nat,
         ~Active' => call'.got = << >>,
         call'.pc # "idle" => call'.result = 0 /\ service
  PROVE  ThreadTypes'
  BY DEF ThreadTypes

CallerAlone == \/ Started \/ WaitForPart \/ Expire \/ ReadPart \/ AnswerPart \/ AnswerTaken
               \/ NotifyCaller

\* The caller's own steps keep the types.
LEMMA CallerAloneTypes ==
  ASSUME ThreadTypes, CallerAlone
  PROVE  ThreadTypes' /\ UNCHANGED <<service, abandoned>>
  <1>1. CASE Started
    <2>1. /\ toParent' = [toParent EXCEPT !.word = 0] /\ call.pc = "starting"
          /\ thread' = [thread EXCEPT !.inbox = Append(thread.inbox, call.k)]
          /\ call' = [call EXCEPT !.pc = "reading"] /\ UNCHANGED <<service, toThread, abandoned>>
      BY <1>1 DEF Started
    <2>2. /\ call'.pc = "reading" /\ call'.result = call.result /\ call'.at = call.at
          /\ call'.parts = call.parts /\ DOMAIN call' = DOMAIN call /\ DOMAIN thread' = DOMAIN thread
          /\ thread'.job = thread.job /\ DOMAIN toParent' = DOMAIN toParent
      BY <2>1 DEF ThreadTypes
    <2> QED
      BY <2>1, <2>2, CallTypes DEF ThreadTypes, Active
  <1>2. CASE WaitForPart \/ Expire
    <2>1. /\ UNCHANGED <<service, thread, toParent, toThread, abandoned>> /\ call.pc # "idle"
          /\ \/ call' = [call EXCEPT !.pc = "waiting"]
             \/ call' = [call EXCEPT !.pc = "woken", !.expired = TRUE]
      BY <1>2 DEF WaitForPart, Expire
    <2>2. /\ call'.pc \in {"waiting", "woken"} /\ call'.result = call.result /\ call'.at = call.at
          /\ call'.parts = call.parts /\ DOMAIN call' = DOMAIN call
      BY <2>1 DEF ThreadTypes
    <2> QED
      BY <2>1, <2>2, CallTypes DEF ThreadTypes, Active
  <1>3. CASE ReadPart
    <2>1. /\ UNCHANGED <<service, thread, toParent, toThread, abandoned>> /\ call.pc # "idle"
          /\ call' = [call EXCEPT !.got = Append(call.got, toParent.part), !.pc = "copied",
                                  !.expired = FALSE]
      BY <1>3 DEF ReadPart
    <2>2. /\ call'.pc = "copied" /\ call'.result = call.result /\ call'.at = call.at
          /\ call'.parts = call.parts /\ DOMAIN call' = DOMAIN call
      BY <2>1 DEF ThreadTypes
    <2> QED
      BY <2>1, <2>2, CallTypes DEF ThreadTypes, Active
  <1>4. CASE AnswerPart
    <2>1. /\ UNCHANGED <<service, thread, toParent, abandoned>> /\ call.pc # "idle"
          /\ DOMAIN toThread' = {"word", "part"} /\ call' = [call EXCEPT !.pc = "answering"]
      BY <1>4 DEF AnswerPart
    <2>2. /\ call'.pc = "answering" /\ call'.result = call.result /\ call'.at = call.at
          /\ call'.parts = call.parts /\ DOMAIN call' = DOMAIN call
      BY <2>1 DEF ThreadTypes
    <2> QED
      BY <2>1, <2>2, CallTypes DEF ThreadTypes, Active
  <1>5. CASE AnswerTaken
    <2>1. /\ UNCHANGED <<service, thread, toParent, toThread, abandoned>> /\ call.pc # "idle"
          /\ \/ call' = [call EXCEPT !.pc = "answer", !.at = call.at + 1]
             \/ call' = [call EXCEPT !.pc = "reading", !.at = 0, !.parts = 0]
      BY <1>5 DEF AnswerTaken
    <2>2. /\ call'.pc \in {"answer", "reading"} /\ call'.result = call.result
          /\ call'.at \in Nat /\ call'.parts \in Nat /\ DOMAIN call' = DOMAIN call
      <3>1. CASE call' = [call EXCEPT !.pc = "answer", !.at = call.at + 1]
        BY <3>1 DEF ThreadTypes
      <3>2. CASE call' = [call EXCEPT !.pc = "reading", !.at = 0, !.parts = 0]
        BY <3>2 DEF ThreadTypes
      <3> QED
        BY <2>1, <3>1, <3>2
    <2> QED
      BY <2>1, <2>2, CallTypes DEF ThreadTypes, Active
  <1>6. CASE NotifyCaller
    <2>1. PICK pc : pc = IF call.pc = "waiting" THEN "woken" ELSE call.pc
      OBVIOUS
    <2>2. /\ UNCHANGED <<service, toParent, toThread, abandoned>> /\ call' = [call EXCEPT !.pc = pc]
          /\ thread' = [thread EXCEPT !.job = [thread.job EXCEPT !.phase = "wait"]]
      BY <1>6, <2>1 DEF NotifyCaller
    <2>3. /\ call'.pc = pc /\ call'.result = call.result /\ call'.at = call.at
          /\ call'.got = call.got
          /\ call'.parts = call.parts /\ DOMAIN call' = DOMAIN call /\ DOMAIN thread' = DOMAIN thread
          /\ DOMAIN thread'.job = DOMAIN thread.job
      BY <2>2 DEF ThreadTypes
    <2>4. (Active' <=> Active) /\ (call'.pc = "idle" <=> call.pc = "idle")
      BY <2>1, <2>3 DEF Active
    <2> QED
      BY <2>2, <2>3, <2>4, CallTypes DEF ThreadTypes
  <1> QED
    BY <1>1, <1>2, <1>3, <1>4, <1>5, <1>6 DEF CallerAlone

\* They keep the turns.
LEMMA CallerAloneTurn ==
  ASSUME ThreadInv, CallerAlone
  PROVE  ThreadInv'
  <1>1. ThreadTypes' /\ UNCHANGED <<service, abandoned>>
    BY CallerAloneTypes DEF ThreadInv
  <1>2. ASSUME ~abandoned
        PROVE  InTurn'
    BY <1>2, StartedTurn, WaitTurn, ReadPartTurn, AnswerPartTurn, AnswerTakenTurn,
       NotifyCallerTurn DEF CallerAlone
  <1> QED
    BY <1>1, <1>2 DEF ThreadInv

\* A message that was taken: the caller's record is in shape whatever it did with it.
LEMMA AckMessageKeeps ==
  ASSUME ThreadInv, AckMessage
  PROVE  ThreadInv'
  <1>1. /\ call.pc = "copied" /\ ThreadTypes /\ UNCHANGED <<service, thread, toThread>> /\ service
        /\ toParent' = [toParent EXCEPT !.word = 0]
    BY DEF AckMessage, ThreadInv, ThreadTypes
  <1>2. DOMAIN toParent' = DOMAIN toParent
    BY <1>1 DEF ThreadTypes
  <1>3. PICK more : more = [call EXCEPT !.pc = "reading", !.got = << >>]
    OBVIOUS
  <1>4. /\ more.pc = "reading" /\ more.got = << >> /\ more.result = 0 /\ DOMAIN more = DOMAIN call
        /\ more.at = call.at /\ more.parts = call.parts
    BY <1>1, <1>3 DEF ThreadTypes
  <1>5. /\ abandoned' \in BOOLEAN
        /\ abandoned' = abandoned \/ abandoned' = TRUE
        /\ \/ call' = [call EXCEPT !.pc = "reading"]
           \/ call' = more
           \/ \E n \in Parts : call' = [more EXCEPT !.pc = "answer", !.at = 1, !.parts = n]
           \/ \E r : call' = [more EXCEPT !.pc = "idle", !.result = r]
           \/ Throws
    BY <1>1, <1>3 DEF AckMessage, On, ThreadTypes
  <1>6. /\ DOMAIN call' = DOMAIN call /\ call'.parts \in Nat /\ call'.at \in Nat
        /\ ~Active' => call'.got = << >>
        /\ call'.pc # "idle" => call'.result = 0
    <2>1. CASE call' = [call EXCEPT !.pc = "reading"]
      BY <1>1, <2>1 DEF ThreadTypes, Active
    <2>2. CASE call' = more
      BY <1>1, <1>4, <2>2 DEF ThreadTypes
    <2>3. CASE \E n \in Parts : call' = [more EXCEPT !.pc = "answer", !.at = 1, !.parts = n]
      <3>1. PICK n \in Parts : call' = [more EXCEPT !.pc = "answer", !.at = 1, !.parts = n]
        BY <2>3
      <3>2. n \in Nat
        BY SyncThreadBounds DEF Parts
      <3> QED
        BY <1>1, <1>4, <3>1, <3>2 DEF ThreadTypes
    <2>4. CASE \E r : call' = [more EXCEPT !.pc = "idle", !.result = r]
      BY <1>1, <1>4, <2>4 DEF ThreadTypes
    <2>5. CASE Throws
      BY <1>1, <2>5 DEF ThreadTypes, Throws
    <2> QED
      BY <1>5, <2>1, <2>2, <2>3, <2>4, <2>5
  <1>7. ThreadTypes'
    BY <1>1, <1>2, <1>5, <1>6, CallTypes DEF ThreadTypes
  <1>8. ASSUME ~abandoned'
        PROVE  InTurn'
    <2>1. ~abandoned
      BY <1>5, <1>8
    <2> QED
      BY <1>8, <2>1, AckMessageTurn
  <1> QED
    BY <1>7, <1>8 DEF ThreadInv

\* What is of the other door touches nothing of this one.
LEMMA ThreadStays == ThreadInv /\ UNCHANGED threadVars => ThreadInv'
  <1> SUFFICES ASSUME ThreadInv, UNCHANGED threadVars
               PROVE  ThreadInv'
    OBVIOUS
  <1>1. UNCHANGED <<service, thread, toParent, toThread, call, abandoned>>
    BY DEF threadVars
  <1>2. (Active' <=> Active) /\ (Listening' <=> Listening)
    BY <1>1 DEF Active, Listening
  <1>3. ThreadTypes'
    BY <1>1, <1>2 DEF ThreadInv, ThreadTypes
  <1>4. ASSUME ~abandoned
        PROVE  InTurn'
    BY <1>1, <1>2, <1>4, TurnKept DEF ThreadInv
  <1> QED
    BY <1>1, <1>3, <1>4 DEF ThreadInv

\* Every step keeps the thread's invariant.
LEMMA ThreadSteps == ThreadInv /\ [SpawnNext]_spawnVars => ThreadInv'
  <1> SUFFICES ASSUME ThreadInv, [SpawnNext]_spawnVars
               PROVE  ThreadInv'
    OBVIOUS
  <1>1. CASE UNCHANGED threadVars
    BY <1>1, ThreadStays
  <1>2. CASE ThreadNext
    <2>1. \/ ThreadAlone \/ CallerAlone \/ AckMessage \/ Warm \/ RunSyncChild
          \/ NotStarted \/ AnsweredNothing
      BY <1>2 DEF ThreadNext, ThreadStep, CallerStep, ThreadAlone, CallerAlone
    <2>2. CASE NotStarted \/ AnsweredNothing
      BY <2>2, DroppedTurn DEF NotStarted, AnsweredNothing, TimedOut
    <2> QED
      BY <2>1, <2>2, ThreadAloneTurn, CallerAloneTurn, AckMessageKeeps, WarmTurn, RunSyncChildTurn
  <1> QED
    BY <1>1, <1>2 DEF SpawnNext, spawnVars

\* It holds always.
LEMMA ThreadHolds == SpawnSpec => []ThreadInv
  <1>1. SpawnInit => ThreadInv
    BY ThreadStart DEF SpawnInit
  <1> QED
    BY <1>1, ThreadSteps, PTL DEF SpawnSpec

\* The thread's route (src/shims/sync-child.ts): for any number of calls and any cut
\* of a message into parts, what runSyncChild holds at the last part is one whole
\* message of the child it started, what the child's call gets back is one whole
\* answer, and the result is its own child's end.
THEOREM MessagesCross == SpawnSpec => []MessagesWhole
  <1>1. ThreadInv => MessagesWhole
    <2> SUFFICES ASSUME ThreadInv, ~abandoned
                 PROVE  MessagesWhole
      BY DEF MessagesWhole
    <2>1. PICK j : j = thread.job
      OBVIOUS
    <2>2. ASSUME call.pc = "copied", toParent.word = 1
          PROVE  Whole(call.got) /\ call.got[1].of = call.k
      <3>1. /\ j.k = call.k /\ j.parts \in Nat \ {0} /\ j.at \in 1 .. j.parts
            /\ toParent.word = Word(j.at, j.parts) /\ call.got = Said(j.at)
        BY <2>1, <2>2, CopiedIs
      <3>2. j.at = j.parts
        BY <2>2, <3>1, WordIs
      <3>3. call.got = PartsOf(j.t, j.k, j.parts, j.parts)
        BY <2>1, <3>1, <3>2 DEF Said
      <3> QED
        BY <3>1, <3>3, WholeParts
    <2>3. ASSUME j.phase = "ack", toThread.word = 1
          PROVE  Whole(j.got)
      <3>1. Answering
        BY <2>1, <2>3 DEF ThreadInv, InTurn, Silent, Speaking, Told
      <3>2. /\ call.parts \in Nat \ {0} /\ call.at \in 1 .. call.parts
            /\ toThread.word = Word(call.at, call.parts) /\ j.got = Answer(call.at)
        <4>1. call.parts \in Nat /\ call.at \in 1 .. call.parts
          BY <3>1 DEF Answering, ThreadInv, ThreadTypes
        <4>2. call.parts # 0
          BY <4>1
        <4> QED
          BY <2>1, <2>3, <3>1, <4>1, <4>2 DEF Answering, Holds
      <3>3. call.at = call.parts
        BY <2>3, <3>2, WordIs
      <3>4. j.got = PartsOf("answer", 0, call.parts, call.parts)
        BY <3>2, <3>3 DEF Answer
      <3> QED
        BY <3>2, <3>4, WholeParts
    <2>4. call.result \in {0, call.k}
      BY DEF ThreadInv, InTurn
    <2> QED
      BY <2>1, <2>2, <2>3, <2>4 DEF MessagesWhole
  <1> QED
    BY <1>1, ThreadHolds, PTL

================================================================================
