-------------------------------- MODULE MCRuns --------------------------------
(****************************************************************************)
(* A run of a program and what a program has of spawnSync, for TLC.  They     *)
(* share no state: each is explored with the other as it began, which is a    *)
(* run nobody registered.                                                     *)
(****************************************************************************)
EXTENDS NodeRun, SpawnSync

VARIABLE part   \* the one explored

RunsInit ==
  /\ Init /\ SpawnInit /\ part \in {"run", "spawn"}
  /\ part = "run" => route = "host" /\ ~spawn.timed /\ ~spawn.limited
  /\ part = "spawn" => ~named /\ ~held

RunsNext ==
  \/ part = "run" /\ Next /\ UNCHANGED <<spawnVars, part>>
  \/ part = "spawn" /\ SpawnNext /\ UNCHANGED <<vars, part>>

(* Fairness and SpawnFairness.  Of a run, a thread's call and a host's spawn   *)
(* one alone is explored, so that a condition on steps of different ones is    *)
(* the conjunction of theirs; stated together they are cheaper to check.       *)
Run(A) == part = "run" /\ A /\ UNCHANGED <<spawnVars, part>>
Call(A) == part = "spawn" /\ Thread(A) /\ UNCHANGED <<vars, part>>
Spawn(A) == part = "spawn" /\ Host(A) /\ UNCHANGED <<vars, part>>

runsVars == <<vars, spawnVars, part>>

RunsFairness ==
  /\ SF_runsVars(Run(Launcher) \/ Call(ChildSays("done")) \/ Spawn(SendInput))
  /\ SF_runsVars(Spawn(ReadOutput \/ ReadEnd))
  /\ WF_runsVars(Run(Leave) \/ Call(ThreadStep) \/ Spawn(DrainStep))
  /\ WF_runsVars(Run(Turn /\ micro' < micro) \/ Call(CallerStep) \/ Spawn(HostStarts))
  /\ WF_runsVars(Spawn(HostAnswers)) /\ WF_runsVars(Spawn(TimePasses))
  /\ WF_runsVars(Spawn(ChildEnds))

RunsSpec == RunsInit /\ [][RunsNext]_runsVars /\ RunsFairness
==============================================================================
