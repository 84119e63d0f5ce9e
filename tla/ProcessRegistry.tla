---------------------------- MODULE ProcessRegistry ----------------------------
(****************************************************************************)
(* The engine's own process registry (src/process-registry.ts): one owner     *)
(* holds the numbers and the live table, and every realm works through a      *)
(* scope of its own.  An operation of a closed scope throws and changes       *)
(* nothing, so every action asks that its scope is open; so do the other      *)
(* conditions under which the code throws before it has changed anything.     *)
(*                                                                           *)
(* signalGroup calls each member's handler, and a handler may publish, forget *)
(* or dispose before it returns: the delivery is a step per member, with any  *)
(* other operation in between.                                                *)
(****************************************************************************)
EXTENDS Integers, FiniteSets

CONSTANTS
  Scopes,     \* the realms' scopes
  RunTokens,  \* run tokens, unique to a scope's runs
  MaxPid,     \* 0x7fffffff
  FirstPid,   \* the counter's first number
  MaxRuns     \* bound: publications

ASSUME RegistryAssumption ==
  /\ MaxPid \in Nat /\ FirstPid \in 2 .. MaxPid
  /\ MaxRuns \in Nat
  /\ "none" \notin Scopes

Pids == 2 .. MaxPid
NoPid == 0

\* A published identity; `run` tells two objects with the same fields apart.
Identity == [pid : Pids, ppid : 0 .. MaxPid, pgid : 1 .. MaxPid, run : 1 .. MaxRuns]
NoRun == [run |-> 0]

VARIABLES
  nextPid, allocator,  \* the counter, and whether an allocator replaced it
  numbers,             \* every number a scope holds
  live,                \* pid -> the identity that is live under it
  receivers,           \* pid -> the scope that answers for it
  allocated, claimed,  \* per scope: the numbers it holds, those the embedder gave
  runs,                \* per scope: token -> identity
  disposed, handler,   \* per scope: closed, and whether it takes signals
  group,               \* the signalGroup under way: [pgid, left], left the members not yet reached
  published,           \* history: how many runs were published
  leads,               \* history: per scope, the groups its own processes started
  reached              \* the signal this step delivered: its process, scope and group

owner == <<nextPid, allocator, numbers, live, receivers>>
realm == <<allocated, claimed, runs, disposed, handler>>
registryVars == <<owner, realm, group, published, leads, reached>>

NoScope == "none"
NoGroup == [pgid |-> 0, left |-> {}]
Unsignalled == [id |-> NoRun, scope |-> NoScope, for |-> NoGroup]

RegistryInit ==
  /\ nextPid = FirstPid /\ allocator = FALSE
  /\ numbers = {}
  /\ live = [p \in Pids |-> NoRun]
  /\ receivers = [p \in Pids |-> NoScope]
  /\ allocated = [s \in Scopes |-> {}]
  /\ claimed = [s \in Scopes |-> {}]
  /\ runs = [s \in Scopes |-> [k \in RunTokens |-> NoRun]]
  /\ disposed = [s \in Scopes |-> FALSE]
  /\ handler = [s \in Scopes |-> FALSE]
  /\ group = NoGroup
  /\ published = 0 /\ leads = [s \in Scopes |-> {}] /\ reached = Unsignalled

\* A step that delivers no signal.
Quiet == reached' = Unsignalled

LivePids == {p \in Pids : live[p] # NoRun}

----------------------------------------------------------------------------
(* Numbers                                                                  *)

HoldNumber(s, p) ==
  /\ allocated' = [allocated EXCEPT ![s] = @ \cup {p}]
  /\ numbers' = numbers \cup {p}

\* A number not held and not live: from the counter, which passes over those, or
\* from the allocator, asked until it names one.  An allocator's number may be one
\* that was handed out before, and so may a claimed one.
Candidate(p) ==
  /\ p \notin numbers \cup LivePids
  /\ ~allocator => p >= nextPid /\ nextPid .. p - 1 \subseteq numbers \cup LivePids

\* Mutant of Allocate: the counter's number is taken without a look at those held
\* or at the last number there is.
AllocateBlind(s) ==
  /\ ~disposed[s]
  /\ HoldNumber(s, nextPid)
  /\ nextPid' = nextPid + 1
  /\ UNCHANGED <<allocator, live, receivers, claimed, runs, disposed, handler,
                 group, published, leads>>
  /\ Quiet

Allocate(s) ==
  /\ ~disposed[s]
  /\ \E p \in Pids :
       /\ Candidate(p)
       /\ HoldNumber(s, p)
       /\ nextPid' = IF allocator THEN nextPid ELSE p + 1
  /\ UNCHANGED <<allocator, live, receivers, claimed, runs, disposed, handler,
                 group, published, leads>>
  /\ Quiet

\* The embedder's own number for a run.
Claimable(s, p) ==
  /\ ~disposed[s]
  /\ p \notin numbers \cup LivePids

Claim(s, p) ==
  /\ Claimable(s, p)
  /\ HoldNumber(s, p)
  /\ claimed' = [claimed EXCEPT ![s] = @ \cup {p}]
  /\ UNCHANGED <<nextPid, allocator, live, receivers, runs, disposed, handler,
                 group, published, leads>>
  /\ Quiet

InstallAllocator ==
  /\ ~allocator
  /\ allocator' = TRUE
  /\ UNCHANGED <<nextPid, numbers, live, receivers, realm, group, published, leads>>
  /\ Quiet

----------------------------------------------------------------------------
(* Runs                                                                     *)

ScopeRuns(s) == {runs[s][k] : k \in RunTokens} \ {NoRun}

\* The group a child starts in: its parent's, or its own.
Inherited(s, p, parent) ==
  IF \E r \in ScopeRuns(s) : r.pid = parent
  THEN (CHOOSE r \in ScopeRuns(s) : r.pid = parent).pgid
  ELSE p

\* The conditions under which publish keeps an identity; `mine` and `own` are the
\* scope's numbers and those the embedder gave.
Publishable(s, k, p, parent, pgid, mine, own) ==
  /\ ~disposed[s]
  /\ runs[s][k] = NoRun
  /\ p \in mine /\ p \notin LivePids
  /\ parent = NoPid \/ p \in own \/ \E r \in ScopeRuns(s) : r.pid = parent
  /\ pgid \in {p, Inherited(s, p, parent)}

Enter(s, k, p, parent, pgid) ==
  LET id == [pid |-> p, ppid |-> parent, pgid |-> pgid, run |-> published + 1]
  IN  /\ published < MaxRuns
      /\ published' = published + 1
      /\ runs' = [runs EXCEPT ![s][k] = id]
      /\ live' = [live EXCEPT ![p] = id]
      /\ receivers' = [receivers EXCEPT ![p] = s]
      /\ leads' = IF pgid = p THEN [leads EXCEPT ![s] = @ \cup {p}] ELSE leads

\* Mutant of Publish: any group of the caller's choice.
PublishAnyGroup(s, k, p, parent, pgid) ==
  /\ Publishable(s, k, p, parent, p, allocated[s], claimed[s])
  /\ Enter(s, k, p, parent, pgid)
  /\ UNCHANGED <<nextPid, allocator, numbers, allocated, claimed, disposed, handler,
                 group>>
  /\ Quiet

Publish(s, k, p, parent, pgid) ==
  /\ Publishable(s, k, p, parent, pgid, allocated[s], claimed[s])
  /\ Enter(s, k, p, parent, pgid)
  /\ UNCHANGED <<nextPid, allocator, numbers, allocated, claimed, disposed, handler,
                 group>>
  /\ Quiet

\* exec: the number is claimed, then the run published; where the publication
\* throws, the number stays claimed.
Exec(s, k, p, parent, pgid) ==
  /\ Claimable(s, p)
  /\ HoldNumber(s, p)
  /\ claimed' = [claimed EXCEPT ![s] = @ \cup {p}]
  /\ IF Publishable(s, k, p, parent, pgid, allocated[s] \cup {p}, claimed[s] \cup {p})
     THEN Enter(s, k, p, parent, pgid)
     ELSE UNCHANGED <<runs, live, receivers, published, leads>>
  /\ UNCHANGED <<nextPid, allocator, disposed, handler, group>>
  /\ Quiet

\* Mutant of Forget: the run goes, its number is free, and its entry stays live.
ForgetLeavesLive(s, k) ==
  /\ ~disposed[s] /\ runs[s][k] # NoRun
  /\ LET p == runs[s][k].pid
     IN  /\ allocated' = [allocated EXCEPT ![s] = @ \ {p}]
         /\ claimed' = [claimed EXCEPT ![s] = @ \ {p}]
         /\ numbers' = numbers \ {p}
  /\ runs' = [runs EXCEPT ![s][k] = NoRun]
  /\ UNCHANGED <<live, receivers, nextPid, allocator, disposed, handler, group, published, leads>>
  /\ Quiet

Forget(s, k) ==
  /\ ~disposed[s] /\ runs[s][k] # NoRun
  /\ LET p == runs[s][k].pid
     IN  /\ live' = [live EXCEPT ![p] = NoRun]
         /\ receivers' = [receivers EXCEPT ![p] = NoScope]
         /\ allocated' = [allocated EXCEPT ![s] = @ \ {p}]
         /\ claimed' = [claimed EXCEPT ![s] = @ \ {p}]
         /\ numbers' = numbers \ {p}
  /\ runs' = [runs EXCEPT ![s][k] = NoRun]
  /\ UNCHANGED <<nextPid, allocator, disposed, handler, group, published, leads>>
  /\ Quiet

\* The realm's end, abrupt or not: what it ran is no longer live, and what it held
\* is free.
Dispose(s) ==
  /\ ~disposed[s]
  /\ disposed' = [disposed EXCEPT ![s] = TRUE]
  /\ LET gone == {r.pid : r \in ScopeRuns(s)}
     IN  /\ live' = [p \in Pids |-> IF p \in gone THEN NoRun ELSE live[p]]
         /\ receivers' = [p \in Pids |-> IF p \in gone THEN NoScope ELSE receivers[p]]
  /\ numbers' = numbers \ allocated[s]
  /\ handler' = [handler EXCEPT ![s] = FALSE]
  /\ runs' = [runs EXCEPT ![s] = [k \in RunTokens |-> NoRun]]
  /\ allocated' = [allocated EXCEPT ![s] = {}]
  /\ claimed' = [claimed EXCEPT ![s] = {}]
  /\ UNCHANGED <<nextPid, allocator, group, published, leads>>
  /\ Quiet

----------------------------------------------------------------------------
(* Signals                                                                  *)

ReceiveSignals(s) ==
  /\ ~disposed[s]
  /\ handler' = [handler EXCEPT ![s] = TRUE]
  /\ UNCHANGED <<owner, allocated, claimed, runs, disposed, group, published, leads>>
  /\ Quiet

\* The handler of the scope that answers for p is called with p.
Takes(p) == receivers[p] # NoScope /\ handler[receivers[p]]
Reach(p, for) == reached' = [id |-> live[p], scope |-> receivers[p], for |-> for]

Signal(s, p) ==
  /\ ~disposed[s]
  /\ p \in LivePids /\ Takes(p)
  /\ Reach(p, NoGroup)
  /\ UNCHANGED <<owner, realm, group, published, leads>>

\* signalGroup's snapshot of the members, in whatever order.
SignalGroup(s, pgid) ==
  /\ ~disposed[s] /\ group = NoGroup
  /\ LET members == {live[p] : p \in {q \in LivePids : live[q].pgid = pgid}}
     IN  members # {} /\ group' = [pgid |-> pgid, left |-> members]
  /\ UNCHANGED <<owner, realm, published, leads>>
  /\ Quiet

\* Mutant of DeliverNext: a number is signalled, whoever it is by now.
DeliverNextByNumber ==
  /\ \E id \in group.left :
       /\ group' = IF group.left = {id} THEN NoGroup ELSE [group EXCEPT !.left = @ \ {id}]
       /\ IF live[id.pid] # NoRun /\ Takes(id.pid)
          THEN Reach(id.pid, group)
          ELSE Quiet
  /\ UNCHANGED <<owner, realm, published, leads>>

DeliverNext ==
  /\ \E id \in group.left :
       /\ group' = IF group.left = {id} THEN NoGroup ELSE [group EXCEPT !.left = @ \ {id}]
       /\ IF live[id.pid] = id /\ Takes(id.pid)
          THEN Reach(id.pid, group)
          ELSE Quiet
  /\ UNCHANGED <<owner, realm, published, leads>>

RegistryNext ==
  \/ \E s \in Scopes : Allocate(s) \/ ReceiveSignals(s) \/ Dispose(s)
  \/ \E s \in Scopes, p \in Pids : Claim(s, p) \/ Signal(s, p)
  \/ \E s \in Scopes, k \in RunTokens, p \in Pids, parent \in {NoPid} \cup Pids, pgid \in Pids :
       Publish(s, k, p, parent, pgid) \/ Exec(s, k, p, parent, pgid)
  \/ \E s \in Scopes, k \in RunTokens : Forget(s, k)
  \/ \E s \in Scopes, pgid \in Pids : SignalGroup(s, pgid)
  \/ DeliverNext
  \/ InstallAllocator

RegistrySpec == RegistryInit /\ [][RegistryNext]_registryVars
----------------------------------------------------------------------------
(* Properties                                                               *)

\* Every table has its type.
RegistryTypeOK ==
  /\ nextPid \in FirstPid .. MaxPid + 1 /\ allocator \in BOOLEAN
  /\ numbers \subseteq Pids
  /\ live \in [Pids -> Identity \cup {NoRun}]
  /\ receivers \in [Pids -> Scopes \cup {NoScope}]
  /\ allocated \in [Scopes -> SUBSET Pids] /\ claimed \in [Scopes -> SUBSET Pids]
  /\ runs \in [Scopes -> [RunTokens -> Identity \cup {NoRun}]]
  /\ disposed \in [Scopes -> BOOLEAN] /\ handler \in [Scopes -> BOOLEAN]
  /\ group \in [pgid : 0 .. MaxPid, left : SUBSET Identity]
  /\ published \in 0 .. MaxRuns /\ leads \in [Scopes -> SUBSET Pids]

\* No two scopes share a number, and the owner's set is exactly what the scopes
\* hold: whichever way numbers come, are forgotten or end with their realm, none
\* leaks and none is free while a scope still has it.
NumbersAreOwned ==
  /\ \A s, t \in Scopes : s # t => allocated[s] \cap allocated[t] = {}
  /\ numbers = UNION {allocated[s] : s \in Scopes}
  /\ \A s \in Scopes : claimed[s] \subseteq allocated[s]

\* A process is live exactly while one run of one scope has it: the live table, the
\* scopes' runs and the table of receivers say the same.
LiveIsRun ==
  /\ \A p \in LivePids : \E k \in RunTokens :
       receivers[p] # NoScope /\ runs[receivers[p]][k] = live[p]
  /\ \A p \in Pids : live[p] = NoRun => receivers[p] = NoScope
  /\ \A s \in Scopes, k \in RunTokens : LET r == runs[s][k] IN
       r # NoRun => r.pid \in allocated[s] /\ live[r.pid] = r /\ receivers[r.pid] = s

\* A signal reaches the process that was meant: the handler called is that of the
\* scope running the process now, and a group's signal reaches only a process that
\* was a member when it was sent, even where a handler ended members and their
\* numbers went to others meanwhile.
SignalsReachTheirProcess ==
  [][reached' # Unsignalled =>
       LET to == reached'
       IN  /\ \E k \in RunTokens : runs[to.scope][k] = to.id
           /\ ~disposed[to.scope]
           /\ to.for # NoGroup => to.id \in to.for.left]_registryVars

\* A process is in a group that its own realm started: a child is given its parent's
\* group or its own and nothing else, whichever realm a number belonged to before,
\* and whether the group's leader still lives or not.
GroupsHaveLeaders == \A p \in LivePids : live[p].pgid \in leads[receivers[p]]
================================================================================
