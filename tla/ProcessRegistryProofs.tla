------------------------- MODULE ProcessRegistryProofs -------------------------
(****************************************************************************)
(* For any number of realms, runs and process numbers: no two realms share a  *)
(* number, the live table and the realms' runs agree, a process is in a group *)
(* its own realm began, and a signal reaches the process it was meant for.    *)
(****************************************************************************)
EXTENDS ProcessRegistry, TLAPS

\* What makes the agreement inductive: an entry is filed under its own number, and
\* no two tokens of a scope name one run.
PidsMatch == \A p \in LivePids : live[p].pid = p
OneToken  == \A s \in Scopes, j, k \in RunTokens :
               runs[s][j] = runs[s][k] /\ runs[s][j] # NoRun => j = k

RegistryInv == RegistryTypeOK /\ NumbersAreOwned /\ LiveIsRun /\ PidsMatch /\ OneToken

\* An identity is never the absence of one.
LEMMA IdentityIsRun ==
  ASSUME NEW r \in Identity
  PROVE  /\ r # NoRun /\ r.pid \in Pids /\ r.pgid \in 1 .. MaxPid
         /\ r.run \in 1 .. MaxRuns /\ r.ppid \in 0 .. MaxPid
  <1>1. r.run \in 1 .. MaxRuns
    BY DEF Identity
  <1>2. NoRun.run = 0
    BY DEF NoRun
  <1>3. r # NoRun
    BY <1>1, <1>2
  <1> QED
    BY <1>1, <1>3 DEF Identity

\* The empty registry.
LEMMA InitRegistry == RegistryInit => RegistryInv
  <1> SUFFICES ASSUME RegistryInit PROVE RegistryInv
    OBVIOUS
  <1> USE RegistryAssumption DEF RegistryInit
  <1>1. RegistryTypeOK
    <2>1. nextPid \in FirstPid .. MaxPid + 1 /\ published \in 0 .. MaxRuns
      OBVIOUS
    <2>2. group \in [pgid : 0 .. MaxPid, left : SUBSET Identity]
      BY DEF NoGroup
    <2> QED
      BY <2>1, <2>2 DEF RegistryTypeOK
  <1>2. NumbersAreOwned
    BY DEF NumbersAreOwned
  <1>3. LiveIsRun
    BY DEF LiveIsRun, LivePids
  <1>4. PidsMatch /\ OneToken
    BY DEF PidsMatch, OneToken, LivePids
  <1> QED
    BY <1>1, <1>2, <1>3, <1>4 DEF RegistryInv

\* Holding a free number keeps the scopes' numbers apart.
LEMMA HoldOwned ==
  ASSUME RegistryInv, NEW s \in Scopes, NEW p \in Pids, p \notin numbers, HoldNumber(s, p),
         claimed' = claimed \/ claimed' = [claimed EXCEPT ![s] = @ \cup {p}]
  PROVE  /\ NumbersAreOwned'
         /\ allocated' \in [Scopes -> SUBSET Pids] /\ claimed' \in [Scopes -> SUBSET Pids]
         /\ numbers' \subseteq Pids
         /\ \A t \in Scopes : allocated[t] \subseteq allocated'[t]
  <1>0. allocated \in [Scopes -> SUBSET Pids] /\ allocated' = [allocated EXCEPT ![s] = @ \cup {p}]
    BY DEF RegistryInv, RegistryTypeOK, HoldNumber
  <1>1. \A t \in Scopes : allocated'[t] = IF t = s THEN allocated[t] \cup {p} ELSE allocated[t]
    BY <1>0
  <1> USE DEF RegistryInv, RegistryTypeOK, NumbersAreOwned, HoldNumber
  <1>2. \A t \in Scopes : p \notin allocated[t]
    OBVIOUS
  <1>3. \A t, u \in Scopes : t # u => allocated'[t] \cap allocated'[u] = {}
    BY <1>1, <1>2
  <1>4. numbers' = UNION {allocated'[t] : t \in Scopes}
    <2>1. ASSUME NEW q \in numbers' PROVE q \in UNION {allocated'[t] : t \in Scopes}
      BY <1>1, <2>1
    <2>2. ASSUME NEW q \in UNION {allocated'[t] : t \in Scopes} PROVE q \in numbers'
      BY <1>1, <2>2
    <2> QED
      BY <2>1, <2>2
  <1>5. \A t \in Scopes : claimed'[t] \subseteq allocated'[t]
    BY <1>1
  <1> QED
    BY <1>1, <1>3, <1>4, <1>5

\* A step that leaves the live table, the receivers and the runs alone, and takes
\* no number from a scope, keeps their agreement.
LEMMA LiveFrame ==
  ASSUME RegistryInv, UNCHANGED <<live, receivers, runs>>,
         \A s \in Scopes : allocated[s] \subseteq allocated'[s]
  PROVE  LiveIsRun' /\ PidsMatch' /\ OneToken'
  BY DEF RegistryInv, LiveIsRun, LivePids, PidsMatch, OneToken

\* Entering a run under a number its scope holds and nothing is live under.
LEMMA EnterLive ==
  ASSUME RegistryInv, NEW s \in Scopes, NEW k \in RunTokens, NEW p \in Pids,
         NEW parent \in {NoPid} \cup Pids, NEW pgid \in Pids,
         runs[s][k] = NoRun, p \notin LivePids, p \in allocated'[s],
         \A t \in Scopes : allocated[t] \subseteq allocated'[t],
         Enter(s, k, p, parent, pgid)
  PROVE  /\ LiveIsRun' /\ PidsMatch' /\ OneToken'
         /\ live' \in [Pids -> Identity \cup {NoRun}]
         /\ receivers' \in [Pids -> Scopes \cup {NoScope}]
         /\ runs' \in [Scopes -> [RunTokens -> Identity \cup {NoRun}]]
         /\ published' \in 0 .. MaxRuns /\ leads' \in [Scopes -> SUBSET Pids]
  <1> DEFINE id == [pid |-> p, ppid |-> parent, pgid |-> pgid, run |-> published + 1]
  <1>1. id \in Identity
    BY RegistryAssumption DEF RegistryInv, RegistryTypeOK, Enter, Identity, Pids, NoPid
  <1>2. id # NoRun /\ id.pid = p
    BY <1>1, IdentityIsRun
  <1>3. /\ runs' = [runs EXCEPT ![s][k] = id] /\ live' = [live EXCEPT ![p] = id]
        /\ receivers' = [receivers EXCEPT ![p] = s]
        /\ published' \in 0 .. MaxRuns
    BY RegistryAssumption DEF Enter, RegistryInv, RegistryTypeOK
  <1>13. leads' \in [Scopes -> SUBSET Pids]
    BY DEF Enter, RegistryInv, RegistryTypeOK
  <1> HIDE DEF id
  <1>4. /\ live' \in [Pids -> Identity \cup {NoRun}]
        /\ receivers' \in [Pids -> Scopes \cup {NoScope}]
        /\ runs' \in [Scopes -> [RunTokens -> Identity \cup {NoRun}]]
    BY <1>1, <1>3 DEF RegistryInv, RegistryTypeOK
  <1>5. /\ live'[p] = id /\ receivers'[p] = s /\ runs'[s][k] = id
        /\ \A q \in Pids \ {p} : live'[q] = live[q] /\ receivers'[q] = receivers[q]
        /\ \A t \in Scopes, j \in RunTokens : t # s \/ j # k => runs'[t][j] = runs[t][j]
    BY <1>3 DEF RegistryInv, RegistryTypeOK
  <1>6. live[p] = NoRun
    BY DEF LivePids
  <1>7. ASSUME NEW q \in LivePids'
        PROVE  \E j \in RunTokens : receivers'[q] # NoScope /\ runs'[receivers'[q]][j] = live'[q]
    <2>1. CASE q = p
      BY <1>5, <2>1, RegistryAssumption DEF NoScope
    <2>2. CASE q # p
      <3>1. q \in Pids /\ q \in LivePids /\ live'[q] = live[q] /\ receivers'[q] = receivers[q]
        BY <1>5, <2>2 DEF LivePids
      <3>2. PICK j \in RunTokens : receivers[q] # NoScope /\ runs[receivers[q]][j] = live[q]
        BY <3>1 DEF RegistryInv, LiveIsRun
      <3>3. receivers[q] \in Scopes /\ live[q] # NoRun
        BY <3>1, <3>2 DEF RegistryInv, RegistryTypeOK, LivePids
      <3>4. receivers[q] # s \/ j # k
        BY <3>2, <3>3
      <3> QED
        BY <1>5, <3>1, <3>2, <3>3, <3>4
    <2> QED
      BY <2>1, <2>2
  <1>8. \A q \in Pids : live'[q] = NoRun => receivers'[q] = NoScope
    BY <1>2, <1>5 DEF RegistryInv, LiveIsRun
  <1>9. ASSUME NEW t \in Scopes, NEW j \in RunTokens, runs'[t][j] # NoRun
        PROVE  /\ runs'[t][j].pid \in allocated'[t]
               /\ live'[runs'[t][j].pid] = runs'[t][j] /\ receivers'[runs'[t][j].pid] = t
    <2>1. CASE t = s /\ j = k
      BY <1>2, <1>5, <2>1
    <2>2. CASE t # s \/ j # k
      <3> DEFINE r == runs[t][j]
      <3>1. runs'[t][j] = r /\ r # NoRun /\ r \in Identity
        BY <1>5, <1>9, <2>2 DEF RegistryInv, RegistryTypeOK
      <3>2. r.pid \in allocated[t] /\ live[r.pid] = r /\ receivers[r.pid] = t /\ r.pid \in Pids
        BY <3>1, IdentityIsRun DEF RegistryInv, LiveIsRun
      <3>3. r.pid # p
        BY <1>6, <3>1, <3>2
      <3> QED
        BY <1>5, <3>1, <3>2, <3>3
    <2> QED
      BY <2>1, <2>2
  <1>10. LiveIsRun'
    BY <1>7, <1>8, <1>9 DEF LiveIsRun
  <1>11. PidsMatch'
    BY <1>2, <1>5 DEF RegistryInv, PidsMatch, LivePids
  <1>12. OneToken'
    <2> SUFFICES ASSUME NEW t \in Scopes, NEW i \in RunTokens, NEW j \in RunTokens,
                        runs'[t][i] = runs'[t][j], runs'[t][i] # NoRun
                 PROVE  i = j
      BY DEF OneToken
    <2>1. \A q \in RunTokens : runs[t][q] # id
      <3> SUFFICES ASSUME NEW q \in RunTokens, runs[t][q] = id PROVE FALSE
        OBVIOUS
      <3> QED
        BY <1>2, <1>6 DEF RegistryInv, LiveIsRun
    <2> QED
      BY <1>5, <2>1 DEF RegistryInv, OneToken
  <1> QED
    BY <1>3, <1>4, <1>10, <1>11, <1>12, <1>13

\* A run that is forgotten takes its number, its live entry and its receiver with
\* it, and no other run's.
LEMMA ForgetKeeps ==
  ASSUME RegistryInv, NEW s \in Scopes, NEW k \in RunTokens, Forget(s, k)
  PROVE  RegistryInv'
  <1> DEFINE r == runs[s][k]
             p == r.pid
  <1>1. /\ r \in Identity /\ p \in Pids /\ p \in allocated[s]
        /\ live[p] = r /\ receivers[p] = s
    BY IdentityIsRun DEF Forget, RegistryInv, RegistryTypeOK, LiveIsRun
  <1>2. /\ live' = [live EXCEPT ![p] = NoRun] /\ receivers' = [receivers EXCEPT ![p] = NoScope]
        /\ allocated' = [allocated EXCEPT ![s] = @ \ {p}]
        /\ claimed' = [claimed EXCEPT ![s] = @ \ {p}]
        /\ numbers' = numbers \ {p} /\ runs' = [runs EXCEPT ![s][k] = NoRun]
        /\ UNCHANGED <<nextPid, allocator, disposed, handler, group, published, leads>>
    BY DEF Forget
  <1> HIDE DEF p
  <1>3. RegistryTypeOK'
    BY <1>2 DEF RegistryInv, RegistryTypeOK
  <1>4. /\ \A t \in Scopes : allocated'[t] = IF t = s THEN allocated[t] \ {p} ELSE allocated[t]
        /\ \A t \in Scopes : claimed'[t] = IF t = s THEN claimed[t] \ {p} ELSE claimed[t]
    BY <1>2 DEF RegistryInv, RegistryTypeOK
  <1>5. NumbersAreOwned'
    <2>1. \A t \in Scopes : t # s => p \notin allocated[t]
      BY <1>1 DEF RegistryInv, NumbersAreOwned
    <2>2. ASSUME NEW q \in numbers' PROVE q \in UNION {allocated'[t] : t \in Scopes}
      BY <1>2, <1>4, <2>2 DEF RegistryInv, NumbersAreOwned
    <2>3. ASSUME NEW q \in UNION {allocated'[t] : t \in Scopes} PROVE q \in numbers'
      <3>1. PICK t \in Scopes : q \in allocated'[t]
        BY <2>3
      <3>2. q \in allocated[t] /\ q # p
        BY <1>4, <2>1, <3>1
      <3> QED
        BY <1>2, <3>2 DEF RegistryInv, NumbersAreOwned
    <2>4. \A t \in Scopes : claimed'[t] \subseteq allocated'[t]
      BY <1>4 DEF RegistryInv, NumbersAreOwned
    <2>5. \A t, u \in Scopes : t # u => allocated'[t] \cap allocated'[u] = {}
      BY <1>4 DEF RegistryInv, NumbersAreOwned
    <2> QED
      BY <2>2, <2>3, <2>4, <2>5 DEF NumbersAreOwned
  <1>6. /\ live'[p] = NoRun /\ receivers'[p] = NoScope /\ runs'[s][k] = NoRun
        /\ \A q \in Pids \ {p} : live'[q] = live[q] /\ receivers'[q] = receivers[q]
        /\ \A t \in Scopes, j \in RunTokens : t # s \/ j # k => runs'[t][j] = runs[t][j]
    BY <1>1, <1>2 DEF RegistryInv, RegistryTypeOK
  <1>7. ASSUME NEW q \in LivePids'
        PROVE  \E j \in RunTokens : receivers'[q] # NoScope /\ runs'[receivers'[q]][j] = live'[q]
    <2>1. q \in Pids /\ q # p /\ q \in LivePids /\ live'[q] = live[q] /\ receivers'[q] = receivers[q]
      BY <1>6 DEF LivePids
    <2>2. PICK j \in RunTokens : receivers[q] # NoScope /\ runs[receivers[q]][j] = live[q]
      BY <2>1 DEF RegistryInv, LiveIsRun
    <2>3. receivers[q] \in Scopes /\ live[q] # NoRun
      BY <2>1, <2>2 DEF RegistryInv, RegistryTypeOK, LivePids
    <2>4. live[q].pid = q
      BY <2>1 DEF RegistryInv, PidsMatch
    <2>5. receivers[q] # s \/ j # k
      BY <2>1, <2>2, <2>4 DEF p
    <2> QED
      BY <1>6, <2>1, <2>2, <2>3, <2>5
  <1>8. \A q \in Pids : live'[q] = NoRun => receivers'[q] = NoScope
    BY <1>6 DEF RegistryInv, LiveIsRun
  <1>9. ASSUME NEW t \in Scopes, NEW j \in RunTokens, runs'[t][j] # NoRun
        PROVE  /\ runs'[t][j].pid \in allocated'[t]
               /\ live'[runs'[t][j].pid] = runs'[t][j] /\ receivers'[runs'[t][j].pid] = t
    <2> DEFINE x == runs[t][j]
    <2>1. (t # s \/ j # k) /\ runs'[t][j] = x /\ x # NoRun /\ x \in Identity
      BY <1>6, <1>9 DEF RegistryInv, RegistryTypeOK
    <2>2. x.pid \in allocated[t] /\ live[x.pid] = x /\ receivers[x.pid] = t /\ x.pid \in Pids
      BY <2>1, IdentityIsRun DEF RegistryInv, LiveIsRun
    <2>3. x.pid # p
      <3> SUFFICES ASSUME x.pid = p PROVE FALSE
        OBVIOUS
      <3>1. x = r /\ t = s
        BY <1>1, <2>2
      <3> QED
        BY <2>1, <3>1 DEF RegistryInv, OneToken
    <2> HIDE DEF x, p
    <2>4. live'[x.pid] = live[x.pid] /\ receivers'[x.pid] = receivers[x.pid]
      BY <1>6, <2>2, <2>3
    <2>5. x.pid \in allocated'[t]
      BY <1>4, <2>2, <2>3
    <2> QED
      BY <2>1, <2>2, <2>4, <2>5
  <1>10. LiveIsRun'
    BY <1>7, <1>8, <1>9 DEF LiveIsRun
  <1>11. PidsMatch' /\ OneToken'
    BY <1>6 DEF RegistryInv, PidsMatch, OneToken, LivePids
  <1> QED
    BY <1>3, <1>5, <1>10, <1>11 DEF RegistryInv

\* A realm's end takes exactly its own runs and numbers with it.
LEMMA DisposeKeeps ==
  ASSUME RegistryInv, NEW s \in Scopes, Dispose(s)
  PROVE  RegistryInv'
  <1> DEFINE gone == {r.pid : r \in ScopeRuns(s)}
  <1>1. /\ live' = [p \in Pids |-> IF p \in gone THEN NoRun ELSE live[p]]
        /\ receivers' = [p \in Pids |-> IF p \in gone THEN NoScope ELSE receivers[p]]
        /\ numbers' = numbers \ allocated[s]
        /\ runs' = [runs EXCEPT ![s] = [k \in RunTokens |-> NoRun]]
        /\ allocated' = [allocated EXCEPT ![s] = {}]
        /\ claimed' = [claimed EXCEPT ![s] = {}]
        /\ disposed' = [disposed EXCEPT ![s] = TRUE]
        /\ handler' = [handler EXCEPT ![s] = FALSE]
        /\ UNCHANGED <<nextPid, allocator, group, published, leads>>
    BY DEF Dispose
  <1>2. \A p \in Pids : p \in gone <=> live[p] # NoRun /\ receivers[p] = s
    <2> SUFFICES ASSUME NEW p \in Pids
                 PROVE  p \in gone <=> live[p] # NoRun /\ receivers[p] = s
      OBVIOUS
    <2>1. ASSUME p \in gone PROVE live[p] # NoRun /\ receivers[p] = s
      <3>1. PICK k \in RunTokens : runs[s][k] # NoRun /\ runs[s][k].pid = p
        BY <2>1 DEF ScopeRuns
      <3> QED
        BY <3>1 DEF RegistryInv, LiveIsRun
    <2>2. ASSUME live[p] # NoRun, receivers[p] = s PROVE p \in gone
      <3>1. p \in LivePids /\ live[p].pid = p
        BY <2>2 DEF LivePids, RegistryInv, PidsMatch
      <3>2. PICK k \in RunTokens : runs[s][k] = live[p]
        BY <2>2, <3>1 DEF RegistryInv, LiveIsRun
      <3>3. live[p] \in ScopeRuns(s)
        BY <2>2, <3>2 DEF ScopeRuns
      <3> QED
        BY <3>1, <3>3
    <2> QED
      BY <2>1, <2>2
  <1> HIDE DEF gone
  <1>3. RegistryTypeOK'
    BY <1>1 DEF RegistryInv, RegistryTypeOK
  <1>4. /\ allocated'[s] = {} /\ claimed'[s] = {}
        /\ \A t \in Scopes \ {s} : allocated'[t] = allocated[t] /\ claimed'[t] = claimed[t]
        /\ \A k \in RunTokens : runs'[s][k] = NoRun
        /\ \A t \in Scopes \ {s}, k \in RunTokens : runs'[t][k] = runs[t][k]
    BY <1>1 DEF RegistryInv, RegistryTypeOK
  <1>5. NumbersAreOwned'
    <2>1. ASSUME NEW q \in numbers' PROVE q \in UNION {allocated'[t] : t \in Scopes}
      BY <1>1, <1>4, <2>1 DEF RegistryInv, NumbersAreOwned
    <2>2. ASSUME NEW q \in UNION {allocated'[t] : t \in Scopes} PROVE q \in numbers'
      <3>1. PICK t \in Scopes : q \in allocated'[t]
        BY <2>2
      <3>2. t # s /\ q \in allocated[t]
        BY <1>4, <3>1
      <3> QED
        BY <1>1, <3>2 DEF RegistryInv, NumbersAreOwned
    <2>3. \A t \in Scopes : claimed'[t] \subseteq allocated'[t]
      BY <1>4 DEF RegistryInv, NumbersAreOwned
    <2>4. \A t, u \in Scopes : t # u => allocated'[t] \cap allocated'[u] = {}
      BY <1>4 DEF RegistryInv, NumbersAreOwned
    <2> QED
      BY <2>1, <2>2, <2>3, <2>4 DEF NumbersAreOwned
  <1>6. ASSUME NEW q \in LivePids'
        PROVE  /\ q \in LivePids /\ receivers[q] # s
               /\ live'[q] = live[q] /\ receivers'[q] = receivers[q]
    BY <1>1, <1>2 DEF LivePids
  <1>7. LiveIsRun'
    <2>1. ASSUME NEW q \in LivePids'
          PROVE  \E j \in RunTokens : receivers'[q] # NoScope /\ runs'[receivers'[q]][j] = live'[q]
      <3>1. PICK j \in RunTokens : receivers[q] # NoScope /\ runs[receivers[q]][j] = live[q]
        BY <1>6 DEF RegistryInv, LiveIsRun
      <3>2. receivers[q] \in Scopes \ {s}
        BY <1>6, <3>1 DEF RegistryInv, RegistryTypeOK, LivePids
      <3> QED
        BY <1>4, <1>6, <3>1, <3>2
    <2>2. \A q \in Pids : live'[q] = NoRun => receivers'[q] = NoScope
      BY <1>1 DEF RegistryInv, LiveIsRun
    <2>3. ASSUME NEW t \in Scopes, NEW j \in RunTokens, runs'[t][j] # NoRun
          PROVE  /\ runs'[t][j].pid \in allocated'[t]
                 /\ live'[runs'[t][j].pid] = runs'[t][j] /\ receivers'[runs'[t][j].pid] = t
      <3> DEFINE x == runs[t][j]
      <3>1. t # s /\ runs'[t][j] = x /\ x # NoRun /\ x \in Identity
        BY <1>4, <2>3 DEF RegistryInv, RegistryTypeOK
      <3>2. x.pid \in allocated[t] /\ live[x.pid] = x /\ receivers[x.pid] = t /\ x.pid \in Pids
        BY <3>1, IdentityIsRun DEF RegistryInv, LiveIsRun
      <3>3. x.pid \notin gone
        BY <1>2, <3>1, <3>2
      <3>4. live'[x.pid] = live[x.pid] /\ receivers'[x.pid] = receivers[x.pid]
        BY <1>1, <3>2, <3>3
      <3> QED
        BY <1>4, <3>1, <3>2, <3>4
    <2> QED
      BY <2>1, <2>2, <2>3 DEF LiveIsRun
  <1>8. PidsMatch' /\ OneToken'
    BY <1>4, <1>6 DEF RegistryInv, PidsMatch, OneToken
  <1> QED
    BY <1>3, <1>5, <1>7, <1>8 DEF RegistryInv

\* Every operation keeps the registry's tables in agreement.
LEMMA StepKeeps ==
  ASSUME RegistryInv, [RegistryNext]_registryVars
  PROVE  RegistryInv'
  <1>1. ASSUME NEW s \in Scopes, Allocate(s) PROVE RegistryInv'
    <2>1. PICK p \in Pids : /\ Candidate(p) /\ HoldNumber(s, p)
                            /\ nextPid' = IF allocator THEN nextPid ELSE p + 1
      BY <1>1 DEF Allocate
    <2>2. /\ UNCHANGED <<allocator, live, receivers, claimed, runs, disposed, handler,
                         group, published, leads>>
      BY <1>1 DEF Allocate
    <2>3. p \notin numbers
      BY <2>1 DEF Candidate
    <2>4. /\ NumbersAreOwned' /\ \A t \in Scopes : allocated[t] \subseteq allocated'[t]
          /\ allocated' \in [Scopes -> SUBSET Pids] /\ numbers' \subseteq Pids
      BY <2>1, <2>2, <2>3, HoldOwned
    <2>5. nextPid' \in FirstPid .. MaxPid + 1
      BY <2>1, RegistryAssumption DEF RegistryInv, RegistryTypeOK, Candidate, Pids
    <2>6. RegistryTypeOK'
      BY <2>2, <2>4, <2>5 DEF RegistryInv, RegistryTypeOK
    <2> QED
      BY <2>2, <2>4, <2>6, LiveFrame DEF RegistryInv
  <1>2. ASSUME NEW s \in Scopes, NEW p \in Pids, Claim(s, p) PROVE RegistryInv'
    <2>1. /\ p \notin numbers /\ HoldNumber(s, p)
          /\ claimed' = [claimed EXCEPT ![s] = @ \cup {p}]
          /\ UNCHANGED <<nextPid, allocator, live, receivers, runs, disposed, handler,
                         group, published, leads>>
      BY <1>2 DEF Claim, Claimable
    <2>2. /\ NumbersAreOwned' /\ \A t \in Scopes : allocated[t] \subseteq allocated'[t]
          /\ allocated' \in [Scopes -> SUBSET Pids] /\ claimed' \in [Scopes -> SUBSET Pids]
          /\ numbers' \subseteq Pids
      BY <2>1, HoldOwned
    <2>3. RegistryTypeOK'
      BY <2>1, <2>2 DEF RegistryInv, RegistryTypeOK
    <2> QED
      BY <2>1, <2>2, <2>3, LiveFrame DEF RegistryInv
  <1>3. ASSUME NEW s \in Scopes, NEW k \in RunTokens, NEW p \in Pids,
               NEW parent \in {NoPid} \cup Pids, NEW pgid \in Pids,
               Publish(s, k, p, parent, pgid)
        PROVE  RegistryInv'
    <2>1. /\ runs[s][k] = NoRun /\ p \in allocated[s] /\ p \notin LivePids
          /\ Enter(s, k, p, parent, pgid)
          /\ UNCHANGED <<nextPid, allocator, numbers, allocated, claimed, disposed, handler,
                         group>>
      BY <1>3 DEF Publish, Publishable
    <2>2. /\ LiveIsRun' /\ PidsMatch' /\ OneToken'
          /\ live' \in [Pids -> Identity \cup {NoRun}]
          /\ receivers' \in [Pids -> Scopes \cup {NoScope}]
          /\ runs' \in [Scopes -> [RunTokens -> Identity \cup {NoRun}]]
          /\ published' \in 0 .. MaxRuns /\ leads' \in [Scopes -> SUBSET Pids]
      BY <2>1, EnterLive
    <2>3. NumbersAreOwned'
      BY <2>1 DEF RegistryInv, NumbersAreOwned
    <2>4. RegistryTypeOK'
      BY <2>1, <2>2 DEF RegistryInv, RegistryTypeOK
    <2> QED
      BY <2>2, <2>3, <2>4 DEF RegistryInv
  <1>4. ASSUME NEW s \in Scopes, NEW k \in RunTokens, NEW p \in Pids,
               NEW parent \in {NoPid} \cup Pids, NEW pgid \in Pids,
               Exec(s, k, p, parent, pgid)
        PROVE  RegistryInv'
    <2>1. /\ p \notin numbers /\ HoldNumber(s, p) /\ p \notin LivePids
          /\ claimed' = [claimed EXCEPT ![s] = @ \cup {p}]
          /\ UNCHANGED <<nextPid, allocator, disposed, handler, group>>
      BY <1>4 DEF Exec, Claimable
    <2>2. /\ NumbersAreOwned' /\ \A t \in Scopes : allocated[t] \subseteq allocated'[t]
          /\ allocated' \in [Scopes -> SUBSET Pids] /\ claimed' \in [Scopes -> SUBSET Pids]
          /\ numbers' \subseteq Pids
      BY <2>1, HoldOwned
    <2>3. CASE UNCHANGED <<runs, live, receivers, published, leads>>
      <3>1. RegistryTypeOK'
        BY <2>1, <2>2, <2>3 DEF RegistryInv, RegistryTypeOK
      <3> QED
        BY <2>2, <2>3, <3>1, LiveFrame DEF RegistryInv
    <2>4. CASE /\ Publishable(s, k, p, parent, pgid, allocated[s] \cup {p}, claimed[s] \cup {p})
               /\ Enter(s, k, p, parent, pgid)
      <3>1. runs[s][k] = NoRun /\ p \in allocated'[s]
        BY <2>1, <2>4 DEF Publishable, HoldNumber, RegistryInv, RegistryTypeOK
      <3>2. /\ LiveIsRun' /\ PidsMatch' /\ OneToken'
            /\ live' \in [Pids -> Identity \cup {NoRun}]
            /\ receivers' \in [Pids -> Scopes \cup {NoScope}]
            /\ runs' \in [Scopes -> [RunTokens -> Identity \cup {NoRun}]]
            /\ published' \in 0 .. MaxRuns /\ leads' \in [Scopes -> SUBSET Pids]
        BY <2>1, <2>2, <2>4, <3>1, EnterLive
      <3>3. RegistryTypeOK'
        BY <2>1, <2>2, <3>2 DEF RegistryInv, RegistryTypeOK
      <3> QED
        BY <2>2, <3>2, <3>3 DEF RegistryInv
    <2> QED
      BY <1>4, <2>3, <2>4 DEF Exec
  <1>5. ASSUME UNCHANGED <<nextPid, numbers, live, receivers, allocated, claimed, runs, disposed,
                           published, leads>>,
               allocator' \in BOOLEAN, handler' \in [Scopes -> BOOLEAN],
               group' \in [pgid : 0 .. MaxPid, left : SUBSET Identity]
        PROVE  RegistryInv'
    <2>1. RegistryTypeOK' /\ NumbersAreOwned'
      BY <1>5 DEF RegistryInv, RegistryTypeOK, NumbersAreOwned
    <2> QED
      BY <1>5, <2>1, LiveFrame DEF RegistryInv
  <1>6. ASSUME NEW s \in Scopes, ReceiveSignals(s) PROVE RegistryInv'
    BY <1>5, <1>6 DEF ReceiveSignals, owner, RegistryInv, RegistryTypeOK
  <1>7. ASSUME NEW s \in Scopes, NEW p \in Pids, Signal(s, p) PROVE RegistryInv'
    BY <1>5, <1>7 DEF Signal, owner, realm, RegistryInv, RegistryTypeOK
  <1>8. ASSUME NEW s \in Scopes, NEW pgid \in Pids, SignalGroup(s, pgid) PROVE RegistryInv'
    <2> DEFINE members == {live[p] : p \in {q \in LivePids : live[q].pgid = pgid}}
    <2>1. members \subseteq Identity
      BY DEF LivePids, RegistryInv, RegistryTypeOK
    <2>2. group' = [pgid |-> pgid, left |-> members]
      BY <1>8 DEF SignalGroup
    <2> HIDE DEF members
    <2>3. group' \in [pgid : 0 .. MaxPid, left : SUBSET Identity]
      BY <2>1, <2>2 DEF Pids
    <2> QED
      BY <1>5, <1>8, <2>3 DEF SignalGroup, owner, realm, RegistryInv, RegistryTypeOK
  <1>9. ASSUME DeliverNext PROVE RegistryInv'
    <2>1. group' \in [pgid : 0 .. MaxPid, left : SUBSET Identity]
      <3>1. PICK id \in group.left :
              group' = IF group.left = {id} THEN NoGroup ELSE [group EXCEPT !.left = @ \ {id}]
        BY <1>9 DEF DeliverNext
      <3>2. CASE group' = NoGroup
        BY <3>2, RegistryAssumption DEF NoGroup
      <3>3. CASE group' = [group EXCEPT !.left = @ \ {id}]
        BY <3>3 DEF RegistryInv, RegistryTypeOK
      <3> QED
        BY <3>1, <3>2, <3>3
    <2> QED
      BY <1>5, <1>9, <2>1 DEF DeliverNext, owner, realm, RegistryInv, RegistryTypeOK
  <1>10. ASSUME InstallAllocator PROVE RegistryInv'
    BY <1>5, <1>10 DEF InstallAllocator, realm, RegistryInv, RegistryTypeOK
  <1>11. ASSUME UNCHANGED registryVars PROVE RegistryInv'
    BY <1>5, <1>11 DEF registryVars, owner, realm, RegistryInv, RegistryTypeOK
  <1> QED
    BY <1>1, <1>2, <1>3, <1>4, <1>6, <1>7, <1>8, <1>9, <1>10, <1>11, ForgetKeeps, DisposeKeeps
    DEF RegistryNext

----------------------------------------------------------------------------

\* No two realms ever share a process number, and the owner holds exactly theirs,
\* whether the numbers come from the counter, an allocator that repeats itself or
\* the embedder.
THEOREM Ownership == RegistrySpec => []NumbersAreOwned
  <1>1. RegistryInv => NumbersAreOwned
    BY DEF RegistryInv
  <1>2. RegistryInv /\ [RegistryNext]_registryVars => RegistryInv'
    BY StepKeeps
  <1> QED
    BY InitRegistry, <1>1, <1>2, PTL DEF RegistrySpec

\* The live table, the receivers and the realms' runs always say the same.
THEOREM Agreement == RegistrySpec => []LiveIsRun
  <1>1. RegistryInv => LiveIsRun
    BY DEF RegistryInv
  <1>2. RegistryInv /\ [RegistryNext]_registryVars => RegistryInv'
    BY StepKeeps
  <1> QED
    BY InitRegistry, <1>1, <1>2, PTL DEF RegistrySpec

\* The tables keep their types.
THEOREM RegistryTyped == RegistrySpec => []RegistryTypeOK
  <1>1. RegistryInv => RegistryTypeOK
    BY DEF RegistryInv
  <1>2. RegistryInv /\ [RegistryNext]_registryVars => RegistryInv'
    BY StepKeeps
  <1> QED
    BY InitRegistry, <1>1, <1>2, PTL DEF RegistrySpec

\* What a delivery may reach, for one step.
Reaches(to) == /\ \E k \in RunTokens : runs[to.scope][k] = to.id
               /\ ~disposed[to.scope]
               /\ to.for # NoGroup => to.id \in to.for.left

\* A disposed scope runs nothing.
ClosedIsEmpty == \A s \in Scopes : disposed[s] => \A k \in RunTokens : runs[s][k] = NoRun

\* No operation enters a run in a scope that is closed.
LEMMA ClosedStep ==
  ASSUME RegistryInv, ClosedIsEmpty, [RegistryNext]_registryVars
  PROVE  ClosedIsEmpty'
  <1>1. ASSUME NEW s \in Scopes, Dispose(s) PROVE ClosedIsEmpty'
    BY <1>1 DEF Dispose, ClosedIsEmpty, RegistryInv, RegistryTypeOK
  <1>2. ASSUME NEW s \in Scopes, NEW k \in RunTokens, Forget(s, k) PROVE ClosedIsEmpty'
    BY <1>2 DEF Forget, ClosedIsEmpty, RegistryInv, RegistryTypeOK
  <1>3. ASSUME NEW s \in Scopes, NEW k \in RunTokens, NEW p \in Pids, NEW parent, NEW pgid,
               Publish(s, k, p, parent, pgid) \/ Exec(s, k, p, parent, pgid)
        PROVE  ClosedIsEmpty'
    <2>1. disposed' = disposed /\ ~disposed[s]
      BY <1>3 DEF Publish, Publishable, Exec, Claimable
    <2>2. \A t \in Scopes \ {s} : runs'[t] = runs[t]
      BY <1>3 DEF Publish, Exec, Enter, RegistryInv, RegistryTypeOK
    <2> QED
      BY <2>1, <2>2 DEF ClosedIsEmpty
  <1>4. ASSUME UNCHANGED <<runs, disposed>> PROVE ClosedIsEmpty'
    BY <1>4 DEF ClosedIsEmpty
  <1>5. ASSUME NEW s \in Scopes, Allocate(s) \/ ReceiveSignals(s) PROVE ClosedIsEmpty'
    BY <1>4, <1>5 DEF Allocate, ReceiveSignals
  <1>6. ASSUME NEW s \in Scopes, NEW p \in Pids, Claim(s, p) \/ Signal(s, p) \/ SignalGroup(s, p)
        PROVE  ClosedIsEmpty'
    BY <1>4, <1>6 DEF Claim, Signal, SignalGroup, realm
  <1>7. ASSUME DeliverNext \/ InstallAllocator \/ UNCHANGED registryVars PROVE ClosedIsEmpty'
    BY <1>4, <1>7 DEF DeliverNext, InstallAllocator, registryVars, realm
  <1> QED
    BY <1>1, <1>2, <1>3, <1>5, <1>6, <1>7 DEF RegistryNext

\* A step that delivers a signal delivers it where it belongs.
LEMMA DeliveryReaches ==
  ASSUME RegistryInv, ClosedIsEmpty, [RegistryNext]_registryVars, reached' # Unsignalled, registryVars' # registryVars
  PROVE  Reaches(reached')
  <1>1. ASSUME NEW p \in LivePids, Takes(p), NEW g, Reach(p, g),
               g # NoGroup => live[p] \in g.left
        PROVE  Reaches(reached')
    <2>1. reached' = [id |-> live[p], scope |-> receivers[p], for |-> g]
      BY <1>1 DEF Reach
    <2>2. PICK k \in RunTokens : receivers[p] # NoScope /\ runs[receivers[p]][k] = live[p]
      BY DEF RegistryInv, LiveIsRun
    <2>3. receivers[p] \in Scopes /\ live[p] # NoRun
      BY <2>2 DEF RegistryInv, RegistryTypeOK, LivePids
    <2>4. ~disposed[receivers[p]]
      BY <2>2, <2>3 DEF ClosedIsEmpty
    <2> QED
      BY <1>1, <2>1, <2>2, <2>4 DEF Reaches
  <1>2. ASSUME NEW s \in Scopes, NEW p \in Pids, Signal(s, p) PROVE Reaches(reached')
    BY <1>1, <1>2 DEF Signal
  <1>3. ASSUME DeliverNext PROVE Reaches(reached')
    <2>1. PICK id \in group.left :
            IF live[id.pid] = id /\ Takes(id.pid) THEN Reach(id.pid, group) ELSE Quiet
      BY <1>3 DEF DeliverNext
    <2>2. live[id.pid] = id /\ Takes(id.pid) /\ Reach(id.pid, group)
      BY <2>1 DEF Quiet
    <2>3. id \in Identity
      BY <2>1 DEF RegistryInv, RegistryTypeOK
    <2>4. id.pid \in LivePids
      BY <2>2, <2>3, IdentityIsRun DEF LivePids
    <2> QED
      BY <1>1, <2>1, <2>2, <2>4
  <1>4. ASSUME NEW s \in Scopes, Allocate(s) \/ ReceiveSignals(s) \/ Dispose(s) PROVE FALSE
    BY <1>4 DEF Allocate, ReceiveSignals, Dispose, Quiet
  <1>5. ASSUME NEW s \in Scopes, NEW p \in Pids, Claim(s, p) \/ SignalGroup(s, p) PROVE FALSE
    BY <1>5 DEF Claim, SignalGroup, Quiet
  <1>6. ASSUME NEW s \in Scopes, NEW k \in RunTokens, NEW p, NEW parent, NEW pgid,
               \/ Publish(s, k, p, parent, pgid) \/ Exec(s, k, p, parent, pgid) \/ Forget(s, k)
        PROVE  FALSE
    BY <1>6 DEF Publish, Exec, Forget, Quiet
  <1>7. ASSUME InstallAllocator PROVE FALSE
    BY <1>7 DEF InstallAllocator, Quiet
  <1> QED
    BY <1>2, <1>3, <1>4, <1>5, <1>6, <1>7 DEF RegistryNext

\* A signal reaches the process it was meant for, in the scope that runs it now;
\* a group's reaches only those that were its members when it was sent.
THEOREM SignalsReach == RegistrySpec => SignalsReachTheirProcess
  <1> DEFINE Inv == RegistryInv /\ ClosedIsEmpty
  <1>1. RegistryInit => Inv
    BY InitRegistry DEF RegistryInit, ClosedIsEmpty
  <1>2. Inv /\ [RegistryNext]_registryVars => Inv'
    BY StepKeeps, ClosedStep
  <1>3. Inv /\ [RegistryNext]_registryVars =>
          [reached' # Unsignalled =>
             LET to == reached'
             IN  /\ \E k \in RunTokens : runs[to.scope][k] = to.id
                 /\ ~disposed[to.scope]
                 /\ to.for # NoGroup => to.id \in to.for.left]_registryVars
    BY DeliveryReaches DEF Reaches
  <1> QED
    BY <1>1, <1>2, <1>3, PTL DEF RegistrySpec, SignalsReachTheirProcess

----------------------------------------------------------------------------

\* A step that enters no run takes members away from groups, if anything.
LEMMA GroupsFrame ==
  ASSUME GroupsHaveLeaders, leads' = leads,
         \A q \in LivePids' : q \in LivePids /\ live'[q] = live[q] /\ receivers'[q] = receivers[q]
  PROVE  GroupsHaveLeaders'
  BY DEF GroupsHaveLeaders

\* The group a run enters is its own, which its realm starts with it, or that of its
\* parent, a run of the same realm.
LEMMA EnterGroups ==
  ASSUME RegistryInv, GroupsHaveLeaders, NEW s \in Scopes, NEW k \in RunTokens, NEW p \in Pids,
         NEW parent \in {NoPid} \cup Pids, NEW pgid \in Pids,
         pgid \in {p, Inherited(s, p, parent)}, Enter(s, k, p, parent, pgid)
  PROVE  GroupsHaveLeaders'
  <1> DEFINE id == [pid |-> p, ppid |-> parent, pgid |-> pgid, run |-> published + 1]
  <1>1. /\ live' = [live EXCEPT ![p] = id] /\ receivers' = [receivers EXCEPT ![p] = s]
        /\ id.pgid = pgid
        /\ leads' = IF pgid = p THEN [leads EXCEPT ![s] = @ \cup {p}] ELSE leads
    BY DEF Enter
  <1> HIDE DEF id
  <1>2. /\ live'[p] = id /\ receivers'[p] = s
        /\ \A q \in Pids \ {p} : live'[q] = live[q] /\ receivers'[q] = receivers[q]
    BY <1>1 DEF RegistryInv, RegistryTypeOK
  <1>3. /\ \A t \in Scopes : leads[t] \subseteq leads'[t]
        /\ pgid = p => p \in leads'[s]
    BY <1>1 DEF RegistryInv, RegistryTypeOK
  <1>4. pgid \in leads'[s]
    <2>1. CASE pgid = p
      BY <1>3, <2>1
    <2>2. CASE pgid # p
      <3>1. PICK r \in ScopeRuns(s) : pgid = r.pgid
        BY <2>2 DEF Inherited
      <3>2. r \in Identity /\ live[r.pid] = r /\ receivers[r.pid] = s
        BY <3>1 DEF ScopeRuns, RegistryInv, LiveIsRun, RegistryTypeOK
      <3>3. r.pid \in LivePids
        BY <3>2, IdentityIsRun DEF LivePids
      <3>4. pgid \in leads[s]
        BY <3>1, <3>2, <3>3 DEF GroupsHaveLeaders
      <3> QED
        BY <1>3, <3>4
    <2> QED
      BY <2>1, <2>2
  <1>5. ASSUME NEW q \in LivePids' PROVE live'[q].pgid \in leads'[receivers'[q]]
    <2>1. CASE q = p
      BY <1>1, <1>2, <1>4, <2>1
    <2>2. CASE q # p
      <3>1. q \in LivePids /\ q \in Pids /\ live'[q] = live[q] /\ receivers'[q] = receivers[q]
        BY <1>2, <2>2 DEF LivePids
      <3>2. receivers[q] \in Scopes
        BY <3>1 DEF RegistryInv, LiveIsRun, RegistryTypeOK
      <3>3. live[q].pgid \in leads[receivers[q]]
        BY <3>1 DEF GroupsHaveLeaders
      <3> QED
        BY <1>3, <3>1, <3>2, <3>3
    <2> QED
      BY <2>1, <2>2
  <1> QED
    BY <1>5 DEF GroupsHaveLeaders

\* Every operation leaves each process in a group of its own realm's.
LEMMA GroupStep ==
  ASSUME RegistryInv, GroupsHaveLeaders, [RegistryNext]_registryVars
  PROVE  GroupsHaveLeaders'
  <1>1. ASSUME UNCHANGED <<live, receivers, leads>> PROVE GroupsHaveLeaders'
    BY <1>1, GroupsFrame DEF LivePids
  <1>2. ASSUME NEW s \in Scopes, Allocate(s) \/ ReceiveSignals(s) PROVE GroupsHaveLeaders'
    BY <1>1, <1>2 DEF Allocate, ReceiveSignals, owner
  <1>3. ASSUME NEW s \in Scopes, NEW p \in Pids, Claim(s, p) \/ Signal(s, p) \/ SignalGroup(s, p)
        PROVE  GroupsHaveLeaders'
    BY <1>1, <1>3 DEF Claim, Signal, SignalGroup, owner
  <1>4. CASE DeliverNext \/ InstallAllocator \/ UNCHANGED registryVars
    BY <1>1, <1>4 DEF DeliverNext, InstallAllocator, registryVars, owner
  <1>5. ASSUME NEW s \in Scopes, NEW k \in RunTokens, NEW p \in Pids,
               NEW parent \in {NoPid} \cup Pids, NEW pgid \in Pids,
               Publish(s, k, p, parent, pgid)
        PROVE  GroupsHaveLeaders'
    BY <1>5, EnterGroups DEF Publish, Publishable
  <1>6. ASSUME NEW s \in Scopes, NEW k \in RunTokens, NEW p \in Pids,
               NEW parent \in {NoPid} \cup Pids, NEW pgid \in Pids,
               Exec(s, k, p, parent, pgid)
        PROVE  GroupsHaveLeaders'
    <2>1. CASE UNCHANGED <<live, receivers, leads>>
      BY <1>1, <2>1
    <2>2. CASE Enter(s, k, p, parent, pgid) /\ pgid \in {p, Inherited(s, p, parent)}
      BY <2>2, EnterGroups
    <2> QED
      BY <1>6, <2>1, <2>2 DEF Exec, Publishable
  <1>7. ASSUME NEW s \in Scopes, NEW k \in RunTokens, Forget(s, k) PROVE GroupsHaveLeaders'
    <2> DEFINE p == runs[s][k].pid
    <2>1. /\ live' = [live EXCEPT ![p] = NoRun] /\ receivers' = [receivers EXCEPT ![p] = NoScope]
          /\ leads' = leads
      BY <1>7 DEF Forget
    <2> HIDE DEF p
    <2>2. \A q \in LivePids' : q \in LivePids /\ live'[q] = live[q] /\ receivers'[q] = receivers[q]
      BY <2>1 DEF RegistryInv, RegistryTypeOK, LivePids
    <2> QED
      BY <2>1, <2>2, GroupsFrame
  <1>8. ASSUME NEW s \in Scopes, Dispose(s) PROVE GroupsHaveLeaders'
    <2> DEFINE gone == {r.pid : r \in ScopeRuns(s)}
    <2>1. /\ live' = [p \in Pids |-> IF p \in gone THEN NoRun ELSE live[p]]
          /\ receivers' = [p \in Pids |-> IF p \in gone THEN NoScope ELSE receivers[p]]
          /\ leads' = leads
      BY <1>8 DEF Dispose
    <2> HIDE DEF gone
    <2>2. \A q \in LivePids' : q \in LivePids /\ live'[q] = live[q] /\ receivers'[q] = receivers[q]
      BY <2>1 DEF LivePids
    <2> QED
      BY <2>1, <2>2, GroupsFrame
  <1> QED
    BY <1>2, <1>3, <1>4, <1>5, <1>6, <1>7, <1>8 DEF RegistryNext

\* A process is in a group its own realm started, however numbers are handed out again:
\* publish takes no group but the process's own and its parent's.
THEOREM GroupsLed == RegistrySpec => []GroupsHaveLeaders
  <1>1. RegistryInit => GroupsHaveLeaders
    BY DEF RegistryInit, GroupsHaveLeaders, LivePids
  <1>2. RegistryInv /\ GroupsHaveLeaders /\ [RegistryNext]_registryVars => GroupsHaveLeaders'
    BY GroupStep
  <1>3. RegistryInv /\ [RegistryNext]_registryVars => RegistryInv'
    BY StepKeeps
  <1> QED
    BY <1>1, <1>2, <1>3, InitRegistry, PTL DEF RegistrySpec
================================================================================
