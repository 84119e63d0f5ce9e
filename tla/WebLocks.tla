-------------------------------- MODULE WebLocks --------------------------------
(****************************************************************************)
(* The Web Locks manager of a process (src/node-lib/internals/locks.ts):      *)
(* exclusive and shared locks by name, granted in the order asked, with       *)
(* ifAvailable, steal and an abort signal.  A request whose options the       *)
(* manager refuses is rejected at once and changes nothing, and is left out.  *)
(*                                                                           *)
(* Requests are numbered as they are made and each waits from its making, so  *)
(* the queue is the set of those that wait, in the order of their numbers.    *)
(****************************************************************************)
EXTENDS Naturals

CONSTANTS
  Requests,   \* the requests a program makes, numbered as it makes them
  Names,      \* the locks' names
  MaxSteals   \* bound: requests that steal

ASSUME LocksAssumption == MaxSteals \in Nat /\ Requests \subseteq Nat /\ Names # {}

Modes == {"exclusive", "shared"}

VARIABLES
  asked,      \* request -> its name and mode, or NotAsked
  held,       \* the requests whose lock is held
  waiting,    \* the requests that wait
  calling,    \* the requests whose callback has been called with a lock and not settled
  empty,      \* those whose callback has been called with none
  answer,     \* request -> what its promise is
  steals      \* history: how many stole

lockVars == <<asked, held, waiting, calling, empty, answer, steals>>

NotAsked == [name |-> "none", mode |-> "none"]

LocksInit ==
  /\ asked = [r \in Requests |-> NotAsked]
  /\ held = {} /\ waiting = {} /\ calling = {} /\ empty = {}
  /\ answer = [r \in Requests |-> "pending"]
  /\ steals = 0

Fresh(r) == asked[r] = NotAsked /\ \A q \in Requests : q < r => asked[q] # NotAsked

----------------------------------------------------------------------------
\* Mutant of Grantable: a shared request is granted whatever is held.
GrantableToAnySharer(lock, hs, as) ==
  \/ \A h \in hs : as[h].name # lock.name
  \/ lock.mode = "shared"

Grantable(lock, hs, as) ==
  \A h \in hs : as[h].name = lock.name => lock.mode = "shared" /\ as[h].mode = "shared"

\* What #advance grants of those that wait: a request that nothing held keeps out,
\* nor an earlier one for its name, granted or not, unless all of them share it.
Granted(hs, ws, as) ==
  {r \in ws : /\ Grantable(as[r], hs, as)
              /\ \A q \in ws : q < r /\ as[q].name = as[r].name
                               => as[q].mode = "shared" /\ as[r].mode = "shared"}

\* #advance: the requests granted are held, and their callbacks called.
Advance(hs, ws, as, cs) ==
  LET granted == Granted(hs, ws, as)
  IN  /\ held' = hs \cup granted /\ waiting' = ws \ granted
      /\ calling' = cs \cup granted

Request(r, lock) ==
  /\ Fresh(r)
  /\ asked' = [asked EXCEPT ![r] = lock]
  /\ Advance(held, waiting \cup {r}, asked', calling)
  /\ UNCHANGED <<empty, answer, steals>>

\* Mutant of AvailableTo: those that wait for the name are not asked.
AvailableUnlessHeld(lock) == Grantable(lock, held, asked)

AvailableTo(lock) ==
  /\ Grantable(lock, held, asked)
  /\ \A q \in waiting : asked[q].name # lock.name

\* Not granted at once, the callback is called with no lock.
RequestIfAvailable(r, lock) ==
  /\ Fresh(r)
  /\ asked' = [asked EXCEPT ![r] = lock]
  /\ IF AvailableTo(lock)
     THEN held' = held \cup {r} /\ calling' = calling \cup {r} /\ UNCHANGED empty
     ELSE empty' = empty \cup {r} /\ UNCHANGED <<held, calling>>
  /\ UNCHANGED <<waiting, answer, steals>>

\* Every holder of the name loses its lock, and its promise is rejected; its
\* callback goes on.
Steal(r, name) ==
  LET robbed == {h \in held : asked[h].name = name}
  IN  /\ Fresh(r) /\ steals < MaxSteals
      /\ asked' = [asked EXCEPT ![r] = [name |-> name, mode |-> "exclusive"]]
      /\ held' = (held \ robbed) \cup {r}
      /\ calling' = calling \cup {r}
      /\ answer' = [q \in Requests |-> IF q \in robbed THEN "stolen" ELSE answer[q]]
      /\ steals' = steals + 1
      /\ UNCHANGED <<waiting, empty>>

\* Mutant of Settle: the next in line is not looked for.
SettleOnly(r, outcome) ==
  /\ r \in calling
  /\ held' = held \ {r} /\ calling' = calling \ {r}
  /\ answer' = [answer EXCEPT ![r] = IF @ = "pending" THEN outcome ELSE @]
  /\ UNCHANGED <<asked, empty, steals, waiting>>

\* The callback's promise settles: the lock is released, if it was not stolen, and
\* the request answered, if it was not told that.
Settle(r, outcome) ==
  /\ r \in calling
  /\ Advance(held \ {r}, waiting, asked, calling \ {r})
  /\ answer' = [answer EXCEPT ![r] = IF @ = "pending" THEN outcome ELSE @]
  /\ UNCHANGED <<asked, empty, steals>>

SettleEmpty(r, outcome) ==
  /\ r \in empty
  /\ empty' = empty \ {r}
  /\ answer' = [answer EXCEPT ![r] = outcome]
  /\ UNCHANGED <<asked, held, waiting, calling, steals>>

\* The signal of a request that waits; one granted listens no more.
Abort(r) ==
  /\ r \in waiting
  /\ answer' = [answer EXCEPT ![r] = "aborted"]
  /\ Advance(held, waiting \ {r}, asked, calling)
  /\ UNCHANGED <<asked, empty, steals>>

Locks == [name : Names, mode : Modes]
Outcomes == {"resolved", "rejected"}

LocksNext ==
  \/ \E r \in Requests, lock \in Locks : Request(r, lock) \/ RequestIfAvailable(r, lock)
  \/ \E r \in Requests, name \in Names : Steal(r, name)
  \/ \E r \in Requests, outcome \in Outcomes : Settle(r, outcome) \/ SettleEmpty(r, outcome)
  \/ \E r \in Requests : Abort(r)

\* A callback settles: without that a lock may be held for ever.
LocksFairness == \A r \in Requests : 
  WF_lockVars(\E outcome \in Outcomes : Settle(r, outcome) \/ SettleEmpty(r, outcome))

LocksSpec == LocksInit /\ [][LocksNext]_lockVars /\ LocksFairness
----------------------------------------------------------------------------
(* Properties                                                               *)

\* An exclusive lock is held alone, by whatever mix of grants, steals and ifAvailable.
Exclusion ==
  \A g, h \in held : g # h /\ asked[g].name = asked[h].name
                     => asked[g].mode = "shared" /\ asked[h].mode = "shared"

\* Nobody overtakes: a lock granted, other than by stealing, leaves no request for the
\* same name waiting that was asked before it.
InTheOrderAsked ==
  [][\A r \in held' \ held :
       \/ steals' # steals
       \/ \A q \in waiting' : asked'[q].name = asked'[r].name => r < q]_lockVars

\* Every request is answered.
EveryRequestIsAnswered == \A r \in Requests : asked[r] # NotAsked ~> answer[r] # "pending"
================================================================================
