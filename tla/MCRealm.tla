------------------------------- MODULE MCRealm -------------------------------
(****************************************************************************)
(* What a realm does with its one thread, for TLC: guest turns and Web Locks. *)
(* They share no state: each is explored with the other as it began.  And     *)
(* #advance as the code walks it: on every state of the instance's requests   *)
(* the walk grants what `Granted` says.                                       *)
(****************************************************************************)
EXTENDS GuestLoop, WebLocks, SequencesExt

VARIABLE part   \* the one explored

RealmInit == Init /\ LocksInit /\ part \in {"turns", "locks"}

RealmNext ==
  \/ part = "turns" /\ Next /\ UNCHANGED <<lockVars, part>>
  \/ part = "locks" /\ LocksNext /\ UNCHANGED <<vars, part>>

(* Both parts' fairness, each where it is the one explored. *)
Turns(A) == part = "turns" /\ A
Granting(A) == part = "locks" /\ A

RealmFairness ==
  /\ WF_vars(Turns(RunMicrotask)) /\ WF_vars(Turns(RunTick \/ Drained))
  /\ \A at \in 1 .. MaxStack + 1 : SF_vars(Turns(Len(stack) = at /\ (Return \/ Throw)))
  /\ \A r \in Requests :
       WF_lockVars(Granting(\E how \in Outcomes : Settle(r, how) \/ SettleEmpty(r, how)))

RealmSpec == RealmInit /\ [][RealmNext]_<<vars, lockVars, part>> /\ RealmFairness

\* One request of the walk: granted, or kept and its name blocked.
Consider(acc, r, as) ==
  LET name == as[r].name
  IN  IF name \in acc.blocked \/ ~Grantable(as[r], acc.held, as)
      THEN [acc EXCEPT !.waiting = Append(@, r), !.blocked = @ \cup {name}]
      ELSE [acc EXCEPT !.held = @ \cup {r},
                       !.blocked = IF as[r].mode = "exclusive" THEN @ \cup {name} ELSE @]

InOrder(ws) == SetToSortSeq(ws, LAMBDA p, q : p < q)

Walk(hs, ws, as) ==
  FoldLeft(LAMBDA acc, r : Consider(acc, r, as),
           [held |-> hs, waiting |-> <<>>, blocked |-> {}], InOrder(ws))

ASSUME WalkAssumption ==
  \A ws \in SUBSET Requests : \A hs \in SUBSET (Requests \ ws), as \in [Requests -> Locks] :
    LET walked  == Walk(hs, ws, as)
        granted == Granted(hs, ws, as)
    IN  walked.held = hs \cup granted /\ walked.waiting = InOrder(ws \ granted)
=============================================================================
