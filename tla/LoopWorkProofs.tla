---------------------------- MODULE LoopWorkProofs ----------------------------
(***************************************************************************)
(* For any number of runs, handles, timers and ports: a run is held by     *)
(* exactly what is its own, its end leaves it nothing, and what its ends   *)
(* left unfinished or saw fail is reported.                                *)
(***************************************************************************)
EXTENDS LoopWork, TLAPS

\* A handle's entries agree: a run is held by it exactly while it is the run's own,
\* referenced and active, and is to close it exactly while it is its own.
Counted(c, h) == \A t \in Tokens :
  /\ h \in c.owners[t] <=> c.heldBy[h] = t /\ h \in c.refHeld \cap c.active
  /\ h \in c.allOwned[t] <=> c.heldBy[h] = t

\* Whatever a table says a run has, the handle's own entry says the same.
HolderIsOwner(c, h) == \A t \in Tokens :
  h \in c.owners[t] \cup c.allOwned[t] => c.heldBy[h] = t

\* What a handle's stage says of its entries: a handle that is not yet made and a
\* fired timer are no run's, a closed one is only where its close threw, and what a
\* run is to close is open.
StageAgrees(h) ==
  /\ stage[h] = "new" => count.heldBy[h] = Unset /\ home[h] = Unset /\ h \notin wraps
  /\ stage[h] = "fired" => count.heldBy[h] = Unset
  /\ stage[h] = "closed" => count.heldBy[h] = Unset \/ h \in threw
  /\ stage[h] = "closing" => h \in wraps
  /\ \A t \in Tokens : h \in count.allOwned[t] => stage[h] = "open"
  /\ h \in wraps => home[h] = Unset
  /\ home[h] # Unset /\ stage[h] = "open" => count.heldBy[h] = home[h]
  /\ h \in threw \cup broken => stage[h] = "closed"

HandleOK(h) == /\ HolderIsOwner(count, h) /\ StageAgrees(h)
               /\ stage[h] \in {"open", "fired"} => Counted(count, h)

\* A run past its `finally` has ended.
FinallyEnds == \A t \in Tokens : phase[t] \in {"finally", "finished"} => t \in ended

\* What a completion answers for, of the handles a run's ends closed.
Accounts(promise, t) == \A h \in owed[t] :
  /\ h \in wraps /\ stage[h] \in {"closing", "closed"}
  /\ h \in promise.awaits \/ (stage[h] = "closed" /\ h \notin broken)
  /\ h \in threw => promise.failed

\* Until its `finally` the kept completion answers for a run's ends, then the
\* awaited one; a finished run's are closed for good, and their failures reported.
EndsAreAccounted == \A t \in Tokens :
  /\ phase[t] \in {"none", "running"} => Accounts(ending[t], t)
  /\ phase[t] = "finally" => Accounts(awaited[t], t)
  /\ phase[t] = "finished" => \A h \in owed[t] :
       h \in wraps /\ stage[h] = "closed" /\ (h \in threw \cup broken => outcome[t] = "failed")

\* What an ended run has came to it after its last end.
AllIsLate == \A t \in ended : count.allOwned[t] \cup HeldBy(t) \cup OpenPorts(t) \subseteq late

HandleInv == \A h \in Handles : HandleOK(h)
WorkInv == /\ TypeOK /\ HandleInv /\ FinallyEnds /\ AllIsLate
           /\ EndsAreAccounted

-----------------------------------------------------------------------------
(* What each function of handles.ts does to the tables *)

\* d differs from c in h's entries only.
Touches(c, d, h) ==
  /\ d \in Counts
  /\ \A g \in Handles \ {h} :
       /\ d.heldBy[g] = c.heldBy[g]
       /\ g \in d.refHeld <=> g \in c.refHeld
       /\ g \in d.active <=> g \in c.active
       /\ \A t \in Tokens : /\ g \in d.owners[t] <=> g \in c.owners[t]
                            /\ g \in d.allOwned[t] <=> g \in c.allOwned[t]

Names == Tokens \cup {Null, Unset}

\* One after the other, changes of one handle's entries are a change of its entries.
LEMMA TouchesTwice ==
  ASSUME NEW c, NEW d, NEW e, NEW h, Touches(c, d, h), Touches(d, e, h)
  PROVE  Touches(c, e, h)
  BY DEF Touches

\* The helper hold().
LEMMA HoldDoes ==
  ASSUME NEW c \in Counts, NEW h \in Handles
  PROVE  LET d == Hold(c, h) IN
         /\ Touches(c, d, h) /\ d.heldBy = c.heldBy /\ d.refHeld = c.refHeld
         /\ d.active = c.active /\ d.allOwned = c.allOwned
         /\ \A t \in Tokens : h \in d.owners[t] <=>
              h \in c.owners[t] \/ (c.heldBy[h] = t /\ h \in c.refHeld \cap c.active)
  BY DEF Hold, Touches, Counts

\* The helper drop().
LEMMA DropDoes ==
  ASSUME NEW c \in Counts, NEW h \in Handles
  PROVE  LET d == Drop(c, h) IN
         /\ Touches(c, d, h) /\ d.heldBy = c.heldBy /\ d.refHeld = c.refHeld
         /\ d.active = c.active /\ d.allOwned = c.allOwned
         /\ \A t \in Tokens : h \in d.owners[t] <=> h \in c.owners[t] /\ c.heldBy[h] # t
  BY DEF Drop, Touches, Counts

\* The handle leaves what its holder is to close.
LEMMA DisownDoes ==
  ASSUME NEW c \in Counts, NEW h \in Handles
  PROVE  LET d == Disown(c, h) IN
         /\ Touches(c, d, h) /\ d.heldBy = c.heldBy /\ d.refHeld = c.refHeld
         /\ d.active = c.active /\ d.owners = c.owners
         /\ \A t \in Tokens : h \in d.allOwned[t] <=> h \in c.allOwned[t] /\ c.heldBy[h] # t
  BY DEF Disown, Touches, Counts

\* The handle becomes a run's.
LEMMA GiveDoes ==
  ASSUME NEW c \in Counts, NEW h \in Handles, NEW t \in Names
  PROVE  LET d == Give(c, h, t) IN
         /\ Touches(c, d, h) /\ d.heldBy[h] = t /\ d.refHeld = c.refHeld
         /\ d.active = c.active /\ d.owners = c.owners
         /\ \A u \in Tokens : h \in d.allOwned[u] <=> h \in c.allOwned[u] \/ u = t
  BY DEF Give, Touches, Counts, Names

\* registerHandle: the handle becomes the current run's, referenced.
LEMMA RegisteredDoes ==
  ASSUME NEW c \in Counts, NEW h \in Handles, NEW t \in Names, NEW active \in BOOLEAN
  PROVE  LET d == Registered(c, h, t, active) IN
         /\ Touches(c, d, h) /\ d.heldBy[h] = t
         /\ d.refHeld = c.refHeld \cup {h}
         /\ active => d.active = c.active \cup {h}
         /\ ~active => d.active = c.active
         /\ \A u \in Tokens :
              /\ h \in d.allOwned[u] <=> h \in c.allOwned[u] \/ u = t
              /\ h \in d.owners[u] <=> h \in c.owners[u] \/ (u = t /\ h \in d.active)
  <1> DEFINE a == Give(c, h, t)
             R == c.refHeld \cup {h}
             A == IF active THEN c.active \cup {h} ELSE c.active
             b == [a EXCEPT !.refHeld = R, !.active = A]
             d == Registered(c, h, t, active)
  <1>1. /\ Touches(c, a, h) /\ a.heldBy[h] = t /\ a.refHeld = c.refHeld
        /\ a.active = c.active /\ a.owners = c.owners
        /\ \A u \in Tokens : h \in a.allOwned[u] <=> h \in c.allOwned[u] \/ u = t
    BY GiveDoes
  <1>2. a \in Counts
    BY <1>1 DEF Touches
  <1>3. b = [a EXCEPT !.refHeld = @ \cup {h}, !.active = IF active THEN @ \cup {h} ELSE @]
    BY <1>1, <1>2 DEF Counts
  <1>4. d = Hold(b, h)
    BY <1>3 DEF Registered
  <1> HIDE DEF a
  <1>5. /\ Touches(a, b, h) /\ b.heldBy = a.heldBy /\ b.refHeld = R
        /\ b.active = A /\ b.owners = a.owners /\ b.allOwned = a.allOwned
    BY <1>1, <1>2 DEF Touches, Counts
  <1>6. b \in Counts
    BY <1>5 DEF Touches
  <1> HIDE DEF b
  <1>7. /\ Touches(b, d, h) /\ d.heldBy = b.heldBy /\ d.refHeld = b.refHeld
        /\ d.active = b.active /\ d.allOwned = b.allOwned
        /\ \A u \in Tokens : h \in d.owners[u] <=>
             h \in b.owners[u] \/ (b.heldBy[h] = u /\ h \in b.refHeld \cap b.active)
    BY <1>4, <1>6, HoldDoes
  <1> HIDE DEF d
  <1>8. Touches(c, d, h)
    BY <1>1, <1>5, <1>7, TouchesTwice
  <1>9. \A u \in Tokens :
          /\ h \in d.allOwned[u] <=> h \in c.allOwned[u] \/ u = t
          /\ h \in d.owners[u] <=> h \in c.owners[u] \/ (u = t /\ h \in d.active)
    BY <1>1, <1>5, <1>7
  <1> QED
    BY <1>1, <1>5, <1>7, <1>8, <1>9 DEF d

\* startHandle and refHandle: more of a handle's marks, and hold().
LEMMA MarkedHold ==
  ASSUME NEW c \in Counts, NEW h \in Handles, HolderIsOwner(c, h),
         NEW d \in {Started(c, h), Referenced(c, h)}
  PROVE  /\ Touches(c, d, h) /\ d.heldBy = c.heldBy /\ d.allOwned = c.allOwned
         /\ HolderIsOwner(d, h)
         /\ Counted(c, h) => Counted(d, h)
  <1>1. ASSUME NEW b, Touches(c, b, h), b.heldBy = c.heldBy, b.owners = c.owners,
               b.allOwned = c.allOwned, c.refHeld \subseteq b.refHeld, c.active \subseteq b.active,
               d = Hold(b, h)
        PROVE  /\ Touches(c, d, h) /\ d.heldBy = c.heldBy /\ d.allOwned = c.allOwned
               /\ HolderIsOwner(d, h)
               /\ Counted(c, h) => Counted(d, h)
    <2>1. b \in Counts
      BY <1>1 DEF Touches
    <2>2. /\ Touches(b, d, h) /\ d.heldBy = b.heldBy /\ d.refHeld = b.refHeld
          /\ d.active = b.active /\ d.allOwned = b.allOwned
          /\ \A t \in Tokens : h \in d.owners[t] <=>
               h \in b.owners[t] \/ (b.heldBy[h] = t /\ h \in b.refHeld \cap b.active)
      BY <1>1, <2>1, HoldDoes
    <2>3. Touches(c, d, h)
      BY <1>1, <2>2, TouchesTwice
    <2>4. HolderIsOwner(d, h)
      BY <1>1, <2>2 DEF HolderIsOwner
    <2>5. ASSUME Counted(c, h), NEW t \in Tokens
          PROVE  /\ h \in d.owners[t] <=> d.heldBy[h] = t /\ h \in d.refHeld \cap d.active
                 /\ h \in d.allOwned[t] <=> d.heldBy[h] = t
      <3>1. /\ h \in c.owners[t] => c.heldBy[h] = t /\ h \in c.refHeld \cap c.active
            /\ h \in c.allOwned[t] <=> c.heldBy[h] = t
        BY <2>5 DEF Counted
      <3> QED
        BY <1>1, <2>2, <3>1
    <2> QED
      BY <1>1, <2>2, <2>3, <2>4, <2>5 DEF Counted
  <1>2. CASE d = Started(c, h)
    <2> DEFINE b == [c EXCEPT !.active = @ \cup {h}]
    <2>1. /\ Touches(c, b, h) /\ b.heldBy = c.heldBy /\ b.owners = c.owners
          /\ b.allOwned = c.allOwned /\ c.refHeld \subseteq b.refHeld /\ c.active \subseteq b.active
      BY DEF Touches, Counts
    <2>2. d = Hold(b, h)
      BY <1>2 DEF Started
    <2> HIDE DEF b
    <2> QED
      BY <1>1, <2>1, <2>2
  <1>3. CASE d = Referenced(c, h)
    <2> DEFINE b == [c EXCEPT !.refHeld = @ \cup {h}]
    <2>1. /\ Touches(c, b, h) /\ b.heldBy = c.heldBy /\ b.owners = c.owners
          /\ b.allOwned = c.allOwned /\ c.refHeld \subseteq b.refHeld /\ c.active \subseteq b.active
      BY DEF Touches, Counts
    <2>2. d = Hold(b, h)
      BY <1>3 DEF Referenced
    <2> HIDE DEF b
    <2> QED
      BY <1>1, <2>1, <2>2
  <1> QED
    BY <1>2, <1>3

\* stopHandle and unrefHandle: one mark less, and drop().
LEMMA MarkedDrop ==
  ASSUME NEW c \in Counts, NEW h \in Handles, HolderIsOwner(c, h),
         NEW d \in {Stopped(c, h), Unreferenced(c, h)}
  PROVE  /\ Touches(c, d, h) /\ d.heldBy = c.heldBy /\ d.allOwned = c.allOwned
         /\ \A t \in Tokens : h \notin d.owners[t]
         /\ HolderIsOwner(d, h)
         /\ Counted(c, h) => Counted(d, h)
  <1>1. ASSUME NEW b, Touches(c, b, h), b.heldBy = c.heldBy, b.owners = c.owners,
               b.allOwned = c.allOwned, h \notin b.refHeld \cap b.active, d = Drop(b, h)
        PROVE  /\ Touches(c, d, h) /\ d.heldBy = c.heldBy /\ d.allOwned = c.allOwned
               /\ \A t \in Tokens : h \notin d.owners[t]
               /\ HolderIsOwner(d, h)
               /\ Counted(c, h) => Counted(d, h)
    <2>1. b \in Counts
      BY <1>1 DEF Touches
    <2>2. /\ Touches(b, d, h) /\ d.heldBy = b.heldBy /\ d.refHeld = b.refHeld
          /\ d.active = b.active /\ d.allOwned = b.allOwned
          /\ \A t \in Tokens : h \in d.owners[t] <=> h \in b.owners[t] /\ b.heldBy[h] # t
      BY <1>1, <2>1, DropDoes
    <2>3. Touches(c, d, h)
      BY <1>1, <2>2, TouchesTwice
    <2>4. \A t \in Tokens : h \notin d.owners[t]
      <3>1. \A t \in Tokens : h \in c.owners[t] => c.heldBy[h] = t
        BY DEF HolderIsOwner
      <3>2. \A t \in Tokens : h \in d.owners[t] => h \in c.owners[t] /\ c.heldBy[h] # t
        BY <1>1, <2>2
      <3> QED
        BY <3>1, <3>2
    <2>5. HolderIsOwner(d, h)
      <3>1. \A t \in Tokens : h \in c.allOwned[t] => c.heldBy[h] = t
        BY DEF HolderIsOwner
      <3>2. d.heldBy = c.heldBy /\ d.allOwned = c.allOwned
        BY <1>1, <2>2
      <3> QED
        BY <2>4, <3>1, <3>2 DEF HolderIsOwner
    <2>6. ASSUME Counted(c, h), NEW t \in Tokens
          PROVE  /\ h \in d.owners[t] <=> d.heldBy[h] = t /\ h \in d.refHeld \cap d.active
                 /\ h \in d.allOwned[t] <=> d.heldBy[h] = t
      <3>1. h \in c.allOwned[t] <=> c.heldBy[h] = t
        BY <2>6 DEF Counted
      <3> QED
        BY <1>1, <2>2, <2>4, <3>1
    <2> QED
      BY <1>1, <2>2, <2>3, <2>4, <2>5, <2>6 DEF Counted
  <1>2. CASE d = Stopped(c, h)
    <2> DEFINE b == [c EXCEPT !.active = @ \ {h}]
    <2>1. /\ Touches(c, b, h) /\ b.heldBy = c.heldBy /\ b.owners = c.owners
          /\ b.allOwned = c.allOwned /\ h \notin b.refHeld \cap b.active
      BY DEF Touches, Counts
    <2>2. d = Drop(b, h)
      BY <1>2 DEF Stopped
    <2> HIDE DEF b
    <2> QED
      BY <1>1, <2>1, <2>2
  <1>3. CASE d = Unreferenced(c, h)
    <2> DEFINE b == [c EXCEPT !.refHeld = @ \ {h}]
    <2>1. /\ Touches(c, b, h) /\ b.heldBy = c.heldBy /\ b.owners = c.owners
          /\ b.allOwned = c.allOwned /\ h \notin b.refHeld \cap b.active
      BY DEF Touches, Counts
    <2>2. d = Drop(b, h)
      BY <1>3 DEF Unreferenced
    <2> HIDE DEF b
    <2> QED
      BY <1>1, <2>1, <2>2
  <1> QED
    BY <1>2, <1>3

\* adoptHandle: the handle leaves its holder for another.
LEMMA AdoptedDoes ==
  ASSUME NEW c \in Counts, NEW h \in Handles, NEW t \in Names
  PROVE  LET d == Adopted(c, h, t) IN
         /\ Touches(c, d, h) /\ d.heldBy[h] = t
         /\ d.refHeld = c.refHeld /\ d.active = c.active
         /\ \A u \in Tokens :
              /\ h \in d.allOwned[u] <=> (h \in c.allOwned[u] /\ c.heldBy[h] # u) \/ u = t
              /\ h \in d.owners[u] <=> \/ h \in c.owners[u] /\ c.heldBy[h] # u
                                       \/ u = t /\ h \in c.refHeld \cap c.active
  <1> DEFINE a == Drop(c, h)
             b == Disown(a, h)
             e == Give(b, h, t)
             d == Adopted(c, h, t)
  <1>1. d = Hold(e, h)
    BY DEF Adopted
  <1> HIDE DEF d
  <1>2. /\ Touches(c, a, h) /\ a.heldBy = c.heldBy /\ a.refHeld = c.refHeld
        /\ a.active = c.active /\ a.allOwned = c.allOwned
        /\ \A u \in Tokens : h \in a.owners[u] <=> h \in c.owners[u] /\ c.heldBy[h] # u
    BY DropDoes
  <1>3. a \in Counts
    BY <1>2 DEF Touches
  <1> HIDE DEF a
  <1>4. /\ Touches(a, b, h) /\ b.heldBy = a.heldBy /\ b.refHeld = a.refHeld
        /\ b.active = a.active /\ b.owners = a.owners
        /\ \A u \in Tokens : h \in b.allOwned[u] <=> h \in a.allOwned[u] /\ a.heldBy[h] # u
    BY <1>3, DisownDoes
  <1>5. b \in Counts
    BY <1>4 DEF Touches
  <1> HIDE DEF b
  <1>6. /\ Touches(b, e, h) /\ e.heldBy[h] = t /\ e.refHeld = b.refHeld
        /\ e.active = b.active /\ e.owners = b.owners
        /\ \A u \in Tokens : h \in e.allOwned[u] <=> h \in b.allOwned[u] \/ u = t
    BY <1>5, GiveDoes
  <1>7. e \in Counts
    BY <1>6 DEF Touches
  <1> HIDE DEF e
  <1>8. /\ Touches(e, d, h) /\ d.heldBy = e.heldBy /\ d.refHeld = e.refHeld
        /\ d.active = e.active /\ d.allOwned = e.allOwned
        /\ \A u \in Tokens : h \in d.owners[u] <=>
             h \in e.owners[u] \/ (e.heldBy[h] = u /\ h \in e.refHeld \cap e.active)
    BY <1>1, <1>7, HoldDoes
  <1>9. Touches(c, d, h)
    BY <1>2, <1>4, <1>6, <1>8, TouchesTwice
  <1>10. \A u \in Tokens :
           /\ h \in d.allOwned[u] <=> (h \in c.allOwned[u] /\ c.heldBy[h] # u) \/ u = t
           /\ h \in d.owners[u] <=> \/ h \in c.owners[u] /\ c.heldBy[h] # u
                                    \/ u = t /\ h \in c.refHeld \cap c.active
    <2>1. e.refHeld = c.refHeld /\ e.active = c.active /\ a.heldBy = c.heldBy /\ e.heldBy[h] = t
      BY <1>2, <1>4, <1>6
    <2> SUFFICES ASSUME NEW u \in Tokens
                 PROVE  /\ h \in d.allOwned[u] <=> (h \in c.allOwned[u] /\ c.heldBy[h] # u) \/ u = t
                        /\ h \in d.owners[u] <=> \/ h \in c.owners[u] /\ c.heldBy[h] # u
                                                 \/ u = t /\ h \in c.refHeld \cap c.active
      OBVIOUS
    <2>2. /\ d.allOwned[u] = e.allOwned[u] /\ a.allOwned[u] = c.allOwned[u]
          /\ h \in e.allOwned[u] <=> h \in b.allOwned[u] \/ u = t
          /\ h \in b.allOwned[u] <=> h \in a.allOwned[u] /\ a.heldBy[h] # u
      BY <1>2, <1>4, <1>6, <1>8
    <2>3. /\ e.owners[u] = a.owners[u]
          /\ h \in a.owners[u] <=> h \in c.owners[u] /\ c.heldBy[h] # u
          /\ h \in d.owners[u] <=>
               h \in e.owners[u] \/ (e.heldBy[h] = u /\ h \in e.refHeld \cap e.active)
      BY <1>2, <1>4, <1>6, <1>8
    <2> QED
      BY <2>1, <2>2, <2>3
  <1>11. d.heldBy[h] = t /\ d.refHeld = c.refHeld /\ d.active = c.active
    BY <1>2, <1>4, <1>6, <1>8
  <1> QED
    BY <1>9, <1>10, <1>11 DEF d

\* releaseHandle: the handle is no run's.
LEMMA ReleasedDoes ==
  ASSUME NEW c \in Counts, NEW h \in Handles, HolderIsOwner(c, h)
  PROVE  LET d == Released(c, h) IN
         /\ Touches(c, d, h) /\ d.heldBy[h] = Unset
         /\ \A u \in Tokens : h \notin d.owners[u] /\ h \notin d.allOwned[u]
  <1> DEFINE a == Drop(c, h)
             b == Disown(a, h)
             d == Released(c, h)
  <1>1. d = [b EXCEPT !.heldBy[h] = Unset, !.refHeld = @ \ {h}, !.active = @ \ {h}]
    BY DEF Released
  <1> HIDE DEF d
  <1>2. /\ Touches(c, a, h) /\ a.heldBy = c.heldBy /\ a.allOwned = c.allOwned
        /\ \A u \in Tokens : h \in a.owners[u] <=> h \in c.owners[u] /\ c.heldBy[h] # u
    BY DropDoes
  <1>3. a \in Counts
    BY <1>2 DEF Touches
  <1> HIDE DEF a
  <1>4. /\ Touches(a, b, h) /\ b.owners = a.owners
        /\ \A u \in Tokens : h \in b.allOwned[u] <=> h \in a.allOwned[u] /\ a.heldBy[h] # u
    BY <1>3, DisownDoes
  <1>5. b \in Counts
    BY <1>4 DEF Touches
  <1> HIDE DEF b
  <1>6. /\ Touches(b, d, h) /\ d.heldBy[h] = Unset /\ d.owners = b.owners
        /\ d.allOwned = b.allOwned
    BY <1>1, <1>5 DEF Touches, Counts
  <1>7. Touches(c, d, h)
    BY <1>2, <1>4, <1>6, TouchesTwice
  <1>8. \A u \in Tokens : h \notin d.owners[u] /\ h \notin d.allOwned[u]
    BY <1>2, <1>4, <1>6 DEF HolderIsOwner
  <1> QED
    BY <1>6, <1>7, <1>8 DEF d

\* A handle that was no other's, registered in whichever run is current and then
\* given to its own: a request's hold, a timer that is armed.
LEMMA RehomedDoes ==
  ASSUME NEW c \in Counts, NEW h \in Handles, NEW current \in Names, NEW owner \in Names,
         HolderIsOwner(c, h), c.heldBy[h] \in {Unset, owner}
  PROVE  LET d == Adopted(Registered(c, h, current, TRUE), h, owner) IN
         /\ Touches(c, d, h) /\ d.heldBy[h] = owner /\ HolderIsOwner(d, h) /\ Counted(d, h)
  <1> DEFINE a == Registered(c, h, current, TRUE)
             d == Adopted(a, h, owner)
  <1>1. /\ Touches(c, a, h) /\ a.heldBy[h] = current /\ h \in a.refHeld /\ h \in a.active
        /\ \A u \in Tokens :
             /\ h \in a.allOwned[u] <=> h \in c.allOwned[u] \/ u = current
             /\ h \in a.owners[u] => h \in c.owners[u] \/ u = current
    <2>1. /\ Touches(c, a, h) /\ a.heldBy[h] = current
          /\ a.refHeld = c.refHeld \cup {h}
          /\ TRUE => a.active = c.active \cup {h}
          /\ ~TRUE => a.active = c.active
          /\ \A u \in Tokens :
               /\ h \in a.allOwned[u] <=> h \in c.allOwned[u] \/ u = current
               /\ h \in a.owners[u] <=> h \in c.owners[u] \/ (u = current /\ h \in a.active)
      BY RegisteredDoes, Zenon
    <2> HIDE DEF a
    <2> QED
      BY <2>1
  <1>2. a \in Counts
    BY <1>1 DEF Touches
  <1> HIDE DEF a
  <1>3. /\ Touches(a, d, h) /\ d.heldBy[h] = owner
        /\ d.refHeld = a.refHeld /\ d.active = a.active
        /\ \A u \in Tokens :
             /\ h \in d.allOwned[u] <=> (h \in a.allOwned[u] /\ a.heldBy[h] # u) \/ u = owner
             /\ h \in d.owners[u] <=> \/ h \in a.owners[u] /\ a.heldBy[h] # u
                                      \/ u = owner /\ h \in a.refHeld \cap a.active
    BY <1>2, AdoptedDoes
  <1> HIDE DEF d
  <1>4. \A u \in Tokens : h \in c.owners[u] \cup c.allOwned[u] => u = owner
    BY OwnerAssumption DEF HolderIsOwner
  <1>5. \A u \in Tokens : /\ h \in d.allOwned[u] <=> u = owner
                          /\ h \in d.owners[u] <=> u = owner
    BY <1>1, <1>3, <1>4
  <1>6. Touches(c, d, h)
    BY <1>1, <1>3, TouchesTwice
  <1>7. Counted(d, h)
    <2> SUFFICES ASSUME NEW t \in Tokens
                 PROVE  /\ h \in d.owners[t] <=> d.heldBy[h] = t /\ h \in d.refHeld \cap d.active
                        /\ h \in d.allOwned[t] <=> d.heldBy[h] = t
      BY DEF Counted
    <2> QED
      BY <1>1, <1>3, <1>5
  <1>8. HolderIsOwner(d, h)
    BY <1>3, <1>5 DEF HolderIsOwner
  <1> QED
    BY <1>3, <1>6, <1>7, <1>8 DEF d, a

\* An internal timer is armed, or armed again.
LEMMA ArmedDoes ==
  ASSUME NEW c \in Counts, NEW h \in Handles, NEW current \in Names, NEW owner \in Names,
         NEW ref \in BOOLEAN, HolderIsOwner(c, h), c.heldBy[h] \in {Unset, owner}
  PROVE  LET d == Armed(c, h, current, owner, ref) IN
         /\ Touches(c, d, h) /\ d.heldBy[h] = owner /\ HolderIsOwner(d, h) /\ Counted(d, h)
  <1> DEFINE a == Adopted(Registered(c, h, current, TRUE), h, owner)
             d == Armed(c, h, current, owner, ref)
  <1>1. /\ Touches(c, a, h) /\ a.heldBy[h] = owner /\ HolderIsOwner(a, h) /\ Counted(a, h)
    BY RehomedDoes
  <1>2. d = IF ref THEN a ELSE Unreferenced(a, h)
    BY DEF Armed
  <1>3. a \in Counts
    BY <1>1 DEF Touches
  <1> HIDE DEF a, d
  <1>4. CASE ref
    BY <1>1, <1>2, <1>4 DEF d
  <1>5. CASE ~ref
    <2>1. /\ Touches(a, d, h) /\ d.heldBy = a.heldBy /\ HolderIsOwner(d, h) /\ Counted(d, h)
      BY <1>1, <1>2, <1>3, <1>5, MarkedDrop
    <2> QED
      BY <1>1, <2>1, TouchesTwice DEF d
  <1> QED
    BY <1>4, <1>5

-----------------------------------------------------------------------------
(* The operations on handles *)

\* A step that changes one handle, and gives it to no ended run unnoticed.
OnlyHandle(h) ==
  /\ Touches(count, count', h)
  /\ stage' \in [Handles -> Stages] /\ home' \in [Handles -> Tokens \cup {Null, Unset}]
  /\ listening' \subseteq Handles /\ wanted' \subseteq Handles
  /\ wraps \subseteq wraps' /\ wraps' \subseteq wraps \cup {h}
  /\ \A g \in Handles \ {h} : stage'[g] = stage[g] /\ home'[g] = home[g]
  /\ h \in wraps /\ stage[h] \in {"closing", "closed"} => stage'[h] = stage[h]
  /\ late \subseteq late' /\ late' \subseteq late \cup {h}
  /\ \A t \in ended : h \in count'.allOwned[t] => h \in count.allOwned[t] \cup late'
  /\ UNCHANGED <<timerVars, port, endVars>>

\* Such a step keeps everything that is not said of that handle.
LEMMA OneHandle ==
  ASSUME WorkInv, NEW h \in Handles, OnlyHandle(h), HandleOK(h)'
  PROVE  WorkInv'
  <1>1. UNCHANGED <<timer, held, port, phase, ending, awaited, outcome, broken, threw, ended, owed>>
    BY DEF OnlyHandle, timerVars, endVars
  <1>2. TypeOK'
    BY <1>1 DEF WorkInv, TypeOK, OnlyHandle, Touches, TimersTypeOK, PortsTypeOK, Completions
  <1>3. HandleInv'
    <2> SUFFICES ASSUME NEW g \in Handles \ {h} PROVE HandleOK(g)'
      BY DEF HandleInv
    <2>1. HandleOK(g)
      BY DEF WorkInv, HandleInv
    <2>2. /\ count'.heldBy[g] = count.heldBy[g]
          /\ g \in count'.refHeld <=> g \in count.refHeld
          /\ g \in count'.active <=> g \in count.active
          /\ \A t \in Tokens : /\ g \in count'.owners[t] <=> g \in count.owners[t]
                               /\ g \in count'.allOwned[t] <=> g \in count.allOwned[t]
          /\ stage'[g] = stage[g] /\ home'[g] = home[g] /\ (g \in wraps' <=> g \in wraps)
      BY DEF OnlyHandle, Touches
    <2>3. HolderIsOwner(count, g)'
      BY <2>1, <2>2 DEF HandleOK, HolderIsOwner
    <2>4. StageAgrees(g)'
      BY <1>1, <2>1, <2>2 DEF HandleOK, StageAgrees
    <2>5. ASSUME stage'[g] \in {"open", "fired"} PROVE Counted(count, g)'
      BY <2>1, <2>2, <2>5 DEF HandleOK, Counted
    <2> QED
      BY <2>3, <2>4, <2>5 DEF HandleOK
  <1>4. FinallyEnds'
    BY <1>1 DEF WorkInv, FinallyEnds
  <1>5. AllIsLate'
    <2> SUFFICES ASSUME NEW t \in ended
                 PROVE  count'.allOwned[t] \cup HeldBy(t) \cup OpenPorts(t) \subseteq late'
      BY <1>1 DEF AllIsLate, HeldBy, OpenPorts
    <2>1. t \in Tokens /\ count.allOwned[t] \cup HeldBy(t) \cup OpenPorts(t) \subseteq late
      BY DEF WorkInv, AllIsLate, TypeOK
    <2>2. count' \in Counts
      BY DEF OnlyHandle, Touches
    <2>3. ASSUME NEW g \in count'.allOwned[t] PROVE g \in late'
      <3>1. g \in Handles
        BY <2>1, <2>2 DEF Counts
      <3>2. g # h => g \in count.allOwned[t]
        BY <2>1, <2>3, <3>1 DEF OnlyHandle, Touches
      <3> QED
        BY <2>1, <2>3, <3>2 DEF OnlyHandle
    <2> QED
      BY <2>1, <2>3 DEF OnlyHandle
  <1>6. EndsAreAccounted'
    <2>1. \A g \in wraps : /\ g \in wraps'
                           /\ stage[g] \in {"closing", "closed"} => stage'[g] = stage[g]
      BY DEF OnlyHandle, WorkInv, TypeOK
    <2>2. ASSUME NEW t \in Tokens, NEW promise, Accounts(promise, t) PROVE Accounts(promise, t)'
      BY <1>1, <2>1, <2>2 DEF Accounts
    <2>3. ASSUME NEW t \in Tokens, phase[t] = "finished", NEW g \in owed[t]
          PROVE  g \in wraps' /\ stage'[g] = "closed" /\ (g \in threw' \cup broken' => outcome'[t] = "failed")
      BY <1>1, <2>1, <2>3 DEF WorkInv, EndsAreAccounted
    <2>4. ASSUME NEW t \in Tokens
          PROVE  /\ Accounts(ending[t], t) => Accounts(ending[t], t)'
                 /\ Accounts(awaited[t], t) => Accounts(awaited[t], t)'
      BY <1>1, <2>2
    <2> QED
      BY <1>1, <2>3, <2>4 DEF WorkInv, EndsAreAccounted
  <1> QED
    BY <1>2, <1>3, <1>4, <1>5, <1>6 DEF WorkInv

\* What the history records of a handle that comes to a run.
LEMMA ComesLate ==
  ASSUME WorkInv, NEW h \in Handles, NEW t, Comes(h, t)
  PROVE  /\ late \subseteq late' /\ late' \subseteq late \cup {h}
         /\ t \in ended => h \in late'
  BY DEF Comes

\* A handle of any kind is made and entered in the tables.
LEMMA MadeKeeps ==
  ASSUME WorkInv, NEW h \in Handles, NEW t \in Names,
         stage[h] = "new", stage' = [stage EXCEPT ![h] = "open"],
         Touches(count, count', h), count'.heldBy[h] = t, HolderIsOwner(count', h),
         Counted(count', h), Comes(h, t), listening' \subseteq listening \cup {h},
         \/ wraps' = wraps \cup {h} /\ UNCHANGED home
         \/ wraps' = wraps /\ (home' = home \/ home' = [home EXCEPT ![h] = t]),
         UNCHANGED <<wanted, timerVars, port, endVars>>
  PROVE  WorkInv'
  <1>1. HandleOK(h) /\ TypeOK
    BY DEF WorkInv, HandleInv
  <1>2. /\ stage'[h] = "open" /\ \A g \in Handles \ {h} : stage'[g] = stage[g] /\ home'[g] = home[g]
        /\ stage' \in [Handles -> Stages] /\ home' \in [Handles -> Tokens \cup {Null, Unset}]
        /\ home'[h] \in {Unset, t} /\ (home'[h] # Unset => h \notin wraps')
    BY <1>1 DEF TypeOK, Stages, Names, HandleOK, StageAgrees
  <1>3. \A u \in Tokens : h \in count'.allOwned[u] => u = t
    BY DEF HolderIsOwner
  <1>4. OnlyHandle(h)
    BY <1>1, <1>2, <1>3, ComesLate DEF OnlyHandle, TypeOK
  <1>5. h \notin threw' \cup broken'
    BY <1>1 DEF endVars, HandleOK, StageAgrees
  <1>6. StageAgrees(h)'
    BY <1>2, <1>5 DEF StageAgrees
  <1>7. HandleOK(h)'
    BY <1>6 DEF HandleOK
  <1> QED
    BY <1>4, <1>7, OneHandle

\* registerHandle
LEMMA MakeHandleKeeps ==
  ASSUME WorkInv, NEW h \in Handles, NEW t \in Currents, MakeHandle(h, t),
         UNCHANGED <<timerVars, port, endVars>>
  PROVE  WorkInv'
  <1>1. PICK active \in BOOLEAN, server \in BOOLEAN : RegisterHandle(h, t, active, server)
    BY DEF MakeHandle
  <1>2. HandleOK(h) /\ TypeOK /\ count \in Counts /\ t \in Names
    BY DEF WorkInv, HandleInv, TypeOK, Currents, Names
  <1>3. /\ stage[h] = "new" /\ stage' = [stage EXCEPT ![h] = "open"]
        /\ count' = Registered(count, h, t, active) /\ wraps' = wraps \cup {h}
        /\ listening' \subseteq listening \cup {h} /\ UNCHANGED <<home, wanted>>
    BY <1>1 DEF RegisterHandle
  <1>4. /\ Touches(count, count', h) /\ count'.heldBy[h] = t
        /\ count'.refHeld = count.refHeld \cup {h}
        /\ \A u \in Tokens :
             /\ h \in count'.allOwned[u] <=> h \in count.allOwned[u] \/ u = t
             /\ h \in count'.owners[u] <=> h \in count.owners[u] \/ (u = t /\ h \in count'.active)
    BY <1>2, <1>3, RegisteredDoes
  <1>5. \A u \in Tokens : h \notin count.owners[u] /\ h \notin count.allOwned[u]
    BY <1>2, <1>3, OwnerAssumption DEF HandleOK, HolderIsOwner, StageAgrees
  <1>6. HolderIsOwner(count', h) /\ Counted(count', h)
    <2>1. \A u \in Tokens : /\ h \in count'.allOwned[u] <=> count'.heldBy[h] = u
                            /\ h \in count'.owners[u] <=> count'.heldBy[h] = u /\ h \in count'.active
      BY <1>4, <1>5
    <2> QED
      BY <1>4, <2>1 DEF HolderIsOwner, Counted
  <1> QED
    BY <1>2, <1>3, <1>4, <1>6, MadeKeeps DEF MakeHandle

\* A request holds its handle's run.
LEMMA MakeRequestKeeps ==
  ASSUME WorkInv, NEW r \in Handles, NEW h \in Handles, NEW t \in Currents, MakeRequest(r, h, t),
         UNCHANGED <<timerVars, port, endVars>>
  PROVE  WorkInv'
  <1>1. HandleOK(r) /\ TypeOK /\ count \in Counts /\ t \in Names /\ OwnerOf(h) \in Names
    BY DEF WorkInv, HandleInv, TypeOK, Currents, Names, OwnerOf, Counts
  <1>2. /\ stage[r] = "new" /\ stage' = [stage EXCEPT ![r] = "open"]
        /\ count' = Adopted(Registered(count, r, t, TRUE), r, OwnerOf(h))
        /\ UNCHANGED <<listening, home, wanted, wraps>> /\ Comes(r, OwnerOf(h))
    BY DEF MakeRequest, HoldRequest, RequestHeld
  <1>3. HolderIsOwner(count, r) /\ count.heldBy[r] = Unset
    BY <1>1, <1>2 DEF HandleOK, StageAgrees
  <1>4. /\ Touches(count, count', r) /\ count'.heldBy[r] = OwnerOf(h)
        /\ HolderIsOwner(count', r) /\ Counted(count', r)
    BY <1>1, <1>2, <1>3, RehomedDoes
  <1> QED
    BY <1>1, <1>2, <1>4, MadeKeeps

\* An internal timer is made.
LEMMA MakeTimerKeeps ==
  ASSUME WorkInv, NEW h \in Handles, NEW t \in Currents, MakeTimer(h, t),
         UNCHANGED <<timerVars, port, endVars>>
  PROVE  WorkInv'
  <1>1. HandleOK(h) /\ TypeOK /\ count \in Counts /\ t \in Names
    BY DEF WorkInv, HandleInv, TypeOK, Currents, Names
  <1>2. /\ stage[h] = "new" /\ stage' = [stage EXCEPT ![h] = "open"]
        /\ count' = Armed(count, h, t, t, FALSE) /\ home' = [home EXCEPT ![h] = t]
        /\ UNCHANGED <<listening, wanted, wraps>> /\ Comes(h, t)
    BY DEF MakeTimer, NewTimer
  <1>3. HolderIsOwner(count, h) /\ count.heldBy[h] = Unset
    BY <1>1, <1>2 DEF HandleOK, StageAgrees
  <1>4. \A ref \in BOOLEAN : LET d == Armed(count, h, t, t, ref) IN
          /\ Touches(count, d, h) /\ d.heldBy[h] = t /\ HolderIsOwner(d, h) /\ Counted(d, h)
    BY <1>1, <1>3, ArmedDoes
  <1>5. FALSE \in BOOLEAN
    OBVIOUS
  <1>6. /\ Touches(count, count', h) /\ count'.heldBy[h] = t
        /\ HolderIsOwner(count', h) /\ Counted(count', h)
    BY <1>2, <1>4, <1>5, Zenon
  <1> QED
    BY <1>1, <1>2, <1>6, MadeKeeps

\* The handle's own run, or another, is the one it has after the step.
LEMMA OpenKeeps ==
  ASSUME WorkInv, NEW h \in Handles, NEW t \in Names,
         stage[h] \in {"open", "fired"} \/ (stage[h] = "closed" /\ home[h] # Unset),
         stage' = [stage EXCEPT ![h] = "open"], Touches(count, count', h), count'.heldBy[h] = t, HolderIsOwner(count', h),
         Counted(count', h), home[h] \in {Unset, t}, wanted' \subseteq wanted,
         (t = count.heldBy[h] /\ late' = late /\ stage[h] = "open") \/ Comes(h, t),
         UNCHANGED <<home, wraps, listening, timerVars, port, endVars>>
  PROVE  WorkInv'
  <1>1. HandleOK(h) /\ TypeOK /\ (home[h] # Unset => h \notin wraps)
    BY DEF WorkInv, HandleInv, HandleOK, StageAgrees
  <1>2. /\ stage'[h] = "open" /\ \A g \in Handles \ {h} : stage'[g] = stage[g]
        /\ stage' \in [Handles -> Stages]
    BY <1>1 DEF TypeOK, Stages
  <1>3. \A u \in Tokens : h \in count'.allOwned[u] => u = t
    BY DEF HolderIsOwner
  <1>4. /\ late \subseteq late' /\ late' \subseteq late \cup {h}
        /\ \A u \in ended : h \in count'.allOwned[u] => h \in count.allOwned[u] \cup late'
    <2>1. CASE Comes(h, t)
      BY <1>1, <1>3, <2>1, ComesLate DEF TypeOK
    <2>2. CASE t = count.heldBy[h] /\ late' = late /\ stage[h] = "open"
      BY <1>1, <1>3, <2>2 DEF TypeOK, HandleOK, Counted
    <2> QED
      BY <2>1, <2>2
  <1>5. OnlyHandle(h)
    BY <1>1, <1>2, <1>4 DEF OnlyHandle, TypeOK
  <1>6. h \notin threw' \cup broken'
    BY <1>1 DEF endVars, HandleOK, StageAgrees, TypeOK
  <1>7. StageAgrees(h)'
    BY <1>1, <1>2, <1>6 DEF StageAgrees, HandleOK
  <1>8. HandleOK(h)'
    BY <1>7 DEF HandleOK
  <1> QED
    BY <1>5, <1>8, OneHandle

\* An internal timer is armed again, in whichever run.
LEMMA RefreshKeeps ==
  ASSUME WorkInv, NEW h \in Handles, NEW t \in Currents, Refresh(h, t),
         UNCHANGED <<timerVars, port, endVars>>
  PROVE  WorkInv'
  <1>1. HandleOK(h) /\ TypeOK /\ count \in Counts /\ t \in Names /\ home[h] \in Names
    BY DEF WorkInv, HandleInv, TypeOK, Currents, Names
  <1>2. /\ home[h] # Unset /\ stage[h] \in {"open", "fired"} /\ stage' = [stage EXCEPT ![h] = "open"]
        /\ count' = Armed(count, h, t, home[h], h \in wanted)
        /\ UNCHANGED <<listening, home, wanted, wraps>> /\ Comes(h, home[h])
    BY DEF Refresh, RefreshTimer
  <1>3. HolderIsOwner(count, h) /\ count.heldBy[h] \in {Unset, home[h]}
    BY <1>1, <1>2 DEF HandleOK, StageAgrees
  <1>4. \A ref \in BOOLEAN : LET d == Armed(count, h, t, home[h], ref) IN
          /\ Touches(count, d, h) /\ d.heldBy[h] = home[h] /\ HolderIsOwner(d, h) /\ Counted(d, h)
    BY <1>1, <1>3, ArmedDoes
  <1>5. (h \in wanted) \in BOOLEAN
    OBVIOUS
  <1>6. /\ Touches(count, count', h) /\ count'.heldBy[h] = home[h]
        /\ HolderIsOwner(count', h) /\ Counted(count', h)
    BY <1>2, <1>4, <1>5, Zenon
  <1> QED
    BY <1>1, <1>2, <1>6, OpenKeeps

\* An internal timer that fired or was cleared is armed for another callback.
LEMMA ReuseKeeps ==
  ASSUME WorkInv, NEW h \in Handles, NEW t \in Currents, Reuse(h, t),
         UNCHANGED <<timerVars, port, endVars>>
  PROVE  WorkInv'
  <1>1. HandleOK(h) /\ TypeOK /\ count \in Counts /\ t \in Names /\ home[h] \in Names
    BY DEF WorkInv, HandleInv, TypeOK, Currents, Names
  <1>2. /\ home[h] # Unset /\ stage[h] \in {"fired", "closed"} /\ stage' = [stage EXCEPT ![h] = "open"]
        /\ count' = Armed(count, h, t, home[h], FALSE) /\ wanted' \subseteq wanted
        /\ UNCHANGED <<listening, home, wraps>> /\ Comes(h, home[h])
    BY DEF Reuse, ReuseTimer
  <1>3. HolderIsOwner(count, h) /\ count.heldBy[h] \in {Unset, home[h]}
    BY <1>1, <1>2 DEF HandleOK, StageAgrees, TypeOK
  <1>4. \A ref \in BOOLEAN : LET d == Armed(count, h, t, home[h], ref) IN
          /\ Touches(count, d, h) /\ d.heldBy[h] = home[h] /\ HolderIsOwner(d, h) /\ Counted(d, h)
    BY <1>1, <1>3, ArmedDoes
  <1>5. FALSE \in BOOLEAN
    OBVIOUS
  <1>6. /\ Touches(count, count', h) /\ count'.heldBy[h] = home[h]
        /\ HolderIsOwner(count', h) /\ Counted(count', h)
    BY <1>2, <1>4, <1>5, Zenon
  <1> QED
    BY <1>1, <1>2, <1>6, OpenKeeps

\* A handle goes from one run to another.
LEMMA AdoptKeeps ==
  ASSUME WorkInv, NEW h \in Handles, NEW t \in Currents, Adopt(h, t),
         UNCHANGED <<timerVars, port, endVars>>
  PROVE  WorkInv'
  <1>1. HandleOK(h) /\ TypeOK /\ count \in Counts /\ t \in Names
    BY DEF WorkInv, HandleInv, TypeOK, Currents, Names
  <1>2. /\ stage[h] = "open" /\ h \in wraps /\ count' = Adopted(count, h, t)
        /\ UNCHANGED <<stage, listening, home, wanted, wraps>> /\ Comes(h, t)
    BY DEF Adopt, AdoptHandle
  <1>3. HolderIsOwner(count, h) /\ home[h] = Unset
    BY <1>1, <1>2 DEF HandleOK, StageAgrees
  <1>4. /\ Touches(count, count', h) /\ count'.heldBy[h] = t
        /\ count'.refHeld = count.refHeld /\ count'.active = count.active
        /\ \A u \in Tokens :
             /\ h \in count'.allOwned[u] <=> (h \in count.allOwned[u] /\ count.heldBy[h] # u) \/ u = t
             /\ h \in count'.owners[u] <=> \/ h \in count.owners[u] /\ count.heldBy[h] # u
                                           \/ u = t /\ h \in count.refHeld \cap count.active
    BY <1>1, <1>2, AdoptedDoes
  <1>5. \A u \in Tokens :
          /\ h \in count'.allOwned[u] <=> count'.heldBy[h] = u
          /\ h \in count'.owners[u] <=> count'.heldBy[h] = u /\ h \in count'.refHeld \cap count'.active
    BY <1>3, <1>4 DEF HolderIsOwner
  <1>6. HolderIsOwner(count', h) /\ Counted(count', h)
    BY <1>5 DEF HolderIsOwner, Counted
  <1>7. stage' = [stage EXCEPT ![h] = "open"]
    BY <1>1, <1>2 DEF TypeOK
  <1> QED
    BY <1>1, <1>2, <1>3, <1>4, <1>6, <1>7, OpenKeeps

\* A step that changes only a handle's marks, open or not.
LEMMA MarkKeeps ==
  ASSUME WorkInv, NEW h \in Handles, stage[h] # "new",
         Touches(count, count', h), count'.heldBy = count.heldBy,
         count'.allOwned = count.allOwned, HolderIsOwner(count', h),
         Counted(count, h) => Counted(count', h), wanted' \subseteq wanted \cup {h},
         UNCHANGED <<stage, home, wraps, listening, late, timerVars, port, endVars>>
  PROVE  WorkInv'
  <1>1. HandleOK(h) /\ TypeOK
    BY DEF WorkInv, HandleInv
  <1>2. OnlyHandle(h)
    BY <1>1 DEF OnlyHandle, TypeOK
  <1>3. UNCHANGED <<threw, broken>>
    BY DEF endVars
  <1>4. StageAgrees(h)'
    BY <1>1, <1>3 DEF StageAgrees, HandleOK
  <1>5. stage'[h] \in {"open", "fired"} => Counted(count', h)
    BY <1>1 DEF HandleOK
  <1>6. HandleOK(h)'
    BY <1>4, <1>5 DEF HandleOK
  <1> QED
    BY <1>2, <1>6, OneHandle

\* start, stop, ref and unref of a handle.
LEMMA MarkStepKeeps ==
  ASSUME WorkInv, NEW h \in Handles,
         StartHandle(h) \/ StopHandle(h) \/ RefHandle(h) \/ UnrefHandle(h),
         UNCHANGED <<late, timerVars, port, endVars>>
  PROVE  WorkInv'
  <1>1. HandleOK(h) /\ TypeOK /\ count \in Counts /\ HolderIsOwner(count, h)
    BY DEF WorkInv, HandleInv, HandleOK, TypeOK
  <1>2. /\ stage[h] # "new" /\ wanted' \subseteq wanted \cup {h}
        /\ UNCHANGED <<stage, home, wraps, listening>>
        /\ count' \in {Started(count, h), Referenced(count, h)}
             \cup {Stopped(count, h), Unreferenced(count, h)}
    BY DEF StartHandle, StopHandle, RefHandle, UnrefHandle
  <1>3. /\ Touches(count, count', h) /\ count'.heldBy = count.heldBy
        /\ count'.allOwned = count.allOwned /\ HolderIsOwner(count', h)
        /\ Counted(count, h) => Counted(count', h)
    BY <1>1, <1>2, MarkedHold, MarkedDrop
  <1> QED
    BY <1>2, <1>3, MarkKeeps

\* A handle closed, a request answered, a timer cleared or fired.
LEMMA ReleaseStepKeeps ==
  ASSUME WorkInv, NEW h \in Handles, CloseHandle(h) \/ FireTimer(h),
         UNCHANGED <<late, timerVars, port, endVars>>
  PROVE  WorkInv'
  <1>1. HandleOK(h) /\ TypeOK /\ count \in Counts /\ HolderIsOwner(count, h)
    BY DEF WorkInv, HandleInv, HandleOK, TypeOK
  <1>2. /\ count' = Released(count, h) /\ stage[h] \in {"open", "fired"}
        /\ stage' = [stage EXCEPT ![h] = "closed"] \/ stage' = [stage EXCEPT ![h] = "fired"]
        /\ listening' \subseteq listening /\ UNCHANGED <<home, wanted, wraps>>
    BY DEF CloseHandle, FireTimer
  <1>3. /\ Touches(count, count', h) /\ count'.heldBy[h] = Unset
        /\ \A u \in Tokens : h \notin count'.owners[u] /\ h \notin count'.allOwned[u]
    BY <1>1, <1>2, ReleasedDoes
  <1>4. /\ stage'[h] \in {"closed", "fired"} /\ \A g \in Handles \ {h} : stage'[g] = stage[g]
        /\ stage' \in [Handles -> Stages]
    BY <1>1, <1>2 DEF TypeOK, Stages
  <1>5. OnlyHandle(h)
    BY <1>1, <1>2, <1>3, <1>4 DEF OnlyHandle, TypeOK
  <1>6. h \notin threw' \cup broken'
    BY <1>1, <1>2 DEF endVars, HandleOK, StageAgrees
  <1>7. StageAgrees(h)'
    BY <1>1, <1>2, <1>3, <1>4, <1>6 DEF StageAgrees, HandleOK
  <1>8. HolderIsOwner(count', h) /\ Counted(count', h)
    BY <1>3, OwnerAssumption DEF HolderIsOwner, Counted
  <1>9. HandleOK(h)'
    BY <1>7, <1>8 DEF HandleOK
  <1> QED
    BY <1>5, <1>9, OneHandle

\* Every operation on a handle.
LEMMA HandleStepKeeps ==
  ASSUME WorkInv, HandleStep
  PROVE  WorkInv'
  <1>1. UNCHANGED <<timerVars, port, endVars>>
    BY DEF HandleStep
  <1>2. ASSUME NEW h \in Handles, NEW t \in Currents,
               \/ MakeHandle(h, t) \/ MakeTimer(h, t) \/ Refresh(h, t) \/ Reuse(h, t)
               \/ Adopt(h, t)
               \/ \E r \in Handles : MakeRequest(r, h, t)
        PROVE  WorkInv'
    BY <1>1, <1>2, MakeHandleKeeps, MakeTimerKeeps, RefreshKeeps, ReuseKeeps, AdoptKeeps,
       MakeRequestKeeps
  <1>3. ASSUME NEW h \in Handles, UNCHANGED late,
               \/ StartHandle(h) \/ StopHandle(h) \/ RefHandle(h) \/ UnrefHandle(h)
               \/ FireTimer(h) \/ CloseHandle(h)
        PROVE  WorkInv'
    BY <1>1, <1>3, MarkStepKeeps, ReleaseStepKeeps
  <1> QED
    BY <1>2, <1>3 DEF HandleStep

-----------------------------------------------------------------------------
(* The operations on timers and ports *)

\* A step of a timer or a port keeps what is said of handles and of ends.
LEMMA WorkFrame ==
  ASSUME WorkInv, UNCHANGED <<handleVars, endVars>>
  PROVE  /\ HandleInv' /\ FinallyEnds' /\ EndsAreAccounted'
         /\ TimersTypeOK' /\ PortsTypeOK' /\ late' \subseteq Handles \cup Timers \cup Ports => TypeOK'
  <1> USE DEF handleVars, endVars, WorkInv
  <1>1. HandleInv'
    BY DEF HandleInv, HandleOK, HolderIsOwner, StageAgrees, Counted
  <1>2. FinallyEnds' /\ EndsAreAccounted'
    BY DEF FinallyEnds, EndsAreAccounted, Accounts
  <1>3. TimersTypeOK' /\ PortsTypeOK' /\ late' \subseteq Handles \cup Timers \cup Ports => TypeOK'
    BY DEF TypeOK
  <1> QED
    BY <1>1, <1>2, <1>3

\* A step of one timer: it keeps what is said of the others and of ports, and gives
\* the timer to no ended run unnoticed.
LEMMA OneTimer ==
  ASSUME WorkInv, UNCHANGED <<handleVars, port, endVars>>, NEW x \in Timers,
         TimersTypeOK', \A y \in Timers \ {x} : timer'[y] = timer[y],
         \A y \in Timers \ {x} : y \in held' <=> y \in held,
         late \subseteq late', late' \subseteq late \cup {x},
         x \in held' /\ timer'[x].of \in ended =>
            (x \in held /\ timer[x].of = timer'[x].of) \/ x \in late'
  PROVE  WorkInv'
  <1>1. UNCHANGED <<count, ended>>
    BY DEF handleVars, endVars
  <1>2. HandleInv' /\ FinallyEnds' /\ EndsAreAccounted' /\ TypeOK'
    BY WorkFrame DEF WorkInv, TypeOK, PortsTypeOK
  <1>3. AllIsLate'
    <2> SUFFICES ASSUME NEW t \in ended
                 PROVE  count.allOwned[t] \cup HeldBy(t)' \cup OpenPorts(t) \subseteq late'
      BY <1>1 DEF AllIsLate, OpenPorts
    <2>1. count.allOwned[t] \cup HeldBy(t) \cup OpenPorts(t) \subseteq late
      BY DEF WorkInv, AllIsLate
    <2>2. ASSUME NEW y \in HeldBy(t)' PROVE y \in late'
      <3>1. y \in Timers /\ y \in held' /\ timer'[y].of = t
        BY <2>2 DEF HeldBy, TimersTypeOK
      <3>2. CASE y = x
        BY <2>1, <3>1, <3>2 DEF HeldBy
      <3>3. CASE y # x
        BY <2>1, <3>1, <3>3 DEF HeldBy
      <3> QED
        BY <3>2, <3>3
    <2> QED
      BY <2>1, <2>2
  <1> QED
    BY <1>2, <1>3 DEF WorkInv

\* A timer put on the loop's queue, or taken from it, is otherwise the timer it was.
LEMMA QueuedSet ==
  ASSUME TimersTypeOK, NEW x \in Timers, NEW b \in BOOLEAN, held' \subseteq Timers,
         \/ timer' = [timer EXCEPT ![x].queued = b]
         \/ timer' = [timer EXCEPT ![x].queued = b, ![x].cleared = TRUE]
  PROVE  /\ TimersTypeOK' /\ timer'[x].of = timer[x].of
         /\ \A y \in Timers \ {x} : timer'[y] = timer[y]
  <1> DEFINE R == [of : Tokens \cup {Unset}, repeats : BOOLEAN, queued : BOOLEAN, cleared : BOOLEAN]
  <1>1. timer \in [Timers -> R]
    BY DEF TimersTypeOK
  <1>2. PICK r : /\ r \in {[timer[x] EXCEPT !.queued = b],
                           [timer[x] EXCEPT !.queued = b, !.cleared = TRUE]}
                 /\ timer' = [timer EXCEPT ![x] = r]
    BY <1>1
  <1>3. timer[x] \in R
    BY <1>1
  <1>4. r \in R /\ r.of = timer[x].of
    BY <1>2, <1>3
  <1> HIDE DEF R
  <1>5. /\ timer' \in [Timers -> R] /\ timer'[x] = r
        /\ \A y \in Timers \ {x} : timer'[y] = timer[y]
    BY <1>1, <1>2, <1>4
  <1> QED
    BY <1>4, <1>5 DEF TimersTypeOK, R

\* Every operation on a timer.
LEMMA TimerStepKeeps ==
  ASSUME WorkInv, TimerStep
  PROVE  WorkInv'
  <1> USE DEF WorkInv, TypeOK
  <1>1. UNCHANGED <<handleVars, port, endVars>>
    BY DEF TimerStep
  <1>2. PICK x \in Timers :
          \/ \E t \in Currents \ {Null}, repeats \in BOOLEAN :
                SetTimer(x, t, repeats) /\ Comes(x, t)
          \/ (Fire(x) \/ ClearTimer(x) \/ RefreshTimeout(x)) /\ UNCHANGED late
          \/ RefTimer(x) /\ Comes(x, timer[x].of)
          \/ UnrefTimer(x) /\ UNCHANGED late
    BY DEF TimerStep
  <1>3. ASSUME NEW t \in Currents \ {Null}, NEW repeats \in BOOLEAN, SetTimer(x, t, repeats),
               Comes(x, t)
        PROVE  WorkInv'
    <2>1. /\ held' = held \cup {x}
          /\ timer' = [timer EXCEPT ![x] = [of |-> t, repeats |-> repeats, queued |-> TRUE,
                                            cleared |-> FALSE]]
      BY <1>3 DEF SetTimer
    <2>2. /\ timer'[x].of = t /\ TimersTypeOK' /\ t \in Tokens
          /\ \A y \in Timers \ {x} : timer'[y] = timer[y]
      BY <1>3, <2>1 DEF Currents, TimersTypeOK
    <2>3. late \subseteq late' /\ late' \subseteq late \cup {x} /\ (t \in ended => x \in late')
      BY <1>3 DEF Comes
    <2> QED
      BY <1>1, <1>3, <2>1, <2>2, <2>3, OneTimer
  <1>4. CASE (Fire(x) \/ ClearTimer(x) \/ RefreshTimeout(x)) /\ UNCHANGED late
    <2>1. held' \in {held, held \ {x}} /\ UNCHANGED late
      BY <1>4 DEF Fire, ClearTimer, RefreshTimeout
    <2>2. PICK b \in BOOLEAN : \/ timer' = [timer EXCEPT ![x].queued = b]
                              \/ timer' = [timer EXCEPT ![x].queued = b, ![x].cleared = TRUE]
      <3>1. timer[x].repeats \in BOOLEAN
        BY DEF TimersTypeOK
      <3> QED
        BY <1>4, <3>1 DEF Fire, ClearTimer, RefreshTimeout
    <2>3. TimersTypeOK /\ held' \subseteq Timers
      BY <2>1 DEF TimersTypeOK
    <2>4. /\ timer'[x].of = timer[x].of /\ TimersTypeOK'
          /\ \A y \in Timers \ {x} : timer'[y] = timer[y]
      BY <2>2, <2>3, QueuedSet, Zenon
    <2> QED
      BY <1>1, <2>1, <2>4, OneTimer
  <1>5. CASE RefTimer(x) /\ Comes(x, timer[x].of)
    <2>1. timer' = timer /\ held' = held \cup {x} /\ TimersTypeOK'
      BY <1>5 DEF RefTimer, TimersTypeOK
    <2>2. late \subseteq late' /\ late' \subseteq late \cup {x} /\ (timer[x].of \in ended => x \in late')
      BY <1>5 DEF Comes
    <2> QED
      BY <1>1, <1>5, <2>1, <2>2, OneTimer
  <1>6. CASE UnrefTimer(x) /\ UNCHANGED late
    <2>1. timer' = timer /\ held' = held \ {x} /\ TimersTypeOK'
      BY <1>6 DEF UnrefTimer, TimersTypeOK
    <2> QED
      BY <1>1, <1>6, <2>1, OneTimer
  <1> QED
    BY <1>2, <1>3, <1>4, <1>5, <1>6

\* What a change of a port's listeners makes of it.
LEMMA ActivateDoes ==
  ASSUME NEW s \in PortStates, NEW before, NEW after \in 0 .. MaxListeners
  PROVE  LET r == [Activate(s, before, after) EXCEPT !.listeners = after]
         IN  r \in PortStates /\ r.of = s.of /\ r.closed = s.closed
  BY DEF Activate, PortStates

\* Every operation on a port.
LEMMA PortStepKeeps ==
  ASSUME WorkInv, PortStep
  PROVE  WorkInv'
  <1>1. UNCHANGED <<handleVars, timerVars, endVars>>
    BY DEF PortStep
  <1>2. UNCHANGED <<count, ended, timer, held>>
    BY <1>1 DEF handleVars, endVars, timerVars
  <1>3. PICK p \in Ports :
          \/ \E t \in Currents \ {Null} : TrackPort(p, t) /\ Comes(p, t)
          \/ /\ AddListener(p) \/ RemoveListener(p) \/ RefPort(p) \/ UnrefPort(p) \/ ClosePort(p)
             /\ UNCHANGED late
    BY DEF PortStep
  <1>4. ASSUME NEW s \in PortStates, port' = [port EXCEPT ![p] = s],
               port[p].closed => s.closed,
               late \subseteq late', late' \subseteq late \cup {p},
               s.of = port[p].of \/ (s.of \in ended => p \in late')
        PROVE  WorkInv'
    <2>1. /\ PortsTypeOK' /\ port'[p] = s /\ \A q \in Ports \ {p} : port'[q] = port[q]
      BY <1>4 DEF WorkInv, TypeOK, PortsTypeOK
    <2>2. HandleInv' /\ FinallyEnds' /\ EndsAreAccounted' /\ TypeOK'
      BY <1>1, <1>2, <1>4, <2>1, WorkFrame DEF WorkInv, TypeOK, TimersTypeOK
    <2>3. AllIsLate'
      <3> SUFFICES ASSUME NEW t \in ended
                   PROVE  count.allOwned[t] \cup HeldBy(t) \cup OpenPorts(t)' \subseteq late'
        BY <1>2 DEF AllIsLate, HeldBy
      <3>1. count.allOwned[t] \cup HeldBy(t) \cup OpenPorts(t) \subseteq late
        BY DEF WorkInv, AllIsLate
      <3>2. OpenPorts(t)' \subseteq late'
        BY <1>4, <2>1, <3>1 DEF OpenPorts
      <3> QED
        BY <1>4, <3>1, <3>2
    <2> QED
      BY <2>2, <2>3 DEF WorkInv
  <1>5. port \in [Ports -> PortStates] /\ port[p] \in PortStates
    BY DEF WorkInv, TypeOK, PortsTypeOK
  <1>6. ASSUME NEW t \in Currents \ {Null}, TrackPort(p, t), Comes(p, t) PROVE WorkInv'
    <2> DEFINE s == [port[p] EXCEPT !.of = t]
    <2>1. /\ port' = [port EXCEPT ![p] = s] /\ s \in PortStates /\ s.of = t
          /\ s.closed = port[p].closed
      BY <1>5, <1>6 DEF TrackPort, PortStates, Currents
    <2>2. late \subseteq late' /\ late' \subseteq late \cup {p} /\ (t \in ended => p \in late')
      BY <1>6 DEF Comes
    <2> HIDE DEF s
    <2> QED
      BY <1>4, <1>5, <2>1, <2>2
  <1>7. CASE /\ AddListener(p) \/ RemoveListener(p) \/ RefPort(p) \/ UnrefPort(p) \/ ClosePort(p)
             /\ UNCHANGED late
    <2>1. ASSUME NEW after \in 0 .. MaxListeners, ChangeListeners(p, after) PROVE WorkInv'
      <3> DEFINE s == [Activate(port[p], port[p].listeners, after) EXCEPT !.listeners = after]
      <3>1. port' = [port EXCEPT ![p] = s]
        BY <2>1 DEF ChangeListeners
      <3>2. /\ s \in PortStates /\ s.of = port[p].of /\ s.closed = port[p].closed
        BY <1>5, ActivateDoes
      <3> HIDE DEF s
      <3> QED
        BY <1>4, <1>5, <1>7, <3>1, <3>2
    <2>2. CASE AddListener(p) \/ RemoveListener(p)
      <3>1. port[p].listeners \in 0 .. MaxListeners
        BY <1>5 DEF PortStates
      <3>2. PICK after \in 0 .. MaxListeners : ChangeListeners(p, after)
        BY <2>2, <3>1, MaxListenersAssumption DEF AddListener, RemoveListener
      <3> QED
        BY <2>1, <3>2
    <2>3. CASE RefPort(p) \/ UnrefPort(p) \/ ClosePort(p)
      <3>1. PICK s : /\ port' = [port EXCEPT ![p] = s]
                     /\ s \in {[port[p] EXCEPT !.referenced = TRUE],
                               [port[p] EXCEPT !.referenced = FALSE],
                               [port[p] EXCEPT !.closed = TRUE, !.referenced = FALSE]}
        BY <1>5, <2>3 DEF RefPort, UnrefPort, ClosePort, ReleasedPort
      <3>2. s \in PortStates /\ s.of = port[p].of /\ (port[p].closed => s.closed)
        BY <1>5, <3>1 DEF PortStates
      <3> QED
        BY <1>4, <1>7, <3>1, <3>2
    <2> QED
      BY <1>7, <2>2, <2>3
  <1> QED
    BY <1>3, <1>6, <1>7

-----------------------------------------------------------------------------
(* The ends of runs *)

\* What the sweep of one run leaves in the tables.
LEMMA SweepDoes ==
  ASSUME NEW c \in Counts, NEW t \in Tokens, NEW kept \in SUBSET c.allOwned[t]
  PROVE  LET d == ReleasedAtEnd(c, t, kept) IN
         /\ d \in Counts
         /\ d.allOwned[t] = {}
         /\ \A u \in Tokens : d.owners[u] \subseteq c.owners[u]
         /\ \A u \in Tokens \ {t} : d.owners[u] = c.owners[u] /\ d.allOwned[u] = c.allOwned[u]
         /\ \A h \in c.allOwned[t] : h \notin d.owners[t]
         /\ \A h \in c.allOwned[t] \ kept : d.heldBy[h] = Unset
         /\ \A h \in kept : d.heldBy[h] = c.heldBy[h]
         /\ \A h \in Handles \ c.allOwned[t] :
              /\ d.heldBy[h] = c.heldBy[h]
              /\ h \in d.refHeld <=> h \in c.refHeld
              /\ h \in d.active <=> h \in c.active
  BY DEF ReleasedAtEnd, Counts

\* Each handle after the sweep.
LEMMA SweepHandles ==
  ASSUME WorkInv, NEW t \in Tokens, NEW out \in Closes(t), EndOwnedProcess(t, out)
  PROVE  /\ HandleInv' /\ count' \in Counts /\ stage' \in [Handles -> Stages]
         /\ count'.allOwned[t] = {}
         /\ \A u \in Tokens \ {t} : count'.allOwned[u] = count.allOwned[u]
         /\ count.allOwned[t] \subseteq Handles
         /\ \A h \in count.allOwned[t] : stage[h] = "open"
         /\ \A h \in count.allOwned[t] \ out.slow : stage'[h] = "closed"
         /\ \A h \in out.slow : stage'[h] = "closing"
         /\ \A h \in Handles \ count.allOwned[t] : stage'[h] = stage[h]
  <1> DEFINE owned == count.allOwned[t]
             kept == out.slow \cup out.kept
  <1>1. /\ out.slow \subseteq owned \cap wraps /\ out.failures \subseteq owned \cap wraps
        /\ out.kept \subseteq out.failures /\ out.slow \cap out.failures = {}
    BY DEF Closes, Answerable
  <1>2. TypeOK /\ count \in Counts /\ HandleInv /\ owned \subseteq Handles
    BY DEF WorkInv, TypeOK, Counts
  <1>3. /\ count' = ReleasedAtEnd(count, t, kept)
        /\ stage' = [h \in Handles |-> CASE h \in out.slow -> "closing"
                                         [] h \in owned \ out.slow -> "closed"
                                         [] OTHER -> stage[h]]
        /\ threw' = threw \cup out.failures /\ UNCHANGED <<home, wraps, broken>>
    BY DEF EndOwnedProcess
  <1>4. /\ count' \in Counts /\ count'.allOwned[t] = {}
        /\ \A u \in Tokens : count'.owners[u] \subseteq count.owners[u]
        /\ \A u \in Tokens \ {t} : count'.owners[u] = count.owners[u]
                                   /\ count'.allOwned[u] = count.allOwned[u]
        /\ \A h \in owned : h \notin count'.owners[t]
        /\ \A h \in owned \ kept : count'.heldBy[h] = Unset
        /\ \A h \in kept : count'.heldBy[h] = count.heldBy[h]
        /\ \A h \in Handles \ owned : /\ count'.heldBy[h] = count.heldBy[h]
                                      /\ h \in count'.refHeld <=> h \in count.refHeld
                                      /\ h \in count'.active <=> h \in count.active
    <2>1. kept \in SUBSET count.allOwned[t]
      BY <1>1
    <2> HIDE DEF kept, owned
    <2> QED
      BY <1>2, <1>3, <2>1, SweepDoes DEF owned
  <1>5. /\ \A h \in owned \ out.slow : stage'[h] = "closed"
        /\ \A h \in out.slow : stage'[h] = "closing"
        /\ \A h \in Handles \ owned : stage'[h] = stage[h]
        /\ stage' \in [Handles -> Stages]
    BY <1>1, <1>2, <1>3 DEF TypeOK, Stages
  <1> HIDE DEF owned
  <1>6. \A h \in owned : stage[h] = "open" /\ count.heldBy[h] = t
    BY <1>2 DEF HandleInv, HandleOK, StageAgrees, HolderIsOwner, owned
  <1>7. ASSUME NEW h \in owned PROVE HandleOK(h)'
    <2>1. h \in Handles /\ HandleOK(h) /\ stage[h] = "open" /\ count.heldBy[h] = t
      BY <1>2, <1>6 DEF HandleInv
    <2>2. \A u \in Tokens : h \notin count'.owners[u] /\ h \notin count'.allOwned[u]
      <3>1. \A u \in Tokens \ {t} : h \notin count.owners[u] /\ h \notin count.allOwned[u]
        BY <2>1 DEF HandleOK, HolderIsOwner
      <3> QED
        BY <1>4, <3>1
    <2>3. stage'[h] = IF h \in out.slow THEN "closing" ELSE "closed"
      BY <1>5
    <2>4. stage'[h] = "closed" => count'.heldBy[h] = Unset \/ h \in threw'
      <3>1. threw' = threw \cup out.failures
        BY <1>3
      <3>2. CASE h \in out.slow
        BY <2>3, <3>2
      <3>3. CASE h \in out.kept
        BY <1>1, <3>1, <3>3
      <3>4. CASE h \in owned \ kept
        BY <1>4, <3>4
      <3> QED
        BY <3>2, <3>3, <3>4
    <2>5. h \in threw' \cup broken' => stage'[h] = "closed"
      BY <1>1, <1>3, <2>1, <2>3 DEF HandleOK, StageAgrees
    <2>6. StageAgrees(h)'
      BY <1>1, <1>3, <2>1, <2>2, <2>3, <2>4, <2>5 DEF StageAgrees, HandleOK
    <2>7. HolderIsOwner(count', h)
      BY <2>2 DEF HolderIsOwner
    <2> QED
      BY <2>3, <2>6, <2>7 DEF HandleOK
  <1>8. ASSUME NEW h \in Handles \ owned PROVE HandleOK(h)'
    <2>1. HandleOK(h) /\ h \notin count.allOwned[t]
      BY <1>2 DEF HandleInv, owned
    <2>2. /\ count'.heldBy[h] = count.heldBy[h] /\ stage'[h] = stage[h]
          /\ h \in count'.refHeld <=> h \in count.refHeld
          /\ h \in count'.active <=> h \in count.active
          /\ \A u \in Tokens : h \in count'.allOwned[u] <=> h \in count.allOwned[u]
          /\ h \in threw' <=> h \in threw
      <3>1. /\ count'.heldBy[h] = count.heldBy[h] /\ stage'[h] = stage[h]
            /\ h \in count'.refHeld <=> h \in count.refHeld
            /\ h \in count'.active <=> h \in count.active
        BY <1>4, <1>5
      <3>2. \A u \in Tokens : h \in count'.allOwned[u] <=> h \in count.allOwned[u]
        BY <1>4, <2>1
      <3>3. h \notin out.failures
        BY <1>1
      <3> QED
        BY <1>3, <3>1, <3>2, <3>3
    <2>3. HolderIsOwner(count', h)
      BY <1>4, <2>1, <2>2 DEF HandleOK, HolderIsOwner
    <2>4. StageAgrees(h)'
      BY <1>3, <2>1, <2>2 DEF HandleOK, StageAgrees
    <2>5. ASSUME stage'[h] \in {"open", "fired"}, NEW u \in Tokens
          PROVE  /\ h \in count'.owners[u] <=>
                      count'.heldBy[h] = u /\ h \in count'.refHeld \cap count'.active
                 /\ h \in count'.allOwned[u] <=> count'.heldBy[h] = u
      <3>1. /\ h \in count.owners[u] <=> count.heldBy[h] = u /\ h \in count.refHeld \cap count.active
            /\ h \in count.allOwned[u] <=> count.heldBy[h] = u
        BY <2>1, <2>2, <2>5 DEF HandleOK, Counted
      <3>2. h \in count'.owners[u] <=> h \in count.owners[u]
        BY <1>4, <2>1, <3>1
      <3> QED
        BY <2>2, <3>1, <3>2
    <2> QED
      BY <2>3, <2>4, <2>5 DEF HandleOK, Counted
  <1>9. HandleInv'
    BY <1>7, <1>8 DEF HandleInv
  <1> QED
    BY <1>2, <1>4, <1>5, <1>6, <1>9 DEF owned

\* Timers, ports and what came late, after the sweep.
LEMMA SweepWork ==
  ASSUME WorkInv, NEW t \in Tokens, phase[t] # "none", NEW out \in Closes(t),
         EndOwnedProcess(t, out)
  PROVE  /\ TimersTypeOK' /\ PortsTypeOK' /\ late' \subseteq late /\ AllIsLate'
  <1>1. TypeOK /\ TimersTypeOK /\ PortsTypeOK
    BY DEF WorkInv, TypeOK
  <1>2. StopWork(t) /\ ended' = ended \cup {t}
    BY DEF EndOwnedProcess
  <1>3. /\ count'.allOwned[t] = {} /\ count.allOwned[t] \subseteq Handles
        /\ \A u \in Tokens \ {t} : count'.allOwned[u] = count.allOwned[u]
    BY SweepHandles
  <1>4. \A u \in Tokens \ {t} : count.allOwned[u] \cap count.allOwned[t] = {}
    BY <1>3 DEF WorkInv, HandleInv, HandleOK, HolderIsOwner
  <1>5. HeldBy(t) \subseteq Timers /\ OpenPorts(t) \subseteq Ports
    BY <1>1 DEF TimersTypeOK, HeldBy, OpenPorts
  <1>6. CASE Recorded(t)
    <2>1. /\ timer' = StoppedTimers(t) /\ held' = held \ HeldBy(t) /\ port' = StoppedPorts(t)
          /\ late' = late \ (count.allOwned[t] \cup HeldBy(t) \cup OpenPorts(t))
      BY <1>2, <1>6 DEF StopWork
    <2>2. /\ TimersTypeOK'
          /\ \A x \in Timers : timer'[x].of = timer[x].of
      BY <1>1, <2>1 DEF TimersTypeOK, StoppedTimers
    <2>3. /\ PortsTypeOK'
          /\ \A p \in Ports : /\ port'[p].of = port[p].of
                              /\ port'[p].closed = (port[p].closed \/ p \in OpenPorts(t))
      BY <1>1, <2>1 DEF PortsTypeOK, PortStates, StoppedPorts, ReleasedPort
    <2>4. AllIsLate'
      <3> SUFFICES ASSUME NEW u \in ended'
                   PROVE  count'.allOwned[u] \cup HeldBy(u)' \cup OpenPorts(u)' \subseteq late'
        BY DEF AllIsLate
      <3>1. /\ HeldBy(u)' \subseteq HeldBy(u) \ HeldBy(t) /\ OpenPorts(u)' \subseteq OpenPorts(u) \ OpenPorts(t)
            /\ HeldBy(u) \subseteq Timers /\ OpenPorts(u) \subseteq Ports
        BY <1>1, <2>1, <2>2, <2>3 DEF HeldBy, OpenPorts, TimersTypeOK
      <3>2. CASE u = t
        BY <1>3, <3>1, <3>2
      <3>3. CASE u # t
        <4>1. u \in Tokens \ {t} /\ count.allOwned[u] \cup HeldBy(u) \cup OpenPorts(u) \subseteq late
          BY <1>1, <1>2, <3>3 DEF WorkInv, AllIsLate, TypeOK
        <4>2. count'.allOwned[u] = count.allOwned[u] /\ count.allOwned[u] \subseteq Handles
          BY <1>1, <1>3, <4>1 DEF TypeOK, Counts
        <4>3. count.allOwned[u] \subseteq late'
          BY <1>4, <1>5, <2>1, <4>1, <4>2, KindsAssumption
        <4>4. HeldBy(u) \ HeldBy(t) \subseteq late'
          BY <1>3, <1>5, <2>1, <3>1, <4>1, KindsAssumption
        <4>5. OpenPorts(u) \ OpenPorts(t) \subseteq late'
          BY <1>3, <1>5, <2>1, <3>1, <4>1, KindsAssumption
        <4> QED
          BY <3>1, <4>2, <4>3, <4>4, <4>5
      <3> QED
        BY <3>2, <3>3
    <2> QED
      BY <2>1, <2>2, <2>3, <2>4
  <1>7. CASE ~Recorded(t)
    <2>1. UNCHANGED <<timer, held, port>> /\ late' = late \ count.allOwned[t]
      BY <1>2, <1>7 DEF StopWork
    <2>2. t \in ended
      BY <1>1, <1>7 DEF Recorded, TypeOK, WorkInv, FinallyEnds
    <2>3. TimersTypeOK' /\ PortsTypeOK'
      BY <1>1, <1>2, <2>1 DEF TimersTypeOK, PortsTypeOK
    <2>4. AllIsLate'
      <3> SUFFICES ASSUME NEW u \in ended
                   PROVE  count'.allOwned[u] \cup HeldBy(u) \cup OpenPorts(u) \subseteq late'
        BY <1>2, <2>1, <2>2 DEF AllIsLate, HeldBy, OpenPorts
      <3>1. u \in Tokens /\ count.allOwned[u] \cup HeldBy(u) \cup OpenPorts(u) \subseteq late
        BY <1>1 DEF WorkInv, AllIsLate, TypeOK
      <3>2. HeldBy(u) \subseteq Timers /\ OpenPorts(u) \subseteq Ports
        BY <1>1 DEF TimersTypeOK, HeldBy, OpenPorts
      <3>3. count'.allOwned[u] \subseteq late'
        BY <1>3, <1>4, <2>1, <3>1
      <3> QED
        BY <1>3, <2>1, <3>1, <3>2, <3>3, KindsAssumption
    <2> QED
      BY <2>1, <2>3, <2>4
  <1> QED
    BY <1>6, <1>7

\* What a completion answered for, it answers for after a step that reopens none of
\* the handles closed before and blames none of them anew.
LEMMA AccountsFrame ==
  ASSUME WorkInv, NEW t \in Tokens, NEW promise, Accounts(promise, t), owed'[t] = owed[t], wraps' = wraps,
         \A h \in Handles : stage[h] \in {"closing", "closed"} =>
            /\ stage'[h] = stage[h]
            /\ h \in threw' <=> h \in threw
            /\ h \in broken' <=> h \in broken
  PROVE  /\ Accounts(promise, t)'
         /\ \A h \in owed[t] : /\ stage'[h] = stage[h]
                               /\ h \in threw' <=> h \in threw
                               /\ h \in broken' <=> h \in broken
  BY DEF WorkInv, TypeOK, Accounts

\* A run's end, asked for by the guest, by a kill or by the run's `finally`.
LEMMA SweepKeeps ==
  ASSUME WorkInv, NEW t \in Tokens, NEW out \in Closes(t),
         End(t, out) \/ BeginFinally(t, out)
  PROVE  WorkInv'
  <1> DEFINE owned == count.allOwned[t]
  <1>0. PICK joined : joined = EndingWith(t, out.failures, out.slow)
    OBVIOUS
  <1>1. /\ EndOwnedProcess(t, out) /\ phase[t] # "none"
        /\ phase[t] = "running" => owed' = [owed EXCEPT ![t] = @ \cup (owned \cap wraps)]
        /\ phase[t] # "running" => UNCHANGED owed /\ End(t, out)
        /\ \/ UNCHANGED <<phase, awaited>>
           \/ /\ phase[t] = "running" /\ phase' = [phase EXCEPT ![t] = "finally"]
              /\ awaited' = [awaited EXCEPT ![t] = joined]
    BY <1>0 DEF End, BeginFinally, Answerable
  <1>2. /\ ending' = [ending EXCEPT ![t] = joined] /\ threw' = threw \cup out.failures
        /\ ended' = ended \cup {t} /\ listening' = listening \ owned
        /\ UNCHANGED <<home, wanted, wraps, broken, outcome>>
    BY <1>0, <1>1 DEF EndOwnedProcess
  <1>3. /\ out.slow \subseteq owned \cap wraps /\ out.failures \subseteq owned \cap wraps
        /\ out.slow \cap out.failures = {}
    BY DEF Closes, Answerable
  <1>4. /\ HandleInv' /\ count' \in Counts /\ stage' \in [Handles -> Stages]
        /\ owned \subseteq Handles
        /\ \A h \in owned : stage[h] = "open"
        /\ \A h \in owned \ out.slow : stage'[h] = "closed"
        /\ \A h \in out.slow : stage'[h] = "closing"
        /\ \A h \in Handles \ owned : stage'[h] = stage[h]
    BY <1>1, SweepHandles
  <1>5. /\ TimersTypeOK' /\ PortsTypeOK' /\ late' \subseteq late /\ AllIsLate'
    BY <1>1, SweepWork
  <1> HIDE DEF owned
  <1>6. /\ joined \in Completions
        /\ joined.failed = (ending[t].failed \/ out.failures # {})
        /\ joined.awaits = ending[t].awaits \cup out.slow
    <2>1. ending[t] \in Completions /\ out.slow \subseteq Handles
      BY <1>3, <1>4 DEF WorkInv, TypeOK
    <2> QED
      BY <1>0, <2>1 DEF EndingWith, Completions
  <1>7. /\ phase' \in [Tokens -> {"none", "running", "finally", "finished"}]
        /\ ending' \in [Tokens -> Completions] /\ awaited' \in [Tokens -> Completions]
        /\ owed' \in [Tokens -> SUBSET Handles]
        /\ \A u \in Tokens \ {t} : /\ phase'[u] = phase[u] /\ ending'[u] = ending[u]
                                   /\ awaited'[u] = awaited[u] /\ owed'[u] = owed[u]
        /\ ending'[t] = joined
        /\ phase[t] = "running" => owed'[t] = owed[t] \cup (owned \cap wraps)
        /\ phase[t] # "running" => UNCHANGED <<owed, phase, awaited>>
        /\ phase[t] = "running" => \/ phase'[t] = "running"
                                   \/ phase'[t] = "finally" /\ awaited'[t] = joined
    BY <1>1, <1>2, <1>4, <1>6 DEF WorkInv, TypeOK
  <1>8. TypeOK'
    BY <1>2, <1>3, <1>4, <1>5, <1>7 DEF WorkInv, TypeOK
  <1>9. FinallyEnds'
    BY <1>2, <1>7 DEF WorkInv, FinallyEnds
  <1>10. \A h \in Handles : stage[h] \in {"closing", "closed"} =>
            /\ stage'[h] = stage[h]
            /\ h \in threw' <=> h \in threw
            /\ h \in broken' <=> h \in broken
    BY <1>2, <1>3, <1>4
  <1>11. EndsAreAccounted'
    <2> SUFFICES ASSUME NEW u \in Tokens
                 PROVE  /\ phase'[u] \in {"none", "running"} => Accounts(ending[u], u)'
                        /\ phase'[u] = "finally" => Accounts(awaited[u], u)'
                        /\ phase'[u] = "finished" => \A h \in owed'[u] :
                             /\ h \in wraps' /\ stage'[h] = "closed"
                             /\ h \in threw' \cup broken' => outcome'[u] = "failed"
      BY DEF EndsAreAccounted
    <2>1. /\ phase[u] \in {"none", "running"} => Accounts(ending[u], u)
          /\ phase[u] = "finally" => Accounts(awaited[u], u)
          /\ phase[u] = "finished" => \A h \in owed[u] :
               /\ h \in wraps /\ stage[h] = "closed"
               /\ h \in threw \cup broken => outcome[u] = "failed"
          /\ owed[u] \subseteq Handles /\ phase[u] \in {"none", "running", "finally", "finished"}
      BY DEF WorkInv, TypeOK, EndsAreAccounted
    <2>2. CASE u = t /\ phase[t] = "running"
      <3>1. Accounts(joined, t)'
        <4> SUFFICES ASSUME NEW h \in owed'[t]
                     PROVE  /\ h \in wraps' /\ stage'[h] \in {"closing", "closed"}
                            /\ h \in joined.awaits \/ (stage'[h] = "closed" /\ h \notin broken')
                            /\ h \in threw' => joined.failed
          BY DEF Accounts
        <4>1. CASE h \in owed[t]
          BY <1>2, <1>6, <1>10, <2>1, <2>2, <4>1 DEF Accounts
        <4>2. CASE h \in owned \cap wraps
          <5>1. h \notin threw \cup broken
            BY <1>4, <4>2 DEF WorkInv, HandleInv, HandleOK, StageAgrees
          <5> QED
            BY <1>2, <1>4, <1>6, <4>2, <5>1
        <4> QED
          BY <1>7, <2>2, <4>1, <4>2
      <3>2. phase'[t] # "none" /\ phase'[t] # "finished"
        BY <1>7, <2>2
      <3>3. Accounts(ending[t], t)' /\ (phase'[t] = "finally" => Accounts(awaited[t], t)')
        BY <1>7, <2>2, <3>1 DEF Accounts
      <3> QED
        BY <2>2, <3>2, <3>3
    <2>3. CASE u # t \/ phase[t] # "running"
      <3>1. /\ owed'[u] = owed[u] /\ phase'[u] = phase[u] /\ awaited'[u] = awaited[u]
            /\ phase[u] \in {"none", "running"} => ending'[u] = ending[u]
        BY <1>1, <1>7, <2>1, <2>3
      <3>2. \A h \in owed[u] : stage[h] = "closed" => stage'[h] = "closed"
                                 /\ (h \in threw' \cup broken' => h \in threw \cup broken)
        BY <1>10, <2>1
      <3>3. CASE phase[u] \in {"none", "running"}
        BY <1>2, <1>10, <2>1, <3>1, <3>3, AccountsFrame
      <3>4. CASE phase[u] = "finally"
        BY <1>2, <1>10, <2>1, <3>1, <3>4, AccountsFrame
      <3>5. CASE phase[u] = "finished"
        BY <1>2, <2>1, <3>1, <3>2, <3>5
      <3> QED
        BY <2>1, <3>3, <3>4, <3>5
    <2> QED
      BY <2>2, <2>3
  <1> QED
    BY <1>4, <1>5, <1>8, <1>9, <1>11 DEF WorkInv

\* A run is launched, or its `finally` learns how its end came out.
LEMMA RunStepKeeps ==
  ASSUME WorkInv, NEW t \in Tokens, Launch(t) \/ Finish(t)
  PROVE  WorkInv'
  <1>1. /\ UNCHANGED <<count, stage, listening, home, wanted, wraps, timer, held, port, late,
                       awaited, broken, threw, ended, owed>>
        /\ phase[t] \in {"none", "finally"}
        /\ \/ phase[t] = "none" /\ phase' = [phase EXCEPT ![t] = "running"]
              /\ UNCHANGED <<ending, outcome>>
           \/ phase[t] = "finally" /\ phase' = [phase EXCEPT ![t] = "finished"] /\ Settled(awaited[t])
              /\ ending' = [ending EXCEPT ![t] = Resolved]
              /\ outcome' = [outcome EXCEPT ![t] =
                   IF awaited[t].failed \/ awaited[t].awaits \cap broken # {}
                   THEN "failed" ELSE "clean"]
    BY DEF Launch, Finish, handleVars, timerVars
  <1>2. TypeOK'
    <2>1. Resolved \in Completions
      BY DEF Resolved, Completions
    <2> QED
      BY <1>1, <2>1 DEF WorkInv, TypeOK, TimersTypeOK, PortsTypeOK
  <1>3. HandleInv'
    BY <1>1 DEF WorkInv, HandleInv, HandleOK, HolderIsOwner, StageAgrees, Counted
  <1>4. AllIsLate'
    BY <1>1 DEF WorkInv, AllIsLate, HeldBy, OpenPorts
  <1>5. FinallyEnds'
    BY <1>1 DEF WorkInv, FinallyEnds, TypeOK
  <1>6. EndsAreAccounted'
    <2> SUFFICES ASSUME NEW u \in Tokens
                 PROVE  /\ phase'[u] \in {"none", "running"} => Accounts(ending[u], u)'
                        /\ phase'[u] = "finally" => Accounts(awaited[u], u)'
                        /\ phase'[u] = "finished" => \A h \in owed'[u] :
                             /\ h \in wraps' /\ stage'[h] = "closed"
                             /\ h \in threw' \cup broken' => outcome'[u] = "failed"
      BY DEF EndsAreAccounted
    <2>1. /\ phase[u] \in {"none", "running"} => Accounts(ending[u], u)
          /\ phase[u] = "finally" => Accounts(awaited[u], u)
          /\ phase[u] = "finished" => \A h \in owed[u] :
               /\ h \in wraps /\ stage[h] = "closed"
               /\ h \in threw \cup broken => outcome[u] = "failed"
      BY DEF WorkInv, EndsAreAccounted
    <2>2. \A v \in Tokens \ {t} : phase'[v] = phase[v] /\ ending'[v] = ending[v]
                                    /\ outcome'[v] = outcome[v]
      BY <1>1 DEF WorkInv, TypeOK
    <2>3. CASE u # t
      BY <1>1, <2>1, <2>2, <2>3 DEF Accounts
    <2>4. CASE u = t /\ phase[t] = "none"
      BY <1>1, <2>1, <2>4 DEF Accounts, WorkInv, TypeOK
    <2>5. CASE u = t /\ phase[t] = "finally"
      <3>1. Accounts(awaited[t], t) /\ Settled(awaited[t]) /\ phase'[t] = "finished"
        BY <1>1, <2>1, <2>5 DEF WorkInv, TypeOK
      <3>2. \A h \in owed[t] : h \in wraps /\ stage[h] = "closed"
        BY <3>1 DEF Accounts, Settled
      <3>3. ASSUME NEW h \in owed[t], h \in threw \cup broken PROVE outcome'[t] = "failed"
        <4>1. awaited[t].failed \/ awaited[t].awaits \cap broken # {}
          BY <3>1, <3>3 DEF Accounts
        <4> QED
          BY <1>1, <2>5, <4>1 DEF WorkInv, TypeOK
      <3> QED
        BY <1>1, <2>5, <3>1, <3>2, <3>3
    <2> QED
      BY <1>1, <2>3, <2>4, <2>5
  <1> QED
    BY <1>2, <1>3, <1>4, <1>5, <1>6 DEF WorkInv

\* A release that outlived its close settles.
LEMMA TeardownKeeps ==
  ASSUME WorkInv, NEW h \in Handles, NEW fails \in BOOLEAN, TeardownDone(h, fails)
  PROVE  WorkInv'
  <1>1. /\ stage[h] = "closing" /\ count' = Released(count, h)
        /\ stage' = [stage EXCEPT ![h] = "closed"] /\ broken' \subseteq broken \cup {h}
        /\ broken \subseteq broken'
        /\ UNCHANGED <<listening, home, wanted, wraps, timer, held, port, late,
                       phase, ending, awaited, outcome, threw, ended, owed>>
    BY DEF TeardownDone, timerVars
  <1>2. TypeOK /\ count \in Counts /\ HandleOK(h) /\ HolderIsOwner(count, h) /\ h \in wraps
    BY <1>1 DEF WorkInv, TypeOK, HandleInv, HandleOK, StageAgrees
  <1>3. /\ Touches(count, count', h) /\ count'.heldBy[h] = Unset
        /\ \A u \in Tokens : h \notin count'.owners[u] /\ h \notin count'.allOwned[u]
    BY <1>1, <1>2, ReleasedDoes
  <1>4. /\ stage'[h] = "closed" /\ \A g \in Handles \ {h} : stage'[g] = stage[g]
        /\ stage' \in [Handles -> Stages]
    BY <1>1, <1>2 DEF TypeOK, Stages
  <1>5. TypeOK'
    BY <1>1, <1>2, <1>3, <1>4 DEF TypeOK, TimersTypeOK, PortsTypeOK, Touches
  <1>6. HandleInv'
    <2>1. HandleOK(h)'
      BY <1>1, <1>2, <1>3, <1>4 DEF HandleOK, HolderIsOwner, StageAgrees
    <2>2. ASSUME NEW g \in Handles \ {h} PROVE HandleOK(g)'
      <3>1. HandleOK(g)
        BY DEF WorkInv, HandleInv
      <3>2. /\ count'.heldBy[g] = count.heldBy[g]
            /\ g \in count'.refHeld <=> g \in count.refHeld
            /\ g \in count'.active <=> g \in count.active
            /\ \A t \in Tokens : /\ g \in count'.owners[t] <=> g \in count.owners[t]
                                 /\ g \in count'.allOwned[t] <=> g \in count.allOwned[t]
            /\ stage'[g] = stage[g] /\ home'[g] = home[g] /\ (g \in broken' <=> g \in broken)
        BY <1>1, <1>3, <1>4 DEF Touches
      <3>3. HolderIsOwner(count', g)
        BY <3>1, <3>2 DEF HandleOK, HolderIsOwner
      <3>4. StageAgrees(g)'
        BY <1>1, <3>1, <3>2 DEF HandleOK, StageAgrees
      <3>5. ASSUME stage'[g] \in {"open", "fired"} PROVE Counted(count', g)
        BY <3>1, <3>2, <3>5 DEF HandleOK, Counted
      <3> QED
        BY <3>3, <3>4, <3>5 DEF HandleOK
    <2> QED
      BY <2>1, <2>2 DEF HandleInv
  <1>7. FinallyEnds'
    BY <1>1 DEF WorkInv, FinallyEnds
  <1>8. AllIsLate'
    <2>1. \A t \in ended : count'.allOwned[t] \subseteq count.allOwned[t]
      BY <1>2, <1>3 DEF Touches, Counts, TypeOK
    <2> QED
      BY <1>1, <2>1 DEF WorkInv, AllIsLate, HeldBy, OpenPorts
  <1>9. EndsAreAccounted'
    <2>1. ASSUME NEW t \in Tokens, NEW promise, Accounts(promise, t) PROVE Accounts(promise, t)'
      <3> SUFFICES ASSUME NEW g \in owed[t]
                   PROVE  /\ g \in wraps' /\ stage'[g] \in {"closing", "closed"}
                          /\ g \in promise.awaits \/ (stage'[g] = "closed" /\ g \notin broken')
                          /\ g \in threw' => promise.failed
        BY <1>1 DEF Accounts
      <3>1. g \in Handles
        BY <1>2 DEF TypeOK
      <3>2. CASE g = h
        BY <1>1, <1>4, <2>1, <3>2 DEF Accounts
      <3>3. CASE g # h
        BY <1>1, <1>4, <2>1, <3>1, <3>3 DEF Accounts
      <3> QED
        BY <3>2, <3>3
    <2>2. ASSUME NEW t \in Tokens, phase[t] = "finished", NEW g \in owed[t]
          PROVE  g \in wraps' /\ stage'[g] = "closed" /\ (g \in threw' \cup broken' => outcome'[t] = "failed")
      <3>1. g \in Handles /\ g \in wraps /\ stage[g] = "closed" /\ (g \in threw \cup broken => outcome[t] = "failed")
        BY <1>2, <2>2 DEF TypeOK, WorkInv, EndsAreAccounted
      <3> QED
        BY <1>1, <1>4, <3>1
    <2>3. ASSUME NEW t \in Tokens
          PROVE  /\ Accounts(ending[t], t) => Accounts(ending[t], t)'
                 /\ Accounts(awaited[t], t) => Accounts(awaited[t], t)'
      BY <1>1, <2>1
    <2> QED
      BY <1>1, <2>2, <2>3 DEF WorkInv, EndsAreAccounted
  <1> QED
    BY <1>5, <1>6, <1>7, <1>8, <1>9 DEF WorkInv

\* Before anything runs.
LEMMA InitWork == Init => WorkInv
  <1> SUFFICES ASSUME Init PROVE WorkInv
    OBVIOUS
  <1> USE DEF Init, HandlesInit, TimersInit, PortsInit
  <1>1. TypeOK
    <2>1. count \in Counts
      BY DEF Counts, NoCounts
    <2>2. TimersTypeOK /\ PortsTypeOK
      BY MaxListenersAssumption DEF TimersTypeOK, PortsTypeOK, PortStates
    <2>3. Resolved \in Completions
      BY DEF Resolved, Completions
    <2> QED
      BY <2>1, <2>2, <2>3 DEF TypeOK, Stages
  <1>2. HandleInv
    BY DEF HandleInv, HandleOK, HolderIsOwner, StageAgrees, NoCounts
  <1>3. FinallyEnds /\ AllIsLate
    BY DEF FinallyEnds, AllIsLate
  <1>4. EndsAreAccounted
    BY DEF EndsAreAccounted, Accounts
  <1> QED
    BY <1>1, <1>2, <1>3, <1>4 DEF WorkInv

\* Every step of every run.
LEMMA WorkStep ==
  ASSUME WorkInv, [Next]_vars
  PROVE  WorkInv'
  <1>1. CASE UNCHANGED vars
    <2>1. UNCHANGED <<handleVars, endVars, timer, held, port, late, count, ended>>
      BY <1>1 DEF vars, handleVars, timerVars, endVars
    <2>2. HandleInv' /\ FinallyEnds' /\ EndsAreAccounted' /\ TypeOK'
      BY <2>1, WorkFrame DEF WorkInv, TypeOK, TimersTypeOK, PortsTypeOK
    <2>3. AllIsLate'
      BY <2>1 DEF WorkInv, AllIsLate, HeldBy, OpenPorts
    <2> QED
      BY <2>2, <2>3 DEF WorkInv
  <1>2. CASE EndStep
    BY <1>2, SweepKeeps, RunStepKeeps DEF EndStep
  <1>3. CASE TeardownStep
    BY <1>3, TeardownKeeps DEF TeardownStep
  <1> QED
    BY <1>1, <1>2, <1>3, HandleStepKeeps, TimerStepKeeps, PortStepKeeps DEF Next

\* Whatever is called in whatever order, the invariant holds.
LEMMA WorkAlways == Spec => []WorkInv
  BY InitWork, WorkStep, PTL DEF Spec

-----------------------------------------------------------------------------

\* The tables keep their types.
THEOREM WorkTyped == Spec => []TypeOK
  <1>1. WorkInv => TypeOK
    BY DEF WorkInv
  <1> QED
    BY <1>1, WorkAlways, PTL

\* A run is counted as held by precisely the open handles that are its own,
\* referenced and active, and closes at its end precisely what is its own.
THEOREM HeldByItsOwn == Spec => []LoopIsHeldByItsOwn
  <1>1. WorkInv => LoopIsHeldByItsOwn
    BY DEF WorkInv, HandleInv, HandleOK, Counted, LoopIsHeldByItsOwn
  <1> QED
    BY <1>1, WorkAlways, PTL

\* What an ended run still has came to it after its last end, and what still holds
\* it did too, or its close threw, or its release goes on.
THEOREM EndTakesAll == Spec => []EndLeavesNothing
  <1>1. WorkInv => EndLeavesNothing
    <2> SUFFICES ASSUME WorkInv, NEW t \in ended, NEW h \in count.owners[t]
                 PROVE  h \in late \cup threw \cup {g \in Handles : stage[g] = "closing"}
      BY DEF WorkInv, AllIsLate, EndLeavesNothing
    <2>1. t \in Tokens /\ h \in Handles /\ stage[h] \in Stages
      BY DEF WorkInv, TypeOK, Counts
    <2>2. HandleOK(h) /\ count.heldBy[h] = t /\ t # Unset
      BY <2>1, OwnerAssumption DEF WorkInv, HandleInv, HandleOK, HolderIsOwner
    <2>3. CASE stage[h] = "open"
      BY <2>1, <2>2, <2>3 DEF HandleOK, Counted, WorkInv, AllIsLate
    <2>4. CASE stage[h] # "open"
      BY <2>1, <2>2, <2>4 DEF HandleOK, StageAgrees, Stages
    <2> QED
      BY <2>3, <2>4
  <1> QED
    BY <1>1, WorkAlways, PTL

\* A run is not reported finished while a release its end began goes on, and a
\* failure of any of its ends fails it.
THEOREM EndsReported == Spec => []EndIsReported
  <1>1. WorkInv => EndIsReported
    BY DEF WorkInv, EndsAreAccounted, EndIsReported
  <1> QED
    BY <1>1, WorkAlways, PTL

=============================================================================
