---------------------------- MODULE OwnedHandles ----------------------------
(***************************************************************************)
(* What holds a run's loop open: src/node-lib/binding/handles.ts.  A run   *)
(* is held by the handles that are its own, referenced and active; every   *)
(* handle it owns, referenced or not, is closed when it ends.              *)
(*                                                                         *)
(* The module's five tables are one record, `count`, and the exported      *)
(* functions are operators from one such record to the next, because the   *)
(* bindings call several of them in one step: a request's hold is a        *)
(* registration and an adoption, and an internal timer that is armed       *)
(* again registers a handle that may be registered already.                *)
(***************************************************************************)
EXTENDS RunNames

CONSTANT Handles       \* the handles, requests and internal timers ever made

VARIABLES count,       \* the tables of handles.ts
          stage,       \* where each handle is between its making and its close
          listening,   \* the handles that are listening servers
          home,        \* an internal timer's own run; Unset for any other handle
          wanted,      \* the internal timers whose `referenced` is true
          wraps        \* the bindings' own handles: not requests, not timers

handleVars == <<count, stage, listening, home, wanted, wraps>>

Stages == {"new", "open", "fired", "closing", "closed"}

(***************************************************************************)
(* heldBy, refHeld, activeHandles, owners and allOwned.  An absent entry   *)
(* of the last two is the empty set.                                       *)
(***************************************************************************)
Counts == [heldBy : [Handles -> Tokens \cup {Null, Unset}],
           refHeld : SUBSET Handles,
           active : SUBSET Handles,
           owners : [Tokens -> SUBSET Handles],
           allOwned : [Tokens -> SUBSET Handles]]

NoCounts == [heldBy |-> [h \in Handles |-> Unset], refHeld |-> {}, active |-> {},
             owners |-> [t \in Tokens |-> {}], allOwned |-> [t \in Tokens |-> {}]]

HandlesInit == /\ count = NoCounts
               /\ stage = [h \in Handles |-> "new"]
               /\ listening = {}
               /\ home = [h \in Handles |-> Unset]
               /\ wanted = {} /\ wraps = {}

-----------------------------------------------------------------------------
(* handles.ts's own two helpers *)

Hold(c, h) == [c EXCEPT !.owners = [t \in Tokens |->
                 IF c.heldBy[h] = t /\ h \in c.refHeld \cap c.active
                 THEN c.owners[t] \cup {h} ELSE c.owners[t]]]

Drop(c, h) == [c EXCEPT !.owners = [t \in Tokens |->
                 IF c.heldBy[h] = t THEN c.owners[t] \ {h} ELSE c.owners[t]]]

(* The handle's entry among everything its holder owns, taken out. *)
Disown(c, h) == [c EXCEPT !.allOwned = [t \in Tokens |->
                   IF c.heldBy[h] = t THEN c.allOwned[t] \ {h} ELSE c.allOwned[t]]]

(* The handle becomes t's, whoever's it was. *)
Give(c, h, t) == [c EXCEPT !.heldBy[h] = t,
                           !.allOwned = [u \in Tokens |->
                              IF u = t THEN c.allOwned[u] \cup {h} ELSE c.allOwned[u]]]

-----------------------------------------------------------------------------
(* the exported functions *)

Registered(c, h, current, active) ==
  LET given == Give(c, h, current)
  IN  Hold([given EXCEPT !.refHeld = @ \cup {h},
                         !.active = IF active THEN @ \cup {h} ELSE @], h)

Started(c, h) == Hold([c EXCEPT !.active = @ \cup {h}], h)
Stopped(c, h) == Drop([c EXCEPT !.active = @ \ {h}], h)
Referenced(c, h) == Hold([c EXCEPT !.refHeld = @ \cup {h}], h)
Unreferenced(c, h) == Drop([c EXCEPT !.refHeld = @ \ {h}], h)

\* Mutant of Adopted: the hold of the run the handle leaves is not dropped.
AdoptedWithoutDrop(c, h, t) == Hold(Give(Disown(c, h), h, t), h)

Adopted(c, h, t) == Hold(Give(Disown(Drop(c, h), h), h, t), h)

Released(c, h) ==
  [Disown(Drop(c, h), h) EXCEPT !.heldBy[h] = Unset, !.refHeld = @ \ {h}, !.active = @ \ {h}]

(* A request holds its handle's run, whichever run asks. *)
OwnerOf(h) == IF count.heldBy[h] = Unset THEN Null ELSE count.heldBy[h]
RequestHeld(c, r, h, current) == Adopted(Registered(c, r, current, TRUE), r, OwnerOf(h))

(***************************************************************************)
(* An internal timer (node-lib/internals/runtime.ts) armed, or armed again *)
(* by `refresh` or `reuse`: its handle is registered in whichever run is   *)
(* current and then given to the timer's own.                              *)
(***************************************************************************)
Armed(c, h, current, owner, ref) ==
  LET adopted == Adopted(Registered(c, h, current, TRUE), h, owner)
  IN  IF ref THEN adopted ELSE Unreferenced(adopted, h)

-----------------------------------------------------------------------------
(* What the bindings do with them *)

RegisterHandle(h, current, active, server) ==
  /\ stage[h] = "new"
  /\ count' = Registered(count, h, current, active)
  /\ stage' = [stage EXCEPT ![h] = "open"]
  /\ listening' = IF server THEN listening \cup {h} ELSE listening
  /\ wraps' = wraps \cup {h}
  /\ UNCHANGED <<home, wanted>>

HoldRequest(r, h, current) ==
  /\ stage[r] = "new" /\ stage[h] = "open" /\ h \in wraps
  /\ count' = RequestHeld(count, r, h, current)
  /\ stage' = [stage EXCEPT ![r] = "open"]
  /\ UNCHANGED <<listening, home, wanted, wraps>>

StartHandle(h) == /\ stage[h] = "open" /\ h \in wraps
                  /\ count' = Started(count, h)
                  /\ UNCHANGED <<stage, listening, home, wanted, wraps>>
StopHandle(h) == /\ stage[h] = "open" /\ h \in wraps
                 /\ count' = Stopped(count, h)
                 /\ UNCHANGED <<stage, listening, home, wanted, wraps>>

(* ref() and unref() do not look at whether the handle is closed. *)
RefHandle(h) == /\ stage[h] # "new" /\ (h \in wraps \/ home[h] # Unset)
                /\ count' = Referenced(count, h)
                /\ wanted' = IF home[h] = Unset THEN wanted ELSE wanted \cup {h}
                /\ UNCHANGED <<stage, listening, home, wraps>>
UnrefHandle(h) == /\ stage[h] # "new" /\ (h \in wraps \/ home[h] # Unset)
                  /\ count' = Unreferenced(count, h)
                  /\ wanted' = wanted \ {h}
                  /\ UNCHANGED <<stage, listening, home, wraps>>

AdoptHandle(h, t) == /\ stage[h] = "open" /\ h \in wraps
                     /\ count' = Adopted(count, h, t)
                     /\ UNCHANGED <<stage, listening, home, wanted, wraps>>

(* The program's own close, a request's answer, an internal timer's clear. *)
CloseHandle(h) == /\ stage[h] \in {"open", "fired"}
                  /\ count' = Released(count, h)
                  /\ stage' = [stage EXCEPT ![h] = "closed"]
                  /\ listening' = listening \ {h}
                  /\ UNCHANGED <<home, wanted, wraps>>

NewTimer(h, current) ==
  /\ stage[h] = "new"
  /\ home' = [home EXCEPT ![h] = current]
  /\ count' = Armed(count, h, current, current, FALSE)
  /\ stage' = [stage EXCEPT ![h] = "open"]
  /\ UNCHANGED <<listening, wanted, wraps>>

(* refresh(): a pending timer and a fired one start again; a cleared one does not. *)
RefreshTimer(h, current) ==
  /\ home[h] # Unset /\ stage[h] \in {"open", "fired"}
  /\ count' = Armed(count, h, current, home[h], h \in wanted)
  /\ stage' = [stage EXCEPT ![h] = "open"]
  /\ UNCHANGED <<listening, home, wanted, wraps>>

(***************************************************************************)
(* reuse(), which reuseOrCreateUnrefTimeout asks of a destroyed timer: one *)
(* that fired and one that was cleared both start again, unreferenced.     *)
(***************************************************************************)
ReuseTimer(h, current) ==
  /\ home[h] # Unset /\ stage[h] \in {"fired", "closed"}
  /\ count' = Armed(count, h, current, home[h], FALSE)
  /\ stage' = [stage EXCEPT ![h] = "open"]
  /\ wanted' = wanted \ {h}
  /\ UNCHANGED <<listening, home, wraps>>

FireTimer(h) == /\ home[h] # Unset /\ stage[h] = "open"
                /\ count' = Released(count, h)
                /\ stage' = [stage EXCEPT ![h] = "fired"]
                /\ UNCHANGED <<listening, home, wanted, wraps>>
=============================================================================
