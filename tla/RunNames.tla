------------------------------ MODULE RunNames ------------------------------
(***************************************************************************)
(* The names of runs (a ProcessToken of src/process-tokens.ts) and the two *)
(* values the tables hold in a run's place.                                *)
(***************************************************************************)
CONSTANTS Tokens,      \* the named runs
          Null,        \* the owner where no named run is executing
          Unset        \* no entry

ASSUME OwnerAssumption == /\ Null \notin Tokens /\ Unset \notin Tokens
                          /\ Null # Unset
=============================================================================
