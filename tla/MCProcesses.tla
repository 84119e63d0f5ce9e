----------------------------- MODULE MCProcesses -----------------------------
(****************************************************************************)
(* The numbers of processes and what their ends take with them, for TLC: the  *)
(* process registry and the work that holds a run's loop.  They share no      *)
(* state: each is explored with the other as it began.  Scopes, runs' tokens  *)
(* and handles are interchangeable.                                           *)
(****************************************************************************)
EXTENDS ProcessRegistry, LoopWork, TLC

VARIABLE part   \* the one explored

ProcessesInit == RegistryInit /\ Init /\ part \in {"registry", "work"}

ProcessesNext ==
  \/ part = "registry" /\ RegistryNext /\ UNCHANGED <<vars, part>>
  \/ part = "work" /\ Next /\ UNCHANGED <<registryVars, part>>

ProcessesSpec == ProcessesInit /\ [][ProcessesNext]_<<registryVars, vars, part>>

ProcessSymmetry == Permutations(Scopes) \cup Permutations(RunTokens)
                   \cup Permutations(Tokens) \cup Permutations(Handles)

(* Handles meet timers and ports only in the end of a process, which treats *)
(* them one after the other: each kind is explored with the others idle.    *)
OneKind == \/ \A h \in Handles : stage[h] = "new"
           \/ /\ \A x \in Timers : timer[x].of = Unset
              /\ \A p \in Ports : port[p].of = Unset
=============================================================================
