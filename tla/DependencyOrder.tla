-------------------------- MODULE DependencyOrder --------------------------
(***************************************************************************)
(* What buildit promises about dependencies, whatever command runs and     *)
(* however it ends: a run without --targets brings a resource into being   *)
(* only while everything it depends on exists, and removes it only once    *)
(* nothing that depends on it is left, also when earlier runs had --targets*)
(* and left holes.  GraphExecutor implements this.                         *)
(***************************************************************************)
CONSTANTS Keys, Graphs

VARIABLES deps,    \* what each resource depends on
          exists,  \* the resources that exist in AWS
          named    \* the run under way, or the last, was given --targets

promise == <<deps, exists, named>>

Init == deps \in Graphs /\ exists = {} /\ named = FALSE

Create(k) ==
    /\ k \notin exists
    /\ ~ named => deps[k] \subseteq exists
    /\ exists' = exists \cup {k}
    /\ UNCHANGED <<deps, named>>

Remove(k) ==
    /\ k \in exists
    /\ ~ named => \A j \in exists : k \notin deps[j]
    /\ exists' = exists \ {k}
    /\ UNCHANGED <<deps, named>>

Start ==
    /\ named' \in BOOLEAN
    /\ UNCHANGED <<deps, exists>>

Next == Start \/ \E k \in Keys : Create(k) \/ Remove(k)

Spec == Init /\ [][Next]_promise
============================================================================
