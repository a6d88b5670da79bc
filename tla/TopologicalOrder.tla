-------------------------- MODULE TopologicalOrder --------------------------
(***************************************************************************)
(* What Graph.toposort (config/dag.go) promises to the walks: the model of *)
(* the build, ResourceGraph, keeps it; that of the walks, GraphExecutor,   *)
(* relies on it.                                                           *)
(***************************************************************************)
EXTENDS Integers, FiniteSets, Functions

\* Every key once, after the keys it depends on; deps may hold more keys.
OrdersOf(keys, deps) ==
    {s \in Bijection(1 .. Cardinality(keys), keys) :
        \A i, j \in DOMAIN s : s[i] \in deps[s[j]] => i < j}
=============================================================================
