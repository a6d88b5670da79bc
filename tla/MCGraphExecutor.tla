-------------------------- MODULE MCGraphExecutor --------------------------
(***************************************************************************)
(* A small instance of GraphExecutor for TLC.                              *)
(***************************************************************************)
EXTENDS GraphExecutor

CONSTANTS k1, k2, k3

\* What the second and the third resource may depend on: nothing, a chain, a
\* fork, a join and what is between them.  Renaming the keys gives every other
\* acyclic graph.
MCGraphs ==
    {[k \in Keys |-> IF k = k1 THEN {} ELSE IF k = k2 THEN S ELSE T] :
        S \in SUBSET {k1}, T \in SUBSET {k1, k2}}

\* No targets, and the two ends of a chain without what is between them.
MCTargets == {{}, {k1, k3}}

AllCommands == {"plan", "apply", "destroy"}
============================================================================
