--------------------------- MODULE ResourceContract ---------------------------
(***************************************************************************)
(* What the graph walks of config/dag.go rely on when they call Apply or   *)
(* Destroy on one resource: an apply never removes it and ends well only   *)
(* when it is as defined; a destroy never builds it and ends well only     *)
(* when it is gone.  A call may stop anywhere, and someone else may change *)
(* the resource at any time, which voids the promise of the running call.  *)
(***************************************************************************)
VARIABLES condition,  \* absent, drifted (there, but not as defined) or matching
          call,       \* the call that is running
          disturbed,  \* someone else changed the resource since it began
          outcome     \* how the last call ended, while that still says something

contract == <<condition, call, disturbed, outcome>>

Conditions == {"absent", "drifted", "matching"}

Init ==
    /\ condition \in Conditions
    /\ call = "none"
    /\ disturbed = FALSE
    /\ outcome = "none"

\* Where work on the resource may leave it.
Reachable(c) ==
    IF c = "apply"
    THEN IF condition = "absent" THEN Conditions ELSE {"drifted", "matching"}
    ELSE IF condition = "absent" THEN {"absent"} ELSE {condition, "drifted", "absent"}

Goal(c) == IF c = "apply" THEN "matching" ELSE "absent"

Begin(c) ==
    /\ call = "none"
    /\ call' = c
    /\ disturbed' = FALSE
    /\ outcome' = "none"
    /\ UNCHANGED condition

Work ==
    /\ call # "none"
    /\ condition' \in Reachable(call)
    /\ UNCHANGED <<call, disturbed, outcome>>

Succeed ==
    /\ call # "none"
    /\ condition' \in Reachable(call)
    /\ disturbed \/ condition' = Goal(call)
    /\ outcome' = IF disturbed THEN "none" ELSE call
    /\ call' = "none"
    /\ disturbed' = FALSE

Fail ==
    /\ call # "none"
    /\ condition' \in Reachable(call)
    /\ outcome' = "error"
    /\ call' = "none"
    /\ disturbed' = FALSE

Disturb ==
    /\ condition' \in Conditions
    /\ disturbed' = (call # "none")
    /\ outcome' = "none"
    /\ UNCHANGED call

Next == (\E c \in {"apply", "destroy"} : Begin(c)) \/ Work \/ Succeed \/ Fail \/ Disturb

Contract == Init /\ [][Next]_contract
=============================================================================
