---------------------------- MODULE MCEcsService ----------------------------
(* EcsService and StandaloneTask for TLC.  A behaviour follows a service or  *)
(* a task, never both: the code of one calls nothing of the other.           *)
EXTENDS EcsService, StandaloneTask

\* An autoscaled service that rolls back, and one whose deployments are forced and
\* stopped.
Definition(breaker, force, scaling) ==
    [breaker |-> breaker, force |-> force, scaling |-> scaling]

MCDefinitions == {Definition("rollback", FALSE, TRUE), Definition("stop", TRUE, FALSE)}

\* Tasks with and without a time limit, exit codes and concurrency; a limit may be
\* less than one interval.
TaskDefinition(concurrent, checked, timed, attempts) ==
    [concurrent |-> concurrent, checked |-> checked, timed |-> timed, attempts |-> attempts]

MCTaskDefinitions ==
    {TaskDefinition(FALSE, TRUE, TRUE, 2), TaskDefinition(FALSE, TRUE, TRUE, 0),
     TaskDefinition(FALSE, FALSE, TRUE, 1), TaskDefinition(TRUE, TRUE, FALSE, 0)}

VARIABLE subject

MCInit ==
    /\ subject \in {"service", "task"}
    /\ Init
    /\ TaskInit
    /\ subject = "service" => task = TaskDefinition(FALSE, TRUE, TRUE, 2)
    /\ subject = "task" => definition = Definition("stop", TRUE, FALSE)

Service(move) == subject = "service" /\ move /\ UNCHANGED <<subject, taskVars>>
Task(move)    == subject = "task" /\ move /\ UNCHANGED <<subject, vars>>

MCNext     == Service(Next) \/ Task(TaskNext)
MCProgress == Service(Progress) \/ Task(TaskProgress)

\* The fairness of FairSpec and of TaskSpec.
MCSpec     == MCInit /\ [][MCNext]_<<subject, vars, taskVars>>
MCFairSpec ==
    /\ MCSpec
    /\ WF_<<vars, taskVars>>(MCProgress)
    /\ WF_vars(Ecs(RollOut)) /\ WF_vars(Ecs(Drain))
=============================================================================
