---------------------------- MODULE StandaloneTask ----------------------------
(***************************************************************************)
(* One standalone task (resource/standalone_task.go), run after run.       *)
(* Apply stops the tasks that run under its name, starts a new one and     *)
(* polls it until it is done or the time is over; Destroy stops them.  ECS *)
(* knows a task's desired status, RUNNING or STOPPED, which the code goes  *)
(* by, and ends the task some time after it has become STOPPED.            *)
(***************************************************************************)
EXTENDS Integers, FiniteSets

CONSTANTS
    Tasks, NoTask, \* tasks, bounded; and none
    TaskDefinitions, \* [concurrent, checked, timed, attempts]: see below
    MaxAttempts    \* bound on attempts

\* `checked`: some container's command is overridden, so exit codes are looked at;
\* `timed`: timeoutSeconds is not zero; `attempts`: it over 15 seconds.
ASSUME TasksType ==
    /\ NoTask \notin Tasks /\ MaxAttempts \in Nat
    /\ TaskDefinitions \subseteq [concurrent : BOOLEAN, checked : BOOLEAN, timed : BOOLEAN,
                                  attempts : 0 .. MaxAttempts]

VARIABLES
    task,      \* the definition
    tasks,     \* what ECS knows of each task that was started under its name
    foreign,   \* those that someone else started
    activity,  \* the operation under way, or none
    step,      \* its next call
    listed,    \* tasks that ListTasks named
    doomed,    \* tasks yet to be stopped
    mine,      \* the task it started
    polls,     \* how often it has looked at that
    disturbed, \* someone else started a task since it began
    outcome    \* how it ended, until someone else acts

ecs      == <<tasks, foreign>>
locals   == <<listed, doomed, mine, polls>>
taskVars == <<task, ecs, activity, step, locals, disturbed, outcome>>

\* A task that is running, told to stop, or over: done is exit code 0.
TaskStates == {"absent", "running", "stopping", "done", "failed"}
Wanted     == {t \in Tasks : tasks[t] = "running"}   \* desired status RUNNING

TaskInit ==
    /\ task \in TaskDefinitions
    /\ tasks = [t \in Tasks |-> "absent"]
    /\ foreign = {}
    /\ activity = "none" /\ step = "idle"
    /\ listed = {} /\ doomed = {} /\ mine = NoTask /\ polls = 0
    /\ disturbed = FALSE /\ outcome = "none"

-----------------------------------------------------------------------------
(* Compare and stop *)

Start(operation, first) ==
    /\ activity = "none"
    /\ activity' = operation
    /\ step' = first
    /\ listed' = {} /\ doomed' = {} /\ mine' = NoTask /\ polls' = 0
    /\ disturbed' = FALSE
    /\ outcome' = "none"
    /\ UNCHANGED <<task, ecs>>

ApplyTask   == Start("apply", IF task.concurrent THEN "run" ELSE "list")
DestroyTask == Start("destroy", "list")

Over(how) ==
    /\ activity' = "none"
    /\ step' = "idle"
    /\ listed' = {} /\ doomed' = {} /\ polls' = 0
    /\ disturbed' = FALSE
    /\ outcome' = how
    /\ UNCHANGED <<task, foreign, mine>>

Then(next) == step' = next /\ UNCHANGED <<task, foreign, activity, disturbed, outcome>>

\* Nothing is left to stop.
Stopped ==
    IF activity = "apply" THEN Then("run") /\ UNCHANGED <<listed, doomed, mine, polls>>
    ELSE Over(IF disturbed THEN "none" ELSE "destroy")

List ==
    /\ step = "list"
    /\ Wanted # {}
    /\ listed' = Wanted
    /\ Then("describe")
    /\ UNCHANGED <<tasks, doomed, mine, polls>>

ListNone == step = "list" /\ Wanted = {} /\ Stopped /\ UNCHANGED tasks

\* Mutant: one task that has stopped meanwhile ends the loop of stop.
DescribeAllRunning ==
    /\ step = "describe"
    /\ doomed' = IF listed \subseteq Wanted THEN listed ELSE {}
    /\ Then("stop")
    /\ UNCHANGED <<tasks, listed, mine, polls>>

Describe ==
    /\ step = "describe"
    /\ doomed' = listed \cap Wanted
    /\ Then("stop")
    /\ UNCHANGED <<tasks, listed, mine, polls>>

\* StopTask does nothing to a task that is over.
Told(t) == IF tasks[t] = "running" THEN [tasks EXCEPT ![t] = "stopping"] ELSE tasks

StopNext ==
    /\ step = "stop"
    /\ \E t \in doomed : tasks' = Told(t) /\ doomed' = doomed \ {t}
    /\ UNCHANGED <<task, foreign, activity, step, listed, mine, polls, disturbed, outcome>>

StoppedAll == step = "stop" /\ doomed = {} /\ Stopped /\ UNCHANGED tasks

-----------------------------------------------------------------------------
(* apply: run a task and wait for it *)

Unused == {t \in Tasks : tasks[t] = "absent"}

Run ==
    /\ step = "run"
    /\ \E t \in Unused :
           /\ tasks' = [tasks EXCEPT ![t] = "running"]
           /\ IF task.timed
              THEN /\ mine' = t
                   /\ Then(IF task.attempts = 0 THEN "giveup" ELSE "poll")
                   /\ UNCHANGED <<listed, doomed, polls>>
              ELSE Over("started")

\* The account has no room for another.
RunRefused == step = "run" /\ Unused = {} /\ Over("error") /\ UNCHANGED tasks

\* Without overrides no exit code is looked at.
ExitsWell == ~ task.checked \/ tasks[mine] = "done"

PollOver ==
    /\ step = "poll"
    /\ tasks[mine] # "running"
    /\ Over(IF ExitsWell THEN "apply" ELSE "error")
    /\ UNCHANGED tasks

\* Mutant: the last attempt does not count.
AttemptsForever == Then("poll") /\ polls' = polls

Attempts ==
    /\ polls' = polls + 1
    /\ Then(IF polls + 1 = task.attempts THEN "giveup" ELSE "poll")

PollAgain ==
    /\ step = "poll"
    /\ tasks[mine] = "running"
    /\ Attempts
    /\ UNCHANGED <<tasks, listed, doomed, mine>>

\* Mutant: a task whose time is over is left alone.
LeaveAlone == step = "giveup" /\ Over("timeout") /\ UNCHANGED tasks

\* Also a task that has ended since the last look is reported as too late.
GiveUpTask ==
    /\ step = "giveup"
    /\ tasks' = Told(mine)
    /\ Over("timeout")

\* An error or an interrupt at any call, which may have had its effect.
FailTask ==
    /\ activity # "none"
    /\ Over("error")
    /\ \/ UNCHANGED tasks
       \/ step = "run" /\ \E t \in Unused : tasks' = [tasks EXCEPT ![t] = "running"]
       \/ step = "stop" /\ \E t \in doomed : tasks' = Told(t)
       \/ step = "giveup" /\ tasks' = Told(mine)

-----------------------------------------------------------------------------
(* ECS and other people *)

\* A container may exit with 0 also when it is told to stop.  Nobody looks at the exit
\* code of another task than the run's own.
EndTask(t) ==
    /\ tasks[t] \in {"running", "stopping"}
    /\ \E s \in {"done"} \cup IF t = mine THEN {"failed"} ELSE {} :
           tasks' = [tasks EXCEPT ![t] = s]
    /\ UNCHANGED <<task, foreign, activity, step, locals, disturbed, outcome>>

\* An hour after its end ECS forgets a task.
Forget(t) ==
    /\ tasks[t] \in {"done", "failed"}
    /\ t # mine /\ activity = "none"
    /\ tasks' = [tasks EXCEPT ![t] = "absent"]
    /\ foreign' = foreign \ {t}
    /\ UNCHANGED <<task, activity, step, locals, disturbed, outcome>>

Interfere ==
    /\ disturbed' = (activity # "none")
    /\ outcome' = IF outcome = "destroy" THEN "none" ELSE outcome
    /\ UNCHANGED <<task, activity, step, locals>>

RunByHand(t) ==
    /\ t \in Unused
    /\ tasks' = [tasks EXCEPT ![t] = "running"]
    /\ foreign' = foreign \cup {t}
    /\ Interfere

StopByHand(t) ==
    /\ tasks[t] = "running"
    /\ tasks' = Told(t)
    /\ UNCHANGED <<task, foreign, activity, step, locals, disturbed, outcome>>

TaskProgress ==
    \/ List \/ ListNone \/ Describe \/ StopNext \/ StoppedAll
    \/ Run \/ RunRefused \/ PollOver \/ PollAgain \/ GiveUpTask

TaskNext ==
    \/ ApplyTask \/ DestroyTask \/ TaskProgress \/ FailTask
    \/ \E t \in Tasks : EndTask(t) \/ Forget(t) \/ RunByHand(t) \/ StopByHand(t)

TaskSpec == TaskInit /\ [][TaskNext]_taskVars /\ WF_taskVars(TaskProgress)

-----------------------------------------------------------------------------
(* Properties *)

\* Unless the definition allows it, buildit never has two tasks of one name wanted at
\* a time, also not after a run that was killed or lost the answer to RunTask.
OneTaskWanted == ~ task.concurrent => Cardinality(Wanted \ foreign) <= 1

\* What a run reports of its task is so: an apply that waited has seen it stopped, and
\* the overridden command has exited with 0; a task whose time was over is not left to
\* run; after a destroy none runs, unless someone started one meanwhile.
ReportsAreTrue ==
    /\ outcome = "apply" => tasks[mine] # "running" /\ (task.checked => tasks[mine] = "done")
    /\ outcome = "timeout" => tasks[mine] # "running"
    /\ outcome = "destroy" => Wanted \subseteq foreign

\* Every run ends, whatever its task does and however often it is interfered with.
EveryRunEnds == activity # "none" ~> activity = "none"
===============================================================================
