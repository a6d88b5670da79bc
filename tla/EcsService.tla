----------------------------- MODULE EcsService -----------------------------
(***************************************************************************)
(* One ECS service (resource/ecs_service.go) with its autoscaling, run     *)
(* after run.  Apply compares and makes its calls, Wait follows the        *)
(* deployment, Destroy deletes.  Meanwhile ECS rolls deployments out,      *)
(* fails them and rolls them back, TaskDef (taskdef.go) registers and      *)
(* deregisters revisions, and others edit.  A deployment's identity is     *)
(* only ever compared with the one first seen: `latch` records that.  Tags *)
(* are TagSync's; their calls come between the update and the autoscaling. *)
(***************************************************************************)
EXTENDS Integers, SequencesExt

CONSTANTS
    Definitions,   \* [breaker, force, scaling]: settings, forceNewDeployment, autoscaled
    MaxRevision,   \* revisions of the task definition, at most
    MaxLooks       \* looks at a deleted service before giving up

Breakers  == {"off", "stop", "rollback"}
Revisions == 1 .. MaxRevision

ASSUME DefinitionsType ==
    Definitions \subseteq [breaker : Breakers, force : BOOLEAN, scaling : BOOLEAN]
ASSUME BoundsType == {MaxRevision, MaxLooks} \subseteq Nat \ {0}

VARIABLES
    definition, \* the service as its definition has it
    taskDef,    \* revisions registered so far; are they active
    service,    \* the service in AWS
    op,         \* the operation that is running
    todo,       \* the AWS calls it has yet to make
    looks,      \* how often a Destroy looked
    touched,    \* the service was changed under a running Apply or Destroy
    result,     \* how that ended, until something changes the service
    applied,    \* an Apply ended well, and its Wait has not begun
    want,       \* Wait: the revision looked for
    latch,      \* Wait: is the PRIMARY deployment the one seen first
    verdict,    \* how the Wait ended, until others act
    asked       \* the deployment that the last Apply began, until others act: a new
                \* one is of the newest revision, and that was not steady before

aws  == <<taskDef, service>>
wait == <<applied, want, latch, verdict>>
run  == <<op, todo, looks, touched, result>>
vars == <<definition, aws, run, wait, asked>>

\* What a deployment rolls out.  `network` stands for all that a deployment is
\* of besides the task definition (subnets, load balancers, registries);
\* `failing`: failedTasks has reached checkDeployment.failedTasksThreshold.
Templates   == [revision : Revisions, network : {"wanted", "other"}]
NoTemplate  == [revision |-> 0, network |-> "wanted"]
Scalings    == {"none", "target", "wanted"}

\* `by` is user or ecs, `rollout` progress, completed or failed.
Deployment(template, by) ==
    [template |-> template, by |-> by, rollout |-> "progress", failing |-> FALSE]

\* `status` is missing, active, draining or inactive; `launch` stands for what
\* UpdateService cannot change: the scheduling strategy and the launch type.
NoService ==
    [status |-> "missing", launch |-> "wanted", breaker |-> "off",
     scaling |-> "none", primary |-> Deployment(NoTemplate, "user"), good |-> NoTemplate]

Init ==
    /\ definition \in Definitions
    /\ taskDef = [revisions |-> 1, active |-> TRUE]
    /\ service = NoService
    /\ op = "none" /\ todo = << >> /\ looks = 0 /\ touched = FALSE /\ result = "none"
    /\ applied = FALSE /\ want = 0 /\ latch = "none" /\ verdict = "none"
    /\ asked = "none"

\* taskDefByName: the newest revision of an active family; 0 is its error.
Latest == IF taskDef.active THEN taskDef.revisions ELSE 0

\* fetchExisting takes an INACTIVE service for none.
Exists == service.status \in {"active", "draining"}

-----------------------------------------------------------------------------
(* Compare *)

\* A draining service has lost its desired count.
Differs ==
    [launch  |-> service.launch # "wanted",
     task    |-> service.primary.template.revision # Latest,
     network |-> service.primary.template.network # "wanted",
     breaker |-> service.breaker # definition.breaker \/ service.status = "draining",
     scaling |-> service.scaling # IF definition.scaling THEN "wanted" ELSE "none",
     failed  |-> service.primary.rollout = "failed"]

\* Mutant: a failed deployment is no difference.
DiffsIgnoringFailure == {d \in DOMAIN Differs \ {"failed"} : Differs[d]}
Diffs == {d \in DOMAIN Differs : Differs[d]}

Call(name)   == [op |-> name, sets |-> {}]
UpdateCall(sets) == [op |-> "update", sets |-> sets]

\* ApplicationAutoScaling.Compare and applyDiffs.
ScalingCalls ==
    IF ~ definition.scaling THEN <<Call("deregister")>>
    ELSE CASE service.scaling = "none"   -> <<Call("register"), Call("policies")>>
           [] service.scaling = "target" -> <<Call("policies")>>

\* apply.
Creation ==
    <<Call("lookup"), Call("create")>>
        \o IF definition.scaling THEN <<Call("register"), Call("policies")>> ELSE << >>

\* applyDiffs: what cannot be updated ends it before the first call; a failed
\* deployment is the same as forceNewDeployment; UpdateService is called whatever
\* the difference is.
Update ==
    IF "launch" \in Diffs THEN <<Call("lookup"), Call("refuse")>>
    ELSE IF Diffs = {} /\ ~ definition.force THEN <<Call("lookup")>>
    ELSE <<Call("lookup"),
           UpdateCall((Diffs \cap {"task", "network", "breaker"})
                      \cup IF definition.force \/ "failed" \in Diffs THEN {"force"} ELSE {})>>
         \o (IF "scaling" \in Diffs THEN ScalingCalls ELSE << >>)

-----------------------------------------------------------------------------
(* AWS's side of the calls *)

Accepts(call) ==
    CASE call.op = "lookup" -> Latest # 0
      [] call.op = "refuse" -> FALSE
      [] call.op = "create" -> ~ Exists /\ Latest # 0
      [] call.op = "update" -> service.status = "active" /\ ("task" \in call.sets => Latest # 0)
      [] OTHER              -> Exists

Updated(call) ==
    LET old      == service.primary.template
        template == [revision |-> IF "task" \in call.sets THEN Latest ELSE old.revision,
                     network  |-> IF "network" \in call.sets THEN "wanted" ELSE old.network]
    IN  [service EXCEPT
            !.breaker = IF "breaker" \in call.sets THEN definition.breaker ELSE @,
            !.primary = IF template # old \/ "force" \in call.sets
                        THEN Deployment(template, "user") ELSE @]

Performed(call) ==
    CASE call.op = "create" ->
             [NoService EXCEPT !.status = "active", !.breaker = definition.breaker,
                 !.primary = Deployment([revision |-> Latest, network |-> "wanted"], "user")]
      [] call.op = "update"     -> Updated(call)
      [] call.op = "register"   -> [service EXCEPT !.scaling = IF @ = "none" THEN "target" ELSE @]
      [] call.op = "policies"   -> [service EXCEPT !.scaling = IF @ = "target" THEN "wanted" ELSE @]
      [] call.op = "deregister" -> [service EXCEPT !.scaling = "none"]
      [] call.op = "delete"     -> [service EXCEPT !.status = "draining"]
      [] OTHER                  -> service

\* Does the service that results have another PRIMARY deployment?
Redeployed(call) ==
    \/ call.op = "create"
    \/ /\ call.op = "update"
       /\ "force" \in call.sets \/ Updated(call).primary.template # service.primary.template

Perform(call) == service' = Performed(call) /\ UNCHANGED taskDef

Asked(call) ==
    IF ~ Redeployed(call) THEN asked
    ELSE IF Performed(call).primary.template.revision \in {Latest} \ {service.good.revision}
    THEN "new" ELSE "same"

-----------------------------------------------------------------------------
(* Apply and Destroy *)

Begin(operation, calls) ==
    /\ op = "none"
    /\ op' = operation
    /\ todo' = calls
    /\ looks' = 0 /\ touched' = FALSE /\ result' = "none"
    /\ applied' = FALSE /\ want' = 0 /\ latch' = "none" /\ verdict' = "none"
    /\ asked' = "none"
    /\ UNCHANGED <<definition, aws>>

Apply == Begin("apply", IF Exists THEN Update ELSE Creation)

Destroy ==
    Begin("destroy", IF Exists THEN <<Call("delete"), Call("look")>> ELSE << >>)

End(outcome) ==
    /\ op' = "none"
    /\ todo' = << >>
    /\ looks' = 0
    /\ touched' = FALSE
    /\ result' = outcome
    /\ applied' = (outcome # "error" /\ op = "apply")
    /\ asked' = IF outcome = "error" THEN "none" ELSE asked
    /\ UNCHANGED <<definition, want, latch, verdict>>

Calling(name) == todo # << >> /\ Head(todo).op = name

MakeCall ==
    /\ todo # << >>
    /\ Head(todo).op # "look"
    /\ Accepts(Head(todo))
    /\ Perform(Head(todo))
    /\ asked' = Asked(Head(todo))
    /\ todo' = Tail(todo)
    /\ UNCHANGED <<definition, op, looks, touched, result, wait>>

Refused ==
    /\ todo # << >>
    /\ Head(todo).op # "look"
    /\ ~ Accepts(Head(todo))
    /\ End("error")
    /\ UNCHANGED aws

\* waitUntilServiceInactive
SeeInactive ==
    /\ Calling("look")
    /\ ~ Exists
    /\ todo' = Tail(todo)
    /\ UNCHANGED <<definition, aws, op, looks, touched, result, wait, asked>>

\* Mutant: the last look counts as a success.
GiveUpQuietly ==
    /\ Calling("look")
    /\ Exists
    /\ looks + 1 >= MaxLooks
    /\ End("destroy")
    /\ UNCHANGED aws

LookAgain ==
    /\ Calling("look")
    /\ Exists
    /\ looks + 1 < MaxLooks
    /\ looks' = looks + 1
    /\ UNCHANGED <<definition, aws, op, todo, touched, result, wait, asked>>

GiveUp ==
    /\ Calling("look")
    /\ Exists
    /\ looks + 1 >= MaxLooks
    /\ End("error")
    /\ UNCHANGED aws

Succeed ==
    /\ op \in {"apply", "destroy"}
    /\ todo = << >>
    /\ End(IF touched THEN "none" ELSE op)
    /\ UNCHANGED aws

\* A call fails, or AWS performs it and its answer is lost, or ctx is cancelled.
Fail ==
    /\ op \in {"apply", "destroy"}
    /\ \/ UNCHANGED aws
       \/ todo # << >> /\ Accepts(Head(todo)) /\ Perform(Head(todo))
    /\ End("error")

-----------------------------------------------------------------------------
(* Wait: it begins when the whole walk has ended, perhaps much later *)

BeginWait ==
    /\ op = "none"
    /\ applied
    /\ applied' = FALSE
    /\ want' = Latest
    /\ IF Latest = 0 THEN verdict' = "failed" /\ UNCHANGED op
                     ELSE op' = "wait" /\ UNCHANGED verdict
    /\ UNCHANGED <<definition, aws, todo, looks, touched, result, latch, asked>>

EndWait(how) ==
    /\ op' = "none"
    /\ verdict' = how
    /\ want' = 0
    /\ latch' = "none"
    /\ UNCHANGED <<definition, aws, todo, looks, touched, result, applied, asked>>

Describes == op = "wait" /\ Exists

\* The checks of a look, in their order; the first that applies ends the Wait.
Replaced == latch = "replaced"
GoneBad  == service.primary.rollout = "failed" \/ service.primary.failing
Steady   == service.primary.rollout = "completed"

\* Mutant: any completed deployment will do.
IsWantedAny == TRUE
IsWanted    == service.primary.template.revision = want

SeeFailure ==
    /\ Describes
    /\ Replaced \/ GoneBad \/ (Steady /\ ~ IsWanted)
    /\ EndWait("failed")

SeeDeployed ==
    /\ Describes
    /\ ~ Replaced /\ ~ GoneBad /\ Steady /\ IsWanted
    /\ EndWait("deployed")

\* An INACTIVE service has no deployment to look at.
SeeProgress ==
    /\ op = "wait"
    /\ \/ Describes /\ ~ Replaced /\ ~ GoneBad /\ ~ Steady /\ latch' = "first"
       \/ service.status = "inactive" /\ UNCHANGED latch
    /\ UNCHANGED <<definition, aws, run, applied, want, verdict, asked>>

\* errors.Wrapf of a nil error is nil: a service that is not there, or is
\* reported as a failure, ends the Wait without one.
SeeMissing ==
    /\ op = "wait"
    /\ service.status = "missing"
    /\ EndWait("deployed")

WaitTimesOut == op = "wait" /\ EndWait("failed")

-----------------------------------------------------------------------------
(* ECS *)

Condition == IF ~ Exists THEN "absent" ELSE IF Diffs = {} THEN "matching" ELSE "drifted"

Ecs(step) ==
    /\ step
    /\ UNCHANGED <<definition, taskDef, op, todo, looks, applied, want, verdict, asked>>

Undisturbing == UNCHANGED <<touched, result>>
Disturbing   == touched' = (op \in {"apply", "destroy"}) /\ result' = "none"

Rolling == service.status = "active" /\ service.primary.rollout = "progress"

RollOut ==
    /\ Rolling
    /\ service' = [service EXCEPT !.primary.rollout = "completed", !.good = service.primary.template]
    /\ Undisturbing
    /\ UNCHANGED latch

TaskFails ==
    /\ Rolling
    /\ ~ service.primary.failing
    /\ service' = [service EXCEPT !.primary.failing = TRUE]
    /\ Undisturbing
    /\ UNCHANGED latch

Seen(l) == IF l = "first" THEN "replaced" ELSE l

\* The circuit breaker stops the deployment, or replaces it by one of what was
\* last steady; a roll back that fails is not rolled back again.
Trip ==
    /\ Rolling
    /\ service.breaker # "off"
    /\ Disturbing
    /\ IF service.breaker = "rollback" /\ service.good # NoTemplate /\ service.primary.by = "user"
       THEN /\ service' = [service EXCEPT !.primary = Deployment(service.good, "ecs")]
            /\ latch' = Seen(latch)
       ELSE /\ service' = [service EXCEPT !.primary.rollout = "failed"]
            /\ UNCHANGED latch

\* Application Auto Scaling forgets a service that is deleted.
Drain ==
    /\ service.status = "draining"
    /\ service' = [NoService EXCEPT !.status = "inactive"]
    /\ IF op = "destroy" THEN Undisturbing ELSE Disturbing
    /\ UNCHANGED latch

Purge ==
    /\ service.status = "inactive"
    /\ service' = NoService
    /\ Undisturbing
    /\ UNCHANGED latch

-----------------------------------------------------------------------------
(* Everyone else: the task definition's resource, and people *)

Others(change) ==
    /\ change
    /\ Disturbing
    /\ verdict' = "none" /\ asked' = "none"
    /\ UNCHANGED <<definition, op, todo, looks, applied, want>>

\* TaskDef.apply; a difference in nothing but tags keeps the revision.
Register ==
    /\ taskDef.revisions < MaxRevision
    /\ taskDef' = [revisions |-> taskDef.revisions + 1, active |-> TRUE]
    /\ UNCHANGED <<service, latch>>

\* TaskDef.Destroy: every revision.
Deregister ==
    /\ taskDef.active
    /\ taskDef' = [taskDef EXCEPT !.active = FALSE]
    /\ UNCHANGED <<service, latch>>

DeployByHand ==
    /\ service.status = "active"
    /\ \E t \in Templates :
           /\ t.revision <= taskDef.revisions
           /\ service' = [service EXCEPT !.primary = Deployment(t, "user")]
    /\ latch' = Seen(latch)
    /\ UNCHANGED taskDef

EditByHand ==
    /\ service.status = "active"
    /\ \/ service' = [service EXCEPT !.breaker = "off"]
       \/ \E s \in Scalings \ {"wanted"} : service' = [service EXCEPT !.scaling = s]
    /\ UNCHANGED <<taskDef, latch>>

\* A service of this name that is not buildit's.
CreateByHand ==
    /\ ~ Exists
    /\ \E l \in {"wanted", "other"}, r \in 1 .. taskDef.revisions :
           service' = [NoService EXCEPT !.status = "active", !.launch = l,
               !.primary = Deployment([revision |-> r, network |-> "other"], "user")]
    /\ latch' = Seen(latch)
    /\ UNCHANGED taskDef

DeleteByHand ==
    /\ service.status = "active"
    /\ service' = [service EXCEPT !.status = "draining"]
    /\ UNCHANGED <<taskDef, latch>>

-----------------------------------------------------------------------------

Progress ==
    \/ MakeCall \/ Refused \/ SeeInactive \/ LookAgain \/ GiveUp \/ Succeed
    \/ SeeFailure \/ SeeDeployed \/ SeeProgress \/ SeeMissing \/ WaitTimesOut
Settle  == Ecs(RollOut) \/ Ecs(Drain) \/ Ecs(Purge)
Trouble == Fail \/ Ecs(TaskFails) \/ Ecs(Trip)
People  ==
    \/ Others(Register) \/ Others(Deregister) \/ Others(DeployByHand)
    \/ Others(EditByHand) \/ Others(CreateByHand) \/ Others(DeleteByHand)

Next == Apply \/ Destroy \/ BeginWait \/ Progress \/ Settle \/ Trouble \/ People

\* buildit runs on, and ECS rolls out and drains what it is not told to change.
Spec     == Init /\ [][Next]_vars
FairSpec == Spec /\ WF_vars(Progress) /\ WF_vars(Ecs(RollOut)) /\ WF_vars(Ecs(Drain))

-----------------------------------------------------------------------------
(* Properties *)

\* What the graph walks rely on: Apply never removes the service and succeeds only
\* when Compare would find nothing; Destroy succeeds only when the service is
\* INACTIVE.  A roll back, a failed deployment or a new revision is someone else's
\* interference.
Promise == INSTANCE ResourceContract WITH
               condition <- Condition, call <- IF op = "wait" THEN "none" ELSE op,
               disturbed <- touched, outcome <- result
ImplementsContract == Promise!Contract

\* A Wait that ends well followed a deployment to its end: if nobody else acts, and
\* the run rolls out another revision than the one that was steady, ECS cannot roll
\* it back unnoticed, not even before the first look.
RollBackIsReported ==
    verdict = "deployed" /\ asked = "new" =>
        service.primary.by = "user" /\ service.primary.rollout = "completed"

\* A Wait that reports a complete deployment has seen the service.
DeployedIsThere ==
    [][verdict' = "deployed" /\ verdict # "deployed" => Exists]_vars

\* Once nobody interferes, calls succeed and tasks start, repeated applies deploy the
\* newest revision whatever state earlier runs and ECS left the service in, unless
\* the difference is one UpdateService cannot make, or no revision is active.
Quiet   == <>[][Apply \/ BeginWait \/ Progress \/ Settle]_vars /\ []<><<Apply>>_vars
Refuses == service.launch # "wanted" \/ Latest = 0
Recovers ==
    Quiet => /\ <>[](Refuses \/ Condition = "matching")
             /\ []<>(Refuses \/ service.primary.rollout = "completed")
=============================================================================
