------------------------------ MODULE EcsProofs ------------------------------
(***************************************************************************)
(* Theorems about EcsService and StandaloneTask, for any definitions and   *)
(* numbers of revisions and tasks.  A Wait that ends well was not rolled   *)
(* back; Apply and Destroy keep the contract of the graph walks; and       *)
(* however many runs of a task were killed or lost an answer, one task     *)
(* counts and what is reported of it is true.                              *)
(***************************************************************************)
EXTENDS EcsService, StandaloneTask, SequenceTheorems, FiniteSetTheorems, TLAPS

Rolled      == [revision : 0 .. MaxRevision, network : {"wanted", "other"}]
Deployments ==
    [template : Rolled, by : {"user", "ecs"},
     rollout : {"progress", "completed", "failed"}, failing : BOOLEAN]
Services ==
    [status : {"missing", "active", "draining", "inactive"}, launch : {"wanted", "other"},
     breaker : Breakers, scaling : Scalings, primary : Deployments, good : Rolled]

CallSets     == SUBSET {"task", "network", "breaker", "force"}
ApplyCalls   ==
    [op : {"lookup", "refuse", "create", "update", "register", "policies", "deregister"},
     sets : CallSets]
DestroyCalls == [op : {"delete", "look"}, sets : CallSets]

\* Shapes of the variables.
ShapeOK ==
    /\ definition \in [breaker : Breakers, force : BOOLEAN, scaling : BOOLEAN]
    /\ taskDef \in [revisions : Revisions, active : BOOLEAN]
    /\ service \in Services
    /\ op \in {"none", "apply", "destroy", "wait"}
    /\ touched \in BOOLEAN

\* An operation has only calls of its own, and a Wait has none.
CallsOK ==
    /\ op \in {"none", "wait"} => todo = << >> /\ ~ touched
    /\ op = "apply" => todo \in Seq(ApplyCalls)
    /\ op = "destroy" => todo \in Seq(DestroyCalls)

\* A Wait looks for the revision of the deployment that the Apply began.
WaitOK ==
    /\ op # "none" => ~ applied
    /\ op # "none" \/ applied => verdict = "none"
    /\ op = "wait" /\ asked = "new" => want = Latest

\* Until others act, the deployment that the Apply began is the PRIMARY one, and
\* what was steady before is another revision; or ECS rolled it back to that.
NewOK ==
    /\ op = "destroy" => asked # "new"
    /\ asked = "new" =>
           /\ service.status = "active"
           /\ \/ /\ service.primary.by = "user"
                 /\ service.primary.template.revision = Latest
                 /\ service.primary.rollout = "completed" \/ service.good.revision # Latest
              \/ /\ service.primary.by = "ecs"
                 /\ service.primary.template.revision # Latest

RollInv == ShapeOK /\ CallsOK /\ WaitOK /\ NewOK /\ RollBackIsReported

-----------------------------------------------------------------------------
(* Sequences of calls *)

LEMMA ConsFacts ==
  ASSUME NEW S, NEW x \in S, NEW s \in Seq(S)
  PROVE  /\ <<x>> \o s \in Seq(S) /\ <<x>> \o s # << >>
         /\ Head(<<x>> \o s) = x /\ Tail(<<x>> \o s) = s
         /\ \A i \in DOMAIN (<<x>> \o s) : (<<x>> \o s)[i] = x \/ \E j \in DOMAIN s : (<<x>> \o s)[i] = s[j]
<1> DEFINE t == <<x>>
<1>1. t \in Seq(S) /\ Len(t) = 1 /\ t[1] = x
  OBVIOUS
<1> HIDE DEF t
<1> DEFINE r == t \o s
<1>2. r \in Seq(S) /\ Len(r) = Len(s) + 1 /\ r[1] = x
      /\ \A i \in 1 .. Len(s) : r[i + 1] = s[i]
  <2>1. /\ t \o s \in Seq(S) /\ Len(t \o s) = Len(t) + Len(s)
        /\ \A i \in 1 .. Len(t) + Len(s) :
               (t \o s)[i] = IF i <= Len(t) THEN t[i] ELSE s[i - Len(t)]
    BY <1>1, ConcatProperties
  <2>2. Len(s) \in Nat /\ 1 \in 1 .. 1 + Len(s)
    OBVIOUS
  <2>3. ASSUME NEW i \in 1 .. Len(s)
        PROVE  r[i + 1] = s[i]
    <3>1. i + 1 \in 1 .. 1 + Len(s) /\ ~ (i + 1 <= 1) /\ (i + 1) - 1 = i
      BY <2>2
    <3> QED
      BY <1>1, <2>1, <3>1
  <2>4. r[1] = x
    <3>1. 1 \in 1 .. Len(t) + Len(s) /\ 1 <= Len(t)
      BY <1>1, <2>2
    <3> QED
      BY <1>1, <2>1, <3>1
  <2>5. Len(t \o s) = Len(s) + 1
    BY <1>1, <2>1, <2>2
  <2> QED
    BY <2>1, <2>3, <2>4, <2>5
<1> HIDE DEF r
<1>3. r # << >> /\ Head(r) = x /\ Tail(r) \in Seq(S) /\ Len(Tail(r)) = Len(s)
  BY <1>2
<1>4. \A i \in 1 .. Len(s) : Tail(r)[i] = s[i]
  BY <1>2, <1>3
<1>5. Tail(r) = s
  BY <1>3, <1>4
<1>6. \A i \in DOMAIN r : r[i] = x \/ \E j \in DOMAIN s : r[i] = s[j]
  <2> SUFFICES ASSUME NEW i \in 1 .. Len(s) + 1
               PROVE  r[i] = x \/ \E j \in 1 .. Len(s) : r[i] = s[j]
    BY <1>2
  <2>1. CASE i = 1
    BY <1>2, <2>1
  <2>2. CASE i # 1
    <3>1. i - 1 \in 1 .. Len(s) /\ r[(i - 1) + 1] = s[i - 1] /\ (i - 1) + 1 = i
      BY <1>2, <2>2
    <3> QED
      BY <3>1
  <2> QED
    BY <2>1, <2>2
<1> QED
  BY <1>2, <1>3, <1>5, <1>6 DEF r, t

LEMMA OneMoreCall ==
  ASSUME NEW x, NEW y
  PROVE  Append(<<x>>, y) = <<x, y>>
<1> DEFINE s == <<x>>
           t == <<x, y>>
           S == {x, y}
<1>1. s \in Seq(S) /\ t \in Seq(S) /\ y \in S
  OBVIOUS
<1>2. Len(s) = 1 /\ Len(t) = 2 /\ t[1] = x /\ t[2] = y /\ s[1] = x
  OBVIOUS
<1> HIDE DEF s, t, S
<1>3. /\ Append(s, y) \in Seq(S) /\ Len(Append(s, y)) = 2
      /\ Append(s, y)[1] = x /\ Append(s, y)[2] = y
  BY <1>1, <1>2, AppendProperties, SMTT(20)
<1>4. \A i \in 1 .. 2 : Append(s, y)[i] = t[i]
  BY <1>2, <1>3
<1>5. Append(s, y) = t
  BY <1>1, <1>2, <1>3, <1>4
<1> QED
  BY <1>5 DEF s, t

LEMMA TwoCalls ==
  ASSUME NEW S, NEW x \in S, NEW y \in S, NEW s \in Seq(S)
  PROVE  <<x, y>> \o s = <<x>> \o (<<y>> \o s)
<1>1. <<x, y>> = <<x>> \o <<y>>
  <2>1. <<x>> \in Seq(S)
    OBVIOUS
  <2>2. Append(<<x>>, y) = <<x>> \o <<y>>
    BY <2>1, AppendIsConcat
  <2> QED
    BY <2>2, OneMoreCall
<1>2. <<x>> \in Seq(S) /\ <<y>> \in Seq(S)
  OBVIOUS
<1>3. (<<x>> \o <<y>>) \o s = <<x>> \o (<<y>> \o s)
  BY <1>2, ConcatAssociative
<1> QED
  BY <1>1, <1>3

-----------------------------------------------------------------------------
(* The shapes *)

LEMMA LatestType == ShapeOK => Latest \in 0 .. MaxRevision
BY BoundsType DEF ShapeOK, Latest, Revisions

LEMMA FreshType ==
  ASSUME NEW template \in Rolled, NEW by \in {"user", "ecs"}
  PROVE  Deployment(template, by) \in Deployments
BY DEF Deployment, Deployments

LEMMA NoServiceType == NoTemplate \in Rolled /\ NoService \in Services
<1>1. NoTemplate \in Rolled
  BY BoundsType DEF NoTemplate, Rolled
<1>2. Deployment(NoTemplate, "user") \in Deployments
  BY <1>1, FreshType
<1> QED
  BY <1>1, <1>2 DEF NoService, Services, Breakers, Scalings

\* What the calls of an Apply or a Destroy make of the service.
LEMMA PerformedType ==
  ASSUME ShapeOK, NEW call \in ApplyCalls \cup DestroyCalls
  PROVE  Performed(call) \in Services
<1>1. service \in Services /\ service.primary \in Deployments /\ service.primary.template \in Rolled
  BY DEF ShapeOK, Services, Deployments
<1>2. CASE call.op = "create"
  <2>1. [revision |-> Latest, network |-> "wanted"] \in Rolled
    BY LatestType DEF Rolled
  <2>2. PICK d \in Deployments :
            d = Deployment([revision |-> Latest, network |-> "wanted"], "user")
    BY <2>1, FreshType
  <2>3. Performed(call) = [NoService EXCEPT !.status = "active",
                               !.breaker = definition.breaker, !.primary = d]
    BY <1>2, <2>2 DEF Performed
  <2> QED
    BY <2>3, NoServiceType DEF Services, ShapeOK
<1>3. CASE call.op = "update"
  <2> DEFINE old == service.primary.template
             template == [revision |-> IF "task" \in call.sets THEN Latest ELSE old.revision,
                          network  |-> IF "network" \in call.sets THEN "wanted" ELSE old.network]
  <2>1. template \in Rolled
    BY <1>1, LatestType DEF Rolled
  <2>2. PICK d \in Deployments :
            d = IF template # old \/ "force" \in call.sets
                THEN Deployment(template, "user") ELSE service.primary
    BY <1>1, <2>1, FreshType
  <2>3. PICK b \in Breakers :
            b = IF "breaker" \in call.sets THEN definition.breaker ELSE service.breaker
    BY DEF ShapeOK, Services
  <2>4. Updated(call) = [service EXCEPT !.breaker = b, !.primary = d]
    BY <2>2, <2>3 DEF Updated
  <2>5. Performed(call) = Updated(call)
    BY <1>3 DEF Performed
  <2>6. [service EXCEPT !.breaker = b, !.primary = d] \in Services
    <3> HIDE DEF old, template
    <3> QED
      BY <1>1 DEF Services
  <2> QED
    BY <2>4, <2>5, <2>6
<1>4. CASE call.op \in {"register", "policies", "deregister"}
  <2>1. PICK s \in Scalings : Performed(call) = [service EXCEPT !.scaling = s]
    BY <1>1, <1>4 DEF Performed, Services, Scalings
  <2> QED
    BY <1>1, <2>1 DEF Services
<1>5. CASE call.op = "delete"
  BY <1>1, <1>5 DEF Performed, Services
<1>6. CASE call.op \notin {"create", "update", "register", "policies", "deregister", "delete"}
  BY <1>1, <1>6 DEF Performed
<1> QED
  BY <1>2, <1>3, <1>4, <1>5, <1>6

\* What an Apply and a Destroy set out to do.
LEMMA CallTypes ==
  /\ \A name \in {"lookup", "refuse", "create", "register", "policies", "deregister"} :
         Call(name) \in ApplyCalls
  /\ \A sets \in CallSets : UpdateCall(sets) \in ApplyCalls
  /\ \A name \in {"delete", "look"} : Call(name) \in DestroyCalls
BY DEF Call, UpdateCall, ApplyCalls, DestroyCalls, CallSets

\* The calls that follow the lookup.
LEMMA LookThen ==
  \A look, c \in ApplyCalls : \A s \in Seq(ApplyCalls) :
      <<look, c>> \o s = <<look>> \o (<<c>> \o s)
<1> TAKE look, c \in ApplyCalls
<1> TAKE s \in Seq(ApplyCalls)
<1> QED
  BY TwoCalls

LEMMA BeginTypes ==
  ASSUME ShapeOK
  PROVE  Update \in Seq(ApplyCalls) /\ Creation \in Seq(ApplyCalls)
<1> DEFINE sets == (Diffs \cap {"task", "network", "breaker"})
                   \cup IF definition.force \/ "failed" \in Diffs THEN {"force"} ELSE {}
<1>1. Call("lookup") \in ApplyCalls /\ UpdateCall(sets) \in ApplyCalls
      /\ Call("register") \in ApplyCalls /\ Call("policies") \in ApplyCalls
      /\ Call("deregister") \in ApplyCalls /\ Call("refuse") \in ApplyCalls
      /\ Call("create") \in ApplyCalls
  BY CallTypes DEF CallSets
<1>2. "scaling" \in Diffs => ScalingCalls \in Seq(ApplyCalls)
  <2> SUFFICES ASSUME "scaling" \in Diffs PROVE ScalingCalls \in Seq(ApplyCalls)
    OBVIOUS
  <2>1. CASE ~ definition.scaling
    BY <1>1, <2>1 DEF ScalingCalls
  <2>2. CASE definition.scaling
    <3>1. service.scaling \in {"none", "target"}
      BY <2>2 DEF Diffs, Differs, ShapeOK, Services, Scalings
    <3> QED
      BY <1>1, <2>2, <3>1 DEF ScalingCalls
  <2> QED
    BY <2>1, <2>2
<1> DEFINE scaling == IF "scaling" \in Diffs THEN ScalingCalls ELSE << >>
           begin == <<Call("lookup"), UpdateCall(sets)>>
<1>3. scaling \in Seq(ApplyCalls) /\ begin \in Seq(ApplyCalls)
  BY <1>1, <1>2
<1>4. begin \o scaling \in Seq(ApplyCalls)
  <2> HIDE DEF begin, scaling
  <2> QED
    BY <1>3, ConcatProperties
<1>5. Update \in Seq(ApplyCalls)
  BY <1>1, <1>4 DEF Update
<1> DEFINE creation == <<Call("lookup"), Call("create")>>
           tail == IF definition.scaling THEN <<Call("register"), Call("policies")>> ELSE << >>
<1>6. creation \in Seq(ApplyCalls) /\ tail \in Seq(ApplyCalls)
  BY <1>1
<1>7. creation \o tail \in Seq(ApplyCalls)
  <2> HIDE DEF creation, tail
  <2> QED
    BY <1>6, ConcatProperties
<1>8. Creation \in Seq(ApplyCalls)
  BY <1>7 DEF Creation
<1> QED
  BY <1>5, <1>8

\* What every AWS call is for, and that Next leaves the definition alone.
LEMMA CallAtHead ==
  ASSUME ShapeOK, CallsOK, todo # << >>
  PROVE  /\ op \in {"apply", "destroy"}
         /\ op = "apply" => Head(todo) \in ApplyCalls /\ Tail(todo) \in Seq(ApplyCalls)
         /\ op = "destroy" => Head(todo) \in DestroyCalls /\ Tail(todo) \in Seq(DestroyCalls)
BY DEF ShapeOK, CallsOK

\* ECS's steps keep the shape of the service.
LEMMA EcsTypes ==
  ASSUME ShapeOK, RollOut \/ TaskFails \/ Trip \/ Drain \/ Purge
  PROVE  service' \in Services
<1>1. service \in Services /\ service.primary \in Deployments
      /\ service.primary.template \in Rolled /\ service.good \in Rolled
  BY DEF ShapeOK, Services, Deployments
<1>2. CASE RollOut
  <2>1. PICK d \in Deployments, t \in Rolled :
            service' = [service EXCEPT !.primary = d, !.good = t]
    <3>1. [service.primary EXCEPT !.rollout = "completed"] \in Deployments
      BY <1>1 DEF Deployments
    <3>2. service' = [service EXCEPT !.primary = [service.primary EXCEPT !.rollout = "completed"],
                                     !.good = service.primary.template]
      BY <1>1, <1>2 DEF RollOut, Services
    <3> QED
      BY <1>1, <3>1, <3>2
  <2> QED
    BY <1>1, <2>1 DEF Services
<1>3. CASE TaskFails \/ Trip
  <2>1. PICK d \in Deployments : service' = [service EXCEPT !.primary = d]
    <3>1. [service.primary EXCEPT !.failing = TRUE] \in Deployments
          /\ [service.primary EXCEPT !.rollout = "failed"] \in Deployments
      BY <1>1 DEF Deployments
    <3>2. Deployment(service.good, "ecs") \in Deployments
      BY <1>1, FreshType
    <3>3. \/ service' = [service EXCEPT !.primary = [service.primary EXCEPT !.failing = TRUE]]
          \/ service' = [service EXCEPT !.primary = [service.primary EXCEPT !.rollout = "failed"]]
          \/ service' = [service EXCEPT !.primary = Deployment(service.good, "ecs")]
      BY <1>1, <1>3 DEF TaskFails, Trip, Services
    <3> QED
      BY <3>1, <3>2, <3>3
  <2> QED
    BY <1>1, <2>1 DEF Services
<1>4. CASE Drain \/ Purge
  BY <1>4, NoServiceType DEF Drain, Purge, Services
<1> QED
  BY <1>2, <1>3, <1>4

\* So do other people's, and those keep the shape of the task definition.
LEMMA OthersTypes ==
  ASSUME ShapeOK,
         Register \/ Deregister \/ DeployByHand \/ EditByHand \/ CreateByHand \/ DeleteByHand
  PROVE  service' \in Services /\ taskDef' \in [revisions : Revisions, active : BOOLEAN]
<1>1. service \in Services /\ service.primary \in Deployments
      /\ taskDef \in [revisions : Revisions, active : BOOLEAN]
  BY DEF ShapeOK, Services
<1>2. CASE Register
  <2>1. PICK r \in Revisions, a \in BOOLEAN : taskDef' = [revisions |-> r, active |-> a]
    <3>1. MaxRevision \in Nat
      BY BoundsType
    <3>2. taskDef.revisions \in Nat /\ taskDef.revisions \in Revisions
      BY <1>1, <3>1 DEF Revisions
    <3>3. taskDef.revisions < MaxRevision => taskDef.revisions + 1 \in Revisions
      BY <3>1, <3>2 DEF Revisions
    <3> QED
      BY <3>2, <3>3, <1>2 DEF Register
  <2> QED
    BY <1>1, <1>2, <2>1 DEF Register
<1>7. CASE Deregister
  BY <1>1, <1>7 DEF Deregister
<1>3. CASE DeployByHand
  <2>1. PICK t \in Templates : service' = [service EXCEPT !.primary = Deployment(t, "user")]
    BY <1>3 DEF DeployByHand
  <2>2. t \in Rolled
    BY BoundsType DEF Templates, Rolled, Revisions
  <2>3. PICK d \in Deployments : d = Deployment(t, "user")
    BY <2>2, FreshType
  <2>4. service' = [service EXCEPT !.primary = d]
    BY <2>1, <2>3
  <2> QED
    BY <1>1, <1>3, <2>4 DEF Services, DeployByHand
<1>4. CASE EditByHand
  BY <1>1, <1>4 DEF EditByHand, Services, Breakers, Scalings
<1>5. CASE CreateByHand
  <2>1. PICK l \in {"wanted", "other"}, r \in 1 .. taskDef.revisions :
            service' = [NoService EXCEPT !.status = "active", !.launch = l,
                !.primary = Deployment([revision |-> r, network |-> "other"], "user")]
    BY <1>5 DEF CreateByHand
  <2>2. [revision |-> r, network |-> "other"] \in Rolled
    BY <1>1, BoundsType DEF Rolled, Revisions
  <2>3. PICK d \in Deployments :
            d = Deployment([revision |-> r, network |-> "other"], "user")
    BY <2>2, FreshType
  <2>4. service' = [NoService EXCEPT !.status = "active", !.launch = l, !.primary = d]
    BY <2>1, <2>3
  <2> QED
    BY <1>1, <1>5, <2>4, NoServiceType DEF Services, CreateByHand
<1>6. CASE DeleteByHand
  BY <1>1, <1>6 DEF DeleteByHand, Services
<1> QED
  BY <1>2, <1>3, <1>4, <1>5, <1>6, <1>7

\* Who disturbs a run, and what that says of it.
LEMMA TouchedFacts ==
  ASSUME Disturbing \/ Undisturbing
  PROVE  \/ touched' = touched /\ result' = result
         \/ op \in {"apply", "destroy"} /\ touched' = TRUE /\ result' = "none"
         \/ op \notin {"apply", "destroy"} /\ touched' = FALSE /\ result' = "none"
<1>1. CASE op \in {"apply", "destroy"}
  BY <1>1 DEF Disturbing, Undisturbing
<1>2. CASE op \notin {"apply", "destroy"}
  <2>1. (op \in {"apply", "destroy"}) = FALSE
    BY <1>2
  <2>2. CASE Disturbing
    BY <1>2, <2>1, <2>2, Zenon DEF Disturbing
  <2>3. CASE Undisturbing
    BY <2>3 DEF Undisturbing
  <2> QED
    BY <2>2, <2>3
<1> QED
  BY <1>1, <1>2

LEMMA ShapeHolds ==
  ASSUME ShapeOK, CallsOK, [Next]_vars
  PROVE  ShapeOK'
<1>1. CASE Apply \/ Destroy
  BY <1>1 DEF Apply, Destroy, Begin, aws, ShapeOK
<1>2. CASE BeginWait
  BY <1>2 DEF BeginWait, aws, ShapeOK
<1>3. ASSUME NEW how, EndWait(how)
      PROVE  ShapeOK'
  BY <1>3 DEF EndWait, aws, ShapeOK
<1>4. ASSUME NEW how, End(how), UNCHANGED aws
      PROVE  ShapeOK'
  BY <1>4 DEF End, aws, ShapeOK
<1>5. ASSUME todo # << >>, Perform(Head(todo))
      PROVE  service' \in Services /\ UNCHANGED taskDef
  BY <1>5, CallAtHead, PerformedType DEF Perform
<1>6. CASE MakeCall
  BY <1>5, <1>6 DEF MakeCall, ShapeOK
<1>7. CASE Refused \/ GiveUp \/ Succeed
  BY <1>4, <1>7 DEF Refused, GiveUp, Succeed
<1>8. CASE SeeInactive \/ LookAgain
  BY <1>8 DEF SeeInactive, LookAgain, aws, ShapeOK
<1>9. CASE SeeFailure \/ SeeDeployed \/ SeeMissing \/ WaitTimesOut
  BY <1>3, <1>9 DEF SeeFailure, SeeDeployed, SeeMissing, WaitTimesOut
<1>10. CASE SeeProgress
  BY <1>10 DEF SeeProgress, aws, run, ShapeOK
<1>11. CASE Fail
  BY <1>4, <1>5, <1>11 DEF Fail, End, ShapeOK
<1>12. CASE Ecs(RollOut) \/ Ecs(TaskFails) \/ Ecs(Trip) \/ Ecs(Drain) \/ Ecs(Purge)
  <2>1. service' \in Services /\ UNCHANGED <<definition, taskDef, op>>
    BY <1>12, EcsTypes DEF Ecs
  <2>2. touched' \in BOOLEAN
    <3>1. Disturbing \/ Undisturbing
      BY <1>12 DEF Ecs, RollOut, TaskFails, Trip, Drain, Purge
    <3> QED
      BY <3>1, TouchedFacts DEF ShapeOK
  <2> QED
    BY <2>1, <2>2 DEF ShapeOK
<1>13. CASE People
  <2>1. /\ service' \in Services /\ taskDef' \in [revisions : Revisions, active : BOOLEAN]
        /\ UNCHANGED <<definition, op>>
    BY <1>13, OthersTypes DEF People, Others
  <2>2. touched' \in BOOLEAN
    <3>1. Disturbing
      BY <1>13 DEF People, Others
    <3> QED
      BY <3>1, TouchedFacts DEF ShapeOK
  <2> QED
    BY <2>1, <2>2 DEF ShapeOK
<1>14. CASE UNCHANGED vars
  BY <1>14 DEF vars, aws, run, ShapeOK
<1> QED
  BY <1>1, <1>2, <1>6, <1>7, <1>8, <1>9, <1>10, <1>11, <1>12, <1>13, <1>14
  DEF Next, Progress, Settle, Trouble

LEMMA CallsHold ==
  ASSUME ShapeOK, CallsOK, [Next]_vars
  PROVE  CallsOK'
<1>1. CASE Apply
  <2>1. /\ op' = "apply" /\ todo' = IF Exists THEN Update ELSE Creation
    BY <1>1 DEF Apply, Begin
  <2> QED
    BY <2>1, BeginTypes DEF CallsOK
<1>2. CASE Destroy
  <2>1. op' = "destroy" /\ todo' = IF Exists THEN <<Call("delete"), Call("look")>> ELSE << >>
    BY <1>2 DEF Destroy, Begin
  <2>2. todo' \in Seq(DestroyCalls)
    BY <2>1, CallTypes
  <2> QED
    BY <2>1, <2>2 DEF CallsOK
<1>3. ASSUME op' = "none", todo' = << >>, touched' = FALSE
      PROVE  CallsOK'
  BY <1>3 DEF CallsOK
<1>4. CASE Refused \/ GiveUp \/ Succeed \/ Fail
  BY <1>3, <1>4 DEF Refused, GiveUp, Succeed, Fail, End
<1>5. CASE SeeFailure \/ SeeDeployed \/ SeeMissing \/ WaitTimesOut
  BY <1>5 DEF SeeFailure, SeeDeployed, SeeMissing, WaitTimesOut, Describes, EndWait, CallsOK
<1>6. CASE BeginWait
  BY <1>6 DEF BeginWait, CallsOK
<1>7. CASE MakeCall \/ SeeInactive
  <2>1. todo # << >> /\ todo' = Tail(todo) /\ UNCHANGED <<op, touched>>
    BY <1>7 DEF MakeCall, SeeInactive, Calling
  <2> QED
    BY <2>1, CallAtHead DEF CallsOK
<1>8. CASE LookAgain \/ SeeProgress \/ UNCHANGED vars
  BY <1>8 DEF LookAgain, SeeProgress, vars, run, CallsOK
<1>9. CASE People \/ Ecs(RollOut) \/ Ecs(TaskFails) \/ Ecs(Trip) \/ Ecs(Drain) \/ Ecs(Purge)
  <2>1. UNCHANGED <<op, todo>>
    BY <1>9 DEF People, Others, Ecs
  <2>2. Disturbing \/ Undisturbing
    BY <1>9 DEF People, Others, Ecs, RollOut, TaskFails, Trip, Drain, Purge
  <2>3. op \in {"none", "wait"} => touched' = touched \/ touched' = FALSE
    BY <2>2, TouchedFacts
  <2>4. op \in {"none", "wait"} /\ ~ touched => ~ touched'
    BY <2>3, ShapeOK, ShapeHolds DEF ShapeOK
  <2> QED
    BY <2>1, <2>4 DEF CallsOK
<1> QED
  BY <1>1, <1>2, <1>4, <1>5, <1>6, <1>7, <1>8, <1>9 DEF Next, Progress, Settle, Trouble

-----------------------------------------------------------------------------
(* Roll backs *)

\* What a call that succeeds makes of the deployments.
LEMMA RedeployFacts ==
  ASSUME ShapeOK, NEW call \in ApplyCalls \cup DestroyCalls, Accepts(call)
  PROVE  /\ ~ Redeployed(call) =>
                /\ Performed(call).primary = service.primary
                /\ Performed(call).good = service.good
                /\ call.op # "delete" => Performed(call).status = service.status
         /\ Redeployed(call) =>
                /\ Performed(call).status = "active"
                /\ Performed(call).primary.by = "user"
                /\ \/ Performed(call).good = service.good
                   \/ Performed(call).good = NoTemplate /\ Latest # 0
         /\ call.op \in {"delete", "look"} => ~ Redeployed(call)
<1>1. service \in Services
  BY DEF ShapeOK
<1>2. CASE call.op = "create"
  <2>1. Redeployed(call) /\ Latest # 0
    BY <1>2 DEF Redeployed, Accepts
  <2>2. /\ Performed(call).status = "active" /\ Performed(call).good = NoTemplate
        /\ Performed(call).primary = Deployment([revision |-> Latest, network |-> "wanted"], "user")
    BY <1>2 DEF Performed, NoService
  <2> QED
    BY <1>2, <2>1, <2>2 DEF Deployment
<1>3. CASE call.op = "update"
  <2> DEFINE old == service.primary.template
             template == [revision |-> IF "task" \in call.sets THEN Latest ELSE old.revision,
                          network  |-> IF "network" \in call.sets THEN "wanted" ELSE old.network]
             again == template # old \/ "force" \in call.sets
  <2>1. /\ Updated(call).status = service.status /\ Updated(call).good = service.good
        /\ Updated(call).primary = IF again THEN Deployment(template, "user") ELSE service.primary
    BY <1>1 DEF Updated, Services
  <2>2. Performed(call) = Updated(call) /\ service.status = "active"
    BY <1>3 DEF Performed, Accepts
  <2>3. Redeployed(call) <=> "force" \in call.sets \/ Updated(call).primary.template # old
    BY <1>3 DEF Redeployed
  <2>4. /\ Deployment(template, "user").template = template
        /\ Deployment(template, "user").by = "user"
    BY DEF Deployment
  <2>5. Redeployed(call) <=> again
    <3> HIDE DEF template
    <3> QED
      BY <2>1, <2>3, <2>4
  <2> HIDE DEF again, template
  <2> QED
    BY <1>3, <2>1, <2>2, <2>4, <2>5
<1>4. CASE call.op \notin {"create", "update"}
  <2>1. ~ Redeployed(call)
    BY <1>4 DEF Redeployed
  <2>2. /\ Performed(call).primary = service.primary /\ Performed(call).good = service.good
        /\ call.op # "delete" => Performed(call).status = service.status
    BY <1>1, <1>4 DEF Performed, Services
  <2> QED
    BY <1>4, <2>1, <2>2
<1> QED
  BY <1>2, <1>3, <1>4

\* ECS rolls back only to what was steady, and only a deployment of the user's.
LEMMA EcsKeepsNew ==
  ASSUME ShapeOK, NewOK, asked = "new", op # "destroy",
         RollOut \/ TaskFails \/ Trip \/ Drain \/ Purge,
         UNCHANGED <<taskDef, op, asked>>
  PROVE  NewOK' /\ (Steady => UNCHANGED service)
<1>1. service \in Services /\ service.primary \in Deployments
  BY DEF ShapeOK, Services
<1>2. Latest' = Latest
  BY DEF Latest
<1>3. ~ Drain /\ ~ Purge
  BY DEF NewOK, Drain, Purge
<1>4. CASE RollOut
  <2>1. ~ Steady
    BY <1>4 DEF RollOut, Rolling, Steady
  <2>2. /\ service'.status = service.status /\ service'.primary.by = service.primary.by
        /\ service'.primary.template = service.primary.template
        /\ service'.primary.rollout = "completed"
    BY <1>1, <1>4 DEF RollOut, Services, Deployments
  <2> QED
    BY <1>2, <2>1, <2>2 DEF NewOK
<1>5. CASE TaskFails
  <2>1. ~ Steady
    BY <1>5 DEF TaskFails, Rolling, Steady
  <2>2. /\ service'.status = service.status /\ service'.primary.by = service.primary.by
        /\ service'.primary.template = service.primary.template
        /\ service'.primary.rollout = service.primary.rollout
        /\ service'.good = service.good
    BY <1>1, <1>5 DEF TaskFails, Services, Deployments
  <2> QED
    BY <1>2, <2>1, <2>2 DEF NewOK
<1>6. CASE Trip
  <2>1. ~ Steady /\ service.primary.rollout = "progress"
    BY <1>6 DEF Trip, Rolling, Steady
  <2>2. CASE /\ service' = [service EXCEPT !.primary = Deployment(service.good, "ecs")]
             /\ service.primary.by = "user"
    <3>1. /\ service'.status = service.status
          /\ service'.primary = Deployment(service.good, "ecs")
      BY <1>1, <2>2 DEF Services
    <3>2. service'.primary.by = "ecs" /\ service'.primary.template = service.good
      BY <3>1 DEF Deployment
    <3> QED
      BY <1>2, <2>1, <2>2, <3>1, <3>2 DEF NewOK
  <2>3. CASE service' = [service EXCEPT !.primary.rollout = "failed"]
    <3>1. /\ service'.status = service.status /\ service'.primary.by = service.primary.by
          /\ service'.primary.template = service.primary.template
          /\ service'.good = service.good
      BY <1>1, <2>3 DEF Services, Deployments
    <3> QED
      BY <1>2, <2>1, <3>1 DEF NewOK
  <2> QED
    BY <1>6, <2>2, <2>3 DEF Trip
<1> QED
  BY <1>3, <1>4, <1>5, <1>6

LEMMA WaitHolds ==
  ASSUME RollInv, [Next]_vars
  PROVE  WaitOK'
<1>1. CASE Apply \/ Destroy
  BY <1>1 DEF Apply, Destroy, Begin, WaitOK
<1>2. CASE BeginWait
  BY <1>2 DEF BeginWait, aws, RollInv, WaitOK, Latest
<1>3. CASE Refused \/ GiveUp \/ Succeed \/ Fail
  <2>1. op \in {"apply", "destroy"}
    BY <1>3, CallAtHead DEF Refused, GiveUp, Calling, Succeed, Fail, RollInv
  <2> QED
    BY <1>3, <2>1 DEF Refused, GiveUp, Succeed, Fail, End, RollInv, WaitOK
<1>4. CASE SeeFailure \/ SeeDeployed \/ SeeMissing \/ WaitTimesOut
  <2>1. op' = "none" /\ UNCHANGED applied
    BY <1>4 DEF SeeFailure, SeeDeployed, SeeMissing, WaitTimesOut, EndWait
  <2>2. op = "wait" /\ ~ applied
    BY <1>4 DEF SeeFailure, SeeDeployed, SeeMissing, WaitTimesOut, Describes, RollInv, WaitOK
  <2> QED
    BY <1>4, <2>1, <2>2 DEF WaitOK
<1>5. CASE MakeCall \/ SeeInactive \/ LookAgain
  <2>1. op \in {"apply", "destroy"}
    BY <1>5, CallAtHead DEF MakeCall, SeeInactive, LookAgain, Calling, RollInv
  <2>2. UNCHANGED <<op, wait>>
    BY <1>5 DEF MakeCall, SeeInactive, LookAgain
  <2> QED
    BY <2>1, <2>2 DEF RollInv, WaitOK, wait
<1>6. CASE SeeProgress
  BY <1>6 DEF SeeProgress, aws, run, RollInv, WaitOK, Latest
<1>7. CASE Ecs(RollOut) \/ Ecs(TaskFails) \/ Ecs(Trip) \/ Ecs(Drain) \/ Ecs(Purge)
  BY <1>7 DEF Ecs, RollInv, WaitOK, Latest
<1>8. CASE People
  BY <1>8 DEF People, Others, RollInv, WaitOK
<1>9. CASE UNCHANGED vars
  BY <1>9 DEF vars, aws, run, wait, RollInv, WaitOK, Latest
<1> QED
  BY <1>1, <1>2, <1>3, <1>4, <1>5, <1>6, <1>7, <1>8, <1>9 DEF Next, Progress, Settle, Trouble

LEMMA NewHolds ==
  ASSUME RollInv, [Next]_vars
  PROVE  NewOK'
<1>1. ASSUME asked' = "none" PROVE NewOK'
  BY <1>1 DEF NewOK
<1>2. CASE Apply \/ Destroy \/ People
  BY <1>1, <1>2 DEF Apply, Destroy, Begin, People, Others
<1>3. CASE Refused \/ GiveUp \/ Fail
  <2>1. asked' = "none"
    BY <1>3 DEF Refused, GiveUp, Fail, End
  <2> QED
    BY <1>1, <2>1
<1>4. CASE BeginWait \/ SeeFailure \/ SeeDeployed \/ SeeMissing \/ WaitTimesOut
           \/ Succeed \/ SeeInactive \/ LookAgain \/ SeeProgress \/ UNCHANGED vars
  <2>1. UNCHANGED <<aws, asked>>
    BY <1>4 DEF BeginWait, SeeFailure, SeeDeployed, SeeMissing, WaitTimesOut, EndWait,
                Succeed, End, SeeInactive, LookAgain, SeeProgress, vars
  <2>2. op' = "destroy" => op = "destroy"
    BY <1>4 DEF BeginWait, SeeFailure, SeeDeployed, SeeMissing, WaitTimesOut, EndWait,
                Succeed, End, SeeInactive, LookAgain, SeeProgress, vars, run
  <2> QED
    BY <2>1, <2>2 DEF RollInv, NewOK, aws, Latest
<1>5. CASE MakeCall
  <2> DEFINE call == Head(todo)
  <2>1. /\ call \in ApplyCalls \cup DestroyCalls /\ Accepts(call)
        /\ service' = Performed(call) /\ UNCHANGED <<taskDef, op>>
        /\ asked' = Asked(call)
        /\ op = "destroy" => call \in DestroyCalls
        /\ op # "destroy" => call \in ApplyCalls
        /\ ShapeOK
    BY <1>5, CallAtHead DEF MakeCall, Perform, RollInv
  <2>2. Latest' = Latest
    BY <2>1 DEF Latest
  <2> HIDE DEF call
  <2>3. CASE ~ Redeployed(call)
    <3>1. asked' = asked
      BY <2>1, <2>3 DEF Asked
    <3>2. service'.primary = service.primary /\ service'.good = service.good
          /\ (op # "destroy" => service'.status = service.status)
      BY <2>1, <2>3, RedeployFacts DEF ApplyCalls
    <3> QED
      BY <2>1, <2>2, <3>1, <3>2 DEF RollInv, NewOK
  <2>4. CASE Redeployed(call)
    <3>1. op # "destroy"
      BY <2>1, <2>4, RedeployFacts DEF DestroyCalls
    <3>2. asked' = "new" => service'.primary.template.revision = Latest
                            /\ service.good.revision # Latest
      BY <2>1, <2>4 DEF Asked
    <3>3. /\ service'.status = "active" /\ service'.primary.by = "user"
          /\ service'.good = service.good \/ (service'.good = NoTemplate /\ Latest # 0)
      BY <2>1, <2>4, RedeployFacts
    <3> QED
      BY <2>1, <2>2, <3>1, <3>2, <3>3 DEF NewOK, NoTemplate
  <2> QED
    BY <2>3, <2>4
<1>6. CASE Ecs(RollOut) \/ Ecs(TaskFails) \/ Ecs(Trip) \/ Ecs(Drain) \/ Ecs(Purge)
  <2>1. UNCHANGED <<taskDef, op, asked>> /\ (RollOut \/ TaskFails \/ Trip \/ Drain \/ Purge)
    BY <1>6 DEF Ecs
  <2>2. CASE asked = "new"
    BY <2>1, <2>2, EcsKeepsNew DEF RollInv, NewOK
  <2>3. CASE asked # "new"
    BY <2>1, <2>3 DEF NewOK
  <2> QED
    BY <2>2, <2>3
<1> QED
  BY <1>2, <1>3, <1>4, <1>5, <1>6 DEF Next, Progress, Settle, Trouble

LEMMA ReportHolds ==
  ASSUME RollInv, [Next]_vars
  PROVE  RollBackIsReported'
<1>1. ASSUME verdict' # "deployed" \/ asked' = "none" PROVE RollBackIsReported'
  BY <1>1 DEF RollBackIsReported
<1>2. CASE Apply \/ Destroy \/ People
  BY <1>1, <1>2 DEF Apply, Destroy, Begin, People, Others
<1>3. CASE MakeCall \/ Refused \/ GiveUp \/ Succeed \/ Fail \/ SeeInactive \/ LookAgain
  <2>1. op \in {"apply", "destroy"} /\ UNCHANGED verdict
    BY <1>3, CallAtHead DEF MakeCall, Refused, GiveUp, Calling, Succeed, Fail, SeeInactive,
                            LookAgain, End, wait, RollInv
  <2> QED
    BY <1>1, <2>1 DEF RollInv, WaitOK
<1>4. CASE BeginWait
  <2>1. verdict' = verdict \/ verdict' = "failed"
    BY <1>4 DEF BeginWait
  <2>2. verdict = "none"
    BY <1>4 DEF BeginWait, RollInv, WaitOK
  <2> QED
    BY <1>1, <2>1, <2>2
<1>5. CASE SeeFailure \/ WaitTimesOut
  BY <1>1, <1>5 DEF SeeFailure, WaitTimesOut, EndWait
<1>6. CASE SeeProgress \/ UNCHANGED vars
  BY <1>6 DEF SeeProgress, vars, aws, wait, RollInv, RollBackIsReported
<1>7. CASE SeeDeployed
  <2>1. /\ UNCHANGED <<aws, asked>> /\ op = "wait"
        /\ service.primary.rollout = "completed" /\ service.primary.template.revision = want
    BY <1>7 DEF SeeDeployed, EndWait, Describes, Steady, IsWanted
  <2> QED
    BY <2>1 DEF aws, RollInv, WaitOK, NewOK, RollBackIsReported
<1>8. CASE SeeMissing
  <2>1. asked' # "new"
    BY <1>8 DEF SeeMissing, EndWait, RollInv, NewOK
  <2> QED
    BY <2>1 DEF RollBackIsReported
<1>9. CASE Ecs(RollOut) \/ Ecs(TaskFails) \/ Ecs(Trip) \/ Ecs(Drain) \/ Ecs(Purge)
  <2>1. UNCHANGED <<taskDef, op, asked, verdict>> /\ (RollOut \/ TaskFails \/ Trip \/ Drain \/ Purge)
    BY <1>9 DEF Ecs
  <2>2. CASE asked = "new" /\ verdict = "deployed"
    <3>1. Steady /\ op # "destroy"
      BY <2>2 DEF RollInv, RollBackIsReported, WaitOK, NewOK, Steady
    <3>2. UNCHANGED service
      BY <2>1, <2>2, <3>1, EcsKeepsNew DEF RollInv
    <3> QED
      BY <2>1, <3>2 DEF RollInv, RollBackIsReported
  <2>3. CASE ~ (asked = "new" /\ verdict = "deployed")
    BY <2>1, <2>3 DEF RollBackIsReported
  <2> QED
    BY <2>2, <2>3
<1> QED
  BY <1>2, <1>3, <1>4, <1>5, <1>6, <1>7, <1>8, <1>9 DEF Next, Progress, Settle, Trouble

LEMMA RollInvariant == Spec => []RollInv
<1>1. Init => RollInv
  <2> SUFFICES ASSUME Init PROVE RollInv
    OBVIOUS
  <2>1. 1 \in Revisions
    BY BoundsType DEF Revisions
  <2>2. ShapeOK
    BY <2>1, DefinitionsType, NoServiceType DEF Init, ShapeOK
  <2> QED
    BY <2>2 DEF Init, RollInv, CallsOK, WaitOK, NewOK, RollBackIsReported
<1>2. RollInv /\ [Next]_vars => RollInv'
  BY ShapeHolds, CallsHold, WaitHolds, NewHolds, ReportHolds DEF RollInv
<1> QED
  BY <1>1, <1>2, PTL DEF Spec

\* If nobody else acts, a Wait that ends well has followed a deployment of a revision
\* that was not steady before to its end: ECS has not rolled it back.
THEOREM RollBacksAreReported == Spec => []RollBackIsReported
<1>1. RollInv => RollBackIsReported
  BY DEF RollInv
<1> QED
  BY <1>1, RollInvariant, PTL

-----------------------------------------------------------------------------
(* The contract of the graph walks *)

\* The service differs from its definition in nothing but S.
OnlyIn(S) ==
    /\ service.launch = "wanted" \/ "launch" \in S
    /\ service.primary.template.revision = Latest \/ "task" \in S
    /\ service.primary.template.network = "wanted" \/ "network" \in S
    /\ (service.breaker = definition.breaker /\ service.status # "draining") \/ "breaker" \in S
    /\ service.scaling = (IF definition.scaling THEN "wanted" ELSE "none") \/ "scaling" \in S
    /\ service.primary.rollout # "failed" \/ "failed" \in S

\* The calls s bring the autoscaling to what is defined.
Suits(s) ==
    \/ s = << >> /\ service.scaling = IF definition.scaling THEN "wanted" ELSE "none"
    \/ s = <<Call("register"), Call("policies")>> /\ definition.scaling
    \/ s = <<Call("policies")>> /\ definition.scaling /\ service.scaling # "none"
    \/ s = <<Call("deregister")>> /\ ~ definition.scaling

\* What an update mends besides the autoscaling, which its caller sees to next.
Covered(sets) ==
    (sets \ {"force"}) \cup {"scaling"} \cup IF "force" \in sets THEN {"failed"} ELSE {}

\* The calls s, if they are made, bring the service to what is defined.
Promising(s) ==
    \/ Exists /\ OnlyIn({"scaling"}) /\ Suits(s)
    \/ /\ Exists
       /\ \E sets \in CallSets, r \in Seq(ApplyCalls) :
              s = <<UpdateCall(sets)>> \o r /\ Suits(r) /\ OnlyIn(Covered(sets))
    \/ s = <<Call("create")>>
           \o IF definition.scaling THEN <<Call("register"), Call("policies")>> ELSE << >>
    \/ s = <<Call("refuse")>>

OnTheWay ==
    \/ Promising(todo)
    \/ \E s \in Seq(ApplyCalls) : todo = <<Call("lookup")>> \o s /\ Promising(s)

\* An Apply and a Destroy that nobody disturbs have their goal ahead.
WorkOK ==
    /\ op = "apply" /\ ~ touched => OnTheWay
    /\ op = "destroy" /\ ~ touched =>
           /\ todo \in {<< >>, <<Call("look")>>, <<Call("delete"), Call("look")>>}
           /\ todo = << >> => ~ Exists

LEMMA DiffsFacts ==
  /\ \A S : Diffs \subseteq S <=> OnlyIn(S)
  /\ \A S : Diffs' \subseteq S <=> OnlyIn(S)'
<1> DEFINE Fields == {"launch", "task", "network", "breaker", "scaling", "failed"}
<1>1. DOMAIN Differs = Fields /\ DOMAIN Differs' = Fields
  BY DEF Differs
<1>2. /\ Differs["launch"] <=> service.launch # "wanted"
      /\ Differs["task"] <=> service.primary.template.revision # Latest
      /\ Differs["network"] <=> service.primary.template.network # "wanted"
      /\ Differs["breaker"] <=> service.breaker # definition.breaker \/ service.status = "draining"
      /\ Differs["scaling"] <=>
             service.scaling # IF definition.scaling THEN "wanted" ELSE "none"
      /\ Differs["failed"] <=> service.primary.rollout = "failed"
  BY DEF Differs
<1>3. (/\ Differs["launch"] <=> service.launch # "wanted"
       /\ Differs["task"] <=> service.primary.template.revision # Latest
       /\ Differs["network"] <=> service.primary.template.network # "wanted"
       /\ Differs["breaker"] <=> service.breaker # definition.breaker \/ service.status = "draining"
       /\ Differs["scaling"] <=>
              service.scaling # IF definition.scaling THEN "wanted" ELSE "none"
       /\ Differs["failed"] <=> service.primary.rollout = "failed")'
  BY DEF Differs
<1>4. \A S : Diffs \subseteq S <=> \A d \in Fields : Differs[d] => d \in S
  BY <1>1 DEF Diffs
<1>5. \A S : Diffs' \subseteq S <=> \A d \in Fields : Differs'[d] => d \in S
  BY <1>1 DEF Diffs
<1>6. \A S : Diffs \subseteq S <=> OnlyIn(S)
  BY <1>2, <1>4 DEF OnlyIn
<1>7. \A S : Diffs' \subseteq S <=> OnlyIn(S)'
  BY <1>3, <1>5 DEF OnlyIn
<1> QED
  BY <1>6, <1>7

LEMMA ConditionFacts ==
  /\ Condition = IF ~ Exists THEN "absent" ELSE IF OnlyIn({}) THEN "matching" ELSE "drifted"
  /\ Condition' = IF ~ Exists' THEN "absent" ELSE IF OnlyIn({})' THEN "matching" ELSE "drifted"
<1>1. (Diffs = {} <=> OnlyIn({})) /\ (Diffs' = {} <=> OnlyIn({})')
  <2>1. (Diffs \subseteq {} <=> OnlyIn({})) /\ (Diffs' \subseteq {} <=> OnlyIn({})')
    BY DiffsFacts
  <2> QED
    BY <2>1
<1> QED
  BY <1>1 DEF Condition

\* A step that leaves what Compare looks at alone keeps the promise of the calls.
LEMMA PromiseKept ==
  ASSUME NEW s, Promising(s), UNCHANGED <<definition, taskDef>>,
         Exists => /\ Exists'
                   /\ service'.status = service.status
                   /\ service'.launch = service.launch
                   /\ service'.breaker = service.breaker
                   /\ service'.scaling = service.scaling
                   /\ service'.primary.template = service.primary.template
                   /\ service'.primary.rollout = "failed" => service.primary.rollout = "failed"
  PROVE  Promising(s)'
<1>1. CASE Exists /\ OnlyIn({"scaling"}) /\ Suits(s)
  <2>1. Exists' /\ OnlyIn({"scaling"})'
    BY <1>1 DEF OnlyIn, Latest
  <2>2. Suits(s)'
    BY <1>1 DEF Suits
  <2> QED
    BY <2>1, <2>2 DEF Promising
<1>2. CASE /\ Exists
           /\ \E sets \in CallSets, r \in Seq(ApplyCalls) :
                  s = <<UpdateCall(sets)>> \o r /\ Suits(r) /\ OnlyIn(Covered(sets))
  <2>1. PICK sets \in CallSets, r \in Seq(ApplyCalls) :
            s = <<UpdateCall(sets)>> \o r /\ Suits(r) /\ OnlyIn(Covered(sets))
    BY <1>2
  <2>2. Exists' /\ OnlyIn(Covered(sets))'
    BY <1>2, <2>1 DEF OnlyIn, Latest
  <2>3. Suits(r)'
    BY <1>2, <2>1 DEF Suits
  <2> QED
    BY <2>1, <2>2, <2>3 DEF Promising
<1>3. CASE \/ s = <<Call("create")>>
                  \o IF definition.scaling THEN <<Call("register"), Call("policies")>> ELSE << >>
           \/ s = <<Call("refuse")>>
  BY <1>3 DEF Promising
<1> QED
  BY <1>1, <1>2, <1>3 DEF Promising

\* An Apply sets out for what is defined.
LEMMA BeginPromises ==
  ASSUME ShapeOK, Apply
  PROVE  OnTheWay'
<1> DEFINE sets == (Diffs \cap {"task", "network", "breaker"})
                   \cup IF definition.force \/ "failed" \in Diffs THEN {"force"} ELSE {}
           rest == IF "scaling" \in Diffs THEN ScalingCalls ELSE << >>
           tail == IF definition.scaling THEN <<Call("register"), Call("policies")>> ELSE << >>
<1>1. /\ todo' = IF Exists THEN Update ELSE Creation
      /\ UNCHANGED <<definition, taskDef, service>>
  BY DEF Apply, Begin, aws
<1>2. /\ Call("lookup") \in ApplyCalls /\ UpdateCall(sets) \in ApplyCalls
      /\ Call("register") \in ApplyCalls /\ Call("policies") \in ApplyCalls
      /\ Call("deregister") \in ApplyCalls /\ Call("refuse") \in ApplyCalls
      /\ Call("create") \in ApplyCalls /\ sets \in CallSets
  BY CallTypes DEF CallSets
<1>3. rest \in Seq(ApplyCalls) /\ Suits(rest)
  <2>1. CASE "scaling" \notin Diffs
    <3>1. Diffs \subseteq DOMAIN Differs \ {"scaling"}
      BY <2>1 DEF Diffs
    <3>2. OnlyIn(DOMAIN Differs \ {"scaling"})
      BY <3>1, DiffsFacts
    <3>3. service.scaling = IF definition.scaling THEN "wanted" ELSE "none"
      BY <3>2 DEF OnlyIn
    <3> QED
      BY <2>1, <3>3 DEF Suits
  <2>2. CASE "scaling" \in Diffs /\ ~ definition.scaling
    BY <1>2, <2>2 DEF ScalingCalls, Suits
  <2>3. CASE "scaling" \in Diffs /\ definition.scaling
    <3>1. service.scaling \in {"none", "target"}
      BY <2>3 DEF Diffs, Differs, ShapeOK, Services, Scalings
    <3> QED
      BY <1>2, <2>3, <3>1 DEF ScalingCalls, Suits
  <2> QED
    BY <2>1, <2>2, <2>3
<1>4. \A s \in Seq(ApplyCalls) :
          todo' = <<Call("lookup")>> \o s /\ Promising(s) => OnTheWay'
  <2> TAKE s \in Seq(ApplyCalls)
  <2> HAVE todo' = <<Call("lookup")>> \o s /\ Promising(s)
  <2>1. Exists' <=> Exists
    BY <1>1 DEF Exists
  <2>2. Promising(s)'
    BY <1>1, <2>1, PromiseKept
  <2> QED
    BY <2>2 DEF OnTheWay
<1>5. CASE ~ Exists
  <2>1. tail \in Seq(ApplyCalls)
    BY <1>2
  <2>2. todo' = <<Call("lookup")>> \o (<<Call("create")>> \o tail)
    <3>1. \A s \in Seq(ApplyCalls) :
              <<Call("lookup"), Call("create")>> \o s
                  = <<Call("lookup")>> \o (<<Call("create")>> \o s)
      BY <1>2, LookThen
    <3> HIDE DEF tail
    <3>2. <<Call("lookup"), Call("create")>> \o tail
              = <<Call("lookup")>> \o (<<Call("create")>> \o tail)
      BY <2>1, <3>1
    <3> QED
      BY <1>1, <1>5, <3>2 DEF Creation, tail
  <2>3. <<Call("create")>> \o tail \in Seq(ApplyCalls)
    <3> HIDE DEF tail
    <3> QED
      BY <1>2, <2>1, ConsFacts
  <2>4. Promising(<<Call("create")>> \o tail)
    BY DEF Promising
  <2> QED
    BY <1>4, <2>2, <2>3, <2>4
<1>6. CASE Exists /\ "launch" \in Diffs
  <2>1. todo' = <<Call("lookup"), Call("refuse")>>
    BY <1>1, <1>6 DEF Update
  <2>2. <<Call("lookup"), Call("refuse")>> = <<Call("lookup")>> \o <<Call("refuse")>>
    <3>1. Append(<<Call("lookup")>>, Call("refuse")) = <<Call("lookup")>> \o <<Call("refuse")>>
      BY <1>2, AppendIsConcat
    <3> QED
      BY <3>1, OneMoreCall
  <2>3. <<Call("refuse")>> \in Seq(ApplyCalls) /\ Promising(<<Call("refuse")>>)
    BY <1>2 DEF Promising
  <2> QED
    BY <1>4, <2>1, <2>2, <2>3
<1>7. CASE Exists /\ "launch" \notin Diffs /\ Diffs = {} /\ ~ definition.force
  <2>1. todo' = <<Call("lookup")>>
    BY <1>1, <1>7 DEF Update
  <2>2. <<Call("lookup")>> = <<Call("lookup")>> \o << >>
    BY <1>2, ConcatEmptySeq
  <2>3. OnlyIn({"scaling"}) /\ Suits(<< >>)
    <3>1. OnlyIn({})
      BY <1>7, DiffsFacts
    <3> QED
      BY <3>1 DEF OnlyIn, Suits
  <2>4. << >> \in Seq(ApplyCalls) /\ Promising(<< >>)
    BY <1>7, <2>3 DEF Promising
  <2> QED
    BY <1>4, <2>1, <2>2, <2>4
<1>8. CASE Exists /\ "launch" \notin Diffs /\ ~ (Diffs = {} /\ ~ definition.force)
  <2>1. todo' = <<Call("lookup"), UpdateCall(sets)>> \o rest
    BY <1>1, <1>8, Zenon DEF Update
  <2> DEFINE u == <<UpdateCall(sets)>> \o rest
  <2>2. OnlyIn(Covered(sets))
    <3>1. Diffs \subseteq Covered(sets)
      BY <1>8 DEF Diffs, Differs, Covered
    <3> QED
      BY <3>1, DiffsFacts
  <2>3. Promising(u)
    BY <1>2, <1>3, <1>8, <2>2 DEF Promising
  <2> HIDE DEF sets, rest
  <2>4. u \in Seq(ApplyCalls)
    BY <1>2, <1>3, ConsFacts
  <2>5. todo' = <<Call("lookup")>> \o u
    <3>1. \A c \in ApplyCalls, s \in Seq(ApplyCalls) :
              <<Call("lookup"), c>> \o s = <<Call("lookup")>> \o (<<c>> \o s)
      BY <1>2, LookThen
    <3> QED
      BY <1>2, <1>3, <2>1, <3>1
  <2> HIDE DEF u
  <2> QED
    BY <1>4, <2>3, <2>4, <2>5
<1> QED
  BY <1>5, <1>6, <1>7, <1>8

\* A call that AWS performs keeps the promise of the others.
LEMMA CallKeepsPromise ==
  ASSUME ShapeOK, CallsOK, OnTheWay, op = "apply", MakeCall
  PROVE  OnTheWay'
<1> DEFINE first == Head(todo)
<1>1. /\ todo # << >> /\ todo' = Tail(todo) /\ Accepts(Head(todo))
      /\ service' = Performed(Head(todo)) /\ UNCHANGED <<definition, taskDef>>
  BY DEF MakeCall, Perform
<1>2. service \in Services /\ service.primary \in Deployments
  BY DEF ShapeOK, Services
<1>3. Latest' = Latest
  BY <1>1 DEF Latest
<1>4. \A c \in ApplyCalls, s \in Seq(ApplyCalls) :
          Head(<<c>> \o s) = c /\ Tail(<<c>> \o s) = s
  BY ConsFacts
<1>5. \A sets \in CallSets : UpdateCall(sets) \in ApplyCalls
  BY CallTypes
<1>6. CASE \E s \in Seq(ApplyCalls) : todo = <<Call("lookup")>> \o s /\ Promising(s)
  <2>1. PICK s \in Seq(ApplyCalls) : todo = <<Call("lookup")>> \o s /\ Promising(s)
    BY <1>6
  <2>2. Head(todo) = Call("lookup") /\ todo' = s
    BY <1>1, <1>4, <2>1, CallTypes
  <2>3. UNCHANGED service
    BY <1>1, <2>2 DEF Performed, Call
  <2>4. Exists' <=> Exists
    BY <2>3 DEF Exists
  <2>5. Promising(s)'
    BY <1>1, <2>1, <2>3, <2>4, PromiseKept
  <2> QED
    BY <2>2, <2>5 DEF OnTheWay, Promising, Suits
<1>7. CASE Exists /\ OnlyIn({"scaling"}) /\ Suits(todo)
  <2>1. \/ todo = <<Call("register"), Call("policies")>> /\ definition.scaling
        \/ todo = <<Call("policies")>> /\ definition.scaling /\ service.scaling # "none"
        \/ todo = <<Call("deregister")>> /\ ~ definition.scaling
    BY <1>1, <1>7 DEF Suits
  <2>2. PICK a \in Scalings : service' = [service EXCEPT !.scaling = a]
    <3>1. Head(todo) \in {Call("register"), Call("policies"), Call("deregister")}
      BY <2>1
    <3> QED
      BY <1>1, <1>2, <3>1 DEF Performed, Call, Services, Scalings
  <2>3. Exists' /\ OnlyIn({"scaling"})'
    BY <1>1, <1>2, <1>3, <1>7, <2>2 DEF Exists, OnlyIn, Services
  <2>4. Suits(todo)'
    <3>1. CASE todo = <<Call("register"), Call("policies")>> /\ definition.scaling
      <4>1. Head(todo) = Call("register") /\ todo' = <<Call("policies")>>
        BY <1>1, <3>1
      <4>2. service'.scaling # "none"
        BY <1>1, <1>2, <4>1 DEF Performed, Call, Services
      <4> QED
        BY <1>1, <3>1, <4>1, <4>2 DEF Suits
    <3>2. CASE todo = <<Call("policies")>> /\ definition.scaling /\ service.scaling # "none"
      <4>1. Head(todo) = Call("policies") /\ todo' = << >>
        BY <1>1, <3>2
      <4>2. service'.scaling = "wanted"
        BY <1>1, <1>2, <3>2, <4>1 DEF Performed, Call, Services, Scalings
      <4> QED
        BY <1>1, <3>2, <4>1, <4>2 DEF Suits
    <3>3. CASE todo = <<Call("deregister")>> /\ ~ definition.scaling
      <4>1. Head(todo) = Call("deregister") /\ todo' = << >>
        BY <1>1, <3>3
      <4>2. service'.scaling = "none"
        BY <1>1, <1>2, <4>1 DEF Performed, Call, Services
      <4> QED
        BY <1>1, <3>3, <4>1, <4>2 DEF Suits
    <3> QED
      BY <2>1, <3>1, <3>2, <3>3
  <2> QED
    BY <2>3, <2>4 DEF OnTheWay, Promising
<1>8. CASE /\ Exists
           /\ \E sets \in CallSets, r \in Seq(ApplyCalls) :
                  todo = <<UpdateCall(sets)>> \o r /\ Suits(r) /\ OnlyIn(Covered(sets))
  <2>1. PICK sets \in CallSets, r \in Seq(ApplyCalls) :
            todo = <<UpdateCall(sets)>> \o r /\ Suits(r) /\ OnlyIn(Covered(sets))
    BY <1>8
  <2>2. Head(todo) = UpdateCall(sets) /\ todo' = r
    BY <1>4, <1>5, <1>1, <2>1
  <2>3. service' = Updated(UpdateCall(sets)) /\ service.status = "active"
    BY <1>1, <2>2 DEF Performed, Accepts, UpdateCall
  <2> DEFINE old == service.primary.template
             template == [revision |-> IF "task" \in sets THEN Latest ELSE old.revision,
                          network  |-> IF "network" \in sets THEN "wanted" ELSE old.network]
             again == template # old \/ "force" \in sets
  <2>4. /\ service'.status = "active" /\ service'.launch = service.launch
        /\ service'.scaling = service.scaling
        /\ service'.breaker = IF "breaker" \in sets THEN definition.breaker ELSE service.breaker
        /\ service'.primary = IF again THEN Deployment(template, "user") ELSE service.primary
    BY <1>2, <2>3 DEF Updated, UpdateCall, Services
  <2>5. /\ service'.primary.template = template
        /\ service'.primary.rollout = IF again THEN "progress" ELSE service.primary.rollout
    <3>1. /\ Deployment(template, "user").template = template
          /\ Deployment(template, "user").rollout = "progress"
      BY DEF Deployment
    <3> HIDE DEF template
    <3> QED
      BY <2>4, <3>1
  <2>6. Exists' /\ OnlyIn({"scaling"})'
    <3>1. template.revision = Latest
      BY <2>1 DEF OnlyIn, Covered
    <3>2. template.network = "wanted"
      BY <2>1 DEF OnlyIn, Covered
    <3>3. service'.breaker = definition.breaker
      BY <2>1, <2>4 DEF OnlyIn, Covered
    <3>4. service'.launch = "wanted"
      BY <2>1, <2>4 DEF OnlyIn, Covered, CallSets
    <3>5. service'.primary.rollout # "failed"
      BY <2>1, <2>5 DEF OnlyIn, Covered, CallSets
    <3> HIDE DEF template
    <3> QED
      BY <1>1, <1>3, <2>4, <2>5, <3>1, <3>2, <3>3, <3>4, <3>5 DEF OnlyIn, Exists
  <2>7. Suits(r)'
    BY <1>1, <2>1, <2>4 DEF Suits
  <2> QED
    BY <2>2, <2>6, <2>7 DEF OnTheWay, Promising, Suits
<1>9. CASE todo = <<Call("create")>>
               \o IF definition.scaling THEN <<Call("register"), Call("policies")>> ELSE << >>
  <2> DEFINE r == IF definition.scaling THEN <<Call("register"), Call("policies")>> ELSE << >>
  <2>1. r \in Seq(ApplyCalls)
    BY CallTypes
  <2>2. Head(todo) = Call("create") /\ todo' = r
    <3> HIDE DEF r
    <3>1. todo = <<Call("create")>> \o r
      BY <1>9 DEF r
    <3> QED
      BY <1>1, <1>4, <2>1, <3>1, CallTypes
  <2> DEFINE d == Deployment([revision |-> Latest, network |-> "wanted"], "user")
  <2>3. service' = [NoService EXCEPT !.status = "active", !.breaker = definition.breaker,
                                     !.primary = d]
    BY <1>1, <2>2 DEF Performed, Call
  <2>4. /\ service'.status = "active" /\ service'.breaker = definition.breaker
        /\ service'.launch = "wanted" /\ service'.scaling = "none"
        /\ service'.primary = d
    BY <2>3 DEF NoService
  <2>5. /\ d.template.revision = Latest /\ d.template.network = "wanted"
        /\ d.rollout = "progress"
    BY DEF Deployment
  <2> HIDE DEF d
  <2>6. Exists' /\ OnlyIn({"scaling"})'
    BY <1>1, <1>3, <2>4, <2>5 DEF Exists, OnlyIn
  <2>7. Suits(todo)'
    BY <1>1, <2>2, <2>4 DEF Suits
  <2> QED
    BY <2>6, <2>7 DEF OnTheWay, Promising
<1>10. todo # <<Call("refuse")>>
  BY <1>1 DEF Accepts, Call
<1> QED
  BY <1>6, <1>7, <1>8, <1>9, <1>10 DEF OnTheWay, Promising

\* Where ECS takes a service that is being applied: nowhere Compare looks.
LEMMA QuietStep ==
  ASSUME ShapeOK, RollOut \/ TaskFails
  PROVE  /\ Exists /\ Exists'
         /\ service'.status = service.status
         /\ service'.launch = service.launch
         /\ service'.breaker = service.breaker
         /\ service'.scaling = service.scaling
         /\ service'.primary.template = service.primary.template
         /\ service'.primary.rollout # "failed" /\ service.primary.rollout # "failed"
<1>1. service \in Services /\ service.primary \in Deployments
  BY DEF ShapeOK, Services
<1>2. CASE RollOut
  <2>1. service' = [service EXCEPT !.primary = [service.primary EXCEPT !.rollout = "completed"],
                                   !.good = service.primary.template]
    BY <1>1, <1>2 DEF RollOut, Services
  <2>2. service'.primary = [service.primary EXCEPT !.rollout = "completed"]
        /\ service'.status = service.status /\ service'.launch = service.launch
        /\ service'.breaker = service.breaker /\ service'.scaling = service.scaling
    BY <1>1, <2>1 DEF Services
  <2> QED
    BY <1>1, <1>2, <2>2 DEF RollOut, Rolling, Exists, Deployments
<1>3. CASE TaskFails
  <2>1. service' = [service EXCEPT !.primary = [service.primary EXCEPT !.failing = TRUE]]
    BY <1>1, <1>3 DEF TaskFails, Services
  <2>2. service'.primary = [service.primary EXCEPT !.failing = TRUE]
        /\ service'.status = service.status /\ service'.launch = service.launch
        /\ service'.breaker = service.breaker /\ service'.scaling = service.scaling
    BY <1>1, <2>1 DEF Services
  <2> QED
    BY <1>1, <1>3, <2>2 DEF TaskFails, Rolling, Exists, Deployments
<1> QED
  BY <1>2, <1>3

LEMMA WayKept ==
  ASSUME OnTheWay, UNCHANGED <<definition, taskDef, todo>>,
         Exists => /\ Exists'
                   /\ service'.status = service.status
                   /\ service'.launch = service.launch
                   /\ service'.breaker = service.breaker
                   /\ service'.scaling = service.scaling
                   /\ service'.primary.template = service.primary.template
                   /\ service'.primary.rollout = "failed" => service.primary.rollout = "failed"
  PROVE  OnTheWay'
<1>1. \A s : Promising(s) => Promising(s)'
  BY PromiseKept
<1>2. PICK t : t = todo
  OBVIOUS
<1>3. CASE Promising(todo)
  <2>1. Promising(t)'
    BY <1>1, <1>2, <1>3
  <2>2. todo' = t
    BY <1>2
  <2> QED
    BY <2>1, <2>2 DEF OnTheWay, Promising, Suits
<1>4. CASE \E s \in Seq(ApplyCalls) : todo = <<Call("lookup")>> \o s /\ Promising(s)
  BY <1>1, <1>4 DEF OnTheWay
<1> QED
  BY <1>3, <1>4 DEF OnTheWay

LEMMA WorkHolds ==
  ASSUME RollInv, WorkOK, [Next]_vars
  PROVE  WorkOK'
<1> USE DEF RollInv
<1>1. ASSUME op' \notin {"apply", "destroy"} \/ touched'
      PROVE  WorkOK'
  BY <1>1 DEF WorkOK
<1>2. CASE Apply
  <2>1. op' = "apply" /\ OnTheWay'
    BY <1>2, BeginPromises DEF Apply, Begin
  <2> QED
    BY <2>1 DEF WorkOK
<1>3. CASE Destroy
  <2>1. op' = "destroy" /\ UNCHANGED service
        /\ todo' = IF Exists THEN <<Call("delete"), Call("look")>> ELSE << >>
    BY <1>3 DEF Destroy, Begin, aws
  <2> QED
    BY <2>1 DEF WorkOK, Exists
<1>4. CASE BeginWait
  <2>1. op' \in {"none", "wait"}
    BY <1>4 DEF BeginWait
  <2> QED
    BY <1>1, <2>1
<1>5. CASE \/ Refused \/ GiveUp \/ Succeed \/ Fail
           \/ SeeFailure \/ SeeDeployed \/ SeeMissing \/ WaitTimesOut
  <2>1. op' = "none"
    BY <1>5 DEF Refused, GiveUp, Succeed, Fail, End,
                SeeFailure, SeeDeployed, SeeMissing, WaitTimesOut, EndWait
  <2> QED
    BY <1>1, <2>1
<1>6. CASE MakeCall
  <2>1. UNCHANGED <<op, touched>> /\ todo # << >>
        /\ Head(todo).op # "look" /\ todo' = Tail(todo)
    BY <1>6 DEF MakeCall
  <2>2. CASE op = "apply" /\ ~ touched
    <3>1. OnTheWay'
      BY <1>6, <2>2, CallKeepsPromise DEF WorkOK
    <3> QED
      BY <2>1, <2>2, <3>1 DEF WorkOK
  <2>3. CASE op = "destroy" /\ ~ touched
    <3>1. todo = <<Call("delete"), Call("look")>>
      BY <2>1, <2>3 DEF WorkOK, Call
    <3>2. todo' = <<Call("look")>>
      BY <2>1, <3>1
    <3>3. todo' # << >>
      BY <3>2
    <3> QED
      BY <2>1, <2>3, <3>2, <3>3, Zenon DEF WorkOK, Call
  <2> QED
    BY <2>1, <2>2, <2>3 DEF WorkOK
<1>7. CASE SeeInactive
  <2>1. /\ UNCHANGED <<op, touched, service>> /\ todo # << >>
        /\ Head(todo).op = "look" /\ todo' = Tail(todo) /\ ~ Exists
    BY <1>7 DEF SeeInactive, Calling, aws
  <2>2. op # "apply"
    BY <2>1, CallAtHead DEF ApplyCalls
  <2>3. ASSUME op = "destroy", ~ touched PROVE todo' = << >>
    <3>1. todo = <<Call("look")>>
      <4>1. todo = <<Call("delete"), Call("look")>> => Head(todo) = Call("delete")
        OBVIOUS
      <4> QED
        BY <2>1, <2>3, <4>1 DEF WorkOK, Call
    <3> QED
      BY <2>1, <3>1
  <2> QED
    BY <2>1, <2>2, <2>3 DEF WorkOK, Exists
<1>8. CASE LookAgain \/ SeeProgress \/ UNCHANGED vars
  <2>1. UNCHANGED <<definition, aws, op, touched, todo>>
    BY <1>8 DEF LookAgain, SeeProgress, vars, run
  <2>2. OnTheWay => OnTheWay'
    <3>1. Exists' <=> Exists
      BY <2>1 DEF aws, Exists
    <3> QED
      BY <2>1, <3>1, WayKept DEF aws
  <2> QED
    BY <2>1, <2>2 DEF WorkOK, aws, Exists
<1>9. CASE Ecs(RollOut) \/ Ecs(TaskFails)
  <2>1. UNCHANGED <<definition, taskDef, op, touched, todo>> /\ (RollOut \/ TaskFails)
    BY <1>9 DEF Ecs, RollOut, TaskFails, Undisturbing
  <2>2. OnTheWay => OnTheWay'
    BY <2>1, QuietStep, WayKept
  <2>3. Exists
    BY <2>1, QuietStep
  <2> QED
    BY <2>1, <2>2, <2>3 DEF WorkOK
<1>10. CASE Ecs(Purge)
  <2>1. UNCHANGED <<definition, taskDef, op, touched, todo>> /\ ~ Exists /\ ~ Exists'
    BY <1>10 DEF Ecs, Purge, Undisturbing, Exists, NoService
  <2>2. OnTheWay => OnTheWay'
    BY <2>1, WayKept
  <2> QED
    BY <2>1, <2>2 DEF WorkOK
<1>11. CASE Ecs(Drain) /\ op = "destroy"
  <2>1. UNCHANGED <<op, touched, todo>> /\ ~ Exists'
    BY <1>11 DEF Ecs, Drain, Undisturbing, Exists
  <2> QED
    BY <1>11, <2>1 DEF WorkOK
<1>12. CASE People \/ Ecs(Trip) \/ (Ecs(Drain) /\ op # "destroy")
  <2>1. Disturbing /\ UNCHANGED op
    BY <1>12 DEF People, Others, Ecs, Trip, Drain
  <2>2. op \in {"apply", "destroy"} => touched' = TRUE
    BY <2>1, Zenon DEF Disturbing
  <2> QED
    BY <1>1, <2>1, <2>2
<1> QED
  BY <1>2, <1>3, <1>4, <1>5, <1>6, <1>7, <1>8, <1>9, <1>10, <1>11, <1>12
  DEF Next, Progress, Settle, Trouble

\* An Apply never removes the service, and a Destroy never mends it.
LEMMA CallReaches ==
  ASSUME ShapeOK, CallsOK, todo # << >>, Accepts(Head(todo)), Perform(Head(todo)),
         UNCHANGED definition
  PROVE  Condition' \in Promise!Reachable(op)
<1> DEFINE first == Head(todo)
<1>1. /\ service' = Performed(first) /\ Accepts(first) /\ UNCHANGED <<definition, taskDef>>
      /\ service \in Services
  BY DEF Perform, ShapeOK
<1>2. /\ op \in {"apply", "destroy"}
      /\ op = "apply" => first \in ApplyCalls
      /\ op = "destroy" => first \in DestroyCalls
  BY CallAtHead
<1> HIDE DEF first
<1>3. Condition' \in {"absent", "drifted", "matching"}
  BY DEF Condition
<1>4. CASE op = "apply" /\ ~ Exists
  BY <1>3, <1>4, ConditionFacts DEF Promise!Reachable, Promise!Conditions
<1>5. CASE op = "apply" /\ Exists
  <2>1. service'.status = service.status \/ service'.status = "active"
    BY <1>1, <1>2, <1>5, RedeployFacts DEF ApplyCalls
  <2>2. Exists' /\ Condition # "absent"
    BY <1>5, <2>1, ConditionFacts DEF Exists
  <2> QED
    BY <1>5, <2>2, ConditionFacts DEF Promise!Reachable
<1>6. CASE op = "destroy"
  <2>1. Exists
    BY <1>1, <1>2, <1>6 DEF Accepts, DestroyCalls
  <2>2. CASE first.op = "delete"
    <3>1. service'.status = "draining"
      BY <1>1, <2>2 DEF Performed, Services
    <3>2. Condition' = "drifted"
      BY <3>1, ConditionFacts DEF OnlyIn, Exists
    <3> QED
      BY <1>6, <2>1, <3>2, ConditionFacts DEF Promise!Reachable
  <2>3. CASE first.op = "look"
    <3>1. UNCHANGED service
      BY <1>1, <2>3 DEF Performed
    <3>2. Condition' = Condition
      BY <1>1, <3>1 DEF Condition, Diffs, Differs, Exists, Latest
    <3> QED
      BY <1>6, <2>1, <3>2, ConditionFacts DEF Promise!Reachable
  <2> QED
    BY <1>2, <1>6, <2>2, <2>3 DEF DestroyCalls
<1> QED
  BY <1>2, <1>4, <1>5, <1>6

LEMMA SameCondition ==
  UNCHANGED <<definition, taskDef, service>> => Condition' = Condition
BY DEF Condition, Diffs, Differs, Exists, Latest

LEMMA StepKeepsContract ==
  ASSUME RollInv, WorkOK, [Next]_vars
  PROVE  [Promise!Next]_(Promise!contract)
<1> DEFINE running == IF op = "wait" THEN "none" ELSE op
<1>1. ShapeOK /\ CallsOK
  BY DEF RollInv
<1>2. Condition' \in Promise!Conditions
  BY DEF Condition, Promise!Conditions
<1>3. CASE Apply \/ Destroy
  <2>1. PICK c \in {"apply", "destroy"} :
            /\ op = "none" /\ op' = c /\ touched' = FALSE /\ result' = "none"
            /\ UNCHANGED <<definition, taskDef, service>>
    BY <1>3 DEF Apply, Destroy, Begin, aws
  <2>2. Promise!Begin(c)
    BY <2>1, SameCondition DEF Promise!Begin
  <2> QED
    BY <2>2 DEF Promise!Next
<1>4. CASE MakeCall
  <2>1. /\ todo # << >> /\ Accepts(Head(todo)) /\ Perform(Head(todo))
        /\ UNCHANGED <<definition, op, touched, result>>
    BY <1>4 DEF MakeCall
  <2>2. op \in {"apply", "destroy"}
    BY <1>1, <2>1, CallAtHead
  <2>3. Promise!Work
    BY <1>1, <2>1, <2>2, CallReaches DEF Promise!Work
  <2> QED
    BY <2>3 DEF Promise!Next
<1>5. CASE Refused \/ GiveUp \/ Fail
  <2>1. op \in {"apply", "destroy"}
    BY <1>1, <1>5, CallAtHead DEF Refused, GiveUp, Calling, Fail
  <2>2. /\ op' = "none" /\ result' = "error" /\ touched' = FALSE /\ UNCHANGED definition
        /\ \/ UNCHANGED aws
           \/ todo # << >> /\ Accepts(Head(todo)) /\ Perform(Head(todo))
    BY <1>5 DEF Refused, GiveUp, Fail, End
  <2>3. Condition' \in Promise!Reachable(op)
    <3>1. CASE UNCHANGED aws
      <4>1. Condition' = Condition
        BY <2>2, <3>1, SameCondition DEF aws
      <4>2. Condition \in {"absent", "drifted", "matching"}
        BY DEF Condition
      <4> QED
        BY <2>1, <4>1, <4>2 DEF Promise!Reachable, Promise!Conditions
    <3>2. CASE todo # << >> /\ Accepts(Head(todo)) /\ Perform(Head(todo))
      BY <1>1, <2>2, <3>2, CallReaches
    <3> QED
      BY <2>2, <3>1, <3>2
  <2>4. Promise!Fail
    BY <2>1, <2>2, <2>3 DEF Promise!Fail
  <2> QED
    BY <2>4 DEF Promise!Next
<1>6. CASE Succeed
  <2>1. /\ op \in {"apply", "destroy"} /\ todo = << >>
        /\ op' = "none" /\ touched' = FALSE /\ result' = IF touched THEN "none" ELSE op
        /\ UNCHANGED <<definition, taskDef, service>>
    BY <1>6 DEF Succeed, End, aws
  <2>2. Condition' = Condition /\ Condition \in {"absent", "drifted", "matching"}
    BY <2>1, SameCondition DEF Condition
  <2>3. Condition' \in Promise!Reachable(op)
    BY <2>1, <2>2 DEF Promise!Reachable, Promise!Conditions
  <2>4. touched \/ Condition = Promise!Goal(op)
    <3>1. CASE op = "apply" /\ ~ touched
      <4>1. OnTheWay
        BY <3>1 DEF WorkOK
      <4>2. Exists /\ OnlyIn({"scaling"}) /\ Suits(todo)
        <5>1. \A c \in ApplyCalls, s \in Seq(ApplyCalls) : <<c>> \o s # << >>
          BY ConsFacts
        <5>2. \A s \in Seq(ApplyCalls) : todo # <<Call("lookup")>> \o s
          BY <2>1, <5>1, CallTypes
        <5>3. \A sets \in CallSets, r \in Seq(ApplyCalls) : todo # <<UpdateCall(sets)>> \o r
          BY <2>1, <5>1, CallTypes
        <5> DEFINE r == IF definition.scaling THEN <<Call("register"), Call("policies")>> ELSE << >>
        <5>4. r \in Seq(ApplyCalls)
          BY CallTypes
        <5>5. todo # <<Call("create")>> \o r
          <6> HIDE DEF r
          <6> QED
            BY <2>1, <5>1, <5>4, CallTypes
        <5>6. todo # <<Call("refuse")>>
          BY <2>1
        <5> QED
          BY <4>1, <5>2, <5>3, <5>5, <5>6 DEF OnTheWay, Promising
      <4>3. OnlyIn({})
        BY <2>1, <4>2 DEF OnlyIn, Suits
      <4> QED
        BY <3>1, <4>2, <4>3, ConditionFacts DEF Promise!Goal
    <3>2. CASE op = "destroy" /\ ~ touched
      BY <2>1, <3>2, ConditionFacts DEF WorkOK, Promise!Goal
    <3> QED
      BY <2>1, <3>1, <3>2
  <2>5. Promise!Succeed
    BY <2>1, <2>2, <2>3, <2>4 DEF Promise!Succeed
  <2> QED
    BY <2>5 DEF Promise!Next
<1>7. CASE \/ BeginWait \/ SeeFailure \/ SeeDeployed \/ SeeMissing \/ WaitTimesOut
           \/ SeeInactive \/ LookAgain \/ SeeProgress \/ UNCHANGED vars
  <2>1. UNCHANGED <<definition, taskDef, service, touched, result>>
    BY <1>7 DEF BeginWait, SeeFailure, SeeDeployed, SeeMissing, WaitTimesOut, EndWait,
                SeeInactive, LookAgain, SeeProgress, vars, aws, run
  <2>2. UNCHANGED running
    BY <1>7 DEF BeginWait, SeeFailure, SeeDeployed, SeeMissing, WaitTimesOut, EndWait,
                Describes, SeeInactive, LookAgain, SeeProgress, vars, run
  <2>3. UNCHANGED Condition
    BY <2>1, SameCondition
  <2> QED
    BY <2>1, <2>2, <2>3 DEF Promise!contract
<1>8. CASE Ecs(RollOut) \/ Ecs(TaskFails) \/ Ecs(Purge)
  <2>1. UNCHANGED <<definition, taskDef, op, touched, result>>
        /\ (RollOut \/ TaskFails \/ Purge)
    BY <1>8 DEF Ecs, RollOut, TaskFails, Purge, Undisturbing
  <2>2. UNCHANGED Condition
    <3>1. CASE RollOut \/ TaskFails
      <4>1. OnlyIn({})' <=> OnlyIn({})
        BY <1>1, <2>1, <3>1, QuietStep DEF OnlyIn, Latest
      <4>2. Exists /\ Exists'
        BY <1>1, <3>1, QuietStep
      <4> QED
        BY <4>1, <4>2, ConditionFacts
    <3>2. CASE Purge
      BY <3>2, ConditionFacts DEF Purge, Exists, NoService
    <3> QED
      BY <2>1, <3>1, <3>2
  <2> QED
    BY <2>1, <2>2 DEF Promise!contract
<1>9. CASE Ecs(Drain) /\ op = "destroy"
  <2>1. UNCHANGED <<op, touched, result>> /\ ~ Exists'
    BY <1>9 DEF Ecs, Drain, Undisturbing, Exists
  <2>2. Condition' = "absent"
    BY <2>1, ConditionFacts
  <2>3. Promise!Work
    BY <1>9, <2>1, <2>2 DEF Promise!Work, Promise!Reachable
  <2> QED
    BY <2>3 DEF Promise!Next
<1>10. CASE People \/ Ecs(Trip) \/ (Ecs(Drain) /\ op # "destroy")
  <2>1. UNCHANGED op /\ touched' = (op \in {"apply", "destroy"}) /\ result' = "none"
    BY <1>10, Zenon DEF People, Others, Ecs, Trip, Drain, Disturbing
  <2>2. (op \in {"apply", "destroy"}) = (running # "none")
    BY <1>1 DEF ShapeOK
  <2>3. UNCHANGED running
    BY <2>1
  <2>4. Promise!Disturb
    BY <1>2, <2>1, <2>2, <2>3, Zenon DEF Promise!Disturb
  <2> QED
    BY <2>4 DEF Promise!Next
<1> QED
  BY <1>3, <1>4, <1>5, <1>6, <1>7, <1>8, <1>9, <1>10 DEF Next, Progress, Settle, Trouble

\* Whatever state earlier runs left the service in, an Apply or a Destroy that nobody
\* disturbs succeeds only when the service is as defined, or INACTIVE; an Apply never
\* removes it and a Destroy never mends it, though they may stop at any call.
THEOREM KeepsContract == Spec => ImplementsContract
<1>1. Init => Promise!Init
  <2> SUFFICES ASSUME Init PROVE Promise!Init
    OBVIOUS
  <2>1. Condition \in Promise!Conditions
    BY DEF Condition, Promise!Conditions
  <2> QED
    BY <2>1 DEF Init, Promise!Init
<1>2. Init => WorkOK
  BY DEF Init, WorkOK
<1>3. RollInv /\ WorkOK /\ [Next]_vars => WorkOK'
  BY WorkHolds
<1>4. RollInv /\ WorkOK /\ [Next]_vars => [Promise!Next]_(Promise!contract)
  BY StepKeepsContract
<1> QED
  BY <1>1, <1>2, <1>3, <1>4, RollInvariant, PTL DEF Spec, ImplementsContract, Promise!Contract

-----------------------------------------------------------------------------
(* Standalone tasks *)

Steps    == {"idle", "list", "describe", "stop", "run", "poll", "giveup"}
Reports  == {"none", "apply", "destroy", "started", "timeout", "error"}

\* Shapes of the variables, and which steps an operation has.
TaskTypeOK ==
    /\ task \in TaskDefinitions
    /\ tasks \in [Tasks -> TaskStates]
    /\ foreign \subseteq Tasks
    /\ activity \in {"none", "apply", "destroy"}
    /\ step \in Steps
    /\ listed \subseteq Tasks
    /\ doomed \subseteq Tasks
    /\ mine \in Tasks \cup {NoTask}
    /\ outcome \in Reports
    /\ activity = "none" <=> step = "idle"
    /\ step \in {"run", "poll", "giveup"} => activity = "apply"
    /\ step \in {"poll", "giveup"} => mine \in Tasks
    /\ outcome # "none" => activity = "none"
    /\ outcome \in {"apply", "timeout"} => mine \in Tasks

LEMMA InitTaskTypeOK == TaskInit => TaskTypeOK
BY DEF TaskInit, TaskTypeOK, TaskStates, Steps, Reports

LEMMA NextTaskTypeOK ==
  ASSUME TaskTypeOK, [TaskNext]_taskVars
  PROVE  TaskTypeOK'
<1> USE DEF TaskTypeOK, TaskStates, Steps, Reports
<1>1. CASE ApplyTask \/ DestroyTask
  BY <1>1 DEF ApplyTask, DestroyTask, Start, ecs
<1>2. CASE List \/ ListNone \/ Describe
  BY <1>2 DEF List, ListNone, Describe, Stopped, Then, Over, Wanted
<1>3. CASE StopNext \/ StoppedAll
  BY <1>3 DEF StopNext, StoppedAll, Stopped, Then, Over, Told
<1>4. CASE Run \/ RunRefused
  BY <1>4 DEF Run, RunRefused, Then, Over, Unused
<1>5. CASE PollOver \/ PollAgain \/ GiveUpTask
  BY <1>5 DEF PollOver, PollAgain, Attempts, GiveUpTask, Then, Over, Told
<1>6. CASE FailTask
  BY <1>6 DEF FailTask, Over, Told, Unused
<1>7. ASSUME NEW t \in Tasks,
             EndTask(t) \/ Forget(t) \/ RunByHand(t) \/ StopByHand(t)
      PROVE  TaskTypeOK'
  BY <1>7 DEF EndTask, Forget, RunByHand, StopByHand, Interfere, Told, Unused, locals
<1>8. CASE UNCHANGED taskVars
  BY <1>8 DEF taskVars, ecs, locals
<1> QED
  BY <1>1, <1>2, <1>3, <1>4, <1>5, <1>6, <1>7, <1>8 DEF TaskNext, TaskProgress

-----------------------------------------------------------------------------
(* Which tasks of buildit's own run *)

Own == Wanted \ foreign

AtMostOne(S) == \A s, t \in S : s = t

LEMMA AtMostOneCounts ==
  ASSUME NEW S, AtMostOne(S)
  PROVE  Cardinality(S) <= 1
<1>1. CASE S = {}
  BY <1>1, FS_EmptySet
<1>2. CASE S # {}
  <2>1. PICK s \in S : TRUE
    BY <1>2
  <2>2. S = {s}
    BY <2>1 DEF AtMostOne
  <2> QED
    BY <2>2, FS_Singleton
<1> QED
  BY <1>1, <1>2

\* What a run knows of the tasks that run under its name and that nobody else
\* started: those it has listed, then those it has yet to stop, then none, and
\* then the one it has started.
Known ==
    /\ step = "describe" => Own \subseteq listed
    /\ step = "stop" => Own \subseteq doomed
    /\ ~ task.concurrent =>
           /\ step = "run" => Own = {}
           /\ step \in {"poll", "giveup"} => Own \subseteq {mine}
           /\ AtMostOne(Own)

\* A task that a report is about is not forgotten while the report stands.
Remembered == mine \in Tasks => tasks[mine] # "absent"

TaskInv == TaskTypeOK /\ Known /\ Remembered /\ ReportsAreTrue

LEMMA InitTaskInv == TaskInit => TaskInv
<1> SUFFICES ASSUME TaskInit
             PROVE  TaskInv
  OBVIOUS
<1>1. Own = {}
  BY DEF TaskInit, Own, Wanted
<1> QED
  BY <1>1, InitTaskTypeOK, TasksType
     DEF TaskInit, TaskInv, Known, Remembered, ReportsAreTrue, AtMostOne, TaskTypeOK

\* Only Run, and a lost answer to it, adds to buildit's own tasks.
LEMMA OwnAfter ==
  ASSUME TaskInv, TaskTypeOK', NEW t \in Tasks,
         \/ EndTask(t) \/ Forget(t) \/ RunByHand(t) \/ StopByHand(t)
  PROVE  Own' \subseteq Own
BY DEF TaskInv, TaskTypeOK, Own, Wanted, Unused, EndTask, Forget, RunByHand, StopByHand,
       Told

LEMMA NextTaskInv ==
  ASSUME TaskInv, [TaskNext]_taskVars
  PROVE  TaskInv'
<1>1. TaskTypeOK'
  BY NextTaskTypeOK DEF TaskInv
<1> USE <1>1 DEF TaskInv
<1>2. CASE ApplyTask \/ DestroyTask
  BY <1>2, TasksType DEF ApplyTask, DestroyTask, Start, ecs, Known, Remembered, ReportsAreTrue, Own,
             Wanted, AtMostOne, TaskTypeOK
<1>3. CASE List \/ ListNone \/ Describe
  <2>1. Own' = Own
    BY <1>3 DEF List, ListNone, Describe, Stopped, Then, Over, Own, Wanted
  <2>2. Known'
    BY <1>3, <2>1 DEF List, ListNone, Describe, Stopped, Then, Over, Known, Own, Wanted, AtMostOne
  <2>3. Remembered' /\ ReportsAreTrue'
    BY <1>3 DEF List, ListNone, Describe, Stopped, Then, Over, Remembered, ReportsAreTrue, Wanted, TaskTypeOK
  <2> QED
    BY <2>2, <2>3
<1>4. CASE StopNext
  <2>1. PICK t \in doomed : tasks' = Told(t) /\ doomed' = doomed \ {t}
    BY <1>4 DEF StopNext
  <2>2. Own' \subseteq Own \ {t}
    BY <1>4, <2>1 DEF StopNext, Told, Own, Wanted, TaskTypeOK
  <2>3. Known'
    BY <1>4, <2>1, <2>2 DEF StopNext, Known, AtMostOne
  <2>4. Remembered' /\ ReportsAreTrue'
    BY <1>4, <2>1 DEF StopNext, Told, Remembered, ReportsAreTrue, TaskTypeOK
  <2> QED
    BY <2>3, <2>4
<1>5. CASE StoppedAll
  <2>1. Own' = Own /\ Own = {}
    BY <1>5 DEF StoppedAll, Stopped, Then, Over, Known, Own, Wanted
  <2>2. Known'
    BY <1>5, <2>1 DEF StoppedAll, Stopped, Then, Over, Known, AtMostOne
  <2>3. Remembered' /\ ReportsAreTrue'
    BY <1>5, <2>1 DEF StoppedAll, Stopped, Then, Over, Remembered, ReportsAreTrue, Own, TaskTypeOK
  <2> QED
    BY <2>2, <2>3
<1>6. CASE Run
  <2>1. PICK t \in Unused :
           /\ tasks' = [tasks EXCEPT ![t] = "running"]
           /\ IF task.timed
              THEN /\ mine' = t
                   /\ Then(IF task.attempts = 0 THEN "giveup" ELSE "poll")
                   /\ UNCHANGED <<listed, doomed, polls>>
              ELSE Over("started")
    BY <1>6 DEF Run
  <2>2. Own' \subseteq Own \cup {t} /\ t \in Tasks /\ UNCHANGED task
    BY <1>6, <2>1 DEF Unused, Own, Wanted, Then, Over, TaskTypeOK
  <2>3. ~ task.concurrent => Own' \subseteq {t}
    BY <1>6, <2>2 DEF Run, Known
  <2>4. Known'
    BY <2>1, <2>2, <2>3 DEF Known, Then, Over, AtMostOne
  <2>5. Remembered' /\ ReportsAreTrue'
    BY <1>6, <2>1 DEF Run, Then, Over, Remembered, ReportsAreTrue, Unused, TaskTypeOK
  <2> QED
    BY <2>4, <2>5
<1>7. CASE RunRefused \/ PollOver \/ PollAgain
  <2>1. Own' = Own
    BY <1>7 DEF RunRefused, PollOver, PollAgain, Attempts, Then, Over, Own, Wanted
  <2>2. Known'
    BY <1>7, <2>1 DEF RunRefused, PollOver, PollAgain, Attempts, Then, Over, Known
  <2>3. Remembered' /\ ReportsAreTrue'
    BY <1>7 DEF RunRefused, PollOver, PollAgain, Attempts, Then, Over, ExitsWell, Remembered, ReportsAreTrue, TaskTypeOK
  <2> QED
    BY <2>2, <2>3
<1>8. CASE GiveUpTask
  <2>1. Own' \subseteq Own
    BY <1>8 DEF GiveUpTask, Over, Told, Own, Wanted, TaskTypeOK
  <2>2. Known'
    BY <1>8, <2>1 DEF GiveUpTask, Over, Known, AtMostOne
  <2>3. Remembered' /\ ReportsAreTrue'
    BY <1>8 DEF GiveUpTask, Over, Told, Remembered, ReportsAreTrue, TaskTypeOK
  <2> QED
    BY <2>2, <2>3
<1>9. CASE FailTask
  <2>1. /\ activity' = "none" /\ step' = "idle" /\ outcome' = "error"
        /\ UNCHANGED <<task, foreign, mine>>
    BY <1>9 DEF FailTask, Over
  <2>2. CASE step = "run" /\ \E t \in Unused : tasks' = [tasks EXCEPT ![t] = "running"]
    <3>1. PICK t \in Unused : tasks' = [tasks EXCEPT ![t] = "running"]
      BY <2>2
    <3>2. Own' \subseteq Own \cup {t}
      BY <2>1, <3>1 DEF Unused, Own, Wanted, TaskTypeOK
    <3> QED
      BY <2>1, <2>2, <3>1, <3>2 DEF Known, Remembered, ReportsAreTrue, Unused, AtMostOne, TaskTypeOK
  <2>3. CASE UNCHANGED tasks \/ \E t \in Tasks : tasks' = Told(t)
    <3>1. Own' \subseteq Own
      BY <2>1, <2>3 DEF Told, Own, Wanted, TaskTypeOK
    <3> QED
      BY <2>1, <2>3, <3>1 DEF Told, Known, Remembered, ReportsAreTrue, AtMostOne, TaskTypeOK
  <2> QED
    BY <1>9, <2>2, <2>3 DEF FailTask, TaskTypeOK
<1>10. ASSUME NEW t \in Tasks,
              EndTask(t) \/ Forget(t) \/ RunByHand(t) \/ StopByHand(t)
       PROVE  TaskInv'
  <2>1. /\ Own' \subseteq Own
        /\ UNCHANGED <<task, step, locals>>
    BY <1>10, OwnAfter DEF EndTask, Forget, RunByHand, StopByHand, Interfere
  <2>2. Known'
    BY <2>1 DEF Known, AtMostOne, locals
  <2>3. Remembered' /\ ReportsAreTrue'
    BY <1>10 DEF EndTask, Forget, RunByHand, StopByHand, Interfere, Told, Unused, Wanted,
                 locals, Remembered, ReportsAreTrue, TaskTypeOK
  <2> QED
    BY <2>2, <2>3
<1>11. CASE UNCHANGED taskVars
  BY <1>11 DEF taskVars, ecs, locals, Known, Remembered, ReportsAreTrue, Own, Wanted, AtMostOne
<1> QED
  BY <1>2, <1>3, <1>4, <1>5, <1>6, <1>7, <1>8, <1>9, <1>10, <1>11 DEF TaskNext, TaskProgress

-----------------------------------------------------------------------------

\* Unless the definition allows it, buildit never has two tasks of one name wanted at
\* a time (stop and apply of resource/standalone_task.go), whatever became of earlier
\* runs.
THEOREM OneTaskAtATime == TaskSpec => []OneTaskWanted
<1>1. TaskInv => OneTaskWanted
  BY AtMostOneCounts DEF TaskInv, Known, OneTaskWanted, Own
<1> QED
  BY InitTaskInv, NextTaskInv, <1>1, PTL DEF TaskSpec

\* A reported success, failure by time or removal says what ECS has: the poll loop of
\* apply and stop of resource/standalone_task.go.
THEOREM TaskReportsAreTrue == TaskSpec => []ReportsAreTrue
<1>1. TaskInv => ReportsAreTrue
  BY DEF TaskInv
<1> QED
  BY InitTaskInv, NextTaskInv, <1>1, PTL DEF TaskSpec
=============================================================================
