--------------------------- MODULE KindsMonitoring ---------------------------
(***************************************************************************)
(* The kinds that watch and steer: CloudWatch's log groups, subscription   *)
(* filters and alarms, state machines, Bedrock inference profiles.         *)
(***************************************************************************)
EXTENDS KindCalls

-----------------------------------------------------------------------------
(* Log group.  "forever" is the absence of a retention that nobody asked for. *)

\* Only the global tags are given at creation: the next apply adds the others.
LogGroupCreate ==
    <<Make({"oldTags", "forever", "oldFilters"}), Put({"filters"}), Put({"retention"})>>

\* The filters are all removed and put again.  Without a retention to put, the
\* call is made without its required parameter.
LogGroupUpdate ==
    <<On({"retention"}, <<Put({"retention"})>>),
      On({"forever"}, <<Refuse>>),
      On({"filters", "oldFilters"},
         <<Taking(Put({"oldFilters"}), {"filters"}), Put({"filters"})>>)>> \o TagCalls

LogGroup ==
    [Row({"retention", "forever", "filters", "oldFilters", "tags", "oldTags"}) EXCEPT
        !.create = LogGroupCreate, !.update = LogGroupUpdate, !.overlooked = {"tags"}]

-----------------------------------------------------------------------------
(* Subscription filter: one call puts all of it *)

SubscriptionFilterCreate == <<Make({"pattern", "destination"})>>
SubscriptionFilterUpdate ==
    <<On({"pattern", "destination"}, <<Put({"pattern", "destination"})>>)>>
SubscriptionFilter ==
    [Row({"pattern", "destination"}) EXCEPT
        !.create = SubscriptionFilterCreate, !.update = SubscriptionFilterUpdate]

-----------------------------------------------------------------------------
(* Alarm.  PutMetricAlarm is sent without the unit, which is compared, and with  *)
(* ActionsEnabled, which is not; it sets tags only when it creates.              *)

AlarmCreate == <<Make({"definition", "enabled", "tags", "oldTags"})>>
AlarmUpdate ==
    <<On({"definition", "unit"}, <<Put({"definition", "enabled"})>>)>> \o TagCalls
Alarm ==
    [Row({"definition", "unit", "enabled", "tags", "oldTags"}) EXCEPT
        !.create = AlarmCreate, !.update = AlarmUpdate,
        !.overlooked = {"unit", "enabled"}, !.lasting = {"unit", "enabled"}]

-----------------------------------------------------------------------------
(* State machine with its aliases *)

StateMachineCreate == <<Make({"config", "tags", "oldTags", "oldAliases"}), Put({"aliases"})>>
StateMachineUpdate ==
    <<On({"config"}, <<Put({"config"})>>)>> \o TagCalls \o
    <<On({"oldAliases"}, <<Put({"oldAliases"})>>), On({"aliases"}, <<Put({"aliases"})>>)>>
StateMachine ==
    [Row({"config", "tags", "oldTags", "aliases", "oldAliases"}) EXCEPT
        !.create = StateMachineCreate, !.update = StateMachineUpdate]

-----------------------------------------------------------------------------
(* Application inference profile: other differences than tags are only warned of *)

InferenceProfileCreate  == <<Make({"description", "source", "tags", "oldTags"})>>
InferenceProfileUpdate  == <<On({"description", "source"}, << >>)>> \o TagCalls
InferenceProfileDestroy == <<Slow(Delete), AwaitGone>>
InferenceProfile ==
    [Row({"description", "source", "tags", "oldTags"}) EXCEPT
        !.create = InferenceProfileCreate, !.update = InferenceProfileUpdate,
        !.destroy = InferenceProfileDestroy,
        !.overlooked = {"description", "source"}, !.lasting = {"description", "source"}]

MonitoringKinds ==
    [LogGroup |-> LogGroup, SubscriptionFilter |-> SubscriptionFilter, Alarm |-> Alarm,
     StateMachine |-> StateMachine, InferenceProfile |-> InferenceProfile]
=============================================================================
