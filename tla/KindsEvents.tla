----------------------------- MODULE KindsEvents -----------------------------
(***************************************************************************)
(* The kinds that move events and streams: EventBridge rules with their    *)
(* targets, connections and API destinations, SNS subscriptions, Firehose  *)
(* delivery streams, and what MSK Connect runs.                            *)
(***************************************************************************)
EXTENDS KindCalls

-----------------------------------------------------------------------------
(* EventBridge rule.  Of its targets all are removed and put again, one call     *)
(* each; AWS answers with the number of targets it could not remove or put,      *)
(* which nobody reads, and deletes no rule that has targets.                     *)

TargetApply    == Loose(Adding(Put({"targets"}), {"targets"}))
TargetsDestroy ==
    Loose([Taking(Put({"oldTargets"}), {"targets"}) EXCEPT !.clears = {"targets"}])

RulePut == Put({"rule"})

EventRuleCreate == <<Make({"rule", "tags", "oldTags", "oldTargets"}), TargetApply>>
EventRuleUpdate ==
    <<On({"rule"}, <<RulePut>>)>> \o TagCalls \o
    <<On({"targets", "oldTargets"}, <<TargetsDestroy, TargetApply>>)>>
EventRuleRemoval == <<On({"targets"}, <<[TargetsDestroy EXCEPT !.puts = {}]>>)>>
EventRule ==
    [Row({"rule", "tags", "oldTags", "targets", "oldTargets"}) EXCEPT
        !.create = EventRuleCreate, !.update = EventRuleUpdate,
        !.removal = EventRuleRemoval, !.parts = {"targets"}, !.clinging = {"targets"},
        !.overlooked = {"targets", "oldTargets"}]

-----------------------------------------------------------------------------
(* Connection and API destination.  Only what differs is sent; "leftovers" is    *)
(* that no description or parameters that the definition dropped are left: nil   *)
(* is sent for them, and that is no change.                                      *)

ConnectionCreate == <<Make({"config", "leftovers"})>>
ConnectionUpdate == <<On({"config", "leftovers"}, <<Put({"config"})>>)>>
Connection ==
    [Row({"config", "leftovers"}) EXCEPT
        !.create = ConnectionCreate, !.update = ConnectionUpdate,
        !.overlooked = {"leftovers"}, !.lasting = {"leftovers"}]

DestinationCreate == <<Make({"config", "leftovers"})>>
DestinationUpdate == <<On({"config", "leftovers"}, <<Put({"config"})>>)>>
Destination ==
    [Row({"config", "leftovers"}) EXCEPT
        !.create = DestinationCreate, !.update = DestinationUpdate,
        !.overlooked = {"leftovers"}, !.lasting = {"leftovers"}]

-----------------------------------------------------------------------------
(* Subscription: it is there or it is not *)

Subscription == [Row({}) EXCEPT !.create = <<Make({})>>]

-----------------------------------------------------------------------------
(* Delivery stream: nobody waits for it *)

StreamCreate ==
    <<Slow(Make({"type", "destination", "tags", "oldTags"}))>>
StreamUpdate ==
    <<On({"type"}, <<Refuse>>),
      On({"destination"}, <<Strict(Put({"destination"}))>>)>> \o TagCalls
StreamDestroy == <<Strict(Slow(Delete))>>
Stream ==
    [Row({"type", "destination", "tags", "oldTags"}) EXCEPT
        !.create = StreamCreate, !.update = StreamUpdate, !.destroy = StreamDestroy,
        !.ghost = TRUE]

-----------------------------------------------------------------------------
(* MSK Connect.  What cannot be updated ("fixed") makes an apply give up, with   *)
(* whatever else differs: it wraps an error that is nil.                         *)

ConnectorCreate ==
    <<Slow(Make({"fixed", "config", "capacity", "tags", "oldTags"}))>>

\* Only when both differ is there a wait, for the first of the two updates: a change of
\* the capacity alone is refused while the connector is at work.
ConnectorUpdate ==
    <<On({"fixed"}, <<GiveUp>>),
      On({"config"}, <<Strict(Slow(Put({"config"})))>>)>> \o
    With(<<On({"capacity"}, <<Await>>)>>, {"config"}) \o
    <<On({"capacity"}, <<Strict(Slow(Put({"capacity"})))>>)>> \o TagCalls
ConnectorDestroy == <<Slow(Delete), AwaitGone>>
Connector ==
    [Row({"fixed", "config", "capacity", "tags", "oldTags"}) EXCEPT
        !.create = ConnectorCreate, !.update = ConnectorUpdate,
        !.destroy = ConnectorDestroy, !.ghost = TRUE,
        !.overlooked = {"fixed"}, !.lasting = {"fixed"}]

PluginCreate  == <<Slow(Make({"fixed", "tags", "oldTags"})), Await>>
PluginUpdate  == <<On({"fixed"}, <<GiveUp>>)>> \o TagCalls
PluginDestroy == <<Slow(Delete)>>
Plugin ==
    [Row({"fixed", "tags", "oldTags"}) EXCEPT
        !.create = PluginCreate, !.update = PluginUpdate, !.destroy = PluginDestroy,
        !.ghost = TRUE, !.overlooked = {"fixed"}, !.lasting = {"fixed"}]

WorkerConfigCreate == <<Make({"fixed", "tags", "oldTags"})>>
WorkerConfigUpdate == <<On({"fixed"}, <<GiveUp>>)>> \o TagCalls
WorkerConfig ==
    [Row({"fixed", "tags", "oldTags"}) EXCEPT
        !.create = WorkerConfigCreate, !.update = WorkerConfigUpdate,
        !.overlooked = {"fixed"}, !.lasting = {"fixed"}]

EventKinds ==
    [EventRule |-> EventRule, Connection |-> Connection, Destination |-> Destination,
     Subscription |-> Subscription, Stream |-> Stream, Connector |-> Connector,
     Plugin |-> Plugin, WorkerConfig |-> WorkerConfig]
=============================================================================
