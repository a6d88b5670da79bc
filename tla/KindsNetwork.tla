----------------------------- MODULE KindsNetwork -----------------------------
(***************************************************************************)
(* The kinds that bring traffic to a service: target groups, load          *)
(* balancers with their listeners and rules, service discovery services.   *)
(***************************************************************************)
EXTENDS KindCalls

-----------------------------------------------------------------------------
(* Target group.  "fixed" is its VPC, protocol, port and target type.  If its    *)
(* attributes cannot be set a new group is destroyed again.  Its targets are only *)
(* looked at if the definition names any: those that it has dropped all stay.    *)

GroupCreate ==
    <<Make({"fixed", "health", "tags", "oldTags", "oldTargets"}), Undoing(Put({"attributes"}))>>

GroupUpdate ==
    <<On({"fixed"}, <<Refuse>>),
      On({"health"}, <<Put({"health"})>>),
      On({"attributes"}, <<Put({"attributes"})>>)>> \o TagCalls

\* A group whose definition names no targets.
OpenGroup ==
    [Row({"fixed", "health", "attributes", "tags", "oldTags", "oldTargets"}) EXCEPT
        !.create = GroupCreate, !.update = GroupUpdate,
        !.parts = {"listeners"}, !.kept = {"listeners"},
        !.overlooked = {"oldTargets"}, !.lasting = {"oldTargets"}]

TargetGroupCreate == GroupCreate \o <<Put({"targets"})>>

TargetGroupUpdate ==
    GroupUpdate \o
    <<On({"targets"}, <<Put({"targets"})>>), On({"oldTargets"}, <<Put({"oldTargets"})>>)>>

TargetGroup ==
    [Row({"fixed", "health", "attributes", "tags", "oldTags", "targets", "oldTargets"})
        EXCEPT !.create = TargetGroupCreate, !.update = TargetGroupUpdate,
               !.parts = {"listeners"}, !.kept = {"listeners"}]

-----------------------------------------------------------------------------
(* Load balancer, with one listener.  "setup" is the listener's default action   *)
(* and SSL policy; its default certificate is compared, but only sent along with *)
(* a change of the additional ones.                                              *)

RuleFacets     == {"rules", "oldRules", "ruleTags"}
CertFacets     == {"certs", "oldCerts"}
ListenerFacets == {"setup", "listenerTags"} \cup RuleFacets \cup CertFacets

RuleApply   == Put({"rules", "ruleTags"})
RuleUpdate  == Put({"rules"})
RuleDestroy == Put({"oldRules"})

\* A new listener has no rules and no further certificates yet.
ListenerCreate ==
    <<Taking(Put({"listeners", "defaultCert"} \cup (ListenerFacets \ {"rules", "certs"})),
             {"rules", "certs"}),
      Put({"certs"}), RuleApply>>

ListenerDestroy == Put({"oldListeners"})

\* The listener itself is modified last, whatever of it differs.
ListenerUpdate ==
    <<On({"rules"}, <<RuleUpdate, RuleApply>>),
      On({"oldRules"}, <<RuleDestroy>>),
      On({"ruleTags"}, <<Put({"ruleTags"})>>),
      On({"certs"}, <<Put({"certs"})>>),
      On({"oldCerts"}, <<Put({"oldCerts"})>>),
      On(CertFacets, <<Put({"defaultCert"})>>),
      On(ListenerFacets \cup {"defaultCert"}, <<Put({"setup"})>>),
      On({"listenerTags"}, <<Put({"listenerTags"})>>)>>

\* Deletion protection, the default, comes with the attributes.
PutAttributes(protection) == Adding(Put({"attributes"}), protection)

BalancerCreate(protection) ==
    <<Slow(Make({"fixed", "subnets", "groups", "tags", "oldTags", "oldListeners",
                 "defaultCert"} \cup ListenerFacets)), Await,
      PutAttributes(protection)>> \o ListenerCreate

BalancerUpdate(protection) ==
    <<On({"fixed"}, <<Refuse>>),
      On({"subnets"}, <<Put({"subnets"})>>),
      On({"groups"}, <<Put({"groups"})>>),
      On({"attributes"}, <<PutAttributes(protection)>>),
      On({"oldListeners"}, <<ListenerDestroy>>)>>
    \o ListenerUpdate \o <<On({"listeners"}, ListenerCreate)>> \o TagCalls

\* The listeners go first: a protected balancer is refused after that.
BalancerDestroy == <<[ListenerDestroy EXCEPT !.puts = {}, !.takes = {"listeners"}], Slow(Delete), AwaitGone>>

BalancerFacets ==
    {"fixed", "subnets", "groups", "attributes", "tags", "oldTags", "listeners",
     "oldListeners", "defaultCert"} \cup ListenerFacets

Balancer(protection) ==
    [Row(BalancerFacets) EXCEPT
        !.create = BalancerCreate(protection), !.update = BalancerUpdate(protection),
        !.destroy = BalancerDestroy, !.parts = protection, !.kept = protection,
        !.overlooked = {"defaultCert"}, !.lasting = {"defaultCert"}]

-----------------------------------------------------------------------------
(* Service discovery service.  "fixed" is its routing policy and records; its    *)
(* values are instances of it, and tasks register themselves.                    *)

SyncInstances == <<Adding(Slow(Put({"values"})), {"instances"}), Await>>

DiscoveryCreate ==
    <<Make({"fixed", "config", "tags", "oldTags", "oldValues"})>> \o SyncInstances

DiscoveryUpdate ==
    <<On({"fixed"}, <<Refuse>>),
      On({"config"}, <<Slow(Put({"config"}))>>)>> \o TagCalls \o
    <<On({"values"}, SyncInstances),
      On({"oldValues"}, <<Slow(Put({"oldValues"})), Await>>)>>

DiscoveryRemoval ==
    <<On({"instances"}, <<Slow(Taking(Clear({"instances"}), {"values"})), Await>>)>>

Discovery ==
    [Row({"fixed", "config", "tags", "oldTags", "values", "oldValues"}) EXCEPT
        !.create = DiscoveryCreate, !.update = DiscoveryUpdate,
        !.removal = DiscoveryRemoval, !.parts = {"instances", "tasks"}, !.kept = {"tasks"}]

NetworkKinds ==
    [TargetGroup |-> TargetGroup, OpenGroup |-> OpenGroup, LoadBalancer |-> Balancer({"protection"}),
     OpenBalancer |-> Balancer({}), Discovery |-> Discovery]
=============================================================================
