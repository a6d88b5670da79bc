----------------------------- MODULE KindsCompute -----------------------------
(***************************************************************************)
(* The kinds that run code and say what it may do: Lambda functions and    *)
(* layers, task definitions, IAM roles and policies.                       *)
(***************************************************************************)
EXTENDS KindCalls

-----------------------------------------------------------------------------
(* Lambda function with publish: true.  "leftovers" is that no setting that the  *)
(* definition dropped is left (they are sent as nil, which changes nothing);     *)
(* "published", that the highest version is the definition's, is not compared.   *)

Settling(c) == <<Strict(Slow(c)), Await>>

PolicyApply   == Put({"policy"})
PolicyDestroy == Taking(Put({"oldPolicy"}), {"policy"})

AliasesCreate == Put({"aliases"})
AliasesUpdate == Put({"aliases"})
AliasesDelete == Put({"oldAliases"})

UrlApply  == Put({"url"})
UrlDelete == Taking(Put({}), {"url"})

FunctionCreate ==
    <<Slow(Make({"package", "config", "leftovers", "code", "published", "oldPolicy",
                 "oldAliases", "tags", "oldTags"})), Await,
      UrlApply, PolicyApply, AliasesCreate, Put({"recursion"})>>

FunctionConfigUpdate ==
    <<On({"package"}, <<Refuse>>),
      On({"config", "leftovers"}, Settling(Put({"config"})))>>

FunctionUpdate ==
    FunctionConfigUpdate \o <<On({"code"}, Settling(Put({"code"})))>> \o TagCalls \o
    <<On({"config", "leftovers", "code"}, <<Strict(Put({"published"}))>>),
      On({"aliases"}, <<AliasesCreate>>),
      On({"oldAliases"}, <<AliasesDelete>>),
      On({"aliases"}, <<AliasesUpdate>>),
      On({"recursion"}, <<Put({"recursion"})>>),
      On({"url"}, <<UrlApply>>),
      On({"policy", "oldPolicy"}, <<PolicyDestroy, PolicyApply>>)>>

FunctionDestroy == <<[AliasesDelete EXCEPT !.puts = {}, !.takes = {"aliases"}], UrlDelete, Delete>>

FunctionFacets ==
    {"package", "config", "leftovers", "code", "published", "url", "policy", "oldPolicy",
     "aliases", "oldAliases", "recursion", "tags", "oldTags"}

Function ==
    [Row(FunctionFacets) EXCEPT
        !.create = FunctionCreate, !.update = FunctionUpdate, !.destroy = FunctionDestroy,
        !.overlooked = {"leftovers", "published"}, !.lasting = {"leftovers", "published"}]

-----------------------------------------------------------------------------
(* Layer: every change is a version more, and what counts is the newest one.     *)
(* Its code is not compared.                                                     *)

LayerPublish == Put({"setup", "code"})
LayerCreate  == <<[LayerPublish EXCEPT !.does = "make"]>>
LayerUpdate  == <<On({"setup"}, <<Adding(LayerPublish, {"older"})>>)>>
LayerRemoval == <<On({"older"}, <<Taking(Clear({"older"}), {"setup", "code"})>>)>>
Layer ==
    [Row({"setup", "code"}) EXCEPT
        !.create = LayerCreate, !.update = LayerUpdate, !.removal = LayerRemoval,
        !.parts = {"older"}, !.overlooked = {"code"}, !.lasting = {"code"}]

-----------------------------------------------------------------------------
(* IAM role.  A session duration that differs is taken for a description that    *)
(* does: it is compared and never sent.                                          *)

Attach == Adding(Put({"policies"}), {"attachments"})

RoleCreate ==
    <<Make({"path", "description", "session", "trust", "oldPolicies", "tags", "oldTags"}), Attach>>

RoleUpdate ==
    <<On({"path"}, <<Refuse>>),
      On({"description", "session"}, <<Put({"description"})>>),
      On({"trust"}, <<Put({"trust"})>>),
      On({"policies"}, <<Attach>>),
      On({"oldPolicies"}, <<Put({"oldPolicies"})>>)>> \o TagCalls

RoleRemoval == <<On({"attachments"}, <<Taking(Clear({"attachments"}), {"policies"})>>)>>

Role ==
    [Row({"path", "description", "session", "trust", "policies", "oldPolicies", "tags", "oldTags"})
        EXCEPT !.create = RoleCreate, !.update = RoleUpdate, !.removal = RoleRemoval,
               !.parts = {"attachments", "instanceProfiles"}, !.kept = {"instanceProfiles"},
               !.overlooked = {"session"}, !.lasting = {"session"}]

-----------------------------------------------------------------------------
(* IAM policy: a new document is a new default version, and the others go.  "room" *)
(* is that AWS would keep one more, of five: runs that stopped before the others    *)
(* went, or people, may have used it up, and then AWS refuses a new document.       *)

PolicyFacets   == {"room", "description", "document", "tags", "oldTags"}
PolicyVersion  == Adding(Put({"document"}), {"versions"})
PolicyCreate   == <<Make(PolicyFacets)>>
PolicyUpdate   ==
    <<On({"description"}, <<Refuse>>)>> \o
    With(<<On({"room"}, <<Refuse>>)>>, {"document"}) \o
    <<On({"document"}, <<PolicyVersion, Clear({"versions"})>>)>> \o TagCalls
PolicyRemoval  == <<On({"versions"}, <<Clear({"versions"})>>)>>
ManagedPolicy  ==
    [Row(PolicyFacets) EXCEPT
        !.create = PolicyCreate, !.update = PolicyUpdate, !.removal = PolicyRemoval,
        !.parts = {"versions", "roles"}, !.kept = {"roles"}, !.overlooked = {"room"}]

-----------------------------------------------------------------------------
(* ECS task definition: every change but one of tags alone registers a revision, *)
(* and only the newest counts.  "shape" is what Compare reads without looking    *)
(* whether it is there (a task role where the revision has none, another type of *)
(* volume, a longer health check): it panics.  "unseen" is what it never reads   *)
(* (a volume's IAM authorization, capabilities that the definition dropped).     *)

RevisionFacets == {"shape", "settings", "unseen", "tags", "oldTags"}

Revision == Put(RevisionFacets)

TaskDefCreate  == <<[Revision EXCEPT !.does = "make"]>>
TaskDefUpdate  ==
    <<On({"shape"}, <<Refuse>>), On({"settings"}, <<Adding(Revision, {"revisions"})>>)>>
    \o Without(TagCalls, {"settings"})
TaskDefRemoval == <<On({"revisions"}, <<Clear({"revisions"})>>)>>
TaskDef ==
    [Row(RevisionFacets) EXCEPT
        !.create = TaskDefCreate, !.update = TaskDefUpdate, !.removal = TaskDefRemoval,
        !.parts = {"revisions"}, !.overlooked = {"unseen"}, !.lasting = {"unseen"}]

ComputeKinds ==
    [TaskDef |-> TaskDef, Function |-> Function, Layer |-> Layer, Role |-> Role, ManagedPolicy |-> ManagedPolicy]
=============================================================================
