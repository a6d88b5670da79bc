------------------------------ MODULE KindsEdge ------------------------------
(***************************************************************************)
(* Two kinds of CloudFront, functions and VPC origins (for distributions   *)
(* see Distribution).                                                      *)
(***************************************************************************)
EXTENDS KindCalls

-----------------------------------------------------------------------------
(* CloudFront function.  "code" and "setup" (comment, runtime) are those of the  *)
(* development stage, and are published to the live one; whether the live one is *)
(* out of date is told by its code alone.                                        *)

Publish == <<Slow(Put({"liveCode", "liveSetup"})), Await>>

EdgeFunctionCreate == <<Make({"code", "setup", "tags", "oldTags"})>> \o Publish
EdgeFunctionUpdate ==
    TagCalls \o <<On({"code", "setup"}, <<Put({"code", "setup"})>>),
                  On({"code", "setup", "liveCode"}, Publish)>>
EdgeFunction ==
    [Row({"code", "setup", "liveCode", "liveSetup", "tags", "oldTags"}) EXCEPT
        !.create = EdgeFunctionCreate, !.update = EdgeFunctionUpdate,
        !.parts = {"distributions"}, !.kept = {"distributions"},
        !.overlooked = {"liveSetup"}, !.lasting = {"liveSetup"}]

-----------------------------------------------------------------------------
(* VPC origin: deployed before it is changed or deleted *)

VpcOriginCreate  == <<Slow(Make({"config", "tags", "oldTags"})), Await>>
VpcOriginUpdate  == <<On({"config"}, <<Slow(Put({"config"})), Await>>)>> \o TagCalls
VpcOriginDestroy == <<Await, Strict(Delete)>>
VpcOrigin ==
    [Row({"config", "tags", "oldTags"}) EXCEPT
        !.create = VpcOriginCreate, !.update = VpcOriginUpdate,
        !.destroy = VpcOriginDestroy,
        !.parts = {"distributions"}, !.kept = {"distributions"}]

EdgeKinds ==
    [EdgeFunction |-> EdgeFunction, VpcOrigin |-> VpcOrigin]
=============================================================================
