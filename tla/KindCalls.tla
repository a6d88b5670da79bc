------------------------------ MODULE KindCalls ------------------------------
(***************************************************************************)
(* The vocabulary of the tables of resource kinds (ResourceKinds runs any  *)
(* row).  A resource has facets, each as its definition has it or not; a   *)
(* set of things is two facets, "x": those wanted are there, and "oldX":   *)
(* nothing else is.  A row lists, in the order of the code, the AWS calls  *)
(* of a creation, of an update and of a destroy.                           *)
(***************************************************************************)
EXTENDS Sequences

Call(does, puts) ==
    [does |-> does, puts |-> puts,
     takes  |-> {},     \* facets that the call undoes
     adds   |-> {},     \* parts it gives the resource, which block its deletion
     clears |-> {},     \* parts it removes
     slow   |-> FALSE,  \* AWS accepts it and goes on working
     strict |-> FALSE,  \* AWS refuses it while it is still working
     loose  |-> FALSE,  \* AWS may take it and do nothing, and the code does not look
     undo   |-> FALSE]  \* if it fails, the code destroys the resource again

Make(facets) == Call("make", facets)
Put(facets)  == Call("put", facets)
Delete       == Call("delete", {})
Await        == Call("await", {})      \* poll until AWS is done
AwaitGone    == Call("awaitGone", {})
Refuse       == Call("refuse", {})     \* an error before any call, or a call AWS never takes
GiveUp       == Call("giveUp", {})     \* the operation ends here, as if all was well

Slow(c)         == [c EXCEPT !.slow = TRUE]
Strict(c)       == [c EXCEPT !.strict = TRUE]
Loose(c)        == [c EXCEPT !.loose = TRUE]
Adding(c, p)    == [c EXCEPT !.adds = p]
Taking(c, f)    == [c EXCEPT !.takes = f]
Undoing(c)      == [c EXCEPT !.undo = TRUE]
Clear(p)        == [Call("put", {}) EXCEPT !.clears = p]

\* These calls, if one of these facets was seen to differ (an update), or the resource
\* has one of these parts (a destroy); with no facets, in any case.
On(whose, calls) == [on |-> whose, with |-> {}, unless |-> {}, calls |-> calls]

\* Steps that are only taken when all of these facets differ too.
With(steps, others) == [i \in DOMAIN steps |-> [steps[i] EXCEPT !.with = others]]

\* Steps that are not taken when one of these facets differs too.
Without(steps, others) == [i \in DOMAIN steps |-> [steps[i] EXCEPT !.unless = others]]

\* resource_tags.go and util/tags.go (TagSync): upsert, then delete.
TagCalls == <<On({"tags"}, <<Put({"tags"})>>), On({"oldTags"}, <<Put({"oldTags"})>>)>>

\* A facet that no step mentions is one that Compare does not look at.
Row(facets) ==
    [facets     |-> facets,
     create     |-> << >>,  \* calls
     update     |-> << >>,  \* steps
     removal    |-> << >>,  \* steps of a destroy, before
     destroy    |-> <<Delete>>,  \* calls
     parts      |-> {},     \* what keeps AWS from deleting the resource
     kept       |-> {},     \* those of the parts that no destroy removes
     clinging   |-> {},     \* those whose removal AWS may ignore
     ghost      |-> FALSE,  \* a resource that AWS is deleting is taken for existing
     overlooked |-> {},     \* facets that an apply may leave wrong and still succeed
     lasting    |-> {}]     \* those of them that no later apply corrects either
=============================================================================
