----------------------------- MODULE TagsProofs -----------------------------
(* What the tag operators of buildit compute, for all tag maps, and that a   *)
(* successful apply leaves a resource with exactly its tags.                 *)
EXTENDS TagSync, TLAPS

\* Put and Drop of tag maps are tag maps.
LEMMA PutDropType ==
    ASSUME NEW t \in TagMaps, NEW u \in TagMaps, NEW keys
    PROVE  Put(t, u, keys) \in TagMaps /\ Drop(t, keys) \in TagMaps
  BY DEF Put, Drop, TagMaps

\* util.TagDiff: upserting and then deleting what the difference names makes the
\* tags in AWS the desired ones, and it is empty exactly when they are already.
THEOREM DiffExact ==
    ASSUME NEW held \in TagMaps, NEW wanted \in TagMaps
    PROVE  DiffIsExact(held, wanted)
<1> DEFINE synced == Drop(Put(held, wanted, Upserts(held, wanted)),
                          Deleted(held, wanted))
<1>1. synced = wanted
  <2>1. synced = [k \in TagKeys |-> synced[k]] /\ wanted = [k \in TagKeys |-> wanted[k]]
    BY DEF Drop, Put, TagMaps
  <2>2. ASSUME NEW k \in TagKeys  PROVE synced[k] = wanted[k]
    <3>1. CASE k \in Deleted(held, wanted)
      BY <3>1 DEF Deleted, Drop, Put, Present
    <3>2. CASE k \in Upserts(held, wanted)
      BY <3>2 DEF Upserts, Added, Changed, Deleted, Drop, Put, Present
    <3>3. CASE k \notin Deleted(held, wanted) \cup Upserts(held, wanted)
      BY <3>3 DEF Upserts, Added, Changed, Deleted, Drop, Put, Present
    <3> QED  BY <3>1, <3>2, <3>3
  <2> QED  BY <2>1, <2>2
<1>2. HasChanges(held, wanted) => held # wanted
  BY DEF HasChanges, Upserts, Added, Changed, Deleted
<1>3. held # wanted => HasChanges(held, wanted)
  <2> SUFFICES ASSUME held # wanted  PROVE HasChanges(held, wanted)
    OBVIOUS
  <2>1. PICK k \in TagKeys : held[k] # wanted[k]
    BY DEF TagMaps
  <2>2. k \in Upserts(held, wanted) \cup Deleted(held, wanted)
    BY <2>1 DEF Upserts, Added, Changed, Deleted, Present
  <2> QED  BY <2>2 DEF HasChanges
<1> QED  BY <1>1, <1>2, <1>3 DEF DiffIsExact

\* ResourceTags.Merge may run twice over the same tags, as a reload of a config does.
THEOREM MergeTwice ==
    ASSUME NEW t \in TagMaps, NEW other \in TagMaps
    PROVE  MergeIsIdempotent(t, other)
  BY DEF MergeIsIdempotent, Merge, TagMaps

\* InheritedTags: a nested child gets the tags of its parent but not its identity.
THEOREM ChildrenHaveNoIdentity ==
    ASSUME NEW t \in TagMaps
    PROVE  InheritsNoIdentity(t)
  BY DEF InheritsNoIdentity, InheritedTags, Drop, TagMaps

-----------------------------------------------------------------------------

LEMMA TagsForType ==
    ASSUME global \in TagMaps
    PROVE  TagsFor \in TagMaps /\ TagsFor[ResourceId] = Id
  BY IdType, ReservedType DEF TagsFor, TagMaps

LEMMA NormalizedType ==
    ASSUME own \in TagMaps, global \in TagMaps
    PROVE  Normalized \in TagMaps /\ Normalized[ResourceId] = Id
<1> DEFINE merged == Merge(own, TagsFor)
<1>1. merged \in TagMaps
  BY TagsForType DEF Merge, TagMaps
<1>2. merged[ResourceId] = Id
  BY TagsForType, ReservedType DEF Merge
<1>3. ResourceId # NameKey /\ NameKey \in TagKeys /\ Name \in TagValues
  BY NameType, ReservedType
<1> QED  BY <1>1, <1>2, <1>3 DEF Normalized, TagMaps

\* The variables of TagSync keep their shapes.
THEOREM TypeCorrect == FairSpec => []TypeOK
<1>1. Init => TypeOK
  <2>1. NoTags \in TagMaps
    BY DEF NoTags, TagMaps
  <2> QED  BY <2>1, SpecTagsType DEF Init, TypeOK, NoPlan
<1>2. TypeOK /\ [Next]_vars => TypeOK'
  <2> SUFFICES ASSUME TypeOK, [Next]_vars  PROVE TypeOK'
    OBVIOUS
  <2> USE DEF TypeOK
  <2>1. CASE RejectReserved
    BY <2>1 DEF RejectReserved
  <2>2. CASE Normalize
    BY <2>2, NormalizedType DEF Normalize
  <2>3. CASE Compare
    <3>1. NoTags \in TagMaps
      BY DEF NoTags, TagMaps
    <3> QED  BY <2>3, <3>1 DEF Compare, NoPlan
  <2>4. CASE Upsert
    <3>1. Upserted \in TagMaps
      BY PutDropType DEF Upserted
    <3> QED  BY <2>4, <3>1 DEF Upsert
  <2>5. CASE Delete
    <3>1. Remaining \in TagMaps /\ NoTags \in TagMaps
      BY PutDropType DEF Remaining, NoTags, TagMaps
    <3> QED  BY <2>5, <3>1 DEF Delete
  <2>6. ASSUME NEW cause, Abort(cause)  PROVE TypeOK'
    <3>1. NoTags \in TagMaps
      BY DEF NoTags, TagMaps
    <3> QED  BY <2>6, <3>1 DEF Abort
  <2>7. ASSUME NEW k \in TagKeys, NEW v \in TagValues \cup {NoTag}, Edit(k, v)
        PROVE  TypeOK'
    <3>1. [aws EXCEPT ![k] = v] \in TagMaps
      BY <2>7 DEF TagMaps
    <3> QED  BY <2>7, <3>1 DEF Edit, NoPlan
  <2>8. ASSUME NEW ks \in SUBSET TagKeys, Plan(ks)  PROVE TypeOK'
    <3>1. HasChangesIgnoring(aws, desired, ks) \in BOOLEAN
      BY DEF HasChangesIgnoring, HasChanges
    <3> QED  BY <2>8, <3>1 DEF Plan
  <2>9. CASE UNCHANGED vars
    BY <2>9 DEF vars
  <2> QED  BY <2>1, <2>2, <2>3, <2>4, <2>5, <2>6, <2>7, <2>8, <2>9
           DEF Next, Load, Update, Fault
<1> QED  BY <1>1, <1>2, PTL DEF FairSpec, Spec

\* Where an update is decides what it has left in AWS.
UpdateInv ==
    /\ pc \in {"loading", "rejected"} => result = "none"
    /\ pc \notin {"loading", "rejected"} => desired[ResourceId] = Id
    /\ pc = "upserting" => aws = current
    /\ pc = "deleting" => aws = Put(current, desired, Upserts(current, desired))
    /\ result = "ok" => pc = "idle" /\ aws = desired

LEMMA UpdateStep ==
    ASSUME TypeOK, UpdateInv, [Next]_vars
    PROVE  UpdateInv'
<1> USE DEF TypeOK, UpdateInv
<1>1. CASE RejectReserved
  BY <1>1 DEF RejectReserved
<1>2. CASE Normalize
  BY <1>2, NormalizedType DEF Normalize
<1>3. CASE Compare
  <2>1. HasChanges(aws, desired) <=> aws # desired
    BY DiffExact DEF DiffIsExact
  <2> QED  BY <1>3, <2>1 DEF Compare
<1>4. CASE Upsert
  BY <1>4 DEF Upsert, Upserted
<1>5. CASE Delete
  <2>1. Drop(Put(current, desired, Upserts(current, desired)), Deleted(current, desired)) = desired
    BY DiffExact DEF DiffIsExact
  <2> QED  BY <1>5, <2>1 DEF Delete, Remaining
<1>6. ASSUME NEW cause, Abort(cause)  PROVE UpdateInv'
  BY <1>6 DEF Abort, Updating
<1>7. ASSUME NEW k \in TagKeys, NEW v \in TagValues \cup {NoTag}, Edit(k, v)
      PROVE  UpdateInv'
  BY <1>7 DEF Edit
<1>8. ASSUME NEW ks \in SUBSET TagKeys, Plan(ks)  PROVE UpdateInv'
  BY <1>8 DEF Plan
<1>9. CASE UNCHANGED vars
  BY <1>9 DEF vars
<1> QED  BY <1>1, <1>2, <1>3, <1>4, <1>5, <1>6, <1>7, <1>8, <1>9
         DEF Next, Load, Update, Fault

\* An apply that ends well has left the desired tags and nothing else in AWS, the
\* resource's identity among them.
THEOREM SuccessIsSynced == FairSpec => []SuccessMeansSynced
<1>1. Init => UpdateInv
  BY DEF Init, UpdateInv
<1>2. TypeOK /\ UpdateInv => SuccessMeansSynced
  BY DEF UpdateInv, SuccessMeansSynced
<1>3. TypeOK /\ UpdateInv /\ [Next]_vars => UpdateInv'
  BY UpdateStep
<1> QED  BY <1>1, <1>2, <1>3, TypeCorrect, PTL DEF FairSpec, Spec

\* An update puts the new values before it drops what must go, so no tag that is both
\* there and wanted is ever missing, whatever call fails in between.
THEOREM NoGapInTags == FairSpec => NoTagGap
<1>1. TypeOK /\ UpdateInv /\ [Next]_vars =>
          [Updating => \A k \in Present(aws) \cap Present(desired) : aws'[k] # NoTag]_vars
  <2> SUFFICES ASSUME TypeOK, UpdateInv, Next, Updating,
                      NEW k \in Present(aws) \cap Present(desired)
               PROVE  aws'[k] # NoTag
    OBVIOUS
  <2>1. k \in TagKeys /\ aws[k] # NoTag /\ desired[k] # NoTag
    BY DEF Present
  <2>2. CASE Upsert
    <3>1. aws'[k] \in {aws[k], desired[k]}
      BY <2>1, <2>2 DEF Upsert, Upserted, Put
    <3> QED  BY <2>1, <3>1
  <2>3. CASE Delete
    <3>1. k \notin Deleted(current, desired)
      BY DEF Deleted
    <3>2. aws'[k] = aws[k]
      BY <2>1, <2>3, <3>1 DEF Delete, Remaining, Drop
    <3> QED  BY <2>1, <3>2
  <2>4. CASE UNCHANGED aws
    BY <2>1, <2>4
  <2> QED
    BY <2>2, <2>3, <2>4 DEF Updating, Next, Load, RejectReserved, Normalize, Compare, Update, Fault,
                            Abort, Edit, Plan
<1>2. Init => UpdateInv
  BY DEF Init, UpdateInv
<1> QED  BY <1>1, <1>2, UpdateStep, TypeCorrect, PTL DEF FairSpec, Spec, NoTagGap

\* util.TagDiffWithIgnoredKeys: it sees every difference but those it was asked to ignore.
LEMMA IgnoringIsExact ==
    ASSUME NEW held \in TagMaps, NEW wanted \in TagMaps, NEW ks \in SUBSET TagKeys
    PROVE  ~ HasChangesIgnoring(held, wanted, ks) <=>
               \A k \in TagKeys \ ks : held[k] = wanted[k]
<1>1. Drop(held, ks) \in TagMaps /\ Drop(wanted, ks) \in TagMaps
  BY PutDropType
<1>2. ~ HasChanges(Drop(held, ks), Drop(wanted, ks)) <=> Drop(held, ks) = Drop(wanted, ks)
  BY <1>1, DiffExact DEF DiffIsExact
<1>3. Drop(held, ks) = Drop(wanted, ks) <=> \A k \in TagKeys \ ks : held[k] = wanted[k]
  BY DEF Drop
<1> QED  BY <1>2, <1>3 DEF HasChangesIgnoring

\* A plan is forgotten as soon as what it was about may change.
PlanInv == (planned.made => pc = "idle") /\ IgnoredKeysHideOnlyThemselves

\* However runs, plans and edits follow each other, what a plan reports is unchanged
\* but for the keys it was asked to ignore, and nothing else it calls unchanged.
THEOREM PlansAreExact == FairSpec => []IgnoredKeysHideOnlyThemselves
<1>1. Init => PlanInv
  BY DEF Init, PlanInv, NoPlan, IgnoredKeysHideOnlyThemselves
<1>2. TypeOK /\ PlanInv /\ [Next]_vars => PlanInv'
  <2> SUFFICES ASSUME TypeOK, PlanInv, [Next]_vars  PROVE PlanInv'
    OBVIOUS
  <2> USE DEF PlanInv
  <2>1. CASE Load \/ Update \/ \E cause \in {"limit", "call"} : Abort(cause)
    <3>1. UNCHANGED planned /\ pc # "idle"
      BY <2>1 DEF Load, RejectReserved, Normalize, Update, Upsert, Delete, Abort, Updating
    <3> QED  BY <3>1 DEF IgnoredKeysHideOnlyThemselves
  <2>2. ASSUME planned' = NoPlan  PROVE PlanInv'
    BY <2>2 DEF NoPlan, IgnoredKeysHideOnlyThemselves
  <2>3. ASSUME NEW ks \in SUBSET TagKeys, Plan(ks)  PROVE PlanInv'
    <3>1. /\ planned'.ignored = ks /\ pc' = "idle" /\ UNCHANGED <<aws, desired>>
          /\ planned'.clean <=> ~ HasChangesIgnoring(aws, desired, ks)
      BY <2>3 DEF Plan
    <3>2. ~ HasChangesIgnoring(aws, desired, ks) <=>
              \A k \in TagKeys \ ks : aws[k] = desired[k]
      BY IgnoringIsExact DEF TypeOK
    <3> QED  BY <3>1, <3>2 DEF IgnoredKeysHideOnlyThemselves
  <2>4. CASE UNCHANGED vars
    BY <2>4 DEF vars, IgnoredKeysHideOnlyThemselves
  <2> QED  BY <2>1, <2>2, <2>3, <2>4 DEF Next, Compare, Update, Fault, Edit
<1> QED  BY <1>1, <1>2, TypeCorrect, PTL DEF FairSpec, Spec, PlanInv
=============================================================================
