------------------------------ MODULE TagSync ------------------------------
(***************************************************************************)
(* The tags of one resource, from the spec to AWS and run after run: the   *)
(* checks and the merge of config load (config/reserved_tags.go and        *)
(* tagsFor in config/internal_config.go), the comparison of a plan or an   *)
(* apply, and the two calls of an update, upserts first, as in             *)
(* resource/security_group.go and awsw/ec2.go.                             *)
(***************************************************************************)
EXTENDS Tags, Integers, FiniteSets

CONSTANTS OwnTags,     \* the tags a spec may give the resource
          GlobalTags,  \* the merged globalTags, once checkReservedGlobalTags passed
          Id,          \* the value of the resource's buildit:resource-id tag
          NameKey,     \* the tag Name
          Name,        \* the value Normalize gives it
          MaxTags      \* how many tags AWS allows on a resource

ASSUME SpecTagsType ==
           /\ OwnTags \subseteq TagMaps
           /\ GlobalTags \subseteq {t \in TagMaps : Present(t) \cap Reserved = {}}
ASSUME IdType      == Id \in TagValues
ASSUME NameType    == NameKey \in TagKeys \ Reserved /\ Name \in TagValues
ASSUME MaxTagsType == MaxTags \in Nat

VARIABLES
    own,      \* the tags of the spec
    global,   \* the global tags
    desired,  \* the tags after Normalize
    current,  \* the tags Compare found, during an update
    aws,      \* the tags in AWS
    pc,       \* where the run is
    result,   \* how the last apply ended, until someone edits the tags
    planned   \* what the last plan reported, with the keys it ignored

vars == <<own, global, desired, current, aws, pc, result, planned>>

NoPlan == [ignored |-> {}, clean |-> FALSE, made |-> FALSE]

Init ==
    /\ own \in OwnTags
    /\ global \in GlobalTags
    /\ desired = NoTags
    /\ current = NoTags
    /\ aws = NoTags
    /\ pc = "loading"
    /\ result = "none"
    /\ planned = NoPlan

-----------------------------------------------------------------------------
(* Config load *)

\* The global tags and the resource's identity, in a map of its own.
TagsFor == [global EXCEPT ![ResourceId] = Id]

\* checkReservedTags sees the tags as parsed, before anything is merged.
RejectReserved ==
    /\ pc = "loading"
    /\ Present(own) \cap Reserved # {}
    /\ pc' = "rejected"
    /\ UNCHANGED <<own, global, desired, current, aws, result, planned>>

\* The Name tag is filled in when neither the spec nor the global tags have it.
Normalized ==
    LET merged == Merge(own, TagsFor) IN
    IF merged[NameKey] = NoTag THEN [merged EXCEPT ![NameKey] = Name] ELSE merged

\* Normalize, and then checkBuilditTagsApplied.
Normalize ==
    /\ pc = "loading"
    /\ Present(own) \cap Reserved = {}
    /\ desired' = Normalized
    /\ pc' = IF Normalized[ResourceId] = NoTag THEN "rejected" ELSE "idle"
    /\ UNCHANGED <<own, global, current, aws, result, planned>>

-----------------------------------------------------------------------------
(* Runs *)

\* Compare during a plan honours --ignore-tags.
Plan(ignored) ==
    /\ pc = "idle"
    /\ planned' = [ignored |-> ignored, made |-> TRUE,
                   clean |-> ~ HasChangesIgnoring(aws, desired, ignored)]
    /\ UNCHANGED <<own, global, desired, current, aws, pc, result>>

Compare ==
    /\ pc = "idle"
    /\ IF HasChanges(aws, desired)
       THEN pc' = "upserting" /\ current' = aws /\ result' = "none"
       ELSE pc' = "idle" /\ current' = NoTags /\ result' = "ok"
    /\ planned' = NoPlan
    /\ UNCHANGED <<own, global, desired, aws>>

Updating == pc \in {"upserting", "deleting"}

\* Mutant: the tags to go are dropped before the new ones are put.
Replaced == Put(NoTags, desired, Upserts(NoTags, desired) \cap Upserts(current, desired))

Upserted == Put(aws, desired, Upserts(current, desired))

Upsert ==
    /\ pc = "upserting"
    /\ Cardinality(Present(Upserted)) <= MaxTags
    /\ aws' = Upserted
    /\ pc' = "deleting"
    /\ UNCHANGED <<own, global, desired, current, result, planned>>

\* Mutants: nothing is deleted; only the keys that stay are looked at.
DeletedNone == aws
DeletedAll  == [k \in Present(aws) \cap Present(desired) |-> aws[k]]

Remaining == Drop(aws, Deleted(current, desired))

Delete ==
    /\ pc = "deleting"
    /\ aws' = Remaining
    /\ pc' = "idle"
    /\ current' = NoTags
    /\ result' = "ok"
    /\ UNCHANGED <<own, global, desired, planned>>

\* Either call fails, or AWS refuses it for the number of tags; the update
\* stops there.
Abort(cause) ==
    /\ Updating
    /\ cause = "limit" =>
           pc = "upserting" /\ Cardinality(Present(Upserted)) > MaxTags
    /\ pc' = "idle"
    /\ current' = NoTags
    /\ result' = "error"
    /\ UNCHANGED <<own, global, desired, aws, planned>>

\* Someone else edits a tag between two runs.
Edit(k, v) ==
    /\ pc = "idle"
    /\ aws[k] # v
    /\ aws' = [aws EXCEPT ![k] = v]
    /\ Cardinality(Present(aws')) <= MaxTags
    /\ result' = "none"
    /\ planned' = NoPlan
    /\ UNCHANGED <<own, global, desired, current, pc>>

Load   == RejectReserved \/ Normalize
Update == Upsert \/ Delete \/ Abort("limit")
Fault  ==
    \/ Abort("call")
    \/ \E k \in TagKeys, v \in TagValues \cup {NoTag} : Edit(k, v)

Next == Load \/ Compare \/ Update \/ Fault \/ \E ks \in SUBSET TagKeys : Plan(ks)

Spec     == Init /\ [][Next]_vars
FairSpec == Spec /\ WF_vars(Load) /\ WF_vars(Update)

-----------------------------------------------------------------------------
(* Properties *)

\* Shapes of the variables.
TypeOK ==
    /\ own \in TagMaps /\ global \in TagMaps /\ desired \in TagMaps
    /\ current \in TagMaps /\ aws \in TagMaps
    /\ pc \in {"loading", "rejected", "idle", "upserting", "deleting"}
    /\ result \in {"none", "ok", "error"}
    /\ planned \in [ignored : SUBSET TagKeys, clean : BOOLEAN, made : BOOLEAN]

\* An apply that reports success has left exactly the desired tags, buildit's
\* identity tag among them, whatever the spec or AWS held before.
SuccessMeansSynced ==
    result = "ok" => aws = desired /\ aws[ResourceId] = Id

\* No step of an update takes away, even for a moment, a tag that is both there
\* and wanted: deletions never run ahead of the new values.
NoTagGap ==
    [][Updating =>
           \A k \in Present(aws) \cap Present(desired) : aws'[k] # NoTag]_vars

\* A plan calls the tags unchanged exactly when every difference is under a key
\* the user asked it to ignore.
IgnoredKeysHideOnlyThemselves ==
    planned.made =>
        (planned.clean <=> \A k \in TagKeys \ planned.ignored : aws[k] = desired[k])

\* Once calls stop failing and nobody edits the tags, repeated applies sync
\* them, unless old and new tags together exceed AWS's limit: the upserts come
\* first and are then refused for ever.
TooMany == Cardinality(Present(aws) \cup Present(desired)) > MaxTags
Converges ==
    /\ <>[][Load \/ Compare \/ Update]_vars
    /\ []<><<Compare>>_vars
    => <>[](aws = desired \/ TooMany)
============================================================================
