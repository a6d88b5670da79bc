-------------------------------- MODULE Tags --------------------------------
(***************************************************************************)
(* Tag maps and what buildit computes from them: the merge of a resource's *)
(* tags with buildit's own (resource/resource_tags.go) and the difference  *)
(* between the tags in AWS and the desired ones (util/map.go).             *)
(*                                                                         *)
(* A tag map is a function on TagKeys; a key that is not set maps to NoTag.*)
(***************************************************************************)
CONSTANTS TagKeys,    \* tag keys
          TagValues,  \* tag values
          NoTag,      \* stands for a key that is not set
          Reserved,   \* the keys with the prefix buildit:
          ResourceId  \* buildit:resource-id

ASSUME NoTagType    == NoTag \notin TagValues
ASSUME ReservedType == Reserved \subseteq TagKeys /\ ResourceId \in Reserved

TagMaps == [TagKeys -> TagValues \cup {NoTag}]
NoTags  == [k \in TagKeys |-> NoTag]

Present(t) == {k \in TagKeys : t[k] # NoTag}

\* Put the values des has for keys; drop keys.  What CreateTags and DeleteTags
\* do to the tags of a resource.
Put(t, des, keys) == [k \in TagKeys |-> IF k \in keys THEN des[k] ELSE t[k]]
Drop(t, keys)     == [k \in TagKeys |-> IF k \in keys THEN NoTag ELSE t[k]]

-----------------------------------------------------------------------------
(* util.TagDiff *)

Added(current, desired)   == Present(desired) \ Present(current)
Deleted(current, desired) == Present(current) \ Present(desired)
Changed(current, desired) ==
    {k \in Present(current) \cap Present(desired) : current[k] # desired[k]}

\* Mutant: a key in both maps is never compared.
UpsertsAddedOnly(current, desired) == Added(current, desired)

Upserts(current, desired) == Added(current, desired) \cup Changed(current, desired)

HasChanges(current, desired) ==
    Upserts(current, desired) \cup Deleted(current, desired) # {}

\* Mutant: only the tags in AWS are filtered.
HasChangesHalfIgnored(current, desired, ignored) ==
    HasChanges(Drop(current, ignored), desired)

\* TagDiffWithIgnoredKeys drops the ignored keys from both maps first.
HasChangesIgnoring(current, desired, ignored) ==
    HasChanges(Drop(current, ignored), Drop(desired, ignored))

-----------------------------------------------------------------------------
(* ResourceTags *)

\* The resource's own values win, except under a reserved key.
Merge(t, other) ==
    [k \in TagKeys |-> IF k \notin Reserved /\ t[k] # NoTag THEN t[k] ELSE other[k]]

\* What a nested child is given of its parent's tags.
InheritedTags(t) == Drop(t, Reserved)

-----------------------------------------------------------------------------
(* Facts about the operators *)

\* Upserting and then deleting what the difference names turns the tags in AWS
\* into the desired ones, and nothing is named when they are equal already.
DiffIsExact(current, desired) ==
    /\ Drop(Put(current, desired, Upserts(current, desired)),
            Deleted(current, desired)) = desired
    /\ HasChanges(current, desired) <=> current # desired

\* A second merge with the same tags changes nothing, whatever the first found.
MergeIsIdempotent(t, other) == Merge(Merge(t, other), other) = Merge(t, other)

\* Nothing buildit knows a resource by reaches a nested child, and all else does.
InheritsNoIdentity(t) ==
    \A k \in TagKeys : InheritedTags(t)[k] = IF k \in Reserved THEN NoTag ELSE t[k]
============================================================================
