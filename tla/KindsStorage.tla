----------------------------- MODULE KindsStorage -----------------------------
(***************************************************************************)
(* The kinds that keep data: S3 buckets, DynamoDB tables, EFS file systems *)
(* with their mount targets and access points, SQS queues.                 *)
(***************************************************************************)
EXTENDS KindCalls

-----------------------------------------------------------------------------
(* Queue *)

QueueCreate == <<Make({"attributes", "tags", "oldTags"})>>
QueueUpdate == <<On({"attributes"}, <<Put({"attributes"})>>)>> \o TagCalls
Queue ==
    [Row({"attributes", "tags", "oldTags"}) EXCEPT
        !.create = QueueCreate, !.update = QueueUpdate]

-----------------------------------------------------------------------------
(* Bucket.  One call replaces all tags.  Only forceDestroy empties it, and       *)
(* nobody reads which objects AWS answers it could not delete.                   *)

BucketCreate == <<Make({"oldTags"}), Put({"tags", "oldTags"}), Put({"events"})>>
BucketUpdate ==
    <<On({"tags", "oldTags"}, <<Put({"tags", "oldTags"})>>), On({"events"}, <<Put({"events"})>>)>>
BucketRemoval == <<On({"objects"}, <<Loose(Clear({"objects"}))>>)>>
Bucket ==
    [Row({"tags", "oldTags", "events"}) EXCEPT
        !.create = BucketCreate, !.update = BucketUpdate,
        !.parts = {"objects"}, !.kept = {"objects"}]
ForcedBucket ==
    [Bucket EXCEPT !.removal = BucketRemoval, !.kept = {}, !.clinging = {"objects"}]

-----------------------------------------------------------------------------
(* Table.  AWS takes one change of it at a time.  "keys" and "indexKeys" are     *)
(* fixed; "otherTtl" is that no other attribute expires items; the attribute     *)
(* definitions only travel with an index.  "onDemand" is that the table has no   *)
(* provisioned throughput where the definition has none: Compare panics over one *)
(* that the definition dropped.  A protected table loses its replicas to a       *)
(* destroy that is then refused.                                                 *)

Change(c) == <<Strict(Slow(c)), Await>>

TableCreate ==
    <<Slow(Adding(Make({"onDemand", "keys", "indexKeys", "definitions", "throughput", "sse",
                        "protection", "indexes", "oldIndexes", "policy", "oldReplicas",
                        "otherTtl", "tags", "oldTags"}), {"protection"})), Await>>
    \o Change(Adding(Put({"replicas"}), {"replicas"})) \o <<Put({"ttl"})>>

TableUpdate ==
    <<On({"onDemand"}, <<Refuse>>),
      On({"keys", "indexKeys"}, <<Refuse>>),
      On({"definitions"}, << >>),
      On({"throughput"}, Change(Put({"throughput"}))),
      On({"sse"}, Change(Put({"sse"}))),
      On({"protection"}, Change(Adding(Put({"protection"}), {"protection"}))),
      On({"oldIndexes"}, Change(Put({"oldIndexes", "definitions"}))),
      On({"indexes"}, Change(Put({"indexes", "definitions"}))),
      On({"policy"}, <<Put({"policy"})>>),
      On({"replicas", "oldReplicas"},
         Change(Adding(Put({"replicas", "oldReplicas"}), {"replicas"}))),
      On({"otherTtl"}, <<Refuse>>),
      On({"ttl"}, <<Put({"ttl"})>>)>> \o TagCalls

TableRemoval == <<On({"replicas"}, Change(Taking(Clear({"replicas"}), {"replicas"})))>>
TableDestroy == <<Strict(Slow(Delete))>>

TableFacets ==
    {"onDemand", "keys", "indexKeys", "definitions", "throughput", "sse", "protection",
     "indexes", "oldIndexes", "policy", "replicas", "oldReplicas", "otherTtl", "ttl", "tags",
     "oldTags"}

Table ==
    [Row(TableFacets) EXCEPT
        !.create = TableCreate, !.update = TableUpdate,
        !.removal = TableRemoval, !.destroy = TableDestroy,
        !.parts = {"replicas", "protection"}, !.kept = {"protection"}, !.ghost = TRUE,
        !.overlooked = {"definitions"}, !.lasting = {"definitions"}]

-----------------------------------------------------------------------------
(* File system.  "fixed" (encryption, key, performance) and "pointFixed" (user,  *)
(* root directory) are only warned of; a mount target's address is not compared. *)

Once(c) == <<Await, Strict(c)>>  \* each step first waits until it is available

FileSystemCreate ==
    <<Slow(Make({"fixed", "throughput", "tags", "oldTags", "oldMounts", "mountGroups",
                 "mountAddress", "oldPoints", "pointFixed", "pointTags"})), Await>>
    \o Once(Put({"backup"})) \o Once(Put({"lifecycle"}))

FileSystemChildren ==
    Once(Adding(Put({"mounts", "mountGroups", "mountAddress"}), {"mounts"}))
    \o Once(Adding(Put({"points", "pointFixed", "pointTags"}), {"points"}))

FileSystemUpdate ==
    <<On({"fixed"}, << >>),
      On({"throughput"}, <<Strict(Slow(Put({"throughput"}))), Await>>),
      On({"backup"}, Once(Put({"backup"}))),
      On({"lifecycle"}, Once(Put({"lifecycle"})))>> \o TagCalls

MountTargetUpdate ==
    <<On({"oldMounts"}, <<Slow(Put({"oldMounts"})), Await>>),
      On({"mountGroups"}, <<Put({"mountGroups"})>>),
      On({"mounts"}, Once(Adding(Put({"mounts", "mountGroups", "mountAddress"}), {"mounts"})))>>

AccessPointUpdate ==
    <<On({"oldPoints"}, <<Slow(Put({"oldPoints"})), Await>>),
      On({"pointTags"}, <<Put({"pointTags"})>>),
      On({"pointFixed"}, << >>),
      On({"points"}, Once(Adding(Put({"points", "pointFixed", "pointTags"}), {"points"})))>>

FileSystemRemoval ==
    <<On({"mounts"}, <<Slow(Taking(Clear({"mounts"}), {"mounts"})), Await>>),
      On({"points"}, <<Slow(Taking(Clear({"points"}), {"points"})), Await>>)>>
FileSystemDestroy == <<Strict(Slow(Delete)), AwaitGone>>

FileSystem ==
    [Row({"fixed", "throughput", "backup", "lifecycle", "tags", "oldTags", "mounts",
          "oldMounts", "mountGroups", "mountAddress", "points", "oldPoints", "pointFixed",
          "pointTags"}) EXCEPT
        !.create = FileSystemCreate \o FileSystemChildren,
        !.update = FileSystemUpdate \o MountTargetUpdate \o AccessPointUpdate,
        !.removal = FileSystemRemoval, !.destroy = FileSystemDestroy,
        !.parts = {"mounts", "points"}, !.ghost = TRUE,
        !.overlooked = {"fixed", "pointFixed", "mountAddress"},
        !.lasting = {"fixed", "pointFixed", "mountAddress"}]

StorageKinds ==
    [Queue |-> Queue, Bucket |-> Bucket, ForcedBucket |-> ForcedBucket,
     Table |-> Table, FileSystem |-> FileSystem]
=============================================================================
