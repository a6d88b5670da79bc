# A TLA+ verification of buildit

buildit (`src/`) reads YAML definitions of AWS resources, puts them in a
dependency graph and plans, applies or destroys them, one AWS call after the
other.  It keeps no state file: every run looks at AWS, compares and acts.  So
what makes it correct is what a *sequence* of runs does to the account, each run
able to stop at any call while other people work in the same account.  That is
what these modules model; TLC checks them on small instances, and TLAPS proves
most of their safety for every instance.

Paths below are relative to `src/`.

## 1. Inventory

### The pipeline

    cmd/*            flags, dispatch, SIGINT cancels a context
      config/config.go, types.go          files, templates, includes -> YAML -> Go structs
      config/internal_config.go           merge providers, init them, build the graph, apply overrides
      client/aws.go                       provider name -> credentials -> service clients
      config/dag.go, stack.go             vertices, edges, toposort, Cycle, plan/apply/destroy walks
        resource/*.go                     one file per kind: Compare, Apply, Destroy, Wait
          awsw/*.go                       lookups by name and multi-call helpers on the SDK

| Component | State | Operations | Hard because | Correct means |
|---|---|---|---|---|
| Resource graph `config/dag.go` | vertices, adjacency lists, in-degrees, a dependencies map | AddVertex, AddEdge, toposort, Cycle | Go map order; repeated, missing and circular `dependsOn`; errors are collected, not raised | the order respects every dependency; a spec is refused for a reason in the spec and for nothing else |
| Executor `config/dag.go`, `plan.go` | the walk's order and position, waitable resources; everything else is in AWS | plan, apply, destroy, concurrent waits | a run may fail or be killed anywhere, and the next one walks another order | AWS stays closed under dependencies; success means what it says; runs recover |
| Providers `client/aws.go`, `internal_config.go` | the providers map, the credentials registered per name | merge, override, assume roles, give each resource its provider | map order, two reserved names, roles assumed from roles | each provider ends in its own account and role |
| Overrides `internal_config.go` | the graph and its dependencies snapshot | merge an entry into matching groups, or add one | regular expressions over names; map order; checks made before the merge | no attribute or edge is lost |
| Tags `resource_tags.go`, `util/map.go`, `reserved_tags.go` | a tag map per resource | merge, inherit, diff, upsert, delete | the reserved namespace; two calls; AWS's limit | after a success the tags are those wanted |
| Route 53 records `route53.go` | none: the record sets of a name | look up by name, replace, upsert, delete | several resources share a name; a set of another type or policy is deleted first, in a call of its own | a resource keeps to its own set; the contract |
| CloudFront distribution `cloudfront_distribution.go` | none: a configuration that AWS takes only as a whole | read, merge, write under an ETag; wait; disable and delete | others own parts of the same document and edit it meanwhile | what is not managed survives; the contract |
| Standalone task `standalone_task.go` | the task it started | list, stop, run, poll, give up | answers may be lost, the task runs on when buildit does not | one task at a time; a report is true; a run ends |
| Each of 33 resource kinds `resource/*.go` | none: what AWS has | Compare, then apply / applyDiffs, Destroy, Wait | several calls of which any fails or loses its answer; lookups by name, tag or domain; waits | the contract below |
| Lookups `awsw/*.go` | a hosted zone cache | find by name | eventually consistent, ambiguous names | find one's own |
| Audit, validate, output | none | read-only | - | - |

Components interact only by calls on one goroutine, except: the waits of an
apply run concurrently at its end (`async.Group`), and AWS, ACM, ECS and other
people act at any time.  The walk relies on one contract for all kinds
(`ResourceContract`): an apply never removes the resource and reports success
only when it is as defined; a destroy never builds it and reports success only
when it is gone; either may stop anywhere with an error.

PROJECT.json lists all components with their status, and the hazards (what is
hard to test, line by line) with the properties that cover each.

## 2. Modules

| Module | Models | State <-> code | Actions <-> code |
|---|---|---|---|
| `ResourceGraph` | buildGraph's loop, addEdges, toposort | `vertices`, `dependencies`, `adjacent`, `inDegree`: the fields of Graph and Vertex; `leaves`, `degrees`, `sorted`, `relaxed`: toposort's locals | `Read*` one iteration over a declaration; `AddEdge`/`MissingVertex` one iteration of the edge loop; `StartSort`, `TakeLeaf`, `RelaxEdge`, `FinishSort` Kahn's algorithm |
| `CycleFinder` | Graph.Cycle, visitVertex, Stack, on the graph `ResourceGraph` (which it extends) has built and tried to sort | `path` and `cursors` are the Go call stack, `colours` the vertex status | one step per vertex entered, neighbour looked at, vertex left |
| `GraphExecutor` | the three walks and the waits, run after run | `order`, `at`: the range loop; `toWait`: waitableResources; `aws`: what is in AWS of each resource, at the grain the walks tell apart | `Plan`, `Apply`, `Destroy`, `Skip` one iteration; `Fail` an error that leaves anything the contract allows; `Crash`; `WaitDone`, `WaitFails` |
| `TopologicalOrder` | what ResourceGraph.Sort may return (`OrdersOf`), as `ResourceGraph` is shown to give it and `GraphExecutor` takes it | | |
| `DependencyOrder` | the promise of the executor (abstract) | what exists, and whether the run is limited | create over its dependencies, remove from under nothing |
| `ConfigLoad` | InternalConfig.Generate: `Providers`, and then `GroupOverrides` over the providers and credentials that left | the two modules' variables | `LoadProviders`, `BuildGraph` |
| `Providers` | mergeProviders, overrideProviders, AwsProvider.Merge, ToCredsProvider, InitAwsProviders, getEffectiveProviderAndId | `registry`: credentials as the chain of sessions they come from | one per file, entry, provider, resource |
| `Tags` | ResourceTags, TagDiff and their helpers, as operators on tag maps | | |
| `TagSync` | one resource's tags from the spec to AWS | `desired`: after Normalize; `current`: what Compare read | `Normalize`, `Plan`, `Compare`, `Upsert`, `Delete`, `Abort`; `Edit` is another person |
| `GroupOverrides` | buildGraph over security groups and overrideSecurityGroups | `vertices`, `dependencies`, `errors` | `Read`; `MergeEntry`, `AddEntry`, `SkipEntry`, `RefuseEntry` one entry each |
| `SecurityGroup` | security_group.go with ec2.go | `todo`: the calls the operation has yet to make, in the code's order | `Begin` compares and fixes the calls; `MakeCall`, `Refused`, `Fail` one AWS call; `LookAgain`/`GiveUp` the wait for interfaces; `Others(...)` someone's edit |
| `Certificate` | certificate.go, acm.go and their use of route53.go | `certs`, `records`: the account; `on`, `left`, `retag`, `looks`: the locals of the run | `Find*` FindCertificateForResource, `Compare*`, `Request`, `See*`, `Place`, `Tag`, `Clear`, `Delete`; `Offer`, `Issue`, `Lapse` are ACM |
| `EcsService` | ecs_service.go with application_autoscaling.go, and taskdef.go as far as its revisions matter | `service`, `taskDef`: what AWS has; `op`, `todo`, `looks`: the running operation and the calls it has yet to make; `want`, `latch`: Wait's wantTaskDefARN and whether deploymentID still is the PRIMARY deployment's | `Apply`, `Destroy` compare and fix the calls; `MakeCall`, `Refused`, `Fail` one AWS call; `See*` one look of Wait or of waitUntilServiceInactive; `Ecs(...)` what ECS does; `Others(...)` the task definition's apply and people |
| `StandaloneTask` | standalone_task.go | `tasks`: what ECS knows of each task of the name; `listed`, `doomed`, `mine`, `polls`: the locals of the run | `List`, `Describe`, `StopNext`, `Run`, `PollOver`, `PollAgain`, `GiveUpTask` one AWS call each; `FailTask` an error, a lost answer or a kill; `EndTask`, `Forget` are ECS |
| `DnsRecords` | route53.go, for the resources of one DNS name | `sets`: the record sets of the name; `todo`: the calls the operation has yet to make; `blind`: its own set was behind another one | `ApplyRecord`, `DestroyRecord` fetch, compare and fix the calls; `MakeCall`, `Refused`, `FailRecord` one AWS call; `DisturbRecords` other people |
| `Distribution` | cloudfront_distribution.go with awsw/cloudfront.go | `config`: the configuration AWS has, what buildit does not manage included; `calls`: the calls yet to make, an update with the configuration it writes; `current`: whether the ETag that was read still is the configuration's | `ApplyDistribution` (diffExisting), `WaitForDistribution`, `DestroyDistribution`; `CallCloudfront`, `Rejected`, `Lost` one AWS call; `Deployed` is AWS, `Meddle` other people and edits of the definition |
| `Edge` | what `DnsRecords` and `Distribution` promise together; neither's code calls the other's | the two modules' variables | |
| `KindCalls` | the vocabulary of the tables below: an AWS call by its effect, a row per kind | a row lists the calls of the code's apply, applyDiffs and Destroy, in their order; a *facet* is what a call sets and Compare may look at; `with` and `unless` are for steps that depend on what else differs, `Loose` is a call whose answer nobody reads | |
| `KindRules` | how the calls of a row are put in order for an operation (`Plan`, `Due`), and the rules of good order that the code of every kind keeps (`InOrder`): they speak of single steps, so they can be read off a row, and TLC evaluates them for all 30 | a call is known by its place: the step it belongs to, and its number there | |
| `KindsMonitoring`, `KindsStorage`, `KindsNetwork`, `KindsEdge`, `KindsCompute`, `KindsEvents` | the tables: 30 rows, a kind each or a kind as some definitions use it (`ForcedBucket`, `OpenGroup`), from log groups and task definitions to MSK connectors | | |
| `ResourceKinds` | one resource of any kind in a table | `status`, `right`, `parts`: what AWS has; `plan`, `todo`: which steps the operation takes, and the places of the calls it has yet to make; `began`: the status Compare read | `Apply`, `Destroy` compare and fix the calls; `MakeCall`, `Refused`, `Fail`, `Ignored` one AWS call; `Kill` an interrupt between two calls where the code would clean up; `Succeed`; `Settle` is AWS, `Others(...)` people |
| `ResourceContract` | what the walks rely on for one resource (abstract) | condition, call, outcome | `SecurityGroup`, `Certificate`, `EcsService`, `DnsRecords`, `Distribution` and every row of `ResourceKinds` implement it |
| `ResourceGraphProofs`, `GraphExecutorProofs`, `ConfigLoadProofs`, `TagsProofs`, `SecurityGroupProofs`, `EdgeProofs`, `EcsProofs`, `ResourceKindsProofs` | the theorems of section 4 | | |

The models are composed by what they promise each other.  `ResourceGraph` hands
`GraphExecutor` an order of `TopologicalOrder.OrdersOf` (theorem `BuildIsWalkable`).
One visit of `GraphExecutor` stands for a whole call on a resource: its `Leftovers` of
a failed call are exactly what any number of steps of `ResourceContract` reach
(theorem `VisitsAreCalls`), so each kind shown to implement the contract discharges
the executor's assumption about it.  `TagSync` is the tag part of every kind; in `SecurityGroup`
it appears as the two calls `tag` and `untag`.

Each `MC<Module>` defines the small instance, and each `.cfg` a run.  `MCEcsService`
(a service, a standalone task) and `MCEdge` (the records of a name, a distribution)
hold two modules that share no state in the code either: `subject` says which of the
two a behaviour follows, so each is explored on its own and no interleaving of the
two is.  An operator
introduced by "Mutant" in a module is a plausible bug kept beside the definition it
would replace: substituting it must break the property PROJECT.json names.

## 3. Runs

| Run | Instance | Shows |
|---|---|---|
| `graph_build` | every spec over 3 keys of <= 3 declarations with <= 2 dependencies (one declaration only has 2), valid or not; every graph on 4 keys where each depends on some key, one of them on two | a spec that can be built is, whatever the map order, completely and dependencies first; nothing else is; where the sort fails the search for a cycle ends and names a real one |
| `executor` | 3 resources, the 8 graphs with edges k2->k1, k3->k1, k3->k2, 2 waitable, 2 comparable, no targets or the first and the last | success of plan, apply, destroy means what it says; `DependencyOrder` implemented through failures, kills and runs with targets; repeated applies recover; no deadlock |
| `config_load` | every choice of providers (5 names, 6 override patterns, 2 accounts, 2 arns, the three kinds of `default`) with a few groups; every choice of groups (4 names, 6 patterns, <= 2 groups, <= 2 entries) with one provider besides the reserved ones | roles are assumed from the flags' default whatever the map order; every group of a loaded graph has credentials, its edges follow its merged dependencies, nothing of an entry is lost in any order, nothing invalid is loaded |
| `provider_merge` | as `config_load` | finding: an overridden `roleArn` is lost |
| `group_identity` | as `config_load` | finding: an override with tags removes the resource-id tag |
| `tag_sync` | 4 keys, 2 values, limit 3 tags | success means synced; no gap during an update; ignored keys hide only themselves; converges |
| `security_group` | 2 inbound permissions, one naming the group itself, 1 outbound, 2 descriptions, 2 tags, 2 looks, 3 definitions | rules only ever move towards the definition; `ResourceContract`; repeated applies converge |
| `certificate` | 2 resources sharing a domain, 2 domains, 2 certificates, 2 looks | no run takes another's certificate; one certificate each; success is not pending; `ResourceContract`; converges |
| `edge` | records: 9 definitions of one or two resources (each type, simple, weighted, alias, two that do not fit together), <= 4 sets put by others, with and without the apex's own; distribution: 2 definitions, 2 origins, 3 domains of which two have one shown name, unmanaged behaviours, shields and settings that go with a type | what is not a resource's own stays (`OthersKept`); `ResourceContract` for both; repeated applies and destroys get there from wherever an earlier one stopped, but for the cases named |
| `ecs_service` | service: 2 definitions (rolls back and autoscaled; stops and forced), 2 revisions, 2 looks; task: 3 tasks, 4 definitions (a limit of 0, 1, 2 looks or none, exit codes looked at or not, concurrent) | a roll back is not reported as a success; `ResourceContract`; repeated applies deploy the newest revision whatever earlier runs and ECS left; one task is wanted at a time, reports of tasks are true, every run ends |
| `resource_kinds` | each of 30 rows, <= 2 facets wrong at a time by an edit | `ResourceContract`; no operation runs into a refusal it could have waited or prepared for (`Unobstructed`; but for the deletion of what has parts that a destroy leaves to others, or that AWS may silently have left); repeated applies and destroys get there from wherever a failure at any call left the resource |
| `ecs_wait` | as `ecs_service` | finding: a wait for a service that is gone succeeds |

### Why these bounds are enough

* Graph: duplicates, a dependency repeated, a self-loop, a missing key and a cycle
  of length 2 or 3 all need at most 3 declarations; a search that must come back
  over a whitened vertex, or whose cycle does not begin at its root, needs 4
  vertices.  One fork is enough to have it look somewhere in vain first.
* Executor: a chain, a fork and a join have 3 resources; two waitable ones are the
  least that wait concurrently; runs are unbounded in number.
* Providers and overrides: two entries are the least that interfere by order; two
  matches (a name and one that contains it) the least for unanchored patterns.
* Security group: one permission to keep, one to add or revoke, two descriptions
  for the "same permission, other description" case, a duplicate and a
  contradictory definition.  `MaxRetries` (15 in the code) is 2: the first look and
  the last.
* Certificate: two of everything that can be confused.  `MaxLooks` (40 in the code)
  is 2; the number of certificates is also the account's quota, so a request
  that is refused is included; at most one certificate without a tag at a time
  (`RequestByHand`, `UntagByHand`), so "several unclaimed" does not occur.
* ECS: two revisions are the least that a roll back or a stale deployment can be told
  by; deployments are unbounded in number, since only "the one first seen, or another"
  is kept of an id; of the settings of a definition only the two combinations named
  are checked.  Counts of tasks are abstracted:
  `failing` is "the threshold is reached", `completed` is "running equals desired and
  the rollout COMPLETED"; the definition wants at least one task, so that a draining
  service differs, and enables `checkDeployment` (without it Wait does nothing).
* Kinds: a set of things (tags, aliases, targets, rules) is two facets, "those wanted
  are there" and "nothing else is", the grain at which Compare and the calls tell
  sets apart.  An edit leaves at most two facets wrong (`MaxDifferent`): enough for
  every pair of steps of an update to be due together, and for each to be due alone;
  creations, failures and the mutual effects of calls leave any number wrong.
  `ExceptionsAreEarned` in `MCResourceKinds` has TLC check that a row excuses its kind
  (`overlooked`, `lasting`, `clinging`) from exactly the facets and parts that its own
  calls do not reach, or reach only by a call whose answer nobody reads.
* Records: an alias, a CNAME (which suffers nothing beside it) and two more types;
  two weighted siblings and a simple set are the least with which a resource can be
  blind to its own set or delete another's.  Four sets are one more than two
  resources and a stranger.  A record's values, TTL and weight are two values, since
  the code compares them one by one and puts the whole.
* Distribution: an origin to keep and one to add, drop or retype, with each kind of
  unmanaged setting; `enabled` stands for all managed scalars (a definition always
  wants it, so that one with `enabled: false` is not checked).  Others act at most once
  during an operation, any number of times between two.
* Tasks: one of an earlier run, one of someone else's and one's own; one limit that
  allows no look.  An hour after its end ECS forgets a task, so runs are unbounded.
* Tags: identity, Name, one wanted and one foreign key; at limit 3 the upserts may
  be refused.

### Fairness

Liveness is checked under weak fairness of the running operation only (`Next` of a
load, `Walk` and `Waits`, `Update`, `Progress`, `TaskProgress`,
`DistributionProgress`): one goroutine runs straight on, and
the SDK's calls return or time out.  Nothing is assumed of users; "keeps applying"
and "faults stop" are hypotheses of each property (`[]<><<Apply>>`, `<>[][...]`).
`GraphExecutor` assumes that AWS settles a resource left alone, `Certificate` that
ACM offers the records of a pending certificate and issues it once they are there,
`EcsService` that ECS completes a deployment that keeps being there and drains a
service that was deleted (`Recovers` supposes that tasks do start: `TaskFails` and
`Trip` are faults that stop), `Distribution` that CloudFront deploys what it was given (`Deployed`),
`ResourceKinds` that AWS ends what it is busy with (`Settle`): every wait in the code is a poll for that.
`CHECK_DEADLOCK FALSE` is set where the program ends (a load, a search) and where
the model has a state only a person changes; `executor` checks deadlock.
`EveryRunEnds` of a standalone task assumes nothing of ECS: the loop is bounded by the
time limit, and its task need not end.

## 4. Proofs

Each `<Module>Proofs` extends the module it is about.  The theorems hold for every
value of the constants that satisfies the module's ASSUMEs, which TLC evaluates on
its instance; an ASSUME says only of what kind a constant is, except where one is
explained below.  An invariant that is not inductive by itself is proved from a
stronger one, a conjunction of named parts, that TLC has checked as an invariant of
the module's run before it was proved.  `EcsProofs` is about `EcsService`
and `StandaloneTask`, `EdgeProofs` about `Certificate` and `Edge`.

| Theorem | Property | Inductive invariant and why it is needed |
|---|---|---|
| `ResourceGraphProofs.DegreesAreExact` | `DegreesCountWaiting` | `GraphInv`: `WiredOK`, an in-degree is the number of edges, and every edge is a dependency that was wired; `KahnOK`, a working degree is the number of edges not yet relaxed, and the vertices with none are those queued or sorted |
| `ResourceGraphProofs.OrderHolds` | `OrderIsSound` | `OrderOK` of `GraphInv`: a vertex is queued only when no edge is left, so all it depends on is sorted |
| `ResourceGraphProofs.BuildIsWalkable` | (what `GraphExecutor` takes for granted) | `GraphInv`: `sorted` reaches every vertex once, and each after its dependencies |
| `ResourceGraphProofs.BuildableNeverRefused` | (the safety half of `BuildableIsBuilt`) | `RefusalOK`: a refusal has a reason in the spec.  An acyclic spec is never called cyclic: of the vertices left over one would depend on none of the others, so its degree would be 0 and it would have been sorted |
| `ResourceGraphProofs.CyclesAreReal` | `ReportedCycleIsReal` | `FinderOK`: the path is the grey vertices, each once, and each is a dependency of the next |
| `GraphExecutorProofs.TypeCorrect` | `TypeOK` | itself |
| `GraphExecutorProofs.Implementation` | `ImplementsDependencyOrder` | `WalkInv`: the order is topological and everything behind the position exists (apply), or is gone (destroy): a run without `--targets` creates a resource whose dependencies exist *because the walk has passed them*, also where earlier runs with `--targets` left holes |
| `GraphExecutorProofs.DependenciesStayClosed`, if `TargetSets = {{}}` | | from the promise, whose steps then all preserve closure |
| `GraphExecutorProofs.SuccessMeansDone` | `AppliedMeansDone` | `DoneInv`: each targeted resource passed matches, and is waited for or was seen settled |
| `GraphExecutorProofs.VisitsAreCalls` | (what each resource owes `GraphExecutor`) | by cases: `ResourceContract!Reachable` is reflexive, transitive, holds the goal, and is `Leftovers` |
| `GraphExecutorProofs.DestroyMeansGone`, `PlanStaysCurrent` | `DestroyedMeansGone`, `PlanIsCurrent` | `OtherInv`: what is behind the position is gone, or has a true entry in the plan |
| `ConfigLoadProofs.RolesFromContext` | `AssumedFromContext` | `ProvidersInv`: in each phase, who has credentials and from which chain; `default` has the context's while it is not declared |
| `ConfigLoadProofs.GroupsHaveCredentials`, `EdgesOfMergedGroups`, `LoadsAreComplete` | `CredentialsForEveryGroup`, `EdgesFollowGroups`, `OverridesReachTheSpec` | `GroupsInv`: a group that was read has its rules and those of the entries that have reached it since, and its identity is its own |
| `TagsProofs.DiffExact`, `MergeTwice`, `ChildrenHaveNoIdentity` | | none: operators |
| `TagsProofs.TypeCorrect`, `SuccessIsSynced`, `NoGapInTags`, `PlansAreExact` | `TypeOK`, `SuccessMeansSynced`, `NoTagGap`, `IgnoredKeysHideOnlyThemselves` | `UpdateInv`: while deleting, AWS has exactly what the upsert made of the tags Compare read (nobody edits during an update in this model; in `SecurityGroup` they do) |
| `SecurityGroupProofs.NeverAwayFromSpec` | `OnlyTowardsSpec` | `GroupInv`, see below |
| `SecurityGroupProofs.KeepsContract` | `ImplementsContract` | `GroupInv` |
| `EdgeProofs.OneEach`, `AppliedIsNotPending`, `OthersKeepTheirs` | `OneCertificateEach`, `SuccessIsNotPending`, `OwnCertificates` | `CertInv`: what a run holds is all that is tagged as its own (`HeldOK`), also where others act; and, while they do not, it is its own or nobody's (`UntouchedOK`) |
| `EdgeProofs.KeepsContract`, if `Focus \notin Renamed` | `ImplementsContract` | `CertInv` |
| `EdgeProofs.OthersAreKept` | `OthersKept` | `RecordsInv`: a name has one set of each type and identifier (`SlotsOf`), and the calls an operation may make are to put its own set, and to delete sets of no one else's slot (`CallsFor`).  `DistributionInv`: the configuration an operation will write keeps what is not managed of the one AWS has, as long as its ETag would be taken (`WritesOK`) |
| `EdgeProofs.EdgeKeepsContract` | `EdgeContract` | `RecordsInv` and `LeadsThere`: unless its own set was behind another or someone interfered, the last call puts what is wanted, or every set of its slot has its deletion to come.  `DistributionInv` and `WorkAchieves`: all that is not as declared has its call to come, and whatever is written is as declared |
| `EcsProofs.RollBacksAreReported` | `RollBackIsReported` | `RollInv`: the deployment an apply began is the PRIMARY one and not what was steady before, or ECS rolled it back to that |
| `EcsProofs.KeepsContract` | `ImplementsContract` | `RollInv` and `WorkOK`: the calls an undisturbed apply has yet to make cover all that still differs |
| `EcsProofs.OneTaskAtATime`, `TaskReportsAreTrue` | `OneTaskWanted`, `ReportsAreTrue` | `TaskInv`: at each step a run knows every task of buildit's own that is wanted: it is listed, then doomed, then there is none, then the one it started |
| `ResourceKindsProofs.NeverObstructed` | `Unobstructed` | `IInv`: of every step that is due whenever two with calls left are, all later calls are left (`Whole`), AWS is where the calls left to make need it (`Phase`), a strict call has its wait still to come while AWS is busy (`Rest`), and every part that is sure to go has a call left that takes it away and is not ignored (`Clearing`) |
| `ResourceKindsProofs.KeepsContract` | `ImplementsContract` | `IInv`: every facet that is promised is right or about to be set, and set again after any call left that undoes it (`Creating`, `Updating`) |

The contract proofs go step by step: each call AWS may perform takes the condition to
where the contract lets it (`CallReaches`), also when its answer is lost and the run
ends with an error; every step of buildit is a step of the contract or leaves its
variables alone; someone else's is `Disturb`.  What makes them hard is a success: the
invariant must say of the calls *still to be made* that they lead to the goal from
what AWS has *now*.  In `SecurityGroup` that is `RulesAhead` and `TagsAhead`: what is
defined is what the calls to come open, and what is there now without what they
close.  It survives a call because the calls keep an order (`Ordered`: the group is
made first, and a direction's rules are revoked before any is authorized), and
because what is to be revoked is really surplus (`ClosesSurplus`), or the rule AWS
gave a new group.  It needs that AWS holds no permission twice (`OnePerPerm`): a
revocation names permissions and not descriptions.

`ResourceKinds` is proved for tables, not for the table: its one assumption is that
the rows are `InOrder`.  Each of those rules speaks of one step or of two calls of a
plan, and the proof is that such rules are enough whichever steps are due together,
wherever the last runs stopped.  Which steps are due depends on what differs, so the
invariant never says which calls are left, only that whoever needs one still finds it
among them: the wait between a slow call and a strict one belongs to a step that `Joins`
the two (that of one of them, or one for when both are due, as that of a connector,
`Waited`), such a step is due with them (`DueJoins`), and the steps are left from their
front (`Whole`), so the wait is left too (`WaitsBetween`).  What a call does that AWS may
ignore nobody relies on: a part that only such a call removes is named `clinging`, and a
facet that only such a call sets `overlooked`.  A facet that is wrong has a step due that sets it
or stops the apply (`UpdateSettles`), also where its own step leaves it to another
(`unless`).  The rules were found this way: each is what some leaf of the proof needed
and every row of the code was seen to keep.

A record is looked up by taking the first of what Route 53 lists, so the proofs about
records rest on a lemma about that order: by type and then identifier, the sets of a
name are listed each once (`ListingFacts`; the place of a set is the number of sets
before it, and two sets of different slots have different places).  A distribution is
written as a whole, so there the lemma is about the merge (`Merged`): it keeps what is not managed
and agrees with what is generated in all that is.

Assumptions that are more than a type:

* `KindsInOrder` (`ResourceKinds`): every row of the table keeps the rules of `KindRules`;
  the rows of the code do, as TLC evaluates, and a row without a wait where AWS
  needs one, or with a facet that nothing sets, does not.
* `FiniteType` (`SecurityGroup`): there are finitely many permissions and descriptions,
  or `SetToSeq` would not have to be a sequence of the rules that differ.
* `ChainsType` (`Providers`): no chain of sessions is the value "no credentials";
  `NoTag`, `NoArn`, `NoId` and `NoDomain` are likewise outside the sets they are not in.
* `KeysFinite` (`ResourceGraph`, `GraphExecutor`): a spec has finitely many keys.
* `Focus \notin Renamed` (`EdgeProofs.KeepsContract`; the run has it too): if
  the domain is edited, a certificate may be the resource's by its tag and of the old
  domain, and then a run that finds another's certificate of the new domain does not
  find it.  That is the defect named in section 5.

* `OrdersType`, `SetsType` (`DnsRecords`): the types and the identifiers each have one
  order, in which Route 53 lists them, and those of the sets are among them; the apex has
  one set of a type.

Only model-checked: all liveness (`BuildableIsBuilt`, `CycleIsFound`, `Recovers`,
`EveryRunEnds`, `Converges`, `EdgeConverges`), since fairness and ENABLED are beyond the
prover.  Every safety property that a run checks is a theorem; of `BuildableIsBuilt` the
proof has the safety half.

## 5. Where the code and its documents part

Three are findings with a counterexample (runs marked "finding").  Others were met
while modelling; each is in the model as the code does it and is named in the
property it limits:

* `resource/security_group.go:980`: a group is looked up by name alone, and Compare
  ignores vpc and description.
* `resource/security_group.go:755`: `isDuplicate` only warns;
  docs/resources/security_group.md:22 says only the first instance is applied.
  A definition with two descriptions for a permission never converges
  (`Contradictory`).
* `resource/security_group.go:732`: a rule naming the group itself is resolved
  before the group is made (`Uncreatable`).
* `config/internal_config.go:845`: groups are validated before overrides, not after
  as docs/overrides.md:40 has it.
* `config/internal_config.go:1091`: patterns are unanchored, so the entry of one name
  reaches longer ones (docs/overrides.md:96).
* `resource/resource_tags.go:36`: an override's tag never replaces one the group has
  (docs/overrides.md:36).
* `config/internal_config.go:1091`: the pattern is matched against `provider::name`, so
  an entry named like a provider reaches all of its groups; a merge ignores the
  entry's own `provider`.
* `config/internal_config.go:100`: the override's globalTags are never merged into
  anything.
* `client/aws.go:307`: a configuration that declares `default` makes the base of
  each role depend on map order (excluded from `AssumedFromContext` by name).
* `resource/certificate.go:302`: a FAILED certificate compares equal, and the apply
  succeeds (`SuccessIsNotPending` allows it).
* `awsw/acm.go:201`: certificates of other domains are searched for the resource's id
  only when the new domain has none and is not the resource's name; otherwise a
  changed `domainName` gives the resource a second certificate, although
  docs/resources/acm_certificate.md:17 says such a change fails the plan
  (`OneCertificateEach` leaves out `Renamed` resources).
* `resource/ecs_service.go:588`: the comment calls a completed deployment of another
  id a roll back, but at the first look there is no id to compare: a deployment of
  the revision that was steady before (a forced one, or one that changes only the
  network) that is rolled back before that look is accepted (`RollBackIsReported`
  asks for a new revision).
* `resource/ecs_service.go:519`: Wait never looks at the service's status, and accepts
  the complete deployment of a service that is draining.
* In the tables, each a row's `overlooked` or `lasting` facet, a `Refuse`, a `GiveUp`, a
  `ghost` or a `kept` part:
  * *Compared but never sent*: an alarm's unit; a role's session duration
    (`resource/iam_role.go:239`); a listener's default certificate unless an
    additional one differs too (`resource/load_balancer_listener.go:504`);
    DynamoDB's attribute definitions on their own.
  * *Compared only while the definition has any*: static targets
    (`resource/target_group.go:394`, `:514`): those that a definition has dropped
    altogether stay registered (`OpenGroup`).
  * *A panic on every run*: a definition that drops a table's `provisionedThroughput`,
    which docs/resources/dynamodb.md:14 has as the way to on-demand billing:
    `resource/dynamodb.go:731` dereferences what is then nil, in a message about the
    difference (`onDemand`, a `Refuse`: `Recovers` does not hold of it).
  * *A limit that is run into on every run*: AWS keeps five versions of an IAM policy, and
    `resource/iam_policy.go:418` makes the new one before it deletes the others.  If five
    are there, left by runs that stopped in between or by people, each apply of a new
    document is refused (`room`, a `Refuse` likewise).
  * *A wait that is left out*: a connector's capacity is changed without one unless its
    configuration differs too (`resource/msk_connector.go:391`), and AWS refuses it while
    the connector is at work; the next run gets it done.
  * *Sent but never compared*: an alarm's `enabled`, a mount target's address, a layer's
    code; settings dropped from the definition of a Lambda function, an EventBridge
    connection or destination (nil leaves them as they were).
  * *Seen and not repaired*: a log group's retention and a table's time to live cannot
    be taken back; differences of an inference profile or a file system that need a
    new one are warnings.
  * *Later than the first apply*: a log group's own tags.
  * *Success without the change*: an MSK update that is not supported returns
    `errors.Wrapf(nil, ...)`, which is nil (`resource/msk_connector.go:242`,
    `resource/msk_plugin.go:131`, `resource/msk_worker_configuration.go:119`);
    the count of failed entries of PutTargets (`resource/eventbridge_target.go:712`) and
    of RemoveTargets (`resource/eventbridge_rule.go:493`) is not read, so that a rule may
    lack a target or keep an old one after an apply that ended well, and a rule that keeps
    one is refused to be deleted; nor are the errors of DeleteObjects (`awsw/s3.go:272`),
    so that a bucket that `forceDestroy` was to empty may be refused to be deleted.
  * *A destroy that stops half way*: a protected table loses its replicas, a protected
    balancer its listeners, before the deletion is refused; the loop over a layer's
    versions never passes the marker on.
  * *A resource that is being deleted is taken for existing* by an apply right after a
    destroy: tables, file systems, delivery streams, connectors, plugins.
* CloudFront: a function's comment and runtime are compared with the development stage
  only (`resource/cloudfront_function.go:155`); a run without differences does not
  wait for a VPC origin that is still deploying
  (`resource/cloudfront_vpc_origin.go:201`).
* Route 53:
  * Two resources of one name with different types, or one simple and one weighted,
    take each other's place for ever: Compare looks at the first set of the name
    (`resource/route53.go:367`), and a difference of type destroys what was found (:375).
    The comment at :359 and docs/resources/route53_record.md:35 speak of a record that
    changes its type.  `OthersKept` and `EdgeConverges` are about resources that can
    share a name (`Harmonious`), and the contract about runs that are not `blind`.
  * Destroy deletes only the first set it finds (:249).
  * A record at the apex (the comment at :52 has it as supported) is found to have a
    different type than NS and SOA, which Route 53 does not let go.
  * Alias targets are looked up only after the sets they replace are deleted, so that
    a load balancer that does not exist leaves the name unresolved.
  * Not in the model: only the first 50 sets are looked at (:510), and an alias of a
    distribution never compares equal, for want of the dot AWS ends it with (:675).
* CloudFront distribution: `resource/cloudfront_distribution.go:1370` ("it cannot mask
  or invent a difference") and :1736 ("the mapping preserves equality") suppose that two
  AWS values never have one supplied name; a VPC origin and a load balancer both called
  `web` do, and an origin that goes to the wrong one is not seen
  (`DistributionContract` is stated up to shown names).  An origin taken out of the
  definition that a behaviour or group buildit does not manage still targets makes
  every update be refused (`Held`).
* Standalone tasks: stopping does not wait, so that the old task and the new one may
  execute at once (`OneTaskWanted` is about desired status); a definition that
  overrides no container is never failed by an exit code
  (`resource/standalone_task.go:373`); a limit under 15 seconds stops the task without a
  look (:334); one that ended since the last look is reported as late (:362).  Not in
  the model: all tasks of the name are described in one call, of which AWS takes
  100 (:438).
* Task definitions: Compare dereferences what may be nil when a task role is added
  (`resource/taskdef.go:640`), when the execution role cannot be found (its error
  becomes a difference at :648 and its result is used at :652), and when a volume
  turns from EFS to a bind mount or back (:1212, :1227): the run panics before its
  first call, which the model has as one that fails (`shape`, a `Refuse`).  Capabilities that are taken out
  of the definition (:1038) and EFS's IAM authorization are never compared (`unseen`).
* At the tag limit the upserts come before the deletes and are refused on every run
  (`TooMany`).

## 6. Not modelled

Text processing (templates, includes, YAML), output, the read-only audit command, the
SDK's retries (a call that fails in the end is a failed call), two buildit processes
at once (nothing in the code coordinates them). The tables abstract a kind to its
facets: what a container definition, a listener's action or a table's index contains
is one facet each, and how two of them are compared is not modelled; nor is how a
distribution's cache behaviours, aliases and certificates are. Two panics while a
resource is read, in a destroy too, are left out: `resource/dynamodb.go:955` over a
table for which AWS answers no billing mode, and `resource/cloudwatch_loggroup.go:275`
over a metric filter made by hand without a default value. The versions of an IAM
policy are not counted: that there is room for one more is lost by an `Edit`. A
distribution that is disabled by its definition, and the priorities of listener rules,
are left out.

## 7. Plan

Done: the graph with its cycle search, the executor and its promise, whole loads
(providers, then groups with their overrides), tags, six kinds in detail
(security groups, certificates, ECS services, standalone tasks, records,
distributions), the others as tables.

1. Modules of their own where a table is too coarse: the versions of an IAM policy,
   listeners and the priorities of their rules, the wait of a connector.
2. The comparison of container definitions, as an operator checked against equality
   of what it compares.
