----------------------------- MODULE Distribution -----------------------------
(***************************************************************************)
(* A CloudFront distribution, run after run                                *)
(* (resource/cloudfront_distribution.go, awsw/cloudfront.go).  AWS takes   *)
(* its configuration only as a whole, and buildit manages part of it: an   *)
(* update reads the whole, merges in what is managed, and writes it under  *)
(* the ETag of what it read.  A destroy disables it in the same way, waits *)
(* until that is deployed, and deletes it.                                 *)
(***************************************************************************)
EXTENDS Sequences

CONSTANTS
    OriginIds,       \* names of origins
    OriginDomains,   \* where an origin may be found
    Shown,           \* the name by which the comparison knows a domain (displayValues)
    Declarations,    \* the origins a definition may have; it always enables the distribution
    HandOrigins      \* what other people make of each origin, extras included

OriginTypes == {"vpc", "custom", "s3"}

\* What an origin has that buildit does not manage: Origin Shield, or a setting that
\* goes with its type (the address type of a custom origin, the timeout of an S3 one).
Extras == {"none", "shield", "typed"}

DeclaredOrigins == UNION {[S -> [type : OriginTypes, domain : OriginDomains]] : S \in SUBSET OriginIds}

ASSUME ShownType    == DOMAIN Shown = OriginDomains
ASSUME DeclaredType == Declarations \subseteq DeclaredOrigins \ {<< >>}
ASSUME HandMadeType ==
    /\ DOMAIN HandOrigins = OriginIds
    /\ \A i \in OriginIds :
           HandOrigins[i] \subseteq [type : OriginTypes, domain : OriginDomains, extra : Extras]

VARIABLES
    declared,  \* the origins of the definition
    phase,     \* absent, deploying or deployed
    config,    \* enabled, which stands for all settings that are managed; the origins
               \* that unmanaged behaviours and groups go to; and all origins
    badTags,   \* missing: a tag that is wanted is not there; extra: another is
    resolves,  \* all that the definition names (targets, functions, ...) can be found
    work,      \* the operation: none, apply, wait or destroy
    calls,     \* the calls it has yet to make
    current,   \* the ETag it holds is that of the configuration
    crossed,   \* someone else changed something since it began
    verdict    \* how an apply or destroy ended, until someone else changes something

distribution     == <<phase, config, badTags>>
distributionVars == <<declared, resolves, distribution, work, calls, current, crossed, verdict>>

\* What stands for the configuration of none.
Nothing == [enabled |-> FALSE, behaviors |-> {}, origins |-> << >>]

DistributionInit ==
    /\ declared \in Declarations /\ resolves = TRUE
    /\ phase = "absent" /\ config = Nothing /\ badTags = {}
    /\ work = "none" /\ calls = << >> /\ current = TRUE /\ crossed = FALSE
    /\ verdict = "none"

-----------------------------------------------------------------------------
(* generateConfig, mergeManagedConfig and compareDistributionConfig *)

NewOrigin(o) == [type |-> o.type, domain |-> o.domain, extra |-> "none"]

generateConfig ==
    [enabled |-> TRUE, behaviors |-> {},
     origins |-> [i \in DOMAIN declared |-> NewOrigin(declared[i])]]

\* An origin of another type loses what went with the old one.
MergedOrigin(old, new) ==
    [new EXCEPT !.extra = IF old.extra = "typed" /\ old.type # new.type THEN "none" ELSE old.extra]

mergeManagedConfig(old, new) ==
    [enabled |-> new.enabled, behaviors |-> old.behaviors,
     origins |-> [i \in DOMAIN new.origins |->
                     IF i \in DOMAIN old.origins
                     THEN MergedOrigin(old.origins[i], new.origins[i]) ELSE new.origins[i]]]

Snapshot(c) ==
    <<c.enabled,
      [i \in DOMAIN c.origins |-> <<c.origins[i].type, Shown[c.origins[i].domain]>>]>>

\* Two domains that the definition gives one name are one here.
compareDistributionConfig(existing, desired) == Snapshot(existing) # Snapshot(desired)

FindDistribution == phase # "absent"

-----------------------------------------------------------------------------
(* CloudFront *)

\* Mutant: the update is not made under the ETag of what was read.
UpdatesStale(c) == phase # "absent" /\ c.behaviors \subseteq DOMAIN c.origins

\* A behaviour or a group must have its origin.
Updates(c) == phase # "absent" /\ current /\ c.behaviors \subseteq DOMAIN c.origins

Takes(c) ==
    CASE c.call = "resolve" -> resolves
      [] c.call = "create"  -> phase = "absent"
      [] c.call = "update"  -> Updates(c.config)
      [] c.call = "await"   -> phase = "deployed"
      [] c.call = "delete"  -> phase = "deployed" /\ ~ config.enabled /\ current
      [] OTHER              -> phase # "absent"

Pending(c) == c.call = "await" /\ phase = "deploying"

Deleted == phase' = "absent" /\ config' = Nothing /\ badTags' = {}

Happens(c) ==
    CASE c.call \in {"create", "update"} ->
             /\ phase' = "deploying" /\ config' = c.config
             /\ UNCHANGED badTags
      [] c.call = "tag"    -> badTags' = badTags \ {"missing"} /\ UNCHANGED <<phase, config>>
      [] c.call = "untag"  -> badTags' = badTags \ {"extra"} /\ UNCHANGED <<phase, config>>
      [] c.call = "delete" -> Deleted
      [] OTHER             -> UNCHANGED distribution

-----------------------------------------------------------------------------
(* Apply, Wait and Destroy *)

CallOf(what, c) == [call |-> what, config |-> c]
If(condition, call) == IF condition THEN <<call>> ELSE << >>

Start(what, calling) ==
    /\ work = "none"
    /\ work' = what
    /\ calls' = calling
    /\ current' = TRUE
    /\ crossed' = FALSE
    /\ verdict' = "none"
    /\ UNCHANGED <<declared, resolves, distribution>>

ResolveNames == CallOf("resolve", Nothing)

CreateDistributionWithTags == CallOf("create", generateConfig)

\* The update, the tags to put and those to remove are settled by what was read.
diffExisting ==
    LET desired == mergeManagedConfig(config, generateConfig)
    IN  If(compareDistributionConfig(config, desired), CallOf("update", desired))
        \o If("missing" \in badTags, CallOf("tag", Nothing))
        \o If("extra" \in badTags, CallOf("untag", Nothing))

ApplyDistribution ==
    Start("apply", <<ResolveNames>> \o
                   IF FindDistribution THEN diffExisting ELSE <<CreateDistributionWithTags>>)

WaitForDeployed == CallOf("await", Nothing)

WaitForDistribution == Start("wait", If(FindDistribution, WaitForDeployed))

DestroyDistribution ==
    Start("destroy",
          IF ~ FindDistribution THEN << >>
          ELSE If(config.enabled, CallOf("update", [config EXCEPT !.enabled = FALSE]))
               \o <<WaitForDeployed, CallOf("delete", Nothing)>>)

Stop(how) ==
    /\ work' = "none" /\ calls' = << >> /\ current' = TRUE /\ crossed' = FALSE
    /\ verdict' = IF work = "wait" \/ (crossed /\ how # "error") THEN "none" ELSE how
    /\ UNCHANGED <<declared, resolves>>

Complete == work # "none" /\ calls = << >> /\ Stop(work) /\ UNCHANGED distribution

CallCloudfront ==
    /\ calls # << >>
    /\ Takes(Head(calls))
    /\ Happens(Head(calls))
    /\ calls' = Tail(calls)
    /\ UNCHANGED <<declared, resolves, work, current, crossed, verdict>>

Rejected ==
    /\ calls # << >>
    /\ ~ Takes(Head(calls))
    /\ ~ Pending(Head(calls))
    /\ Stop("error")
    /\ UNCHANGED distribution

\* A call is lost, with or without its effect; a wait is given up; buildit is killed.
Lost ==
    /\ work # "none"
    /\ IF calls # << >> /\ Takes(Head(calls))
       THEN UNCHANGED distribution \/ Happens(Head(calls)) ELSE UNCHANGED distribution
    /\ Stop("error")

Deployed ==
    /\ phase = "deploying" /\ phase' = "deployed"
    /\ UNCHANGED <<declared, resolves, config, badTags, work, calls, current, crossed, verdict>>

-----------------------------------------------------------------------------
(* Other people, at most once during an operation *)

Interfere ==
    /\ ~ crossed
    /\ crossed' = (work # "none")
    /\ verdict' = "none"
    /\ UNCHANGED <<work, calls>>

Configured(c) ==
    /\ phase # "absent"
    /\ phase' = "deploying"
    /\ config' = c
    /\ current' = (work = "none")
    /\ UNCHANGED <<declared, resolves, badTags>>

EditManaged == Configured([config EXCEPT !.enabled = ~ config.enabled])

EditOrigin ==
    \E i \in OriginIds : \E o \in HandOrigins[i] :
        Configured([config EXCEPT !.origins =
            [j \in DOMAIN @ \cup {i} |-> IF j = i THEN o ELSE @[j]]])

\* At most one origin has behaviours that buildit does not manage.
EditBehaviors ==
    \E S \in {{}} \cup {{i} : i \in DOMAIN config.origins} :
        Configured([config EXCEPT !.behaviors = S])

EditTags ==
    /\ phase # "absent"
    /\ badTags' = {"missing", "extra"}
    /\ UNCHANGED <<declared, resolves, phase, config, current>>

DeletedByHand ==
    /\ phase = "deployed" /\ ~ config.enabled
    /\ Deleted
    /\ UNCHANGED <<declared, resolves, current>>

ToggleResolves ==
    resolves' = ~ resolves /\ UNCHANGED <<declared, distribution, current>>

Redefine ==
    /\ work = "none"
    /\ declared' \in Declarations
    /\ UNCHANGED <<resolves, distribution, current>>

Meddle == Interfere /\ (\/ EditManaged \/ EditOrigin \/ EditBehaviors \/ EditTags
                       \/ DeletedByHand \/ ToggleResolves \/ Redefine)

DistributionProgress == Complete \/ CallCloudfront \/ Rejected

DistributionNext ==
    \/ ApplyDistribution \/ WaitForDistribution \/ DestroyDistribution
    \/ DistributionProgress \/ Deployed \/ Lost \/ Meddle

DistributionSpec ==
    /\ DistributionInit /\ [][DistributionNext]_distributionVars
    /\ WF_distributionVars(DistributionProgress) /\ WF_distributionVars(Deployed)

-----------------------------------------------------------------------------
(* Properties *)

\* A write of buildit leaves what it does not manage as it is at that moment, not as
\* it was when it was read: the behaviours and groups, and of each origin that stays,
\* its shield, and while it keeps its type, what goes with the type.
UnmanagedKept ==
    [][calls' # calls /\ phase # "absent" /\ phase' # "absent" =>
        /\ config'.behaviors = config.behaviors
        /\ \A i \in DOMAIN config.origins \cap DOMAIN config'.origins :
               \/ config'.origins[i].extra = config.origins[i].extra
               \/ config.origins[i].extra = "typed"
                  /\ config'.origins[i].type # config.origins[i].type]_distributionVars

\* What the graph walks rely on, for what can be told apart by the names shown: an
\* apply never removes it and ends well only when all that is managed is as declared; a
\* destroy ends well only when it is gone.
DistributionCondition ==
    IF phase = "absent" THEN "absent"
    ELSE IF ~ compareDistributionConfig(config, generateConfig) /\ badTags = {} THEN "matching"
    ELSE "drifted"
Walked == work # "wait"
DistributionPromise == INSTANCE ResourceContract WITH
                           condition <- DistributionCondition,
                           call      <- IF Walked THEN work ELSE "none",
                           disturbed <- Walked /\ crossed,
                           outcome   <- verdict
DistributionContract == DistributionPromise!Contract

\* Once nobody interferes and no call is lost, repeated applies make it as declared,
\* unless a behaviour that is not managed needs an origin that is not declared any
\* more; and repeated destroys delete it, from wherever an earlier one stopped.
Held == ~ config.behaviors \subseteq DOMAIN declared
ApplyingDistribution   == ApplyDistribution \/ DistributionProgress \/ Deployed
DestroyingDistribution == DestroyDistribution \/ DistributionProgress \/ Deployed
DistributionConverges ==
    /\ <>[][ApplyingDistribution]_distributionVars /\ []<><<ApplyDistribution>>_distributionVars
       => <>[](DistributionCondition = "matching" \/ Held \/ ~ resolves)
    /\ <>[][DestroyingDistribution]_distributionVars
       /\ []<><<DestroyDistribution>>_distributionVars
       => <>[](phase = "absent")
=============================================================================
