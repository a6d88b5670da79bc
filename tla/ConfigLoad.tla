------------------------------ MODULE ConfigLoad ------------------------------
(***************************************************************************)
(* InternalConfig.Generate: the providers of a load, and then its security *)
(* groups, each of which is given one of them (config/internal_config.go). *)
(* What the overrides add to either part meets what they add to the other. *)
(***************************************************************************)
EXTENDS Providers

CONSTANTS
    TagKeys, TagValues, NoTag, Reserved, ResourceId,  \* see Tags
    Ids, Taken, Vpcs, NoVpc, Rules, Id,               \* see GroupOverrides
    GroupPatterns, BadGroupPatterns, GroupMatches, NewGroup,
    SpecGroups, OverrideGroups

VARIABLES
    spec,          \* the groups of the spec
    entries,       \* the groups of the override config
    unread,        \* groups of the spec not yet read
    unreached,     \* entries of the override not yet gone over
    vertices,      \* the groups in the graph
    dependencies,  \* depdendencies of the graph
    errors,        \* what was wrong with groups
    phase          \* reading, overriding, loaded or refused

Groups ==
    INSTANCE GroupOverrides WITH
        ProviderNames <- Names, Patterns <- GroupPatterns, BadPatterns <- BadGroupPatterns,
        Matches <- GroupMatches, configured <- DOMAIN providers, override <- entries,
        unapplied <- unreached

ASSUME GroupsType == Groups!WellFormed
ASSUME TagsType   == NoTag \notin TagValues /\ Reserved \subseteq TagKeys /\ ResourceId \in Reserved

groups == <<spec, entries, unread, unreached, vertices, dependencies, errors, phase>>

LoadInit ==
    /\ Init
    /\ spec \in SpecGroups
    /\ entries \in OverrideGroups
    /\ Groups!Start

LoadProviders == Next /\ UNCHANGED groups

\* Nothing of the graph is read before the last provider is initialised.
BuildGraph == pc = "ready" /\ UNCHANGED vars /\ Groups!Next

LoadNext == LoadProviders \/ BuildGraph

LoadSpec == LoadInit /\ [][LoadNext]_<<vars, groups>>

-----------------------------------------------------------------------------
(* Properties *)

\* mustGetProvider exits the process when a name has no credentials: no group of a
\* loaded graph, also one that an entry of the override has added, brings that about.
CredentialsForEveryGroup ==
    phase = "loaded" => \A k \in DOMAIN vertices : registry[k[1]] # None

\* No merge leaves the snapshot of a group's dependsOn, from which the edges are made,
\* behind the group.
EdgesFollowGroups == Groups!EdgesFollowGroups

\* A loaded graph has every group of the spec under a key of its own, with what the
\* spec says of it and all that the entries matching it add, in whatever order; no
\* group gets into it without a vpc, and no entry gets buildit to use a tag of its own
\* for another resource.
OverridesReachTheSpec == Groups!OverridesReachTheSpec /\ Groups!LoadedIsSound

\* What config/reserved_tags.go says of a loaded resource: buildit's own tags
\* reached it.
IdentityReaches == Groups!IdentityReaches
===============================================================================
