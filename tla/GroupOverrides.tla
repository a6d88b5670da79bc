---------------------------- MODULE GroupOverrides ----------------------------
(***************************************************************************)
(* The security groups of a spec and the override config: buildGraph gives *)
(* each group its provider and its key, overrideSecurityGroups goes over   *)
(* the override's entries, in the random order of a Go map, and merges     *)
(* each into the groups whose key its pattern matches, or adds a group     *)
(* (config/internal_config.go).  Both stop at a provider nobody has        *)
(* configured; what else is wrong is collected.                            *)
(***************************************************************************)
EXTENDS Tags

CONSTANTS
    ProviderNames, \* names of providers
    Default, Main, \* the two that need no configuration
    None,          \* no provider given
    Ids,           \* names of groups
    Patterns,      \* names of override entries
    Star,          \* the entry *
    BadPatterns,   \* entries that are not regular expressions
    Matches,       \* the keys a pattern, unanchored, matches: [Patterns -> SUBSET Keys]
    NewGroup,      \* the group an entry adds, when its name can be one:
                   \* [a subset of Patterns -> Ids]
    Taken,         \* keys that resources of other types have
    Vpcs, NoVpc,   \* names of vpcs, and none given
    Rules,         \* rules
    Id,            \* Id[i] is the value of the resource-id tag of i
    SpecGroups,    \* the groups a spec may define
    OverrideGroups \* the entries an override config may have

\* What makes a group unique in the graph, printed provider::name.
Keys == ProviderNames \X Ids

\* A spec names a group with a provider or without; its fields may name one too.
Declared    == [provider : ProviderNames \cup {None}, id : Ids]
Definitions == [provider : ProviderNames \cup {None}, vpc : Vpcs \cup {NoVpc},
                rules : SUBSET Rules, tags : TagMaps, deps : SUBSET Keys]
PartialMap(f, S) == DOMAIN f \subseteq S /\ \A x \in DOMAIN f : f[x] \in Definitions

WellFormed ==
    /\ {Default, Main} \subseteq ProviderNames /\ None \notin ProviderNames
    /\ Matches \in [Patterns -> SUBSET Keys]
    /\ Star \in Patterns /\ Matches[Star] = Keys
    /\ DOMAIN NewGroup \subseteq Patterns \ {Star}
    /\ \A o \in DOMAIN NewGroup : ProviderNames \X {NewGroup[o]} \subseteq Matches[o]
    /\ \A f \in SpecGroups : PartialMap(f, Declared)
    /\ \A f \in OverrideGroups : PartialMap(f, Patterns)
    /\ NoVpc \notin Vpcs /\ Id \in [Ids -> TagValues]

VARIABLES
    configured,    \* names of the providers that are configured
    spec,          \* the groups of the spec
    override,      \* the override config
    unread,        \* groups of the spec not yet read
    unapplied,     \* entries of the override not yet gone over
    vertices,      \* the groups in the graph
    dependencies,  \* depdendencies of the graph, from which its edges are made
    errors,        \* what was wrong: sets of <<kind, name>>
    phase          \* reading, overriding, loaded or refused

graph == <<vertices, dependencies>>
Empty == [n \in {} |-> 0]

Start ==
    /\ unread = DOMAIN spec
    /\ unapplied = DOMAIN override
    /\ vertices = Empty
    /\ dependencies = Empty
    /\ errors = {}
    /\ phase = "reading"

-----------------------------------------------------------------------------
(* Reading a group *)

With(f, n, value) == [m \in DOMAIN f \cup {n} |-> IF m = n THEN value ELSE f[m]]

HasReserved(t) == Present(t) \cap Reserved # {}

\* The tags tagsFor gives every group, global tags left out: see TagSync.
Identity(k) == [NoTags EXCEPT ![ResourceId] = Id[k[2]]]

Normalized(k, def) == [def EXCEPT !.tags = Merge(def.tags, Identity(k))]

Valid(def) == def.vpc # NoVpc

Given(new, old) == IF new # None THEN new ELSE old
Effective(d, def) == Given(d.provider, Given(def.provider, Main))

\* getEffectiveProviderAndId has no answer.
Unscopable(d, def) ==
    \/ None \notin {d.provider, def.provider} /\ d.provider # def.provider
    \/ Effective(d, def) \notin configured \cup {Default, Main}

KeyOf(d, def) == <<Effective(d, def), d.id>>

Admit(k, def) ==
    LET admitted == Valid(def) /\ k \notin DOMAIN vertices \cup Taken IN
    /\ vertices' = IF admitted THEN With(vertices, k, Normalized(k, def)) ELSE vertices
    /\ dependencies' = IF admitted THEN With(dependencies, k, def.deps) ELSE dependencies
    /\ errors' = errors \cup (IF HasReserved(def.tags) THEN {<<"reserved", k>>} ELSE {})
                        \cup (IF Valid(def) THEN {} ELSE {<<"invalid", k>>})
                        \cup (IF Valid(def) /\ ~ admitted THEN {<<"duplicate", k>>} ELSE {})

\* The error of an unknown or ambiguous provider ends the load at once.
Refuse == phase' = "refused" /\ UNCHANGED <<unread, unapplied, graph, errors>>

Scoped(d, def) == Admit(KeyOf(d, def), def) /\ UNCHANGED phase

Read(d) ==
    /\ phase = "reading"
    /\ d \in unread
    /\ UNCHANGED <<configured, spec, override>>
    /\ IF Unscopable(d, spec[d]) THEN Refuse
       ELSE /\ Scoped(d, spec[d])
            /\ unread' = unread \ {d}
            /\ UNCHANGED unapplied

ReadAll ==
    /\ phase = "reading"
    /\ unread = {}
    /\ phase' = "overriding"
    /\ UNCHANGED <<configured, spec, override, unread, unapplied, graph, errors>>

-----------------------------------------------------------------------------
(* Going over an entry *)

\* SecurityGroup.Merge; the entry's provider is not looked at.
MergedGroup(def, other) ==
    [def EXCEPT !.vpc   = IF other.vpc # NoVpc THEN other.vpc ELSE @,
                !.rules = @ \cup other.rules,
                !.tags  = IF Present(other.tags) # {} THEN Merge(@, other.tags) ELSE @,
                !.deps  = @ \cup other.deps]

Matched(o) == Matches[o] \cap DOMAIN vertices

Reached(o) == phase = "overriding" /\ o \in unapplied

\* Mutants: the merged copy, or its dependsOn, is not written back.
MergeIntoCopy(o) ==
    /\ Reached(o)
    /\ o \notin BadPatterns
    /\ o = Star \/ Matched(o) # {}
    /\ errors' = errors \cup IF HasReserved(override[o].tags) THEN {<<"reserved", o>>} ELSE {}
    /\ unapplied' = unapplied \ {o}
    /\ UNCHANGED <<configured, spec, override, unread, graph, phase>>
MergeKeepingEdges(o) ==
    /\ Reached(o)
    /\ o \notin BadPatterns
    /\ o = Star \/ Matched(o) # {}
    /\ vertices' = [n \in DOMAIN vertices |->
                       IF n \in Matched(o) THEN MergedGroup(vertices[n], override[o])
                       ELSE vertices[n]]
    /\ errors' = errors \cup IF HasReserved(override[o].tags) THEN {<<"reserved", o>>} ELSE {}
    /\ unapplied' = unapplied \ {o}
    /\ UNCHANGED <<configured, spec, override, unread, dependencies, phase>>

MergeEntry(o) ==
    /\ Reached(o)
    /\ o \notin BadPatterns
    /\ o = Star \/ Matched(o) # {}
    /\ vertices' = [n \in DOMAIN vertices |->
                       IF n \in Matched(o) THEN MergedGroup(vertices[n], override[o])
                       ELSE vertices[n]]
    /\ dependencies' = [n \in DOMAIN dependencies |->
                           IF n \in Matched(o) THEN vertices'[n].deps ELSE dependencies[n]]
    /\ errors' = errors \cup IF HasReserved(override[o].tags) THEN {<<"reserved", o>>} ELSE {}
    /\ unapplied' = unapplied \ {o}
    /\ UNCHANGED <<configured, spec, override, unread, phase>>

\* Mutant: the group an entry adds gets the provider it names, unchecked.
AddUnchecked(o) ==
    LET d == [provider |-> None, id |-> NewGroup[o]] IN
    /\ Reached(o)
    /\ o \in DOMAIN NewGroup \ BadPatterns
    /\ Matched(o) = {}
    /\ UNCHANGED <<configured, spec, override, unread>>
    /\ Scoped(d, override[o])
    /\ unapplied' = unapplied \ {o}

AddEntry(o) ==
    LET d == [provider |-> None, id |-> NewGroup[o]] IN
    /\ Reached(o)
    /\ o \in DOMAIN NewGroup \ BadPatterns
    /\ Matched(o) = {}
    /\ UNCHANGED <<configured, spec, override>>
    /\ IF Unscopable(d, override[o]) THEN Refuse
       ELSE /\ Scoped(d, override[o])
            /\ unapplied' = unapplied \ {o}
            /\ UNCHANGED unread

\* A pattern that matches nothing and cannot be a name: only a debug message.
SkipEntry(o) ==
    /\ Reached(o)
    /\ o \notin DOMAIN NewGroup \cup BadPatterns \cup {Star}
    /\ Matched(o) = {}
    /\ errors' = errors \cup IF HasReserved(override[o].tags) THEN {<<"reserved", o>>} ELSE {}
    /\ unapplied' = unapplied \ {o}
    /\ UNCHANGED <<configured, spec, override, unread, graph, phase>>

\* The error of a malformed pattern ends the load at once.
RefuseEntry(o) ==
    /\ Reached(o)
    /\ o \in BadPatterns
    /\ errors' = errors \cup {<<"pattern", o>>}
    /\ phase' = "refused"
    /\ UNCHANGED <<configured, spec, override, unread, unapplied, graph>>

Finish ==
    /\ phase = "overriding"
    /\ unapplied = {}
    /\ phase' = IF errors = {} THEN "loaded" ELSE "refused"
    /\ UNCHANGED <<configured, spec, override, unread, unapplied, graph, errors>>

Next ==
    \/ \E d \in unread : Read(d)
    \/ ReadAll
    \/ \E o \in Patterns : MergeEntry(o) \/ AddEntry(o) \/ SkipEntry(o) \/ RefuseEntry(o)
    \/ Finish

-----------------------------------------------------------------------------
(* Properties *)

\* The edges are made from a snapshot of each group's dependsOn; no merge leaves it
\* behind the group.
EdgesFollowGroups ==
    \A k \in DOMAIN vertices : dependencies[k] = vertices[k].deps

Reaching(k) == {o \in DOMAIN override : k \in Matches[o]}

\* A loaded graph has every group of the spec under a key of its own, with what the
\* spec says of it and all that the entries matching it add, in whatever order they
\* came.
OverridesReachTheSpec ==
    phase = "loaded" =>
        \A d \in DOMAIN spec :
            LET k == KeyOf(d, spec[d]) IN
            /\ k \in DOMAIN vertices
            /\ \A e \in DOMAIN spec \ {d} : KeyOf(e, spec[e]) # k
            /\ vertices[k].rules = spec[d].rules \cup UNION {override[o].rules : o \in Reaching(k)}
            /\ \A t \in Present(spec[d].tags) : vertices[k].tags[t] # NoTag

\* No group gets into a loaded graph without a vpc, and no entry gets buildit to
\* use a tag of its own for another resource.
LoadedIsSound ==
    phase = "loaded" =>
        \A k \in DOMAIN vertices :
            /\ Valid(vertices[k])
            /\ vertices[k].tags[ResourceId] \in {Id[k[2]], NoTag}

\* What config/reserved_tags.go says of a loaded resource: buildit's own tags
\* reached it.
IdentityReaches ==
    phase = "loaded" =>
        \A k \in DOMAIN vertices : vertices[k].tags[ResourceId] = Id[k[2]]
=============================================================================
