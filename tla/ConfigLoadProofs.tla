-------------------------- MODULE ConfigLoadProofs --------------------------
(***************************************************************************)
(* Theorems about ConfigLoad for any providers, groups, patterns and       *)
(* overrides, and for every order in which Go may go over their maps.      *)
(***************************************************************************)
EXTENDS ConfigLoad, TLAPS

-----------------------------------------------------------------------------
(* The credentials of the providers *)

\* What the flags say of `default`.
Context ==
    IF flags.type = "role" THEN <<Chain, Role(flags)>> ELSE Session(flags)

LEMMA OneMore ==
  ASSUME NEW a, NEW b
  PROVE  Append(<<a>>, b) = <<a, b>>
<1> DEFINE s == <<a>>
           t == <<a, b>>
           S == {a, b}
<1>1. s \in Seq(S) /\ t \in Seq(S)
  OBVIOUS
<1>2. Len(s) = 1 /\ Len(t) = 2 /\ t[1] = a /\ t[2] = b /\ s[1] = a
  OBVIOUS
<1> HIDE DEF s, t
<1>3. /\ Append(s, b) \in Seq(S) /\ Len(Append(s, b)) = 2
      /\ Append(s, b)[1] = a /\ Append(s, b)[2] = b
  BY <1>1, <1>2, SMTT(20)
<1>4. \A i \in 1 .. 2 : Append(s, b)[i] = t[i]
  BY <1>2, <1>3
<1>5. Append(s, b) = t
  BY <1>1, <1>2, <1>3, <1>4
<1> QED
  BY <1>5 DEF s, t

\* Shapes of the variables.
ProvidersTypeOK ==
    /\ files \in SpecFiles /\ override \in Overrides /\ flags \in Configs
    /\ merged \in Nat
    /\ unapplied \subseteq DOMAIN override
    /\ \A n \in DOMAIN providers : providers[n] \in Configs
    /\ registry \in [Names -> Seq(Links) \cup {None}]

\* Who has credentials in each phase of the load, and whose they are.
RegisteredSoFar ==
    /\ pc \in {"role", "main", "others", "ready"} => registry[Default] # None
    /\ pc \in {"others", "ready"} =>
           /\ pending \subseteq DOMAIN providers
           /\ Main \notin DOMAIN providers => registry[Main] # None
           /\ \A n \in DOMAIN providers \ pending : n \in Names /\ registry[n] # None
    /\ pc = "ready" => pending = {}

AssumedSoFar ==
    /\ pc = "role" => flags.type = "role" /\ registry[Default] = <<Chain>>
    /\ pc = "main" => registry[Default] = Context
    /\ pc \in {"others", "ready"} /\ Default \notin DOMAIN providers =>
           /\ registry[Default] = Context
           /\ Main \notin DOMAIN providers => registry[Main] = Context
           /\ \A n \in DOMAIN providers \ pending :
                  providers[n].type = "role" =>
                      registry[n] = Append(Context, Role(providers[n]))

ProvidersInv == ProvidersTypeOK /\ RegisteredSoFar /\ AssumedSoFar

LEMMA InitProviders == Init => ProvidersInv
<1> SUFFICES ASSUME Init
             PROVE  ProvidersInv
  OBVIOUS
<1>1. /\ registry = [n \in Names |-> None] /\ unapplied = DOMAIN override
      /\ pc = "merging" /\ merged = 0 /\ DOMAIN providers = {}
  BY DEF Init, Start, Empty
<1>2. files \in SpecFiles /\ override \in Overrides /\ flags \in Configs
  BY InputsType DEF Init, Inputs
<1>3. registry \in [Names -> Seq(Links) \cup {None}]
  BY <1>1
<1>4. ProvidersTypeOK
  BY <1>1, <1>2, <1>3 DEF ProvidersTypeOK
<1> QED
  BY <1>1, <1>4 DEF ProvidersInv, RegisteredSoFar, AssumedSoFar

LEMMA ChainFacts ==
  ASSUME NEW cfg \in Configs
  PROVE  /\ Session(cfg) \in Seq(Links)
         /\ \A c \in Seq(Links) : Enough(cfg) => Append(c, Role(cfg)) \in Seq(Links)
<1>1. /\ cfg.source \in Sources \cup {None} /\ cfg.arn \in Arns \cup {None}
      /\ cfg.account \in Accounts \cup {None}
      /\ cfg.roleName \in RoleNames \cup Arns \cup Sources \cup {None}
  BY DEF Configs
<1>2. Given(cfg.source, Chain) \in Links /\ Chain \in Links
  BY <1>1 DEF Given, Links
<1>3. Session(cfg) \in Seq(Links)
  BY <1>2 DEF Session
<1>4. Role(cfg) \in Links
  BY <1>1 DEF Role, Links
<1> QED
  BY <1>3, <1>4

LEMMA MergedIsConfig ==
  ASSUME NEW def \in Configs, NEW other \in Configs
  PROVE  MergedProvider(def, other) \in Configs
<1>1. /\ def.type \in {"", "default", "shared", "role"} /\ other.type \in {"", "default", "shared", "role"}
      /\ def.account \in Accounts \cup {None} /\ other.account \in Accounts \cup {None}
      /\ def.roleName \in RoleNames \cup Arns \cup Sources \cup {None}
      /\ other.roleName \in RoleNames \cup Arns \cup Sources \cup {None}
      /\ def.arn \in Arns \cup {None} /\ other.arn \in Arns \cup {None}
      /\ def.source \in Sources \cup {None} /\ other.source \in Sources \cup {None}
  BY DEF Configs
<1>2. Given(other.account, def.account) \in Accounts \cup {None}
  BY <1>1 DEF Given
<1>3. Given(other.source, Given(other.arn, Given(other.roleName, def.roleName)))
          \in RoleNames \cup Arns \cup Sources \cup {None}
  BY <1>1 DEF Given
<1>4. (IF other.type # "" THEN other.type ELSE def.type) \in {"", "default", "shared", "role"}
  BY <1>1
<1>5. PICK t \in {"", "default", "shared", "role"} :
          t = IF other.type # "" THEN other.type ELSE def.type
  BY <1>4
<1>6. PICK a \in Accounts \cup {None} : a = Given(other.account, def.account)
  BY <1>2
<1>7. PICK r \in RoleNames \cup Arns \cup Sources \cup {None} :
          r = Given(other.source, Given(other.arn, Given(other.roleName, def.roleName)))
  BY <1>3
<1>8. MergedProvider(def, other) = [def EXCEPT !.type = t, !.account = a, !.roleName = r]
  BY <1>5, <1>6, <1>7 DEF MergedProvider, Configs
<1> QED
  BY <1>8 DEF Configs

LEMMA NextConfigs ==
  ASSUME ProvidersTypeOK, MergeStep \/ OverrideStep
  PROVE  ProvidersTypeOK'
<1>1. UNCHANGED <<files, override, flags, registry>>
  BY DEF MergeStep, MergeProviders, AllMerged, OverrideStep, MergeEntry, AddEntry, SkipEntry,
         RefuseEntry, AllOverridden, inputs
<1>2. merged' \in Nat /\ unapplied' \subseteq DOMAIN override
  <2>1. merged' \in {merged, merged + 1} /\ unapplied' \subseteq unapplied
    BY DEF MergeStep, MergeProviders, AllMerged, OverrideStep, MergeEntry, AddEntry, SkipEntry,
           RefuseEntry, AllOverridden
  <2> QED
    BY <2>1 DEF ProvidersTypeOK
<1>3. \A n \in DOMAIN providers' : providers'[n] \in Configs
  <2>1. CASE UNCHANGED providers
    BY <2>1 DEF ProvidersTypeOK
  <2>2. CASE MergeProviders /\ providers' # providers
    <3> DEFINE section == files[merged + 1]
    <3>1. /\ merged + 1 \in DOMAIN files
          /\ providers' = [n \in DOMAIN providers \cup DOMAIN section |->
                               IF n \in DOMAIN section THEN section[n] ELSE providers[n]]
      BY <2>2, InputsType DEF MergeProviders, With, ProvidersTypeOK
    <3>2. \A n \in DOMAIN section : section[n] \in Configs
      BY <3>1, InputsType DEF ProvidersTypeOK, PartialMap
    <3> QED
      BY <3>1, <3>2 DEF ProvidersTypeOK
  <2>3. ASSUME NEW o \in Patterns, MergeEntry(o) \/ AddEntry(o)
        PROVE  \A n \in DOMAIN providers' : providers'[n] \in Configs
    <3>1. override[o] \in Configs
      <4>1. o \in DOMAIN override
        BY <2>3 DEF MergeEntry, AddEntry, Reached, ProvidersTypeOK
      <4> QED
        BY <4>1, InputsType DEF ProvidersTypeOK, PartialMap
    <3>2. CASE MergeEntry(o)
      <4>1. providers' = [n \in DOMAIN providers \cup Matched(o) |->
                             IF n \in Matched(o) THEN MergedProvider(providers[n], override[o])
                             ELSE providers[n]]
        BY <3>2 DEF MergeEntry, With
      <4>2. Matched(o) \subseteq DOMAIN providers
        BY DEF Matched
      <4> QED
        BY <3>1, <4>1, <4>2, MergedIsConfig DEF ProvidersTypeOK
    <3>3. CASE AddEntry(o)
      <4>1. providers' = [n \in DOMAIN providers \cup {NewName[o]} |->
                             IF n \in {NewName[o]} THEN override[o] ELSE providers[n]]
        BY <3>3 DEF AddEntry, With
      <4> QED
        BY <3>1, <4>1 DEF ProvidersTypeOK
    <3> QED
      BY <2>3, <3>2, <3>3
  <2> QED
    BY <2>1, <2>2, <2>3 DEF MergeStep, OverrideStep, AllMerged, SkipEntry, RefuseEntry, AllOverridden
<1> QED
  BY <1>1, <1>2, <1>3 DEF ProvidersTypeOK

\* The chain a provider is registered with.
LEMMA RegisteredType ==
  ASSUME ProvidersTypeOK, NEW n \in Names, NEW c \in Seq(Links), registry' = Registered(n, c)
  PROVE  /\ registry' \in [Names -> Seq(Links) \cup {None}]
         /\ registry'[n] = c /\ \A m \in Names \ {n} : registry'[m] = registry[m]
BY DEF Registered, ProvidersTypeOK

LEMMA NextProviders ==
  ASSUME ProvidersInv, [Next]_vars
  PROVE  ProvidersInv'
<1> /\ ProvidersTypeOK /\ RegisteredSoFar /\ AssumedSoFar
    /\ Default \in Names /\ Main \in Names /\ Default # Main
  BY NamesType DEF ProvidersInv
<1>1. ASSUME ProvidersTypeOK', pc' \in {"merging", "overriding", "context", "refused"}
      PROVE  ProvidersInv'
  BY <1>1 DEF ProvidersInv, RegisteredSoFar, AssumedSoFar
<1>2. CASE MergeStep \/ OverrideStep
  <2>1. pc' \in {"merging", "overriding", "context", "refused"}
    BY <1>2 DEF MergeStep, OverrideStep, MergeProviders, AllMerged, MergeEntry, AddEntry,
                SkipEntry, RefuseEntry, AllOverridden, Reached, Refuse
  <2> QED
    BY <1>1, <1>2, <2>1, NextConfigs
<1>3. ASSUME UNCHANGED <<inputs, merged, providers, unapplied>>,
             registry' \in [Names -> Seq(Links) \cup {None}]
      PROVE  ProvidersTypeOK'
  BY <1>3 DEF inputs, ProvidersTypeOK
<1>4. CASE InitFails
  BY <1>1, <1>3, <1>4 DEF InitFails, Refuse, ProvidersTypeOK
<1>5. CASE InitContext
  <2>1. /\ UNCHANGED <<inputs, merged, providers, unapplied>>
        /\ registry' = Registered(Default, Session(flags))
        /\ pc' = IF flags.type = "role" THEN "role" ELSE "main"
    BY <1>5 DEF InitContext, Registered
  <2>2. Session(flags) \in Seq(Links) /\ Session(flags) # None
    BY ChainFacts, ChainsType DEF ProvidersTypeOK
  <2>3. registry' \in [Names -> Seq(Links) \cup {None}] /\ registry'[Default] = Session(flags)
    BY <2>1, <2>2, RegisteredType
  <2>4. UNCHANGED flags /\ (flags.type = "role" => Session(flags) = <<Chain>>)
    BY <2>1 DEF inputs, Session
  <2>5. ProvidersTypeOK'
    BY <1>3, <2>1, <2>3
  <2>6. RegisteredSoFar'
    BY <2>1, <2>2, <2>3 DEF RegisteredSoFar
  <2>7. AssumedSoFar'
    BY <2>1, <2>3, <2>4 DEF AssumedSoFar, Context, Session
  <2> QED
    BY <2>5, <2>6, <2>7 DEF ProvidersInv
<1>6. CASE AssumeDefaultRole
  <2>1. /\ UNCHANGED <<inputs, merged, providers, unapplied>> /\ pc = "role" /\ pc' = "main"
        /\ registry' = Registered(Default, Append(registry[Default], Role(flags)))
        /\ Enough(flags)
    BY <1>6 DEF AssumeDefaultRole, Registered, Known
  <2>2. flags.type = "role" /\ registry[Default] = <<Chain>> /\ <<Chain>> \in Seq(Links)
    BY <2>1 DEF AssumedSoFar, Links
  <2>3. Append(registry[Default], Role(flags)) \in Seq(Links)
        /\ Append(registry[Default], Role(flags)) = <<Chain, Role(flags)>>
    BY <2>1, <2>2, ChainFacts, OneMore DEF ProvidersTypeOK
  <2>4. /\ registry' \in [Names -> Seq(Links) \cup {None}]
        /\ registry'[Default] = <<Chain, Role(flags)>>
        /\ registry'[Default] \in Seq(Links)
    BY <2>1, <2>3, RegisteredType
  <2>5. UNCHANGED flags
    BY <2>1 DEF inputs
  <2>6. ProvidersTypeOK'
    BY <1>3, <2>1, <2>4
  <2>7. RegisteredSoFar'
    BY <2>1, <2>4, ChainsType DEF RegisteredSoFar
  <2>8. AssumedSoFar'
    BY <2>1, <2>2, <2>4, <2>5 DEF AssumedSoFar, Context, Role
  <2> QED
    BY <2>6, <2>7, <2>8 DEF ProvidersInv
<1>7. CASE CloneMain
  <2>1. /\ UNCHANGED <<inputs, merged, providers, unapplied>> /\ pc = "main" /\ pc' = "others"
        /\ registry' = IF Main \in DOMAIN providers THEN registry
                       ELSE [registry EXCEPT ![Main] = registry[Default]]
        /\ pending' = DOMAIN providers
    BY <1>7 DEF CloneMain
  <2>2. registry[Default] = Context /\ registry[Default] # None /\ Context' = Context
    BY <2>1 DEF AssumedSoFar, RegisteredSoFar, Context, inputs, Session, Role
  <2>3. /\ registry' \in [Names -> Seq(Links) \cup {None}] /\ registry'[Default] = registry[Default]
        /\ Main \notin DOMAIN providers => registry'[Main] = registry[Default]
    BY <2>1 DEF ProvidersTypeOK
  <2>4. ProvidersTypeOK'
    BY <1>3, <2>1, <2>3
  <2>5. RegisteredSoFar'
    BY <2>1, <2>2, <2>3 DEF RegisteredSoFar
  <2>6. AssumedSoFar'
    BY <2>1, <2>2, <2>3 DEF AssumedSoFar
  <2> QED
    BY <2>4, <2>5, <2>6 DEF ProvidersInv
<1>8. ASSUME NEW n \in Names, InitProvider(n)
      PROVE  ProvidersInv'
  <2> DEFINE cfg   == providers[n]
             chain == IF cfg.type = "role" THEN Append(registry[Default], Role(cfg)) ELSE Session(cfg)
  <2>1. /\ UNCHANGED <<inputs, pc, merged, providers, unapplied>> /\ pc = "others"
        /\ n \in pending /\ pending' = pending \ {n} /\ registry' = Registered(n, chain)
        /\ cfg.type = "role" => Enough(cfg)
    BY <1>8 DEF InitProvider, Known
  <2>2. n \in DOMAIN providers /\ cfg \in Configs /\ registry[Default] # None
        /\ pending \subseteq DOMAIN providers
    BY <2>1 DEF RegisteredSoFar, ProvidersTypeOK
  <2>3. registry[Default] \in Seq(Links)
    BY <2>2 DEF ProvidersTypeOK
  <2>4. PICK c \in Seq(Links) : c = chain
    BY <2>1, <2>2, <2>3, ChainFacts
  <2>5. /\ registry' \in [Names -> Seq(Links) \cup {None}]
        /\ registry'[n] = c /\ c # None /\ \A m \in Names \ {n} : registry'[m] = registry[m]
    BY <2>1, <2>4, RegisteredType, ChainsType
  <2>6. ProvidersTypeOK'
    BY <1>3, <2>1, <2>5
  <2>7. RegisteredSoFar'
    <3>1. registry'[Default] # None
      BY <2>2, <2>5
    <3>2. Main \notin DOMAIN providers => registry'[Main] # None
      BY <2>1, <2>2, <2>5 DEF RegisteredSoFar
    <3>3. \A m \in DOMAIN providers \ pending' : m \in Names /\ registry'[m] # None
      BY <2>1, <2>5 DEF RegisteredSoFar
    <3> QED
      BY <2>1, <2>2, <3>1, <3>2, <3>3 DEF RegisteredSoFar
  <2>8. Context' = Context
    BY <2>1 DEF Context, inputs, Session, Role
  <2>9. ASSUME Default \notin DOMAIN providers
        PROVE  /\ registry'[Default] = Context
               /\ Main \notin DOMAIN providers => registry'[Main] = Context
               /\ \A m \in DOMAIN providers \ pending' :
                      providers[m].type = "role" =>
                          registry'[m] = Append(Context, Role(providers[m]))
    <3>1. registry[Default] = Context /\ n # Default
      BY <2>1, <2>2, <2>9 DEF AssumedSoFar
    <3>2. Main \notin DOMAIN providers => registry'[Main] = Context
      BY <2>1, <2>2, <2>5, <2>9 DEF AssumedSoFar
    <3>3. ASSUME NEW m \in DOMAIN providers \ pending', providers[m].type = "role"
          PROVE  registry'[m] = Append(Context, Role(providers[m]))
      <4>1. CASE m = n
        BY <2>4, <2>5, <3>1, <3>3, <4>1
      <4>2. CASE m # n
        <5>1. m \in DOMAIN providers \ pending /\ m \in Names
          BY <2>1, <3>3, <4>2 DEF RegisteredSoFar
        <5> QED
          BY <2>1, <2>5, <2>9, <3>3, <4>2, <5>1 DEF AssumedSoFar
      <4> QED
        BY <4>1, <4>2
    <3> QED
      BY <2>5, <3>1, <3>2, <3>3
  <2>10. AssumedSoFar'
    BY <2>1, <2>8, <2>9 DEF AssumedSoFar, Role
  <2> QED
    BY <2>6, <2>7, <2>10 DEF ProvidersInv
<1>9. ASSUME UNCHANGED <<inputs, merged, providers, unapplied, registry, pending>>,
             \/ pc' = pc
             \/ pc = "others" /\ pc' = "ready" /\ pending = {}
      PROVE  ProvidersInv'
  <2>1. ProvidersTypeOK'
    BY <1>3, <1>9 DEF ProvidersTypeOK
  <2>2. Context' = Context
    BY <1>9 DEF Context, inputs, Session, Role
  <2>3. RegisteredSoFar'
    BY <1>9 DEF RegisteredSoFar
  <2>4. AssumedSoFar'
    <3>1. UNCHANGED <<flags, registry, pending, providers>>
      BY <1>9 DEF inputs
    <3>2. CASE pc' = pc
      BY <2>2, <3>1, <3>2 DEF AssumedSoFar, Role
    <3>3. CASE pc = "others" /\ pc' = "ready"
      BY <2>2, <3>1, <3>3 DEF AssumedSoFar, Role
    <3> QED
      BY <1>9, <3>2, <3>3
  <2> QED
    BY <2>1, <2>3, <2>4 DEF ProvidersInv
<1>10. CASE AllInitialised \/ UNCHANGED vars
  BY <1>9, <1>10 DEF AllInitialised, vars
<1> QED
  BY <1>2, <1>4, <1>5, <1>6, <1>7, <1>8, <1>10 DEF Next, InitStep

-----------------------------------------------------------------------------
(* What is done to one group *)

LEMMA GroupFields ==
  ASSUME NEW def \in Groups!Definitions
  PROVE  /\ def.provider \in Names \cup {None} /\ def.vpc \in Vpcs \cup {NoVpc}
         /\ def.rules \in SUBSET Rules /\ def.tags \in Groups!TagMaps
         /\ def.deps \in SUBSET Groups!Keys
BY DEF Groups!Definitions

\* ResourceTags.Merge: the own value of a key stays, except under a reserved one.
LEMMA MergedTags ==
  ASSUME NEW own \in Groups!TagMaps, NEW other \in Groups!TagMaps
  PROVE  /\ Groups!Merge(own, other) \in Groups!TagMaps
         /\ Groups!Merge(own, other)[ResourceId] = other[ResourceId]
         /\ \A key \in TagKeys \ Reserved :
                own[key] # NoTag => Groups!Merge(own, other)[key] # NoTag
BY TagsType DEF Groups!Merge, Groups!TagMaps

LEMMA NoneReserved ==
  ASSUME NEW tags \in Groups!TagMaps, ~ Groups!HasReserved(tags)
  PROVE  /\ tags[ResourceId] = NoTag
         /\ Groups!Present(tags) \subseteq TagKeys \ Reserved
BY TagsType DEF Groups!HasReserved, Groups!Present

\* A group as the graph first has it.
LEMMA NormalizedGroup ==
  ASSUME NEW def \in Groups!Definitions, NEW k \in Groups!Keys
  PROVE  /\ Groups!Normalized(k, def) \in Groups!Definitions
         /\ Groups!Normalized(k, def).vpc = def.vpc
         /\ Groups!Normalized(k, def).rules = def.rules
         /\ Groups!Normalized(k, def).deps = def.deps
         /\ Groups!Normalized(k, def).tags[ResourceId] = Id[k[2]]
         /\ \A key \in TagKeys \ Reserved :
                def.tags[key] # NoTag => Groups!Normalized(k, def).tags[key] # NoTag
<1>1. Id[k[2]] \in TagValues /\ ResourceId \in TagKeys
  BY GroupsType, TagsType DEF Groups!WellFormed, Groups!Keys
<1>2. /\ Groups!Identity(k) \in Groups!TagMaps
      /\ Groups!Identity(k)[ResourceId] = Id[k[2]]
  BY <1>1 DEF Groups!Identity, Groups!NoTags, Groups!TagMaps
<1>3. PICK tags \in Groups!TagMaps : tags = Groups!Merge(def.tags, Groups!Identity(k))
  BY <1>2, MergedTags, GroupFields
<1>4. Groups!Normalized(k, def) = [def EXCEPT !.tags = tags]
  BY <1>3 DEF Groups!Normalized
<1>5. /\ tags[ResourceId] = Id[k[2]]
      /\ \A key \in TagKeys \ Reserved : def.tags[key] # NoTag => tags[key] # NoTag
  BY <1>2, <1>3, MergedTags, GroupFields
<1> QED
  BY <1>4, <1>5 DEF Groups!Definitions

\* SecurityGroup.Merge only adds to a group.
LEMMA MergedGroupFacts ==
  ASSUME NEW def \in Groups!Definitions, NEW other \in Groups!Definitions
  PROVE  /\ Groups!MergedGroup(def, other) \in Groups!Definitions
         /\ def.vpc # NoVpc => Groups!MergedGroup(def, other).vpc # NoVpc
         /\ Groups!MergedGroup(def, other).rules = def.rules \cup other.rules
         /\ ~ Groups!HasReserved(other.tags) =>
                Groups!MergedGroup(def, other).tags[ResourceId] \in {def.tags[ResourceId], NoTag}
         /\ \A key \in TagKeys \ Reserved :
                def.tags[key] # NoTag => Groups!MergedGroup(def, other).tags[key] # NoTag
<1>1. PICK vpc \in Vpcs \cup {NoVpc} : vpc = IF other.vpc # NoVpc THEN other.vpc ELSE def.vpc
  BY GroupFields
<1>2. PICK rules \in SUBSET Rules : rules = def.rules \cup other.rules
  BY GroupFields
<1>3. PICK deps \in SUBSET Groups!Keys : deps = def.deps \cup other.deps
  BY GroupFields
<1>4. PICK tags \in Groups!TagMaps :
          tags = IF Groups!Present(other.tags) # {} THEN Groups!Merge(def.tags, other.tags)
                 ELSE def.tags
  BY GroupFields, MergedTags
<1>5. Groups!MergedGroup(def, other) =
          [def EXCEPT !.vpc = vpc, !.rules = rules, !.tags = tags, !.deps = deps]
  BY <1>1, <1>2, <1>3, <1>4 DEF Groups!MergedGroup, Groups!Definitions
<1>6. /\ ~ Groups!HasReserved(other.tags) => tags[ResourceId] \in {def.tags[ResourceId], NoTag}
      /\ \A key \in TagKeys \ Reserved : def.tags[key] # NoTag => tags[key] # NoTag
  BY <1>4, GroupFields, MergedTags, NoneReserved
<1> QED
  BY <1>1, <1>2, <1>5, <1>6 DEF Groups!Definitions

-----------------------------------------------------------------------------
(* The groups of the graph *)

\* Shapes of the variables; the graph's snapshot of dependsOn is never behind.
GroupsTypeOK ==
    /\ spec \in SpecGroups /\ entries \in OverrideGroups
    /\ unread \subseteq DOMAIN spec /\ unreached \subseteq DOMAIN entries
    /\ DOMAIN dependencies = DOMAIN vertices
    /\ \A k \in DOMAIN vertices :
           /\ k \in Groups!Keys
           /\ vertices[k] \in Groups!Definitions
           /\ dependencies[k] = vertices[k].deps

\* Each phase ends with nothing left to do.
PhaseOK ==
    /\ phase \in {"reading", "overriding", "loaded", "refused"}
    /\ phase = "reading" => unreached = DOMAIN entries
    /\ phase \in {"overriding", "loaded"} => unread = {}
    /\ phase = "loaded" => unreached = {} /\ errors = {}
    /\ pc # "ready" => DOMAIN vertices = {}

\* What every group that got into the graph is like.
VerticesSound ==
    \A k \in DOMAIN vertices :
        /\ k[1] \in DOMAIN providers \cup {Default, Main}
        /\ vertices[k].vpc # NoVpc
        /\ errors = {} => vertices[k].tags[ResourceId] \in {Id[k[2]], NoTag}

\* A group that is read, and the entries that have reached it since.
SpecKey(d) == Groups!KeyOf(d, spec[d])

ReadSoFar(d) ==
    /\ SpecKey(d) \in DOMAIN vertices
    /\ \A e \in DOMAIN spec \ unread : e # d => SpecKey(e) # SpecKey(d)
    /\ vertices[SpecKey(d)].rules =
           spec[d].rules \cup UNION {entries[o].rules : o \in Groups!Reaching(SpecKey(d)) \ unreached}
    /\ ~ Groups!HasReserved(spec[d].tags)
    /\ \A key \in Groups!Present(spec[d].tags) : vertices[SpecKey(d)].tags[key] # NoTag

SpecRead == errors = {} => \A d \in DOMAIN spec \ unread : ReadSoFar(d)

GroupsInv == GroupsTypeOK /\ PhaseOK /\ VerticesSound /\ SpecRead

LEMMA InitGroups ==
  ASSUME LoadInit
  PROVE  GroupsInv
<1>1. /\ spec \in SpecGroups /\ entries \in OverrideGroups
      /\ unread = DOMAIN spec /\ unreached = DOMAIN entries /\ phase = "reading"
      /\ DOMAIN vertices = {} /\ DOMAIN dependencies = {}
  BY DEF LoadInit, Groups!Start, Groups!Empty
<1> QED
  BY <1>1 DEF GroupsInv, GroupsTypeOK, PhaseOK, VerticesSound, SpecRead

\* While the providers are loaded, there are no groups.
LEMMA ProvidersLeaveGroups ==
  ASSUME GroupsInv, LoadProviders
  PROVE  GroupsInv'
<1>1. DOMAIN vertices = {} /\ UNCHANGED groups
  <2>1. pc # "ready"
    BY DEF LoadProviders, Next, MergeStep, MergeProviders, AllMerged, OverrideStep, MergeEntry,
           AddEntry, SkipEntry, RefuseEntry, AllOverridden, Reached, InitStep, InitContext,
           AssumeDefaultRole, CloneMain, InitProvider, InitFails, AllInitialised
  <2> QED
    BY <2>1 DEF GroupsInv, PhaseOK, LoadProviders
<1>2. UNCHANGED <<spec, entries, unread, unreached, vertices, dependencies, errors, phase>>
  BY <1>1 DEF groups
<1>3. GroupsTypeOK' /\ PhaseOK' /\ VerticesSound'
  BY <1>1, <1>2 DEF GroupsInv, GroupsTypeOK, PhaseOK, VerticesSound
<1>4. SpecRead'
  BY <1>2 DEF GroupsInv, SpecRead, ReadSoFar, SpecKey, Groups!KeyOf, Groups!Effective, Groups!Given,
              Groups!Reaching
<1> QED
  BY <1>3, <1>4 DEF GroupsInv

\* The groups are as they were, but for one that is new.
Admitted(k, def) ==
    /\ DOMAIN vertices \subseteq DOMAIN vertices'
    /\ \A m \in DOMAIN vertices : vertices'[m] = vertices[m]
    /\ \A m \in DOMAIN vertices' \ DOMAIN vertices :
           m = k /\ vertices'[m] = Groups!Normalized(k, def) /\ def.vpc # NoVpc
    /\ errors' = {} =>
           /\ errors = {} /\ ~ Groups!HasReserved(def.tags)
           /\ k \in DOMAIN vertices' \ DOMAIN vertices

LEMMA Admission ==
  ASSUME GroupsTypeOK, NEW k \in Groups!Keys, NEW def \in Groups!Definitions, Groups!Admit(k, def)
  PROVE  /\ Admitted(k, def)
         /\ DOMAIN dependencies' = DOMAIN vertices'
         /\ \A m \in DOMAIN vertices' :
                /\ m \in Groups!Keys
                /\ vertices'[m] \in Groups!Definitions
                /\ dependencies'[m] = vertices'[m].deps
<1> DEFINE admitted == Groups!Valid(def) /\ k \notin DOMAIN vertices \cup Taken
           g == Groups!Normalized(k, def)
<1>1. /\ DOMAIN dependencies = DOMAIN vertices
      /\ \A m \in DOMAIN vertices :
             /\ m \in Groups!Keys
             /\ vertices[m] \in Groups!Definitions
             /\ dependencies[m] = vertices[m].deps
  BY DEF GroupsTypeOK
<1>2. g \in Groups!Definitions /\ g.deps = def.deps
  BY NormalizedGroup
<1>3. CASE admitted
  <2>1. /\ vertices' = [m \in DOMAIN vertices \cup {k} |-> IF m = k THEN g ELSE vertices[m]]
        /\ dependencies' = [m \in DOMAIN dependencies \cup {k} |->
                               IF m = k THEN def.deps ELSE dependencies[m]]
    BY <1>3 DEF Groups!Admit, Groups!With
  <2>2. def.vpc # NoVpc /\ k \notin DOMAIN vertices
    BY <1>3 DEF Groups!Valid
  <2>3. errors' = {} => errors = {} /\ ~ Groups!HasReserved(def.tags)
    BY DEF Groups!Admit
  <2> HIDE DEF g, admitted
  <2>4. Admitted(k, def)
    BY <2>1, <2>2, <2>3 DEF Admitted, g
  <2> QED
    BY <1>1, <1>2, <2>1, <2>2, <2>4
<1>4. CASE ~ admitted
  <2>1. UNCHANGED <<vertices, dependencies>> /\ errors' # {}
    BY <1>4 DEF Groups!Admit
  <2> QED
    BY <1>1, <2>1 DEF Admitted
<1> QED
  BY <1>3, <1>4

\* A group that gets into the graph has a provider that is configured.
LEMMA ScopedKey ==
  ASSUME NEW d, NEW def, d.provider \in Names \cup {None}, d.id \in Ids,
         def.provider \in Names \cup {None}, ~ Groups!Unscopable(d, def)
  PROVE  /\ Groups!KeyOf(d, def) \in Groups!Keys
         /\ Groups!KeyOf(d, def)[1] \in DOMAIN providers \cup {Default, Main}
<1>1. Groups!Effective(d, def) \in Names
  BY NamesType DEF Groups!Effective, Groups!Given
<1>2. Groups!Effective(d, def) \in DOMAIN providers \cup {Default, Main}
  BY DEF Groups!Unscopable
<1> QED
  BY <1>1, <1>2 DEF Groups!KeyOf, Groups!Keys

\* One more group leaves the others sound.
LEMMA AdmittedSound ==
  ASSUME VerticesSound, NEW k \in Groups!Keys, NEW def \in Groups!Definitions, Admitted(k, def),
         k[1] \in DOMAIN providers \cup {Default, Main}, UNCHANGED providers
  PROVE  VerticesSound'
<1> SUFFICES ASSUME NEW m \in DOMAIN vertices'
             PROVE  /\ m[1] \in DOMAIN providers' \cup {Default, Main}
                    /\ vertices'[m].vpc # NoVpc
                    /\ errors' = {} => vertices'[m].tags[ResourceId] \in {Id[m[2]], NoTag}
  BY DEF VerticesSound
<1>1. CASE m \in DOMAIN vertices
  BY <1>1 DEF VerticesSound, Admitted
<1>2. CASE m \notin DOMAIN vertices
  BY <1>2, NormalizedGroup DEF Admitted
<1> QED
  BY <1>1, <1>2

\* What an input says of the groups it declares.
LEMMA DeclaredGroups ==
  ASSUME GroupsTypeOK
  PROVE  /\ \A d \in DOMAIN spec :
                /\ d.provider \in Names \cup {None} /\ d.id \in Ids
                /\ spec[d] \in Groups!Definitions
         /\ \A o \in DOMAIN entries : o \in GroupPatterns /\ entries[o] \in Groups!Definitions
BY GroupsType DEF GroupsTypeOK, Groups!WellFormed, Groups!PartialMap, Groups!Declared

\* Keys and what matches them follow from the inputs alone.
LEMMA KeysStay ==
  ASSUME UNCHANGED <<spec, entries>>
  PROVE  /\ \A d : SpecKey(d)' = SpecKey(d)
         /\ \A k : Groups!Reaching(k)' = Groups!Reaching(k)
BY DEF SpecKey, Groups!KeyOf, Groups!Effective, Groups!Given, Groups!Reaching

LEMMA ReadGroup ==
  ASSUME GroupsInv, UNCHANGED providers, pc = "ready", pc' = "ready",
         NEW d \in unread, Groups!Read(d)
  PROVE  GroupsInv'
<1> /\ GroupsTypeOK /\ PhaseOK /\ VerticesSound /\ SpecRead
  BY DEF GroupsInv
<1> DEFINE k == SpecKey(d)
<1>1. UNCHANGED <<spec, entries, unreached>> /\ phase = "reading" /\ unreached = DOMAIN entries
  BY DEF Groups!Read, Groups!Refuse, Groups!Scoped, PhaseOK
<1>2. d \in DOMAIN spec /\ d.provider \in Names \cup {None} /\ d.id \in Ids
      /\ spec[d] \in Groups!Definitions /\ spec[d].provider \in Names \cup {None}
  BY DeclaredGroups, GroupFields DEF GroupsTypeOK
<1>3. CASE Groups!Unscopable(d, spec[d])
  <2>1. phase' = "refused" /\ UNCHANGED <<unread, vertices, dependencies, errors>>
    BY <1>3 DEF Groups!Read, Groups!Refuse, Groups!graph
  <2>2. GroupsTypeOK' /\ PhaseOK' /\ VerticesSound'
    BY <1>1, <2>1 DEF GroupsTypeOK, PhaseOK, VerticesSound
  <2>3. SpecRead'
    BY <1>1, <2>1, KeysStay DEF SpecRead, ReadSoFar
  <2> QED
    BY <2>2, <2>3 DEF GroupsInv
<1>4. CASE ~ Groups!Unscopable(d, spec[d])
  <2>1. /\ Groups!Admit(k, spec[d]) /\ unread' = unread \ {d} /\ UNCHANGED phase
    BY <1>4 DEF Groups!Read, Groups!Scoped, SpecKey
  <2>2. k \in Groups!Keys /\ k[1] \in DOMAIN providers \cup {Default, Main}
    BY <1>2, <1>4, ScopedKey DEF SpecKey
  <2>3. Admitted(k, spec[d])
    BY <1>2, <2>1, <2>2, Admission
  <2>4. GroupsTypeOK'
    <3>1. /\ DOMAIN dependencies' = DOMAIN vertices'
          /\ \A m \in DOMAIN vertices' :
                 /\ m \in Groups!Keys
                 /\ vertices'[m] \in Groups!Definitions
                 /\ dependencies'[m] = vertices'[m].deps
      BY <1>2, <2>1, <2>2, Admission
    <3> QED
      BY <1>1, <2>1, <3>1 DEF GroupsTypeOK
  <2>5. PhaseOK'
    BY <1>1, <2>1 DEF PhaseOK
  <2>6. VerticesSound'
    BY <1>2, <2>2, <2>3, AdmittedSound
  <2>7. ASSUME errors' = {}, NEW e \in DOMAIN spec \ unread'
        PROVE  ReadSoFar(e)'
    <3>1. /\ errors = {} /\ ~ Groups!HasReserved(spec[d].tags)
          /\ k \in DOMAIN vertices' /\ k \notin DOMAIN vertices
          /\ vertices'[k] = Groups!Normalized(k, spec[d])
          /\ \A m \in DOMAIN vertices : m \in DOMAIN vertices' /\ vertices'[m] = vertices[m]
      BY <2>3, <2>7 DEF Admitted
    <3>2. \A f \in DOMAIN spec \ unread : ReadSoFar(f)
      BY <3>1 DEF SpecRead
    <3>3. SpecKey(e)' = SpecKey(e) /\ \A f : SpecKey(f)' = SpecKey(f)
      BY <1>1, KeysStay
    <3>4. \A f \in DOMAIN spec \ unread : SpecKey(f) \in DOMAIN vertices
      BY <3>2 DEF ReadSoFar
    <3>5. \A f \in DOMAIN spec \ unread' : f # e => SpecKey(f) # SpecKey(e)
      BY <2>1, <3>1, <3>2, <3>4 DEF ReadSoFar
    <3>6. \A m : Groups!Reaching(m)' \ unreached' = {}
      BY <1>1 DEF Groups!Reaching
    <3>7. CASE e = d
      <4>1. \A key \in Groups!Present(spec[d].tags) : vertices'[k].tags[key] # NoTag
        BY <1>2, <2>2, <3>1, NoneReserved, NormalizedGroup, GroupFields DEF Groups!Present
      <4>2. vertices'[k].rules = spec[d].rules
        BY <1>2, <2>2, <3>1, NormalizedGroup
      <4> QED
        BY <1>1, <3>1, <3>3, <3>5, <3>6, <3>7, <4>1, <4>2 DEF ReadSoFar, Groups!Present, Groups!HasReserved
    <3>8. CASE e # d
      <4>1. e \in DOMAIN spec \ unread
        BY <2>1, <3>8
      <4>2. ReadSoFar(e) /\ SpecKey(e) \in DOMAIN vertices'
            /\ vertices'[SpecKey(e)] = vertices[SpecKey(e)]
        BY <3>1, <3>2, <3>4, <4>1
      <4>3. Groups!Reaching(SpecKey(e))' \ unreached' = Groups!Reaching(SpecKey(e)) \ unreached
        BY <1>1, <3>3, KeysStay DEF Groups!Reaching
      <4> QED
        BY <1>1, <3>3, <3>5, <4>2, <4>3 DEF ReadSoFar, Groups!Present, Groups!HasReserved
    <3> QED
      BY <3>7, <3>8
  <2> QED
    BY <1>1, <2>4, <2>5, <2>6, <2>7 DEF GroupsInv, SpecRead
<1> QED
  BY <1>3, <1>4

\* Steps that leave the graph alone, and may end a phase or skip an entry.
LEMMA GraphUntouched ==
  ASSUME GroupsInv, PhaseOK', UNCHANGED <<providers, spec, entries, unread, vertices, dependencies>>,
         errors \subseteq errors', unreached' \subseteq unreached,
         \A o \in unreached \ unreached' : Groups!Matched(o) = {}
  PROVE  GroupsInv'
<1> /\ GroupsTypeOK /\ VerticesSound /\ SpecRead
  BY DEF GroupsInv
<1>1. errors' = {} => errors = {}
  OBVIOUS
<1>2. GroupsTypeOK' /\ VerticesSound'
  BY <1>1 DEF GroupsTypeOK, VerticesSound
<1>3. ASSUME errors' = {}, NEW d \in DOMAIN spec \ unread
      PROVE  ReadSoFar(d)'
  <2>1. ReadSoFar(d)
    BY <1>1, <1>3 DEF SpecRead
  <2>2. \A o \in unreached \ unreached' : SpecKey(d) \notin GroupMatches[o]
    BY <2>1 DEF ReadSoFar, Groups!Matched
  <2>3. Groups!Reaching(SpecKey(d)) \ unreached' = Groups!Reaching(SpecKey(d)) \ unreached
    BY <2>2 DEF Groups!Reaching
  <2> QED
    BY <2>1, <2>3, KeysStay DEF ReadSoFar, Groups!Present, Groups!HasReserved
<1> QED
  BY <1>2, <1>3 DEF GroupsInv, SpecRead

LEMMA MergeGroups ==
  ASSUME GroupsInv, UNCHANGED <<providers, pc>>, NEW o \in GroupPatterns, Groups!MergeEntry(o)
  PROVE  GroupsInv'
<1> /\ GroupsTypeOK /\ PhaseOK /\ VerticesSound /\ SpecRead
  BY DEF GroupsInv
<1>1. /\ UNCHANGED <<spec, entries, unread, phase>> /\ phase = "overriding" /\ o \in unreached
      /\ unreached' = unreached \ {o} /\ errors \subseteq errors'
      /\ errors' = {} => ~ Groups!HasReserved(entries[o].tags)
  BY DEF Groups!MergeEntry, Groups!Reached
<1>2. PICK other \in Groups!Definitions : other = entries[o]
  BY <1>1, DeclaredGroups DEF GroupsTypeOK
<1>3. /\ DOMAIN vertices' = DOMAIN vertices /\ DOMAIN dependencies' = DOMAIN vertices
      /\ \A k \in DOMAIN vertices :
             IF k \in GroupMatches[o]
             THEN /\ vertices'[k] = Groups!MergedGroup(vertices[k], other)
                  /\ dependencies'[k] = vertices'[k].deps
             ELSE vertices'[k] = vertices[k] /\ dependencies'[k] = dependencies[k]
  BY <1>2 DEF Groups!MergeEntry, Groups!Matched, GroupsTypeOK
<1>4. \A k \in DOMAIN vertices :
          /\ k \in Groups!Keys /\ vertices[k] \in Groups!Definitions
          /\ dependencies[k] = vertices[k].deps
  BY DEF GroupsTypeOK
<1>5. GroupsTypeOK'
  <2>1. \A k \in DOMAIN vertices' :
            /\ k \in Groups!Keys
            /\ vertices'[k] \in Groups!Definitions
            /\ dependencies'[k] = vertices'[k].deps
    BY <1>3, <1>4, MergedGroupFacts
  <2> QED
    BY <1>1, <1>3, <2>1 DEF GroupsTypeOK
<1>6. PhaseOK'
  BY <1>1, <1>3 DEF PhaseOK
<1>7. VerticesSound'
  <2> SUFFICES ASSUME NEW k \in DOMAIN vertices
               PROVE  /\ k[1] \in DOMAIN providers \cup {Default, Main}
                      /\ vertices'[k].vpc # NoVpc
                      /\ errors' = {} => vertices'[k].tags[ResourceId] \in {Id[k[2]], NoTag}
    BY <1>3 DEF VerticesSound
  <2>1. k[1] \in DOMAIN providers \cup {Default, Main} /\ vertices[k].vpc # NoVpc
    BY DEF VerticesSound
  <2>2. errors' = {} => /\ vertices[k].tags[ResourceId] \in {Id[k[2]], NoTag}
                        /\ ~ Groups!HasReserved(other.tags)
    BY <1>1, <1>2 DEF VerticesSound
  <2> QED
    BY <1>3, <1>4, <2>1, <2>2, MergedGroupFacts
<1>8. ASSUME errors' = {}, NEW d \in DOMAIN spec \ unread
      PROVE  ReadSoFar(d)'
  <2>1. errors = {}
    BY <1>1, <1>8
  <2>2. ReadSoFar(d)
    BY <2>1 DEF SpecRead
  <2>3. PICK k \in DOMAIN vertices : k = SpecKey(d)
    BY <2>2 DEF ReadSoFar
  <2>4. spec[d].tags \in Groups!TagMaps
    BY DeclaredGroups, GroupFields
  <2>5. \A key \in Groups!Present(spec[d].tags) : key \in TagKeys \ Reserved /\ vertices[k].tags[key] # NoTag
    BY <2>2, <2>3, <2>4, NoneReserved DEF ReadSoFar
  <2>6. \A key \in Groups!Present(spec[d].tags) : vertices'[k].tags[key] # NoTag
    BY <1>3, <1>4, <2>5, MergedGroupFacts
  <2>7. vertices'[k].rules =
            spec[d].rules \cup UNION {entries[q].rules : q \in Groups!Reaching(k) \ unreached'}
    <3>1. vertices[k].rules =
              spec[d].rules \cup UNION {entries[q].rules : q \in Groups!Reaching(k) \ unreached}
      BY <2>2, <2>3 DEF ReadSoFar
    <3>2. o \in DOMAIN entries
      BY <1>1 DEF GroupsTypeOK
    <3>3. CASE k \in GroupMatches[o]
      <4>1. Groups!Reaching(k) \ unreached' = (Groups!Reaching(k) \ unreached) \cup {o}
        BY <1>1, <3>2, <3>3 DEF Groups!Reaching
      <4>2. vertices'[k].rules = vertices[k].rules \cup entries[o].rules
        BY <1>2, <1>3, <1>4, <3>3, MergedGroupFacts
      <4> QED
        BY <3>1, <4>1, <4>2
    <3>4. CASE k \notin GroupMatches[o]
      <4>1. Groups!Reaching(k) \ unreached' = Groups!Reaching(k) \ unreached
        BY <1>1, <3>4 DEF Groups!Reaching
      <4> QED
        BY <1>3, <3>1, <3>4, <4>1
    <3> QED
      BY <3>3, <3>4
  <2> QED
    BY <1>1, <1>3, <2>2, <2>3, <2>6, <2>7, KeysStay DEF ReadSoFar, Groups!Present, Groups!HasReserved
<1> QED
  BY <1>1, <1>5, <1>6, <1>7, <1>8 DEF GroupsInv, SpecRead

LEMMA AddGroup ==
  ASSUME GroupsInv, UNCHANGED <<providers, pc>>, pc = "ready", NEW o \in GroupPatterns,
         Groups!AddEntry(o)
  PROVE  GroupsInv'
<1> /\ GroupsTypeOK /\ PhaseOK /\ VerticesSound /\ SpecRead
  BY DEF GroupsInv
<1> DEFINE d == [provider |-> None, id |-> NewGroup[o]]
<1>1. /\ UNCHANGED <<spec, entries, unread>> /\ phase = "overriding" /\ o \in unreached
      /\ Groups!Matched(o) = {} /\ o \in DOMAIN NewGroup
  BY DEF Groups!AddEntry, Groups!Reached, Groups!Refuse
<1>2. CASE Groups!Unscopable(d, entries[o])
  <2>1. phase' = "refused" /\ UNCHANGED <<unreached, vertices, dependencies, errors>>
    BY <1>2 DEF Groups!AddEntry, Groups!Refuse, Groups!graph
  <2>2. PhaseOK'
    BY <1>1, <2>1 DEF PhaseOK
  <2> QED
    BY <1>1, <2>1, <2>2, GraphUntouched
<1>3. CASE ~ Groups!Unscopable(d, entries[o])
  <2>1. PICK def \in Groups!Definitions : def = entries[o]
    BY <1>1, DeclaredGroups DEF GroupsTypeOK
  <2>2. d.provider \in Names \cup {None} /\ d.id \in Ids /\ def.provider \in Names \cup {None}
    <3>1. Names \X {NewGroup[o]} \subseteq GroupMatches[o] /\ GroupMatches[o] \subseteq Names \X Ids
      BY <1>1, GroupsType DEF Groups!WellFormed, Groups!Keys
    <3>2. <<Main, NewGroup[o]>> \in Names \X Ids
      BY <3>1, NamesType
    <3> QED
      BY <3>2, GroupFields
  <2>3. PICK k \in Groups!Keys : k = Groups!KeyOf(d, def)
    BY <1>3, <2>1, <2>2, ScopedKey
  <2>4. k[1] \in DOMAIN providers \cup {Default, Main}
    BY <1>3, <2>1, <2>2, <2>3, ScopedKey
  <2>5. Groups!Admit(k, def) /\ UNCHANGED phase /\ unreached' = unreached \ {o}
    BY <1>3, <2>1, <2>3 DEF Groups!AddEntry, Groups!Scoped
  <2>6. Admitted(k, def)
    BY <2>5, Admission
  <2>7. GroupsTypeOK'
    <3>1. /\ DOMAIN dependencies' = DOMAIN vertices'
          /\ \A m \in DOMAIN vertices' :
                 /\ m \in Groups!Keys
                 /\ vertices'[m] \in Groups!Definitions
                 /\ dependencies'[m] = vertices'[m].deps
      BY <2>5, Admission
    <3> QED
      BY <1>1, <2>5, <3>1 DEF GroupsTypeOK
  <2>8. PhaseOK'
    BY <1>1, <2>5 DEF PhaseOK
  <2>9. VerticesSound'
    BY <2>4, <2>6, AdmittedSound
  <2>10. ASSUME errors' = {}, NEW e \in DOMAIN spec \ unread
         PROVE  ReadSoFar(e)'
    <3>1. errors = {} /\ \A m \in DOMAIN vertices : m \in DOMAIN vertices' /\ vertices'[m] = vertices[m]
      BY <2>6, <2>10 DEF Admitted
    <3>2. ReadSoFar(e)
      BY <3>1 DEF SpecRead
    <3>3. SpecKey(e) \notin GroupMatches[o]
      BY <1>1, <3>2 DEF ReadSoFar, Groups!Matched
    <3>4. Groups!Reaching(SpecKey(e)) \ unreached' = Groups!Reaching(SpecKey(e)) \ unreached
      BY <2>5, <3>3 DEF Groups!Reaching
    <3>5. SpecKey(e) \in DOMAIN vertices' /\ vertices'[SpecKey(e)] = vertices[SpecKey(e)]
      BY <3>1, <3>2 DEF ReadSoFar
    <3> QED
      BY <1>1, <3>2, <3>4, <3>5, KeysStay DEF ReadSoFar, Groups!Present, Groups!HasReserved
  <2> QED
    BY <1>1, <2>7, <2>8, <2>9, <2>10 DEF GroupsInv, SpecRead
<1> QED
  BY <1>2, <1>3

LEMMA NextGroups ==
  ASSUME GroupsInv, [LoadNext]_<<vars, groups>>
  PROVE  GroupsInv'
<1>1. CASE LoadProviders
  BY <1>1, ProvidersLeaveGroups
<1>2. CASE BuildGraph
  <2>1. UNCHANGED <<providers, pc>> /\ pc = "ready"
    BY <1>2 DEF BuildGraph, vars
  <2>2. ASSUME NEW d \in unread, Groups!Read(d)
        PROVE  GroupsInv'
    BY <2>1, <2>2, ReadGroup
  <2>3. ASSUME NEW o \in GroupPatterns, Groups!MergeEntry(o) \/ Groups!AddEntry(o)
        PROVE  GroupsInv'
    BY <2>1, <2>3, MergeGroups, AddGroup
  <2>4. ASSUME NEW o \in GroupPatterns, Groups!SkipEntry(o) \/ Groups!RefuseEntry(o)
        PROVE  GroupsInv'
    <3>1. /\ UNCHANGED <<spec, entries, unread, vertices, dependencies>> /\ errors \subseteq errors'
          /\ unreached' \subseteq unreached /\ phase = "overriding"
          /\ \A q \in unreached \ unreached' : Groups!Matched(q) = {}
          /\ phase' \in {"overriding", "refused"}
      BY <2>4 DEF Groups!SkipEntry, Groups!RefuseEntry, Groups!Reached, Groups!graph
    <3>2. PhaseOK'
      BY <2>1, <3>1 DEF GroupsInv, PhaseOK
    <3> QED
      BY <2>1, <3>1, <3>2, GraphUntouched
  <2>5. CASE Groups!ReadAll \/ Groups!Finish
    <3>1. /\ UNCHANGED <<spec, entries, unread, unreached, vertices, dependencies, errors>>
          /\ \/ phase = "reading" /\ unread = {} /\ phase' = "overriding"
             \/ phase = "overriding" /\ unreached = {} /\ errors # {} /\ phase' = "refused"
             \/ phase = "overriding" /\ unreached = {} /\ errors = {} /\ phase' = "loaded"
      BY <2>5 DEF Groups!ReadAll, Groups!Finish, Groups!graph
    <3>2. PhaseOK'
      BY <2>1, <3>1 DEF GroupsInv, PhaseOK
    <3> QED
      BY <2>1, <3>1, <3>2, GraphUntouched
  <2> QED
    BY <1>2, <2>2, <2>3, <2>4, <2>5 DEF BuildGraph, Groups!Next
<1>3. CASE UNCHANGED <<vars, groups>>
  <2>1. UNCHANGED <<pc, providers, spec, entries, unread, unreached, vertices, dependencies, errors, phase>>
    BY <1>3 DEF vars, groups
  <2>2. PhaseOK'
    BY <2>1 DEF GroupsInv, PhaseOK
  <2> QED
    BY <2>1, <2>2, GraphUntouched
<1> QED
  BY <1>1, <1>2, <1>3 DEF LoadNext

-----------------------------------------------------------------------------
(* What every load is like *)

LEMMA InvariantOfLoads == LoadSpec => [](ProvidersInv /\ GroupsInv)
<1>1. LoadInit => ProvidersInv /\ GroupsInv
  BY InitProviders, InitGroups DEF LoadInit
<1>2. ProvidersInv /\ GroupsInv /\ [LoadNext]_<<vars, groups>> => (ProvidersInv /\ GroupsInv)'
  <2> SUFFICES ASSUME ProvidersInv, GroupsInv, [LoadNext]_<<vars, groups>>
               PROVE  ProvidersInv' /\ GroupsInv'
    OBVIOUS
  <2>1. [Next]_vars
    BY DEF LoadNext, LoadProviders, BuildGraph
  <2> QED
    BY <2>1, NextProviders, NextGroups
<1> QED
  BY <1>1, <1>2, PTL DEF LoadSpec

\* InitAwsProviders: in whatever order Go goes over the maps, every role is assumed from
\* what the flags say of `default`, whose credentials are also those of main.
THEOREM RolesFromContext == LoadSpec => []AssumedFromContext
<1>1. ProvidersInv => AssumedFromContext
  BY DEF ProvidersInv, RegisteredSoFar, AssumedSoFar, AssumedFromContext, Context
<1> QED
  BY <1>1, InvariantOfLoads, PTL

\* mustGetProvider does not exit the process: every group of the graph, read or added by
\* an override, has a provider with credentials.
THEOREM GroupsHaveCredentials == LoadSpec => []CredentialsForEveryGroup
<1>1. ProvidersInv /\ GroupsInv => CredentialsForEveryGroup
  <2> SUFFICES ASSUME ProvidersInv, GroupsInv, NEW k \in DOMAIN vertices
               PROVE  registry[k[1]] # None
    BY DEF CredentialsForEveryGroup
  <2>1. pc = "ready" /\ k[1] \in DOMAIN providers \cup {Default, Main}
    BY DEF GroupsInv, PhaseOK, VerticesSound
  <2> QED
    BY <2>1 DEF ProvidersInv, RegisteredSoFar
<1> QED
  BY <1>1, InvariantOfLoads, PTL

\* overrideSecurityGroups: the edges of the graph are those of the merged groups.
THEOREM EdgesOfMergedGroups == LoadSpec => []EdgesFollowGroups
<1>1. GroupsInv => EdgesFollowGroups
  BY DEF GroupsInv, GroupsTypeOK, EdgesFollowGroups, Groups!EdgesFollowGroups
<1> QED
  BY <1>1, InvariantOfLoads, PTL

\* buildGraph and overrideSecurityGroups: whatever the order of the map, a loaded graph
\* has every group of the spec under a key of its own, with all that its definition and
\* the entries that match it say; no group lacks a vpc or has another's identity.
THEOREM LoadsAreComplete == LoadSpec => []OverridesReachTheSpec
<1>1. GroupsInv => OverridesReachTheSpec
  <2> SUFFICES ASSUME GroupsInv, phase = "loaded"
               PROVE  Groups!OverridesReachTheSpec /\ Groups!LoadedIsSound
    BY DEF OverridesReachTheSpec, Groups!OverridesReachTheSpec, Groups!LoadedIsSound
  <2>1. unread = {} /\ unreached = {} /\ errors = {}
    BY DEF GroupsInv, PhaseOK
  <2>2. \A d \in DOMAIN spec : ReadSoFar(d)
    BY <2>1 DEF GroupsInv, SpecRead
  <2>3. Groups!OverridesReachTheSpec
    BY <2>1, <2>2 DEF Groups!OverridesReachTheSpec, ReadSoFar, SpecKey
  <2>4. Groups!LoadedIsSound
    BY <2>1 DEF GroupsInv, VerticesSound, Groups!LoadedIsSound, Groups!Valid
  <2> QED
    BY <2>3, <2>4
<1> QED
  BY <1>1, InvariantOfLoads, PTL

=============================================================================
