------------------------------ MODULE Providers ------------------------------
(***************************************************************************)
(* The named providers of a load: the providers sections of the config     *)
(* files are merged, the override's entries applied to them, and each one  *)
(* is turned into AWS credentials, `default` first and the others assumed  *)
(* from it (config/internal_config.go, client/aws.go).  Go goes over the   *)
(* override's entries, and over the providers, in random order.            *)
(***************************************************************************)
EXTENDS Integers, Sequences

CONSTANTS
    Names,         \* names of providers
    Default, Main, \* the two reserved ones
    Patterns,      \* names of override entries
    Star,          \* the entry *
    BadPatterns,   \* entries that are not regular expressions
    Matches,       \* what a pattern, unanchored, matches: [Patterns -> SUBSET Names]
    NewName,       \* the provider an entry adds, when its name can be one
    None,          \* an attribute left out
    Accounts, RoleNames, Arns, \* account ids, names and arns of roles
    Sources,       \* names of profiles, config files or variables with credentials
    Chain,         \* the credentials of the context, from AWS's default chain
    SpecFiles,     \* the providers sections a user may write: sequences of maps
    Overrides,     \* the override configs
    DefaultConfigs \* what the flags may say of `default`

\* client.AwsProvider; the config file, the profile and the variables' names
\* are one attribute, the region is left out.
Configs ==
    [type     : {"", "default", "shared", "role"},
     account  : Accounts \cup {None},
     roleName : RoleNames \cup Arns \cup Sources \cup {None},
     arn      : Arns \cup {None},
     source   : Sources \cup {None}]

PartialMap(f, S) == DOMAIN f \subseteq S /\ \A x \in DOMAIN f : f[x] \in Configs

\* What a chain of sessions begins with, and the roles that are assumed along it.
Links ==
    {Chain} \cup Sources \cup {<<a>> : a \in Arns}
    \cup (Accounts \cup {None}) \X (RoleNames \cup Arns \cup Sources \cup {None})

ASSUME ChainsType == None \notin Seq(Links)
ASSUME NamesType ==
    /\ {Default, Main} \subseteq Names /\ Default # Main /\ None \notin Names
    /\ Star \in Patterns
    /\ Matches \in [Patterns -> SUBSET Names]
    /\ DOMAIN NewName \subseteq Patterns \ {Star}
    /\ \A o \in DOMAIN NewName : NewName[o] \in Matches[o]
ASSUME InputsType ==
    /\ \A s \in SpecFiles : /\ Len(s) \in Nat /\ DOMAIN s = 1 .. Len(s)
                           /\ \A i \in DOMAIN s : PartialMap(s[i], Names)
    /\ \A f \in Overrides : PartialMap(f, Patterns)
    /\ DefaultConfigs \subseteq Configs

VARIABLES
    files,      \* the providers section of each config file
    override,   \* the providers section of the override
    flags,      \* RootOptions.DefaultProvider
    pc,         \* the phase of the load
    merged,     \* how many files are merged
    providers,  \* InternalConfig.providers
    unapplied,  \* entries of the override not yet gone over
    registry,   \* the credentials each name has in aws-ccp-go: None or a chain of
                \* sessions that starts with a source
    pending     \* providers not yet initialised

inputs == <<files, override, flags>>
vars   == <<inputs, pc, merged, providers, unapplied, registry, pending>>

Empty == [n \in {} |-> None]

Inputs ==
    /\ files \in SpecFiles
    /\ override \in Overrides
    /\ flags \in DefaultConfigs

Start ==
    /\ pc = "merging"
    /\ merged = 0
    /\ providers = Empty
    /\ unapplied = DOMAIN override
    /\ registry = [n \in Names |-> None]
    /\ pending = {}

Init == Inputs /\ Start

Refuse == pc' = "refused"

-----------------------------------------------------------------------------
(* mergeConfigs: files, then override entries *)

With(f, S, value(_)) ==
    [n \in DOMAIN f \cup S |-> IF n \in S THEN value(n) ELSE f[n]]

Redefines(section) == DOMAIN section \cap DOMAIN providers # {}

MergeProviders ==
    /\ pc = "merging"
    /\ merged < Len(files)
    /\ LET section == files[merged + 1] IN
       IF Redefines(section)
       THEN Refuse /\ UNCHANGED <<merged, providers>>
       ELSE /\ providers' = With(providers, DOMAIN section, LAMBDA n : section[n])
            /\ merged' = merged + 1
            /\ UNCHANGED pc
    /\ UNCHANGED <<inputs, unapplied, registry, pending>>

AllMerged ==
    /\ pc = "merging"
    /\ merged = Len(files)
    /\ pc' = "overriding"
    /\ UNCHANGED <<inputs, merged, providers, unapplied, registry, pending>>

Given(new, old) == IF new # None THEN new ELSE old

\* AwsProvider.Merge: what the entry has for the arn or for a source goes into
\* RoleName, the last of them stays.
MergedProvider(def, other) ==
    [def EXCEPT
        !.type     = IF other.type # "" THEN other.type ELSE @,
        !.account  = Given(other.account, @),
        !.roleName = Given(other.source, Given(other.arn, Given(other.roleName, @)))]

Matched(o) == IF o = Star THEN DOMAIN providers ELSE Matches[o] \cap DOMAIN providers

Reached(o) == pc = "overriding" /\ o \in unapplied

MergeEntry(o) ==
    /\ Reached(o)
    /\ o \notin BadPatterns
    /\ o = Star \/ Matched(o) # {}
    /\ providers' = With(providers, Matched(o),
                         LAMBDA n : MergedProvider(providers[n], override[o]))
    /\ unapplied' = unapplied \ {o}
    /\ UNCHANGED <<inputs, pc, merged, registry, pending>>

AddEntry(o) ==
    /\ Reached(o)
    /\ o \in DOMAIN NewName \ BadPatterns
    /\ Matched(o) = {}
    /\ providers' = With(providers, {NewName[o]}, LAMBDA n : override[o])
    /\ unapplied' = unapplied \ {o}
    /\ UNCHANGED <<inputs, pc, merged, registry, pending>>

SkipEntry(o) ==
    /\ Reached(o)
    /\ o \notin DOMAIN NewName \cup BadPatterns \cup {Star}
    /\ Matched(o) = {}
    /\ unapplied' = unapplied \ {o}
    /\ UNCHANGED <<inputs, pc, merged, providers, registry, pending>>

RefuseEntry(o) ==
    /\ Reached(o)
    /\ o \in BadPatterns
    /\ Refuse
    /\ UNCHANGED <<inputs, merged, providers, unapplied, registry, pending>>

AllOverridden ==
    /\ pc = "overriding"
    /\ unapplied = {}
    /\ pc' = "context"
    /\ UNCHANGED <<inputs, merged, providers, unapplied, registry, pending>>

-----------------------------------------------------------------------------
(* InitAwsProviders and ToCredsProvider *)

Role(cfg) == IF cfg.arn # None THEN <<cfg.arn>> ELSE <<cfg.account, cfg.roleName>>
Enough(cfg) == cfg.arn # None \/ (cfg.account # None /\ cfg.roleName # None)

\* AWS knows the roles that have a name of a role.
Known(cfg) == Enough(cfg) /\ (cfg.arn # None \/ cfg.roleName \in RoleNames)

\* What the credentials of a provider of this config begin with or consist of.
Session(cfg) ==
    IF cfg.type = "shared" THEN <<Given(cfg.source, Chain)>> ELSE <<Chain>>

\* `default` without a role, or what its role is assumed with: with no base
\* provider, the context's own credentials are registered as `default` first.
InitContext ==
    /\ pc = "context"
    /\ registry' = [registry EXCEPT ![Default] = Session(flags)]
    /\ pc' = IF flags.type = "role" THEN "role" ELSE "main"
    /\ UNCHANGED <<inputs, merged, providers, unapplied, pending>>

AssumeDefaultRole ==
    /\ pc = "role"
    /\ Known(flags)
    /\ registry' = [registry EXCEPT ![Default] = Append(@, Role(flags))]
    /\ pc' = "main"
    /\ UNCHANGED <<inputs, merged, providers, unapplied, pending>>

CloneMain ==
    /\ pc = "main"
    /\ registry' = IF Main \in DOMAIN providers THEN registry
                   ELSE [registry EXCEPT ![Main] = registry[Default]]
    /\ pending' = DOMAIN providers
    /\ pc' = "others"
    /\ UNCHANGED <<inputs, merged, providers, unapplied>>

\* Mutant: `default` is registered anew, as it is for a nil base.
BaseIsContext(n, creds) == [registry EXCEPT ![n] = creds, ![Default] = <<Chain>>]

Registered(n, creds) == [registry EXCEPT ![n] = creds]

\* A configured provider, in the order of a Go map.
InitProvider(n) ==
    LET cfg == providers[n] IN
    /\ pc = "others"
    /\ n \in pending
    /\ cfg.type = "role" => Known(cfg)
    /\ registry' = Registered(n, IF cfg.type = "role"
                                 THEN Append(registry[Default], Role(cfg))
                                 ELSE Session(cfg))
    /\ pending' = pending \ {n}
    /\ UNCHANGED <<inputs, pc, merged, providers, unapplied>>

\* Too few attributes, credentials that do not pass the validation, a role AWS
\* does not let assume: any of them ends the load.
InitFails ==
    /\ pc \in {"context", "role", "others"}
    /\ pc = "others" => pending # {}
    /\ Refuse
    /\ UNCHANGED <<inputs, merged, providers, unapplied, registry, pending>>

AllInitialised ==
    /\ pc = "others"
    /\ pending = {}
    /\ pc' = "ready"
    /\ UNCHANGED <<inputs, merged, providers, unapplied, registry, pending>>

MergeStep    == MergeProviders \/ AllMerged
OverrideStep == \/ \E o \in Patterns : MergeEntry(o) \/ AddEntry(o) \/ SkipEntry(o) \/ RefuseEntry(o)
                \/ AllOverridden
InitStep     == \/ InitContext \/ AssumeDefaultRole \/ CloneMain
                \/ \E n \in Names : InitProvider(n)
                \/ InitFails \/ AllInitialised

Next == MergeStep \/ OverrideStep \/ InitStep

Spec == Init /\ [][Next]_vars

-----------------------------------------------------------------------------
(* Properties *)

Defined == UNION {DOMAIN files[i] : i \in DOMAIN files}

\* Whatever the order of the map, a loaded provider assumes its role from what
\* the flags say of `default`, and never from another named provider, and main is
\* default unless it is configured.  (A spec that configures `default` itself is
\* left out: see the README.)
AssumedFromContext ==
    pc = "ready" /\ Default \notin DOMAIN providers =>
        LET context == IF flags.type = "role" THEN <<Chain, Role(flags)>> ELSE Session(flags) IN
        /\ registry[Default] = context
        /\ Main \notin DOMAIN providers => registry[Main] = context
        /\ \A n \in DOMAIN providers :
               providers[n].type = "role" =>
                   registry[n] = Append(context, Role(providers[n]))

\* What docs/overrides.md says of a merge: every attribute the entry gives is
\* copied, here the arn of the role to assume.
ArnsAreOverridden ==
    pc = "ready" =>
        \A n \in Defined, o \in DOMAIN override :
            /\ o = Star \/ n \in Matches[o]
            /\ \A q \in DOMAIN override \ {o} : q # Star /\ n \notin Matches[q]
            /\ override[o].arn # None
            => providers[n].arn = override[o].arn
=============================================================================
