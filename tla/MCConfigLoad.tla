----------------------------- MODULE MCConfigLoad -----------------------------
(***************************************************************************)
(* ConfigLoad for TLC: every choice of providers with a few groups, and    *)
(* every choice of groups with two providers.  Of the providers, `it` is   *)
(* one and `security` one whose name contains it; an entry may add fresh.  *)
(* Of the groups, the entry eWeb matches web and web2 of every provider,   *)
(* eOfIt the groups of provider it and, being anchored, can be no name,    *)
(* eNew matches nothing in a spec, eNone is no regular expression; db is a *)
(* table.                                                                  *)
(***************************************************************************)
EXTENDS ConfigLoad

CONSTANTS default, main, it, security, fresh,         \* providers
          star, eIt, eFresh, eMain, eReg, eBad,       \* their entries
          acct1, acct2, role1, arn1, arn2, profile,
          web, web2, extra, db,                       \* groups
          eWeb, eNew, eDb, eOfIt, eNone,              \* their entries
          vpc, novpc, r, s, t, id, tag, v1, v2

MCMatches ==
    [o \in Patterns |->
        CASE o = star   -> Names
          [] o = eIt    -> {it, security}
          [] o = eFresh -> {fresh}
          [] o = eMain  -> {main}
          [] OTHER      -> {security}]
MCNewName ==
    [o \in {eIt, eFresh, eMain} |->
        IF o = eIt THEN it ELSE IF o = eFresh THEN fresh ELSE main]

C(type, account, roleName, arn, source) ==
    [type |-> type, account |-> account, roleName |-> roleName, arn |-> arn, source |-> source]

ByName  == C("role", acct1, role1, None, None)
ByArn   == C("role", None, None, arn1, None)
Partly  == C("role", acct1, None, None, None)
Profile == C("shared", None, None, None, profile)
Context == C("default", None, None, None, None)

MCSpecFiles ==
    {<<[n \in {it} |-> c]>> : c \in {ByName, ByArn, Profile, Partly}}
    \cup {<<[n \in {it, security} |-> ByName], f>> :
              f \in {[n \in S |-> ByArn] : S \in {{}, {main}, {it}, {default}}}}

Changes ==
    {ByArn, Profile, C("", acct2, None, None, None), C("", None, None, arn2, None),
     C("role", None, role1, None, None)}
UpToTwo(S) == {E \in SUBSET S : \E x, y \in S : E = {x, y}}
MCOverrides == UNION {[D -> Changes] : D \in UpToTwo(Patterns)} \cup {Empty}

MCDefaultConfigs == {ByName, Profile, Context}

MCGroupMatches ==
    [o \in GroupPatterns |->
        CASE o = star  -> Names \X Ids
          [] o = eWeb  -> Names \X {web, web2}
          [] o = eNew  -> Names \X {extra}
          [] o = eDb   -> Names \X {db}
          [] o = eOfIt -> {it} \X Ids
          [] OTHER     -> {}]
MCNewGroup == [o \in {eWeb, eNew, eDb} |-> IF o = eWeb THEN web ELSE IF o = eNew THEN extra ELSE db]
MCTaken == Names \X {db}
MCId    == [i \in Ids |-> v1]

NoTagsHere == [k \in TagKeys |-> NoTag]
G(p, net, rules, v, deps) ==
    [provider |-> p, vpc |-> net, rules |-> rules, tags |-> [NoTagsHere EXCEPT ![tag] = v],
     deps |-> deps]
Reserving(g) == [g EXCEPT !.tags[id] = v2]
D(p, i) == [provider |-> p, id |-> i]

Web  == {G(None, vpc, {r}, v, {}) : v \in {NoTag, v1}}
        \cup {G(None, novpc, {r}, NoTag, {}), G(it, vpc, {r}, NoTag, {})}
Web2 == {G(p, vpc, {}, NoTag, {<<main, web>>}) : p \in {None, it, main}}
        \cup {Reserving(G(None, vpc, {}, NoTag, {}))}

\* With every choice of providers: a group of main, one of a provider the spec or
\* the override may have, and one more that an entry adds.
FewSpecs ==
    {[d \in {D(None, web), D(p, web2)} |-> G(None, vpc, {r}, NoTag, {})] : p \in {security, fresh}}
FewEntries == {[o \in {eNew} |-> G(p, vpc, {}, NoTag, {})] : p \in {default, fresh}}

MCSpecGroups ==
    {[d \in {D(None, web), e} |-> IF d = e THEN h ELSE g] :
         e \in {D(None, web2), D(it, web2)}, g \in Web, h \in Web2}
    \cup {[d \in {D(p, web)} |-> h] : p \in {None, it, security}, h \in Web2}
    \cup {[d \in {D(None, web), D(main, web)} |-> g] : g \in Web}
    \cup FewSpecs

Additions ==
    {G(None, vpc, {s}, NoTag, {<<main, extra>>}), G(it, novpc, {t}, v2, {}),
     G(security, vpc, {}, NoTag, {<<main, web>>}), Reserving(G(None, novpc, {s}, NoTag, {}))}
MCOverrideGroups == UNION {[O -> Additions] : O \in UpToTwo(GroupPatterns)} \cup FewEntries \cup {Empty}

\* With every choice of groups: `it` alone is configured.
OneProvider ==
    files = <<[n \in {it} |-> ByName]>> /\ override = Empty /\ flags = Context

MCInit ==
    /\ \/ Inputs /\ spec \in FewSpecs /\ entries \in FewEntries
       \/ OneProvider /\ spec \in SpecGroups /\ entries \in OverrideGroups
    /\ Start
    /\ Groups!Start

MCSpec == MCInit /\ [][LoadNext]_<<vars, groups>>
===============================================================================
