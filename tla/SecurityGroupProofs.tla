------------------------- MODULE SecurityGroupProofs -------------------------
(***************************************************************************)
(* Theorems about SecurityGroup for any permissions, descriptions, tags    *)
(* and definitions: rules change only towards the definition, and Apply    *)
(* and Destroy keep the contract of the graph walks.                       *)
(***************************************************************************)
EXTENDS SecurityGroup, SequenceTheorems, FiniteSetTheorems, TLAPS

Dirs     == {"in", "out"}
AnyRules == Rules(InPerms) \cup Rules(OutPerms)

ApplyOps   == {"lookup", "create", "await", "revoke", "authorize", "tag", "untag"}
DestroyOps == {"look", "delete"}
Calls      == [op : ApplyOps \cup DestroyOps, dir : Dirs \cup {"none"},
               rules : Seq(AnyRules), tags : SUBSET Tags]

-----------------------------------------------------------------------------
(* Sequences of calls *)

LEMMA SetToSeqFacts ==
  ASSUME NEW S, IsFiniteSet(S)
  PROVE  SetToSeq(S) \in Seq(S) /\ Range(SetToSeq(S)) = S
<1> DEFINE n == Cardinality(S)
           f == SetToSeq(S)
<1>1. n \in Nat /\ ExistsBijection(1 .. n, S)
  BY FS_CardinalityType
<1>2. f \in [1 .. n -> S] /\ IsInjective(f)
  <2>1. PICK g : g \in Bijection(1 .. n, S)
    BY <1>1 DEF ExistsBijection
  <2>2. g \in [1 .. n -> S] /\ IsInjective(g)
    BY <2>1 DEF Bijection, Injection
  <2> QED
    BY <2>2 DEF SetToSeq
<1> HIDE DEF n, f
<1>3. ASSUME NEW x \in S, x \notin Range(f)
      PROVE  FALSE
  <2>1. f \in [1 .. n -> S \ {x}]
    BY <1>2, <1>3 DEF Range
  <2>2. /\ IsFiniteSet(S \ {x}) /\ Cardinality(S \ {x}) = n - 1
        /\ IsFiniteSet(1 .. n) /\ Cardinality(1 .. n) = n
    <3>1. Cardinality(S \ {x}) = Cardinality(S) - 1 /\ IsFiniteSet(S \ {x})
      BY <1>3, FS_RemoveElement
    <3>2. IsFiniteSet(1 .. n) /\ Cardinality(1 .. n) = IF 1 > n THEN 0 ELSE n - 1 + 1
      BY <1>1, FS_Interval
    <3> QED
      BY <1>1, <3>1, <3>2 DEF n
  <2>3. \E i, j \in 1 .. n : i # j /\ f[i] = f[j]
    <3>1. Cardinality(S \ {x}) < Cardinality(1 .. n)
      BY <1>1, <2>2
    <3> QED
      BY <2>1, <2>2, <3>1, FS_PigeonHole
  <2> QED
    BY <1>2, <2>3 DEF IsInjective
<1>4. f \in Seq(S) /\ Range(f) \subseteq S
  BY <1>1, <1>2 DEF Range
<1> QED
  BY <1>3, <1>4 DEF f

\* A call of c may not come after one of e: buildit makes a group before all that
\* is done to it, and revokes before it authorizes.
MayNotFollow(c, e) ==
    \/ c.op = "create" /\ e.op # "lookup"
    \/ c.op = "revoke" /\ e.op \in {"revoke", "authorize"} /\ c.dir = e.dir

Ordered(s) == \A i, j \in DOMAIN s : i < j => ~ MayNotFollow(s[j], s[i])

LEMMA HeadFacts ==
  ASSUME NEW s \in Seq(Calls), s # << >>
  PROVE  /\ Head(s) \in Calls /\ Tail(s) \in Seq(Calls)
         /\ Range(s) = {Head(s)} \cup Range(Tail(s))
         /\ Ordered(s) =>
                /\ Ordered(Tail(s))
                /\ \A c \in Range(Tail(s)) : ~ MayNotFollow(c, Head(s))
<1>1. /\ Head(s) \in Calls /\ Tail(s) \in Seq(Calls) /\ Head(s) = s[1] /\ Len(s) \in Nat \ {0}
      /\ DOMAIN s = 1 .. Len(s) /\ DOMAIN Tail(s) = 1 .. Len(s) - 1
      /\ \A i \in 1 .. Len(s) - 1 : Tail(s)[i] = s[i + 1]
  OBVIOUS
<1>2. \A i \in 1 .. Len(s) - 1 : i + 1 \in 1 .. Len(s) /\ 1 < i + 1
  BY <1>1
<1>3. \A i \in 1 .. Len(s) : i = 1 \/ (i - 1 \in 1 .. Len(s) - 1 /\ (i - 1) + 1 = i)
  BY <1>1
<1>4. Range(s) = {Head(s)} \cup Range(Tail(s))
  <2>1. ASSUME NEW c \in Range(s) PROVE c \in {Head(s)} \cup Range(Tail(s))
    <3>1. PICK i \in 1 .. Len(s) : c = s[i]
      BY <1>1 DEF Range
    <3>2. CASE i = 1
      BY <1>1, <3>1, <3>2
    <3>3. CASE i - 1 \in 1 .. Len(s) - 1 /\ (i - 1) + 1 = i
      <4>1. Tail(s)[i - 1] = c
        BY <1>1, <3>1, <3>3
      <4> QED
        BY <1>1, <3>3, <4>1 DEF Range
    <3> QED
      BY <1>3, <3>2, <3>3
  <2>2. ASSUME NEW c \in {Head(s)} \cup Range(Tail(s)) PROVE c \in Range(s)
    BY <1>1, <1>2 DEF Range
  <2> QED
    BY <2>1, <2>2
<1>5. ASSUME Ordered(s) PROVE Ordered(Tail(s))
  <2>1. \A i, j \in 1 .. Len(s) - 1 : i < j => i + 1 < j + 1
    BY <1>1
  <2> QED
    BY <1>1, <1>2, <1>5, <2>1 DEF Ordered
<1>6. ASSUME Ordered(s), NEW c \in Range(Tail(s)) PROVE ~ MayNotFollow(c, Head(s))
  <2>1. PICK i \in 1 .. Len(s) - 1 : c = s[i + 1]
    BY <1>1 DEF Range
  <2>2. 1 \in 1 .. Len(s)
    BY <1>1
  <2> QED
    BY <1>1, <1>2, <1>6, <2>1, <2>2 DEF Ordered
<1> QED
  BY <1>1, <1>4, <1>5, <1>6

LEMMA ConcatFacts ==
  ASSUME NEW s \in Seq(Calls), NEW t \in Seq(Calls), Ordered(s), Ordered(t),
         \A c \in Range(t), e \in Range(s) : ~ MayNotFollow(c, e)
  PROVE  s \o t \in Seq(Calls) /\ Range(s \o t) = Range(s) \cup Range(t) /\ Ordered(s \o t)
<1>1. /\ s \o t \in Seq(Calls) /\ Len(s \o t) = Len(s) + Len(t)
      /\ \A i \in 1 .. Len(s) + Len(t) : (s \o t)[i] =
             IF i <= Len(s) THEN s[i] ELSE t[i - Len(s)]
  BY ConcatProperties
<1>2. Range(s \o t) = Range(s) \cup Range(t)
  BY RangeConcatenation
<1>3. /\ Len(s) \in Nat /\ Len(t) \in Nat
      /\ DOMAIN s = 1 .. Len(s) /\ DOMAIN t = 1 .. Len(t)
      /\ DOMAIN (s \o t) = 1 .. Len(s) + Len(t)
  BY <1>1
<1>4. Ordered(s \o t)
  <2> SUFFICES ASSUME NEW i \in 1 .. Len(s) + Len(t), NEW j \in 1 .. Len(s) + Len(t), i < j
               PROVE  ~ MayNotFollow((s \o t)[j], (s \o t)[i])
    BY <1>3 DEF Ordered
  <2>1. CASE j <= Len(s)
    <3>1. i <= Len(s) /\ i \in 1 .. Len(s) /\ j \in 1 .. Len(s)
      BY <1>3, <2>1
    <3> QED
      BY <1>1, <1>3, <2>1, <3>1 DEF Ordered
  <2>2. CASE ~ (j <= Len(s)) /\ i <= Len(s)
    <3>1. i \in 1 .. Len(s) /\ j - Len(s) \in 1 .. Len(t)
      BY <1>3, <2>2
    <3> QED
      BY <1>1, <1>3, <2>2, <3>1 DEF Range
  <2>3. CASE ~ (i <= Len(s))
    <3>1. /\ i - Len(s) \in 1 .. Len(t) /\ j - Len(s) \in 1 .. Len(t)
          /\ i - Len(s) < j - Len(s) /\ ~ (j <= Len(s))
      BY <1>3, <2>3
    <3> QED
      BY <1>1, <1>3, <2>3, <3>1 DEF Ordered
  <2> QED
    BY <2>1, <2>2, <2>3
<1> QED
  BY <1>1, <1>2, <1>4

\* A call that would send nothing.
Vain(c) ==
    \/ c.op \in {"authorize", "revoke"} /\ c.rules = << >>
    \/ c.op \in {"tag", "untag"} /\ c.tags = {}

LEMMA MadeFacts ==
  ASSUME NEW c \in Calls
  PROVE  /\ Made(c) \in Seq(Calls) /\ Ordered(Made(c))
         /\ Range(Made(c)) = IF Vain(c) THEN {} ELSE {c}
<1>1. CASE Vain(c)
  BY <1>1 DEF Made, Vain, Ordered, Range
<1>2. CASE ~ Vain(c)
  <2>1. Made(c) = <<c>>
    BY <1>2 DEF Made, Vain
  <2>2. <<c>> \in Seq(Calls) /\ DOMAIN <<c>> = {1} /\ <<c>>[1] = c
    OBVIOUS
  <2>3. Ordered(<<c>>)
    BY <2>2 DEF Ordered
  <2> QED
    BY <1>2, <2>1, <2>2, <2>3 DEF Range
<1> QED
  BY <1>1, <1>2

-----------------------------------------------------------------------------
(* The inductive invariant *)

Wanted(dir)  == IF dir = "in" THEN spec.inbound ELSE spec.outbound
Has(dir)     == IF dir = "in" THEN inbound ELSE outbound

\* Shapes of the variables; AWS holds no permission twice, and what is not there
\* has no rules and no tags.
ShapeOK ==
    /\ spec \in Specs
    /\ exists \in BOOLEAN
    /\ touched \in BOOLEAN
    /\ run \in {"none", "apply", "destroy"}
    /\ todo \in Seq(Calls)

GroupOK ==
    /\ inbound \subseteq Rules(InPerms) /\ OnePerPerm(inbound)
    /\ outbound \subseteq Rules(OutPerms) /\ OnePerPerm(outbound)
    /\ tags \subseteq Tags
    /\ ~ exists => inbound = {} /\ outbound = {} /\ tags = {}

\* An operation has only calls of its own, in an order that can succeed, and
\* authorizes nothing but what is defined.
CallsOK ==
    /\ run = "none" => todo = << >> /\ ~ touched
    /\ run = "apply" => Ordered(todo) /\ \A c \in Range(todo) : c.op \in ApplyOps
    /\ run = "destroy" =>
           todo \in {<< >>, <<PlainCall("delete")>>, <<PlainCall("look"), PlainCall("delete")>>}
    /\ \A c \in Range(todo) : c.op = "authorize" =>
           c.dir \in Dirs /\ Range(c.rules) \subseteq Range(Wanted(c.dir))

\* What calls Q do.
Creates(Q)     == \E c \in Q : c.op = "create"
Opens(Q, dir)  == {r \in AnyRules : \E c \in Q : c.op = "authorize" /\ c.dir = dir /\ r \in Range(c.rules)}
Closes(Q, dir) ==
    {p \in InPerms \cup OutPerms :
        \E c \in Q : c.op = "revoke" /\ c.dir = dir /\ p \in PermsOf(Range(c.rules))}
Puts(Q)        == {t \in Tags : \E c \in Q : c.op = "tag" /\ t \in c.tags}
Takes(Q)       == {t \in Tags : \E c \in Q : c.op = "untag" /\ t \in c.tags}

\* The group as the calls that follow the creation will find it.
Creating    == Creates(Range(todo))
Found(dir)  ==
    IF ~ Creating THEN Has(dir) ELSE IF dir = "in" THEN {} ELSE {DefaultRule}
FoundTags   == IF ~ Creating THEN tags ELSE {}

\* What an Apply that nobody disturbs has yet to do leads to the definition, and
\* on the way it closes only what is not wanted or what AWS gave the new group.
RulesAhead ==
    \A dir \in Dirs :
        Range(Wanted(dir)) =
            Opens(Range(todo), dir) \cup {r \in Found(dir) : r.perm \notin Closes(Range(todo), dir)}
TagsAhead ==
    /\ WantedTags = Puts(Range(todo)) \cup (FoundTags \ Takes(Range(todo)))
    /\ Takes(Range(todo)) \cap WantedTags = {}
ClosesSurplus ==
    \A c \in Range(todo) : c.op = "revoke" =>
        /\ c.dir \in Dirs
        /\ Range(c.rules) \subseteq Found(c.dir)
        /\ \/ Range(c.rules) \cap Range(Wanted(c.dir)) = {}
           \/ c.dir = "out" /\ Range(c.rules) = {DefaultRule}

WorkOK ==
    /\ run = "apply" /\ ~ touched =>
           (Creating \/ exists) /\ RulesAhead /\ TagsAhead /\ ClosesSurplus
    /\ run = "destroy" /\ ~ touched => (todo = << >> => ~ exists)

GroupInv == ShapeOK /\ GroupOK /\ CallsOK /\ WorkOK

-----------------------------------------------------------------------------
(* What an operation sets out to do *)

LEMMA WantedFacts ==
  ASSUME ShapeOK
  PROVE  /\ spec.inbound \in Seq(Rules(InPerms)) /\ spec.outbound \in Seq(Rules(OutPerms))
         /\ spec.inbound \in Seq(AnyRules) /\ spec.outbound \in Seq(AnyRules)
         /\ Range(spec.inbound) \subseteq Rules(InPerms)
         /\ Range(spec.outbound) \subseteq Rules(OutPerms)
<1>1. spec.inbound \in Seq(Rules(InPerms)) /\ spec.outbound \in Seq(Rules(OutPerms))
  BY SpecsType DEF ShapeOK
<1>2. Range(spec.inbound) \subseteq Rules(InPerms) /\ Range(spec.outbound) \subseteq Rules(OutPerms)
  BY <1>1, RangeOfSeq
<1>3. spec.inbound \in Seq(AnyRules) /\ spec.outbound \in Seq(AnyRules)
  BY <1>1 DEF AnyRules
<1> QED
  BY <1>1, <1>2, <1>3

LEMMA CallTypes ==
  /\ \A op \in {"revoke", "authorize"}, dir \in Dirs, rules \in Seq(AnyRules) :
         RuleCall(op, dir, rules) \in Calls
  /\ \A op \in {"tag", "untag"}, ts \in SUBSET Tags : TagCall(op, ts) \in Calls
  /\ \A op \in {"lookup", "create", "await", "look", "delete"} : PlainCall(op) \in Calls
<1>1. << >> \in Seq(AnyRules) /\ {} \in SUBSET Tags
  OBVIOUS
<1> QED
  BY <1>1 DEF RuleCall, TagCall, PlainCall, Calls, Dirs, ApplyOps, DestroyOps

\* The calls that mend the rules of one direction.
LEMMA MendFacts ==
  ASSUME NEW dir \in Dirs, NEW wanted, NEW has,
         Range(wanted) \subseteq AnyRules, has \subseteq AnyRules,
         IsFiniteSet(Range(wanted)), IsFiniteSet(has)
  PROVE  /\ Mend(dir, wanted, has) \in Seq(Calls) /\ Ordered(Mend(dir, wanted, has))
         /\ \A c \in Range(Mend(dir, wanted, has)) :
                /\ c.op \in {"revoke", "authorize"} /\ c.dir = dir
                /\ c.op = "revoke" => Range(c.rules) = has \ Range(wanted)
                /\ c.op = "authorize" => Range(c.rules) = Range(wanted) \ has
         /\ has \ Range(wanted) # {} =>
                \E c \in Range(Mend(dir, wanted, has)) : c.op = "revoke"
         /\ Range(wanted) \ has # {} =>
                \E c \in Range(Mend(dir, wanted, has)) : c.op = "authorize"
<1> DEFINE close == RuleCall("revoke", dir, Surplus(wanted, has))
           open  == RuleCall("authorize", dir, Missing(wanted, has))
<1>1. /\ Surplus(wanted, has) \in Seq(AnyRules) /\ Range(Surplus(wanted, has)) = has \ Range(wanted)
      /\ Missing(wanted, has) \in Seq(AnyRules) /\ Range(Missing(wanted, has)) = Range(wanted) \ has
  <2>1. IsFiniteSet(has \ Range(wanted)) /\ IsFiniteSet(Range(wanted) \ has)
    BY FS_Subset
  <2>2. /\ SetToSeq(has \ Range(wanted)) \in Seq(has \ Range(wanted))
        /\ Range(SetToSeq(has \ Range(wanted))) = has \ Range(wanted)
        /\ SetToSeq(Range(wanted) \ has) \in Seq(Range(wanted) \ has)
        /\ Range(SetToSeq(Range(wanted) \ has)) = Range(wanted) \ has
    BY <2>1, SetToSeqFacts
  <2>3. Seq(has \ Range(wanted)) \subseteq Seq(AnyRules)
        /\ Seq(Range(wanted) \ has) \subseteq Seq(AnyRules)
    OBVIOUS
  <2> QED
    BY <2>2, <2>3 DEF Surplus, Missing
<1>2. /\ close \in Calls /\ close.op = "revoke" /\ close.dir = dir /\ close.rules = Surplus(wanted, has)
      /\ open \in Calls /\ open.op = "authorize" /\ open.dir = dir /\ open.rules = Missing(wanted, has)
  <2>1. close \in Calls /\ open \in Calls
    BY <1>1, CallTypes
  <2> QED
    BY <2>1 DEF RuleCall
<1>3. /\ Vain(close) => has \ Range(wanted) = {}
      /\ Vain(open) => Range(wanted) \ has = {}
  <2>1. Range(<< >>) = {}
    BY DEF Range
  <2> QED
    BY <1>1, <1>2, <2>1 DEF Vain
<1> HIDE DEF close, open
<1>4. /\ Made(close) \in Seq(Calls) /\ Ordered(Made(close))
      /\ Range(Made(close)) = IF Vain(close) THEN {} ELSE {close}
      /\ Made(open) \in Seq(Calls) /\ Ordered(Made(open))
      /\ Range(Made(open)) = IF Vain(open) THEN {} ELSE {open}
  BY <1>2, MadeFacts
<1>5. \A c \in Range(Made(open)), e \in Range(Made(close)) : ~ MayNotFollow(c, e)
  BY <1>2, <1>4 DEF MayNotFollow
<1>6. Mend(dir, wanted, has) = Made(close) \o Made(open)
  BY DEF Mend, close, open
<1>7. /\ Mend(dir, wanted, has) \in Seq(Calls) /\ Ordered(Mend(dir, wanted, has))
      /\ Range(Mend(dir, wanted, has)) = Range(Made(close)) \cup Range(Made(open))
  BY <1>4, <1>5, <1>6, ConcatFacts
<1> QED
  BY <1>1, <1>2, <1>3, <1>4, <1>7

LEMMA MendTagsFacts ==
  ASSUME tags \subseteq Tags
  PROVE  /\ MendTags \in Seq(Calls) /\ Ordered(MendTags)
         /\ \A c \in Range(MendTags) :
                /\ c.op \in {"tag", "untag"}
                /\ c.op = "tag" => c.tags = WantedTags \ tags
                /\ c.op = "untag" => c.tags = tags \ WantedTags
         /\ WantedTags \ tags # {} => \E c \in Range(MendTags) : c.op = "tag"
         /\ tags \ WantedTags # {} => \E c \in Range(MendTags) : c.op = "untag"
<1> DEFINE put  == TagCall("tag", WantedTags \ tags)
           take == TagCall("untag", tags \ WantedTags)
<1>1. /\ put \in Calls /\ put.op = "tag" /\ put.tags = WantedTags \ tags
      /\ take \in Calls /\ take.op = "untag" /\ take.tags = tags \ WantedTags
  <2>1. put \in Calls /\ take \in Calls
    BY TagsType, CallTypes
  <2> QED
    BY <2>1 DEF TagCall
<1>2. MendTags = Made(put) \o Made(take)
  BY DEF MendTags
<1> HIDE DEF put, take
<1>3. /\ Made(put) \in Seq(Calls) /\ Ordered(Made(put))
      /\ Range(Made(put)) = IF Vain(put) THEN {} ELSE {put}
      /\ Made(take) \in Seq(Calls) /\ Ordered(Made(take))
      /\ Range(Made(take)) = IF Vain(take) THEN {} ELSE {take}
  BY <1>1, MadeFacts
<1>4. \A c \in Range(Made(take)), e \in Range(Made(put)) : ~ MayNotFollow(c, e)
  BY <1>1, <1>3 DEF MayNotFollow
<1>5. MendTags \in Seq(Calls) /\ Ordered(MendTags)
      /\ Range(MendTags) = Range(Made(put)) \cup Range(Made(take))
  BY <1>2, <1>3, <1>4, ConcatFacts
<1> QED
  BY <1>1, <1>3, <1>5 DEF Vain

LEMMA FiniteFacts ==
  ASSUME ShapeOK, GroupOK
  PROVE  \A dir \in Dirs :
             /\ Range(Wanted(dir)) \subseteq AnyRules /\ IsFiniteSet(Range(Wanted(dir)))
             /\ Has(dir) \subseteq AnyRules /\ IsFiniteSet(Has(dir))
             /\ OnePerPerm(Has(dir))
<1>1. /\ IsFiniteSet(Range(spec.inbound)) /\ IsFiniteSet(Range(spec.outbound))
      /\ IsFiniteSet(inbound) /\ IsFiniteSet(outbound)
  BY WantedFacts, FiniteType, FS_Subset DEF GroupOK
<1> QED
  BY <1>1, WantedFacts DEF GroupOK, Wanted, Has, Dirs, AnyRules

LEMMA UpdatePlan ==
  ASSUME ShapeOK, GroupOK
  PROVE  /\ Update \in Seq(Calls) /\ Ordered(Update)
         /\ \A c \in Range(Update) :
                /\ c.op \in {"revoke", "authorize", "tag", "untag"}
                /\ c.op \in {"revoke", "authorize"} => c.dir \in Dirs
                /\ c.op = "revoke" => Range(c.rules) = Has(c.dir) \ Range(Wanted(c.dir))
                /\ c.op = "authorize" => Range(c.rules) = Range(Wanted(c.dir)) \ Has(c.dir)
                /\ c.op = "tag" => c.tags = WantedTags \ tags
                /\ c.op = "untag" => c.tags = tags \ WantedTags
         /\ \A dir \in Dirs :
                /\ Has(dir) \ Range(Wanted(dir)) # {} =>
                       \E c \in Range(Update) : c.op = "revoke" /\ c.dir = dir
                /\ Range(Wanted(dir)) \ Has(dir) # {} =>
                       \E c \in Range(Update) : c.op = "authorize" /\ c.dir = dir
         /\ WantedTags \ tags # {} => \E c \in Range(Update) : c.op = "tag"
         /\ tags \ WantedTags # {} => \E c \in Range(Update) : c.op = "untag"
<1> DEFINE in  == Mend("in", Wanted("in"), Has("in"))
           out == Mend("out", Wanted("out"), Has("out"))
<1>1. /\ in \in Seq(Calls) /\ Ordered(in)
      /\ \A c \in Range(in) :
             /\ c.op \in {"revoke", "authorize"} /\ c.dir = "in"
             /\ c.op = "revoke" => Range(c.rules) = Has("in") \ Range(Wanted("in"))
             /\ c.op = "authorize" => Range(c.rules) = Range(Wanted("in")) \ Has("in")
      /\ Has("in") \ Range(Wanted("in")) # {} => \E c \in Range(in) : c.op = "revoke"
      /\ Range(Wanted("in")) \ Has("in") # {} => \E c \in Range(in) : c.op = "authorize"
  BY FiniteFacts, MendFacts DEF Dirs
<1>2. /\ out \in Seq(Calls) /\ Ordered(out)
      /\ \A c \in Range(out) :
             /\ c.op \in {"revoke", "authorize"} /\ c.dir = "out"
             /\ c.op = "revoke" => Range(c.rules) = Has("out") \ Range(Wanted("out"))
             /\ c.op = "authorize" => Range(c.rules) = Range(Wanted("out")) \ Has("out")
      /\ Has("out") \ Range(Wanted("out")) # {} => \E c \in Range(out) : c.op = "revoke"
      /\ Range(Wanted("out")) \ Has("out") # {} => \E c \in Range(out) : c.op = "authorize"
  BY FiniteFacts, MendFacts DEF Dirs
<1>3. Update = in \o (out \o MendTags)
  BY DEF Update, Wanted, Has
<1> HIDE DEF in, out
<1>4. /\ MendTags \in Seq(Calls) /\ Ordered(MendTags)
      /\ \A c \in Range(MendTags) :
             /\ c.op \in {"tag", "untag"}
             /\ c.op = "tag" => c.tags = WantedTags \ tags
             /\ c.op = "untag" => c.tags = tags \ WantedTags
      /\ WantedTags \ tags # {} => \E c \in Range(MendTags) : c.op = "tag"
      /\ tags \ WantedTags # {} => \E c \in Range(MendTags) : c.op = "untag"
  BY MendTagsFacts DEF GroupOK
<1> DEFINE rest == out \o MendTags
<1>5. rest \in Seq(Calls) /\ Ordered(rest) /\ Range(rest) = Range(out) \cup Range(MendTags)
  <2>1. \A c \in Range(MendTags), e \in Range(out) : ~ MayNotFollow(c, e)
    BY <1>4 DEF MayNotFollow
  <2> QED
    BY <1>2, <1>4, <2>1, ConcatFacts
<1> HIDE DEF rest
<1>6. Update \in Seq(Calls) /\ Ordered(Update) /\ Range(Update) = Range(in) \cup Range(rest)
  <2>1. \A c \in Range(rest), e \in Range(in) : ~ MayNotFollow(c, e)
    BY <1>1, <1>2, <1>4, <1>5 DEF MayNotFollow
  <2> QED
    BY <1>1, <1>3, <1>5, <2>1, ConcatFacts DEF rest
<1>7. Range(Update) = Range(in) \cup Range(out) \cup Range(MendTags)
  BY <1>5, <1>6
<1>8. \A dir \in Dirs : dir = "in" \/ dir = "out"
  BY DEF Dirs
<1>9. \A c \in Range(Update) :
          /\ c.op \in {"revoke", "authorize", "tag", "untag"}
          /\ c.op \in {"revoke", "authorize"} => c.dir \in Dirs
          /\ c.op = "revoke" => Range(c.rules) = Has(c.dir) \ Range(Wanted(c.dir))
          /\ c.op = "authorize" => Range(c.rules) = Range(Wanted(c.dir)) \ Has(c.dir)
          /\ c.op = "tag" => c.tags = WantedTags \ tags
          /\ c.op = "untag" => c.tags = tags \ WantedTags
  BY <1>1, <1>2, <1>4, <1>7 DEF Dirs
<1>10. \A dir \in Dirs :
           /\ Has(dir) \ Range(Wanted(dir)) # {} =>
                  \E c \in Range(Update) : c.op = "revoke" /\ c.dir = dir
           /\ Range(Wanted(dir)) \ Has(dir) # {} =>
                  \E c \in Range(Update) : c.op = "authorize" /\ c.dir = dir
  BY <1>1, <1>2, <1>7, <1>8
<1> QED
  BY <1>4, <1>6, <1>7, <1>9, <1>10

LEMMA CreationPlan ==
  ASSUME ShapeOK
  PROVE  /\ Creation \in Seq(Calls) /\ Ordered(Creation)
         /\ \A c \in Range(Creation) :
                /\ c.op \in {"lookup", "create", "await", "revoke", "authorize", "tag"}
                /\ c.op \in {"revoke", "authorize"} => c.dir \in Dirs
                /\ c.op = "revoke" => c.dir = "out" /\ Range(c.rules) = {DefaultRule}
                /\ c.op = "authorize" => Range(c.rules) = Range(Wanted(c.dir))
                /\ c.op = "tag" => c.tags = WantedTags
         /\ \E c \in Range(Creation) : c.op = "create"
         /\ \E c \in Range(Creation) : c.op = "revoke"
         /\ \A dir \in Dirs : Range(Wanted(dir)) # {} =>
                \E c \in Range(Creation) : c.op = "authorize" /\ c.dir = dir
         /\ WantedTags # {} => \E c \in Range(Creation) : c.op = "tag"
<1> DEFINE close == RuleCall("revoke", "out", <<DefaultRule>>)
           begin == <<PlainCall("lookup"), PlainCall("create"), PlainCall("await"), close>>
           put   == TagCall("tag", WantedTags)
           in    == RuleCall("authorize", "in", spec.inbound)
           out   == RuleCall("authorize", "out", spec.outbound)
<1>1. /\ PlainCall("lookup") \in Calls /\ PlainCall("lookup").op = "lookup"
      /\ PlainCall("create") \in Calls /\ PlainCall("create").op = "create"
      /\ PlainCall("await") \in Calls /\ PlainCall("await").op = "await"
  BY CallTypes DEF PlainCall, TagCall
<1>2. /\ close \in Calls /\ close.op = "revoke" /\ close.dir = "out"
      /\ Range(close.rules) = {DefaultRule}
  <2>1. DefaultRule \in AnyRules
    BY PermsType DEF DefaultRule, AnyRules, Rules
  <2>2. <<DefaultRule>> \in Seq(AnyRules) /\ Range(<<DefaultRule>>) = {DefaultRule}
    BY <2>1 DEF Range
  <2>3. close \in Calls
    BY <2>2, CallTypes DEF Dirs
  <2> QED
    BY <2>2, <2>3 DEF RuleCall
<1>3. /\ put \in Calls /\ put.op = "tag" /\ put.tags = WantedTags
      /\ in \in Calls /\ in.op = "authorize" /\ in.dir = "in" /\ in.rules = spec.inbound
      /\ out \in Calls /\ out.op = "authorize" /\ out.dir = "out" /\ out.rules = spec.outbound
  <2>1. put \in Calls /\ in \in Calls /\ out \in Calls
    BY TagsType, WantedFacts, CallTypes DEF Dirs
  <2> QED
    BY <2>1 DEF TagCall, RuleCall
<1>4. /\ Vain(in) => Range(spec.inbound) = {}
      /\ Vain(out) => Range(spec.outbound) = {}
      /\ Vain(put) => WantedTags = {}
  <2>1. Range(<< >>) = {}
    BY DEF Range
  <2> QED
    BY <1>3, <2>1 DEF Vain
<1>5. Creation = begin \o (Made(put) \o (Made(in) \o Made(out)))
  BY DEF Creation
<1>6. /\ begin \in Seq(Calls) /\ Ordered(begin)
      /\ Range(begin) = {PlainCall("lookup"), PlainCall("create"), PlainCall("await"), close}
  <2> HIDE DEF close
  <2>1. /\ begin \in Seq(Calls) /\ DOMAIN begin = 1 .. 4
        /\ begin[1] = PlainCall("lookup") /\ begin[2] = PlainCall("create")
        /\ begin[3] = PlainCall("await") /\ begin[4] = close
    BY <1>1, <1>2
  <2> HIDE DEF begin
  <2>2. \A i \in 1 .. 4 : i = 1 \/ i = 2 \/ i = 3 \/ i = 4
    OBVIOUS
  <2>3. Ordered(begin)
    BY <1>1, <1>2, <2>1, <2>2 DEF Ordered, MayNotFollow
  <2>4. Range(begin) = {begin[i] : i \in 1 .. 4}
    BY <2>1 DEF Range
  <2> QED
    BY <2>1, <2>2, <2>3, <2>4
<1> HIDE DEF begin, put, in, out, close
<1>7. /\ Made(put) \in Seq(Calls) /\ Ordered(Made(put))
      /\ Range(Made(put)) = IF Vain(put) THEN {} ELSE {put}
      /\ Made(in) \in Seq(Calls) /\ Ordered(Made(in))
      /\ Range(Made(in)) = IF Vain(in) THEN {} ELSE {in}
      /\ Made(out) \in Seq(Calls) /\ Ordered(Made(out))
      /\ Range(Made(out)) = IF Vain(out) THEN {} ELSE {out}
  BY <1>3, MadeFacts
<1> DEFINE rules == Made(in) \o Made(out)
           rest  == Made(put) \o rules
<1>8. rules \in Seq(Calls) /\ Ordered(rules) /\ Range(rules) = Range(Made(in)) \cup Range(Made(out))
  <2>1. \A c \in Range(Made(out)), e \in Range(Made(in)) : ~ MayNotFollow(c, e)
    BY <1>3, <1>7 DEF MayNotFollow
  <2> QED
    BY <1>7, <2>1, ConcatFacts
<1> HIDE DEF rules
<1>9. rest \in Seq(Calls) /\ Ordered(rest) /\ Range(rest) = Range(Made(put)) \cup Range(rules)
  <2>1. \A c \in Range(rules), e \in Range(Made(put)) : ~ MayNotFollow(c, e)
    BY <1>3, <1>7, <1>8 DEF MayNotFollow
  <2> QED
    BY <1>7, <1>8, <2>1, ConcatFacts
<1> HIDE DEF rest
<1>10. /\ Creation \in Seq(Calls) /\ Ordered(Creation)
       /\ Range(Creation) = Range(begin) \cup Range(rest)
  <2>1. \A c \in Range(rest), e \in Range(begin) : ~ MayNotFollow(c, e)
    BY <1>3, <1>7, <1>8, <1>9 DEF MayNotFollow
  <2> QED
    BY <1>5, <1>6, <1>9, <2>1, ConcatFacts DEF rest, rules
<1>11. \A c \in Range(Creation) :
           \/ c \in {PlainCall("lookup"), PlainCall("create"), PlainCall("await"), close}
           \/ c \in {put, in, out}
  BY <1>6, <1>7, <1>8, <1>9, <1>10
<1>12. /\ PlainCall("create") \in Range(Creation) /\ close \in Range(Creation)
       /\ Range(spec.inbound) # {} => in \in Range(Creation)
       /\ Range(spec.outbound) # {} => out \in Range(Creation)
       /\ WantedTags # {} => put \in Range(Creation)
  BY <1>4, <1>6, <1>7, <1>8, <1>9, <1>10
<1>13. \A c \in Range(Creation) :
           /\ c.op \in {"lookup", "create", "await", "revoke", "authorize", "tag"}
           /\ c.op \in {"revoke", "authorize"} => c.dir \in Dirs
           /\ c.op = "revoke" => c.dir = "out" /\ Range(c.rules) = {DefaultRule}
           /\ c.op = "authorize" => Range(c.rules) = Range(Wanted(c.dir))
           /\ c.op = "tag" => c.tags = WantedTags
  BY <1>1, <1>2, <1>3, <1>11 DEF Wanted, Dirs
<1>14. \A dir \in Dirs : Range(Wanted(dir)) # {} =>
           \E c \in Range(Creation) : c.op = "authorize" /\ c.dir = dir
  BY <1>3, <1>12 DEF Wanted, Dirs
<1> QED
  BY <1>1, <1>2, <1>3, <1>10, <1>12, <1>13, <1>14

-----------------------------------------------------------------------------
(* What a call that AWS performs does to the group *)

LEMMA PerformFacts ==
  ASSUME ShapeOK, GroupOK, NEW call \in Calls, Accepts(call), Perform(call)
  PROVE  /\ call.op = "create" =>
                /\ ~ exists /\ exists' = TRUE /\ tags' = {}
                /\ inbound' = {} /\ outbound' = {DefaultRule}
         /\ call.op = "delete" =>
                exists' = FALSE /\ inbound' = {} /\ outbound' = {} /\ tags' = {}
         /\ call.op \notin {"create", "delete"} =>
                /\ exists' = exists /\ (call.op # "lookup" => exists)
                /\ inbound' = Authorized("in", inbound, call)
                /\ outbound' = Authorized("out", outbound, call)
                /\ tags' = CASE call.op = "tag"   -> tags \cup call.tags
                             [] call.op = "untag" -> tags \ call.tags
                             [] OTHER             -> tags
<1>1. CASE call.op = "create"
  BY <1>1 DEF Perform, Accepts
<1>2. CASE call.op = "delete"
  BY <1>2 DEF Perform
<1>3. CASE call.op \notin {"create", "delete"}
  <2>1. /\ exists' = exists /\ inbound' = Authorized("in", inbound, call)
        /\ outbound' = Authorized("out", outbound, call)
    BY <1>3 DEF Perform
  <2>2. tags' = CASE call.op = "tag"   -> tags \cup call.tags
                  [] call.op = "untag" -> tags \ call.tags
                  [] OTHER             -> tags
    BY <1>3 DEF Perform
  <2>3. call.op # "lookup" => exists
    BY <1>3 DEF Accepts
  <2> QED
    BY <1>3, <2>1, <2>2, <2>3
<1> QED
  BY <1>1, <1>2, <1>3

\* The rules of one direction.
LEMMA HasFacts ==
  ASSUME ShapeOK, GroupOK, NEW call \in Calls, Accepts(call), Perform(call),
         call.op \notin {"create", "delete"}, NEW dir \in Dirs
  PROVE  /\ ~ (call.op \in {"authorize", "revoke"} /\ call.dir = dir) => Has(dir)' = Has(dir)
         /\ call.op = "authorize" /\ call.dir = dir => Has(dir)' = Has(dir) \cup Range(call.rules)
         /\ call.op = "revoke" /\ call.dir = dir =>
                Has(dir)' = {r \in Has(dir) : r.perm \notin PermsOf(Range(call.rules))}
BY PerformFacts DEF Authorized, Has, Dirs

\* EC2 refuses a second rule with a permission that the group has.
LEMMA StillOnePerPerm ==
  ASSUME NEW call \in Calls, Accepts(call), call.op = "authorize",
         NEW has, has = (IF call.dir = "in" THEN inbound ELSE outbound), OnePerPerm(has)
  PROVE  OnePerPerm(has \cup Range(call.rules))
<1>1. /\ \A i, j \in DOMAIN call.rules : call.rules[i].perm = call.rules[j].perm => i = j
      /\ \A r \in Range(call.rules) : r.perm \notin PermsOf(has)
  BY DEF Accepts
<1>2. \A r, s \in Range(call.rules) : r.perm = s.perm => r = s
  BY <1>1 DEF Range
<1>3. \A r \in Range(call.rules), s \in has : r.perm # s.perm
  BY <1>1 DEF PermsOf
<1> QED
  BY <1>2, <1>3 DEF OnePerPerm

LEMMA GroupKept ==
  ASSUME ShapeOK, GroupOK, NEW call \in Calls, Accepts(call), Perform(call),
         call.op = "authorize" =>
             call.dir \in Dirs /\ Range(call.rules) \subseteq Range(Wanted(call.dir))
  PROVE  GroupOK'
<1>1. CASE call.op = "create"
  <2>1. DefaultRule \in Rules(OutPerms)
    BY PermsType DEF DefaultRule, Rules
  <2>2. exists' = TRUE /\ inbound' = {} /\ outbound' = {DefaultRule} /\ tags' = {}
    BY <1>1, PerformFacts
  <2> QED
    BY <2>1, <2>2 DEF GroupOK, OnePerPerm
<1>2. CASE call.op = "delete"
  BY <1>2, PerformFacts DEF GroupOK, OnePerPerm
<1>3. CASE call.op \notin {"create", "delete"}
  <2>1. /\ exists' = exists /\ inbound' = Authorized("in", inbound, call)
        /\ outbound' = Authorized("out", outbound, call)
        /\ call.op # "lookup" => exists
    BY <1>3, PerformFacts
  <2>2. tags' \subseteq Tags /\ (~ exists => tags' = {})
    <3>1. tags' = CASE call.op = "tag"   -> tags \cup call.tags
                    [] call.op = "untag" -> tags \ call.tags
                    [] OTHER             -> tags
      BY <1>3, PerformFacts
    <3> QED
      BY <2>1, <3>1 DEF GroupOK, Calls
  <2>3. ~ exists => inbound' = {} /\ outbound' = {}
    BY <2>1 DEF Authorized, GroupOK
  <2>4. inbound' \subseteq Rules(InPerms) /\ outbound' \subseteq Rules(OutPerms)
    BY <2>1, WantedFacts DEF Authorized, GroupOK, Wanted, Dirs
  <2>5. OnePerPerm(inbound') /\ OnePerPerm(outbound')
    <3>1. CASE call.op = "authorize" /\ call.dir = "in"
      <4>1. inbound' = inbound \cup Range(call.rules) /\ outbound' = outbound
        BY <2>1, <3>1 DEF Authorized
      <4> QED
        BY <3>1, <4>1, StillOnePerPerm DEF GroupOK
    <3>2. CASE call.op = "authorize" /\ call.dir = "out"
      <4>1. outbound' = outbound \cup Range(call.rules) /\ inbound' = inbound
        BY <2>1, <3>2 DEF Authorized
      <4> QED
        BY <3>2, <4>1, StillOnePerPerm DEF GroupOK
    <3>3. CASE call.op # "authorize"
      BY <2>1, <3>3 DEF Authorized, GroupOK, OnePerPerm
    <3> QED
      BY <3>1, <3>2, <3>3 DEF Dirs
  <2> QED
    BY <2>1, <2>2, <2>3, <2>4, <2>5 DEF GroupOK
<1> QED
  BY <1>1, <1>2, <1>3

-----------------------------------------------------------------------------
(* The invariant holds *)

LEMMA BeginAhead ==
  ASSUME ShapeOK, GroupOK, Apply
  PROVE  CallsOK' /\ WorkOK' /\ todo' \in Seq(Calls)
<1> DEFINE Q == Range(IF exists THEN Update ELSE Creation)
<1>1. /\ run' = "apply" /\ touched' = FALSE /\ UNCHANGED <<spec, aws>>
      /\ todo' = IF exists THEN Update ELSE Creation
  BY DEF Apply, Begin
<1>2. /\ todo' \in Seq(Calls) /\ Ordered(todo')
      /\ \A c \in Range(todo') :
             /\ c.op \in ApplyOps
             /\ c.op = "authorize" =>
                    c.dir \in Dirs /\ Range(c.rules) \subseteq Range(Wanted(c.dir))
  <2>1. CASE exists
    <3>1. todo' = Update
      BY <1>1, <2>1
    <3> QED
      BY <3>1, UpdatePlan DEF ApplyOps
  <2>2. CASE ~ exists
    <3>1. todo' = Creation
      BY <1>1, <2>2
    <3> QED
      BY <3>1, CreationPlan DEF ApplyOps
  <2> QED
    BY <2>1, <2>2
<1>3. \A dir \in Dirs : Wanted(dir)' = Wanted(dir) /\ Has(dir)' = Has(dir)
  BY <1>1 DEF Wanted, Has, aws
<1>4. CallsOK'
  BY <1>1, <1>2, <1>3 DEF CallsOK
<1>5. ASSUME exists
      PROVE  exists' /\ RulesAhead' /\ TagsAhead' /\ ClosesSurplus'
  <2>1. todo' = Update /\ exists' /\ UNCHANGED tags
    BY <1>1, <1>5 DEF aws
  <2>2. ~ Creating'
    BY <2>1, UpdatePlan DEF Creating, Creates
  <2>3. /\ \A dir \in Dirs : Found(dir)' = Has(dir)
        /\ FoundTags' = tags
    BY <1>3, <2>1, <2>2 DEF Found, FoundTags
  <2>4. \A dir \in Dirs : Opens(Range(Update), dir) = Range(Wanted(dir)) \ Has(dir)
    <3> TAKE dir \in Dirs
    <3>1. Range(Wanted(dir)) \subseteq AnyRules
      BY FiniteFacts
    <3>2. \A r \in Range(Wanted(dir)) \ Has(dir) : r \in Opens(Range(Update), dir)
      <4> TAKE r \in Range(Wanted(dir)) \ Has(dir)
      <4>1. PICK c \in Range(Update) : c.op = "authorize" /\ c.dir = dir
        BY UpdatePlan
      <4>2. Range(c.rules) = Range(Wanted(dir)) \ Has(dir)
        BY <4>1, UpdatePlan
      <4> QED
        BY <3>1, <4>1, <4>2 DEF Opens
    <3>3. \A r \in Opens(Range(Update), dir) : r \in Range(Wanted(dir)) \ Has(dir)
      BY UpdatePlan DEF Opens
    <3> QED
      BY <3>2, <3>3
  <2>5. \A dir \in Dirs : Closes(Range(Update), dir) = PermsOf(Has(dir) \ Range(Wanted(dir)))
    <3> TAKE dir \in Dirs
    <3>1. PermsOf(Has(dir) \ Range(Wanted(dir))) \subseteq InPerms \cup OutPerms
      BY FiniteFacts DEF PermsOf, AnyRules, Rules
    <3>2. \A p \in PermsOf(Has(dir) \ Range(Wanted(dir))) : p \in Closes(Range(Update), dir)
      <4> TAKE p \in PermsOf(Has(dir) \ Range(Wanted(dir)))
      <4>1. Has(dir) \ Range(Wanted(dir)) # {}
        BY DEF PermsOf
      <4>2. PICK c \in Range(Update) : c.op = "revoke" /\ c.dir = dir
        BY <4>1, UpdatePlan
      <4>3. Range(c.rules) = Has(dir) \ Range(Wanted(dir))
        BY <4>2, UpdatePlan
      <4> QED
        BY <3>1, <4>2, <4>3 DEF Closes
    <3>3. \A p \in Closes(Range(Update), dir) : p \in PermsOf(Has(dir) \ Range(Wanted(dir)))
      BY UpdatePlan DEF Closes
    <3> QED
      BY <3>2, <3>3
  <2>6. RulesAhead'
    <3> SUFFICES ASSUME NEW dir \in Dirs
                 PROVE  (Range(Wanted(dir)) = Opens(Range(todo), dir)
                            \cup {r \in Found(dir) : r.perm \notin Closes(Range(todo), dir)})'
      BY DEF RulesAhead
    <3>1. /\ Wanted(dir)' = Wanted(dir) /\ Found(dir)' = Has(dir) /\ todo' = Update
          /\ Opens(Range(Update), dir) = Range(Wanted(dir)) \ Has(dir)
          /\ Closes(Range(Update), dir) = PermsOf(Has(dir) \ Range(Wanted(dir)))
      BY <1>3, <2>1, <2>3, <2>4, <2>5
    <3>2. OnePerPerm(Has(dir))
      BY FiniteFacts
    <3>3. Range(Wanted(dir)) = (Range(Wanted(dir)) \ Has(dir))
              \cup {r \in Has(dir) : r.perm \notin PermsOf(Has(dir) \ Range(Wanted(dir)))}
      BY <3>2 DEF OnePerPerm, PermsOf
    <3> QED
      BY <3>1, <3>3
  <2>7. TagsAhead'
    <3>1. Puts(Range(Update)) = WantedTags \ tags
      BY UpdatePlan, TagsType DEF Puts
    <3>2. Takes(Range(Update)) = tags \ WantedTags
      BY UpdatePlan DEF Takes, GroupOK
    <3> QED
      BY <2>1, <2>3, <3>1, <3>2 DEF TagsAhead
  <2>8. ClosesSurplus'
    <3>1. \A c \in Range(Update) : c.op = "revoke" =>
              /\ c.dir \in Dirs
              /\ Range(c.rules) \subseteq Has(c.dir)
              /\ Range(c.rules) \cap Range(Wanted(c.dir)) = {}
      BY UpdatePlan
    <3>2. \A c \in Range(Update) : c.op = "revoke" =>
              /\ c.dir \in Dirs
              /\ Range(c.rules) \subseteq Found(c.dir)'
              /\ Range(c.rules) \cap Range(Wanted(c.dir)') = {}
      BY <1>3, <2>3, <3>1
    <3> QED
      BY <2>1, <3>2 DEF ClosesSurplus
  <2> QED
    BY <2>1, <2>6, <2>7, <2>8
<1>6. ASSUME ~ exists
      PROVE  Creating' /\ RulesAhead' /\ TagsAhead' /\ ClosesSurplus'
  <2>1. todo' = Creation
    BY <1>1, <1>6
  <2>2. Creating'
    BY <2>1, CreationPlan DEF Creating, Creates
  <2>3. Found("in")' = {} /\ Found("out")' = {DefaultRule} /\ FoundTags' = {}
    BY <2>2 DEF Found, FoundTags
  <2>4. \A dir \in Dirs : Opens(Range(Creation), dir) = Range(Wanted(dir))
    <3> TAKE dir \in Dirs
    <3>1. Range(Wanted(dir)) \subseteq AnyRules
      BY WantedFacts DEF Wanted, AnyRules, Dirs
    <3> QED
      BY <3>1, CreationPlan DEF Opens
  <2>5. Closes(Range(Creation), "in") = {} /\ AllTraffic \in Closes(Range(Creation), "out")
    <3>1. Closes(Range(Creation), "in") = {}
      BY CreationPlan DEF Closes
    <3>2. PICK c \in Range(Creation) : c.op = "revoke"
      BY CreationPlan
    <3>3. c.dir = "out" /\ Range(c.rules) = {DefaultRule} /\ DefaultRule.perm = AllTraffic
      BY <3>2, CreationPlan DEF DefaultRule
    <3> QED
      BY <3>1, <3>2, <3>3, PermsType DEF Closes, PermsOf
  <2>6. RulesAhead'
    <3> SUFFICES ASSUME NEW dir \in Dirs
                 PROVE  {r \in Found(dir)' : r.perm \notin Closes(Range(Creation), dir)} = {}
      BY <1>3, <2>1, <2>4 DEF RulesAhead
    <3>1. DefaultRule.perm = AllTraffic
      BY DEF DefaultRule
    <3> QED
      BY <2>3, <2>5, <3>1 DEF Dirs
  <2>7. TagsAhead'
    <3>1. Puts(Range(Creation)) = WantedTags
      BY CreationPlan, TagsType DEF Puts
    <3>2. Takes(Range(Creation)) = {}
      BY CreationPlan DEF Takes
    <3> QED
      BY <2>1, <2>3, <3>1, <3>2 DEF TagsAhead
  <2>8. ClosesSurplus'
    BY <2>1, <2>3, CreationPlan DEF ClosesSurplus, Dirs
  <2> QED
    BY <2>2, <2>6, <2>7, <2>8
<1>7. WorkOK'
  <2>1. (Creating \/ exists)' /\ RulesAhead' /\ TagsAhead' /\ ClosesSurplus'
    BY <1>5, <1>6
  <2> QED
    BY <1>1, <2>1 DEF WorkOK
<1> QED
  BY <1>2, <1>4, <1>7

\* The same, of any rules F and tags G the calls S would find.
Ahead(F, G, S) ==
    /\ \A dir \in Dirs : Range(Wanted(dir)) =
           Opens(S, dir) \cup {r \in F[dir] : r.perm \notin Closes(S, dir)}
    /\ WantedTags = Puts(S) \cup (G \ Takes(S))
    /\ Takes(S) \cap WantedTags = {}
    /\ \A c \in S : c.op = "revoke" =>
           /\ c.dir \in Dirs
           /\ Range(c.rules) \subseteq F[c.dir]
           /\ \/ Range(c.rules) \cap Range(Wanted(c.dir)) = {}
              \/ c.dir = "out" /\ Range(c.rules) = {DefaultRule}

\* A call that AWS performs leaves the rest of an Apply on its way.
LEMMA CallAhead ==
  ASSUME ShapeOK, GroupOK, CallsOK, run = "apply", Creating \/ exists,
         RulesAhead, TagsAhead, ClosesSurplus, MakeCall
  PROVE  (Creating \/ exists)' /\ RulesAhead' /\ TagsAhead' /\ ClosesSurplus'
<1> DEFINE R == Range(todo)
<1>1. PICK h \in Calls, Q \in SUBSET Calls :
          /\ h = Head(todo) /\ Q = Range(Tail(todo)) /\ R = {h} \cup Q
          /\ todo # << >> /\ todo' = Tail(todo) /\ Accepts(h) /\ Perform(h)
          /\ \A c \in Q : ~ MayNotFollow(c, h)
          /\ UNCHANGED <<spec, run, touched>>
  <2>1. todo # << >> /\ todo \in Seq(Calls) /\ Ordered(todo)
    BY DEF MakeCall, ShapeOK, CallsOK
  <2>2. Tail(todo) \in Seq(Calls)
    BY <2>1, HeadFacts
  <2>3. Range(Tail(todo)) \in SUBSET Calls
    BY <2>2, RangeOfSeq
  <2> QED
    BY <2>1, <2>3, HeadFacts DEF MakeCall
<1>2. Range(todo') = Q /\ h \in R /\ Q \subseteq R
  BY <1>1
<1>3. /\ Creates(R) <=> h.op = "create" \/ Creates(Q)
      /\ \A dir \in Dirs :
             /\ Opens(R, dir) = Opens(Q, dir) \cup {r \in AnyRules :
                    h.op = "authorize" /\ h.dir = dir /\ r \in Range(h.rules)}
             /\ Closes(R, dir) = Closes(Q, dir) \cup {p \in InPerms \cup OutPerms :
                    h.op = "revoke" /\ h.dir = dir /\ p \in PermsOf(Range(h.rules))}
      /\ Puts(R) = Puts(Q) \cup {t \in Tags : h.op = "tag" /\ t \in h.tags}
      /\ Takes(R) = Takes(Q) \cup {t \in Tags : h.op = "untag" /\ t \in h.tags}
  <2>1. R = {h} \cup Q
    BY <1>1
  <2> HIDE DEF R
  <2>2. Creates(R) <=> h.op = "create" \/ Creates(Q)
    BY <2>1 DEF Creates
  <2>3. \A dir \in Dirs :
            Opens(R, dir) = Opens(Q, dir) \cup {r \in AnyRules :
                h.op = "authorize" /\ h.dir = dir /\ r \in Range(h.rules)}
    BY <2>1 DEF Opens
  <2>4. \A dir \in Dirs :
            Closes(R, dir) = Closes(Q, dir) \cup {p \in InPerms \cup OutPerms :
                h.op = "revoke" /\ h.dir = dir /\ p \in PermsOf(Range(h.rules))}
    BY <2>1 DEF Closes
  <2>5. /\ Puts(R) = Puts(Q) \cup {t \in Tags : h.op = "tag" /\ t \in h.tags}
        /\ Takes(R) = Takes(Q) \cup {t \in Tags : h.op = "untag" /\ t \in h.tags}
    BY <2>1 DEF Puts, Takes
  <2> QED
    BY <2>2, <2>3, <2>4, <2>5
<1>4. \A dir \in Dirs : Wanted(dir)' = Wanted(dir)
  BY <1>1 DEF Wanted
<1>5. \A dir \in Dirs : Range(Wanted(dir)) =
          Opens(R, dir) \cup {r \in Found(dir) : r.perm \notin Closes(R, dir)}
  BY DEF RulesAhead
<1>6. /\ WantedTags = Puts(R) \cup (FoundTags \ Takes(R))
      /\ Takes(R) \cap WantedTags = {}
  BY DEF TagsAhead
<1>7. \A c \in R : c.op = "revoke" =>
          /\ c.dir \in Dirs
          /\ Range(c.rules) \subseteq Found(c.dir)
          /\ \/ Range(c.rules) \cap Range(Wanted(c.dir)) = {}
             \/ c.dir = "out" /\ Range(c.rules) = {DefaultRule}
  BY DEF ClosesSurplus
<1>8. h.op \in ApplyOps
  BY <1>2 DEF CallsOK
<1>9. (h.op # "lookup" => ~ Creates(Q)) /\ (h.op \notin {"lookup", "create"} => ~ Creates(R))
  BY <1>1, <1>3 DEF Creates, MayNotFollow
<1>10. Ahead([dir \in Dirs |-> Found(dir)], FoundTags, R)
  BY <1>5, <1>6, <1>7 DEF Ahead
<1>11. ASSUME NEW F, NEW G,
              \A dir \in Dirs : F[dir] = Found(dir)', G = FoundTags', Ahead(F, G, Q)
       PROVE  RulesAhead' /\ TagsAhead' /\ ClosesSurplus'
  <2>1. RulesAhead'
    BY <1>2, <1>4, <1>11 DEF RulesAhead, Ahead
  <2>2. TagsAhead'
    BY <1>2, <1>11 DEF TagsAhead, Ahead
  <2>3. ClosesSurplus'
    BY <1>2, <1>4, <1>11 DEF ClosesSurplus, Ahead
  <2> QED
    BY <2>1, <2>2, <2>3
<1>12. Creating' <=> Creates(Q)
  BY <1>2 DEF Creating
<1>13. CASE h.op = "create"
  <2>1. ~ Creating' /\ Creating
    BY <1>3, <1>9, <1>12, <1>13 DEF Creating
  <2>2. exists' = TRUE /\ inbound' = {} /\ outbound' = {DefaultRule} /\ tags' = {}
    BY <1>1, <1>13, PerformFacts
  <2>3. (\A dir \in Dirs : Found(dir)' = Found(dir)) /\ FoundTags' = FoundTags
    BY <2>1, <2>2 DEF Found, FoundTags, Has, Dirs
  <2>4. /\ \A dir \in Dirs : Opens(Q, dir) = Opens(R, dir) /\ Closes(Q, dir) = Closes(R, dir)
        /\ Puts(Q) = Puts(R) /\ Takes(Q) = Takes(R)
    BY <1>3, <1>13
  <2>5. PICK F, G : F = [dir \in Dirs |-> Found(dir)] /\ G = FoundTags
    OBVIOUS
  <2>6. Ahead(F, G, Q)
    BY <1>2, <1>10, <2>4, <2>5 DEF Ahead
  <2>7. RulesAhead' /\ TagsAhead' /\ ClosesSurplus'
    BY <1>11, <2>3, <2>5, <2>6
  <2> QED
    BY <2>2, <2>7
<1>14. CASE h.op \in {"lookup", "await"}
  <2>1. Creating' <=> Creating
    BY <1>3, <1>12, <1>14 DEF Creating
  <2>2. exists' = exists /\ inbound' = inbound /\ outbound' = outbound /\ tags' = tags
    BY <1>1, <1>14, PerformFacts DEF Authorized
  <2>3. (\A dir \in Dirs : Found(dir)' = Found(dir)) /\ FoundTags' = FoundTags
    BY <2>1, <2>2 DEF Found, FoundTags, Has, Dirs
  <2>4. /\ \A dir \in Dirs : Opens(Q, dir) = Opens(R, dir) /\ Closes(Q, dir) = Closes(R, dir)
        /\ Puts(Q) = Puts(R) /\ Takes(Q) = Takes(R)
    BY <1>3, <1>14
  <2>5. PICK F, G : F = [dir \in Dirs |-> Found(dir)] /\ G = FoundTags
    OBVIOUS
  <2>6. Ahead(F, G, Q)
    BY <1>2, <1>10, <2>4, <2>5 DEF Ahead
  <2>7. RulesAhead' /\ TagsAhead' /\ ClosesSurplus'
    BY <1>11, <2>3, <2>5, <2>6
  <2> QED
    BY <2>1, <2>2, <2>7
<1>15. CASE h.op \in {"revoke", "authorize", "tag", "untag"}
  <2>1. ~ Creating' /\ ~ Creating /\ exists' = exists /\ exists
    BY <1>1, <1>9, <1>12, <1>15, PerformFacts DEF Creating
  <2>2. /\ \A dir \in Dirs : Found(dir) = Has(dir) /\ Found(dir)' = Has(dir)'
        /\ FoundTags = tags /\ FoundTags' = tags'
    BY <2>1 DEF Found, FoundTags
  <2>3. \A dir \in Dirs : Has(dir) \subseteq AnyRules
    BY FiniteFacts
  <2>7. tags' = CASE h.op = "tag"   -> tags \cup h.tags
                  [] h.op = "untag" -> tags \ h.tags
                  [] OTHER          -> tags
    BY <1>1, <1>15, PerformFacts
  <2>8. \A dir \in Dirs :
            /\ ~ (h.op \in {"authorize", "revoke"} /\ h.dir = dir) => Has(dir)' = Has(dir)
            /\ h.op = "authorize" /\ h.dir = dir => Has(dir)' = Has(dir) \cup Range(h.rules)
            /\ h.op = "revoke" /\ h.dir = dir =>
                   Has(dir)' = {r \in Has(dir) : r.perm \notin PermsOf(Range(h.rules))}
    <3>1. Accepts(h) /\ Perform(h) /\ h.op \notin {"create", "delete"}
      BY <1>1, <1>15
    <3> QED
      BY <3>1, HasFacts
  <2>10. PICK F, G : F = [dir \in Dirs |-> Has(dir)'] /\ G = tags'
    OBVIOUS
  <2>9. ASSUME Ahead(F, G, Q)
        PROVE  RulesAhead' /\ TagsAhead' /\ ClosesSurplus'
    <3>1. (\A dir \in Dirs : F[dir] = Found(dir)') /\ G = FoundTags'
      BY <2>2, <2>10
    <3> QED
      BY <1>11, <2>9, <3>1
  <2>4. CASE h.op = "revoke"
    <3>1. tags' = tags /\ Puts(Q) = Puts(R) /\ Takes(Q) = Takes(R)
          /\ \A dir \in Dirs : Opens(Q, dir) = Opens(R, dir)
      <4>1. tags' = tags
        BY <2>4, <2>7
      <4>2. Puts(Q) = Puts(R) /\ Takes(Q) = Takes(R)
        BY <1>3, <2>4
      <4>3. \A dir \in Dirs : Opens(Q, dir) = Opens(R, dir)
        BY <1>3, <2>4
      <4> QED
        BY <4>1, <4>2, <4>3
    <3>2. \A c \in Q : c.op = "revoke" => c.dir # h.dir
      BY <1>1, <2>4 DEF MayNotFollow
    <3>3. F = [dir \in Dirs |-> Has(dir)'] /\ G = tags'
      BY <2>10
    <3>4. \A dir \in Dirs : dir # h.dir => F[dir] = Has(dir) /\ Closes(Q, dir) = Closes(R, dir)
      BY <1>3, <2>4, <2>8, <3>3
    <3>5. \A dir \in Dirs : dir = h.dir =>
              {r \in F[dir] : r.perm \notin Closes(Q, dir)}
                  = {r \in Has(dir) : r.perm \notin Closes(R, dir)}
      <4> SUFFICES ASSUME NEW dir \in Dirs, dir = h.dir
                   PROVE  {r \in F[dir] : r.perm \notin Closes(Q, dir)}
                              = {r \in Has(dir) : r.perm \notin Closes(R, dir)}
        OBVIOUS
      <4>1. F[dir] = {r \in Has(dir) : r.perm \notin PermsOf(Range(h.rules))}
        BY <2>4, <2>8, <3>3
      <4>2. Closes(R, dir) = Closes(Q, dir) \cup
                {p \in InPerms \cup OutPerms : p \in PermsOf(Range(h.rules))}
        BY <1>3, <2>4
      <4>3. \A r \in Has(dir) : r.perm \in InPerms \cup OutPerms
        BY <2>3 DEF AnyRules, Rules
      <4> QED
        BY <4>1, <4>2, <4>3
    <3>6. Ahead(F, G, Q)
      <4>1. \A dir \in Dirs : Range(Wanted(dir)) =
                Opens(Q, dir) \cup {r \in F[dir] : r.perm \notin Closes(Q, dir)}
        <5> TAKE dir \in Dirs
        <5>1. {r \in F[dir] : r.perm \notin Closes(Q, dir)}
                  = {r \in Has(dir) : r.perm \notin Closes(R, dir)}
          BY <3>4, <3>5
        <5> QED
          BY <1>5, <2>2, <3>1, <5>1
      <4>2. WantedTags = Puts(Q) \cup (G \ Takes(Q)) /\ Takes(Q) \cap WantedTags = {}
        BY <1>6, <2>2, <3>1, <3>3
      <4>3. \A c \in Q : c.op = "revoke" =>
                /\ c.dir \in Dirs
                /\ Range(c.rules) \subseteq F[c.dir]
                /\ \/ Range(c.rules) \cap Range(Wanted(c.dir)) = {}
                   \/ c.dir = "out" /\ Range(c.rules) = {DefaultRule}
        BY <1>2, <1>7, <2>2, <3>2, <3>4
      <4> QED
        BY <4>1, <4>2, <4>3 DEF Ahead
    <3> QED
      BY <2>1, <2>9, <3>6
  <2>5. CASE h.op = "authorize"
    <3>1. tags' = tags /\ Puts(Q) = Puts(R) /\ Takes(Q) = Takes(R)
          /\ \A dir \in Dirs : Closes(Q, dir) = Closes(R, dir)
      <4>1. tags' = tags
        BY <2>5, <2>7
      <4>2. Puts(Q) = Puts(R) /\ Takes(Q) = Takes(R)
        BY <1>3, <2>5
      <4>3. \A dir \in Dirs : Closes(Q, dir) = Closes(R, dir)
        BY <1>3, <2>5
      <4> QED
        BY <4>1, <4>2, <4>3
    <3>2. \A c \in Q : c.op = "revoke" => c.dir # h.dir
      BY <1>1, <2>5 DEF MayNotFollow
    <3>3. F = [dir \in Dirs |-> Has(dir)'] /\ G = tags'
      BY <2>10
    <3>4. \A dir \in Dirs : dir # h.dir => F[dir] = Has(dir) /\ Opens(Q, dir) = Opens(R, dir)
      BY <1>3, <2>5, <2>8, <3>3
    <3>5. \A dir \in Dirs : dir = h.dir =>
              /\ F[dir] = Has(dir) \cup Range(h.rules) /\ Closes(Q, dir) = {}
              /\ Opens(R, dir) = Opens(Q, dir) \cup Range(h.rules)
      <4> TAKE dir \in Dirs
      <4> HAVE dir = h.dir
      <4>1. F[dir] = Has(dir) \cup Range(h.rules)
        BY <2>5, <2>8, <3>3
      <4>2. Closes(Q, dir) = {}
        BY <3>2 DEF Closes
      <4>3. Range(h.rules) \subseteq AnyRules
        BY <1>2, <2>5, FiniteFacts DEF CallsOK
      <4>4. Opens(R, dir) = Opens(Q, dir) \cup {r \in AnyRules : r \in Range(h.rules)}
        BY <1>3, <2>5
      <4> QED
        BY <4>1, <4>2, <4>3, <4>4
    <3>6. Ahead(F, G, Q)
      <4>1. \A dir \in Dirs : Range(Wanted(dir)) =
                Opens(Q, dir) \cup {r \in F[dir] : r.perm \notin Closes(Q, dir)}
        <5> TAKE dir \in Dirs
        <5>1. CASE dir = h.dir
          BY <1>5, <2>2, <3>1, <3>5, <5>1
        <5>2. CASE dir # h.dir
          BY <1>5, <2>2, <3>1, <3>4, <5>2
        <5> QED
          BY <5>1, <5>2
      <4>2. WantedTags = Puts(Q) \cup (G \ Takes(Q)) /\ Takes(Q) \cap WantedTags = {}
        BY <1>6, <2>2, <3>1, <3>3
      <4>3. \A c \in Q : c.op = "revoke" =>
                /\ c.dir \in Dirs
                /\ Range(c.rules) \subseteq F[c.dir]
                /\ \/ Range(c.rules) \cap Range(Wanted(c.dir)) = {}
                   \/ c.dir = "out" /\ Range(c.rules) = {DefaultRule}
        BY <1>2, <1>7, <2>2, <3>2, <3>4
      <4> QED
        BY <4>1, <4>2, <4>3 DEF Ahead
    <3> QED
      BY <2>1, <2>9, <3>6
  <2>6. CASE h.op \in {"tag", "untag"}
    <3>1. \A dir \in Dirs : /\ Opens(Q, dir) = Opens(R, dir) /\ Closes(Q, dir) = Closes(R, dir)
                            /\ Has(dir)' = Has(dir)
      <4>1. \A dir \in Dirs : Opens(Q, dir) = Opens(R, dir) /\ Closes(Q, dir) = Closes(R, dir)
        BY <1>3, <2>6
      <4>2. \A dir \in Dirs : Has(dir)' = Has(dir)
        BY <2>6, <2>8
      <4> QED
        BY <4>1, <4>2
    <3>2. F = [dir \in Dirs |-> Has(dir)] /\ G = tags'
      BY <2>10, <3>1
    <3>3. WantedTags = Puts(Q) \cup (G \ Takes(Q)) /\ Takes(Q) \cap WantedTags = {}
      <4>1. h.tags \subseteq Tags
        BY <1>1 DEF Calls
      <4>2. CASE h.op = "tag"
        <5>1. G = tags \cup h.tags /\ Puts(R) = Puts(Q) \cup h.tags /\ Takes(R) = Takes(Q)
          BY <1>3, <2>7, <3>2, <4>1, <4>2
        <5> QED
          BY <1>6, <2>2, <5>1
      <4>3. CASE h.op = "untag"
        <5>1. G = tags \ h.tags /\ Puts(R) = Puts(Q) /\ Takes(R) = Takes(Q) \cup h.tags
          BY <1>3, <2>7, <3>2, <4>1, <4>3
        <5> QED
          BY <1>6, <2>2, <5>1
      <4> QED
        BY <2>6, <4>2, <4>3
    <3>4. Ahead(F, G, Q)
      BY <1>2, <1>5, <1>7, <2>2, <3>1, <3>2, <3>3 DEF Ahead
    <3> QED
      BY <2>1, <2>9, <3>4
  <2> QED
    BY <1>15, <2>1, <2>4, <2>5, <2>6
<1> QED
  BY <1>8, <1>13, <1>14, <1>15 DEF ApplyOps

LEMMA NoCalls ==
  /\ Range(<< >>) = {} /\ << >> \in Seq(Calls) /\ Ordered(<< >>)
  /\ ~ Creates({}) /\ Puts({}) = {} /\ Takes({}) = {}
  /\ \A dir \in Dirs : Opens({}, dir) = {} /\ Closes({}, dir) = {}
BY DEF Range, Ordered, Creates, Puts, Takes, Opens, Closes

\* The two calls of a Destroy.
LEMMA DestroyCalls ==
  /\ PlainCall("look") \in Calls /\ PlainCall("look").op = "look"
  /\ PlainCall("delete") \in Calls /\ PlainCall("delete").op = "delete"
  /\ <<PlainCall("delete")>> \in Seq(Calls)
  /\ Head(<<PlainCall("delete")>>) = PlainCall("delete")
  /\ Tail(<<PlainCall("delete")>>) = << >>
  /\ Range(<<PlainCall("delete")>>) = {PlainCall("delete")}
  /\ <<PlainCall("look"), PlainCall("delete")>> \in Seq(Calls)
  /\ Head(<<PlainCall("look"), PlainCall("delete")>>) = PlainCall("look")
  /\ Tail(<<PlainCall("look"), PlainCall("delete")>>) = <<PlainCall("delete")>>
  /\ Range(<<PlainCall("look"), PlainCall("delete")>>) = {PlainCall("look"), PlainCall("delete")}
<1>1. /\ PlainCall("look") \in Calls /\ PlainCall("look").op = "look"
      /\ PlainCall("delete") \in Calls /\ PlainCall("delete").op = "delete"
  BY CallTypes DEF PlainCall, TagCall
<1>2. \A c, e \in Calls :
          /\ <<c>> \in Seq(Calls) /\ Head(<<c>>) = c /\ Tail(<<c>>) = << >>
          /\ <<c, e>> \in Seq(Calls) /\ Head(<<c, e>>) = c /\ Tail(<<c, e>>) = <<e>>
  OBVIOUS
<1>3. \A c, e \in Calls : Range(<<c>>) = {c} /\ Range(<<c, e>>) = {c, e}
  <2> TAKE c, e \in Calls
  <2>1. DOMAIN <<c>> = {1} /\ <<c>>[1] = c
        /\ DOMAIN <<c, e>> = {1, 2} /\ <<c, e>>[1] = c /\ <<c, e>>[2] = e
    OBVIOUS
  <2> QED
    BY <2>1 DEF Range
<1> QED
  BY <1>1, <1>2, <1>3

\* The running operation knows what its next call is for.
LEMMA FirstCall ==
  ASSUME ShapeOK, CallsOK, todo # << >>
  PROVE  /\ Head(todo) \in Calls /\ Head(todo) \in Range(todo) /\ run \in {"apply", "destroy"}
         /\ run = "apply" => Head(todo).op \in ApplyOps
         /\ run = "destroy" => Head(todo).op \in DestroyOps
         /\ Head(todo).op = "authorize" =>
                /\ Head(todo).dir \in Dirs
                /\ Range(Head(todo).rules) \subseteq Range(Wanted(Head(todo).dir))
<1>1. todo \in Seq(Calls) /\ run \in {"apply", "destroy"}
  BY DEF ShapeOK, CallsOK
<1>2. Head(todo) \in Calls /\ Head(todo) \in Range(todo)
  BY <1>1, HeadFacts
<1>3. run = "destroy" => Head(todo).op \in DestroyOps
  BY DestroyCalls DEF CallsOK, DestroyOps
<1> QED
  BY <1>1, <1>2, <1>3 DEF CallsOK

LEMMA EndHolds ==
  ASSUME GroupInv, GroupOK', exists' \in BOOLEAN, UNCHANGED spec,
         run' = "none", todo' = << >>, touched' = FALSE
  PROVE  GroupInv'
BY NoCalls DEF GroupInv, ShapeOK, CallsOK, WorkOK

\* Someone else voids what WorkOK says of a running operation.
LEMMA OthersHold ==
  ASSUME GroupInv, GroupOK', exists' \in BOOLEAN, UNCHANGED <<spec, run, todo>>,
         touched' = (run # "none")
  PROVE  GroupInv'
<1>1. ShapeOK'
  BY DEF GroupInv, ShapeOK
<1>2. CallsOK'
  <2>1. \A dir \in Dirs : Wanted(dir)' = Wanted(dir)
    BY DEF Wanted
  <2>2. run = "none" => ~ touched'
    OBVIOUS
  <2>3. UNCHANGED <<run, todo>> /\ CallsOK
    BY DEF GroupInv
  <2> QED
    BY <2>1, <2>2, <2>3 DEF CallsOK
<1>3. WorkOK'
  BY DEF WorkOK
<1> QED
  BY <1>1, <1>2, <1>3 DEF GroupInv

LEMMA CallHolds ==
  ASSUME GroupInv, MakeCall
  PROVE  GroupInv'
<1>1. /\ todo # << >> /\ Head(todo).op # "look" /\ Accepts(Head(todo)) /\ Perform(Head(todo))
      /\ todo' = Tail(todo) /\ UNCHANGED <<spec, run, touched>>
  BY DEF MakeCall
<1>2. ShapeOK /\ GroupOK /\ CallsOK /\ WorkOK
  BY DEF GroupInv
<1>3. Head(todo) \in Calls
  BY <1>1, <1>2, FirstCall
<1>4. GroupOK'
  BY <1>1, <1>2, <1>3, FirstCall, GroupKept
<1>5. exists' \in BOOLEAN
  BY <1>1, <1>2, <1>3, PerformFacts DEF ShapeOK
<1>6. /\ todo' \in Seq(Calls) /\ Range(todo') \subseteq Range(todo)
      /\ Ordered(todo) => Ordered(todo')
  BY <1>1, <1>2, HeadFacts DEF ShapeOK
<1>7. ShapeOK'
  BY <1>1, <1>2, <1>5, <1>6 DEF ShapeOK
<1>8. run = "destroy" => todo' = << >> /\ exists' = FALSE
  <2> SUFFICES ASSUME run = "destroy" PROVE todo' = << >> /\ exists' = FALSE
    OBVIOUS
  <2>1. todo = <<PlainCall("delete")>>
    BY <1>1, <1>2, DestroyCalls DEF CallsOK
  <2> QED
    BY <1>1, <1>2, <1>3, <2>1, DestroyCalls, PerformFacts
<1>9. CallsOK'
  <2>1. \A dir \in Dirs : Wanted(dir)' = Wanted(dir)
    BY <1>1 DEF Wanted
  <2>2. run \in {"apply", "destroy"}
    BY <1>1, <1>2, FirstCall
  <2> QED
    BY <1>1, <1>2, <1>6, <1>8, <2>1, <2>2 DEF CallsOK
<1>10. WorkOK'
  <2>1. run = "apply" /\ ~ touched =>
            (Creating \/ exists)' /\ RulesAhead' /\ TagsAhead' /\ ClosesSurplus'
    BY <1>2, CallAhead DEF WorkOK
  <2> QED
    BY <1>1, <1>8, <2>1 DEF WorkOK
<1> QED
  BY <1>4, <1>7, <1>9, <1>10 DEF GroupInv

LEMMA StepHolds ==
  ASSUME GroupInv, [Next]_vars
  PROVE  GroupInv'
<1>1. ShapeOK /\ GroupOK /\ CallsOK /\ WorkOK
  BY DEF GroupInv
<1>2. ASSUME UNCHANGED <<exists, inbound, outbound, tags>>
      PROVE  GroupOK' /\ exists' \in BOOLEAN
  BY <1>1, <1>2 DEF GroupOK, ShapeOK
<1>3. CASE Apply
  <2>1. UNCHANGED <<spec, aws>> /\ run' = "apply" /\ touched' = FALSE
    BY <1>3 DEF Apply, Begin
  <2>2. CallsOK' /\ WorkOK' /\ todo' \in Seq(Calls)
    BY <1>1, <1>3, BeginAhead
  <2>3. GroupOK' /\ exists' \in BOOLEAN
    BY <1>2, <2>1 DEF aws
  <2> QED
    BY <1>1, <2>1, <2>2, <2>3 DEF GroupInv, ShapeOK
<1>4. CASE Destroy
  <2>1. /\ UNCHANGED <<spec, aws>> /\ run' = "destroy" /\ touched' = FALSE
        /\ todo' = IF exists THEN <<PlainCall("look"), PlainCall("delete")>> ELSE << >>
    BY <1>4 DEF Destroy, Begin
  <2>2. GroupOK' /\ exists' = exists /\ exists' \in BOOLEAN
    BY <1>2, <2>1 DEF aws
  <2>3. ShapeOK'
    BY <1>1, <2>1, <2>2, DestroyCalls, NoCalls DEF ShapeOK
  <2>4. \A c \in Range(todo') : c.op # "authorize"
    BY <2>1, DestroyCalls, NoCalls
  <2>5. CallsOK' /\ WorkOK'
    <3>1. exists => todo' # << >>
      BY <2>1
    <3> QED
      BY <2>1, <2>2, <2>4, <3>1 DEF CallsOK, WorkOK
  <2> QED
    BY <2>2, <2>3, <2>5 DEF GroupInv
<1>5. CASE MakeCall
  BY <1>5, CallHolds
<1>6. CASE Refused \/ GiveUp \/ Succeed
  <2>1. UNCHANGED <<spec, aws>> /\ run' = "none" /\ todo' = << >> /\ touched' = FALSE
    BY <1>6 DEF Refused, GiveUp, Succeed, End
  <2> QED
    BY <1>2, <2>1, EndHolds DEF aws
<1>7. CASE Fail
  <2>1. UNCHANGED spec /\ run' = "none" /\ todo' = << >> /\ touched' = FALSE
    BY <1>7 DEF Fail, End
  <2>2. CASE UNCHANGED aws
    BY <1>2, <2>1, <2>2, EndHolds DEF aws
  <2>3. CASE todo # << >> /\ Accepts(Head(todo)) /\ Perform(Head(todo))
    <3>1. Head(todo) \in Calls
      BY <1>1, <2>3, FirstCall
    <3>2. GroupOK'
      BY <1>1, <2>3, <3>1, FirstCall, GroupKept
    <3>3. exists' \in BOOLEAN
      BY <1>1, <2>3, <3>1, PerformFacts DEF ShapeOK
    <3> QED
      BY <2>1, <3>2, <3>3, EndHolds
  <2> QED
    BY <1>7, <2>2, <2>3 DEF Fail
<1>8. CASE SeeNoInterface
  <2>1. /\ todo # << >> /\ Head(todo).op = "look" /\ todo' = Tail(todo)
        /\ UNCHANGED <<spec, aws, run, touched>>
    BY <1>8 DEF SeeNoInterface, Call
  <2>2. run = "destroy"
    BY <1>1, <2>1, FirstCall DEF ApplyOps
  <2>3. todo' = <<PlainCall("delete")>>
    BY <1>1, <2>1, <2>2, DestroyCalls DEF CallsOK
  <2>4. GroupOK' /\ exists' \in BOOLEAN
    BY <1>2, <2>1 DEF aws
  <2>5. ShapeOK'
    BY <1>1, <2>1, <2>3, <2>4, DestroyCalls DEF ShapeOK
  <2>6. CallsOK' /\ WorkOK'
    <3>1. <<PlainCall("delete")>> # << >>
      OBVIOUS
    <3> QED
      BY <2>1, <2>2, <2>3, <3>1, DestroyCalls DEF CallsOK, WorkOK
  <2> QED
    BY <2>4, <2>5, <2>6 DEF GroupInv
<1>9. CASE LookAgain \/ Attach \/ UNCHANGED vars
  <2>1. UNCHANGED <<spec, exists, inbound, outbound, tags, run, todo, touched>>
    BY <1>9 DEF LookAgain, Attach, vars, aws
  <2>2. ShapeOK' /\ GroupOK'
    BY <1>1, <2>1 DEF ShapeOK, GroupOK
  <2>3. /\ \A dir \in Dirs : Wanted(dir)' = Wanted(dir) /\ Found(dir)' = Found(dir)
        /\ FoundTags' = FoundTags /\ Creating' = Creating
    BY <2>1 DEF Wanted, Found, FoundTags, Has, Creating
  <2>4. CallsOK'
    BY <1>1, <2>1, <2>3 DEF CallsOK
  <2>5. WorkOK'
    BY <1>1, <2>1 DEF WorkOK, RulesAhead, TagsAhead, ClosesSurplus, Wanted, Found, FoundTags,
                      Has, Creating
  <2> QED
    BY <2>2, <2>4, <2>5 DEF GroupInv
<1>10. CASE Disturb
  <2>1. /\ touched' = (run # "none") /\ UNCHANGED <<spec, run, todo>>
        /\ EditRule \/ EditTag \/ CreateByHand \/ DeleteByHand
    BY <1>10 DEF Disturb, Others
  <2>2. GroupOK' /\ exists' \in BOOLEAN
    <3>1. CASE EditRule
      BY <1>1, <3>1 DEF EditRule, GroupOK, ShapeOK
    <3>2. CASE EditTag
      BY <1>1, <3>2 DEF EditTag, GroupOK, ShapeOK
    <3>3. CASE CreateByHand
      <4>1. DefaultRule \in Rules(OutPerms)
        BY PermsType DEF DefaultRule, Rules
      <4> QED
        BY <1>1, <3>3, <4>1 DEF CreateByHand, GroupOK, OnePerPerm
    <3>4. CASE DeleteByHand
      BY <3>4 DEF DeleteByHand, GroupOK, OnePerPerm
    <3> QED
      BY <2>1, <3>1, <3>2, <3>3, <3>4
  <2> QED
    BY <2>1, <2>2, OthersHold
<1> QED
  BY <1>3, <1>4, <1>5, <1>6, <1>7, <1>8, <1>9, <1>10 DEF Next, Progress

\* Rules, tags, running operation and calls to come fit together, whatever a run
\* and everyone else do.
THEOREM GroupInvariant == Spec => []GroupInv
<1>1. ASSUME Init PROVE GroupInv
  <2>1. ShapeOK /\ GroupOK
    BY <1>1, NoCalls DEF Init, ShapeOK, GroupOK, OnePerPerm
  <2>2. CallsOK /\ WorkOK
    BY <1>1, NoCalls DEF Init, CallsOK, WorkOK
  <2> QED
    BY <2>1, <2>2 DEF GroupInv
<1> QED
  BY <1>1, StepHolds, PTL DEF Spec

-----------------------------------------------------------------------------
(* Rules change only towards the definition *)

Towards ==
    /\ inbound' \ inbound \subseteq Range(spec.inbound)
    /\ outbound' \ outbound \subseteq
           Range(spec.outbound) \cup IF exists THEN {} ELSE {DefaultRule}
    /\ run = "apply" =>
           /\ inbound \cap Range(spec.inbound) \subseteq inbound'
           /\ (outbound \cap Range(spec.outbound)) \ {DefaultRule} \subseteq outbound'

LEMMA CallTowards ==
  ASSUME GroupInv, ~ touched, todo # << >>, Accepts(Head(todo)), Perform(Head(todo))
  PROVE  Towards
<1>1. ShapeOK /\ GroupOK /\ CallsOK /\ WorkOK
  BY DEF GroupInv
<1>2. PICK h \in Calls :
          /\ h = Head(todo) /\ h \in Range(todo) /\ Accepts(h) /\ Perform(h)
          /\ run = "apply" => h.op \in ApplyOps
          /\ h.op = "authorize" => h.dir \in Dirs /\ Range(h.rules) \subseteq Range(Wanted(h.dir))
  BY <1>1, FirstCall
<1>3. CASE h.op = "create"
  <2>1. ~ exists /\ inbound' = {} /\ outbound' = {DefaultRule} /\ inbound = {} /\ outbound = {}
    BY <1>1, <1>2, <1>3, PerformFacts DEF GroupOK
  <2> QED
    BY <2>1 DEF Towards
<1>4. CASE h.op = "delete"
  <2>1. inbound' = {} /\ outbound' = {} /\ run # "apply"
    BY <1>1, <1>2, <1>4, PerformFacts DEF ApplyOps
  <2> QED
    BY <2>1 DEF Towards
<1>5. CASE h.op \notin {"create", "delete"}
  <2>1. \A dir \in Dirs :
            /\ ~ (h.op \in {"authorize", "revoke"} /\ h.dir = dir) => Has(dir)' = Has(dir)
            /\ h.op = "authorize" /\ h.dir = dir => Has(dir)' = Has(dir) \cup Range(h.rules)
            /\ h.op = "revoke" /\ h.dir = dir =>
                   Has(dir)' = {r \in Has(dir) : r.perm \notin PermsOf(Range(h.rules))}
    BY <1>1, <1>2, <1>5, HasFacts
  <2>2. \A dir \in Dirs : Has(dir)' \ Has(dir) \subseteq Range(Wanted(dir))
    BY <1>2, <2>1
  <2>3. ASSUME run = "apply", NEW dir \in Dirs, NEW r \in Has(dir) \cap Range(Wanted(dir)),
               dir = "out" => r # DefaultRule, h.op = "revoke", h.dir = dir
        PROVE  r \in Has(dir)'
    <3>1. ~ Creating
      <4>1. todo \in Seq(Calls) /\ Ordered(todo)
        BY <1>1, <2>3 DEF ShapeOK, CallsOK
      <4>2. /\ Range(todo) = {h} \cup Range(Tail(todo))
            /\ \A c \in Range(Tail(todo)) : ~ MayNotFollow(c, h)
        BY <1>2, <4>1, HeadFacts
      <4> QED
        BY <2>3, <4>2 DEF Creating, Creates, MayNotFollow
    <3>2. /\ Range(h.rules) \subseteq Has(dir)
          /\ \/ Range(h.rules) \cap Range(Wanted(dir)) = {}
             \/ dir = "out" /\ Range(h.rules) = {DefaultRule}
      BY <1>1, <1>2, <2>3, <3>1 DEF WorkOK, ClosesSurplus, Found
    <3>3. OnePerPerm(Has(dir))
      BY <1>1, FiniteFacts
    <3>4. ASSUME NEW s \in Range(h.rules) PROVE s.perm # r.perm
      BY <2>3, <3>2, <3>3 DEF OnePerPerm
    <3> QED
      BY <2>1, <2>3, <3>4 DEF PermsOf
  <2>4. ASSUME run = "apply", NEW dir \in Dirs, NEW r \in Has(dir) \cap Range(Wanted(dir)),
               dir = "out" => r # DefaultRule
        PROVE  r \in Has(dir)'
    BY <2>1, <2>3, <2>4
  <2>5. /\ "in" \in Dirs /\ "out" \in Dirs
        /\ Has("in") = inbound /\ Has("in")' = inbound' /\ Wanted("in") = spec.inbound
        /\ Has("out") = outbound /\ Has("out")' = outbound' /\ Wanted("out") = spec.outbound
    BY DEF Dirs, Has, Wanted
  <2>6. /\ inbound' \ inbound \subseteq Range(spec.inbound)
        /\ outbound' \ outbound \subseteq Range(spec.outbound)
    BY <2>2, <2>5
  <2>7. run = "apply" =>
            /\ inbound \cap Range(spec.inbound) \subseteq inbound'
            /\ (outbound \cap Range(spec.outbound)) \ {DefaultRule} \subseteq outbound'
    BY <2>4, <2>5
  <2> QED
    BY <2>6, <2>7 DEF Towards
<1> QED
  BY <1>3, <1>4, <1>5

\* While nobody else changes the group, no step of a run opens a rule that is not
\* defined, but for the one of a new group, and no step of an apply closes one that
\* is, wherever the run stops and whatever of its last call AWS still did.
THEOREM NeverAwayFromSpec == Spec => OnlyTowardsSpec
<1>1. ASSUME GroupInv, [Next]_vars, ByBuildit, vars' # vars
      PROVE  Towards
  <2>1. run # "none" /\ ~ touched /\ ~ touched'
    BY <1>1 DEF ByBuildit
  <2>2. ASSUME UNCHANGED <<inbound, outbound>>
        PROVE  Towards
    BY <2>2 DEF Towards
  <2>3. CASE Apply \/ Destroy
    BY <2>1, <2>3 DEF Apply, Destroy, Begin
  <2>4. CASE MakeCall
    BY <1>1, <2>1, <2>4, CallTowards DEF MakeCall
  <2>5. CASE Refused \/ SeeNoInterface \/ LookAgain \/ GiveUp \/ Succeed \/ Attach
    BY <2>2, <2>5 DEF Refused, SeeNoInterface, LookAgain, GiveUp, Succeed, Attach, aws
  <2>6. CASE Fail
    BY <1>1, <2>1, <2>2, <2>6, CallTowards DEF Fail, aws
  <2>7. CASE Disturb
    BY <2>1, <2>7 DEF Disturb, Others
  <2> QED
    BY <1>1, <2>3, <2>4, <2>5, <2>6, <2>7 DEF Next, Progress
<1>2. GroupInv /\ [Next]_vars =>
          [ByBuildit =>
              /\ inbound' \ inbound \subseteq Range(spec.inbound)
              /\ outbound' \ outbound \subseteq
                     Range(spec.outbound) \cup IF exists THEN {} ELSE {DefaultRule}
              /\ run = "apply" =>
                     /\ inbound \cap Range(spec.inbound) \subseteq inbound'
                     /\ (outbound \cap Range(spec.outbound)) \ {DefaultRule}
                            \subseteq outbound']_vars
  BY <1>1 DEF Towards
<1> QED
  BY <1>2, GroupInvariant, PTL DEF Spec, OnlyTowardsSpec

-----------------------------------------------------------------------------
(* The contract of the graph walks *)

LEMMA SameCondition ==
  UNCHANGED <<spec, exists, inbound, outbound, tags>> => Condition' = Condition
BY DEF Condition, SameAsSpec

\* An Apply never removes the group, and a Destroy never builds it.
LEMMA CallReaches ==
  ASSUME ShapeOK, GroupOK, CallsOK, todo # << >>, Accepts(Head(todo)), Perform(Head(todo)),
         UNCHANGED spec
  PROVE  Condition' \in Promise!Reachable(run)
<1>1. PICK h \in Calls :
          /\ h = Head(todo) /\ Accepts(h) /\ Perform(h) /\ run \in {"apply", "destroy"}
          /\ run = "apply" => h.op \in ApplyOps
          /\ run = "destroy" => h.op \in DestroyOps
  BY FirstCall
<1>2. /\ Condition' \in {"absent", "drifted", "matching"}
      /\ Condition = "absent" <=> ~ exists
      /\ Condition' = "absent" <=> ~ exists'
  BY DEF Condition
<1>3. CASE run = "apply"
  <2>1. exists => exists'
    BY <1>1, <1>3, PerformFacts DEF ApplyOps
  <2> QED
    BY <1>2, <1>3, <2>1 DEF Promise!Reachable, Promise!Conditions
<1>4. CASE run = "destroy"
  <2>1. CASE h.op = "delete"
    BY <1>1, <1>2, <1>4, <2>1, PerformFacts DEF Promise!Reachable
  <2>2. CASE h.op = "look"
    <3>1. UNCHANGED <<exists, inbound, outbound, tags>>
      BY <1>1, <2>2, PerformFacts DEF Authorized
    <3>2. exists
      BY <1>1, <2>2, PerformFacts
    <3>3. Condition' = Condition
      BY <3>1, SameCondition
    <3> QED
      BY <1>2, <1>4, <3>2, <3>3 DEF Promise!Reachable
  <2> QED
    BY <1>1, <1>4, <2>1, <2>2 DEF DestroyOps
<1> QED
  BY <1>1, <1>3, <1>4

\* Where nothing is left to do, the group is as defined, or gone.
LEMMA DoneReached ==
  ASSUME GroupInv, run # "none", todo = << >>, ~ touched
  PROVE  Condition = Promise!Goal(run)
<1>1. ShapeOK /\ CallsOK /\ WorkOK
  BY DEF GroupInv
<1>2. CASE run = "apply"
  <2>1. Range(todo) = {} /\ ~ Creating
    BY NoCalls DEF Creating
  <2>2. exists /\ RulesAhead /\ TagsAhead
    BY <1>1, <1>2, <2>1 DEF WorkOK
  <2>3. \A dir \in Dirs : Range(Wanted(dir)) = Has(dir)
    BY <2>1, <2>2, NoCalls DEF RulesAhead, Found
  <2>4. inbound = Range(spec.inbound) /\ outbound = Range(spec.outbound)
    BY <2>3 DEF Dirs, Wanted, Has
  <2>5. tags = WantedTags
    BY <2>1, <2>2, NoCalls DEF TagsAhead, FoundTags
  <2> QED
    BY <1>2, <2>2, <2>4, <2>5 DEF Condition, SameAsSpec, Promise!Goal
<1>3. CASE run = "destroy"
  BY <1>1, <1>3 DEF WorkOK, Condition, Promise!Goal
<1> QED
  BY <1>1, <1>2, <1>3 DEF ShapeOK

LEMMA StepKeepsContract ==
  ASSUME GroupInv, [Next]_vars
  PROVE  [Promise!Next]_(Promise!contract)
<1>1. ShapeOK /\ GroupOK /\ CallsOK
  BY DEF GroupInv
<1>2. Condition' \in Promise!Conditions
  BY DEF Condition, Promise!Conditions
<1>3. Condition \in Promise!Reachable(run)
  BY DEF Condition, Promise!Reachable, Promise!Conditions
<1>4. CASE Apply \/ Destroy
  <2>1. PICK c \in {"apply", "destroy"} :
            /\ run = "none" /\ run' = c /\ touched' = FALSE /\ result' = "none"
            /\ UNCHANGED <<spec, exists, inbound, outbound, tags>>
    BY <1>4 DEF Apply, Destroy, Begin, aws
  <2>2. Promise!Begin(c)
    BY <2>1, SameCondition DEF Promise!Begin
  <2> QED
    BY <2>2 DEF Promise!Next
<1>5. CASE MakeCall
  <2>1. /\ todo # << >> /\ Accepts(Head(todo)) /\ Perform(Head(todo))
        /\ UNCHANGED <<spec, run, touched, result>>
    BY <1>5 DEF MakeCall
  <2>2. Promise!Work
    BY <1>1, <2>1, CallReaches, FirstCall DEF Promise!Work
  <2> QED
    BY <2>2 DEF Promise!Next
<1>6. CASE Refused \/ GiveUp \/ Fail
  <2>1. run # "none"
    BY <1>1, <1>6, FirstCall DEF Refused, GiveUp, Call, Fail
  <2>2. /\ run' = "none" /\ result' = "error" /\ touched' = FALSE /\ UNCHANGED spec
        /\ \/ UNCHANGED aws
           \/ todo # << >> /\ Accepts(Head(todo)) /\ Perform(Head(todo))
    BY <1>6 DEF Refused, GiveUp, Fail, End
  <2>3. Condition' \in Promise!Reachable(run)
    <3>1. CASE UNCHANGED aws
      BY <1>3, <2>2, <3>1, SameCondition DEF aws
    <3>2. CASE todo # << >> /\ Accepts(Head(todo)) /\ Perform(Head(todo))
      BY <1>1, <2>2, <3>2, CallReaches
    <3> QED
      BY <2>2, <3>1, <3>2
  <2>4. Promise!Fail
    BY <2>1, <2>2, <2>3 DEF Promise!Fail
  <2> QED
    BY <2>4 DEF Promise!Next
<1>7. CASE Succeed
  <2>1. /\ run # "none" /\ todo = << >> /\ run' = "none" /\ touched' = FALSE
        /\ result' = IF touched THEN "none" ELSE run
        /\ UNCHANGED <<spec, exists, inbound, outbound, tags>>
    BY <1>7 DEF Succeed, End, aws
  <2>2. Condition' = Condition
    BY <2>1, SameCondition
  <2>3. touched \/ Condition' = Promise!Goal(run)
    BY <2>1, <2>2, DoneReached
  <2>4. Promise!Succeed
    BY <1>3, <2>1, <2>2, <2>3 DEF Promise!Succeed
  <2> QED
    BY <2>4 DEF Promise!Next
<1>8. CASE SeeNoInterface \/ LookAgain \/ Attach \/ UNCHANGED vars
  <2>1. UNCHANGED <<spec, exists, inbound, outbound, tags, run, touched, result>>
    BY <1>8 DEF SeeNoInterface, LookAgain, Attach, vars, aws
  <2> QED
    BY <2>1, SameCondition DEF Promise!contract
<1>9. CASE Disturb
  <2>1. touched' = (run # "none") /\ result' = "none" /\ UNCHANGED run
    BY <1>9 DEF Disturb, Others
  <2>2. Promise!Disturb
    BY <1>2, <2>1 DEF Promise!Disturb
  <2> QED
    BY <2>2 DEF Promise!Next
<1> QED
  BY <1>4, <1>5, <1>6, <1>7, <1>8, <1>9 DEF Next, Progress

\* Whatever earlier runs or anyone else left of the group, an Apply or a Destroy that
\* nobody disturbs succeeds only when the group is as defined, or gone; an Apply never
\* removes it and a Destroy never builds it, though they may stop at any call.
THEOREM KeepsContract == Spec => ImplementsContract
<1>1. Init => Promise!Init
  <2> SUFFICES ASSUME Init PROVE Promise!Init
    OBVIOUS
  <2>1. Condition \in Promise!Conditions
    BY DEF Condition, Promise!Conditions
  <2> QED
    BY <2>1 DEF Init, Promise!Init
<1>2. GroupInv /\ [Next]_vars => [Promise!Next]_(Promise!contract)
  BY StepKeepsContract
<1> QED
  BY <1>1, <1>2, GroupInvariant, PTL DEF Spec, ImplementsContract, Promise!Contract

=============================================================================
