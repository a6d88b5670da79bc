------------------------------ MODULE DnsRecords ------------------------------
(***************************************************************************)
(* The route53-record resources of one DNS name, run after run             *)
(* (resource/route53.go).  Route 53 keeps record sets, each of a type, and *)
(* either simple or one of several weighted ones told apart by an id.      *)
(* Compare reads the sets of the name, of every type, and looks at the     *)
(* first.  Sets of another type or policy are deleted before the wanted    *)
(* one is put, each in a call of its own.                                  *)
(***************************************************************************)
EXTENDS Integers, Sequences, FiniteSets, Functions

CONSTANTS
    Types,         \* record types, in the order Route 53 lists them
    Cname,         \* the type that suffers no other beside it
    Ids,           \* Simple and the ids of weighted sets, in the order listed
    Simple,        \* the id of a set that is not weighted
    Values,        \* answers with their TTL and weight
    Targets,       \* load balancers: what an alias stands for
    Records,       \* the resources
    Definitions,   \* the sets a spec may ask of its resources: [R -> Sets],
                   \* with R a part of Records
    HandSets,      \* sets other people may put
    ApexSets,      \* NS and SOA, if the name may be that of its zone
    FocusRecord,   \* the resource the contract is stated for
    MaxSets        \* others do not put more sets than that

Sets == [type : Range(Types), id : Range(Ids), value : Values \cup Targets]

ASSUME OrdersType == /\ Types \in Seq(Range(Types)) /\ IsInjective(Types)
                     /\ Ids \in Seq(Range(Ids)) /\ IsInjective(Ids)
ASSUME SetsType   == /\ Cname \in Range(Types) /\ Simple \in Range(Ids)
                     /\ HandSets \subseteq Sets
                     /\ IsFiniteSet(ApexSets)
                     /\ \A s \in ApexSets : s \in Sets /\ s.id = Simple /\ s.type # Cname
                     /\ \A s, t \in ApexSets : s.type = t.type => s = t
ASSUME SpecsType  == \A d \in Definitions :
                        /\ FocusRecord \in DOMAIN d /\ DOMAIN d \subseteq Records
                        /\ \A r \in DOMAIN d : d[r] \in Sets
ASSUME BoundType  == MaxSets \in Nat

VARIABLES
    want,       \* the set each resource asks for
    apex,       \* NS and SOA, if the name is that of its zone
    sets,       \* the record sets the name has
    resolvable, \* the load balancers exist
    doing,      \* the operation under way: none, apply or destroy
    whose,      \* its resource, or that of the last one
    todo,       \* the calls it has yet to make
    blind,      \* its own set was there, and it looked at another
    tampered,   \* someone else changed the name since it began
    ended       \* how it ended, until someone else changes the name

errand      == <<doing, whose, todo, blind>>
recordsVars == <<want, apex, sets, resolvable, errand, tampered, ended>>

RecordsInit ==
    /\ want \in Definitions
    /\ apex \in {{}, ApexSets}
    /\ sets = apex
    /\ resolvable = TRUE
    /\ doing = "none" /\ whose = FocusRecord /\ todo = << >> /\ blind = FALSE
    /\ tampered = FALSE /\ ended = "none"

-----------------------------------------------------------------------------
(* Route 53 *)

SameSlot(s, t) == s.type = t.type /\ s.id = t.id

\* Why Route 53 does not put s while t is there.
Conflicts(s, t) ==
    \/ s.type # t.type /\ Cname \in {s.type, t.type}
    \/ s.type = t.type /\ (s.id = Simple) # (t.id = Simple)

Upserted(s) == {t \in sets : ~ SameSlot(s, t)} \cup {s}

\* A deletion names the set as it is.
Accepts(c) ==
    CASE c.do = "resolve" -> resolvable
      [] c.do = "put"     -> \A t \in sets : ~ Conflicts(c.set, t)
      [] c.do = "delete"  -> c.set \in sets \ apex

Effect(c) ==
    CASE c.do = "resolve" -> sets
      [] c.do = "put"     -> Upserted(c.set)
      [] c.do = "delete"  -> sets \ {c.set}

-----------------------------------------------------------------------------
(* fetchExisting *)

PlaceIn(x, q) == CHOOSE i \in DOMAIN q : q[i] = x

ListedBefore(s, t) ==
    IF s.type = t.type THEN PlaceIn(s.id, Ids) < PlaceIn(t.id, Ids)
    ELSE PlaceIn(s.type, Types) < PlaceIn(t.type, Types)

\* Each set comes after as many as are listed before it.
Listing(S) ==
    [i \in 1 .. Cardinality(S) |->
        CHOOSE s \in S : Cardinality({t \in S : ListedBefore(t, s)}) = i - 1]

\* A simple record gets every set of the name; a weighted one the first of its id,
\* or a single set that is not weighted.
Fetch(w) ==
    LET named == {s \in sets : s.id = w.id} IN
    IF w.id = Simple \/ (Cardinality(sets) = 1 /\ \A s \in sets : s.id = Simple)
    THEN Listing(sets)
    ELSE IF named = {} THEN << >> ELSE <<Listing(named)[1]>>

-----------------------------------------------------------------------------
(* Compare, apply, applyDiffs and Destroy: the calls to make *)

Do(what, s) == [do |-> what, set |-> s]
Deletions(fetched) == [i \in DOMAIN fetched |-> Do("delete", fetched[i])]

IsAlias(s)  == s.value \in Targets
Resolved(w) == IF IsAlias(w) THEN <<Do("resolve", w)>> ELSE << >>

\* To compare two aliases the wanted target is looked up, and again to put it.
Compared(w, first) == IF IsAlias(first) THEN Resolved(w) ELSE << >>
Put(w) == Append(Resolved(w), Do("put", w))

Replaced(w, s) == w.type # s.type \/ (w.id = Simple) # (s.id = Simple)

\* Mutant: a set of another policy is not deleted first.
UpdateSamePolicy(w, fetched) ==
    LET first == fetched[1] IN
    IF w.type # first.type THEN Deletions(fetched) \o Put(w)
    ELSE Compared(w, first) \o IF w = first THEN << >> ELSE Put(w)

\* Mutant: every change of a set takes it away first.
UpdateByReplacement(w, fetched) ==
    IF w = fetched[1] THEN << >> ELSE Deletions(fetched) \o Put(w)

Update(w, fetched) ==
    LET first == fetched[1] IN
    IF Replaced(w, first) THEN Deletions(fetched) \o Put(w)
    ELSE Compared(w, first) \o IF w = first THEN << >> ELSE Put(w)

Creation(w) == Put(w)

BeginRecord(operation, r, calls) ==
    /\ doing = "none"
    /\ doing' = operation
    /\ whose' = r
    /\ todo' = calls
    /\ blind' = /\ \E s \in sets : SameSlot(s, want[r])
                /\ ~ SameSlot(Fetch(want[r])[1], want[r])
    /\ tampered' = FALSE
    /\ ended' = "none"
    /\ UNCHANGED <<want, apex, sets, resolvable>>

ApplyRecord(r) ==
    LET w == want[r]
        fetched == Fetch(w)
    IN BeginRecord("apply", r, IF fetched = << >> THEN Creation(w) ELSE Update(w, fetched))

\* Only the first of the sets found goes.
DestroyRecord(r) ==
    LET fetched == Fetch(want[r]) IN
    BeginRecord("destroy", r, IF fetched = << >> THEN << >> ELSE <<Do("delete", fetched[1])>>)

EndRecord(outcome) ==
    /\ doing' = "none"
    /\ todo' = << >>
    /\ blind' = FALSE
    /\ tampered' = FALSE
    /\ ended' = IF blind \/ (tampered /\ outcome # "error") THEN "none" ELSE outcome
    /\ UNCHANGED <<want, apex, resolvable, whose>>

RecordDone == doing # "none" /\ todo = << >> /\ EndRecord(doing) /\ UNCHANGED sets

MakeCall ==
    /\ todo # << >>
    /\ Accepts(Head(todo))
    /\ sets' = Effect(Head(todo))
    /\ todo' = Tail(todo)
    /\ UNCHANGED <<want, apex, resolvable, doing, whose, blind, tampered, ended>>

Refused ==
    /\ todo # << >>
    /\ ~ Accepts(Head(todo))
    /\ EndRecord("error")
    /\ UNCHANGED sets

\* An error or an interrupt, of the first lookup too; a call may have had its effect.
FailRecord ==
    /\ doing # "none"
    /\ EndRecord("error")
    /\ IF todo # << >> /\ Accepts(Head(todo)) THEN sets' \in {sets, Effect(Head(todo))}
       ELSE UNCHANGED sets

-----------------------------------------------------------------------------
(* Other people, at most once during an operation *)

OtherPeople ==
    /\ ~ tampered
    /\ tampered' = (doing # "none")
    /\ ended' = "none"
    /\ UNCHANGED <<want, apex, errand>>

PutByHand(s) ==
    /\ Cardinality(sets) < MaxSets
    /\ \A t \in sets : ~ Conflicts(s, t)
    /\ sets' = Upserted(s)
    /\ UNCHANGED resolvable

TakeByHand(s) ==
    /\ s \in sets \ apex
    /\ sets' = sets \ {s}
    /\ UNCHANGED resolvable

ToggleTargets == resolvable' = ~ resolvable /\ UNCHANGED sets

DisturbRecords ==
    OtherPeople /\ ((\E s \in HandSets : PutByHand(s) \/ TakeByHand(s)) \/ ToggleTargets)

RecordsProgress == RecordDone \/ MakeCall \/ Refused

RecordsNext ==
    \/ \E r \in DOMAIN want : ApplyRecord(r) \/ DestroyRecord(r)
    \/ RecordsProgress \/ FailRecord \/ DisturbRecords

RecordsSpec     == RecordsInit /\ [][RecordsNext]_recordsVars
RecordsFairSpec == RecordsSpec /\ WF_recordsVars(RecordsProgress)

-----------------------------------------------------------------------------
(* Properties *)

\* Resources that can share a name: weighted ones of one type, with ids of their own.
Harmonious ==
    \A q, r \in DOMAIN want :
        q # r => /\ want[q].type = want[r].type
                 /\ Simple \notin {want[q].id, want[r].id}
                 /\ want[q].id # want[r].id

\* Whatever an operation on one of several weighted records deletes or puts, in
\* whatever state earlier runs and other people left the name, the records of the
\* others stay as they were.
SiblingsKept ==
    [][Harmonious /\ doing # "none" /\ sets' # sets =>
        \/ tampered' # tampered
        \/ \A q \in DOMAIN want \ {whose} : want[q] \in sets => want[q] \in sets']_recordsVars

\* What the graph walks rely on for each record: an apply never removes it, a destroy
\* never builds it, and either reports success only when it reached its goal.  The
\* promise does not hold for a run that found its own set behind another one.
OwnSets == {s \in sets : SameSlot(s, want[FocusRecord])}
RecordCondition ==
    IF OwnSets = {} THEN "absent"
    ELSE IF want[FocusRecord] \in sets THEN "matching" ELSE "drifted"
Here == whose = FocusRecord /\ ~ blind
RecordPromise == INSTANCE ResourceContract WITH
                     condition <- RecordCondition,
                     call      <- IF Here THEN doing ELSE "none",
                     disturbed <- Here /\ tampered,
                     outcome   <- IF Here THEN ended ELSE "none"
RecordContract == RecordPromise!Contract

\* Once nobody interferes and calls stop failing, repeated applies bring every record
\* of a name to its definition, also from a failure between a deletion and the put
\* that should have followed, and repeated destroys remove it.  They do not at the
\* apex, whose own sets no record may replace, nor where a set that a weighted record
\* does not see bars its own, nor an alias of a load balancer that is gone.
Barred(r) ==
    \/ want[r].id # Simple /\ \E s \in sets : Conflicts(want[r], s)
    \/ IsAlias(want[r]) /\ ~ resolvable
RecordsConverge ==
    /\ /\ <>[][(\E r \in DOMAIN want : ApplyRecord(r)) \/ RecordsProgress]_recordsVars
       /\ \A r \in Records : r \notin DOMAIN want \/ []<><<ApplyRecord(r)>>_recordsVars
       => <>[](Harmonious /\ apex = {} => \A r \in DOMAIN want : want[r] \in sets \/ Barred(r))
    /\ <>[][DestroyRecord(FocusRecord) \/ RecordsProgress]_recordsVars
       /\ []<><<DestroyRecord(FocusRecord)>>_recordsVars
       => <>[](apex = {} => OwnSets = {})
=============================================================================
