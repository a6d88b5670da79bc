----------------------------- MODULE EdgeProofs -----------------------------
(***************************************************************************)
(* Theorems about Certificate and Edge, for any resources, definitions and *)
(* doings of other people: which certificate a run may touch and how many  *)
(* a resource gets; that a record and a distribution leave alone what is   *)
(* not their own; and that all three keep the contract of the graph walks. *)
(***************************************************************************)
EXTENDS Certificate, Edge, FiniteSetTheorems, SequenceTheorems, TLAPS

-----------------------------------------------------------------------------
(* The invariant of a certificate *)

Certificates ==
    [status  : {"absent", "pending", "issued", "failed"},
     domain  : Domains \cup {NoDomain},
     names   : SUBSET Domains,
     id      : Resources \cup {NoId},
     details : {"none", "partial", "ready"}]

Writing == {"details", "place", "validated", "tag"}

\* Shapes of the variables.
ShapeOK ==
    /\ certs \in [Arns -> Certificates]
    /\ cn \in [Resources -> Domains]
    /\ who \in Resources /\ on \in Arns \cup {NoArn}
    /\ touched \in BOOLEAN

\* Where an operation is, and what that says of it.
PlaceOK ==
    /\ op = "none" <=> pc = "idle"
    /\ op = "none" => on = NoArn /\ ~ touched
    /\ op # "none" => result = "none" /\ op \in {"apply", "destroy"}
    /\ pc \in {"compare", "request"} \cup Writing => op = "apply"
    /\ pc \in {"describe", "clear"} => op = "destroy"
    /\ pc \in {"find", "request"} => on = NoArn
    /\ pc \in {"describe", "clear", "done"} \cup Writing => on # NoArn

\* A resource that nobody renames has no certificates of other domains.
DomainsOK ==
    \A r \in Resources \ Renamed :
        /\ cn[r] = FirstDomain[r]
        /\ \A a \in Live : certs[a].id = r => certs[a].domain = cn[r]

\* ... and never two.
SoleOK ==
    \A r \in Resources \ Renamed : \A a, b \in Live :
        certs[a].id = r /\ certs[b].id = r => a = b

\* What an operation holds is of its domain; it is all that is tagged as its own.
HeldOK ==
    /\ on \in Live => certs[on].domain = cn[who]
    /\ who \notin Renamed /\ pc \notin {"idle", "find"} =>
           \A a \in Live : certs[a].id = who => a = on /\ ~ (op = "destroy" /\ pc = "done")

\* ... and it may be touched, as long as nobody else does.
UntouchedOK ==
    ~ touched /\ on # NoArn /\ ~ (op = "destroy" /\ pc = "done") =>
        /\ on \in Live
        /\ \/ certs[on].id = who
           \/ /\ certs[on].id = NoId
              /\ \A a \in Live : certs[a].domain = cn[who] => certs[a].id # who
        /\ pc \in Writing \cup {"done"} => certs[on].names = Names(who)
        /\ pc \in {"details", "place", "validated"} /\ ~ retag => certs[on].id = who
        /\ pc = "done" => certs[on].id = who
        /\ pc \in {"tag", "done"} => certs[on].status \in {"issued", "failed"}

CertInv ==
    ShapeOK /\ PlaceOK /\ DomainsOK /\ SoleOK /\ HeldOK /\ UntouchedOK /\ SuccessIsNotPending

LEMMA InitCertificates == Init => CertInv
<1> SUFFICES ASSUME Init  PROVE CertInv
  OBVIOUS
<1>1. /\ certs = [a \in Arns |-> NoCert] /\ cn = FirstDomain /\ op = "none" /\ who = Focus
      /\ pc = "idle" /\ on = NoArn /\ touched = FALSE /\ result = "none"
  BY DEF Init
<1>2. NoCert \in Certificates /\ NoCert.status = "absent"
  BY DEF NoCert, Certificates
<1>3. certs \in [Arns -> Certificates]
  BY <1>1, <1>2
<1>4. ShapeOK
  BY <1>1, <1>3, NamesType DEF ShapeOK
<1>5. Live = {}
  BY <1>1, <1>2 DEF Live
<1>6. PlaceOK
  BY <1>1 DEF PlaceOK, Writing
<1> QED
  BY <1>1, <1>4, <1>5, <1>6 DEF CertInv, DomainsOK, SoleOK, HeldOK, UntouchedOK, SuccessIsNotPending

LEMMA Typed ==
  ASSUME ShapeOK, NEW a \in Arns
  PROVE  /\ certs[a].status \in {"absent", "pending", "issued", "failed"}
         /\ certs[a].domain \in Domains \cup {NoDomain}
         /\ certs[a].names \in SUBSET Domains
         /\ certs[a].id \in Resources \cup {NoId}
         /\ a \in Live <=> certs[a].status # "absent"
<1>1. certs[a] \in Certificates
  BY DEF ShapeOK
<1> QED
  BY <1>1 DEF Certificates, Live

-----------------------------------------------------------------------------
(* What a step may do to the certificates *)

\* Whose they are, and of what, stays.
Kept ==
    \A a \in Arns :
        /\ certs'[a].id = certs[a].id /\ certs'[a].domain = certs[a].domain
        /\ certs'[a].names = certs[a].names
        /\ certs'[a].status = "absent" <=> certs[a].status = "absent"
        /\ certs[a].status \in {"issued", "failed"} => certs'[a].status \in {"issued", "failed"}

\* No resource gets one.
NoneTagged ==
    \A a \in Arns :
        certs'[a].status # "absent" /\ certs'[a].id # NoId =>
            /\ certs[a].status # "absent" /\ certs'[a].id = certs[a].id
            /\ certs'[a].domain = certs[a].domain

LEMMA KeptFacts ==
  ASSUME ShapeOK, ShapeOK', Kept
  PROVE  NoneTagged /\ Live' = Live
BY DEF Kept, NoneTagged, Live

LEMMA TagsStay ==
  ASSUME ShapeOK, ShapeOK', NoneTagged, DomainsOK, SoleOK,
         \A r \in Resources \ Renamed : cn'[r] = cn[r]
  PROVE  DomainsOK' /\ SoleOK'
<1>1. \A a \in Live', r \in Resources :
          certs'[a].id = r => /\ a \in Live /\ certs[a].id = r
                              /\ certs'[a].domain = certs[a].domain
  BY NamesType DEF NoneTagged, Live
<1> QED
  BY <1>1 DEF DomainsOK, SoleOK

\* Steps of a run, or of ACM, that leave the certificates whose they are.
LEMMA KeptStep ==
  ASSUME CertInv, ShapeOK', PlaceOK', Kept, UNCHANGED <<cn, who, touched>>,
         HeldOK', UntouchedOK', SuccessIsNotPending'
  PROVE  CertInv'
<1>1. DomainsOK' /\ SoleOK'
  BY KeptFacts, TagsStay DEF CertInv
<1> QED
  BY <1>1 DEF CertInv

LEMMA AcmStep ==
  ASSUME CertInv, NEW a \in Arns, Acm(Offer(a)) \/ Acm(Issue(a)) \/ Acm(Lapse(a))
  PROVE  CertInv' /\ Kept
<1> /\ ShapeOK /\ PlaceOK /\ HeldOK /\ UntouchedOK /\ SuccessIsNotPending
  BY DEF CertInv
<1>1. UNCHANGED <<cn, op, who, pc, on, retag, touched, result>>
  BY DEF Acm, run
<1>2. PICK c \in Certificates :
          /\ certs' = [certs EXCEPT ![a] = c]
          /\ c.id = certs[a].id /\ c.domain = certs[a].domain /\ c.names = certs[a].names
          /\ c.status # "absent" /\ certs[a].status # "absent"
          /\ certs[a].status \in {"issued", "failed"} => c.status \in {"issued", "failed"}
  <2>1. certs[a] \in Certificates
    BY DEF ShapeOK
  <2>2. CASE Offer(a)
    <3> DEFINE d == IF certs[a].details = "none" THEN "partial" ELSE "ready"
               c == [certs[a] EXCEPT !.details = d]
    <3>1. certs' = [certs EXCEPT ![a] = c] /\ certs[a].status = "pending"
      BY <2>2 DEF Offer, ShapeOK
    <3>2. c \in Certificates /\ c.id = certs[a].id /\ c.domain = certs[a].domain
          /\ c.names = certs[a].names /\ c.status = certs[a].status
      BY <2>1 DEF Certificates
    <3> QED
      BY <3>1, <3>2
  <2>3. CASE Issue(a) \/ Lapse(a)
    <3>1. PICK s \in {"issued", "failed"} :
              certs' = [certs EXCEPT ![a] = [certs[a] EXCEPT !.status = s]]
      BY <2>3 DEF Issue, Lapse, ShapeOK
    <3>2. certs[a].status # "absent"
      BY <2>3 DEF Issue, Lapse
    <3> DEFINE c == [certs[a] EXCEPT !.status = s]
    <3>3. c \in Certificates /\ c.id = certs[a].id /\ c.domain = certs[a].domain
          /\ c.names = certs[a].names /\ c.status = s
      BY <2>1 DEF Certificates
    <3> QED
      BY <3>1, <3>2, <3>3
  <2> QED
    BY <2>2, <2>3 DEF Acm
<1>3. Kept
  BY <1>2 DEF Kept, ShapeOK
<1>4. ShapeOK'
  BY <1>1, <1>2 DEF ShapeOK
<1>5. Live' = Live
  BY <1>3, <1>4, KeptFacts
<1>6. PlaceOK'
  BY <1>1 DEF PlaceOK
<1>7. HeldOK'
  BY <1>1, <1>3, <1>5 DEF HeldOK, Kept, Live
<1>8. UntouchedOK'
  <2>1. Names(who)' = Names(who)
    BY <1>1 DEF Names
  <2> QED
    BY <1>1, <1>3, <1>5, <2>1 DEF UntouchedOK, Kept, Live
<1>9. SuccessIsNotPending'
  BY <1>1, <1>3, <1>5 DEF SuccessIsNotPending, Kept, Live
<1> QED
  BY <1>1, <1>3, <1>4, <1>6, <1>7, <1>8, <1>9, KeptStep

LEMMA FreeArn ==
  ASSUME Free # {}
  PROVE  (CHOOSE a \in Free : TRUE) \in Arns \ (Live \cup {on})
BY DEF Free

\* What someone else does voids what the run has seen.
Voided == UNCHANGED run /\ touched' = (op # "none") /\ result' = "none"

LEMMA OthersStep ==
  ASSUME CertInv, Voided, ShapeOK', NoneTagged,
         \A r \in Resources \ Renamed : cn'[r] = cn[r],
         op # "none" => UNCHANGED cn,
         \A a \in Arns \cap {on} :
             certs'[a].status # "absent" =>
                 certs[a].status # "absent" /\ certs'[a].domain = certs[a].domain
  PROVE  CertInv'
<1> /\ ShapeOK /\ PlaceOK /\ HeldOK
  BY DEF CertInv
<1>1. /\ UNCHANGED <<op, who, pc, on, retag>> /\ touched' = (op # "none") /\ result' = "none"
  BY DEF Voided, run
<1>2. DomainsOK' /\ SoleOK'
  BY TagsStay DEF CertInv
<1>3. PlaceOK'
  BY <1>1 DEF PlaceOK
<1>4. HeldOK'
  <2>1. on' \in Live' => certs'[on'].domain = cn'[who']
    <3>1. ASSUME on \in Live'
          PROVE  on \in Live /\ certs'[on].domain = certs[on].domain /\ op # "none"
      BY <3>1, ArnsType DEF Live, PlaceOK
    <3> QED
      BY <1>1, <3>1 DEF HeldOK
  <2>2. ASSUME who \notin Renamed, pc \notin {"idle", "find"}, NEW a \in Live', certs'[a].id = who
        PROVE  a = on /\ ~ (op = "destroy" /\ pc = "done")
    <3>1. a \in Live /\ certs[a].id = who
      BY <2>2, NamesType DEF NoneTagged, Live, ShapeOK
    <3> QED
      BY <2>2, <3>1 DEF HeldOK
  <2> QED
    BY <1>1, <2>1, <2>2 DEF HeldOK
<1>5. UntouchedOK' /\ SuccessIsNotPending'
  BY <1>1 DEF UntouchedOK, SuccessIsNotPending, PlaceOK
<1> QED
  BY <1>2, <1>3, <1>4, <1>5 DEF CertInv

LEMMA ByHandStep ==
  ASSUME CertInv, Disturb
  PROVE  CertInv'
<1> ShapeOK /\ PlaceOK
  BY DEF CertInv
<1>1. ASSUME NEW d \in ByHand, Others(RequestByHand(d))
      PROVE  CertInv'
  <2> DEFINE c == [status |-> "pending", domain |-> d, names |-> {d}, id |-> NoId,
                   details |-> "none"]
  <2>1. PICK a \in Arns \ (Live \cup {on}) : certs' = [certs EXCEPT ![a] = c]
    BY <1>1, FreeArn DEF Others, RequestByHand
  <2>2. c \in Certificates
    BY NamesType DEF Certificates
  <2>3. UNCHANGED <<cn, who, on>> /\ touched' \in BOOLEAN
    BY <1>1 DEF Others, RequestByHand, run
  <2>4. ShapeOK'
    BY <2>1, <2>2, <2>3 DEF ShapeOK
  <2>5. NoneTagged
    BY <2>1 DEF NoneTagged, ShapeOK
  <2>6. Voided
    BY <1>1 DEF Others, Voided
  <2> QED
    BY <1>1, <2>1, <2>3, <2>4, <2>5, <2>6, OthersStep DEF ShapeOK, Live
<1>2. ASSUME NEW a \in Arns, Others(DeleteByHand(a))
      PROVE  CertInv'
  <2>1. certs' = [certs EXCEPT ![a] = NoCert] /\ UNCHANGED <<cn, who, on>> /\ touched' \in BOOLEAN
    BY <1>2 DEF Others, DeleteByHand, run
  <2>2. NoCert \in Certificates /\ NoCert.status = "absent"
    BY DEF NoCert, Certificates
  <2>3. ShapeOK'
    BY <2>1, <2>2 DEF ShapeOK
  <2>4. NoneTagged
    BY <2>1, <2>2 DEF NoneTagged, ShapeOK
  <2>5. Voided
    BY <1>2 DEF Others, Voided
  <2> QED
    BY <1>2, <2>1, <2>2, <2>3, <2>4, <2>5, OthersStep DEF ShapeOK
<1>3. ASSUME NEW a \in Arns, Others(UntagByHand(a))
      PROVE  CertInv'
  <2> DEFINE c == [certs[a] EXCEPT !.id = NoId]
  <2>1. certs' = [certs EXCEPT ![a] = c] /\ UNCHANGED <<cn, who, on>> /\ touched' \in BOOLEAN
    BY <1>3 DEF Others, UntagByHand, run, ShapeOK
  <2>2. c \in Certificates /\ c.id = NoId /\ c.domain = certs[a].domain /\ c.status = certs[a].status
    BY DEF Certificates, ShapeOK
  <2> HIDE DEF c
  <2>3. ShapeOK'
    BY <2>1, <2>2 DEF ShapeOK
  <2>4. NoneTagged
    BY <2>1, <2>2 DEF NoneTagged, ShapeOK
  <2>5. Voided
    BY <1>3 DEF Others, Voided
  <2> QED
    BY <1>3, <2>1, <2>2, <2>3, <2>4, <2>5, OthersStep DEF ShapeOK
<1>4. ASSUME NEW r \in Renamed, Others(EditDomain(r))
      PROVE  CertInv'
  <2>1. /\ op = "none" /\ UNCHANGED <<certs, who, on>> /\ touched' \in BOOLEAN
        /\ cn' \in [Resources -> Domains]
        /\ \A q \in Resources : (cn'[q] # cn[q]) <=> q = r
    BY <1>4 DEF Others, EditDomain, run
  <2>2. ShapeOK'
    BY <2>1 DEF ShapeOK
  <2>3. NoneTagged
    BY <2>1 DEF NoneTagged
  <2>4. Voided
    BY <1>4 DEF Others, Voided
  <2>5. \A q \in Resources \ Renamed : cn'[q] = cn[q]
    BY <2>1
  <2> QED
    BY <1>4, <2>1, <2>2, <2>3, <2>4, <2>5, OthersStep
<1> QED
  BY <1>1, <1>2, <1>3, <1>4 DEF Disturb

\* A run begins, or ends with nothing done.
LEMMA BeginStep ==
  ASSUME CertInv, NEW operation \in {"apply", "destroy"}, NEW r \in Resources, Begin(operation, r)
  PROVE  CertInv'
<1>1. /\ UNCHANGED <<certs, cn>> /\ op' = operation /\ who' = r /\ pc' = "find" /\ on' = NoArn
      /\ touched' = FALSE /\ result' = "none"
  BY DEF Begin, acm
<1>2. ShapeOK' /\ PlaceOK'
  BY <1>1 DEF CertInv, ShapeOK, PlaceOK, Writing
<1>3. DomainsOK' /\ SoleOK' /\ NoArn \notin Live'
  BY <1>1, ArnsType DEF CertInv, DomainsOK, SoleOK, Live
<1> QED
  BY <1>1, <1>2, <1>3 DEF CertInv, HeldOK, UntouchedOK, SuccessIsNotPending

LEMMA EndStep ==
  ASSUME CertInv, NEW outcome \in {"none", "error", "apply", "destroy"}, End(outcome), ShapeOK',
         DomainsOK', SoleOK',
         outcome = "apply" =>
             \E a \in Live' : certs'[a].id = who /\ certs'[a].status \in {"issued", "failed"}
  PROVE  CertInv'
<1>1. /\ op' = "none" /\ pc' = "idle" /\ on' = NoArn /\ touched' = FALSE /\ result' = outcome
      /\ UNCHANGED <<cn, who>>
  BY DEF End
<1>2. PlaceOK' /\ NoArn \notin Live'
  BY <1>1, ArnsType DEF PlaceOK, Live, Writing
<1> QED
  BY <1>1, <1>2 DEF CertInv, HeldOK, UntouchedOK, SuccessIsNotPending

\* ... with the certificates as they were.
LEMMA CalmEnd ==
  ASSUME CertInv, NEW outcome \in {"none", "error", "apply", "destroy"}, End(outcome),
         UNCHANGED acm,
         outcome = "apply" =>
             \E a \in Live : certs[a].id = who /\ certs[a].status \in {"issued", "failed"}
  PROVE  CertInv'
<1>1. UNCHANGED <<certs, cn, who>> /\ on' = NoArn /\ touched' = FALSE
  BY DEF End, acm
<1>2. ShapeOK'
  BY <1>1 DEF CertInv, ShapeOK
<1>3. Live' = Live
  BY <1>1 DEF Live
<1>4. DomainsOK' /\ SoleOK'
  BY <1>1, <1>3 DEF CertInv, DomainsOK, SoleOK
<1> QED
  BY <1>1, <1>2, <1>3, <1>4, EndStep

-----------------------------------------------------------------------------
(* FindCertificateForResource *)

\* The one that is found is the resource's own, or the only one of its domain.
LEMMA OwnFacts ==
  ASSUME CertInv, NEW a \in Own(who)
  PROVE  /\ a \in Live /\ certs[a].domain = cn[who]
         /\ \/ certs[a].id = who
            \/ /\ certs[a].id = NoId
               /\ \A b \in Live : certs[b].domain = cn[who] => certs[b].id # who
         /\ who \notin Renamed => \A b \in Live : certs[b].id = who => b = a
<1> ShapeOK /\ DomainsOK /\ SoleOK
  BY DEF CertInv
<1> DEFINE m == ByDomain(who)
<1>1. m \subseteq Live /\ \A b \in Live : b \in m <=> certs[b].domain = cn[who]
  BY DEF ByDomain
<1>2. a \in m /\ (certs[a].id = who \/ (certs[a].id = NoId /\ Single(m)))
  BY DEF Own, Tagged, Unclaimed
<1>3. Single(m) => m = {a}
  <2>1. IsFiniteSet(m)
    BY <1>1, ArnsType, FS_Subset DEF Live
  <2>2. Cardinality(m) = 1 => \E x : m = {x}
    BY <2>1, FS_Singleton
  <2> QED
    BY <1>2, <2>2 DEF Single
<1>4. certs[a].id = NoId => \A b \in Live : certs[b].domain = cn[who] => certs[b].id # who
  BY <1>1, <1>2, <1>3, NamesType DEF ShapeOK
<1>5. ASSUME who \notin Renamed, NEW b \in Live, certs[b].id = who
      PROVE  b = a
  <2>1. certs[b].domain = cn[who] /\ who \in Resources
    BY <1>5 DEF DomainsOK, ShapeOK
  <2> QED
    BY <1>1, <1>2, <1>4, <1>5, <2>1 DEF SoleOK
<1> QED
  BY <1>1, <1>2, <1>4, <1>5

LEMMA OwnNone ==
  ASSUME CertInv, Own(who) = {}, who \notin Renamed, NEW a \in Live
  PROVE  certs[a].id # who
<1> SUFFICES ASSUME certs[a].id = who  PROVE FALSE
  OBVIOUS
<1>1. certs[a].domain = cn[who]
  BY DEF CertInv, ShapeOK, DomainsOK
<1>2. a \in Tagged(ByDomain(who), who)
  BY <1>1 DEF ByDomain, Tagged
<1> QED
  BY <1>2 DEF Own

-----------------------------------------------------------------------------
(* The steps of a run *)

\* A call that leaves the certificates alone, with what has to be known for the next.
LEMMA GoStep ==
  ASSUME CertInv, UNCHANGED <<certs, cn, op, who, touched, result>>,
         on' \in Arns \cup {NoArn}, PlaceOK', HeldOK', UntouchedOK'
  PROVE  CertInv'
<1>1. ShapeOK'
  BY DEF CertInv, ShapeOK
<1>2. DomainsOK' /\ SoleOK' /\ SuccessIsNotPending'
  BY DEF CertInv, DomainsOK, SoleOK, Live, SuccessIsNotPending
<1> QED
  BY <1>1, <1>2 DEF CertInv

LEMMA FindStep ==
  ASSUME CertInv, Find
  PROVE  CertInv'
<1> /\ ShapeOK /\ PlaceOK /\ DomainsOK /\ SoleOK
  BY DEF CertInv
<1> who \in Resources /\ NoArn \notin Live
  BY ArnsType DEF ShapeOK, Live
<1>2. CASE FindUnsettled
  BY <1>2, CalmEnd DEF FindUnsettled, Error
<1>3. CASE FindNone /\ op = "destroy"
  BY <1>3, CalmEnd DEF FindNone, Success
<1>4. CASE FindNone /\ op # "destroy"
  <2>1. /\ pc = "find" /\ Own(who) = {} /\ pc' = "compare"
        /\ UNCHANGED <<certs, cn, op, who, on, retag, touched, result>>
    BY <1>4 DEF FindNone, Go, acm
  <2>2. op = "apply" /\ on = NoArn /\ Live' = Live
    BY <1>4, <2>1 DEF PlaceOK, Live
  <2>3. PlaceOK'
    BY <2>1, <2>2 DEF PlaceOK, Writing
  <2>4. HeldOK' /\ UntouchedOK'
    BY <2>1, <2>2, OwnNone DEF HeldOK, UntouchedOK
  <2> QED
    BY <2>1, <2>3, <2>4, GoStep DEF ShapeOK
<1>5. CASE FindOwn
  <2>1. /\ pc = "find" /\ pc' = IF op = "destroy" THEN "describe" ELSE "compare"
        /\ UNCHANGED <<certs, cn, op, who, retag, touched, result>>
    BY <1>5 DEF FindOwn, Go, acm
  <2>2. PICK a \in Own(who) : on' = a
    BY <1>5 DEF FindOwn
  <2>3. /\ a \in Live /\ certs[a].domain = cn[who]
        /\ \/ certs[a].id = who
           \/ /\ certs[a].id = NoId
              /\ \A b \in Live : certs[b].domain = cn[who] => certs[b].id # who
        /\ who \notin Renamed => \A b \in Live : certs[b].id = who => b = a
    BY OwnFacts
  <2>4. Live' = Live /\ a \in Arns /\ a # NoArn /\ op \in {"apply", "destroy"}
    BY <2>1, <2>3, ArnsType DEF Live, PlaceOK
  <2>5. PlaceOK'
    BY <2>1, <2>2, <2>4 DEF PlaceOK, Writing
  <2>6. HeldOK'
    BY <2>1, <2>2, <2>3, <2>4 DEF HeldOK
  <2>7. UntouchedOK'
    BY <2>1, <2>2, <2>3, <2>4 DEF UntouchedOK, Writing
  <2> QED
    BY <2>1, <2>2, <2>4, <2>5, <2>6, <2>7, GoStep
<1> QED
  BY <1>2, <1>3, <1>4, <1>5 DEF Find

LEMMA CompareStep ==
  ASSUME CertInv, Compare
  PROVE  CertInv'
<1> /\ ShapeOK /\ PlaceOK /\ HeldOK /\ UntouchedOK
  BY DEF CertInv
<1> NoArn \notin Live
  BY ArnsType DEF Live
<1>1. CASE CompareUnplaceable \/ CompareOtherNames
  BY <1>1, CalmEnd DEF CompareUnplaceable, CompareOtherNames, Error
<1>2. CASE CompareAbsent
  <2>1. /\ pc = "compare" /\ on \notin Live /\ on' = NoArn /\ pc' = "request"
        /\ UNCHANGED <<certs, cn, op, who, retag, touched, result>>
    BY <1>2 DEF CompareAbsent, Go, acm, Gone
  <2>2. Live' = Live
    BY <2>1 DEF Live
  <2>3. PlaceOK'
    BY <2>1 DEF PlaceOK, Writing
  <2>4. HeldOK' /\ UntouchedOK'
    BY <2>1, <2>2 DEF HeldOK, UntouchedOK
  <2> QED
    BY <2>1, <2>3, <2>4, GoStep
<1>3. CASE CompareSame
  <2>1. on \in Live /\ certs[on].id = who /\ certs[on].status \in {"issued", "failed"}
    BY <1>3, Typed DEF CompareSame, Comparable, Gone, Validating, Cert, Live
  <2>2. op = "apply" /\ End(IF touched THEN "none" ELSE op) /\ UNCHANGED acm
    BY <1>3 DEF CompareSame, Comparable, Success, PlaceOK
  <2> QED
    BY <2>1, <2>2, CalmEnd
<1>4. CASE CompareDifferent
  <2>1. /\ pc = "compare" /\ on \in Live /\ on # NoArn /\ certs[on].names = Names(who)
        /\ retag' = (certs[on].id # who)
        /\ pc' = IF certs[on].status = "pending" THEN "details" ELSE "tag"
        /\ UNCHANGED <<certs, cn, op, who, on, touched, result>>
    BY <1>4 DEF CompareDifferent, Comparable, Gone, Cert, Validating, Go, acm
  <2>2. Live' = Live /\ Names(who)' = Names(who) /\ op = "apply"
    BY <2>1 DEF Live, Names, PlaceOK
  <2>3. certs[on].status \in {"pending", "issued", "failed"}
    BY <2>1, Typed DEF Live
  <2>4. PlaceOK'
    BY <2>1, <2>2 DEF PlaceOK, Writing
  <2>5. HeldOK'
    BY <2>1, <2>2 DEF HeldOK
  <2>6. UntouchedOK'
    BY <2>1, <2>2, <2>3 DEF UntouchedOK, Writing
  <2> QED
    BY <2>1, <2>4, <2>5, <2>6, GoStep DEF ShapeOK
<1> QED
  BY <1>1, <1>2, <1>3, <1>4 DEF Compare

\* A call that keeps what the run holds, and goes on with writing or removing.
LEMMA OnwardStep ==
  ASSUME CertInv, UNCHANGED <<certs, cn, op, who, on, retag, touched, result>>,
         \/ pc' = pc
         \/ pc \in {"details", "place"} /\ pc' \in {"place", "validated"}
         \/ pc = "validated" /\ pc' = "tag" /\ on \in Live /\ certs[on].status = "issued"
         \/ pc = "describe" /\ pc' = "clear"
  PROVE  CertInv'
<1> /\ PlaceOK /\ HeldOK /\ UntouchedOK
  BY DEF CertInv
<1>1. Live' = Live /\ Names(who)' = Names(who)
  BY DEF Live, Names
<1>2. PlaceOK'
  BY DEF PlaceOK, Writing
<1>3. HeldOK'
  BY <1>1 DEF HeldOK
<1>4. UntouchedOK'
  BY <1>1 DEF UntouchedOK, Writing
<1> QED
  BY <1>2, <1>3, <1>4, GoStep DEF CertInv, ShapeOK

LEMMA WaitStep ==
  ASSUME CertInv, Wait
  PROVE  CertInv'
<1>1. CASE SeeDetails \/ LookAgain
  BY <1>1, OnwardStep DEF SeeDetails, LookAgain, Go, acm
<1>2. CASE SeeNotPending \/ GiveUp \/ SeeFailed
  BY <1>2, CalmEnd DEF SeeNotPending, GiveUp, SeeFailed, Error
<1>3. CASE SeeIssued /\ retag
  BY <1>3, OnwardStep DEF SeeIssued, Go, acm, Gone, Cert
<1>4. CASE SeeIssued /\ ~ retag
  <2>1. /\ pc = "validated" /\ on # NoArn /\ on \in Live /\ certs[on].status = "issued"
        /\ End(IF touched THEN "none" ELSE op) /\ UNCHANGED acm
    BY <1>4 DEF SeeIssued, Gone, Cert, Success
  <2>2. op = "apply" /\ (~ touched => certs[on].id = who)
    BY <1>4, <2>1 DEF CertInv, PlaceOK, UntouchedOK, Writing
  <2> QED
    BY <2>1, <2>2, CalmEnd
<1> QED
  BY <1>1, <1>2, <1>3, <1>4 DEF Wait

\* The three calls that change certificates, whether their answer is seen or lost.
Asks(a)  == a \in Free /\ certs' = [certs EXCEPT ![a] = Requested(who)]
Tags     == pc = "tag" /\ on \in Live /\ certs' = [certs EXCEPT ![on].id = who]
Deletes  == pc = "clear" /\ on \in Live /\ certs' = [certs EXCEPT ![on] = NoCert]

LEMMA AskedFacts ==
  ASSUME CertInv, NEW a, Asks(a), pc = "request", UNCHANGED cn
  PROVE  /\ certs' \in [Arns -> Certificates] /\ DomainsOK' /\ SoleOK'
         /\ a \in Arns /\ a \notin Live /\ certs'[a].id = who /\ certs'[a].status = "pending"
         /\ certs'[a].domain = cn[who] /\ certs'[a].names = Names(who)
         /\ \A b \in Arns : b # a => certs'[b] = certs[b]
<1> /\ ShapeOK /\ PlaceOK /\ HeldOK /\ DomainsOK /\ SoleOK
  BY DEF CertInv
<1> DEFINE c == Requested(who)
<1>1. /\ c.id = who /\ c.status = "pending" /\ c.domain = cn[who] /\ c.names = Names(who)
      /\ c \in Certificates
  <2>1. cn[who] \in Domains /\ Names(who) \in SUBSET Domains
    BY NamesType DEF ShapeOK, Names
  <2> QED
    BY <2>1 DEF Requested, Certificates, ShapeOK
<1>2. a \in Arns /\ a \notin Live /\ certs' = [certs EXCEPT ![a] = c]
  BY DEF Asks, Free
<1> HIDE DEF c
<1>3. certs' \in [Arns -> Certificates] /\ certs'[a] = c
      /\ \A b \in Arns : b # a => certs'[b] = certs[b]
  BY <1>1, <1>2 DEF ShapeOK
<1>4. Live' = Live \cup {a}
  BY <1>1, <1>2, <1>3 DEF Live
<1>5. DomainsOK'
  BY <1>1, <1>3, <1>4 DEF DomainsOK, ShapeOK, Live
<1>6. \A b \in Live : who \notin Renamed => certs[b].id # who
  BY ArnsType DEF HeldOK, PlaceOK, Live
<1>7. SoleOK'
  BY <1>1, <1>3, <1>4, <1>6 DEF SoleOK, Live
<1> QED
  BY <1>1, <1>2, <1>3, <1>5, <1>7

LEMMA TaggedFacts ==
  ASSUME CertInv, Tags, UNCHANGED cn
  PROVE  /\ certs' \in [Arns -> Certificates] /\ DomainsOK' /\ SoleOK'
         /\ on \in Arns /\ certs'[on].id = who /\ certs'[on].domain = certs[on].domain
         /\ certs'[on].names = certs[on].names /\ certs'[on].status = certs[on].status
         /\ \A b \in Arns : b # on => certs'[b] = certs[b]
         /\ Live' = Live
<1> /\ ShapeOK /\ HeldOK /\ DomainsOK /\ SoleOK
  BY DEF CertInv
<1> on \in Arns /\ on \in Live
  BY DEF Tags, Live
<1> DEFINE c == [certs[on] EXCEPT !.id = who]
<1>1. /\ c.id = who /\ c.domain = certs[on].domain /\ c.names = certs[on].names
      /\ c.status = certs[on].status /\ c \in Certificates
  BY DEF ShapeOK, Certificates
<1>2. certs' = [certs EXCEPT ![on] = c]
  BY DEF Tags, ShapeOK
<1> HIDE DEF c
<1>3. certs' \in [Arns -> Certificates] /\ certs'[on] = c
      /\ \A b \in Arns : b # on => certs'[b] = certs[b]
  BY <1>1, <1>2 DEF ShapeOK
<1>4. Live' = Live
  BY <1>1, <1>3 DEF Live
<1>5. certs[on].domain = cn[who]
  BY DEF HeldOK
<1>6. DomainsOK'
  BY <1>1, <1>3, <1>4, <1>5 DEF DomainsOK, Live
<1>7. \A b \in Live : who \notin Renamed => (certs[b].id = who => b = on)
  BY DEF HeldOK, Tags
<1>8. SoleOK'
  BY <1>1, <1>3, <1>4, <1>7 DEF SoleOK, Live
<1> QED
  BY <1>1, <1>3, <1>4, <1>6, <1>8

LEMMA DeletedFacts ==
  ASSUME CertInv, Deletes, UNCHANGED cn
  PROVE  /\ certs' \in [Arns -> Certificates] /\ DomainsOK' /\ SoleOK'
         /\ on \in Arns /\ certs'[on] = NoCert /\ Live' = Live \ {on}
         /\ \A b \in Arns : b # on => certs'[b] = certs[b]
<1> /\ ShapeOK /\ DomainsOK /\ SoleOK
  BY DEF CertInv
<1>1. NoCert \in Certificates /\ NoCert.status = "absent"
  BY DEF NoCert, Certificates
<1>2. on \in Arns /\ certs' = [certs EXCEPT ![on] = NoCert]
  BY DEF Deletes, Live
<1>3. certs' \in [Arns -> Certificates] /\ certs'[on] = NoCert
      /\ \A b \in Arns : b # on => certs'[b] = certs[b]
  BY <1>1, <1>2 DEF ShapeOK
<1>4. Live' = Live \ {on}
  BY <1>1, <1>2, <1>3 DEF Live
<1>5. DomainsOK' /\ SoleOK'
  BY <1>3, <1>4 DEF DomainsOK, SoleOK, Live
<1> QED
  BY <1>2, <1>3, <1>4, <1>5

LEMMA WriteStep ==
  ASSUME CertInv, Write
  PROVE  CertInv'
<1> /\ ShapeOK /\ PlaceOK /\ HeldOK /\ UntouchedOK
  BY DEF CertInv
<1> NoArn \notin Live /\ NoArn \notin Arns
  BY ArnsType DEF Live
<1>1. CASE RequestRefused \/ CannotPlace \/ CannotTag
  BY <1>1, CalmEnd DEF RequestRefused, CannotPlace, CannotTag, Error
<1>2. CASE (\E d \in Domains : Place(d)) \/ Placed
  BY <1>2, OnwardStep DEF Place, Placed, Go, acm
<1>3. CASE Request
  <2>1. /\ pc = "request" /\ pc' = "details" /\ on = NoArn
        /\ UNCHANGED <<cn, op, who, retag, touched, result>>
    BY <1>3 DEF Request, Go, PlaceOK
  <2>2. PICK a \in Arns : on' = a /\ Asks(a)
    BY <1>3, FreeArn DEF Request, Asks, Free
  <2>3. /\ certs' \in [Arns -> Certificates] /\ DomainsOK' /\ SoleOK'
        /\ a \notin Live /\ certs'[a].id = who /\ certs'[a].status = "pending"
        /\ certs'[a].domain = cn[who] /\ certs'[a].names = Names(who)
        /\ \A b \in Arns : b # a => certs'[b] = certs[b]
    BY <2>1, <2>2, AskedFacts
  <2>4. Live' = Live \cup {a} /\ Names(who)' = Names(who)
    BY <2>1, <2>3 DEF Live, Names
  <2>5. ShapeOK'
    BY <2>1, <2>2, <2>3 DEF ShapeOK
  <2>6. PlaceOK'
    BY <2>1, <2>2 DEF PlaceOK, Writing
  <2>7. HeldOK'
    BY <2>1, <2>2, <2>3, <2>4 DEF HeldOK, Live
  <2>8. UntouchedOK'
    BY <2>1, <2>2, <2>3, <2>4 DEF UntouchedOK, Writing
  <2>9. SuccessIsNotPending'
    BY <2>1 DEF PlaceOK, SuccessIsNotPending
  <2> QED
    BY <2>3, <2>5, <2>6, <2>7, <2>8, <2>9 DEF CertInv
<1>4. CASE Tag
  <2>1. /\ Tags /\ pc = "tag" /\ pc' = "done" /\ retag' = FALSE /\ on \in Live /\ on # NoArn
        /\ UNCHANGED <<cn, op, who, on, touched, result>>
    BY <1>4 DEF Tag, Tags, Gone, Go
  <2>2. /\ certs' \in [Arns -> Certificates] /\ DomainsOK' /\ SoleOK'
        /\ on \in Arns /\ certs'[on].id = who /\ certs'[on].domain = certs[on].domain
        /\ certs'[on].names = certs[on].names /\ certs'[on].status = certs[on].status
        /\ \A b \in Arns : b # on => certs'[b] = certs[b]
        /\ Live' = Live
    BY <2>1, TaggedFacts
  <2>3. Names(who)' = Names(who) /\ op = "apply"
    BY <2>1 DEF Names, PlaceOK, Writing
  <2>4. ShapeOK'
    BY <2>1, <2>2 DEF ShapeOK
  <2>5. PlaceOK'
    BY <2>1, <2>3 DEF PlaceOK, Writing
  <2>6. HeldOK'
    BY <2>1, <2>2, <2>3 DEF HeldOK, Live
  <2>7. UntouchedOK'
    BY <2>1, <2>2, <2>3 DEF UntouchedOK, Writing
  <2>8. SuccessIsNotPending'
    BY <2>1, <2>3 DEF PlaceOK, SuccessIsNotPending
  <2> QED
    BY <2>2, <2>4, <2>5, <2>6, <2>7, <2>8 DEF CertInv
<1>5. CASE Done
  <2>1. pc = "done" /\ End(IF touched THEN "none" ELSE op) /\ UNCHANGED acm
    BY <1>5 DEF Done, Success
  <2>2. op \in {"apply", "destroy"} /\ on # NoArn
    BY <2>1 DEF PlaceOK
  <2>3. op = "apply" /\ ~ touched =>
            on \in Live /\ certs[on].id = who /\ certs[on].status \in {"issued", "failed"}
    BY <2>1, <2>2 DEF UntouchedOK
  <2> QED
    BY <2>1, <2>2, <2>3, CalmEnd
<1> QED
  BY <1>1, <1>2, <1>3, <1>4, <1>5 DEF Write

LEMMA RemoveStep ==
  ASSUME CertInv, Remove
  PROVE  CertInv'
<1> /\ ShapeOK /\ PlaceOK /\ HeldOK /\ UntouchedOK
  BY DEF CertInv
<1>1. CASE DescribeGone \/ CannotDelete
  <2>1. op = "destroy" \/ CannotDelete
    BY <1>1 DEF DescribeGone, PlaceOK
  <2> QED
    BY <1>1, <2>1, CalmEnd DEF DescribeGone, CannotDelete, Error, Success
<1>2. CASE DescribeLive \/ \E d \in Domains : Clear(d)
  BY <1>2, OnwardStep DEF DescribeLive, Clear, Go, acm
<1>3. CASE Delete
  <2>1. /\ Deletes /\ pc = "clear" /\ pc' = "done" /\ on # NoArn
        /\ UNCHANGED <<cn, op, who, on, retag, touched, result>>
    BY <1>3 DEF Delete, Deletes, Gone, Go
  <2>2. /\ certs' \in [Arns -> Certificates] /\ DomainsOK' /\ SoleOK'
        /\ on \in Arns /\ certs'[on] = NoCert /\ Live' = Live \ {on}
        /\ \A b \in Arns : b # on => certs'[b] = certs[b]
    BY <2>1, DeletedFacts
  <2>3. op = "destroy"
    BY <2>1 DEF PlaceOK
  <2>4. ShapeOK'
    BY <2>1, <2>2 DEF ShapeOK
  <2>5. PlaceOK'
    BY <2>1, <2>3 DEF PlaceOK, Writing
  <2>6. HeldOK'
    BY <2>1, <2>2, <2>3 DEF HeldOK, Live
  <2>7. UntouchedOK' /\ SuccessIsNotPending'
    BY <2>1, <2>3 DEF UntouchedOK, PlaceOK, SuccessIsNotPending
  <2> QED
    BY <2>2, <2>4, <2>5, <2>6, <2>7 DEF CertInv
<1> QED
  BY <1>1, <1>2, <1>3 DEF Remove

\* What a failed call may have done.
LEMMA LostFacts ==
  ASSUME CertInv, Fail
  PROVE  UNCHANGED acm \/ UNCHANGED certs \/ (\E a : Asks(a) /\ pc = "request") \/ Tags \/ Deletes
<1>1. CASE pc = "request" /\ Free # {}
  <2>1. (CHOOSE a \in Free : TRUE) \in Free
    BY <1>1
  <2> QED
    BY <1>1, <2>1 DEF Fail, LostAnswer, Asks, Tags, Deletes, Gone
<1>2. CASE ~ (pc = "request" /\ Free # {})
  BY <1>2 DEF Fail, LostAnswer, Asks, Tags, Deletes, Gone
<1> QED
  BY <1>1, <1>2

LEMMA FailStep ==
  ASSUME CertInv, Fail
  PROVE  CertInv'
<1>1. End("error") /\ UNCHANGED <<cn, who>> /\ on' = NoArn /\ touched' = FALSE
  BY DEF Fail, End
<1>2. certs' \in [Arns -> Certificates] /\ DomainsOK' /\ SoleOK'
  <2>1. CASE UNCHANGED certs
    <3>1. Live' = Live
      BY <2>1 DEF Live
    <3> QED
      BY <1>1, <2>1, <3>1 DEF CertInv, ShapeOK, DomainsOK, SoleOK
  <2>2. CASE (\E a : Asks(a) /\ pc = "request") \/ Tags \/ Deletes
    BY <1>1, <2>2, AskedFacts, TaggedFacts, DeletedFacts
  <2> QED
    BY <2>1, <2>2, LostFacts DEF acm
<1>3. ShapeOK'
  BY <1>1, <1>2 DEF CertInv, ShapeOK
<1> QED
  BY <1>1, <1>2, <1>3, EndStep

LEMMA NextCertificates ==
  ASSUME CertInv, [Next]_vars
  PROVE  CertInv'
<1>1. CASE Apply \/ Destroy
  BY <1>1, BeginStep DEF Apply, Destroy
<1>2. CASE Progress
  BY <1>2, FindStep, CompareStep, WaitStep, WriteStep, RemoveStep DEF Progress
<1>3. CASE Fail
  BY <1>3, FailStep
<1>4. CASE Validate \/ \E a \in Arns : Acm(Lapse(a))
  BY <1>4, AcmStep DEF Validate
<1>5. CASE Disturb
  BY <1>5, ByHandStep
<1>6. CASE UNCHANGED vars
  <2>1. UNCHANGED <<certs, cn, op, who, pc, on, retag, touched, result>>
    BY <1>6 DEF vars, acm, run
  <2> QED
    BY <2>1, OnwardStep
<1> QED
  BY <1>1, <1>2, <1>3, <1>4, <1>5, <1>6 DEF Next

LEMMA CertificatesInvariant == Spec => []CertInv
BY InitCertificates, NextCertificates, PTL DEF Spec

-----------------------------------------------------------------------------
(* Which certificates there are *)

\* FindCertificateForResource and RequestCertificate: whatever failed, got lost or was
\* changed by hand, no two certificates are tagged as one resource's.
THEOREM OneEach == FairSpec => []OneCertificateEach
<1>1. CertInv => OneCertificateEach
  <2> SUFFICES ASSUME CertInv, NEW r \in Resources \ Renamed
               PROVE  Cardinality(Tagged(Live, r)) <= 1
    BY DEF OneCertificateEach
  <2>1. CASE Tagged(Live, r) = {}
    BY <2>1, FS_EmptySet
  <2>2. CASE Tagged(Live, r) # {}
    <3>1. PICK a : a \in Tagged(Live, r)
      BY <2>2
    <3>2. Tagged(Live, r) = {a}
      BY <3>1 DEF CertInv, SoleOK, Tagged
    <3> QED
      BY <3>2, FS_Singleton
  <2> QED
    BY <2>1, <2>2
<1> QED
  BY <1>1, CertificatesInvariant, PTL DEF FairSpec

\* Certificate.Apply waits: when it reports success, its certificate is no longer being
\* validated.
THEOREM AppliedIsNotPending == FairSpec => []SuccessIsNotPending
<1>1. CertInv => SuccessIsNotPending
  BY DEF CertInv
<1> QED
  BY <1>1, CertificatesInvariant, PTL DEF FairSpec

\* A run deletes or retags nothing but its own certificate, or the one of its domain that
\* nobody has tagged when it has none.
THEOREM OthersKeepTheirs == FairSpec => OwnCertificates
<1>1. CertInv /\ [Next]_vars =>
          [ByBuildit =>
              \A a \in Live :
                  (certs'[a] = NoCert \/ certs'[a].id # certs[a].id) =>
                      \/ certs[a].id = who
                      \/ certs[a].id = NoId /\ Tagged(ByDomain(who), who) = {}]_vars
  <2> SUFFICES ASSUME CertInv, Next, ByBuildit, NEW a \in Live,
                      certs'[a] = NoCert \/ certs'[a].id # certs[a].id
               PROVE  \/ certs[a].id = who
                      \/ certs[a].id = NoId /\ Tagged(ByDomain(who), who) = {}
    OBVIOUS
  <2>1. op # "none" /\ ~ touched /\ ~ touched' /\ a \in Arns /\ certs[a].status # "absent"
    BY DEF ByBuildit, Live
  <2>2. ASSUME Tags \/ Deletes, a = on
        PROVE  \/ certs[a].id = who
               \/ certs[a].id = NoId /\ Tagged(ByDomain(who), who) = {}
    <3>1. on # NoArn /\ pc \in {"tag", "clear"}
      BY <2>2, ArnsType DEF Tags, Deletes, Live
    <3>2. \/ certs[on].id = who
          \/ /\ certs[on].id = NoId
             /\ \A b \in Live : certs[b].domain = cn[who] => certs[b].id # who
      BY <2>1, <3>1 DEF CertInv, UntouchedOK
    <3> QED
      BY <2>2, <3>2 DEF Tagged, ByDomain
  <2>3. certs'[a] # certs[a]
    BY <2>1 DEF NoCert
  <2>4. CASE Fail
    <3>1. UNCHANGED cn
      BY <2>4 DEF Fail, End
    <3>2. ~ \E b : Asks(b) /\ pc = "request"
      BY <2>1, <2>3, <3>1, AskedFacts
    <3>3. (Tags \/ Deletes) /\ a = on
      BY <2>1, <2>3, <2>4, <3>1, <3>2, LostFacts, TaggedFacts, DeletedFacts DEF acm
    <3> QED
      BY <2>2, <3>3
  <2>5. CASE Validate \/ \E b \in Arns : Acm(Lapse(b))
    <3>1. Kept
      BY <2>5, AcmStep DEF Validate
    <3>2. certs'[a].id = certs[a].id /\ certs'[a].status # "absent"
      BY <2>1, <3>1 DEF Kept
    <3> QED
      BY <3>2 DEF NoCert
  <2>6. CASE Disturb
    BY <2>1, <2>6 DEF Disturb, Others
  <2>7. CASE Request
    <3>1. Asks(on') /\ pc = "request" /\ UNCHANGED cn
      BY <2>7, FreeArn DEF Request, Asks, Free, Go
    <3> QED
      BY <2>1, <2>3, <3>1, AskedFacts
  <2>8. CASE Tag
    <3>1. Tags /\ UNCHANGED cn
      BY <2>8 DEF Tag, Tags, Gone, Go
    <3> QED
      BY <2>1, <2>2, <2>3, <3>1, TaggedFacts
  <2>9. CASE Delete
    <3>1. Deletes /\ UNCHANGED cn
      BY <2>9 DEF Delete, Deletes, Gone, Go
    <3> QED
      BY <2>1, <2>2, <2>3, <3>1, DeletedFacts
  <2>10. CASE UNCHANGED certs
    BY <2>3, <2>10
  <2> QED
    BY <2>4, <2>5, <2>6, <2>7, <2>8, <2>9, <2>10
       DEF Next, Apply, Destroy, Begin, Progress, Find, FindNone, FindOwn, FindUnsettled, Compare,
           CompareUnplaceable, CompareAbsent, CompareOtherNames, CompareSame, CompareDifferent,
           Wait, SeeDetails, SeeNotPending, LookAgain, GiveUp, SeeIssued, SeeFailed,
           Write, RequestRefused, Place, CannotPlace, Placed, CannotTag, Done,
           Remove, DescribeGone, DescribeLive, Clear, CannotDelete, Success, Error, acm
<1> QED
  BY <1>1, CertificatesInvariant, PTL DEF FairSpec, Spec, OwnCertificates

-----------------------------------------------------------------------------
(* The contract of the graph walks *)

LEMMA ConditionFacts ==
  /\ Condition \in {"absent", "drifted", "matching"}
  /\ Condition = "absent" <=> \A a \in Live : certs[a].id # Focus
  /\ Condition = "matching" <=> \E a \in Live : /\ certs[a].id = Focus /\ certs[a].domain = cn[Focus]
                                                /\ certs[a].names = Names(Focus)
  /\ Condition' \in {"absent", "drifted", "matching"}
  /\ Condition' = "absent" <=> \A a \in Live' : certs'[a].id # Focus
  /\ Condition' = "matching" <=> \E a \in Live' : /\ certs'[a].id = Focus
                                                  /\ certs'[a].domain = cn'[Focus]
                                                  /\ certs'[a].names = Names(Focus)'
BY DEF Condition, Tagged

\* A step of a run either goes on, or fails, or ends well where the contract wants it to.
Onward == op' = op /\ UNCHANGED <<touched, result>>

LEMMA RunSteps ==
  ASSUME CertInv, Progress \/ Fail, Focus \notin Renamed
  PROVE  /\ op \in {"apply", "destroy"} /\ UNCHANGED <<cn, who>>
         /\ UNCHANGED certs \/ (\E a : Asks(a) /\ pc = "request") \/ Tags \/ Deletes
         /\ \/ Onward
            \/ End("error")
            \/ /\ Success
               /\ who = Focus /\ ~ touched =>
                      Condition = IF op = "apply" THEN "matching" ELSE "absent"
<1> /\ ShapeOK /\ PlaceOK /\ HeldOK /\ UntouchedOK
  BY DEF CertInv
<1>1. CASE Fail
  BY <1>1, LostFacts DEF Fail, End, PlaceOK, acm
<1>2. CASE Request
  <2>1. Asks(on') /\ pc = "request"
    BY <1>2, FreeArn DEF Request, Asks, Free
  <2> QED
    BY <1>2, <2>1 DEF Request, Go, Onward, PlaceOK
<1>3. CASE Tag \/ Delete
  BY <1>3 DEF Tag, Tags, Delete, Deletes, Gone, Go, Onward, PlaceOK, Writing
<1>4. CASE \/ FindNone /\ op # "destroy"
           \/ FindOwn \/ CompareAbsent \/ CompareDifferent \/ SeeDetails \/ LookAgain
           \/ SeeIssued /\ retag
           \/ (\E d \in Domains : Place(d) \/ Clear(d)) \/ Placed \/ DescribeLive
  <2>1. op # "none"
    BY <1>4 DEF PlaceOK, FindNone, FindOwn, CompareAbsent, CompareDifferent, Comparable, SeeDetails,
                LookAgain, Waits, SeeIssued, Place, Placed, DescribeLive, Clear
  <2>2. Onward /\ UNCHANGED <<certs, cn, who>>
    BY <1>4 DEF FindNone, FindOwn, CompareAbsent, CompareDifferent, SeeDetails, LookAgain, SeeIssued,
                Place, Placed, DescribeLive, Clear, Go, Onward, acm
  <2> QED
    BY <2>1, <2>2 DEF PlaceOK
<1>5. CASE \/ FindUnsettled \/ CompareUnplaceable \/ CompareOtherNames \/ SeeNotPending \/ GiveUp
           \/ SeeFailed \/ RequestRefused \/ CannotPlace \/ CannotTag \/ CannotDelete
  <2>1. op # "none"
    BY <1>5 DEF PlaceOK, FindUnsettled, CompareUnplaceable, CompareOtherNames, Comparable,
                SeeNotPending, GiveUp, Waits, SeeFailed, RequestRefused, CannotPlace, CannotTag,
                CannotDelete
  <2>2. Error
    BY <1>5 DEF FindUnsettled, CompareUnplaceable, CompareOtherNames, SeeNotPending, GiveUp,
                SeeFailed, RequestRefused, CannotPlace, CannotTag, CannotDelete
  <2> QED
    BY <2>1, <2>2 DEF PlaceOK, Error, End, acm
<1>6. ASSUME Success, op # "none",
             who = Focus /\ ~ touched => Condition = IF op = "apply" THEN "matching" ELSE "absent"
      PROVE  /\ op \in {"apply", "destroy"} /\ UNCHANGED <<cn, who, certs>>
             /\ Success
             /\ who = Focus /\ ~ touched =>
                    Condition = IF op = "apply" THEN "matching" ELSE "absent"
  BY <1>6 DEF Success, End, acm, PlaceOK
<1>7. CASE FindNone /\ op = "destroy"
  <2>1. Success /\ Own(who) = {}
    BY <1>7 DEF FindNone
  <2>2. who = Focus => Condition = "absent"
    BY <2>1, OwnNone, ConditionFacts
  <2> QED
    BY <1>6, <1>7, <2>1, <2>2
<1>8. CASE CompareSame
  <2>1. /\ Success /\ op = "apply" /\ on \in Live /\ certs[on].id = who
        /\ certs[on].names = Names(who)
    BY <1>8 DEF CompareSame, Comparable, Gone, Cert, PlaceOK
  <2>2. who = Focus => Condition = "matching"
    BY <2>1, ConditionFacts DEF HeldOK
  <2> QED
    BY <1>6, <2>1, <2>2
<1>9. CASE (SeeIssued /\ ~ retag) \/ (Done /\ op = "apply")
  <2>1. Success /\ op = "apply" /\ pc \in {"validated", "done"} /\ on # NoArn
    BY <1>9 DEF SeeIssued, Done, PlaceOK, Writing
  <2>2. ~ touched => on \in Live /\ certs[on].id = who /\ certs[on].names = Names(who)
    BY <1>9, <2>1 DEF UntouchedOK, Writing, SeeIssued, Done
  <2>3. who = Focus /\ ~ touched => Condition = "matching"
    BY <2>2, ConditionFacts DEF HeldOK
  <2> QED
    BY <1>6, <2>1, <2>3
<1>10. CASE DescribeGone
  <2>1. Success /\ op = "destroy" /\ on # NoArn /\ on \notin Live /\ pc = "describe"
    BY <1>10, ArnsType DEF DescribeGone, Gone, PlaceOK
  <2>2. touched
    BY <2>1 DEF UntouchedOK
  <2> QED
    BY <1>6, <2>1, <2>2
<1>11. CASE Done /\ op # "apply"
  <2>1. Success /\ op = "destroy" /\ pc = "done"
    BY <1>11 DEF Done, PlaceOK
  <2>2. who = Focus => Condition = "absent"
    BY <2>1, ConditionFacts DEF HeldOK
  <2> QED
    BY <1>6, <2>1, <2>2
<1> QED
  BY <1>1, <1>2, <1>3, <1>4, <1>5, <1>6, <1>7, <1>8, <1>9, <1>10, <1>11
     DEF Progress, Find, Compare, Wait, Write, Remove

\* Where the calls of a run may leave its certificates.
LEMMA RunReaches ==
  ASSUME CertInv, who = Focus, op \in {"apply", "destroy"}, UNCHANGED cn,
         UNCHANGED certs \/ (\E a : Asks(a) /\ pc = "request") \/ Tags \/ Deletes
  PROVE  Condition' \in Promise!Reachable(op)
<1> PlaceOK
  BY DEF CertInv
<1>1. Promise!Reachable(op) =
          IF op = "apply"
          THEN IF Condition = "absent" THEN {"absent", "drifted", "matching"}
               ELSE {"drifted", "matching"}
          ELSE IF Condition = "absent" THEN {"absent"} ELSE {Condition, "drifted", "absent"}
  BY DEF Promise!Reachable, Promise!Conditions
<1>2. Names(Focus)' = Names(Focus)
  BY DEF Names
<1>3. CASE UNCHANGED certs
  <2>1. Live' = Live
    BY <1>3 DEF Live
  <2>2. Condition' = Condition
    BY <1>2, <1>3, <2>1 DEF Condition, Tagged
  <2> QED
    BY <1>1, <2>2, ConditionFacts
<1>4. CASE \E a : Asks(a) /\ pc = "request"
  <2>1. PICK a : Asks(a) /\ pc = "request"
    BY <1>4
  <2>2. op = "apply" /\ a \in Live' /\ certs'[a].id = Focus
    BY <2>1, AskedFacts DEF PlaceOK, Live
  <2> QED
    BY <1>1, <2>2, ConditionFacts
<1>5. CASE Tags
  <2>1. op = "apply" /\ on \in Live' /\ certs'[on].id = Focus
    BY <1>5, TaggedFacts DEF PlaceOK, Tags, Writing
  <2> QED
    BY <1>1, <2>1, ConditionFacts
<1>6. CASE Deletes
  <2>1. op = "destroy" /\ Live' = Live \ {on} /\ \A b \in Live' : certs'[b] = certs[b]
    BY <1>6, DeletedFacts DEF PlaceOK, Deletes, Live
  <2>2. Condition = "absent" => Condition' = "absent"
    BY <2>1, ConditionFacts
  <2>3. Condition' = "matching" => Condition = "matching"
    BY <1>2, <2>1, ConditionFacts
  <2> QED
    BY <1>1, <2>1, <2>2, <2>3, ConditionFacts
<1> QED
  BY <1>3, <1>4, <1>5, <1>6

LEMMA StepKeepsContract ==
  ASSUME CertInv, [Next]_vars, Focus \notin Renamed
  PROVE  [Promise!Next]_(Promise!contract)
<1> /\ ShapeOK /\ PlaceOK
  BY DEF CertInv
<1>1. ASSUME Kept, ShapeOK', UNCHANGED <<cn, op, who, touched, result>>
      PROVE  UNCHANGED Promise!contract
  <2>1. Live' = Live /\ Names(Focus)' = Names(Focus)
    BY <1>1, KeptFacts DEF Names
  <2>2. Condition' = Condition
    BY <1>1, <2>1, ConditionFacts DEF Kept, Live
  <2> QED
    BY <1>1, <2>2 DEF Promise!contract, Mine
<1>2. ASSUME NEW operation \in {"apply", "destroy"}, NEW r \in Resources, Begin(operation, r)
      PROVE  Promise!Next
  <2>1. /\ op = "none" /\ op' = operation /\ who' = r /\ touched' = FALSE /\ result' = "none"
        /\ UNCHANGED <<certs, cn>>
    BY <1>2 DEF Begin, acm
  <2>2. Live' = Live /\ Names(Focus)' = Names(Focus)
    BY <2>1 DEF Live, Names
  <2>3. Condition' = Condition
    BY <2>1, <2>2 DEF Condition, Tagged
  <2>4. CASE r = Focus
    <3>1. Promise!Begin(operation)
      BY <2>1, <2>3, <2>4 DEF Promise!Begin, Mine
    <3> QED
      BY <3>1 DEF Promise!Next
  <2>5. CASE r # Focus
    <3>1. Promise!Disturb
      BY <2>1, <2>5, ConditionFacts DEF Promise!Disturb, Promise!Conditions, Mine
    <3> QED
      BY <3>1 DEF Promise!Next
  <2> QED
    BY <2>4, <2>5
<1>3. CASE Disturb
  <2>1. UNCHANGED <<op, who>> /\ touched' = (op # "none") /\ result' = "none"
    BY <1>3 DEF Disturb, Others, run
  <2>2. Promise!Disturb
    BY <2>1, ConditionFacts, NamesType DEF Promise!Disturb, Promise!Conditions, Mine
  <2> QED
    BY <2>2 DEF Promise!Next
<1>4. CASE (Progress \/ Fail) /\ who # Focus
  <2>1. UNCHANGED who
    BY <1>4, RunSteps
  <2>2. Promise!Disturb
    BY <1>4, <2>1, ConditionFacts DEF Promise!Disturb, Promise!Conditions, Mine
  <2> QED
    BY <2>2 DEF Promise!Next
<1>5. CASE (Progress \/ Fail) /\ who = Focus
  <2>1. /\ op \in {"apply", "destroy"} /\ UNCHANGED <<cn, who>>
        /\ UNCHANGED certs \/ (\E a : Asks(a) /\ pc = "request") \/ Tags \/ Deletes
        /\ \/ Onward
           \/ End("error")
           \/ /\ Success
              /\ ~ touched => Condition = IF op = "apply" THEN "matching" ELSE "absent"
    BY <1>5, RunSteps
  <2>2. Condition' \in Promise!Reachable(op)
    BY <1>5, <2>1, RunReaches
  <2>3. CASE Onward
    <3>1. Promise!Work
      BY <1>5, <2>1, <2>2, <2>3 DEF Promise!Work, Onward, Mine
    <3> QED
      BY <3>1 DEF Promise!Next
  <2>4. CASE End("error")
    <3>1. Promise!Fail
      BY <1>5, <2>1, <2>2, <2>4 DEF Promise!Fail, End, Mine
    <3> QED
      BY <3>1 DEF Promise!Next
  <2>5. CASE /\ Success
             /\ ~ touched => Condition = IF op = "apply" THEN "matching" ELSE "absent"
    <3>1. UNCHANGED certs /\ End(IF touched THEN "none" ELSE op)
      BY <2>5 DEF Success, acm
    <3>2. Live' = Live /\ Names(Focus)' = Names(Focus)
      BY <2>1, <3>1 DEF Live, Names
    <3>3. Condition' = Condition
      BY <2>1, <3>1, <3>2 DEF Condition, Tagged
    <3>4. ~ touched => Condition' = Promise!Goal(op)
      BY <2>1, <2>5, <3>3 DEF Promise!Goal
    <3>5. Promise!Succeed
      BY <1>5, <2>1, <2>2, <3>1, <3>4 DEF Promise!Succeed, End, Mine
    <3> QED
      BY <3>5 DEF Promise!Next
  <2> QED
    BY <2>1, <2>3, <2>4, <2>5
<1>6. CASE Validate \/ \E a \in Arns : Acm(Lapse(a))
  <2>1. PICK a \in Arns : Acm(Offer(a)) \/ Acm(Issue(a)) \/ Acm(Lapse(a))
    BY <1>6 DEF Validate
  <2>2. Kept /\ ShapeOK' /\ UNCHANGED <<cn, op, who, touched, result>>
    BY <2>1, AcmStep DEF CertInv, Acm, run
  <2> QED
    BY <1>1, <2>2
<1>7. CASE UNCHANGED vars
  <2>1. Kept /\ UNCHANGED <<cn, op, who, touched, result, certs, on>>
    BY <1>7 DEF vars, run, acm, Kept
  <2>2. ShapeOK'
    BY <2>1 DEF ShapeOK
  <2> QED
    BY <1>1, <2>1, <2>2
<1> QED
  BY <1>2, <1>3, <1>4, <1>5, <1>6, <1>7 DEF Next, Apply, Destroy

\* Certificate keeps the contract the graph walks rely on, as long as nobody changes the
\* domain of the resource: an apply never leaves it without a certificate, success means
\* one that is its own and has its names, or none after a destroy.
THEOREM KeepsContract ==
  ASSUME Focus \notin Renamed
  PROVE  FairSpec => ImplementsContract
<1>1. Init => Promise!Init
  BY ConditionFacts DEF Init, Promise!Init, Promise!Conditions, Mine
<1>2. CertInv /\ [Next]_vars => [Promise!Next]_(Promise!contract)
  BY StepKeepsContract
<1> QED
  BY <1>1, <1>2, CertificatesInvariant, PTL DEF FairSpec, Spec, ImplementsContract, Promise!Contract

-----------------------------------------------------------------------------
(* What Route 53 lists *)

\* A name has at most one set of each type and identifier.
SlotsOf(S) == IsFiniteSet(S) /\ S \subseteq Sets /\ \A s, t \in S : SameSlot(s, t) => s = t

LEMMA PlaceFacts ==
  ASSUME NEW q, q \in Seq(Range(q)), IsInjective(q), NEW x \in Range(q), NEW y \in Range(q)
  PROVE  /\ PlaceIn(x, q) \in Nat
         /\ PlaceIn(x, q) = PlaceIn(y, q) => x = y
<1>1. /\ PlaceIn(x, q) \in DOMAIN q /\ q[PlaceIn(x, q)] = x
      /\ PlaceIn(y, q) \in DOMAIN q /\ q[PlaceIn(y, q)] = y
  BY DEF PlaceIn, Range
<1>2. DOMAIN q \subseteq Nat
  OBVIOUS
<1> QED
  BY <1>1, <1>2

\* Two sets of one name are listed one before the other.
LEMMA ListedFacts ==
  ASSUME NEW s \in Sets, NEW t \in Sets, NEW u \in Sets
  PROVE  /\ ~ ListedBefore(s, s)
         /\ ListedBefore(s, t) /\ ListedBefore(t, u) => ListedBefore(s, u)
         /\ SameSlot(s, t) \/ ListedBefore(s, t) \/ ListedBefore(t, s)
<1> DEFINE ty(x) == PlaceIn(x.type, Types)
           id(x) == PlaceIn(x.id, Ids)
<1>1. /\ ty(s) \in Nat /\ ty(t) \in Nat /\ ty(u) \in Nat
      /\ id(s) \in Nat /\ id(t) \in Nat /\ id(u) \in Nat
  BY PlaceFacts, OrdersType DEF Sets
<1>2. /\ ty(s) = ty(t) => s.type = t.type
      /\ ty(t) = ty(u) => t.type = u.type
      /\ ty(s) = ty(u) => s.type = u.type
      /\ id(s) = id(t) => s.id = t.id
  BY PlaceFacts, OrdersType DEF Sets
<1>3. /\ s.type = t.type => ty(s) = ty(t)
      /\ t.type = u.type => ty(t) = ty(u)
      /\ s.type = u.type => ty(s) = ty(u)
  OBVIOUS
<1>4. \A x, y : ListedBefore(x, y) <=> (IF x.type = y.type THEN id(x) < id(y) ELSE ty(x) < ty(y))
  BY DEF ListedBefore
<1> HIDE DEF ty, id
<1> QED
  BY <1>1, <1>2, <1>3, <1>4 DEF SameSlot

\* The listing of the sets of a name holds each of them: as many as there are, and
\* nothing else.
LEMMA ListingFacts ==
  ASSUME NEW S, SlotsOf(S)
  PROVE  /\ Listing(S) \in Seq(S)
         /\ Len(Listing(S)) = Cardinality(S)
         /\ S # {} => Listing(S) # << >> /\ Listing(S)[1] \in S
         /\ S = {} => Listing(S) = << >>
<1> DEFINE n == Cardinality(S)
           before(s) == {t \in S : ListedBefore(t, s)}
           rank == [s \in S |-> Cardinality(before(s)) + 1]
<1>1. n \in Nat /\ IsFiniteSet(S) /\ S \subseteq Sets
  BY FS_CardinalityType DEF SlotsOf
<1>2. ASSUME NEW s \in S
      PROVE  IsFiniteSet(before(s)) /\ Cardinality(before(s)) \in 0 .. n - 1
  <2>1. before(s) \in SUBSET S /\ s \notin before(s)
    BY <1>1, <1>2, ListedFacts
  <2>2. /\ IsFiniteSet(before(s)) /\ Cardinality(before(s)) <= n
        /\ n = Cardinality(before(s)) => before(s) = S
    <3> HIDE DEF before
    <3> QED
      BY <1>1, <2>1, FS_Subset
  <2>3. Cardinality(before(s)) \in Nat
    BY <2>2, FS_CardinalityType
  <2> HIDE DEF before, n
  <2> QED
    BY <1>1, <1>2, <2>1, <2>2, <2>3
<1>3. ASSUME NEW s \in S, NEW t \in S, ListedBefore(s, t)
      PROVE  Cardinality(before(s)) # Cardinality(before(t))
  <2>1. before(s) \in SUBSET before(t) /\ s \in before(t) /\ s \notin before(s)
    BY <1>1, <1>3, ListedFacts
  <2>2. IsFiniteSet(before(t))
    BY <1>2
  <2> HIDE DEF before
  <2> QED
    BY <2>1, <2>2, FS_Subset
<1>4. rank \in [S -> 1 .. n]
  <2>1. \A s \in S : Cardinality(before(s)) + 1 \in 1 .. n
    <3> HIDE DEF before, n
    <3> QED
      BY <1>1, <1>2
  <2> HIDE DEF before, n
  <2> QED
    BY <2>1
<1>5. rank \in Injection(S, 1 .. n)
  <2>1. ASSUME NEW s \in S, NEW t \in S, s # t
        PROVE  rank[s] # rank[t]
    <3>1. ListedBefore(s, t) \/ ListedBefore(t, s)
      BY <1>1, <2>1, ListedFacts DEF SlotsOf
    <3>2. Cardinality(before(s)) # Cardinality(before(t))
      BY <1>3, <2>1, <3>1
    <3>3. Cardinality(before(s)) \in Int /\ Cardinality(before(t)) \in Int
      BY <1>2
    <3> HIDE DEF before
    <3> QED
      BY <3>2, <3>3
  <2> HIDE DEF rank
  <2> QED
    BY <1>4, <2>1 DEF Injection, IsInjective
<1>6. rank \in Surjection(S, 1 .. n)
  <2>1. IsFiniteSet(1 .. n) /\ Cardinality(1 .. n) = n
    BY <1>1, FS_Interval
  <2> HIDE DEF rank
  <2> QED
    BY <1>5, <2>1, FS_Injection
<1>7. ASSUME NEW i \in 1 .. n
      PROVE  Listing(S)[i] \in S
  <2>1. PICK s \in S : rank[s] = i
    <3> HIDE DEF rank, n
    <3> QED
      BY <1>6, <1>7 DEF Surjection
  <2>2. Cardinality(before(s)) = i - 1
    <3>1. Cardinality(before(s)) \in Int
      BY <1>2
    <3> HIDE DEF before
    <3> QED
      BY <1>1, <2>1, <3>1
  <2>3. Listing(S)[i] = CHOOSE t \in S : Cardinality(before(t)) = i - 1
    BY DEF Listing
  <2> HIDE DEF before
  <2> QED
    BY <2>2, <2>3
<1>8. Listing(S) = [i \in 1 .. n |-> Listing(S)[i]]
  <2> DEFINE at(i) == CHOOSE s \in S : Cardinality(before(s)) = i - 1
  <2>1. Listing(S) = [i \in 1 .. n |-> at(i)]
    BY DEF Listing
  <2> HIDE DEF at, n
  <2> QED
    BY <2>1
<1>9. Listing(S) \in [1 .. n -> S]
  <2> HIDE DEF n
  <2> QED
    BY <1>7, <1>8
<1>10. n = 0 <=> S = {}
  BY <1>1, FS_EmptySet
<1> HIDE DEF n
<1>11. Listing(S) \in Seq(S) /\ Len(Listing(S)) = n
  BY <1>1, <1>9
<1> QED
  BY <1>1, <1>7, <1>10, <1>11 DEF n

-----------------------------------------------------------------------------
(* The calls of an operation on a record *)

RecordCalls == [do : {"resolve", "put", "delete"}, set : Sets]

\* fetchExisting finds something wherever the name has a set of the record's own, and
\* for a weighted record no other weighted one.
LEMMA FetchFacts ==
  ASSUME SlotsOf(sets), NEW w \in Sets
  PROVE  /\ Fetch(w) \in Seq(sets)
         /\ Fetch(w) # << >> => Fetch(w)[1] \in sets
         /\ Fetch(w) = << >> => \A s \in sets : ~ SameSlot(s, w)
         /\ w.id # Simple => \A i \in DOMAIN Fetch(w) : Fetch(w)[i].id \in {Simple, w.id}
<1> DEFINE named == {s \in sets : s.id = w.id}
           alone == Cardinality(sets) = 1 /\ \A s \in sets : s.id = Simple
<1>1. CASE w.id = Simple \/ alone
  <2>1. Fetch(w) = Listing(sets)
    BY <1>1 DEF Fetch
  <2>2. Fetch(w) \in Seq(sets)
    BY <2>1, ListingFacts
  <2>3. alone => \A i \in DOMAIN Fetch(w) : Fetch(w)[i].id = Simple
    BY <2>2
  <2> HIDE DEF alone
  <2> QED
    BY <1>1, <2>1, <2>2, <2>3, ListingFacts
<1>2. CASE ~ (w.id = Simple \/ alone)
  <2>1. Fetch(w) = IF named = {} THEN << >> ELSE <<Listing(named)[1]>>
    BY <1>2 DEF Fetch
  <2>2. SlotsOf(named)
    BY FS_Subset DEF SlotsOf
  <2>3. named # {} => Listing(named)[1] \in named
    BY <2>2, ListingFacts
  <2>4. CASE named = {}
    <3>1. Fetch(w) = << >>
      BY <2>1, <2>4
    <3> QED
      BY <2>4, <3>1 DEF SameSlot
  <2>5. CASE named # {}
    <3>1. PICK s \in named : Fetch(w) = <<s>>
      BY <2>1, <2>3, <2>5
    <3> QED
      BY <3>1
  <2> QED
    BY <2>4, <2>5
<1> QED
  BY <1>1, <1>2

\* What one sequence of calls after another is made of.
LEMMA JoinedFacts ==
  ASSUME NEW p \in Seq(RecordCalls), NEW q \in Seq(RecordCalls)
  PROVE  /\ p \o q \in Seq(RecordCalls)
         /\ \A i \in DOMAIN (p \o q) :
                \/ \E j \in DOMAIN p : (p \o q)[i] = p[j]
                \/ \E j \in DOMAIN q : (p \o q)[i] = q[j]
         /\ q # << >> => p \o q # << >> /\ (p \o q)[Len(p \o q)] = q[Len(q)]
OBVIOUS

LEMMA ResolvedFacts ==
  ASSUME NEW w \in Sets
  PROVE  /\ Resolved(w) \in Seq(RecordCalls)
         /\ \A i \in DOMAIN Resolved(w) : Resolved(w)[i] = Do("resolve", w)
<1>1. Do("resolve", w) \in RecordCalls
  BY DEF Do, RecordCalls
<1>2. CASE Resolved(w) = << >>
  BY <1>2
<1>3. CASE Resolved(w) = <<Do("resolve", w)>>
  BY <1>1, <1>3
<1> QED
  BY <1>2, <1>3 DEF Resolved

\* To put a record ends with the put; before it the target of an alias is looked up.
LEMMA PutFacts ==
  ASSUME NEW w \in Sets
  PROVE  /\ Put(w) \in Seq(RecordCalls)
         /\ \A i \in DOMAIN Put(w) : Put(w)[i] \in {Do("resolve", w), Do("put", w)}
         /\ Put(w) # << >> /\ Put(w)[Len(Put(w))] = Do("put", w)
<1> Do("put", w) \in RecordCalls
  BY DEF Do, RecordCalls
<1> QED
  BY ResolvedFacts DEF Put

LEMMA ComparedFacts ==
  ASSUME NEW w \in Sets, NEW first
  PROVE  /\ Compared(w, first) \in Seq(RecordCalls)
         /\ \A i \in DOMAIN Compared(w, first) : Compared(w, first)[i] = Do("resolve", w)
BY ResolvedFacts DEF Compared

LEMMA DeletionsFacts ==
  ASSUME NEW f \in Seq(Sets)
  PROVE  /\ Deletions(f) \in Seq(RecordCalls)
         /\ DOMAIN Deletions(f) = DOMAIN f
         /\ \A i \in DOMAIN f : Deletions(f)[i] = Do("delete", f[i])
<1>1. \A i \in DOMAIN f : Do("delete", f[i]) \in RecordCalls
  BY DEF Do, RecordCalls
<1>2. Deletions(f) = [i \in 1 .. Len(f) |-> Do("delete", f[i])]
  BY DEF Deletions
<1> QED
  BY <1>1, <1>2

ApplyCalls(w) == IF Fetch(w) = << >> THEN Creation(w) ELSE Update(w, Fetch(w))

\* An apply deletes only what it has found, and only where that has another type or
\* policy; its last call puts the record, unless that is there as it should be.
LEMMA ApplyFacts ==
  ASSUME SlotsOf(sets), NEW w \in Sets
  PROVE  /\ ApplyCalls(w) \in Seq(RecordCalls)
         /\ \A i \in DOMAIN ApplyCalls(w) :
                \/ ApplyCalls(w)[i] \in {Do("resolve", w), Do("put", w)}
                \/ /\ Replaced(w, Fetch(w)[1])
                   /\ \E j \in DOMAIN Fetch(w) : ApplyCalls(w)[i] = Do("delete", Fetch(w)[j])
         /\ \/ /\ ApplyCalls(w) # << >>
               /\ ApplyCalls(w)[Len(ApplyCalls(w))] = Do("put", w)
            \/ w \in sets /\ \A i \in DOMAIN ApplyCalls(w) : ApplyCalls(w)[i] = Do("resolve", w)
<1> DEFINE f     == Fetch(w)
           first == f[1]
<1>1. f \in Seq(sets) /\ f \in Seq(Sets) /\ (f # << >> => first \in sets)
  <2>1. sets \subseteq Sets
    BY DEF SlotsOf
  <2> QED
    BY <2>1, FetchFacts
<1>2. CASE f = << >>
  <2>1. ApplyCalls(w) = Put(w)
    BY <1>2 DEF ApplyCalls, Creation
  <2> QED
    BY <2>1, PutFacts
<1>3. CASE f # << >> /\ Replaced(w, first)
  <2>1. ApplyCalls(w) = Deletions(f) \o Put(w)
    BY <1>3 DEF ApplyCalls, Update
  <2>2. Deletions(f) \in Seq(RecordCalls) /\ Put(w) \in Seq(RecordCalls)
    BY <1>1, PutFacts, DeletionsFacts
  <2>3. /\ ApplyCalls(w) \in Seq(RecordCalls)
        /\ ApplyCalls(w) # << >> /\ ApplyCalls(w)[Len(ApplyCalls(w))] = Do("put", w)
    BY <2>1, <2>2, JoinedFacts, PutFacts
  <2>4. ASSUME NEW i \in DOMAIN ApplyCalls(w)
        PROVE  \/ \E j \in DOMAIN Deletions(f) : ApplyCalls(w)[i] = Deletions(f)[j]
               \/ \E j \in DOMAIN Put(w) : ApplyCalls(w)[i] = Put(w)[j]
    BY <2>1, <2>2, <2>4, JoinedFacts
  <2>5. ASSUME NEW i \in DOMAIN ApplyCalls(w)
        PROVE  \/ ApplyCalls(w)[i] \in {Do("resolve", w), Do("put", w)}
               \/ \E j \in DOMAIN f : ApplyCalls(w)[i] = Do("delete", f[j])
    <3> HIDE DEF f
    <3> QED
      BY <1>1, <2>4, <2>5, PutFacts, DeletionsFacts
  <2> QED
    BY <1>3, <2>3, <2>5
<1>4. CASE f # << >> /\ ~ Replaced(w, first) /\ w # first
  <2>1. ApplyCalls(w) = Compared(w, first) \o Put(w)
    BY <1>4 DEF ApplyCalls, Update
  <2>2. Compared(w, first) \in Seq(RecordCalls) /\ Put(w) \in Seq(RecordCalls)
    BY ComparedFacts, PutFacts
  <2>3. /\ ApplyCalls(w) \in Seq(RecordCalls)
        /\ ApplyCalls(w) # << >> /\ ApplyCalls(w)[Len(ApplyCalls(w))] = Do("put", w)
    BY <2>1, <2>2, JoinedFacts, PutFacts
  <2>4. ASSUME NEW i \in DOMAIN ApplyCalls(w)
        PROVE  \/ \E j \in DOMAIN Compared(w, first) : ApplyCalls(w)[i] = Compared(w, first)[j]
               \/ \E j \in DOMAIN Put(w) : ApplyCalls(w)[i] = Put(w)[j]
    <3> DEFINE p == Compared(w, first)
    <3> HIDE DEF p
    <3>1. ApplyCalls(w) = p \o Put(w) /\ p \in Seq(RecordCalls)
      BY <2>1, <2>2 DEF p
    <3>2. \/ \E j \in DOMAIN p : ApplyCalls(w)[i] = p[j]
          \/ \E j \in DOMAIN Put(w) : ApplyCalls(w)[i] = Put(w)[j]
      BY <2>2, <2>4, <3>1, JoinedFacts
    <3> QED
      BY <3>2 DEF p
  <2>5. ASSUME NEW i \in DOMAIN ApplyCalls(w)
        PROVE  ApplyCalls(w)[i] \in {Do("resolve", w), Do("put", w)}
    BY <2>4, <2>5, ComparedFacts, PutFacts
  <2> QED
    BY <2>3, <2>5
<1>5. CASE f # << >> /\ ~ Replaced(w, first) /\ w = first
  <2>1. ApplyCalls(w) = Compared(w, first) \o << >>
    BY <1>5 DEF ApplyCalls, Update
  <2>2. Compared(w, first) \o << >> = Compared(w, first)
    BY ComparedFacts
  <2> HIDE DEF f
  <2>3. /\ ApplyCalls(w) \in Seq(RecordCalls)
        /\ \A i \in DOMAIN ApplyCalls(w) : ApplyCalls(w)[i] = Do("resolve", w)
    BY <2>1, <2>2, ComparedFacts
  <2> QED
    BY <1>1, <1>5, <2>3 DEF f
<1> QED
  BY <1>2, <1>3, <1>4, <1>5

-----------------------------------------------------------------------------
(* The invariant of the operations on records *)

RecordsTyped ==
    /\ want \in Definitions /\ whose \in DOMAIN want
    /\ doing \in {"none", "apply", "destroy"} /\ todo \in Seq(RecordCalls)
    /\ blind \in BOOLEAN /\ tampered \in BOOLEAN
    /\ doing = "none" => todo = << >> /\ ~ blind /\ ~ tampered
    /\ doing # "none" => ended = "none"

\* What the calls of an operation on w may do: put w, and delete sets of no other
\* weighted record; those of an apply, unless it has missed w, none in the place of w.
CallsFor(w, operation, missed, q) ==
    \A i \in DOMAIN q :
        /\ q[i].do = "put" => operation = "apply" /\ q[i].set = w
        /\ operation = "apply" /\ ~ missed /\ q[i].do = "delete" =>
               ~ SameSlot(q[i].set, w)
        /\ w.id # Simple => q[i].set.id \in {Simple, w.id}

\* What is left of an apply still puts w unless w is there; what is left of a destroy
\* deletes what is in the place of w.
ApplyLeads(S, w, q) ==
    \/ q # << >> /\ q[Len(q)] = Do("put", w)
    \/ w \in S /\ \A i \in DOMAIN q : q[i].do = "resolve"

DestroyLeads(S, w, q) ==
    \A s \in S : SameSlot(s, w) => \E i \in DOMAIN q : q[i] = Do("delete", s)

LeadsThere(S, w, operation, q) ==
    /\ operation = "apply" => ApplyLeads(S, w, q)
    /\ operation = "destroy" => DestroyLeads(S, w, q)

RecordsInv ==
    /\ RecordsTyped /\ SlotsOf(sets)
    /\ CallsFor(want[whose], doing, blind, todo)
    /\ ~ blind /\ ~ tampered => LeadsThere(sets, want[whose], doing, todo)

LEMMA InitRecords == RecordsInit => RecordsInv
<1> SUFFICES ASSUME RecordsInit
             PROVE  RecordsInv
  OBVIOUS
<1>1. SlotsOf(sets)
  <2>1. sets = {} \/ sets = ApexSets
    BY DEF RecordsInit
  <2>2. SlotsOf({})
    BY FS_EmptySet DEF SlotsOf
  <2>3. SlotsOf(ApexSets)
    BY SetsType DEF SlotsOf, SameSlot
  <2> QED
    BY <2>1, <2>2, <2>3
<1>2. RecordsTyped
  <2>1. << >> \in Seq(RecordCalls)
    OBVIOUS
  <2> QED
    BY <2>1, SpecsType DEF RecordsInit, RecordsTyped
<1> QED
  BY <1>1, <1>2 DEF RecordsInit, RecordsInv, CallsFor, LeadsThere

\* The set a resource asks for.
LEMMA Wanted ==
  ASSUME RecordsTyped, NEW r \in DOMAIN want
  PROVE  want[r] \in Sets
BY SpecsType DEF RecordsTyped

\* The calls of an apply that begins.
LEMMA ApplyBegins ==
  ASSUME RecordsInv, NEW r \in DOMAIN want, ApplyRecord(r)
  PROVE  RecordsInv'
<1> DEFINE w == want[r]
<1> /\ RecordsTyped /\ SlotsOf(sets) /\ w \in Sets
  BY Wanted DEF RecordsInv
<1>1. /\ doing' = "apply" /\ whose' = r /\ todo' = ApplyCalls(w)
      /\ tampered' = FALSE /\ ended' = "none" /\ UNCHANGED <<want, sets>>
      /\ blind' = /\ \E s \in sets : SameSlot(s, w)
                  /\ ~ SameSlot(Fetch(w)[1], w)
  BY DEF ApplyRecord, BeginRecord, ApplyCalls
<1> HIDE DEF w
<1>2. RecordsTyped'
  BY <1>1, ApplyFacts DEF RecordsTyped
<1>3. CallsFor(w, "apply", blind', ApplyCalls(w))
  <2> SUFFICES ASSUME NEW i \in DOMAIN ApplyCalls(w)
               PROVE  /\ ApplyCalls(w)[i].do = "put" => ApplyCalls(w)[i].set = w
                      /\ ~ blind' /\ ApplyCalls(w)[i].do = "delete" =>
                             ~ SameSlot(ApplyCalls(w)[i].set, w)
                      /\ w.id # Simple => ApplyCalls(w)[i].set.id \in {Simple, w.id}
    BY DEF CallsFor
  <2>1. CASE ApplyCalls(w)[i] \in {Do("resolve", w), Do("put", w)}
    BY <2>1 DEF Do
  <2>2. CASE /\ Replaced(w, Fetch(w)[1])
             /\ \E j \in DOMAIN Fetch(w) : ApplyCalls(w)[i] = Do("delete", Fetch(w)[j])
    <3>1. PICK j \in DOMAIN Fetch(w) : ApplyCalls(w)[i] = Do("delete", Fetch(w)[j])
      BY <2>2
    <3>2. Fetch(w)[j] \in sets /\ (w.id # Simple => Fetch(w)[j].id \in {Simple, w.id})
      BY FetchFacts
    <3>3. ~ SameSlot(Fetch(w)[1], w)
      BY <2>2 DEF Replaced, SameSlot
    <3>4. ~ blind' => ~ SameSlot(Fetch(w)[j], w)
      BY <1>1, <3>2, <3>3
    <3> QED
      BY <3>1, <3>2, <3>4 DEF Do
  <2> QED
    BY <2>1, <2>2, ApplyFacts
<1>4. LeadsThere(sets, w, "apply", ApplyCalls(w))
  <2>1. \A i \in DOMAIN ApplyCalls(w) :
            ApplyCalls(w)[i] = Do("resolve", w) => ApplyCalls(w)[i].do = "resolve"
    BY DEF Do
  <2> QED
    BY <2>1, ApplyFacts DEF LeadsThere, ApplyLeads
<1> QED
  BY <1>1, <1>2, <1>3, <1>4 DEF RecordsInv, w

\* A destroy deletes at most the first set it found.
DestroyCalls(w) == IF Fetch(w) = << >> THEN << >> ELSE <<Do("delete", Fetch(w)[1])>>

LEMMA DestroyBegins ==
  ASSUME RecordsInv, NEW r \in DOMAIN want, DestroyRecord(r)
  PROVE  RecordsInv'
<1> DEFINE w == want[r]
<1> /\ RecordsTyped /\ SlotsOf(sets) /\ w \in Sets
  BY Wanted DEF RecordsInv
<1>1. /\ doing' = "destroy" /\ whose' = r /\ todo' = DestroyCalls(w)
      /\ tampered' = FALSE /\ ended' = "none" /\ UNCHANGED <<want, sets>>
      /\ blind' = /\ \E s \in sets : SameSlot(s, w)
                  /\ ~ SameSlot(Fetch(w)[1], w)
  BY DEF DestroyRecord, BeginRecord, DestroyCalls
<1> HIDE DEF w
<1>2. CASE Fetch(w) = << >>
  <2>1. todo' = << >>
    BY <1>1, <1>2 DEF DestroyCalls
  <2>2. RecordsTyped'
    <3>1. << >> \in Seq(RecordCalls)
      OBVIOUS
    <3> QED
      BY <1>1, <2>1, <3>1 DEF RecordsTyped
  <2>3. LeadsThere(sets, w, "destroy", << >>)
    BY <1>2, FetchFacts DEF LeadsThere, DestroyLeads
  <2> QED
    BY <1>1, <2>1, <2>2, <2>3 DEF RecordsInv, CallsFor, w
<1>3. ASSUME Fetch(w) # << >>
      PROVE  RecordsInv'
  <2>1. PICK s \in sets : s = Fetch(w)[1] /\ (w.id # Simple => s.id \in {Simple, w.id})
    BY <1>3, FetchFacts
  <2>2. todo' = <<Do("delete", s)>> /\ s \in Sets
    BY <1>1, <1>3, <2>1 DEF DestroyCalls, SlotsOf
  <2>3. Do("delete", s) \in RecordCalls
    BY <2>2 DEF Do, RecordCalls
  <2>4. todo' \in Seq(RecordCalls)
    BY <2>2, <2>3
  <2>5. RecordsTyped'
    BY <1>1, <2>4 DEF RecordsTyped
  <2>6. CallsFor(w, "destroy", blind', <<Do("delete", s)>>)
    BY <2>1 DEF CallsFor, Do
  <2>7. ~ blind' => LeadsThere(sets, w, "destroy", <<Do("delete", s)>>)
    BY <1>1, <2>1 DEF LeadsThere, DestroyLeads, SlotsOf, SameSlot
  <2> QED
    BY <1>1, <2>2, <2>5, <2>6, <2>7 DEF RecordsInv, w
<1> QED
  BY <1>2, <1>3

\* What a call does to the sets of the name.
LEMMA UpsertSlots ==
  ASSUME SlotsOf(sets), NEW s \in Sets
  PROVE  SlotsOf(Upserted(s)) /\ s \in Upserted(s)
<1> DEFINE others == {t \in sets : ~ SameSlot(s, t)}
<1>1. IsFiniteSet(others) /\ others \in SUBSET Sets
  BY FS_Subset DEF SlotsOf
<1>2. IsFiniteSet(others \cup {s})
  <2> HIDE DEF others
  <2> QED
    BY <1>1, FS_AddElement
<1> QED
  BY <1>1, <1>2 DEF Upserted, SlotsOf, SameSlot

LEMMA FewerSlots ==
  ASSUME NEW S, NEW T \in SUBSET S, SlotsOf(S)
  PROVE  SlotsOf(T)
BY FS_Subset DEF SlotsOf

LEMMA EffectSlots ==
  ASSUME SlotsOf(sets), NEW c \in RecordCalls
  PROVE  SlotsOf(Effect(c))
<1>1. c.do \in {"resolve", "put", "delete"} /\ c.set \in Sets
  BY DEF RecordCalls
<1>2. CASE c.do = "delete"
  BY <1>2, FewerSlots DEF Effect
<1> QED
  BY <1>1, <1>2, UpsertSlots DEF Effect

LEMMA FirstAndRest ==
  ASSUME NEW q \in Seq(RecordCalls), q # << >>
  PROVE  /\ Head(q) \in RecordCalls /\ Head(q) = q[1] /\ 1 \in DOMAIN q
         /\ Tail(q) \in Seq(RecordCalls)
         /\ \A i \in DOMAIN Tail(q) : i + 1 \in DOMAIN q /\ Tail(q)[i] = q[i + 1]
         /\ \A i \in DOMAIN q : i = 1 \/ (i - 1 \in DOMAIN Tail(q) /\ Tail(q)[i - 1] = q[i])
         /\ Tail(q) # << >> => Tail(q)[Len(Tail(q))] = q[Len(q)]
         /\ Tail(q) = << >> => q[Len(q)] = q[1]
OBVIOUS

LEMMA CallMade ==
  ASSUME RecordsInv, MakeCall
  PROVE  RecordsInv'
<1> DEFINE w == want[whose]
           c == Head(todo)
<1> /\ RecordsTyped /\ SlotsOf(sets) /\ w \in Sets
    /\ todo \in Seq(RecordCalls) /\ todo # << >>
    /\ CallsFor(w, doing, blind, todo)
    /\ ~ blind /\ ~ tampered => LeadsThere(sets, w, doing, todo)
  BY Wanted DEF RecordsInv, RecordsTyped, MakeCall
<1>1. /\ sets' = Effect(c) /\ todo' = Tail(todo)
      /\ UNCHANGED <<want, doing, whose, blind, tampered, ended>>
  BY DEF MakeCall
<1>2. /\ c \in RecordCalls /\ 1 \in DOMAIN todo /\ c = todo[1] /\ doing # "none"
      /\ c.do \in {"resolve", "put", "delete"} /\ c.set \in Sets
  BY FirstAndRest DEF RecordsTyped, RecordCalls
<1> HIDE DEF w, c
<1>3. RecordsTyped'
  BY <1>1, <1>2, FirstAndRest DEF RecordsTyped
<1>4. SlotsOf(sets')
  BY <1>1, <1>2, EffectSlots
<1>5. CallsFor(w, doing, blind, Tail(todo))
  BY FirstAndRest DEF CallsFor
<1>6. ASSUME doing = "apply", ~ blind, ~ tampered
      PROVE  ApplyLeads(Effect(c), w, Tail(todo))
  <2>1. ApplyLeads(sets, w, todo)
    BY <1>6 DEF LeadsThere
  <2>2. CASE todo[Len(todo)] = Do("put", w)
    <3>1. CASE Tail(todo) = << >>
      <4>1. c = Do("put", w)
        BY <1>2, <2>2, <3>1, FirstAndRest
      <4>2. w \in Effect(c)
        BY <4>1, UpsertSlots DEF Effect, Do
      <4> QED
        BY <3>1, <4>2 DEF ApplyLeads
    <3>2. CASE Tail(todo) # << >>
      BY <2>2, <3>2, FirstAndRest DEF ApplyLeads
    <3> QED
      BY <3>1, <3>2
  <2>3. CASE w \in sets /\ \A i \in DOMAIN todo : todo[i].do = "resolve"
    <3>1. Effect(c) = sets
      BY <1>2, <2>3 DEF Effect
    <3> QED
      BY <2>3, <3>1, FirstAndRest DEF ApplyLeads
  <2> QED
    BY <2>1, <2>2, <2>3 DEF ApplyLeads
<1>7. ASSUME doing = "destroy", ~ blind, ~ tampered
      PROVE  DestroyLeads(Effect(c), w, Tail(todo))
  <2>1. DestroyLeads(sets, w, todo)
    BY <1>7 DEF LeadsThere
  <2>2. c.do # "put"
    BY <1>2, <1>7 DEF CallsFor
  <2>3. Effect(c) \subseteq sets /\ (c.do = "delete" => c.set \notin Effect(c))
    BY <1>2, <2>2 DEF Effect
  <2> SUFFICES ASSUME NEW s \in Effect(c), SameSlot(s, w)
               PROVE  \E i \in DOMAIN Tail(todo) : Tail(todo)[i] = Do("delete", s)
    BY DEF DestroyLeads
  <2>4. PICK i \in DOMAIN todo : todo[i] = Do("delete", s)
    BY <2>1, <2>3 DEF DestroyLeads
  <2>5. i # 1
    BY <1>2, <2>3, <2>4 DEF Do
  <2>6. i - 1 \in DOMAIN Tail(todo) /\ Tail(todo)[i - 1] = todo[i]
    BY <2>5, FirstAndRest
  <2> QED
    BY <2>4, <2>6
<1>8. ~ blind /\ ~ tampered => LeadsThere(Effect(c), w, doing, Tail(todo))
  BY <1>6, <1>7 DEF LeadsThere
<1> QED
  BY <1>1, <1>3, <1>4, <1>5, <1>8 DEF RecordsInv, w

LEMMA RecordEnds ==
  ASSUME RecordsInv, NEW outcome, EndRecord(outcome), SlotsOf(sets')
  PROVE  RecordsInv'
<1>1. /\ doing' = "none" /\ todo' = << >> /\ blind' = FALSE /\ tampered' = FALSE
      /\ UNCHANGED <<want, whose>>
  BY DEF EndRecord
<1>2. RecordsTyped'
  <2>1. << >> \in Seq(RecordCalls)
    OBVIOUS
  <2> QED
    BY <1>1, <2>1 DEF RecordsInv, RecordsTyped
<1> QED
  BY <1>1, <1>2 DEF RecordsInv, CallsFor, LeadsThere

LEMMA RecordsTampered ==
  ASSUME RecordsInv, DisturbRecords
  PROVE  RecordsInv'
<1>1. /\ tampered' = (doing # "none") /\ ended' = "none"
      /\ UNCHANGED <<want, doing, whose, todo, blind>>
  BY DEF DisturbRecords, OtherPeople, errand
<1>2. SlotsOf(sets')
  <2>1. ASSUME NEW s \in HandSets, PutByHand(s) \/ TakeByHand(s)
        PROVE  SlotsOf(sets')
    BY <2>1, SetsType, UpsertSlots, FewerSlots DEF RecordsInv, PutByHand, TakeByHand
  <2> QED
    BY <2>1 DEF RecordsInv, DisturbRecords, ToggleTargets
<1>3. RecordsTyped'
  BY <1>1 DEF RecordsInv, RecordsTyped
<1>4. ~ tampered' => doing = "none"
  BY <1>1
<1> QED
  BY <1>1, <1>2, <1>3, <1>4 DEF RecordsInv, LeadsThere

LEMMA NextRecords == RecordsInv /\ [RecordsNext]_recordsVars => RecordsInv'
<1> SUFFICES ASSUME RecordsInv, [RecordsNext]_recordsVars
             PROVE  RecordsInv'
  OBVIOUS
<1>1. CASE RecordDone \/ Refused
  BY <1>1, RecordEnds DEF RecordsInv, RecordDone, Refused
<1>2. CASE FailRecord
  <2>1. SlotsOf(sets')
    <3>1. todo # << >> => Head(todo) \in RecordCalls
      BY FirstAndRest DEF RecordsInv, RecordsTyped
    <3> QED
      BY <1>2, <3>1, EffectSlots DEF RecordsInv, FailRecord
  <2> QED
    BY <1>2, <2>1, RecordEnds DEF FailRecord
<1>3. CASE UNCHANGED recordsVars
  BY <1>3 DEF recordsVars, errand, RecordsInv, RecordsTyped
<1> QED
  BY <1>1, <1>2, <1>3, ApplyBegins, DestroyBegins, CallMade, RecordsTampered
     DEF RecordsNext, RecordsProgress

LEMMA RecordsInvariant == RecordsSpec => []RecordsInv
BY InitRecords, NextRecords, PTL DEF RecordsSpec

-----------------------------------------------------------------------------
(* The records of the others *)

LEMMA SiblingKept ==
  ASSUME RecordsInv, Harmonious, todo # << >>, NEW q \in DOMAIN want \ {whose}, want[q] \in sets
  PROVE  want[q] \in Effect(Head(todo))
<1> DEFINE w == want[whose]
           c == Head(todo)
<1>1. /\ w.id # Simple /\ want[q].id # w.id /\ want[q].id # Simple
      /\ whose \in DOMAIN want
  BY DEF RecordsInv, RecordsTyped, Harmonious
<1>2. /\ c.do \in {"resolve", "put", "delete"}
      /\ c.do = "put" => c.set = w
      /\ c.set.id \in {Simple, w.id}
  <2>1. c \in RecordCalls /\ c = todo[1] /\ 1 \in DOMAIN todo
    BY FirstAndRest DEF RecordsInv, RecordsTyped
  <2>2. CallsFor(w, doing, blind, todo)
    BY DEF RecordsInv
  <2> HIDE DEF w, c
  <2> QED
    BY <1>1, <2>1, <2>2 DEF CallsFor, RecordCalls
<1> HIDE DEF w, c
<1> QED
  BY <1>1, <1>2 DEF Effect, Upserted, SameSlot, c

LEMMA StepKeepsSiblings ==
  ASSUME RecordsInv, [RecordsNext]_recordsVars, Harmonious, doing # "none", sets' # sets,
         tampered' = tampered, NEW q \in DOMAIN want \ {whose}, want[q] \in sets
  PROVE  want[q] \in sets'
<1>1. CASE MakeCall
  BY <1>1, SiblingKept DEF MakeCall
<1>2. CASE FailRecord
  BY <1>2, SiblingKept DEF FailRecord
<1>3. CASE DisturbRecords
  <2>1. tampered = FALSE /\ tampered' = TRUE
    BY <1>3, Zenon DEF DisturbRecords, OtherPeople, RecordsInv, RecordsTyped
  <2> QED
    BY <2>1
<1>4. CASE UNCHANGED sets
  BY <1>4
<1>5. ASSUME NEW r \in DOMAIN want, ApplyRecord(r) \/ DestroyRecord(r)
      PROVE  UNCHANGED sets
  BY <1>5 DEF ApplyRecord, DestroyRecord, BeginRecord
<1> QED
  BY <1>1, <1>2, <1>3, <1>4, <1>5
     DEF RecordsNext, RecordsProgress, RecordDone, Refused, recordsVars

LEMMA SiblingsStayKept == RecordsSpec => SiblingsKept
<1>1. RecordsInv /\ [RecordsNext]_recordsVars =>
        [Harmonious /\ doing # "none" /\ sets' # sets =>
            \/ tampered' # tampered
            \/ \A q \in DOMAIN want \ {whose} : want[q] \in sets => want[q] \in sets']_recordsVars
  BY StepKeepsSiblings
<1> QED
  BY <1>1, RecordsInvariant, PTL DEF RecordsSpec, SiblingsKept

-----------------------------------------------------------------------------
(* A record keeps the contract of the graph walks *)

LEMMA RecordConditionFacts ==
  /\ RecordCondition \in {"absent", "drifted", "matching"}
  /\ RecordCondition = "absent" <=> \A s \in sets : ~ SameSlot(s, want[FocusRecord])
  /\ RecordCondition = "matching" <=> want[FocusRecord] \in sets
  /\ RecordCondition' \in {"absent", "drifted", "matching"}
  /\ RecordCondition' = "absent" <=> \A s \in sets' : ~ SameSlot(s, want'[FocusRecord])
  /\ RecordCondition' = "matching" <=> want'[FocusRecord] \in sets'
BY DEF RecordCondition, OwnSets, SameSlot

LEMMA RecordCanReach ==
  RecordPromise!Reachable(doing) =
      IF doing = "apply"
      THEN IF RecordCondition = "absent" THEN {"absent", "drifted", "matching"}
           ELSE {"drifted", "matching"}
      ELSE IF RecordCondition = "absent" THEN {"absent"}
      ELSE {RecordCondition, "drifted", "absent"}
BY DEF RecordPromise!Reachable, RecordPromise!Conditions

\* Where a call may leave the record: an apply puts it, and deletes nothing in its place;
\* a destroy only deletes.
LEMMA RecordReaches ==
  ASSUME RecordsInv, Here, doing \in {"apply", "destroy"}, UNCHANGED want,
         UNCHANGED sets \/ (todo # << >> /\ sets' = Effect(Head(todo)))
  PROVE  RecordCondition' \in RecordPromise!Reachable(doing)
<1> DEFINE w == want[whose]
           c == Head(todo)
<1>1. whose = FocusRecord /\ ~ blind
  BY DEF Here
<1>2. CASE UNCHANGED sets
  <2>1. RecordCondition' = RecordCondition
    BY <1>2, RecordConditionFacts
  <2> QED
    BY <2>1, RecordCanReach, RecordConditionFacts
<1>3. CASE todo # << >> /\ sets' = Effect(c)
  <2>1. c \in RecordCalls /\ c = todo[1] /\ 1 \in DOMAIN todo
    BY <1>3, FirstAndRest DEF RecordsInv, RecordsTyped
  <2>2. /\ c.do \in {"resolve", "put", "delete"}
        /\ c.do = "put" => doing = "apply" /\ c.set = w
        /\ doing = "apply" /\ c.do = "delete" => ~ SameSlot(c.set, w)
    <3>1. CallsFor(w, doing, blind, todo)
      BY DEF RecordsInv
    <3> HIDE DEF w, c
    <3> QED
      BY <1>1, <2>1, <3>1 DEF CallsFor, RecordCalls
  <2>3. w = want[FocusRecord] /\ want' = want
    BY <1>1
  <2> HIDE DEF w, c
  <2>4. CASE c.do = "put"
    <3>1. doing = "apply" /\ w \in sets'
      BY <1>3, <2>2, <2>4 DEF Effect, Upserted
    <3> QED
      BY <2>3, <3>1, RecordCanReach, RecordConditionFacts
  <2>5. CASE c.do = "resolve"
    <3>1. RecordCondition' = RecordCondition
      BY <1>3, <2>3, <2>5, RecordConditionFacts DEF Effect
    <3> QED
      BY <3>1, RecordCanReach, RecordConditionFacts
  <2>6. CASE c.do = "delete"
    <3>1. sets' = sets \ {c.set}
      BY <1>3, <2>6 DEF Effect
    <3>2. CASE doing = "apply"
      <4>1. RecordCondition' = RecordCondition
        <5>1. \A s \in sets : SameSlot(s, w) => s \in sets'
          BY <2>2, <2>6, <3>1, <3>2
        <5>2. SameSlot(w, w)
          BY DEF SameSlot
        <5> QED
          BY <2>3, <3>1, <5>1, <5>2, RecordConditionFacts
      <4> QED
        BY <3>2, <4>1, RecordCanReach, RecordConditionFacts
    <3>3. CASE doing = "destroy"
      <4>1. /\ RecordCondition = "absent" => RecordCondition' = "absent"
            /\ RecordCondition' = "matching" => RecordCondition = "matching"
        BY <2>3, <3>1, RecordConditionFacts
      <4> QED
        BY <3>3, <4>1, RecordCanReach, RecordConditionFacts
    <3> QED
      BY <3>2, <3>3
  <2> QED
    BY <2>2, <2>4, <2>5, <2>6
<1> QED
  BY <1>2, <1>3

\* An operation nobody has interfered with is done when its calls are.
LEMMA RecordReached ==
  ASSUME RecordsInv, Here, doing \in {"apply", "destroy"}, todo = << >>, ~ tampered
  PROVE  RecordCondition = RecordPromise!Goal(doing)
<1>1. /\ whose = FocusRecord /\ LeadsThere(sets, want[whose], doing, << >>)
  BY DEF Here, RecordsInv
<1>2. CASE doing = "apply"
  <2>1. want[FocusRecord] \in sets
    BY <1>1, <1>2 DEF LeadsThere, ApplyLeads
  <2> QED
    BY <1>2, <2>1, RecordConditionFacts DEF RecordPromise!Goal
<1>3. CASE doing = "destroy"
  <2>1. \A s \in sets : ~ SameSlot(s, want[FocusRecord])
    BY <1>1, <1>3 DEF LeadsThere, DestroyLeads
  <2> QED
    BY <1>3, <2>1, RecordConditionFacts DEF RecordPromise!Goal
<1> QED
  BY <1>2, <1>3

LEMMA RecordStep ==
  ASSUME RecordsInv, [RecordsNext]_recordsVars
  PROVE  [RecordPromise!Next]_(RecordPromise!contract)
<1> RecordsTyped
  BY DEF RecordsInv
<1>1. ASSUME NEW operation \in {"apply", "destroy"}, NEW r \in DOMAIN want, NEW q,
             BeginRecord(operation, r, q)
      PROVE  RecordPromise!Next
  <2>1. /\ doing = "none" /\ doing' = operation /\ whose' = r /\ tampered' = FALSE
        /\ ended' = "none" /\ UNCHANGED <<want, sets>> /\ blind' \in BOOLEAN
        /\ ~ tampered /\ ~ blind
    BY <1>1 DEF BeginRecord, RecordsTyped
  <2>2. RecordCondition' = RecordCondition
    BY <2>1, RecordConditionFacts
  <2>3. CASE Here'
    <3>1. RecordPromise!Begin(operation)
      BY <2>1, <2>2, <2>3 DEF RecordPromise!Begin, Here
    <3> QED
      BY <3>1 DEF RecordPromise!Next
  <2>4. CASE ~ Here'
    <3>1. RecordPromise!Disturb
      BY <2>1, <2>2, <2>4, RecordConditionFacts
         DEF RecordPromise!Disturb, RecordPromise!Conditions, Here
    <3> QED
      BY <3>1 DEF RecordPromise!Next
  <2> QED
    BY <2>3, <2>4
<1>2. CASE DisturbRecords
  <2>1. /\ UNCHANGED <<doing, whose, blind>> /\ tampered' = (doing # "none") /\ ended' = "none"
    BY <1>2 DEF DisturbRecords, OtherPeople, errand
  <2>2. Here' = Here
    BY <2>1 DEF Here
  <2>3. RecordPromise!Disturb
    BY <2>1, <2>2, RecordConditionFacts DEF RecordPromise!Disturb, RecordPromise!Conditions
  <2> QED
    BY <2>3 DEF RecordPromise!Next
<1>3. ASSUME doing # "none", UNCHANGED <<want, whose>>,
             UNCHANGED sets \/ (todo # << >> /\ sets' = Effect(Head(todo))),
             \/ UNCHANGED <<doing, blind, tampered, ended>>
             \/ EndRecord("error")
             \/ EndRecord(doing) /\ todo = << >> /\ UNCHANGED sets
      PROVE  RecordPromise!Next
  <2>1. doing \in {"apply", "destroy"} /\ ended = "none"
    BY <1>3 DEF RecordsTyped
  <2>2. CASE ~ Here
    <3>1. /\ ~ Here' \/ (doing' = "none" /\ tampered' = FALSE /\ ended' = "none")
          /\ RecordCondition' \in {"absent", "drifted", "matching"}
      BY <1>3, <2>2, RecordConditionFacts DEF Here, EndRecord
    <3>2. RecordPromise!Disturb
      BY <2>1, <2>2, <3>1 DEF RecordPromise!Disturb, RecordPromise!Conditions
    <3> QED
      BY <3>2 DEF RecordPromise!Next
  <2>3. CASE Here
    <3>1. RecordCondition' \in RecordPromise!Reachable(doing)
      BY <1>3, <2>1, <2>3, RecordReaches
    <3>2. CASE UNCHANGED <<doing, blind, tampered, ended>>
      <4>1. Here' = Here
        BY <1>3, <3>2 DEF Here
      <4>2. RecordPromise!Work
        BY <1>3, <2>1, <2>3, <3>1, <3>2, <4>1 DEF RecordPromise!Work
      <4> QED
        BY <4>2 DEF RecordPromise!Next
    <3>3. CASE EndRecord("error")
      <4>1. Here' /\ doing' = "none" /\ tampered' = FALSE /\ ended' = "error"
        BY <1>3, <2>3, <3>3 DEF Here, EndRecord
      <4>2. RecordPromise!Fail
        BY <2>1, <2>3, <3>1, <4>1 DEF RecordPromise!Fail
      <4> QED
        BY <4>2 DEF RecordPromise!Next
    <3>4. CASE EndRecord(doing) /\ todo = << >> /\ UNCHANGED sets
      <4>1. /\ Here' /\ doing' = "none" /\ tampered' = FALSE
            /\ ended' = IF tampered THEN "none" ELSE doing
        BY <1>3, <2>1, <2>3, <3>4 DEF Here, EndRecord, RecordsTyped
      <4>2. RecordCondition' = RecordCondition
        BY <1>3, <3>4, RecordConditionFacts
      <4>3. tampered \/ RecordCondition' = RecordPromise!Goal(doing)
        BY <2>1, <2>3, <3>4, <4>2, RecordReached
      <4>4. RecordPromise!Succeed
        BY <2>1, <2>3, <3>1, <4>1, <4>3 DEF RecordPromise!Succeed
      <4> QED
        BY <4>4 DEF RecordPromise!Next
    <3> QED
      BY <1>3, <3>2, <3>3, <3>4
  <2> QED
    BY <2>2, <2>3
<1>4. CASE MakeCall
  <2>1. doing # "none"
    BY <1>4 DEF MakeCall, RecordsTyped
  <2> QED
    BY <1>3, <1>4, <2>1 DEF MakeCall
<1>5. CASE Refused
  <2>1. doing # "none"
    BY <1>5 DEF Refused, RecordsTyped
  <2> QED
    BY <1>3, <1>5, <2>1 DEF Refused, EndRecord
<1>6. CASE FailRecord \/ RecordDone
  BY <1>3, <1>6 DEF FailRecord, RecordDone, EndRecord
<1>7. CASE UNCHANGED recordsVars
  <2>1. RecordCondition' = RecordCondition /\ Here' = Here
    BY <1>7, RecordConditionFacts DEF recordsVars, errand, Here
  <2> QED
    BY <1>7, <2>1 DEF RecordPromise!contract, recordsVars, errand
<1>8. ASSUME NEW r \in DOMAIN want, ApplyRecord(r) \/ DestroyRecord(r)
      PROVE  RecordPromise!Next
  BY <1>1, <1>8 DEF ApplyRecord, DestroyRecord
<1> QED
  BY <1>2, <1>4, <1>5, <1>6, <1>7, <1>8 DEF RecordsNext, RecordsProgress

LEMMA RecordKeepsContract == RecordsSpec => RecordContract
<1>1. RecordsInit => RecordPromise!Init
  BY RecordConditionFacts
     DEF RecordsInit, RecordPromise!Init, RecordPromise!Conditions, Here
<1>2. RecordsInv /\ [RecordsNext]_recordsVars => [RecordPromise!Next]_(RecordPromise!contract)
  BY RecordStep
<1> QED
  BY <1>1, <1>2, RecordsInvariant, PTL DEF RecordsSpec, RecordContract, RecordPromise!Contract
-----------------------------------------------------------------------------
(* The calls of an operation on a distribution *)

Origins           == [type : OriginTypes, domain : OriginDomains, extra : Extras]
OriginMaps        == UNION {[I -> Origins] : I \in SUBSET OriginIds}
Configs           == [enabled : BOOLEAN, behaviors : SUBSET OriginIds, origins : OriginMaps]
DistributionCalls ==
    [call : {"resolve", "create", "update", "await", "delete", "tag", "untag"}, config : Configs]

\* The calls left to make, in any order.
LEMMA CallsInRange ==
  ASSUME NEW T, NEW x \in T, NEW q, q = <<x>> \/ q = << >>
  PROVE  q \in Seq(T) /\ Range(q) = IF q = << >> THEN {} ELSE {x}
<1>1. CASE q = << >>
  <2>1. << >> \in Seq(T) /\ DOMAIN << >> = {}
    OBVIOUS
  <2> QED
    BY <1>1, <2>1 DEF Range
<1>2. CASE q = <<x>>
  <2>1. q \in Seq(T) /\ q # << >> /\ DOMAIN q = {1} /\ q[1] = x
    BY <1>2
  <2> QED
    BY <2>1 DEF Range
<1> QED
  BY <1>1, <1>2

LEMMA JoinedRange ==
  ASSUME NEW T, NEW p \in Seq(T), NEW q \in Seq(T)
  PROVE  p \o q \in Seq(T) /\ Range(p \o q) = Range(p) \cup Range(q)
<1>1. p \o q \in Seq(T)
  OBVIOUS
<1>2. \A i \in DOMAIN (p \o q) :
          (i \in DOMAIN p /\ (p \o q)[i] = p[i])
          \/ (i - Len(p) \in DOMAIN q /\ (p \o q)[i] = q[i - Len(p)])
  OBVIOUS
<1>3. \A i \in DOMAIN p : i \in DOMAIN (p \o q) /\ (p \o q)[i] = p[i]
  OBVIOUS
<1>4. \A i \in DOMAIN q : Len(p) + i \in DOMAIN (p \o q) /\ (p \o q)[Len(p) + i] = q[i]
  OBVIOUS
<1>5. Range(p \o q) \subseteq Range(p) \cup Range(q)
  BY <1>2, Zenon DEF Range
<1>6. Range(p) \subseteq Range(p \o q)
  BY <1>3, Zenon DEF Range
<1>7. Range(q) \subseteq Range(p \o q)
  BY <1>4, Zenon DEF Range
<1> QED
  BY <1>1, <1>5, <1>6, <1>7

LEMMA HeadAndRest ==
  ASSUME NEW T, NEW q \in Seq(T), q # << >>
  PROVE  /\ Head(q) \in T /\ Tail(q) \in Seq(T)
         /\ Range(q) = {Head(q)} \cup Range(Tail(q))
<1>1. Head(q) \in T /\ Tail(q) \in Seq(T) /\ Head(q) = q[1] /\ 1 \in DOMAIN q
  OBVIOUS
<1>2. \A i \in DOMAIN q : i = 1 \/ (i - 1 \in DOMAIN Tail(q) /\ Tail(q)[i - 1] = q[i])
  OBVIOUS
<1>3. \A i \in DOMAIN Tail(q) : i + 1 \in DOMAIN q /\ Tail(q)[i] = q[i + 1]
  OBVIOUS
<1>4. Range(q) \subseteq {Head(q)} \cup Range(Tail(q))
  <2>1. ASSUME NEW i \in DOMAIN q
        PROVE  q[i] \in {Head(q)} \cup Range(Tail(q))
    <3>1. CASE i = 1
      BY <1>1, <3>1
    <3>2. CASE i - 1 \in DOMAIN Tail(q) /\ Tail(q)[i - 1] = q[i]
      BY <3>2, Zenon DEF Range
    <3> QED
      BY <1>2, <3>1, <3>2
  <2> QED
    BY <2>1, Zenon DEF Range
<1>5. Range(Tail(q)) \subseteq Range(q)
  BY <1>3, Zenon DEF Range
<1>6. Head(q) \in Range(q)
  BY <1>1, Zenon DEF Range
<1> QED
  BY <1>1, <1>4, <1>5, <1>6

-----------------------------------------------------------------------------
(* generateConfig and mergeManagedConfig *)

\* new keeps what buildit does not manage of old.
KeepsUnmanaged(old, new) ==
    /\ new.behaviors = old.behaviors
    /\ \A i \in DOMAIN old.origins \cap DOMAIN new.origins :
           \/ new.origins[i].extra = old.origins[i].extra
           \/ old.origins[i].extra = "typed" /\ new.origins[i].type # old.origins[i].type

LEMMA OriginMapFacts ==
  /\ \A f : f \in OriginMaps => DOMAIN f \subseteq OriginIds /\ \A i \in DOMAIN f : f[i] \in Origins
  /\ \A I, f : I \subseteq OriginIds /\ f \in [I -> Origins] => f \in OriginMaps
BY DEF OriginMaps

LEMMA NothingFacts == Nothing \in Configs /\ ~ Nothing.enabled
<1>1. Nothing.origins \in [{} -> Origins]
  BY DEF Nothing
<1> QED
  BY <1>1, OriginMapFacts DEF Nothing, Configs

LEMMA Generated ==
  ASSUME declared \in DeclaredOrigins
  PROVE  /\ generateConfig \in Configs
         /\ generateConfig.enabled /\ generateConfig.behaviors = {}
         /\ DOMAIN generateConfig.origins = DOMAIN declared
<1>1. PICK I \in SUBSET OriginIds : declared \in [I -> [type : OriginTypes, domain : OriginDomains]]
  BY DEF DeclaredOrigins
<1>2. \A i \in DOMAIN declared : NewOrigin(declared[i]) \in Origins
  BY <1>1 DEF NewOrigin, Origins, Extras
<1>3. generateConfig.origins \in [I -> Origins]
  BY <1>1, <1>2 DEF generateConfig
<1> QED
  BY <1>1, <1>3, OriginMapFacts DEF generateConfig, Configs

\* The merge keeps what is not managed, and all that it manages is as it should be.
LEMMA Merged ==
  ASSUME NEW old \in Configs, NEW new \in Configs,
         \A i \in DOMAIN new.origins : new.origins[i].extra = "none"
  PROVE  /\ mergeManagedConfig(old, new) \in Configs
         /\ KeepsUnmanaged(old, mergeManagedConfig(old, new))
         /\ ~ compareDistributionConfig(mergeManagedConfig(old, new), new)
         /\ mergeManagedConfig(old, new).enabled = new.enabled
<1> DEFINE m == mergeManagedConfig(old, new)
           N == DOMAIN new.origins
           origin(i) == IF i \in DOMAIN old.origins
                        THEN MergedOrigin(old.origins[i], new.origins[i]) ELSE new.origins[i]
<1>1. /\ old.behaviors \subseteq OriginIds /\ N \subseteq OriginIds
      /\ \A i \in DOMAIN old.origins : old.origins[i] \in Origins
      /\ \A i \in N : new.origins[i] \in Origins
  BY OriginMapFacts DEF Configs
<1>2. /\ m.enabled = new.enabled /\ m.behaviors = old.behaviors
      /\ m.origins = [i \in N |-> origin(i)]
      /\ m = [enabled |-> new.enabled, behaviors |-> old.behaviors, origins |-> m.origins]
  BY DEF mergeManagedConfig, Configs
<1>3. ASSUME NEW i \in N
      PROVE  /\ origin(i) \in Origins
             /\ origin(i).type = new.origins[i].type /\ origin(i).domain = new.origins[i].domain
             /\ i \in DOMAIN old.origins =>
                    \/ origin(i).extra = old.origins[i].extra
                    \/ old.origins[i].extra = "typed" /\ origin(i).type # old.origins[i].type
  BY <1>1 DEF MergedOrigin, Origins, Extras
<1> HIDE DEF m, N, origin
<1>4. m \in Configs
  <2>1. m.origins \in [N -> Origins]
    BY <1>2, <1>3
  <2> QED
    BY <1>1, <1>2, <2>1, OriginMapFacts DEF Configs
<1>5. KeepsUnmanaged(old, m)
  BY <1>2, <1>3 DEF KeepsUnmanaged
<1>6. Snapshot(m) = Snapshot(new)
  <2>1. DOMAIN m.origins = N
    BY <1>2
  <2>2. [i \in N |-> <<m.origins[i].type, Shown[m.origins[i].domain]>>]
          = [i \in N |-> <<new.origins[i].type, Shown[new.origins[i].domain]>>]
    BY <1>2, <1>3
  <2> QED
    BY <1>2, <2>1, <2>2 DEF Snapshot, N
<1> QED
  BY <1>2, <1>4, <1>5, <1>6 DEF compareDistributionConfig, m

LEMMA GeneratedPlain == \A i \in DOMAIN generateConfig.origins : generateConfig.origins[i].extra = "none"
BY DEF generateConfig, NewOrigin

-----------------------------------------------------------------------------
(* The invariant of the operations on a distribution *)

DistributionTyped ==
    /\ declared \in DeclaredOrigins /\ resolves \in BOOLEAN
    /\ phase \in {"absent", "deploying", "deployed"} /\ config \in Configs
    /\ badTags \subseteq {"missing", "extra"}
    /\ phase = "absent" => badTags = {}
WorkTyped ==
    /\ work \in {"none", "apply", "wait", "destroy"} /\ calls \in Seq(DistributionCalls)
    /\ current \in BOOLEAN /\ crossed \in BOOLEAN
    /\ work = "none" => calls = << >> /\ crossed = FALSE
    /\ work # "none" => verdict = "none"

\* What each operation calls; a destroy only ever disables.
WorkOK(what, due) ==
    \A c \in due :
        /\ what = "apply" => c.call \in {"resolve", "create", "update", "tag", "untag"}
        /\ what = "wait" => c.call = "await"
        /\ what = "destroy" => /\ c.call \in {"update", "await", "delete"}
                               /\ c.call = "update" => ~ c.config.enabled

\* An operation writes one configuration at most, and as long as CloudFront would take
\* it, it keeps what is there.
WritesOK(ph, conf, cur, due) ==
    \A c \in due : c.call = "update" =>
        /\ cur /\ ph # "absent" => KeepsUnmanaged(conf, c.config)
        /\ \A d \in due : d.call \in {"create", "update"} => d = c

Needs(what, due) == \E c \in due : c.call = what

\* While nobody interferes, the calls that are left make all that is not as declared ...
ApplyAchieves(goal, ph, conf, tags, due) ==
    /\ \A c \in due : c.call \in {"create", "update"} =>
           ~ compareDistributionConfig(c.config, goal)
    /\ ph = "absent" => Needs("create", due)
    /\ ph # "absent" =>
           /\ compareDistributionConfig(conf, goal) => Needs("update", due)
           /\ "missing" \in tags => Needs("tag", due)
           /\ "extra" \in tags => Needs("untag", due)

\* ... or delete what is there.
DestroyAchieves(ph, due) == ph # "absent" => Needs("delete", due)

WorkAchieves(goal, what, ph, conf, tags, due) ==
    /\ what = "apply" => ApplyAchieves(goal, ph, conf, tags, due)
    /\ what = "destroy" => DestroyAchieves(ph, due)

DistributionInv ==
    /\ DistributionTyped
    /\ WorkTyped
    /\ WorkOK(work, Range(calls))
    /\ WritesOK(phase, config, current, Range(calls))
    /\ ~ crossed => WorkAchieves(generateConfig, work, phase, config, badTags, Range(calls))

LEMMA NoCallsLeft ==
  /\ << >> \in Seq(DistributionCalls) /\ Range(<< >>) = {}
  /\ \A what : WorkOK(what, {})
  /\ \A ph, conf, cur : WritesOK(ph, conf, cur, {})
  /\ \A goal, ph, conf, tags, due : WorkAchieves(goal, "none", ph, conf, tags, due)
<1>1. << >> \in Seq(DistributionCalls) /\ DOMAIN << >> = {}
  OBVIOUS
<1>2. Range(<< >>) = {}
  BY <1>1 DEF Range
<1> QED
  BY <1>1, <1>2 DEF WorkOK, WritesOK, WorkAchieves

LEMMA InitDistribution == DistributionInit => DistributionInv
<1> SUFFICES ASSUME DistributionInit
             PROVE  DistributionInv
  OBVIOUS
<1>1. DistributionTyped
  BY DeclaredType, NothingFacts DEF DistributionInit, DistributionTyped
<1>2. WorkTyped /\ work = "none" /\ calls = << >>
  BY NoCallsLeft DEF DistributionInit, WorkTyped
<1> QED
  BY <1>1, <1>2, NoCallsLeft DEF DistributionInv

LEMMA CallFacts ==
  ASSUME NEW what \in {"resolve", "create", "update", "await", "delete", "tag", "untag"},
         NEW c \in Configs
  PROVE  /\ CallOf(what, c) \in DistributionCalls
         /\ CallOf(what, c).call = what /\ CallOf(what, c).config = c
BY DEF CallOf, DistributionCalls

LEMMA FoundApply ==
  ASSUME DistributionTyped, phase # "absent"
  PROVE  /\ diffExisting \in Seq(DistributionCalls)
         /\ WorkOK("apply", Range(diffExisting))
         /\ WritesOK(phase, config, TRUE, Range(diffExisting))
         /\ ApplyAchieves(generateConfig, phase, config, badTags, Range(diffExisting))
<1> DEFINE desired == mergeManagedConfig(config, generateConfig)
           update  == CallOf("update", desired)
           tag     == CallOf("tag", Nothing)
           untag   == CallOf("untag", Nothing)
           differs == compareDistributionConfig(config, desired)
           U == If(differs, update)
           T == If("missing" \in badTags, tag)
           X == If("extra" \in badTags, untag)
<1>1. /\ desired \in Configs /\ KeepsUnmanaged(config, desired)
      /\ ~ compareDistributionConfig(desired, generateConfig)
  BY Generated, GeneratedPlain, Merged DEF DistributionTyped
<1>2. /\ update \in DistributionCalls /\ update.call = "update" /\ update.config = desired
      /\ tag \in DistributionCalls /\ tag.call = "tag"
      /\ untag \in DistributionCalls /\ untag.call = "untag"
  BY <1>1, CallFacts, NothingFacts
<1>3. differs = compareDistributionConfig(config, generateConfig) /\ differs \in BOOLEAN
  BY <1>1 DEF compareDistributionConfig
<1> HIDE DEF desired, update, tag, untag, differs
<1>4. /\ U \in Seq(DistributionCalls) /\ Range(U) = IF differs THEN {update} ELSE {}
      /\ T \in Seq(DistributionCalls) /\ Range(T) = IF "missing" \in badTags THEN {tag} ELSE {}
      /\ X \in Seq(DistributionCalls) /\ Range(X) = IF "extra" \in badTags THEN {untag} ELSE {}
  <2>1. /\ U = IF differs THEN <<update>> ELSE << >>
        /\ T = IF "missing" \in badTags THEN <<tag>> ELSE << >>
        /\ X = IF "extra" \in badTags THEN <<untag>> ELSE << >>
    BY DEF If
  <2>2. <<update>> # << >> /\ <<tag>> # << >> /\ <<untag>> # << >>
    OBVIOUS
  <2> HIDE DEF U, T, X
  <2>3. U \in Seq(DistributionCalls) /\ Range(U) = IF U = << >> THEN {} ELSE {update}
    BY <1>2, <2>1, CallsInRange
  <2>4. T \in Seq(DistributionCalls) /\ Range(T) = IF T = << >> THEN {} ELSE {tag}
    BY <1>2, <2>1, CallsInRange
  <2>5. X \in Seq(DistributionCalls) /\ Range(X) = IF X = << >> THEN {} ELSE {untag}
    BY <1>2, <2>1, CallsInRange
  <2> QED
    BY <2>1, <2>2, <2>3, <2>4, <2>5
<1> HIDE DEF U, T, X
<1>5. /\ diffExisting \in Seq(DistributionCalls)
      /\ Range(diffExisting) = Range(U) \cup Range(T) \cup Range(X)
  <2> DEFINE UT == U \o T
  <2>1. UT \in Seq(DistributionCalls) /\ Range(UT) = Range(U) \cup Range(T)
    BY <1>4, JoinedRange
  <2>2. diffExisting = UT \o X
    BY DEF diffExisting, U, T, X, differs, update, tag, untag, desired
  <2> HIDE DEF UT
  <2>3. UT \o X \in Seq(DistributionCalls) /\ Range(UT \o X) = Range(UT) \cup Range(X)
    BY <1>4, <2>1, JoinedRange
  <2> QED
    BY <2>1, <2>2, <2>3
<1>6. /\ \A c \in Range(diffExisting) : c \in {update, tag, untag}
      /\ differs => update \in Range(diffExisting)
      /\ "missing" \in badTags => tag \in Range(diffExisting)
      /\ "extra" \in badTags => untag \in Range(diffExisting)
  BY <1>4, <1>5
<1>7. WorkOK("apply", Range(diffExisting))
  BY <1>2, <1>6 DEF WorkOK
<1>8. WritesOK(phase, config, TRUE, Range(diffExisting))
  BY <1>1, <1>2, <1>6 DEF WritesOK
<1>9. ApplyAchieves(generateConfig, phase, config, badTags, Range(diffExisting))
  BY <1>1, <1>2, <1>3, <1>6 DEF ApplyAchieves, Needs
<1> QED
  BY <1>5, <1>7, <1>8, <1>9

LEMMA OneBefore ==
  ASSUME NEW x \in DistributionCalls, NEW q \in Seq(DistributionCalls)
  PROVE  <<x>> \o q \in Seq(DistributionCalls) /\ Range(<<x>> \o q) = {x} \cup Range(q)
<1> DEFINE p == <<x>>
<1>1. p = <<x>> /\ p # << >>
  OBVIOUS
<1> HIDE DEF p
<1>2. p \in Seq(DistributionCalls) /\ Range(p) = {x}
  BY <1>1, CallsInRange
<1>3. p \o q \in Seq(DistributionCalls) /\ Range(p \o q) = {x} \cup Range(q)
  BY <1>2, JoinedRange
<1> QED
  BY <1>3 DEF p

LEMMA DistributionStarts ==
  ASSUME DistributionInv, NEW what \in {"apply", "wait", "destroy"},
         NEW q \in Seq(DistributionCalls), Start(what, q),
         WorkOK(what, Range(q)), WritesOK(phase, config, TRUE, Range(q)),
         WorkAchieves(generateConfig, what, phase, config, badTags, Range(q))
  PROVE  DistributionInv'
<1>1. /\ work' = what /\ calls' = q /\ current' = TRUE /\ crossed' = FALSE /\ verdict' = "none"
      /\ UNCHANGED <<declared, resolves, phase, config, badTags>>
  BY DEF Start, distribution
<1>2. DistributionTyped'
  BY <1>1 DEF DistributionInv, DistributionTyped
<1>3. WorkTyped'
  BY <1>1 DEF WorkTyped
<1>4. generateConfig' = generateConfig
  BY <1>1 DEF generateConfig
<1> QED
  BY <1>1, <1>2, <1>3, <1>4 DEF DistributionInv

LEMMA ApplyStarts ==
  ASSUME DistributionInv, ApplyDistribution
  PROVE  DistributionInv'
<1> DEFINE rest == IF FindDistribution THEN diffExisting ELSE <<CreateDistributionWithTags>>
           q == <<ResolveNames>> \o rest
<1>1. /\ ResolveNames \in DistributionCalls /\ ResolveNames.call = "resolve"
      /\ CreateDistributionWithTags \in DistributionCalls
      /\ CreateDistributionWithTags.call = "create"
      /\ CreateDistributionWithTags.config = generateConfig
  BY CallFacts, NothingFacts, Generated
     DEF ResolveNames, CreateDistributionWithTags, DistributionInv, DistributionTyped
<1>2. /\ rest \in Seq(DistributionCalls) /\ WorkOK("apply", Range(rest))
      /\ WritesOK(phase, config, TRUE, Range(rest))
      /\ ApplyAchieves(generateConfig, phase, config, badTags, Range(rest))
  <2>1. CASE FindDistribution
    BY <2>1, FoundApply DEF FindDistribution, DistributionInv
  <2>2. CASE ~ FindDistribution
    <3>1. rest = <<CreateDistributionWithTags>> /\ rest # << >> /\ phase = "absent"
      BY <2>2 DEF FindDistribution
    <3> HIDE DEF rest
    <3>2. rest \in Seq(DistributionCalls) /\ Range(rest) = {CreateDistributionWithTags}
      BY <1>1, <3>1, CallsInRange
    <3> QED
      BY <1>1, <3>1, <3>2
         DEF WorkOK, WritesOK, ApplyAchieves, Needs, compareDistributionConfig
  <2> QED
    BY <2>1, <2>2
<1> HIDE DEF rest
<1>3. q \in Seq(DistributionCalls) /\ Range(q) = {ResolveNames} \cup Range(rest)
  BY <1>1, <1>2, OneBefore
<1>4. Start("apply", q)
  BY DEF ApplyDistribution, rest
<1> HIDE DEF q
<1>5. WorkOK("apply", Range(q)) /\ WritesOK(phase, config, TRUE, Range(q))
  BY <1>1, <1>2, <1>3 DEF WorkOK, WritesOK
<1>6. WorkAchieves(generateConfig, "apply", phase, config, badTags, Range(q))
  BY <1>1, <1>2, <1>3 DEF WorkAchieves, ApplyAchieves, Needs
<1> QED
  BY <1>3, <1>4, <1>5, <1>6, DistributionStarts

LEMMA WaitStarts ==
  ASSUME DistributionInv, WaitForDistribution
  PROVE  DistributionInv'
<1> DEFINE q == If(FindDistribution, WaitForDeployed)
<1>1. WaitForDeployed \in DistributionCalls /\ WaitForDeployed.call = "await"
  BY CallFacts, NothingFacts DEF WaitForDeployed
<1>2. q = <<WaitForDeployed>> \/ q = << >>
  BY DEF If
<1>4. Start("wait", q)
  BY DEF WaitForDistribution
<1> HIDE DEF q
<1>3. q \in Seq(DistributionCalls) /\ Range(q) \subseteq {WaitForDeployed}
  BY <1>1, <1>2, CallsInRange
<1> QED
  BY <1>1, <1>3, <1>4, DistributionStarts DEF WorkOK, WritesOK, WorkAchieves

LEMMA DestroyStarts ==
  ASSUME DistributionInv, DestroyDistribution
  PROVE  DistributionInv'
<1> DEFINE off  == [config EXCEPT !.enabled = FALSE]
           stop == CallOf("update", off)
           del  == CallOf("delete", Nothing)
           first == If(config.enabled, stop)
           rest == <<WaitForDeployed, del>>
           q == IF ~ FindDistribution THEN << >> ELSE first \o rest
<1>1. /\ config \in Configs
      /\ off \in Configs /\ ~ off.enabled /\ KeepsUnmanaged(config, off)
  <2>1. config \in Configs
    BY DEF DistributionInv, DistributionTyped
  <2>2. off \in Configs /\ ~ off.enabled
        /\ off.behaviors = config.behaviors /\ off.origins = config.origins
    BY <2>1 DEF Configs
  <2> HIDE DEF off
  <2> QED
    BY <2>1, <2>2 DEF KeepsUnmanaged
<1> HIDE DEF off
<1>2. /\ stop \in DistributionCalls /\ stop.call = "update" /\ stop.config = off
      /\ WaitForDeployed \in DistributionCalls /\ WaitForDeployed.call = "await"
      /\ del \in DistributionCalls /\ del.call = "delete"
  BY <1>1, CallFacts, NothingFacts DEF WaitForDeployed
<1> HIDE DEF stop, del
<1>3. first = <<stop>> \/ first = << >>
  BY DEF If
<1>4. first \in Seq(DistributionCalls) /\ Range(first) \subseteq {stop}
  <2> HIDE DEF first
  <2> QED
    BY <1>2, <1>3, CallsInRange
<1>5. rest \in Seq(DistributionCalls) /\ Range(rest) = {WaitForDeployed, del}
  <2>1. rest \in Seq(DistributionCalls) /\ DOMAIN rest = {1, 2}
        /\ rest[1] = WaitForDeployed /\ rest[2] = del
    BY <1>2
  <2> HIDE DEF rest
  <2> QED
    BY <2>1 DEF Range
<1>6. Start("destroy", q)
  BY DEF DestroyDistribution, first, rest, stop, del, off
<1> HIDE DEF first, rest
<1>7. /\ q \in Seq(DistributionCalls) /\ Range(q) \subseteq {stop, WaitForDeployed, del}
      /\ FindDistribution => del \in Range(q)
  <2>1. CASE FindDistribution
    <3>1. first \o rest \in Seq(DistributionCalls)
          /\ Range(first \o rest) = Range(first) \cup Range(rest)
      BY <1>4, <1>5, JoinedRange
    <3> QED
      BY <2>1, <3>1, <1>4, <1>5
  <2>2. CASE ~ FindDistribution
    BY <2>2, NoCallsLeft
  <2> QED
    BY <2>1, <2>2
<1> HIDE DEF q
<1>8. WorkOK("destroy", Range(q)) /\ WritesOK(phase, config, TRUE, Range(q))
  BY <1>1, <1>2, <1>7 DEF WorkOK, WritesOK
<1>9. WorkAchieves(generateConfig, "destroy", phase, config, badTags, Range(q))
  BY <1>2, <1>7 DEF WorkAchieves, DestroyAchieves, Needs, FindDistribution
<1> QED
  BY <1>6, <1>7, <1>8, <1>9, DistributionStarts

LEMMA EffectOf ==
  ASSUME NEW c \in DistributionCalls, Takes(c), Happens(c)
  PROVE  /\ c.config \in Configs
         /\ \/ /\ c.call = "create" /\ phase = "absent"
               /\ phase' = "deploying" /\ config' = c.config /\ badTags' = badTags
            \/ /\ c.call = "update" /\ phase # "absent" /\ current
               /\ phase' = "deploying" /\ config' = c.config /\ badTags' = badTags
            \/ /\ c.call = "tag" /\ phase # "absent"
               /\ UNCHANGED <<phase, config>> /\ badTags' = badTags \ {"missing"}
            \/ /\ c.call = "untag" /\ phase # "absent"
               /\ UNCHANGED <<phase, config>> /\ badTags' = badTags \ {"extra"}
            \/ /\ c.call = "delete" /\ phase # "absent"
               /\ phase' = "absent" /\ config' = Nothing /\ badTags' = {}
            \/ /\ c.call \in {"resolve", "await"}
               /\ UNCHANGED <<phase, config, badTags>>
BY DEF DistributionCalls, Takes, Happens, Updates, Deleted, distribution

LEMMA EffectTyped ==
  ASSUME DistributionTyped, NEW c \in DistributionCalls, Takes(c), Happens(c),
         UNCHANGED <<declared, resolves>>
  PROVE  DistributionTyped'
BY EffectOf, NothingFacts DEF DistributionTyped

LEMMA CloudfrontCalled ==
  ASSUME DistributionInv, CallCloudfront
  PROVE  DistributionInv'
<1> DEFINE c == Head(calls)
           due == Range(Tail(calls))
<1>1. /\ Takes(c) /\ Happens(c) /\ calls # << >> /\ calls' = Tail(calls)
      /\ UNCHANGED <<declared, resolves, work, current, crossed, verdict>>
  BY DEF CallCloudfront
<1>2. /\ DistributionTyped /\ WorkTyped /\ work # "none"
      /\ WorkOK(work, Range(calls)) /\ WritesOK(phase, config, current, Range(calls))
      /\ ~ crossed => WorkAchieves(generateConfig, work, phase, config, badTags, Range(calls))
  BY <1>1 DEF DistributionInv, WorkTyped
<1>3. /\ c \in DistributionCalls /\ Tail(calls) \in Seq(DistributionCalls)
      /\ Range(calls) = {c} \cup due
  BY <1>1, <1>2, HeadAndRest DEF WorkTyped
<1> HIDE DEF c
<1>4. DistributionTyped'
  BY <1>1, <1>2, <1>3, EffectTyped
<1>5. WorkTyped'
  BY <1>1, <1>2, <1>3 DEF WorkTyped
<1>6. Range(calls') = due
  BY <1>1
<1> HIDE DEF due
<1>7. WorkOK(work, due)
  BY <1>2, <1>3 DEF WorkOK
<1>8. WritesOK(phase', config', current, due)
  <2> SUFFICES ASSUME NEW d \in due, d.call = "update"
               PROVE  /\ current /\ phase' # "absent" => KeepsUnmanaged(config', d.config)
                      /\ \A e \in due : e.call \in {"create", "update"} => e = d
    BY DEF WritesOK
  <2>1. /\ current /\ phase # "absent" => KeepsUnmanaged(config, d.config)
        /\ \A e \in {c} \cup due : e.call \in {"create", "update"} => e = d
    BY <1>2, <1>3 DEF WritesOK
  <2>2. c.call # "create"
    BY <2>1
  <2>3. c.call = "update" => c.config = d.config
    BY <2>1
  <2>4. KeepsUnmanaged(d.config, d.config)
    BY DEF KeepsUnmanaged
  <2>5. current /\ phase' # "absent" => KeepsUnmanaged(config', d.config)
    <3>1. CASE c.call = "update"
      BY <1>1, <1>3, <2>3, <2>4, <3>1, EffectOf
    <3>2. CASE c.call # "update"
      <4>1. phase' = "absent" \/ (phase' = phase /\ config' = config)
        BY <1>1, <1>3, <2>2, <3>2, EffectOf
      <4> QED
        BY <2>1, <4>1
    <3> QED
      BY <3>1, <3>2
  <2> QED
    BY <2>1, <2>5
<1>9. generateConfig' = generateConfig
  BY <1>1 DEF generateConfig
<1>10. ASSUME ~ crossed
       PROVE  WorkAchieves(generateConfig, work, phase', config', badTags', due)
  <2>1. ASSUME work = "apply"
        PROVE  ApplyAchieves(generateConfig, phase', config', badTags', due)
    <3>1. ApplyAchieves(generateConfig, phase, config, badTags, {c} \cup due)
      BY <1>2, <1>3, <1>10, <2>1 DEF WorkAchieves
    <3>2. c.call # "delete" /\ c.call # "await"
      BY <1>2, <1>3, <2>1 DEF WorkOK
    <3>3. \A what : Needs(what, {c} \cup due) /\ c.call # what => Needs(what, due)
      BY DEF Needs
    <3>4. c.call \in {"create", "update"} => ~ compareDistributionConfig(c.config, generateConfig)
      BY <3>1 DEF ApplyAchieves
    <3>5. phase = "absent" => badTags = {}
      BY <1>2 DEF DistributionTyped
    <3>6. \A d \in due : d.call \in {"create", "update"} =>
              ~ compareDistributionConfig(d.config, generateConfig)
      BY <3>1 DEF ApplyAchieves
    <3>7. phase' = "absent" => Needs("create", due)
      BY <1>1, <1>3, <3>1, <3>2, <3>3, EffectOf DEF ApplyAchieves
    <3>8. phase' # "absent" => (compareDistributionConfig(config', generateConfig) => Needs("update", due))
      BY <1>1, <1>3, <3>1, <3>2, <3>3, <3>4, EffectOf DEF ApplyAchieves
    <3>9. phase' # "absent" => /\ "missing" \in badTags' => Needs("tag", due)
                               /\ "extra" \in badTags' => Needs("untag", due)
      BY <1>1, <1>3, <3>1, <3>2, <3>3, <3>5, EffectOf DEF ApplyAchieves
    <3> QED
      BY <3>6, <3>7, <3>8, <3>9 DEF ApplyAchieves
  <2>2. ASSUME work = "destroy"
        PROVE  DestroyAchieves(phase', due)
    <3>1. DestroyAchieves(phase, {c} \cup due)
      BY <1>2, <1>3, <1>10, <2>2 DEF WorkAchieves
    <3>2. c.call # "create"
      BY <1>2, <1>3, <2>2 DEF WorkOK
    <3> QED
      BY <1>1, <1>3, <3>1, <3>2, EffectOf DEF DestroyAchieves, Needs
  <2> QED
    BY <2>1, <2>2 DEF WorkAchieves
<1> QED
  BY <1>1, <1>4, <1>5, <1>6, <1>7, <1>8, <1>9, <1>10 DEF DistributionInv

LEMMA DistributionStops ==
  ASSUME NEW how, Stop(how), DistributionTyped'
  PROVE  DistributionInv'
<1>1. work' = "none" /\ calls' = << >> /\ current' = TRUE /\ crossed' = FALSE
  BY DEF Stop
<1>2. WorkTyped'
  BY <1>1, NoCallsLeft DEF WorkTyped
<1> QED
  BY <1>1, <1>2, NoCallsLeft DEF DistributionInv

\* What other people may make of the configuration.
LEMMA HandMade ==
  ASSUME DistributionTyped
  PROVE  /\ [config EXCEPT !.enabled = ~ config.enabled] \in Configs
         /\ \A i \in OriginIds : \A o \in HandOrigins[i] :
                [config EXCEPT !.origins =
                    [j \in DOMAIN @ \cup {i} |-> IF j = i THEN o ELSE @[j]]] \in Configs
         /\ \A T \in {{}} \cup {{i} : i \in DOMAIN config.origins} :
                [config EXCEPT !.behaviors = T] \in Configs
<1>1. /\ config \in Configs /\ DOMAIN config.origins \subseteq OriginIds
      /\ \A i \in DOMAIN config.origins : config.origins[i] \in Origins
  BY OriginMapFacts DEF DistributionTyped, Configs
<1>2. [config EXCEPT !.enabled = ~ config.enabled] \in Configs
  BY <1>1 DEF Configs
<1>3. ASSUME NEW i \in OriginIds, NEW o \in HandOrigins[i]
      PROVE  [config EXCEPT !.origins =
                 [j \in DOMAIN @ \cup {i} |-> IF j = i THEN o ELSE @[j]]] \in Configs
  <2> DEFINE I == DOMAIN config.origins \cup {i}
             f == [j \in I |-> IF j = i THEN o ELSE config.origins[j]]
  <2>1. o \in Origins /\ I \subseteq OriginIds
    BY <1>1, HandMadeType DEF Origins
  <2>2. f \in [I -> Origins]
    BY <1>1, <2>1
  <2>3. f \in OriginMaps
    BY <2>1, <2>2, OriginMapFacts
  <2> HIDE DEF f
  <2>4. [config EXCEPT !.origins = f] \in Configs
    BY <1>1, <2>3 DEF Configs
  <2> QED
    BY <2>4 DEF f
<1>4. ASSUME NEW T \in {{}} \cup {{i} : i \in DOMAIN config.origins}
      PROVE  [config EXCEPT !.behaviors = T] \in Configs
  <2>1. T \in SUBSET OriginIds
    BY <1>1
  <2> QED
    BY <1>1, <2>1 DEF Configs
<1> QED
  BY <1>2, <1>3, <1>4

LEMMA MeddledTyped ==
  ASSUME DistributionTyped, Meddle
  PROVE  /\ DistributionTyped'
         /\ \/ UNCHANGED <<phase, config, current>>
            \/ phase' = "absent" /\ UNCHANGED current
            \/ current' = (work = "none")
<1>1. ASSUME NEW c \in Configs, Configured(c)
      PROVE  DistributionTyped' /\ current' = (work = "none")
  BY <1>1 DEF Configured, DistributionTyped
<1>2. CASE EditManaged \/ EditOrigin \/ EditBehaviors
  BY <1>1, <1>2, HandMade DEF EditManaged, EditOrigin, EditBehaviors
<1>3. CASE EditTags
  BY <1>3 DEF EditTags, DistributionTyped
<1>4. CASE DeletedByHand
  BY <1>4, NothingFacts DEF DeletedByHand, Deleted, DistributionTyped
<1>5. CASE ToggleResolves
  BY <1>5 DEF ToggleResolves, distribution, DistributionTyped
<1>6. CASE Redefine
  BY <1>6, DeclaredType DEF Redefine, distribution, DistributionTyped
<1> QED
  BY <1>2, <1>3, <1>4, <1>5, <1>6 DEF Meddle

LEMMA DistributionMeddled ==
  ASSUME DistributionInv, Meddle
  PROVE  DistributionInv'
<1>1. /\ crossed' = (work # "none") /\ verdict' = "none" /\ UNCHANGED <<work, calls>>
  BY DEF Meddle, Interfere
<1>2. DistributionTyped /\ WorkTyped /\ WritesOK(phase, config, current, Range(calls))
  BY DEF DistributionInv
<1>3. DistributionTyped'
  BY <1>2, MeddledTyped
<1>4. CASE work = "none"
  <2>1. work' = "none" /\ calls' = << >> /\ crossed' = FALSE
    BY <1>1, <1>2, <1>4 DEF WorkTyped
  <2>2. current' \in BOOLEAN
    BY <1>2, <1>4, MeddledTyped DEF WorkTyped
  <2>3. WorkTyped'
    BY <2>1, <2>2, NoCallsLeft DEF WorkTyped
  <2> QED
    BY <1>3, <2>1, <2>3, NoCallsLeft DEF DistributionInv
<1>5. CASE work # "none"
  <2>1. crossed' = TRUE
    BY <1>1, <1>5
  <2>2. current' \in BOOLEAN
    BY <1>2, MeddledTyped DEF WorkTyped
  <2>3. WorkTyped'
    BY <1>1, <1>2, <1>5, <2>1, <2>2 DEF WorkTyped
  <2>4. WritesOK(phase', config', current', Range(calls))
    BY <1>2, <1>5, MeddledTyped DEF WritesOK
  <2> QED
    BY <1>1, <1>3, <2>1, <2>3, <2>4 DEF DistributionInv
<1> QED
  BY <1>4, <1>5

LEMMA LostTyped ==
  ASSUME DistributionInv, Lost
  PROVE  DistributionTyped'
<1>1. UNCHANGED <<declared, resolves>>
  BY DEF Lost, Stop
<1>2. CASE UNCHANGED distribution
  BY <1>1, <1>2 DEF distribution, DistributionInv, DistributionTyped
<1>3. CASE calls # << >> /\ Takes(Head(calls)) /\ Happens(Head(calls))
  BY <1>1, <1>3, HeadAndRest, EffectTyped DEF DistributionInv, WorkTyped
<1> QED
  BY <1>2, <1>3 DEF Lost

LEMMA NextDistribution == DistributionInv /\ [DistributionNext]_distributionVars => DistributionInv'
<1> SUFFICES ASSUME DistributionInv, [DistributionNext]_distributionVars
             PROVE  DistributionInv'
  OBVIOUS
<1>1. CASE Complete \/ Rejected
  <2>1. PICK how : Stop(how) /\ UNCHANGED distribution
    BY <1>1 DEF Complete, Rejected
  <2>2. DistributionTyped'
    BY <2>1 DEF Stop, distribution, DistributionInv, DistributionTyped
  <2> QED
    BY <2>1, <2>2, DistributionStops
<1>2. CASE Lost
  BY <1>2, LostTyped, DistributionStops DEF Lost
<1>3. CASE Deployed
  <2>1. /\ phase = "deploying" /\ phase' = "deployed"
        /\ UNCHANGED <<declared, resolves, config, badTags, work, calls, current, crossed, verdict>>
    BY <1>3 DEF Deployed
  <2>2. DistributionTyped' /\ WorkTyped'
    BY <2>1 DEF DistributionInv, DistributionTyped, WorkTyped
  <2>3. generateConfig' = generateConfig
    BY <2>1 DEF generateConfig
  <2>4. WritesOK(phase', config, current, Range(calls))
    BY <2>1 DEF DistributionInv, WritesOK
  <2>5. ~ crossed => WorkAchieves(generateConfig, work, phase', config, badTags, Range(calls))
    BY <2>1 DEF DistributionInv, WorkAchieves, ApplyAchieves, DestroyAchieves
  <2> QED
    BY <2>1, <2>2, <2>3, <2>4, <2>5 DEF DistributionInv
<1>4. CASE UNCHANGED distributionVars
  <2>1. /\ UNCHANGED <<declared, resolves, phase, config, badTags>>
        /\ UNCHANGED <<work, calls, current, crossed, verdict>>
    BY <1>4 DEF distributionVars, distribution
  <2>2. DistributionTyped' /\ WorkTyped'
    BY <2>1 DEF DistributionInv, DistributionTyped, WorkTyped
  <2>3. generateConfig' = generateConfig
    BY <2>1 DEF generateConfig
  <2> QED
    BY <2>1, <2>2, <2>3 DEF DistributionInv
<1> QED
  BY <1>1, <1>2, <1>3, <1>4, ApplyStarts, WaitStarts, DestroyStarts, CloudfrontCalled,
     DistributionMeddled DEF DistributionNext, DistributionProgress

LEMMA DistributionInvariant == DistributionSpec => []DistributionInv
BY InitDistribution, NextDistribution, PTL DEF DistributionSpec

-----------------------------------------------------------------------------
(* What buildit does not manage of a distribution *)

LEMMA StepKeepsUnmanaged ==
  ASSUME DistributionInv, [DistributionNext]_distributionVars,
         calls' # calls, phase # "absent", phase' # "absent"
  PROVE  KeepsUnmanaged(config, config')
<1>1. CASE config' = config
  BY <1>1 DEF KeepsUnmanaged
<1>2. CASE calls # << >> /\ Takes(Head(calls)) /\ Happens(Head(calls))
  <2> DEFINE c == Head(calls)
  <2>1. c \in DistributionCalls /\ c \in Range(calls)
    BY <1>2, HeadAndRest DEF DistributionInv, WorkTyped
  <2> HIDE DEF c
  <2>2. Takes(c) /\ Happens(c)
    BY <1>2 DEF c
  <2>3. c.call = "update" /\ current => KeepsUnmanaged(config, c.config)
    BY <2>1 DEF DistributionInv, WritesOK
  <2>4. config' = config \/ (config' = c.config /\ c.call = "update" /\ current)
    BY <2>1, <2>2, EffectOf
  <2> QED
    BY <1>1, <2>3, <2>4
<1>3. config' = config \/ (calls # << >> /\ Takes(Head(calls)) /\ Happens(Head(calls)))
  <2>1. Meddle \/ Deployed \/ UNCHANGED distributionVars => calls' = calls
    BY DEF Meddle, Interfere, Deployed, distributionVars
  <2>2. ApplyDistribution \/ WaitForDistribution \/ DestroyDistribution => config' = config
    BY DEF ApplyDistribution, WaitForDistribution, DestroyDistribution, Start, distribution
  <2>3. Complete \/ Rejected => config' = config
    BY DEF Complete, Rejected, distribution
  <2>4. Lost => config' = config \/ (calls # << >> /\ Takes(Head(calls)) /\ Happens(Head(calls)))
    BY DEF Lost, distribution
  <2> QED
    BY <2>1, <2>2, <2>3, <2>4 DEF DistributionNext, DistributionProgress, CallCloudfront
<1> QED
  BY <1>1, <1>2, <1>3

LEMMA UnmanagedStaysKept == DistributionSpec => UnmanagedKept
<1>1. DistributionInv /\ [DistributionNext]_distributionVars =>
        [calls' # calls /\ phase # "absent" /\ phase' # "absent" =>
            /\ config'.behaviors = config.behaviors
            /\ \A i \in DOMAIN config.origins \cap DOMAIN config'.origins :
                   \/ config'.origins[i].extra = config.origins[i].extra
                   \/ config.origins[i].extra = "typed"
                      /\ config'.origins[i].type # config.origins[i].type]_distributionVars
  BY StepKeepsUnmanaged DEF KeepsUnmanaged
<1> QED
  BY <1>1, DistributionInvariant, PTL DEF DistributionSpec, UnmanagedKept

-----------------------------------------------------------------------------
(* A distribution keeps the contract of the graph walks *)

Differs == compareDistributionConfig(config, generateConfig)

LEMMA DistributionConditionFacts ==
  /\ DistributionCondition \in {"absent", "drifted", "matching"}
  /\ DistributionCondition = "absent" <=> phase = "absent"
  /\ DistributionCondition = "matching" <=> phase # "absent" /\ ~ Differs /\ badTags = {}
  /\ DistributionCondition' \in {"absent", "drifted", "matching"}
  /\ DistributionCondition' = "absent" <=> phase' = "absent"
  /\ DistributionCondition' = "matching" <=> phase' # "absent" /\ ~ Differs' /\ badTags' = {}
BY DEF DistributionCondition, Differs

LEMMA DistributionCanReach ==
  DistributionPromise!Reachable(work) =
      IF work = "apply"
      THEN IF DistributionCondition = "absent" THEN {"absent", "drifted", "matching"}
           ELSE {"drifted", "matching"}
      ELSE IF DistributionCondition = "absent" THEN {"absent"}
      ELSE {DistributionCondition, "drifted", "absent"}
BY DEF DistributionPromise!Reachable, DistributionPromise!Conditions

LEMMA SameDistribution ==
  ASSUME UNCHANGED <<declared, config, badTags>>, phase' = "absent" <=> phase = "absent"
  PROVE  DistributionCondition' = DistributionCondition
<1>1. generateConfig' = generateConfig
  BY DEF generateConfig
<1>2. Differs' = Differs
  BY <1>1 DEF Differs
<1> QED
  BY <1>2 DEF DistributionCondition, Differs

\* What is disabled is not as declared.
LEMMA DisabledDiffers ==
  ASSUME declared \in DeclaredOrigins, NEW c, ~ c.enabled
  PROVE  compareDistributionConfig(c, generateConfig)
<1>1. Snapshot(c)[1] = c.enabled /\ Snapshot(generateConfig)[1] = generateConfig.enabled
  BY DEF Snapshot
<1> QED
  BY <1>1, Generated DEF compareDistributionConfig

\* Where a call may leave the distribution: an apply never deletes it; a destroy only
\* disables and deletes it.
LEMMA DistributionReaches ==
  ASSUME DistributionInv, work \in {"apply", "destroy"}, UNCHANGED declared,
         \/ UNCHANGED distribution
         \/ calls # << >> /\ Takes(Head(calls)) /\ Happens(Head(calls))
  PROVE  DistributionCondition' \in DistributionPromise!Reachable(work)
<1>1. CASE UNCHANGED distribution
  <2>1. DistributionCondition' = DistributionCondition
    BY <1>1, SameDistribution DEF distribution
  <2> QED
    BY <2>1, DistributionCanReach, DistributionConditionFacts
<1>2. CASE calls # << >> /\ Takes(Head(calls)) /\ Happens(Head(calls))
  <2> DEFINE c == Head(calls)
  <2>1. c \in DistributionCalls /\ c \in Range(calls)
    BY <1>2, HeadAndRest DEF DistributionInv, WorkTyped
  <2> HIDE DEF c
  <2>2. Takes(c) /\ Happens(c)
    BY <1>2 DEF c
  <2>3. WorkOK(work, Range(calls))
    BY DEF DistributionInv
  <2>4. CASE work = "apply"
    <3>1. c.call # "delete"
      BY <2>1, <2>3, <2>4 DEF WorkOK
    <3>2. phase # "absent" => phase' # "absent"
      BY <2>1, <2>2, <3>1, EffectOf
    <3> QED
      BY <2>4, <3>2, DistributionCanReach, DistributionConditionFacts
  <2>5. CASE work = "destroy"
    <3>1. /\ c.call \in {"update", "await", "delete"}
          /\ c.call = "update" => ~ c.config.enabled
      BY <2>1, <2>3, <2>5 DEF WorkOK
    <3>2. CASE c.call = "update"
      <4>1. phase # "absent" /\ phase' # "absent" /\ config' = c.config
        BY <2>1, <2>2, <3>2, EffectOf
      <4>2. generateConfig' = generateConfig /\ declared \in DeclaredOrigins
        BY DEF generateConfig, DistributionInv, DistributionTyped
      <4>3. Differs'
        BY <3>1, <3>2, <4>1, <4>2, DisabledDiffers DEF Differs
      <4>4. DistributionCondition' = "drifted"
        BY <4>1, <4>3, DistributionConditionFacts
      <4> QED
        BY <2>5, <4>1, <4>4, DistributionCanReach, DistributionConditionFacts
    <3>3. CASE c.call = "await"
      <4>1. DistributionCondition' = DistributionCondition
        BY <2>1, <2>2, <3>3, EffectOf, SameDistribution
      <4> QED
        BY <4>1, DistributionCanReach, DistributionConditionFacts
    <3>4. CASE c.call = "delete"
      <4>1. phase' = "absent"
        BY <2>1, <2>2, <3>4, EffectOf
      <4> QED
        BY <2>5, <4>1, DistributionCanReach, DistributionConditionFacts
    <3> QED
      BY <3>1, <3>2, <3>3, <3>4
  <2> QED
    BY <2>4, <2>5
<1> QED
  BY <1>1, <1>2

\* An operation nobody has interfered with is done when its calls are.
LEMMA DistributionReached ==
  ASSUME DistributionInv, work \in {"apply", "destroy"}, calls = << >>, ~ crossed
  PROVE  DistributionCondition = DistributionPromise!Goal(work)
<1>1. WorkAchieves(generateConfig, work, phase, config, badTags, {}) /\ badTags \subseteq {"missing", "extra"}
  BY NoCallsLeft DEF DistributionInv, DistributionTyped
<1>2. \A what : ~ Needs(what, {})
  BY DEF Needs
<1>3. CASE work = "apply"
  <2>1. phase # "absent" /\ ~ Differs /\ badTags = {}
    BY <1>1, <1>2, <1>3 DEF WorkAchieves, ApplyAchieves, Differs
  <2> QED
    BY <1>3, <2>1, DistributionConditionFacts DEF DistributionPromise!Goal
<1>4. CASE work = "destroy"
  <2>1. phase = "absent"
    BY <1>1, <1>2, <1>4 DEF WorkAchieves, DestroyAchieves
  <2> QED
    BY <1>4, <2>1, DistributionConditionFacts DEF DistributionPromise!Goal
<1> QED
  BY <1>3, <1>4

LEMMA DistributionStep ==
  ASSUME DistributionInv, [DistributionNext]_distributionVars
  PROVE  [DistributionPromise!Next]_(DistributionPromise!contract)
<1> WorkTyped /\ DistributionTyped
  BY DEF DistributionInv
<1>1. ASSUME NEW what \in {"apply", "wait", "destroy"}, NEW q, Start(what, q)
      PROVE  DistributionPromise!Next
  <2>1. /\ work = "none" /\ work' = what /\ crossed' = FALSE /\ crossed = FALSE
        /\ verdict' = "none"
        /\ UNCHANGED <<declared, phase, config, badTags>>
    BY <1>1 DEF Start, distribution, WorkTyped
  <2>2. DistributionCondition' = DistributionCondition
    BY <2>1, SameDistribution
  <2>3. CASE what # "wait"
    <3>1. DistributionPromise!Begin(what)
      BY <2>1, <2>2, <2>3 DEF DistributionPromise!Begin, Walked
    <3> QED
      BY <2>3, <3>1 DEF DistributionPromise!Next
  <2>4. CASE what = "wait"
    <3>1. DistributionPromise!Disturb
      BY <2>1, <2>2, <2>4, DistributionConditionFacts
         DEF DistributionPromise!Disturb, DistributionPromise!Conditions, Walked
    <3> QED
      BY <3>1 DEF DistributionPromise!Next
  <2> QED
    BY <2>3, <2>4
<1>2. CASE Meddle
  <2>1. crossed' = (work # "none") /\ verdict' = "none" /\ UNCHANGED work
    BY <1>2 DEF Meddle, Interfere
  <2>2. DistributionPromise!Disturb
    BY <2>1, DistributionConditionFacts
       DEF DistributionPromise!Disturb, DistributionPromise!Conditions, Walked
  <2> QED
    BY <2>2 DEF DistributionPromise!Next
<1>3. ASSUME work # "none", UNCHANGED <<declared, resolves>>,
             \/ UNCHANGED distribution
             \/ calls # << >> /\ Takes(Head(calls)) /\ Happens(Head(calls)),
             \/ UNCHANGED <<work, crossed, verdict>>
             \/ Stop("error")
             \/ Stop(work) /\ calls = << >> /\ UNCHANGED distribution
      PROVE  [DistributionPromise!Next]_(DistributionPromise!contract)
  <2>1. work \in {"apply", "wait", "destroy"} /\ verdict = "none"
    BY <1>3 DEF WorkTyped
  <2>2. CASE work = "wait"
    <3>1. UNCHANGED distribution
      <4>1. calls # << >> => Head(calls) \in DistributionCalls /\ Head(calls).call = "await"
        <5>1. calls # << >> => Head(calls) \in DistributionCalls /\ Head(calls) \in Range(calls)
          BY HeadAndRest DEF WorkTyped
        <5> QED
          BY <2>2, <5>1 DEF DistributionInv, WorkOK
      <4> QED
        BY <1>3, <4>1, EffectOf DEF distribution
    <3>2. DistributionCondition' = DistributionCondition
      BY <1>3, <3>1, SameDistribution DEF distribution
    <3>3. verdict' = "none" /\ (work' = "wait" \/ (work' = "none" /\ crossed' = FALSE))
      BY <1>3, <2>1, <2>2 DEF Stop
    <3> QED
      BY <2>1, <2>2, <3>2, <3>3 DEF DistributionPromise!contract, Walked
  <2>3. CASE work \in {"apply", "destroy"}
    <3>1. DistributionCondition' \in DistributionPromise!Reachable(work)
      BY <1>3, <2>3, DistributionReaches
    <3>2. CASE UNCHANGED <<work, crossed, verdict>>
      <4>1. DistributionPromise!Work
        BY <2>3, <3>1, <3>2 DEF DistributionPromise!Work, Walked
      <4> QED
        BY <4>1 DEF DistributionPromise!Next
    <3>3. CASE Stop("error")
      <4>1. work' = "none" /\ crossed' = FALSE /\ verdict' = "error"
        BY <2>3, <3>3 DEF Stop
      <4>2. DistributionPromise!Fail
        BY <2>3, <3>1, <4>1 DEF DistributionPromise!Fail, Walked
      <4> QED
        BY <4>2 DEF DistributionPromise!Next
    <3>4. CASE Stop(work) /\ calls = << >> /\ UNCHANGED distribution
      <4>1. /\ work' = "none" /\ crossed' = FALSE
            /\ verdict' = IF crossed THEN "none" ELSE work
        BY <2>3, <3>4 DEF Stop
      <4>2. DistributionCondition' = DistributionCondition
        BY <1>3, <3>4, SameDistribution DEF distribution
      <4>3. crossed \/ DistributionCondition' = DistributionPromise!Goal(work)
        BY <2>3, <3>4, <4>2, DistributionReached
      <4>4. DistributionPromise!Succeed
        BY <2>3, <3>1, <4>1, <4>3 DEF DistributionPromise!Succeed, Walked
      <4> QED
        BY <4>4 DEF DistributionPromise!Next
    <3> QED
      BY <1>3, <3>2, <3>3, <3>4
  <2> QED
    BY <2>1, <2>2, <2>3
<1>4. CASE CallCloudfront \/ Rejected
  <2>1. work # "none"
    BY <1>4 DEF CallCloudfront, Rejected, WorkTyped
  <2> QED
    BY <1>3, <1>4, <2>1 DEF CallCloudfront, Rejected, Stop
<1>5. CASE Complete \/ Lost
  BY <1>3, <1>5 DEF Complete, Lost, Stop
<1>6. CASE Deployed
  <2>1. DistributionCondition' = DistributionCondition
    BY <1>6, SameDistribution DEF Deployed
  <2> QED
    BY <1>6, <2>1 DEF Deployed, DistributionPromise!contract, Walked
<1>7. CASE UNCHANGED distributionVars
  <2>1. DistributionCondition' = DistributionCondition
    BY <1>7, SameDistribution DEF distributionVars, distribution
  <2> QED
    BY <1>7, <2>1 DEF distributionVars, DistributionPromise!contract, Walked
<1>8. CASE ApplyDistribution \/ WaitForDistribution \/ DestroyDistribution
  BY <1>1, <1>8 DEF ApplyDistribution, WaitForDistribution, DestroyDistribution
<1> QED
  BY <1>2, <1>4, <1>5, <1>6, <1>7, <1>8 DEF DistributionNext, DistributionProgress

LEMMA DistributionKeepsContract == DistributionSpec => DistributionContract
<1>1. DistributionInit => DistributionPromise!Init
  BY DistributionConditionFacts
     DEF DistributionInit, DistributionPromise!Init, DistributionPromise!Conditions, Walked
<1>2. DistributionInv /\ [DistributionNext]_distributionVars
        => [DistributionPromise!Next]_(DistributionPromise!contract)
  BY DistributionStep
<1> QED
  BY <1>1, <1>2, DistributionInvariant, PTL
     DEF DistributionSpec, DistributionContract, DistributionPromise!Contract

-----------------------------------------------------------------------------
(* The theorems *)

\* SiblingsKept (route53.go) and UnmanagedKept (cloudfront_distribution.go): whatever state
\* earlier runs and other people left, no apply or destroy of one of several weighted
\* records changes the others, and no write of a distribution changes what buildit does
\* not manage of it.
THEOREM OthersAreKept == RecordsSpec /\ DistributionSpec => OthersKept
BY SiblingsStayKept, UnmanagedStaysKept DEF OthersKept

\* A record (route53.go) and a distribution (cloudfront_distribution.go) do what the walks
\* of config/dag.go rely on: every step is one of ResourceContract, or none of its own.
THEOREM EdgeKeepsContract == RecordsSpec /\ DistributionSpec => EdgeContract
BY RecordKeepsContract, DistributionKeepsContract DEF EdgeContract
=============================================================================
