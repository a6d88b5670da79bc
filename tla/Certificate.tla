------------------------------ MODULE Certificate ------------------------------
(***************************************************************************)
(* Several certificate resources that may share a domain, run after run    *)
(* (resource/certificate.go, awsw/acm.go).  Apply finds the certificate    *)
(* that is the resource's own by domain and buildit:resource-id tag,       *)
(* requests one when there is none, writes the validation records ACM asks *)
(* for, one per domain and account, and waits until ACM has issued it.     *)
(* Destroy removes the records and then the certificate.  The process does *)
(* one resource at a time; ACM and other people act between its calls.     *)
(***************************************************************************)
EXTENDS Integers, FiniteSets

CONSTANTS
    Resources,     \* certificate resources, each with its resource-id
    Domains,       \* domain names
    Arns, NoArn,   \* certificates, bounded; and none
    NoId,          \* the resource-id of a certificate that has no such tag
    FirstDomain,   \* DomainName of each resource: [Resources -> Domains]
    San,           \* ... and its alternative names: [Resources -> SUBSET Domains]
    NameDomain,    \* the domain a resource is named after, NoDomain if none
    NoDomain,
    Renamed,       \* resources whose domainName the user edits
    ByHand,        \* domains others request certificates for
    ZoneSets,      \* what public zones an account may have, as the domains in them
    Focus,         \* the resource the contract is stated for
    MaxLooks       \* looks at a certificate before a wait gives up: retriesRemaining

\* `status` is absent, pending, issued or failed; `details`, whether ACM tells the
\* validation options (partial) and the record of each (ready).
NoCert == [status |-> "absent", domain |-> NoDomain, names |-> {}, id |-> NoId,
           details |-> "none"]

ASSUME ArnsType  == IsFiniteSet(Arns) /\ NoArn \notin Arns
ASSUME NamesType == /\ FirstDomain \in [Resources -> Domains]
                    /\ San \in [Resources -> SUBSET Domains]
                    /\ NameDomain \in [Resources -> Domains \cup {NoDomain}]
                    /\ NoDomain \notin Domains /\ NoId \notin Resources
                    /\ Renamed \subseteq Resources /\ ByHand \subseteq Domains
                    /\ ZoneSets \subseteq SUBSET Domains /\ Focus \in Resources
ASSUME LooksType == MaxLooks \in Nat \ {0}

VARIABLES
    certs,    \* the certificates of the account
    records,  \* the domains that have their validation record
    zones,    \* the domains that are in a public zone
    cn,       \* DomainName of each resource
    op,       \* the operation under way, or none
    who,      \* its resource, or that of the last one
    pc,       \* its next call
    on,       \* the certificate it found or requested
    left,     \* domains whose record it has yet to write or remove
    retag,    \* the comparison saw other tags
    looks,    \* how often the wait under way looked
    touched,  \* someone else changed a certificate since it began
    result    \* how it ended, until someone else changes a certificate

acm  == <<certs, records>>
run  == <<op, who, pc, on, left, retag, looks>>
vars == <<acm, zones, cn, run, touched, result>>

Init ==
    /\ certs = [a \in Arns |-> NoCert]
    /\ records = {}
    /\ zones \in ZoneSets
    /\ cn = FirstDomain
    /\ op = "none" /\ who = Focus /\ pc = "idle" /\ on = NoArn
    /\ left = {} /\ retag = FALSE /\ looks = 0
    /\ touched = FALSE /\ result = "none"

Live     == {a \in Arns : certs[a].status # "absent"}
Names(r) == {cn[r]} \cup San[r]

-----------------------------------------------------------------------------
(* FindCertificateForResource *)

\* Mutant: only issued certificates are listed.
ByDomainIssued(r) == {a \in Live : certs[a].domain = cn[r] /\ certs[a].status = "issued"}

ByDomain(r)    == {a \in Live : certs[a].domain = cn[r]}
Tagged(S, r)   == {a \in S : certs[a].id = r}
Unclaimed(S)   == {a \in S : certs[a].id = NoId}
Single(S)      == Cardinality(S) = 1

\* A lookup that fails: nothing tells which certificate is meant, or the domain
\* of a resource that is not named after it has changed.
Unsettled(r) ==
    LET m == ByDomain(r) IN
    \/ m = {} /\ NameDomain[r] # cn[r] /\ Tagged(Live, r) # {}
    \/ /\ Cardinality(m) > 1
       /\ \/ Cardinality(Tagged(m, r)) > 1
          \/ Tagged(m, r) = {} /\ Unclaimed(m) # {}

\* Mutant: a single certificate of the domain is taken whoever it belongs to.
OwnSingle(r) ==
    LET m == ByDomain(r) IN IF Single(m) THEN m ELSE Tagged(m, r)

\* The resource's own certificate, as a set of one, or none: a single one of the
\* domain also when nobody has tagged it.
Own(r) ==
    LET m == ByDomain(r) IN
    IF Single(m) THEN Tagged(m, r) \cup Unclaimed(m) ELSE Tagged(m, r)

-----------------------------------------------------------------------------
(* The run *)

Begin(operation, r) ==
    /\ op = "none"
    /\ op' = operation
    /\ who' = r
    /\ pc' = "find"
    /\ on' = NoArn
    /\ left' = {}
    /\ retag' = FALSE
    /\ looks' = 0
    /\ touched' = FALSE
    /\ result' = "none"
    /\ UNCHANGED <<acm, zones, cn>>

End(outcome) ==
    /\ op' = "none"
    /\ pc' = "idle"
    /\ on' = NoArn
    /\ left' = {}
    /\ retag' = FALSE
    /\ looks' = 0
    /\ touched' = FALSE
    /\ result' = outcome
    /\ UNCHANGED <<zones, cn, who>>

Success == End(IF touched THEN "none" ELSE op) /\ UNCHANGED acm
Error   == End("error") /\ UNCHANGED acm

\* Every other step of a run goes on to the call next.
Go(next) == pc' = next /\ UNCHANGED <<zones, cn, op, who, touched, result>>

FindNone ==
    /\ pc = "find"
    /\ ~ Unsettled(who)
    /\ Own(who) = {}
    /\ IF op = "destroy" THEN Success
       ELSE Go("compare") /\ UNCHANGED <<acm, on, left, retag, looks>>

FindOwn ==
    /\ pc = "find"
    /\ ~ Unsettled(who)
    /\ on' \in Own(who)
    /\ Go(IF op = "destroy" THEN "describe" ELSE "compare")
    /\ UNCHANGED <<acm, left, retag, looks>>

FindUnsettled ==
    /\ pc = "find"
    /\ Unsettled(who)
    /\ Error

Gone     == on = NoArn \/ on \notin Live
Cert     == certs[on]
Awaited  == ~ Gone /\ Cert.status = "pending"

-----------------------------------------------------------------------------
(* Compare, and the choice between apply and applyDiffs *)

\* Mutant: what is still being validated counts as done.
NeverValidating == FALSE

Validating == Cert.status = "pending"

\* Every domain must be in a public zone before ACM is asked for anything.
CompareUnplaceable ==
    /\ pc = "compare"
    /\ Gone \/ Awaited
    /\ ~ (Names(who) \subseteq zones)
    /\ Error

CompareAbsent ==
    /\ pc = "compare"
    /\ Gone
    /\ Names(who) \subseteq zones
    /\ on' = NoArn
    /\ Go("request")
    /\ UNCHANGED <<acm, left, retag, looks>>

Comparable == pc = "compare" /\ ~ Gone /\ (Awaited => Names(who) \subseteq zones)

\* Neither the domain nor the alternative names can change.
CompareOtherNames ==
    /\ Comparable
    /\ Cert.names # Names(who)
    /\ Error

CompareSame ==
    /\ Comparable
    /\ Cert.names = Names(who)
    /\ ~ Validating
    /\ Cert.id = who
    /\ Success

CompareDifferent ==
    /\ Comparable
    /\ Cert.names = Names(who)
    /\ Validating \/ Cert.id # who
    /\ retag' = (Cert.id # who)
    /\ Go(IF Validating THEN "details" ELSE "tag")
    /\ UNCHANGED <<acm, on, left, looks>>

-----------------------------------------------------------------------------
(* RequestCertificate, and what follows it *)

Requested(r) == [status |-> "pending", domain |-> cn[r], names |-> Names(r), id |-> r,
                 details |-> "none"]

\* Arns is also the account's quota of certificates.
Free == Arns \ (Live \cup {on})

Request ==
    /\ pc = "request"
    /\ Free # {}
    /\ on' = CHOOSE a \in Free : TRUE
    /\ certs' = [certs EXCEPT ![on'] = Requested(who)]
    /\ Go("details")
    /\ UNCHANGED <<records, left, retag, looks>>

RequestRefused ==
    /\ pc = "request"
    /\ Free = {}
    /\ Error

\* waitUntilDomainValidationDetailsAvailable: no options at all are options that
\* all have their record.
SeeDetails ==
    /\ pc = "details"
    /\ Awaited
    /\ Cert.details # "partial"
    /\ left' = IF Cert.details = "ready" THEN Cert.names ELSE {}
    /\ looks' = 0
    /\ Go("place")
    /\ UNCHANGED <<acm, on, retag>>

\* Whoever else has written the record has had the certificate issued before the
\* run saw it pending: that, too, is an error.
SeeNotPending ==
    /\ pc = "details"
    /\ ~ Awaited
    /\ Error

Waits      == pc \in {"details", "validated"}
NotYet     == Awaited /\ (pc = "details" => Cert.details = "partial")

LookAgain ==
    /\ Waits
    /\ NotYet
    /\ looks + 1 < MaxLooks
    /\ looks' = looks + 1
    /\ Go(pc)
    /\ UNCHANGED <<acm, on, left, retag>>

GiveUp ==
    /\ Waits
    /\ NotYet
    /\ looks + 1 >= MaxLooks
    /\ Error

\* manageDNSValidation, one record after the other.
Place(d) ==
    /\ pc = "place"
    /\ d \in left
    /\ d \in zones
    /\ records' = records \cup {d}
    /\ left' = left \ {d}
    /\ Go("place")
    /\ UNCHANGED <<certs, on, retag, looks>>

CannotPlace ==
    /\ pc \in {"place", "clear"}
    /\ left \ zones # {}
    /\ Error

Placed ==
    /\ pc = "place"
    /\ left = {}
    /\ Go("validated")
    /\ UNCHANGED <<acm, on, left, retag, looks>>

\* waitUntilCertificateValidated
SeeIssued ==
    /\ pc = "validated"
    /\ ~ Gone
    /\ Cert.status = "issued"
    /\ IF retag THEN Go("tag") /\ looks' = 0 /\ UNCHANGED <<acm, on, left, retag>>
       ELSE Success

SeeFailed ==
    /\ pc = "validated"
    /\ Gone \/ Cert.status = "failed"
    /\ Error

Tag ==
    /\ pc = "tag"
    /\ ~ Gone
    /\ certs' = [certs EXCEPT ![on].id = who]
    /\ retag' = FALSE
    /\ Go("done")
    /\ UNCHANGED <<records, on, left, looks>>

CannotTag ==
    /\ pc = "tag"
    /\ Gone
    /\ Error

Done == pc = "done" /\ Success

-----------------------------------------------------------------------------
(* Destroy *)

DescribeGone ==
    /\ pc = "describe"
    /\ Gone
    /\ Success

DescribeLive ==
    /\ pc = "describe"
    /\ ~ Gone
    /\ left' = IF Cert.details = "ready" THEN Cert.names ELSE {}
    /\ Go("clear")
    /\ UNCHANGED <<acm, on, retag, looks>>

Clear(d) ==
    /\ pc = "clear"
    /\ d \in left \cap zones
    /\ records' = records \ {d}
    /\ left' = left \ {d}
    /\ Go("clear")
    /\ UNCHANGED <<certs, on, retag, looks>>

\* Mutant: only the records are removed.
ForgetDelete ==
    /\ pc = "clear"
    /\ left = {}
    /\ ~ Gone
    /\ Go("done")
    /\ UNCHANGED <<acm, on, left, retag, looks>>

Delete ==
    /\ pc = "clear"
    /\ left = {}
    /\ ~ Gone
    /\ certs' = [certs EXCEPT ![on] = NoCert]
    /\ Go("done")
    /\ UNCHANGED <<records, on, left, retag, looks>>

CannotDelete ==
    /\ pc = "clear"
    /\ left = {}
    /\ Gone
    /\ Error

-----------------------------------------------------------------------------
(* Faults *)

\* What the call may have done although it reports an error.
LostAnswer ==
    \/ UNCHANGED acm
    \/ /\ pc = "request" /\ Free # {}
       /\ certs' = [certs EXCEPT ![CHOOSE a \in Free : TRUE] = Requested(who)]
       /\ UNCHANGED records
    \/ /\ pc = "place" /\ \E d \in left \cap zones : records' = records \cup {d}
       /\ UNCHANGED certs
    \/ /\ pc = "clear" /\ \E d \in left \cap zones : records' = records \ {d}
       /\ UNCHANGED certs
    \/ /\ pc = "clear" /\ left = {} /\ ~ Gone
       /\ certs' = [certs EXCEPT ![on] = NoCert]
       /\ UNCHANGED records
    \/ /\ pc = "tag" /\ ~ Gone
       /\ certs' = [certs EXCEPT ![on].id = who]
       /\ UNCHANGED records

\* A call fails, the delete of a certificate in use among them, or its answer is
\* lost, or the process is killed.
Fail ==
    /\ op # "none"
    /\ LostAnswer
    /\ End("error")

-----------------------------------------------------------------------------
(* ACM: external *)

Acm(change) == change /\ UNCHANGED <<zones, cn, run, touched, result>>

Offer(a) ==
    /\ certs[a].status = "pending"
    /\ certs[a].details # "ready"
    /\ certs' = [certs EXCEPT ![a].details = IF @ = "none" THEN "partial" ELSE "ready"]
    /\ UNCHANGED records

Issue(a) ==
    /\ certs[a].status = "pending"
    /\ certs[a].details = "ready"
    /\ certs[a].names \subseteq records
    /\ certs' = [certs EXCEPT ![a].status = "issued"]
    /\ UNCHANGED records

\* A validation times out, or a renewal fails for want of a record.
Lapse(a) ==
    /\ \/ certs[a].status = "pending"
       \/ certs[a].status = "issued" /\ ~ (certs[a].names \subseteq records)
    /\ certs' = [certs EXCEPT ![a].status = "failed"]
    /\ UNCHANGED records

-----------------------------------------------------------------------------
(* Everyone else *)

Others(change) ==
    /\ change
    /\ touched' = (op # "none")
    /\ result' = "none"
    /\ UNCHANGED <<records, zones, run>>

\* A certificate buildit did not make; cap: one untagged certificate at a time.
RequestByHand(d) ==
    /\ Unclaimed(Live) = {}
    /\ Free # {}
    /\ certs' = [certs EXCEPT ![CHOOSE a \in Free : TRUE] =
                    [status |-> "pending", domain |-> d, names |-> {d}, id |-> NoId,
                     details |-> "none"]]
    /\ UNCHANGED cn

DeleteByHand(a) ==
    /\ a \in Live
    /\ certs' = [certs EXCEPT ![a] = NoCert]
    /\ UNCHANGED cn

UntagByHand(a) ==
    /\ a \in Live
    /\ Unclaimed(Live) = {}
    /\ certs' = [certs EXCEPT ![a].id = NoId]
    /\ UNCHANGED cn

\* Between two runs the user gives a resource another domainName.
EditDomain(r) ==
    /\ op = "none"
    /\ cn' \in [Resources -> Domains]
    /\ \A q \in Resources : (cn'[q] # cn[q]) <=> q = r
    /\ UNCHANGED certs

Apply    == \E r \in Resources : Begin("apply", r)
Destroy  == \E r \in Resources : Begin("destroy", r)
Find     == FindNone \/ FindOwn \/ FindUnsettled
Compare  == CompareUnplaceable \/ CompareAbsent \/ CompareOtherNames \/ CompareSame
            \/ CompareDifferent
Wait     == SeeDetails \/ SeeNotPending \/ LookAgain \/ GiveUp \/ SeeIssued \/ SeeFailed
Write    == Request \/ RequestRefused \/ (\E d \in Domains : Place(d)) \/ CannotPlace \/ Placed
            \/ Tag \/ CannotTag \/ Done
Remove   == DescribeGone \/ DescribeLive \/ (\E d \in Domains : Clear(d))
            \/ Delete \/ CannotDelete
Progress == Find \/ Compare \/ Wait \/ Write \/ Remove
Validate == \E a \in Arns : Acm(Offer(a)) \/ Acm(Issue(a))
Disturb  == \/ \E d \in ByHand : Others(RequestByHand(d))
            \/ \E a \in Arns : Others(DeleteByHand(a)) \/ Others(UntagByHand(a))
            \/ \E r \in Renamed : Others(EditDomain(r))

Next == Apply \/ Destroy \/ Progress \/ Fail \/ Validate \/ Disturb
        \/ \E a \in Arns : Acm(Lapse(a))

Spec     == Init /\ [][Next]_vars
\* A run goes on by itself, and ACM deals with each certificate in the end.
Fairness == WF_vars(Progress) /\ \A a \in Arns : WF_vars(Acm(Offer(a)) \/ Acm(Issue(a)))
FairSpec == Spec /\ Fairness

-----------------------------------------------------------------------------
(* Properties *)

\* A run never deletes or retags the certificate of another resource, however many
\* share the domain, and never takes an untagged one while its own is there.
ByBuildit == op # "none" /\ ~ touched /\ ~ touched'
OwnCertificates ==
    [][ByBuildit =>
        \A a \in Live :
            (certs'[a] = NoCert \/ certs'[a].id # certs[a].id) =>
                \/ certs[a].id = who
                \/ certs[a].id = NoId /\ Tagged(ByDomain(who), who) = {}]_vars

\* No two certificates belong to one resource, whatever failed, was lost or was
\* changed by hand in between, unless its domainName was edited.
OneCertificateEach ==
    \A r \in Resources \ Renamed : Cardinality(Tagged(Live, r)) <= 1

\* What the graph walks rely on (SecurityGroup keeps it too): success of an apply
\* means a certificate that is the resource's own, with its names.
Condition ==
    LET own == Tagged(Live, Focus) IN
    IF own = {} THEN "absent"
    ELSE IF \E a \in own : certs[a].domain = cn[Focus] /\ certs[a].names = Names(Focus)
    THEN "matching" ELSE "drifted"
Mine(v) == IF who = Focus THEN v ELSE "none"
Promise == INSTANCE ResourceContract WITH
               condition <- Condition, call <- Mine(op),
               disturbed <- who = Focus /\ touched, outcome <- Mine(result)
ImplementsContract == Promise!Contract

\* An apply does not report success while its certificate awaits validation: what
\* comes next in the graph may use it.
SuccessIsNotPending ==
    result = "apply" =>
        \E a \in Live : certs[a].id = who /\ certs[a].status \in {"issued", "failed"}

\* Once faults and changes by others stop, repeated applies of a resource bring it
\* a certificate that is issued, unless no zone can take its records, ACM has given
\* up on its certificate, or the account has certificates that only a person can
\* tell apart.
Issued(r) == \E a \in Live : certs[a].id = r /\ certs[a].status = "issued"
Hopeless(r) ==
    \/ ~ (Names(r) \subseteq zones)
    \/ Unsettled(r)
    \/ \E a \in Own(r) : certs[a].status = "failed" \/ certs[a].names # Names(r)
    \/ Own(r) = {} /\ Free = {}
Converges ==
    /\ <>[][Apply \/ Progress \/ Validate]_vars
    /\ []<><<Begin("apply", Focus)>>_vars
    => <>[](Issued(Focus) \/ Hopeless(Focus))
=============================================================================
