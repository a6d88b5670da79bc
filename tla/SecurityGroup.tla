---------------------------- MODULE SecurityGroup ----------------------------
(***************************************************************************)
(* One security group (resource/security_group.go), run after run: Apply   *)
(* compares the definition with what AWS has and creates or updates the    *)
(* group, Destroy waits for its network interfaces to go and deletes it.   *)
(* Both are sequences of AWS calls that stop at the first error.  Someone  *)
(* else may change the group between any two of them.                      *)
(***************************************************************************)
EXTENDS Integers, SequencesExt

CONSTANTS
    InPerms, OutPerms, \* permissions: a protocol, ports and source each
    AllTraffic,        \* the one AWS gives a new group outbound
    OwnGroup,          \* the permission whose source is the group itself
    Descs, NoDesc,     \* descriptions of rules, and the empty one
    Specs,             \* definitions: [inbound, outbound], sequences of rules
    Tags, WantedTags,  \* tags, no two with the same key; those of the definition
    MaxRetries         \* looks at the network interfaces before giving up

Rules(perms) == [perm : perms, desc : Descs]
DefaultRule  == [perm |-> AllTraffic, desc |-> NoDesc]

ASSUME PermsType  == AllTraffic \in OutPerms /\ NoDesc \in Descs
ASSUME SpecsType  == Specs \subseteq [inbound : Seq(Rules(InPerms)),
                                      outbound : Seq(Rules(OutPerms))]
ASSUME FiniteType == IsFiniteSet(Rules(InPerms)) /\ IsFiniteSet(Rules(OutPerms))
ASSUME TagsType   == WantedTags \subseteq Tags
ASSUME RetryType  == MaxRetries \in Nat \ {0}

VARIABLES
    spec,       \* the definition
    exists,     \* AWS has a group of this name
    inbound,    \* its inbound rules
    outbound,   \* its outbound rules
    tags,       \* its tags
    attached,   \* a network interface uses it
    run,        \* the operation that is running
    todo,       \* the AWS calls it has yet to make
    looks,      \* how often it looked at the network interfaces
    touched,    \* someone else changed the group since it began
    result      \* how it ended, until someone else changes the group

aws  == <<exists, inbound, outbound, tags, attached>>
vars == <<spec, aws, run, todo, looks, touched, result>>

PermsOf(rules)   == {r.perm : r \in rules}
OnePerPerm(rules) == \A r, s \in rules : r.perm = s.perm => r = s

Init ==
    /\ spec \in Specs
    /\ exists = FALSE /\ attached = FALSE
    /\ inbound = {} /\ outbound = {} /\ tags = {}
    /\ run = "none" /\ todo = << >> /\ looks = 0
    /\ touched = FALSE /\ result = "none"

-----------------------------------------------------------------------------
(* AWS *)

RefersToItself ==
    OwnGroup \in PermsOf(Range(spec.inbound) \cup Range(spec.outbound))

\* The groups that are the source of a rule are looked up by name.
\* A rule list with one permission twice is refused, and so is a permission
\* the group has already, or one to be revoked that it does not have.
Accepts(call) ==
    LET has == PermsOf(IF call.dir = "in" THEN inbound ELSE outbound)
    IN  CASE call.op = "create"    -> ~ exists
          [] call.op = "lookup"    -> RefersToItself => exists
          [] call.op = "authorize" ->
                 /\ exists
                 /\ \A i, j \in DOMAIN call.rules :
                        call.rules[i].perm = call.rules[j].perm => i = j
                 /\ \A r \in Range(call.rules) : r.perm \notin has
          [] call.op = "revoke"    -> exists /\ PermsOf(Range(call.rules)) \subseteq has
          [] call.op = "delete"    -> exists /\ ~ attached
          [] OTHER                 -> exists

Authorized(dir, rules, call) ==
    IF call.op = "authorize" /\ call.dir = dir THEN rules \cup Range(call.rules)
    ELSE IF call.op = "revoke" /\ call.dir = dir
    THEN {r \in rules : r.perm \notin PermsOf(Range(call.rules))}
    ELSE rules

\* What AWS does when it accepts a call.
Perform(call) ==
    /\ exists'   = CASE call.op = "create" -> TRUE
                     [] call.op = "delete" -> FALSE
                     [] OTHER              -> exists
    /\ inbound'  = IF call.op \in {"create", "delete"} THEN {}
                   ELSE Authorized("in", inbound, call)
    /\ outbound' = CASE call.op = "create" -> {DefaultRule}
                     [] call.op = "delete" -> {}
                     [] OTHER              -> Authorized("out", outbound, call)
    /\ tags'     = CASE call.op \in {"create", "delete"} -> {}
                     [] call.op = "tag"   -> tags \cup call.tags
                     [] call.op = "untag" -> tags \ call.tags
                     [] OTHER             -> tags
    /\ UNCHANGED attached

-----------------------------------------------------------------------------
(* The calls of each operation *)

RuleCall(op, dir, rules) == [op |-> op, dir |-> dir, rules |-> rules, tags |-> {}]
TagCall(op, ts)          == [op |-> op, dir |-> "none", rules |-> << >>, tags |-> ts]
PlainCall(op)            == TagCall(op, {})

\* A call without rules or tags to send is not made.
Made(call) ==
    IF \/ call.op \in {"authorize", "revoke"} /\ call.rules = << >>
       \/ call.op \in {"tag", "untag"} /\ call.tags = {}
    THEN << >> ELSE <<call>>

\* apply.  The flattened rules are sent as written: a duplicate is only warned of.
Creation ==
    <<PlainCall("lookup"), PlainCall("create"), PlainCall("await"),
      RuleCall("revoke", "out", <<DefaultRule>>)>>
    \o (Made(TagCall("tag", WantedTags))
    \o (Made(RuleCall("authorize", "in", spec.inbound))
    \o Made(RuleCall("authorize", "out", spec.outbound))))

\* Mutant: every rule of the group is revoked and added again.
Everything(wanted, has) == SetToSeq(has)

\* diffRules makes sets of both lists; description included.
Missing(wanted, has) == SetToSeq(Range(wanted) \ has)
Surplus(wanted, has) == SetToSeq(has \ Range(wanted))

\* Mutants: tags are only added; new rules are added before old ones go.
MendNeverUntagging == Made(TagCall("tag", WantedTags \ tags))
MendAddingFirst(dir, wanted, has) ==
    Made(RuleCall("authorize", dir, Missing(wanted, has)))
    \o Made(RuleCall("revoke", dir, Surplus(wanted, has)))

\* applyDiffs: the rules of each direction, and then the tags.
Mend(dir, wanted, has) ==
    Made(RuleCall("revoke", dir, Surplus(wanted, has)))
    \o Made(RuleCall("authorize", dir, Missing(wanted, has)))
MendTags == Made(TagCall("tag", WantedTags \ tags)) \o Made(TagCall("untag", tags \ WantedTags))

Update ==
    Mend("in", spec.inbound, inbound) \o (Mend("out", spec.outbound, outbound) \o MendTags)

\* The difference is nil when none of these differs; the vpc and the description
\* only make messages.
SameAsSpec ==
    /\ inbound = Range(spec.inbound)
    /\ outbound = Range(spec.outbound)
    /\ tags = WantedTags

-----------------------------------------------------------------------------
(* Operations *)

Begin(operation, calls) ==
    /\ run = "none"
    /\ run' = operation
    /\ todo' = calls
    /\ touched' = FALSE
    /\ result' = "none"
    /\ UNCHANGED <<spec, aws, looks>>

\* Apply: Compare, and then apply or applyDiffs.  With no difference Update
\* has no call.
Apply == Begin("apply", IF exists THEN Update ELSE Creation)

Destroy ==
    Begin("destroy", IF exists THEN <<PlainCall("look"), PlainCall("delete")>> ELSE << >>)

End(outcome) ==
    /\ run' = "none"
    /\ todo' = << >>
    /\ looks' = 0
    /\ touched' = FALSE
    /\ result' = outcome

Call(op) == todo # << >> /\ Head(todo).op = op

MakeCall ==
    /\ todo # << >>
    /\ Head(todo).op # "look"
    /\ Accepts(Head(todo))
    /\ Perform(Head(todo))
    /\ todo' = Tail(todo)
    /\ UNCHANGED <<spec, run, looks, touched, result>>

Refused ==
    /\ todo # << >>
    /\ Head(todo).op # "look"
    /\ ~ Accepts(Head(todo))
    /\ End("error")
    /\ UNCHANGED <<spec, aws>>

\* waitUntilSecurityGroupDisassociated
SeeNoInterface ==
    /\ Call("look")
    /\ ~ attached
    /\ todo' = Tail(todo)
    /\ UNCHANGED <<spec, aws, run, looks, touched, result>>

LookAgain ==
    /\ Call("look")
    /\ attached
    /\ looks + 1 < MaxRetries
    /\ looks' = looks + 1
    /\ UNCHANGED <<spec, aws, run, todo, touched, result>>

GiveUp ==
    /\ Call("look")
    /\ attached
    /\ looks + 1 >= MaxRetries
    /\ End("error")
    /\ UNCHANGED <<spec, aws>>

Succeed ==
    /\ run # "none"
    /\ todo = << >>
    /\ End(IF touched THEN "none" ELSE run)
    /\ UNCHANGED <<spec, aws>>

\* A call fails, or AWS performs it and the answer is lost, or ctx is cancelled.
Fail ==
    /\ run # "none"
    /\ \/ UNCHANGED aws
       \/ todo # << >> /\ Accepts(Head(todo)) /\ Perform(Head(todo))
    /\ End("error")
    /\ UNCHANGED spec

-----------------------------------------------------------------------------
(* Everyone else *)

Others(change) ==
    /\ change
    /\ touched' = (run # "none")
    /\ result' = "none"
    /\ UNCHANGED <<spec, run, todo, looks>>

\* Someone opens or closes one permission, or edits its description.
EditRule ==
    /\ exists
    /\ \/ /\ inbound' \in SUBSET Rules(InPerms)
          /\ \E p \in InPerms : \A r \in inbound \cup inbound' :
                 r.perm # p => r \in inbound \cap inbound'
          /\ OnePerPerm(inbound')
          /\ UNCHANGED outbound
       \/ /\ outbound' \in SUBSET Rules(OutPerms)
          /\ \E p \in OutPerms : \A r \in outbound \cup outbound' :
                 r.perm # p => r \in outbound \cap outbound'
          /\ OnePerPerm(outbound')
          /\ UNCHANGED inbound
    /\ UNCHANGED <<exists, tags, attached>>

EditTag ==
    /\ exists
    /\ \E t \in Tags : tags' = IF t \in tags THEN tags \ {t} ELSE tags \cup {t}
    /\ UNCHANGED <<exists, inbound, outbound, attached>>

\* A group of this name that buildit did not make.  buildit looks a group up by
\* its name alone, so it may be in another vpc or have another description.
CreateByHand ==
    /\ ~ exists
    /\ exists' = TRUE
    /\ outbound' = {DefaultRule}
    /\ UNCHANGED <<inbound, tags, attached>>

DeleteByHand ==
    /\ exists
    /\ ~ attached
    /\ exists' = FALSE
    /\ inbound' = {} /\ outbound' = {} /\ tags' = {}
    /\ UNCHANGED attached

\* An interface is the work of the resource that uses the group; nothing
\* buildit promises of the group depends on it.
Attach ==
    /\ exists
    /\ attached' = ~ attached
    /\ UNCHANGED <<spec, exists, inbound, outbound, tags, run, todo, looks,
                   touched, result>>

Progress == MakeCall \/ Refused \/ SeeNoInterface \/ LookAgain \/ GiveUp \/ Succeed
Disturb  == Others(EditRule) \/ Others(EditTag) \/ Others(CreateByHand) \/ Others(DeleteByHand)

Next == Apply \/ Destroy \/ Progress \/ Fail \/ Disturb \/ Attach

Spec     == Init /\ [][Next]_vars
FairSpec == Spec /\ WF_vars(Progress)

-----------------------------------------------------------------------------
(* Properties *)

\* What the graph walks rely on: an apply never removes the group, a destroy never
\* builds it, and either reports success only when it reached its goal, unless
\* someone else interfered during the call.
Condition == IF ~ exists THEN "absent" ELSE IF SameAsSpec THEN "matching" ELSE "drifted"
Promise == INSTANCE ResourceContract WITH
               condition <- Condition, call <- run, disturbed <- touched, outcome <- result
ImplementsContract == Promise!Contract

\* buildit never opens a rule the definition does not want, but for the one AWS
\* itself gives a new group, and an apply never closes, even for a moment, a rule
\* that is as the definition wants it.
ByBuildit == run # "none" /\ ~ touched /\ ~ touched'
OnlyTowardsSpec ==
    [][ByBuildit =>
        /\ inbound' \ inbound \subseteq Range(spec.inbound)
        /\ outbound' \ outbound \subseteq
               Range(spec.outbound) \cup IF exists THEN {} ELSE {DefaultRule}
        /\ run = "apply" =>
               /\ inbound \cap Range(spec.inbound) \subseteq inbound'
               /\ (outbound \cap Range(spec.outbound)) \ {DefaultRule} \subseteq outbound']_vars

\* Once nobody interferes and calls stop failing, repeated applies bring the group
\* to its definition, whatever earlier runs left of it, unless the definition gives
\* one permission two descriptions, or names the group itself before it exists.
Contradictory ==
    ~ (OnePerPerm(Range(spec.inbound)) /\ OnePerPerm(Range(spec.outbound)))
Uncreatable == ~ exists /\ RefersToItself
Undisturbed == <>[][Apply \/ Progress \/ Attach]_vars /\ []<><<Apply>>_vars
Converges ==
    Undisturbed => <>[]((exists /\ SameAsSpec) \/ Contradictory \/ Uncreatable)
=============================================================================
