---------------------------- MODULE ResourceKinds ----------------------------
(***************************************************************************)
(* One resource of any kind in a table (KindCalls), run after run.  Every  *)
(* kind has the same control: Apply looks at AWS (Compare), and creates    *)
(* what is not there (apply) or makes the calls for what differs           *)
(* (applyDiffs); Destroy looks, removes the parts and deletes.  Each call  *)
(* may be refused, fail, or succeed and lose its answer; AWS takes its     *)
(* time over some; other people edit, make and delete.                     *)
(***************************************************************************)
EXTENDS FiniteSets, KindRules

CONSTANTS Kinds,        \* the table: name |-> Row
          MaxDifferent  \* how many facets a new definition or an hand leaves wrong

ASSUME KindsInOrder == \A k \in DOMAIN Kinds : InOrder(Kinds[k])
ASSUME BoundType == MaxDifferent \in Nat

VARIABLES
    kind,    \* the kind of the resource
    status,  \* absent, busy (AWS is still at work), ready, or going (being deleted)
    right,   \* the facets that are as the definition has them
    parts,   \* parts of it that keep it from being deleted
    op,      \* the operation that is running; "undo" is an apply destroying again
    plan,    \* the steps it takes: those of a creation, an update or a removal
    todo,    \* the places of the calls it has yet to make
    began,   \* the status it found
    touched, \* others changed the resource since then
    result   \* how it ended, until others change the resource

aws  == <<status, right, parts>>
run  == <<op, plan, todo, began, touched, result>>
vars == <<kind, aws, run>>

K == Kinds[kind]

Plans == [k \in DOMAIN Kinds |->
             [name \in {"none", "create", "update", "removal"} |-> Plan(Kinds[k], name)]]
Steps == Plans[kind][plan]

Init ==
    /\ kind \in DOMAIN Kinds
    /\ status = "absent" /\ right = {} /\ parts = {}
    /\ op = "none" /\ plan = "none" /\ todo = {} /\ began = "absent"
    /\ touched = FALSE /\ result = "none"

-----------------------------------------------------------------------------
(* Compare *)

Exists == status \in {"busy", "ready"} \/ (K.ghost /\ status = "going")
Seen  == [k \in DOMAIN Kinds |-> UNION {Kinds[k].update[i].on : i \in DOMAIN Kinds[k].update}]

\* Mutant: the comparison of the tags is left out.
DiffsUntagged == (Seen[kind] \ right) \ {"tags"}

Diffs == Seen[kind] \ right

Begin(o, name, what) ==
    /\ op = "none"
    /\ op' = o
    /\ plan' = name
    /\ todo' = Due(Plans[kind][name], what)
    /\ began' = status
    /\ touched' = FALSE
    /\ result' = "none"
    /\ UNCHANGED <<kind, aws>>

\* Mutant: what exists is left as it is.
ApplyOnce == Begin("apply", IF Exists THEN "none" ELSE "create", Diffs)

Apply == Begin("apply", IF Exists THEN "update" ELSE "create", Diffs)

\* Mutant: nobody looks for what keeps AWS from deleting the resource.
DestroyUnprepared == Begin("destroy", IF Exists THEN "removal" ELSE "none", {})

Destroy == Begin("destroy", IF Exists THEN "removal" ELSE "none", parts)

-----------------------------------------------------------------------------
(* AWS calls *)

Accepts(c) ==
    CASE c.does = "make"      -> status = "absent"
      [] c.does = "put"       -> status = "ready" \/ (status = "busy" /\ ~ c.strict)
      [] c.does = "delete"    -> /\ status = "ready" \/ (status = "busy" /\ ~ c.strict)
                                 /\ parts = {}
      [] c.does = "await"     -> status = "ready"
      [] c.does = "awaitGone" -> status = "absent"
      [] c.does = "refuse"    -> FALSE
      [] c.does = "giveUp"    -> TRUE

Waits(c) ==
    \/ c.does = "await" /\ status = "busy"
    \/ c.does = "awaitGone" /\ status = "going"

Gone == status' = "absent" /\ right' = {} /\ parts' = {}

Perform(c) ==
    CASE c.does \in {"make", "put"} ->
             /\ status' = IF c.slow THEN "busy" ELSE IF c.does = "make" THEN "ready" ELSE status
             /\ right' = (right \ c.takes) \cup c.puts
             /\ parts' = (parts \cup c.adds) \ c.clears
      [] c.does = "delete" /\ c.slow   -> status' = "going" /\ UNCHANGED <<right, parts>>
      [] c.does = "delete" /\ ~ c.slow -> Gone
      [] OTHER                         -> UNCHANGED aws

Todo(p) == At(Steps, p)

\* The call at this place is the next one.
IsNext(p) == p \in todo /\ \A q \in todo : q # p => Precedes(p, q)

Running == op # "none" /\ todo # {}

MakeCall ==
    \E p \in todo :
        /\ Running /\ IsNext(p)
        /\ Accepts(Todo(p))
        /\ Perform(Todo(p))
        /\ todo' = IF Todo(p).does = "giveUp" THEN {} ELSE todo \ {p}
        /\ UNCHANGED <<kind, op, plan, began, touched, result>>

\* Who takes a resource that is being deleted for existing can promise nothing.
Promising == ~ (K.ghost /\ began = "going")

End(outcome) ==
    /\ op' = "none" /\ plan' = "none" /\ todo' = {}
    /\ began' = "absent" /\ touched' = FALSE
    /\ result' = IF Promising THEN outcome ELSE "none"

\* An error ends the operation, after the destroy of what it made, where the code
\* has that.
Break(c) ==
    IF c.undo THEN /\ op' = "undo" /\ plan' = "removal"
                   /\ todo' = Due(Plans[kind]["removal"], parts')
                   /\ UNCHANGED <<began, touched, result>>
              ELSE End("error")

Refused ==
    \E p \in todo :
        /\ Running /\ IsNext(p)
        /\ ~ Accepts(Todo(p))
        /\ ~ Waits(Todo(p))
        /\ UNCHANGED <<kind, aws>>
        /\ Break(Todo(p))

\* A call is lost, with or without its effect, or a wait gives up.
Fail ==
    \E p \in todo :
        /\ Running /\ IsNext(p)
        /\ UNCHANGED aws \/ (Accepts(Todo(p)) /\ Perform(Todo(p)))
        /\ Break(Todo(p))
        /\ UNCHANGED kind

\* The call ends well and has changed nothing.
Ignored ==
    \E p \in todo :
        /\ Running /\ IsNext(p)
        /\ Accepts(Todo(p))
        /\ Todo(p).loose
        /\ todo' = todo \ {p}
        /\ UNCHANGED <<kind, aws, op, plan, began, touched, result>>

Kill ==
    \E p \in todo :
        /\ Running /\ IsNext(p)
        /\ Todo(p).undo \/ op = "undo"
        /\ End("error")
        /\ UNCHANGED <<kind, aws>>

Succeed ==
    /\ op # "none"
    /\ todo = {}
    /\ End(IF op = "undo" THEN "error" ELSE IF touched THEN "none" ELSE op)
    /\ UNCHANGED <<kind, aws>>

Settle ==
    /\ \/ status = "busy" /\ status' = "ready" /\ UNCHANGED <<right, parts>>
       \/ status = "going" /\ Gone
    /\ UNCHANGED <<kind, run>>

-----------------------------------------------------------------------------
(* Other people, at most once under a running operation *)

Others(step) ==
    /\ ~ touched
    /\ step
    /\ touched' = (op # "none")
    /\ result' = "none"
    /\ UNCHANGED <<kind, op, plan, todo, began>>

\* The definition is changed between two runs, or the resource by hand.
Edit ==
    /\ status \in {"busy", "ready"}
    /\ \E f \in right : right' = right \ {f}
    /\ Cardinality(K.facets \ right') <= MaxDifferent
    /\ UNCHANGED <<status, parts>>

AddPart ==
    /\ status = "ready"
    /\ \E p \in K.parts \ parts : parts' = parts \cup {p}
    /\ UNCHANGED <<status, right>>

CreateByHand ==
    /\ status = "absent"
    /\ status' = "ready"
    /\ right' = K.facets
    /\ parts' = {}

DeleteByHand == status = "ready" /\ Gone

Progress == MakeCall \/ Refused \/ Succeed
Trouble  == Fail \/ Ignored \/ Kill
People   == Others(Edit) \/ Others(AddPart) \/ Others(CreateByHand) \/ Others(DeleteByHand)
Next     == Apply \/ Destroy \/ Progress \/ Settle \/ Trouble \/ People

Spec == Init /\ [][Next]_vars

\* buildit runs on, and AWS settles what it was asked for.
FairSpec == Spec /\ WF_vars(Progress) /\ WF_vars(Settle)

-----------------------------------------------------------------------------
(* Properties *)

\* What an apply makes does not count before the call that would be undone.
Uncommitted == op = "undo" \/ (op = "apply" /\ \E p \in todo : Todo(p).undo)

\* The facets over which an update stops, with an error or as if all was well.
Stopping ==
    [k \in DOMAIN Kinds |-> [how \in {"refuse", "giveUp"} |->
        {f \in Seen[k] : \E i \in DOMAIN Kinds[k].update :
                             f \in Kinds[k].update[i].on /\ Stops(Kinds[k].update[i], how)}]]
GivenUp == Stopping[kind]["giveUp"] \ right # {}

Condition ==
    IF status \in {"absent", "going"} \/ Uncommitted THEN "absent"
    ELSE IF GivenUp \/ K.facets \ K.overlooked \subseteq right THEN "matching"
    ELSE "drifted"

\* What the walks rely on, for every kind: an apply that ends well has left no facet
\* wrong that it saw or should have seen, whatever earlier runs left behind, but for
\* those the row names; a destroy that ends well has left nothing.
Promise == INSTANCE ResourceContract WITH
               condition <- Condition,
               call <- IF ~ Promising THEN "none" ELSE IF op = "undo" THEN "apply" ELSE op,
               disturbed <- Promising /\ touched, outcome <- result
ImplementsContract == Promise!Contract

\* While nobody else acts, no operation that found AWS at rest makes a call that AWS
\* would refuse: it waits where it has made AWS busy, and has removed whatever keeps
\* the resource from being deleted, but for what it leaves to others and what AWS may
\* not have removed when asked to.
Unobstructed ==
    Running /\ ~ touched /\ began \in {"absent", "ready"} =>
        \A p \in todo : IsNext(p) =>
            \/ Accepts(Todo(p)) \/ Waits(Todo(p)) \/ Todo(p).does = "refuse"
            \/ Todo(p).does = "delete" /\ parts \cap (K.kept \cup K.clinging) # {}

\* Once nobody interferes and calls succeed, repeated applies make the resource what
\* it should be from wherever earlier runs left it, unless the code refuses the
\* difference; and repeated destroys remove it.
Done       == status \in {"busy", "ready"} /\ K.facets \ K.lasting \subseteq right
Applying   == Apply \/ Progress \/ Settle
Destroying == Destroy \/ Progress \/ Settle
Recovers ==
    /\ (<>[][Applying]_vars /\ []<><<Apply>>_vars) =>
           <>[](Done \/ GivenUp \/ Stopping[kind]["refuse"] \ right # {})
    /\ (<>[][Destroying]_vars /\ []<><<Destroy>>_vars) =>
           <>[](status = "absent" \/ parts \cap K.kept # {})
=============================================================================
