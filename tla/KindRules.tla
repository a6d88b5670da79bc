------------------------------ MODULE KindRules ------------------------------
(***************************************************************************)
(* How the calls of a row (KindCalls) are put in order for an operation,   *)
(* and the rules of good order that the code of every kind keeps.  The     *)
(* rules speak of single steps: that they are enough, whichever steps an   *)
(* operation finds due and however it goes, is what ResourceKindsProofs    *)
(* proves.                                                                 *)
(***************************************************************************)
EXTENDS Naturals, KindCalls

\* The steps of a plan: a creation and the end of a destroy are not looked at for
\* what differs.
Plan(row, name) ==
    CASE name = "none"    -> << >>
      [] name = "create"  -> <<On({}, row.create)>>
      [] name = "update"  -> row.update
      [] name = "removal" -> Append(row.removal, On({}, row.destroy))

\* Calls are known by their place: the step, and the call in it.
Places(steps)  == UNION {{i} \X DOMAIN steps[i].calls : i \in DOMAIN steps}
At(steps, p)   == steps[p[1]].calls[p[2]]
Precedes(p, q) == p[1] < q[1] \/ (p[1] = q[1] /\ p[2] < q[2])

Wanted(step, what) ==
    \/ step.on = {}
    \/ step.on \cap what # {} /\ step.with \subseteq what /\ step.unless \cap what = {}
Due(steps, what)   == {p \in Places(steps) : Wanted(steps[p[1]], what)}

-----------------------------------------------------------------------------
(* Types *)

CallOf(row) ==
    [does : {"make", "put", "delete", "await", "awaitGone", "refuse", "giveUp"},
     puts : SUBSET row.facets, takes : SUBSET row.facets,
     adds : SUBSET row.parts, clears : SUBSET row.parts,
     slow : BOOLEAN, strict : BOOLEAN, loose : BOOLEAN, undo : BOOLEAN]

StepOf(row) ==
    [on : SUBSET (row.facets \cup row.parts),
     with : SUBSET row.facets, unless : SUBSET row.facets,
     calls : Seq(CallOf(row))]

IsRow(row) ==
    /\ row.create \in Seq(CallOf(row)) /\ row.update \in Seq(StepOf(row))
    /\ row.removal \in Seq(StepOf(row)) /\ row.destroy \in Seq(CallOf(row))
    /\ row.ghost \in BOOLEAN
    /\ row.kept \subseteq row.parts /\ row.clinging \subseteq row.parts
    /\ row.overlooked \subseteq row.facets

-----------------------------------------------------------------------------
(* Rules *)

\* A step that is due whenever these two are: one of them, or one for when what the
\* first is about differs along with what the second is about.
Joins(step, first, second) ==
    \/ step \in {first, second}
    \/ /\ second.on # {} /\ second.on \subseteq step.on /\ step.unless = {}
       /\ \A f \in step.with : first.on = {f}

\* A call that AWS would refuse while it is at work comes after a wait that is due
\* whenever it and the call that set AWS to work are.
Waited(steps) ==
    \A p, q \in Places(steps) :
        At(steps, q).slow /\ Precedes(q, p) /\ At(steps, p).strict =>
            \E r \in Places(steps) :
                /\ At(steps, r).does = "await"
                /\ Joins(steps[r[1]], steps[q[1]], steps[p[1]])
                /\ Precedes(q, r) /\ Precedes(r, p)

\* Nobody looks whether a call that may be ignored had an effect: it is not one
\* that later calls or a wait rely on.
Looked(steps) == \A p \in Places(steps) : At(steps, p).loose => At(steps, p).does = "put"

\* A creation makes the resource, then sets what it is.  What fails so that the code
\* destroys it again is a call after that.
CreateRule(row) ==
    /\ row.create # << >> /\ row.create[1].does = "make"
    /\ ~ row.create[1].undo /\ ~ row.create[1].loose
    /\ \A j \in DOMAIN row.create : j # 1 => row.create[j].does \in {"put", "await"}

\* What an update cannot do it refuses, or it gives up over that as a whole: no call
\* of any update sets it right.
Stops(step, how) == \E j \in DOMAIN step.calls : step.calls[j].does = how

UpdateRule(row) ==
    /\ \A p \in Places(row.update) :
           /\ At(row.update, p).does \in {"put", "await", "refuse", "giveUp"}
           /\ ~ At(row.update, p).undo
    /\ \A i \in DOMAIN row.update :
           /\ row.update[i].on # {}
           /\ Stops(row.update[i], "giveUp") =>
                  \A p \in Places(row.update) : At(row.update, p).puts \cap row.update[i].on = {}

\* A step that does not depend on what else differs.
Plain(step) == step.with = {} /\ step.unless = {}

Clears(call, part) == call.does = "put" /\ part \in call.clears

\* A destroy first takes away every part that it does not leave to others (AWS may
\* ignore that for those that cling), then deletes, then at most waits; it sets nothing
\* right, and adds nothing.
RemovalRule(row) ==
    LET plan == Plan(row, "removal")
    IN  /\ \A p \in Places(plan) :
               /\ At(plan, p).does \in {"put", "await", "delete", "awaitGone"}
               /\ At(plan, p).puts = {} /\ At(plan, p).adds = {}
               /\ ~ At(plan, p).undo
               /\ \A i \in DOMAIN row.update :
                      Stops(row.update[i], "giveUp") =>
                          At(plan, p).takes \cap row.update[i].on = {}
        /\ \A p \in Places(row.removal) : At(row.removal, p).does \in {"put", "await"}
        /\ \E d \in DOMAIN row.destroy :
               \A j \in DOMAIN row.destroy :
                   row.destroy[j].does \in IF j < d THEN {"put", "await"}
                                           ELSE IF j = d THEN {"delete"} ELSE {"awaitGone"}
        /\ \A part \in row.parts \ row.kept : \E i \in DOMAIN row.removal :
               /\ part \in row.removal[i].on /\ Plain(row.removal[i])
               /\ \E j \in DOMAIN row.removal[i].calls :
                      /\ Clears(row.removal[i].calls[j], part)
                      /\ row.removal[i].calls[j].loose => part \in row.clinging

\* The destroy of what has just been made does not rely on AWS being at rest.
UndoRule(row) ==
    (\E j \in DOMAIN row.create : row.create[j].undo) =>
        LET plan == Plan(row, "removal")
        IN  \A p \in Places(plan) : At(plan, p).strict =>
                \E r \in Places(plan) :
                    r[1] = p[1] /\ Precedes(r, p) /\ At(plan, r).does = "await"

\* A call sets a facet right, and AWS is sure to have done it when it ends well.
Sets(call, facet) == call.does \in {"make", "put"} /\ facet \in call.puts /\ ~ call.loose

Settles(step, facet) ==
    \E j \in DOMAIN step.calls :
        step.calls[j].does \in {"refuse", "giveUp"} \/ Sets(step.calls[j], facet)

\* What a call of a step undoes, a later call of that step sets again.
Restores(step, facets) ==
    \A facet \in facets : \A j \in DOMAIN step.calls :
        facet \in step.calls[j].takes =>
            \E l \in DOMAIN step.calls : j < l /\ Sets(step.calls[l], facet)

\* Every facet that an apply promises is set by a creation, and by some step of an
\* update that is due when it differs; where that step leaves it to others because
\* more differs, theirs does.
FacetRule(row) ==
    LET promised == row.facets \ row.overlooked
    IN  /\ Restores(On({}, row.create), promised)
        /\ \A i \in DOMAIN row.update : Restores(row.update[i], promised)
        /\ \A facet \in promised :
               /\ \E j \in DOMAIN row.create : Sets(row.create[j], facet)
               /\ \E i \in DOMAIN row.update :
                      /\ facet \in row.update[i].on /\ row.update[i].with = {}
                      /\ Settles(row.update[i], facet)
                      /\ \A other \in row.update[i].unless : \E l \in DOMAIN row.update :
                             /\ other \in row.update[l].on /\ Plain(row.update[l])
                             /\ Settles(row.update[l], facet)

InOrder(row) ==
    /\ IsRow(row)
    /\ \A name \in {"create", "update", "removal"} :
           Waited(Plan(row, name)) /\ Looked(Plan(row, name))
    /\ CreateRule(row) /\ UpdateRule(row) /\ RemovalRule(row) /\ UndoRule(row)
    /\ FacetRule(row)
=============================================================================
