------------------------- MODULE ResourceKindsProofs -------------------------
(***************************************************************************)
(* For every table whose rows keep the rules of KindRules: no operation    *)
(* makes a call that AWS must refuse in the state it has brought it to,    *)
(* and every kind implements the contract of the graph walks.              *)
(***************************************************************************)
EXTENDS ResourceKinds, SequenceTheorems, TLAPS

Statuses  == {"absent", "busy", "ready", "going"}
PlanNames == {"none", "create", "update", "removal"}

-----------------------------------------------------------------------------
(* Plans and places *)

LEMMA PlanTyped ==
    ASSUME NEW row, IsRow(row), NEW name \in PlanNames
    PROVE  Plan(row, name) \in Seq(StepOf(row))
<1> DEFINE S == StepOf(row)
<1>1. ASSUME NEW calls \in Seq(CallOf(row))
      PROVE  On({}, calls) \in S
      BY <1>1 DEF On, StepOf
<1>2. On({}, row.create) \in S /\ On({}, row.destroy) \in S
      BY <1>1 DEF IsRow
<1>3. row.update \in Seq(S) /\ row.removal \in Seq(S)
      BY DEF IsRow
<1> HIDE DEF S
<1>4. Append(row.removal, On({}, row.destroy)) \in Seq(S)
      BY <1>2, <1>3
<1>5. <<On({}, row.create)>> \in Seq(S) /\ << >> \in Seq(S)
      BY <1>2
<1> QED BY <1>3, <1>4, <1>5 DEF Plan, PlanNames, S

LEMMA PlaceIs ==
    ASSUME NEW steps, NEW p
    PROVE  p \in Places(steps) <=>
               \E i \in DOMAIN steps : \E j \in DOMAIN steps[i].calls : p = <<i, j>>
BY DEF Places

\* A place of a plan is a step and a call of it.
LEMMA PlaceTyped ==
    ASSUME NEW row, NEW steps \in Seq(StepOf(row)), NEW p \in Places(steps)
    PROVE  /\ p = <<p[1], p[2]>> /\ p[1] \in Nat /\ p[2] \in Nat
           /\ p[1] \in DOMAIN steps /\ p[2] \in DOMAIN steps[p[1]].calls
           /\ steps[p[1]] \in StepOf(row) /\ At(steps, p) \in CallOf(row)
<1>1. PICK i \in DOMAIN steps : \E j \in DOMAIN steps[i].calls : p = <<i, j>>
      BY PlaceIs
<1>2. PICK j \in DOMAIN steps[i].calls : p = <<i, j>>
      BY <1>1
<1>3. p[1] = i /\ p[2] = j
      BY <1>2
<1>4. i \in Nat /\ steps[i] \in StepOf(row)
      OBVIOUS
<1>5. steps[i].calls \in Seq(CallOf(row))
      BY <1>4 DEF StepOf
<1>6. j \in Nat /\ steps[i].calls[j] \in CallOf(row)
      BY <1>5
<1> QED BY <1>2, <1>3, <1>4, <1>6 DEF At

LEMMA PlaceAt ==
    ASSUME NEW steps, NEW i \in DOMAIN steps, NEW j \in DOMAIN steps[i].calls
    PROVE  /\ <<i, j>> \in Places(steps) /\ At(steps, <<i, j>>) = steps[i].calls[j]
           /\ <<i, j>>[1] = i /\ <<i, j>>[2] = j
<1>1. <<i, j>> \in Places(steps)
      BY PlaceIs
<1> QED BY <1>1 DEF At

LEMMA CallTyped ==
    ASSUME NEW row, NEW c \in CallOf(row)
    PROVE  /\ c.does \in {"make", "put", "delete", "await", "awaitGone", "refuse", "giveUp"}
           /\ c.slow \in BOOLEAN /\ c.strict \in BOOLEAN /\ c.loose \in BOOLEAN
           /\ c.undo \in BOOLEAN /\ c.adds \subseteq row.parts /\ c.clears \subseteq row.parts
BY DEF CallOf

\* Places are in a strict total order.
LEMMA PlaceOrder ==
    ASSUME NEW row, NEW steps \in Seq(StepOf(row)),
           NEW p \in Places(steps), NEW q \in Places(steps), NEW r \in Places(steps)
    PROVE  /\ ~ Precedes(p, p)
           /\ Precedes(p, q) /\ Precedes(q, r) => Precedes(p, r)
           /\ p = q \/ Precedes(p, q) \/ Precedes(q, p)
<1>1. p = <<p[1], p[2]>> /\ p[1] \in Nat /\ p[2] \in Nat
      BY PlaceTyped
<1>2. q = <<q[1], q[2]>> /\ q[1] \in Nat /\ q[2] \in Nat
      BY PlaceTyped
<1>3. r[1] \in Nat /\ r[2] \in Nat
      BY PlaceTyped
<1>4. p[1] = q[1] /\ p[2] = q[2] => p = q
      BY <1>1, <1>2
<1> QED BY <1>1, <1>2, <1>3, <1>4 DEF Precedes

-----------------------------------------------------------------------------
(* The rules, place by place *)

\* The first call of a creation makes the resource, the others only set what it is.
LEMMA CreatePlaces ==
    ASSUME NEW row, InOrder(row), NEW steps, steps = Plan(row, "create")
    PROVE  /\ <<1, 1>> \in Places(steps) /\ At(steps, <<1, 1>>).does = "make"
           /\ ~ At(steps, <<1, 1>>).undo /\ ~ At(steps, <<1, 1>>).loose
           /\ \A p \in Places(steps) : p # <<1, 1>> =>
                  At(steps, p).does \in {"put", "await"} /\ Precedes(<<1, 1>>, p)
           /\ \A p, q \in Places(steps) : p[1] = q[1]
<1>1. steps = <<On({}, row.create)>>
      BY DEF Plan
<1>2. DOMAIN steps = {1} /\ steps[1].calls = row.create
      BY <1>1 DEF On
<1>3. row.create \in Seq(CallOf(row)) /\ CreateRule(row)
      BY DEF InOrder, IsRow
<1>4. 1 \in DOMAIN row.create
      BY <1>3 DEF CreateRule
<1>5. <<1, 1>> \in Places(steps) /\ At(steps, <<1, 1>>) = row.create[1]
      BY <1>2, <1>4, PlaceAt
<1>6. ASSUME NEW p \in Places(steps)
      PROVE  /\ p[1] = 1
             /\ p # <<1, 1>> => At(steps, p).does \in {"put", "await"} /\ Precedes(<<1, 1>>, p)
    <2>1. PICK i \in DOMAIN steps : \E j \in DOMAIN steps[i].calls : p = <<i, j>>
          BY <1>6, PlaceIs
    <2>2. PICK j \in DOMAIN row.create : p = <<1, j>>
          BY <2>1, <1>2
    <2>3. p[1] = 1 /\ p[2] = j /\ At(steps, p) = row.create[j]
          BY <2>2, <1>2 DEF At
    <2>4. j \in Nat /\ j >= 1
          BY <1>3
    <2>5. p # <<1, 1>> => j # 1
          BY <2>2
    <2> QED BY <2>3, <2>4, <2>5, <1>3 DEF CreateRule, Precedes
<1> QED BY <1>3, <1>5, <1>6 DEF CreateRule

\* A removal deletes once, after what it takes away, and then only waits.
LEMMA RemovalPlaces ==
    ASSUME NEW row, InOrder(row), NEW steps, steps = Plan(row, "removal")
    PROVE  /\ \E d \in Places(steps) :
                  /\ At(steps, d).does = "delete" /\ d[1] = Len(row.removal) + 1
                  /\ \A what : d \in Due(steps, what)
                  /\ \A p \in Places(steps) :
                         /\ Precedes(p, d) => At(steps, p).does \in {"put", "await"}
                         /\ Precedes(d, p) => At(steps, p).does = "awaitGone"
           /\ \A p \in Places(steps) :
                  /\ At(steps, p).does \in {"put", "await", "delete", "awaitGone"}
                  /\ At(steps, p).puts = {} /\ At(steps, p).adds = {} /\ ~ At(steps, p).undo
<1>1. steps = Append(row.removal, On({}, row.destroy))
      BY DEF Plan
<1> DEFINE n == Len(row.removal)
<1>2. /\ row.removal \in Seq(StepOf(row)) /\ row.destroy \in Seq(CallOf(row))
      /\ RemovalRule(row)
      BY DEF InOrder, IsRow
<1>3. /\ n \in Nat /\ DOMAIN steps = 1 .. (n + 1) /\ DOMAIN row.removal = 1 .. n
      /\ \A i \in 1 .. n : steps[i] = row.removal[i]
      /\ steps[n + 1] = On({}, row.destroy)
    <2>1. On({}, row.destroy) \in StepOf(row)
          BY <1>2 DEF On, StepOf
    <2> DEFINE T == StepOf(row)
               last == On({}, row.destroy)
    <2>2. row.removal \in Seq(T) /\ last \in T
          BY <1>2, <2>1
    <2> HIDE DEF T, last
    <2>3. /\ Len(Append(row.removal, last)) = n + 1
          /\ Append(row.removal, last) \in Seq(T)
          /\ \A i \in 1 .. n : Append(row.removal, last)[i] = row.removal[i]
          /\ Append(row.removal, last)[n + 1] = last
          BY <2>2, AppendProperties
    <2>4. n \in Nat /\ DOMAIN row.removal = 1 .. n
          BY <2>2
    <2> QED BY <1>1, <2>3, <2>4 DEF last
<1>4. steps[n + 1].calls = row.destroy /\ steps[n + 1].on = {}
      BY <1>3 DEF On
<1>5. PICK e \in DOMAIN row.destroy :
          \A j \in DOMAIN row.destroy :
              row.destroy[j].does \in IF j < e THEN {"put", "await"}
                                      ELSE IF j = e THEN {"delete"} ELSE {"awaitGone"}
      BY <1>2 DEF RemovalRule
<1> DEFINE d == <<n + 1, e>>
<1>6. n + 1 \in DOMAIN steps
      BY <1>3
<1>7. /\ d \in Places(steps) /\ At(steps, d) = row.destroy[e] /\ d[1] = n + 1 /\ d[2] = e
      BY <1>4, <1>6, PlaceAt
<1>8. At(steps, d).does = "delete"
      BY <1>5, <1>7, <1>2
<1>9. \A what : d \in Due(steps, what)
      BY <1>4, <1>7 DEF Due, Wanted
<1>10. ASSUME NEW p \in Places(steps)
       PROVE  /\ Precedes(p, d) => At(steps, p).does \in {"put", "await"}
              /\ Precedes(d, p) => At(steps, p).does = "awaitGone"
    <2>1. PICK i \in DOMAIN steps : \E j \in DOMAIN steps[i].calls : p = <<i, j>>
          BY <1>10, PlaceIs
    <2>2. PICK j \in DOMAIN steps[i].calls : p = <<i, j>>
          BY <2>1
    <2>3. p[1] = i /\ p[2] = j /\ At(steps, p) = steps[i].calls[j]
          BY <2>2 DEF At
    <2>4. i \in 1 .. (n + 1) /\ e \in Nat
          BY <1>2, <1>3
    <2>5. CASE i = n + 1
        <3>1. j \in DOMAIN row.destroy /\ At(steps, p) = row.destroy[j] /\ j \in Nat
              BY <2>3, <2>5, <1>2, <1>4
        <3>2. /\ Precedes(p, d) <=> j < e
              /\ Precedes(d, p) <=> e < j
              BY <2>3, <2>4, <2>5, <3>1, <1>3, <1>7 DEF Precedes
        <3> QED BY <3>1, <3>2, <1>5, <2>4
    <2>6. CASE i \in 1 .. n
        <3>1. i \in DOMAIN row.removal /\ j \in DOMAIN row.removal[i].calls
              BY <2>6, <1>3
        <3>2. p \in Places(row.removal) /\ At(row.removal, p) = At(steps, p)
              BY <3>1, <2>2, <2>3, <2>6, <1>3, PlaceAt
        <3>3. ~ Precedes(d, p)
              BY <2>3, <2>6, <1>3, <1>7 DEF Precedes
        <3> QED BY <3>2, <3>3, <1>2 DEF RemovalRule
    <2> QED BY <2>4, <2>5, <2>6, <1>3
<1>11. \A p \in Places(steps) :
           /\ At(steps, p).does \in {"put", "await", "delete", "awaitGone"}
           /\ At(steps, p).puts = {} /\ At(steps, p).adds = {} /\ ~ At(steps, p).undo
       BY <1>2 DEF RemovalRule
<1> HIDE DEF d, n
<1>12. d[1] = Len(row.removal) + 1
       BY <1>7 DEF n
<1> QED BY <1>7, <1>8, <1>9, <1>10, <1>11, <1>12

\* Every part that a destroy does not leave to others, and that does not cling, is
\* surely taken away by one of the steps that are due when the resource has it.
LEMMA ClearPlaces ==
    ASSUME NEW row, InOrder(row), NEW steps, steps = Plan(row, "removal"),
           NEW what, NEW part \in what, part \in row.parts \ (row.kept \cup row.clinging)
    PROVE  \E r \in Due(steps, what) :
               /\ Clears(At(steps, r), part) /\ ~ At(steps, r).loose
               /\ r[1] <= Len(row.removal)
<1>1. steps = Append(row.removal, On({}, row.destroy))
      BY DEF Plan
<1>2. row.removal \in Seq(StepOf(row)) /\ RemovalRule(row)
      BY DEF InOrder, IsRow
<1>3. PICK i \in DOMAIN row.removal :
          /\ part \in row.removal[i].on /\ Plain(row.removal[i])
          /\ \E j \in DOMAIN row.removal[i].calls :
                 /\ Clears(row.removal[i].calls[j], part)
                 /\ row.removal[i].calls[j].loose => part \in row.clinging
    <2>1. part \in row.parts \ row.kept
          OBVIOUS
    <2> QED BY <1>2, <2>1 DEF RemovalRule
<1>4. PICK j \in DOMAIN row.removal[i].calls :
          Clears(row.removal[i].calls[j], part) /\ ~ row.removal[i].calls[j].loose
      BY <1>3
<1>5. i \in 1 .. Len(row.removal) /\ i \in DOMAIN steps /\ steps[i] = row.removal[i]
      BY <1>1, <1>2
<1>6. /\ <<i, j>> \in Places(steps) /\ At(steps, <<i, j>>) = row.removal[i].calls[j]
      /\ <<i, j>>[1] = i
      BY <1>4, <1>5, PlaceAt
<1>7. Wanted(steps[i], what)
      BY <1>3, <1>5 DEF Wanted, Plain
<1>8. <<i, j>> \in Due(steps, what)
      BY <1>6, <1>7 DEF Due
<1> QED BY <1>4, <1>5, <1>6, <1>8

\* A step is due as a whole.
LEMMA DueWhole ==
    ASSUME NEW steps, NEW what, NEW p \in Due(steps, what),
           NEW q \in Places(steps), q[1] = p[1]
    PROVE  q \in Due(steps, what)
BY DEF Due

\* With two steps, those that join them are due.
LEMMA DueJoins ==
    ASSUME NEW steps, NEW what, NEW p \in Due(steps, what), NEW q \in Due(steps, what),
           NEW r \in Places(steps), Joins(steps[r[1]], steps[p[1]], steps[q[1]])
    PROVE  r \in Due(steps, what)
<1> DEFINE step   == steps[r[1]]
           first  == steps[p[1]]
           second == steps[q[1]]
<1>1. Wanted(first, what) /\ Wanted(second, what) /\ Joins(step, first, second)
      BY DEF Due
<1>2. Wanted(step, what)
    <2>1. CASE step \in {first, second}
          BY <1>1, <2>1
    <2>2. CASE /\ second.on # {} /\ second.on \subseteq step.on /\ step.unless = {}
               /\ \A f \in step.with : first.on = {f}
        <3>1. step.on \cap what # {}
              BY <1>1, <2>2 DEF Wanted
        <3>2. ASSUME NEW f \in step.with
              PROVE  f \in what
            <4>1. first.on = {f}
                  BY <2>2
            <4>2. first.on \cap what # {}
                  BY <1>1, <4>1 DEF Wanted
            <4> QED BY <4>1, <4>2
        <3>3. step.with \subseteq what
              BY <3>2
        <3> QED BY <2>2, <3>1, <3>3 DEF Wanted
    <2> QED BY <1>1, <2>1, <2>2 DEF Joins
<1> QED BY <1>2 DEF Due

LEMMA DuePlaces ==
    ASSUME NEW steps, NEW what
    PROVE  Due(steps, what) \subseteq Places(steps)
BY DEF Due

\* What a call of a creation or of an update undoes of what an apply promises, a later
\* call of the same step sets again.
LEMMA RestorePlaces ==
    ASSUME NEW row, InOrder(row), NEW name \in {"create", "update"},
           NEW steps, steps = Plan(row, name),
           NEW facet \in row.facets \ row.overlooked,
           NEW q \in Places(steps), facet \in At(steps, q).takes
    PROVE  \E p \in Places(steps) :
               p[1] = q[1] /\ Precedes(q, p) /\ Sets(At(steps, p), facet)
<1>1. PICK i \in DOMAIN steps : \E j \in DOMAIN steps[i].calls : q = <<i, j>>
      BY PlaceIs
<1>2. PICK j \in DOMAIN steps[i].calls : q = <<i, j>>
      BY <1>1
<1>3. q[1] = i /\ q[2] = j /\ At(steps, q) = steps[i].calls[j]
      BY <1>2 DEF At
<1>4. Restores(steps[i], row.facets \ row.overlooked)
    <2>1. CASE name = "create"
        <3>1. steps = <<On({}, row.create)>>
              BY <2>1 DEF Plan
        <3>2. steps[i] = On({}, row.create)
              BY <3>1
        <3> QED BY <3>2 DEF InOrder, FacetRule
    <2>2. CASE name = "update"
        <3>1. steps = row.update
              BY <2>2 DEF Plan
        <3> QED BY <3>1 DEF InOrder, FacetRule
    <2> QED BY <2>1, <2>2
<1>5. PICK l \in DOMAIN steps[i].calls : j < l /\ Sets(steps[i].calls[l], facet)
      BY <1>3, <1>4 DEF Restores
<1>6. /\ <<i, l>> \in Places(steps) /\ At(steps, <<i, l>>) = steps[i].calls[l]
      /\ <<i, l>>[1] = i /\ <<i, l>>[2] = l
      BY PlaceAt
<1>7. Precedes(q, <<i, l>>)
      BY <1>3, <1>5, <1>6 DEF Precedes
<1> QED BY <1>3, <1>5, <1>6, <1>7

\* A creation sets every facet that an apply promises.
LEMMA CreateSets ==
    ASSUME NEW row, InOrder(row), NEW steps, steps = Plan(row, "create"), NEW what,
           NEW facet \in row.facets \ row.overlooked
    PROVE  \E p \in Due(steps, what) : Sets(At(steps, p), facet)
<1>1. PICK j \in DOMAIN row.create : Sets(row.create[j], facet)
      BY DEF InOrder, FacetRule
<1>2. steps = <<On({}, row.create)>>
      BY DEF Plan
<1>3. 1 \in DOMAIN steps /\ steps[1].calls = row.create /\ steps[1].on = {}
      BY <1>2 DEF On
<1>4. /\ <<1, j>> \in Places(steps) /\ At(steps, <<1, j>>) = row.create[j] /\ <<1, j>>[1] = 1
      BY <1>3, PlaceAt
<1>5. <<1, j>> \in Due(steps, what)
      BY <1>3, <1>4 DEF Due, Wanted
<1> QED BY <1>1, <1>4, <1>5

\* A creation is due as a whole.
LEMMA CreateDue ==
    ASSUME NEW row, NEW steps, steps = Plan(row, "create"), NEW what
    PROVE  Due(steps, what) = Places(steps)
<1>1. steps = <<On({}, row.create)>>
      BY DEF Plan
<1>2. ASSUME NEW p \in Places(steps)
      PROVE  p \in Due(steps, what)
    <2>1. PICK i \in DOMAIN steps : \E j \in DOMAIN steps[i].calls : p = <<i, j>>
          BY <1>2, PlaceIs
    <2>2. p[1] = i /\ i = 1
          BY <2>1, <1>1
    <2>3. steps[p[1]].on = {}
          BY <2>2, <1>1 DEF On
    <2> QED BY <2>3 DEF Due, Wanted
<1> QED BY <1>2, DuePlaces

\* Of a facet that differs, some call that an update has due sets it or stops the apply.
LEMMA UpdateSettles ==
    ASSUME NEW row, InOrder(row), NEW what, NEW facet \in what,
           facet \in row.facets \ row.overlooked
    PROVE  \E p \in Due(row.update, what) :
               \/ At(row.update, p).does \in {"refuse", "giveUp"}
               \/ Sets(At(row.update, p), facet)
<1>1. PICK i \in DOMAIN row.update :
          /\ facet \in row.update[i].on /\ row.update[i].with = {}
          /\ Settles(row.update[i], facet)
          /\ \A other \in row.update[i].unless : \E l \in DOMAIN row.update :
                 /\ other \in row.update[l].on /\ Plain(row.update[l])
                 /\ Settles(row.update[l], facet)
      BY DEF InOrder, FacetRule
<1>2. PICK l \in DOMAIN row.update :
          Wanted(row.update[l], what) /\ Settles(row.update[l], facet)
    <2>1. CASE row.update[i].unless \cap what = {}
          BY <1>1, <2>1 DEF Wanted
    <2>2. CASE row.update[i].unless \cap what # {}
        <3>1. PICK other \in row.update[i].unless : other \in what
              BY <2>2
        <3>2. PICK l \in DOMAIN row.update :
                  /\ other \in row.update[l].on /\ Plain(row.update[l])
                  /\ Settles(row.update[l], facet)
              BY <1>1, <3>1
        <3> QED BY <3>1, <3>2 DEF Wanted, Plain
    <2> QED BY <2>1, <2>2
<1>3. PICK j \in DOMAIN row.update[l].calls :
          \/ row.update[l].calls[j].does \in {"refuse", "giveUp"}
          \/ Sets(row.update[l].calls[j], facet)
      BY <1>2 DEF Settles
<1>4. /\ <<l, j>> \in Places(row.update)
      /\ At(row.update, <<l, j>>) = row.update[l].calls[j] /\ <<l, j>>[1] = l
      BY PlaceAt
<1>5. <<l, j>> \in Due(row.update, what)
      BY <1>2, <1>4 DEF Due
<1> QED BY <1>3, <1>4, <1>5

\* An update that gives up has a facet that made it, and no update sets it right.
LEMMA GiveUpFacet ==
    ASSUME NEW row, InOrder(row), NEW what, NEW p \in Due(row.update, what),
           At(row.update, p).does = "giveUp"
    PROVE  \E i \in DOMAIN row.update : \E facet \in row.update[i].on :
               facet \in what /\ Stops(row.update[i], "giveUp")
<1>1. p \in Places(row.update) /\ Wanted(row.update[p[1]], what)
      BY DEF Due
<1>2. PICK i \in DOMAIN row.update : \E j \in DOMAIN row.update[i].calls : p = <<i, j>>
      BY <1>1, PlaceIs
<1>3. PICK j \in DOMAIN row.update[i].calls : p = <<i, j>>
      BY <1>2
<1>4. p[1] = i /\ At(row.update, p) = row.update[i].calls[j]
      BY <1>3 DEF At
<1>5. Stops(row.update[i], "giveUp")
      BY <1>4 DEF Stops
<1>6. row.update[i].on # {}
      BY DEF InOrder, UpdateRule
<1>7. row.update[i].on \cap what # {}
      BY <1>1, <1>4, <1>6 DEF Wanted
<1> QED BY <1>5, <1>7

\* The destroy of what has just been made waits before it makes a call that AWS would
\* refuse while it is at work.
LEMMA UndoPlaces ==
    ASSUME NEW row, InOrder(row), NEW made, made = Plan(row, "create"),
           NEW p \in Places(made), At(made, p).undo,
           NEW steps, steps = Plan(row, "removal"),
           NEW q \in Places(steps), At(steps, q).strict
    PROVE  \E r \in Places(steps) :
               r[1] = q[1] /\ Precedes(r, q) /\ At(steps, r).does = "await"
<1>1. made = <<On({}, row.create)>>
      BY DEF Plan
<1>2. PICK i \in DOMAIN made : \E j \in DOMAIN made[i].calls : p = <<i, j>>
      BY PlaceIs
<1>3. PICK j \in DOMAIN made[i].calls : p = <<i, j>>
      BY <1>2
<1>4. made[i] = On({}, row.create)
      BY <1>1
<1>5. made[i].calls = row.create
      BY <1>4 DEF On
<1>6. At(made, p) = row.create[j]
      BY <1>3, <1>5 DEF At
<1> QED BY <1>5, <1>6 DEF InOrder, UndoRule

-----------------------------------------------------------------------------
(* The inductive invariant *)

TypeOK ==
    /\ kind \in DOMAIN Kinds /\ status \in Statuses /\ began \in Statuses
    /\ op \in {"none", "apply", "destroy", "undo"} /\ plan \in PlanNames
    /\ todo \subseteq Places(Steps) /\ parts \subseteq K.parts /\ touched \in BOOLEAN

OpOK ==
    /\ op = "none"    => plan = "none" /\ began = "absent" /\ ~ touched
    /\ op = "apply"   => plan \in {"create", "update"}
    /\ op = "undo"    => plan = "removal"
    /\ op = "destroy" => plan \in {"none", "removal"}
    /\ op # "none"    => result = "none"

\* Of a step that joins two that have calls left, all that come after the next call
\* are left.
Whole ==
    \A p, q \in todo, r \in Places(Steps) :
        Joins(Steps[r[1]], Steps[p[1]], Steps[q[1]]) =>
            r \in todo \/ \A x \in todo : Precedes(r, x)

\* An operation on which its promise is binding, so far.
Undisturbed == op # "none" /\ ~ touched /\ Promising

\* Where AWS is, by what is left to do.
Phase ==
    Undisturbed =>
        /\ plan = "none"   => status \in {"absent", "going"}
        /\ plan = "create" => IF <<1, 1>> \in todo THEN status \in {"absent", "going"}
                                                   ELSE status \in {"busy", "ready"}
        /\ plan = "update" => status \in {"busy", "ready"}
        /\ plan = "removal" =>
               \/ status \in {"busy", "ready"} /\ \E d \in todo : Todo(d).does = "delete"
               \/ status \in {"absent", "going"} /\ \A p \in todo : Todo(p).does = "awaitGone"

\* What has been set to work is waited for in time.
Rest ==
    Undisturbed /\ began \in {"absent", "ready"} =>
        /\ plan = "create" /\ <<1, 1>> \in todo => status = "absent"
        /\ status = "busy" =>
               \A p \in todo : Todo(p).strict =>
                   \E r \in todo : Todo(r).does = "await" /\ Precedes(r, p)

\* Every part that is sure to go is about to be taken away.
Staying == K.kept \cup K.clinging

Clearing ==
    Undisturbed /\ plan = "removal" =>
        \A part \in parts \ Staying :
            \E r \in todo :
                Clears(Todo(r), part) /\ ~ Todo(r).loose /\ r[1] <= Len(K.removal)

\* A facet is right or is about to be set; and if a call is about to undo it, another
\* is going to set it again.
Pending(facet) == \E q \in todo : Sets(Todo(q), facet)

Sure(facet) ==
    /\ facet \in right \/ Pending(facet)
    /\ \A q \in todo : facet \in Todo(q).takes =>
           \E r \in todo : Precedes(q, r) /\ Sets(Todo(r), facet)

Promised == K.facets \ K.overlooked

\* What a resource that is going to be gone once had counts for nothing.
Creating ==
    Undisturbed /\ plan = "create" =>
        \A facet \in Promised : Sure(facet) /\ (<<1, 1>> \in todo => Pending(facet))

Refusing == \E p \in todo : Todo(p).does = "refuse"

Updating ==
    Undisturbed /\ plan = "update" =>
        /\ \A p \in todo : Todo(p).does = "giveUp" => GivenUp
        /\ GivenUp \/ Refusing \/ \A facet \in Promised : Sure(facet)

IInv ==
    TypeOK /\ OpOK /\ Whole /\ Phase /\ Rest /\ Clearing /\ Creating /\ Updating

-----------------------------------------------------------------------------
(* The rules, as they hold of the running plan *)

LEMMA PlansAre ==
    ASSUME kind \in DOMAIN Kinds, NEW name \in PlanNames
    PROVE  /\ Plans[kind][name] = Plan(K, name) /\ InOrder(K) /\ IsRow(K)
           /\ Plan(K, name) \in Seq(StepOf(K))
<1>1. Plans[kind][name] = Plan(K, name)
      BY DEF Plans, K, PlanNames
<1>2. InOrder(K)
      BY KindsInOrder DEF K
<1>3. IsRow(K)
      BY <1>2 DEF InOrder
<1> QED BY <1>1, <1>2, <1>3, PlanTyped

LEMMA StepsAre ==
    ASSUME TypeOK
    PROVE  /\ Steps = Plan(K, plan) /\ InOrder(K) /\ IsRow(K) /\ Steps \in Seq(StepOf(K))
           /\ todo \subseteq Places(Steps)
           /\ \A p : Todo(p) = At(Steps, p)
<1>1. kind \in DOMAIN Kinds /\ plan \in PlanNames /\ todo \subseteq Places(Steps)
      BY DEF TypeOK
<1>2. Steps = Plan(K, plan)
      BY <1>1, PlansAre DEF Steps
<1> QED BY <1>1, <1>2, PlansAre DEF Todo

\* The next call comes before every other.
LEMMA NextIsFirst ==
    ASSUME TypeOK, NEW p, IsNext(p)
    PROVE  /\ p \in todo /\ p \in Places(Steps)
           /\ \A q \in todo \ {p} : Precedes(p, q)
           /\ \A q \in todo : ~ Precedes(q, p)
           /\ \A q \in todo \ {p}, r \in todo : Precedes(q, r) => r # p
<1>1. p \in todo /\ p \in Places(Steps) /\ \A q \in todo \ {p} : Precedes(p, q)
      BY StepsAre DEF IsNext
<1>2. ASSUME NEW q \in todo
      PROVE  ~ Precedes(q, p)
    <2>1. q \in Places(Steps) /\ Steps \in Seq(StepOf(K))
          BY StepsAre
    <2>2. ~ Precedes(p, p) /\ (Precedes(p, q) /\ Precedes(q, p) => Precedes(p, p))
          BY <1>1, <2>1, PlaceOrder
    <2> QED BY <1>1, <2>2
<1> QED BY <1>1, <1>2

\* The call that deletes: those before it take away, those after it wait.
LEMMA DeletePlace ==
    ASSUME TypeOK, plan = "removal", NEW d \in Places(Steps), Todo(d).does = "delete"
    PROVE  /\ d[1] = Len(K.removal) + 1
           /\ \A p \in Places(Steps) :
                  /\ Precedes(p, d) => Todo(p).does \in {"put", "await"}
                  /\ Precedes(d, p) => Todo(p).does = "awaitGone"
<1>1. Steps = Plan(K, "removal") /\ InOrder(K) /\ Steps \in Seq(StepOf(K))
      BY StepsAre
<1>2. \A p : Todo(p) = At(Steps, p)
      BY StepsAre
<1>3. PICK e \in Places(Steps) :
          /\ e[1] = Len(K.removal) + 1
          /\ \A p \in Places(Steps) :
                 /\ Precedes(p, e) => Todo(p).does \in {"put", "await"}
                 /\ Precedes(e, p) => Todo(p).does = "awaitGone"
      BY <1>1, <1>2, RemovalPlaces
<1>4. d = e \/ Precedes(d, e) \/ Precedes(e, d)
      BY <1>1, PlaceOrder
<1>5. d = e
      BY <1>3, <1>4
<1> QED BY <1>3, <1>5

-----------------------------------------------------------------------------
(* Steps *)

LEMMA SamePlan ==
    ASSUME UNCHANGED <<kind, plan>>
    PROVE  /\ K' = K /\ Steps' = Steps
           /\ \A p : Todo(p)' = Todo(p)
<1>1. kind' = kind /\ plan' = plan
      OBVIOUS
<1>2. K' = K /\ Steps' = Steps
      BY <1>1 DEF K, Steps
<1> QED BY <1>2 DEF Todo

\* What AWS may do for a call.
LEMMA PerformEffect ==
    ASSUME TypeOK, NEW c \in CallOf(K), Perform(c)
    PROVE  /\ status' \in Statuses /\ parts' \subseteq K.parts
           /\ c.does = "make" => status' \in {"busy", "ready"}
           /\ c.does = "put" => status' = IF c.slow THEN "busy" ELSE status
           /\ c.does \in {"make", "put"} =>
                  /\ right' = (right \ c.takes) \cup c.puts
                  /\ parts' = (parts \cup c.adds) \ c.clears
           /\ c.does = "delete" => /\ status' \in {"going", "absent"}
                                   /\ parts' \in {parts, {}}
           /\ c.does \notin {"make", "put", "delete"} => UNCHANGED aws
<1>1. /\ c.does \in {"make", "put", "delete", "await", "awaitGone", "refuse", "giveUp"}
      /\ c.slow \in BOOLEAN /\ c.adds \subseteq K.parts
      BY CallTyped
<1>2. status \in Statuses /\ parts \subseteq K.parts
      BY DEF TypeOK
<1>3. CASE c.does \in {"make", "put"}
      BY <1>1, <1>2, <1>3 DEF Perform, Statuses
<1>4. CASE c.does = "delete"
    <2>1. CASE c.slow
          BY <1>2, <1>4, <2>1 DEF Perform, Statuses
    <2>2. CASE ~ c.slow
          BY <1>2, <1>4, <2>2 DEF Perform, Statuses, Gone
    <2> QED BY <1>1, <2>1, <2>2
<1>5. CASE c.does \notin {"make", "put", "delete"}
      BY <1>2, <1>5 DEF Perform, aws
<1> QED BY <1>1, <1>3, <1>4, <1>5

LEMMA TodoTyped ==
    ASSUME TypeOK, NEW p \in Places(Steps)
    PROVE  Todo(p) \in CallOf(K)
BY StepsAre, PlaceTyped

\* An operation that begins has every call to make that is due.
LEMMA BeginTyped ==
    ASSUME TypeOK, NEW name \in PlanNames, NEW what,
           kind' = kind, plan' = name, todo' = Due(Plans[kind][name], what)
    PROVE  /\ Steps' = Plan(K, name) /\ K' = K
           /\ todo' = Due(Plan(K, name), what) /\ todo' \subseteq Places(Steps')
           /\ \A p : Todo(p)' = At(Plan(K, name), p)
<1>1. Plans[kind][name] = Plan(K, name)
      BY PlansAre DEF TypeOK
<1>2. Steps' = Plan(K, name) /\ K' = K
      BY <1>1 DEF Steps, K
<1>3. \A p : Todo(p)' = At(Plan(K, name), p)
      BY <1>2 DEF Todo
<1> QED BY <1>1, <1>2, <1>3, DuePlaces

LEMMA EndTyped ==
    ASSUME TypeOK, NEW outcome, End(outcome), kind' = kind,
           status' \in Statuses, parts' \subseteq K.parts
    PROVE  TypeOK' /\ OpOK' /\ op' = "none" /\ todo' = {}
<1>1. op' = "none" /\ plan' = "none" /\ todo' = {} /\ began' = "absent" /\ touched' = FALSE
      BY DEF End
<1>2. K' = K
      BY DEF K
<1> QED BY <1>1, <1>2 DEF TypeOK, OpOK, PlanNames, Statuses

LEMMA BreakTyped ==
    ASSUME TypeOK, OpOK, NEW p \in todo, Running, Break(Todo(p)), kind' = kind,
           status' \in Statuses, parts' \subseteq K.parts
    PROVE  TypeOK' /\ OpOK'
<1>1. CASE ~ Todo(p).undo
      BY <1>1, EndTyped DEF Break
<1>2. CASE Todo(p).undo
    <2>1. /\ op' = "undo" /\ plan' = "removal"
          /\ todo' = Due(Plans[kind]["removal"], parts')
          /\ UNCHANGED <<began, touched, result>>
          BY <1>2 DEF Break
    <2>2. todo' \subseteq Places(Steps') /\ K' = K
          BY <2>1, BeginTyped DEF PlanNames
    <2>3. result = "none"
          BY DEF OpOK, Running
    <2> QED BY <2>1, <2>2, <2>3 DEF TypeOK, OpOK, PlanNames, Statuses
<1> QED BY <1>1, <1>2

\* While an operation goes on it keeps its plan.
LEMMA GoOnTyped ==
    ASSUME TypeOK, OpOK, UNCHANGED <<kind, op, plan, began>>,
           touched' \in BOOLEAN, op = "none" => ~ touched', result' \in {result, "none"},
           todo' \subseteq todo, status' \in Statuses, parts' \subseteq K.parts
    PROVE  TypeOK' /\ OpOK'
<1>1. K' = K /\ Steps' = Steps
      BY SamePlan
<1>2. TypeOK'
      BY <1>1 DEF TypeOK
<1>3. OpOK'
      BY DEF OpOK
<1> QED BY <1>2, <1>3

LEMMA StepTyped ==
    ASSUME TypeOK, OpOK, [Next]_vars
    PROVE  TypeOK' /\ OpOK'
<1>0. /\ status \in Statuses /\ parts \subseteq K.parts /\ touched \in BOOLEAN
      /\ touched = TRUE => op # "none"
      BY DEF TypeOK, OpOK
<1>1. CASE Apply \/ Destroy
    <2>1. PICK name \in PlanNames, what \in {Diffs, parts} :
              /\ op' \in {"apply", "destroy"} /\ plan' = name
              /\ op' = "apply" => name \in {"create", "update"}
              /\ op' = "destroy" => name \in {"none", "removal"}
              /\ todo' = Due(Plans[kind][name], what)
              /\ began' = status /\ touched' = FALSE /\ result' = "none"
              /\ UNCHANGED <<kind, aws>>
        <3>1. CASE Apply
              BY <3>1 DEF Apply, Begin, PlanNames
        <3>2. CASE Destroy
              BY <3>2 DEF Destroy, Begin, PlanNames
        <3> QED BY <1>1, <3>1, <3>2
    <2>2. todo' \subseteq Places(Steps') /\ K' = K
          BY <2>1, BeginTyped
    <2>3. UNCHANGED <<kind, status, parts>>
          BY <2>1 DEF aws
    <2> QED BY <1>0, <2>1, <2>2, <2>3 DEF TypeOK, OpOK
<1>2. CASE MakeCall
    <2>1. PICK p \in todo :
              /\ Running /\ IsNext(p) /\ Accepts(Todo(p)) /\ Perform(Todo(p))
              /\ todo' = IF Todo(p).does = "giveUp" THEN {} ELSE todo \ {p}
              /\ UNCHANGED <<kind, op, plan, began, touched, result>>
          BY <1>2 DEF MakeCall
    <2>2. status' \in Statuses /\ parts' \subseteq K.parts
          BY <2>1, TodoTyped, PerformEffect DEF TypeOK
    <2>3. todo' \subseteq todo
          BY <2>1
    <2> QED BY <1>0, <2>1, <2>2, <2>3, GoOnTyped
<1>3. CASE Refused
    <2>1. PICK p \in todo : Running /\ Break(Todo(p)) /\ UNCHANGED <<kind, aws>>
          BY <1>3 DEF Refused
    <2> QED BY <1>0, <2>1, BreakTyped DEF aws
<1>4. CASE Fail
    <2>1. PICK p \in todo :
              /\ Running /\ Break(Todo(p)) /\ kind' = kind
              /\ UNCHANGED aws \/ Perform(Todo(p))
          BY <1>4 DEF Fail
    <2>2. status' \in Statuses /\ parts' \subseteq K.parts
        <3>1. CASE UNCHANGED aws
              BY <1>0, <3>1 DEF aws
        <3>2. CASE Perform(Todo(p))
              BY <3>2, TodoTyped, PerformEffect DEF TypeOK
        <3> QED BY <2>1, <3>1, <3>2
    <2> QED BY <2>1, <2>2, BreakTyped
<1>5. CASE Ignored
    <2>1. PICK p \in todo :
              /\ todo' = todo \ {p}
              /\ UNCHANGED <<kind, aws, op, plan, began, touched, result>>
          BY <1>5 DEF Ignored
    <2> QED BY <1>0, <2>1, GoOnTyped DEF aws
<1>6. CASE Kill
    <2>1. End("error") /\ UNCHANGED <<kind, aws>>
          BY <1>6 DEF Kill
    <2> QED BY <1>0, <2>1, EndTyped DEF aws
<1>7. CASE Succeed
    <2>1. PICK outcome : End(outcome)
          BY <1>7 DEF Succeed
    <2>2. UNCHANGED <<kind, aws>>
          BY <1>7 DEF Succeed
    <2> QED BY <1>0, <2>1, <2>2, EndTyped DEF aws
<1>8. CASE Settle
    <2>1. /\ status' \in Statuses /\ parts' \subseteq parts
          /\ UNCHANGED <<kind, op, plan, todo, began, touched, result>>
          BY <1>8 DEF Settle, Gone, run, Statuses
    <2> QED BY <1>0, <2>1, GoOnTyped
<1>9. CASE People
    <2>1. /\ UNCHANGED <<kind, op, plan, todo, began>> /\ result' = "none"
          /\ touched' = (op # "none")
          BY <1>9 DEF People, Others
    <2>2. touched' \in BOOLEAN /\ (op = "none" => ~ touched')
          BY <2>1
    <2>3. status' \in Statuses /\ parts' \subseteq K.parts
          BY <1>0, <1>9 DEF People, Others, Edit, AddPart, CreateByHand, DeleteByHand, Gone,
             Statuses
    <2> QED BY <2>1, <2>2, <2>3, GoOnTyped
<1>10. CASE UNCHANGED vars
       BY <1>0, <1>10, GoOnTyped DEF vars, aws, run
<1> QED BY <1>1, <1>2, <1>3, <1>4, <1>5, <1>6, <1>7, <1>8, <1>9, <1>10
        DEF Next, Progress, Trouble

\* How an operation comes to its plan.
LEMMA BeginIs ==
    ASSUME TypeOK, Apply \/ Destroy
    PROVE  \E name \in PlanNames : \E what :
               /\ op' \in {"apply", "destroy"} /\ plan' = name
               /\ name = "none"    => status \in {"absent", "going"}
               /\ name = "create"  => status \in {"absent", "going"}
               /\ name = "update"  => Exists /\ what = Diffs
               /\ name = "removal" => Exists /\ what = parts
               /\ Steps' = Plan(K, name) /\ K' = K
               /\ todo' = Due(Plan(K, name), what)
               /\ \A p : Todo(p)' = At(Plan(K, name), p)
               /\ began' = status /\ touched' = FALSE
               /\ UNCHANGED <<kind, status, right, parts>>
<1>1. ~ Exists => status \in {"absent", "going"}
      BY DEF TypeOK, Statuses, Exists
<1>2. PICK name \in PlanNames, what \in {Diffs, parts} :
          /\ op' \in {"apply", "destroy"} /\ plan' = name
          /\ name \in {"none", "create"} => ~ Exists
          /\ name = "update"  => Exists /\ what = Diffs
          /\ name = "removal" => Exists /\ what = parts
          /\ todo' = Due(Plans[kind][name], what)
          /\ began' = status /\ touched' = FALSE
          /\ UNCHANGED <<kind, aws>>
    <2>1. CASE Apply
          BY <2>1 DEF Apply, Begin, PlanNames
    <2>2. CASE Destroy
          BY <2>2 DEF Destroy, Begin, PlanNames
    <2> QED BY <2>1, <2>2
<1>3. /\ Steps' = Plan(K, name) /\ K' = K /\ todo' = Due(Plan(K, name), what)
      /\ \A p : Todo(p)' = At(Plan(K, name), p)
      BY <1>2, BeginTyped
<1> QED BY <1>1, <1>2, <1>3 DEF aws

\* Any other step of an operation goes on with its plan, ends it, or breaks it off to
\* destroy what it has made.
GoesOn == op # "none" /\ UNCHANGED <<kind, op, plan, began>> /\ todo' \subseteq todo
Ends   == op' = "none" /\ todo' = {}

\* The call at p is made, or is taken for made.
Passes(p) ==
    /\ IsNext(p) /\ GoesOn /\ UNCHANGED touched
    /\ \/ Accepts(Todo(p)) /\ Perform(Todo(p))
       \/ Todo(p).loose /\ Accepts(Todo(p)) /\ UNCHANGED aws
    /\ todo' = IF Todo(p).does = "giveUp" THEN {} ELSE todo \ {p}

\* The call at p fails, and the resource is to be destroyed again.
Undoes(p) ==
    /\ IsNext(p) /\ op # "none" /\ op' = "undo" /\ plan' = "removal"
    /\ Todo(p).undo
    /\ todo' = Due(Plans[kind]["removal"], parts')
    /\ UNCHANGED <<kind, began, touched>>
    /\ UNCHANGED aws \/ (Accepts(Todo(p)) /\ Perform(Todo(p)))

Changes ==
    \/ Apply \/ Destroy
    \/ \E p : Passes(p)
    \/ \E p : Undoes(p)
    \/ Ends
    \/ Settle
    \/ UNCHANGED <<kind, op, plan, todo, began>> /\ (op = "none" \/ touched')
    \/ UNCHANGED vars

LEMMA LooseIsPut ==
    ASSUME TypeOK, NEW p \in Places(Steps), Todo(p).loose
    PROVE  Todo(p).does = "put"
<1>1. Steps = Plan(K, plan) /\ InOrder(K) /\ Todo(p) = At(Steps, p)
      BY StepsAre
<1>2. CASE plan \in {"create", "update", "removal"}
      BY <1>1, <1>2 DEF InOrder, Looked
<1>3. CASE plan = "none"
    <2>1. Steps = << >>
          BY <1>1, <1>3 DEF Plan
    <2>2. Places(Steps) = {}
          BY <2>1, PlaceIs
    <2> QED BY <2>2
<1> QED BY <1>2, <1>3 DEF TypeOK, PlanNames

LEMMA NextChanges ==
    ASSUME TypeOK, [Next]_vars
    PROVE  Changes
<1>1. CASE Apply \/ Destroy
      BY <1>1 DEF Changes
<1>2. CASE MakeCall
    <2>1. PICK p \in todo :
              /\ Running /\ IsNext(p) /\ Accepts(Todo(p)) /\ Perform(Todo(p))
              /\ todo' = IF Todo(p).does = "giveUp" THEN {} ELSE todo \ {p}
              /\ UNCHANGED <<kind, op, plan, began, touched, result>>
          BY <1>2 DEF MakeCall
    <2>2. Passes(p)
          BY <2>1 DEF Passes, GoesOn, Running
    <2> QED BY <2>2 DEF Changes
<1>3. CASE Refused
    <2>1. PICK p \in todo :
              Running /\ IsNext(p) /\ Break(Todo(p)) /\ UNCHANGED <<kind, aws>>
          BY <1>3 DEF Refused
    <2>2. CASE Todo(p).undo
        <3>1. Undoes(p)
              BY <2>1, <2>2 DEF Undoes, Running, Break
        <3> QED BY <3>1 DEF Changes
    <2>3. CASE ~ Todo(p).undo
        <3>1. Ends
              BY <2>1, <2>3 DEF Break, End, Ends
        <3> QED BY <3>1 DEF Changes
    <2> QED BY <2>2, <2>3
<1>4. CASE Fail
    <2>1. PICK p \in todo :
              /\ Running /\ IsNext(p) /\ Break(Todo(p)) /\ kind' = kind
              /\ UNCHANGED aws \/ (Accepts(Todo(p)) /\ Perform(Todo(p)))
          BY <1>4 DEF Fail
    <2>2. CASE Todo(p).undo
        <3>1. Undoes(p)
              BY <2>1, <2>2 DEF Undoes, Running, Break
        <3> QED BY <3>1 DEF Changes
    <2>3. CASE ~ Todo(p).undo
        <3>1. Ends
              BY <2>1, <2>3 DEF Break, End, Ends
        <3> QED BY <3>1 DEF Changes
    <2> QED BY <2>2, <2>3
<1>5. CASE Ignored
    <2>1. PICK p \in todo :
              /\ Running /\ IsNext(p) /\ Accepts(Todo(p)) /\ Todo(p).loose
              /\ todo' = todo \ {p}
              /\ UNCHANGED <<kind, aws, op, plan, began, touched, result>>
          BY <1>5 DEF Ignored
    <2>2. Todo(p).does # "giveUp"
          BY <2>1, StepsAre, LooseIsPut
    <2>3. Passes(p)
          BY <2>1, <2>2 DEF Passes, GoesOn, Running
    <2> QED BY <2>3 DEF Changes
<1>6. CASE Kill \/ Succeed
      BY <1>6 DEF Kill, Succeed, End, Ends, Changes
<1>7. CASE Settle
      BY <1>7 DEF Changes
<1>8. CASE People
      BY <1>8 DEF People, Others, Changes
<1>9. CASE UNCHANGED vars
      BY <1>9 DEF Changes
<1> QED BY <1>1, <1>2, <1>3, <1>4, <1>5, <1>6, <1>7, <1>8, <1>9 DEF Next, Progress, Trouble

\* What is settled is only AWS's own work.
LEMMA SettleIs ==
    ASSUME Settle
    PROVE  /\ UNCHANGED <<kind, op, plan, todo, began, touched>>
           /\ \/ status = "busy" /\ status' = "ready" /\ UNCHANGED <<right, parts>>
              \/ status = "going" /\ status' = "absent" /\ parts' = {}
BY DEF Settle, Gone, run

LEMMA StepWhole ==
    ASSUME TypeOK, Whole, Changes
    PROVE  Whole'
<1>1. CASE Apply \/ Destroy
    <2>1. PICK name, what :
              Steps' = Plan(K, name) /\ todo' = Due(Plan(K, name), what)
          BY <1>1, BeginIs
    <2> QED BY <2>1, DueJoins DEF Whole
<1>2. ASSUME UNCHANGED <<kind, plan>>, todo' \subseteq todo,
             \A q \in todo : q \in todo' \/ \A x \in todo' : Precedes(q, x)
      PROVE  Whole'
    <2>1. Steps' = Steps
          BY <1>2, SamePlan
    <2> QED BY <1>2, <2>1 DEF Whole
<1>3. ASSUME NEW p, Passes(p)
      PROVE  Whole'
    <2>1. UNCHANGED <<kind, plan>> /\ todo' \subseteq todo
          BY <1>3 DEF Passes, GoesOn
    <2>2. ASSUME NEW q \in todo
          PROVE  q \in todo' \/ \A x \in todo' : Precedes(q, x)
        <3>1. \A x \in todo \ {p} : Precedes(p, x)
              BY <1>3, NextIsFirst DEF Passes
        <3> QED BY <1>3, <3>1 DEF Passes
    <2> QED BY <2>1, <2>2, <1>2
<1>4. ASSUME NEW p, Undoes(p)
      PROVE  Whole'
    <2>1. kind' = kind /\ plan' = "removal" /\ todo' = Due(Plans[kind]["removal"], parts')
          BY <1>4 DEF Undoes
    <2>2. Steps' = Plan(K, "removal") /\ todo' = Due(Plan(K, "removal"), parts')
          BY <2>1, BeginTyped DEF PlanNames
    <2> QED BY <2>2, DueJoins DEF Whole
<1>5. CASE Ends
      BY <1>5 DEF Ends, Whole
<1>6. CASE Settle
      BY <1>6, <1>2, SettleIs
<1>7. CASE UNCHANGED <<kind, op, plan, todo, began>> \/ UNCHANGED vars
      BY <1>7, <1>2 DEF vars, run
<1> QED BY <1>1, <1>3, <1>4, <1>5, <1>6, <1>7 DEF Changes

\* A promise binds after a step only if the operation begins, or it did before.
LEMMA Binding ==
    ASSUME TypeOK, Changes, Undisturbed'
    PROVE  \/ Apply \/ Destroy
           \/ /\ Undisturbed
              /\ \/ \E p : Passes(p)
                 \/ \E p : Undoes(p)
                 \/ Settle
                 \/ UNCHANGED vars
<1>1. op' # "none" /\ ~ touched' /\ Promising'
      BY DEF Undisturbed
<1>2. ASSUME kind' = kind, began' = began
      PROVE  Promising
    <2>1. K' = K
          BY <1>2 DEF K
    <2> QED BY <1>1, <1>2, <2>1 DEF Promising
<1>3. ASSUME NEW p, Passes(p) \/ Undoes(p)
      PROVE  Undisturbed
      BY <1>1, <1>2, <1>3 DEF Passes, Undoes, GoesOn, Undisturbed
<1>4. CASE Settle
      BY <1>1, <1>2, <1>4 DEF Settle, run, Undisturbed
<1>5. CASE UNCHANGED vars
      BY <1>1, <1>2, <1>5 DEF vars, run, Undisturbed
<1>6. ~ Ends
      BY <1>1 DEF Ends
<1>7. ~ (UNCHANGED <<kind, op, plan, todo, began>> /\ (op = "none" \/ touched'))
      BY <1>1
<1> QED BY <1>3, <1>4, <1>5, <1>6, <1>7 DEF Changes

\* The calls that a plan may have to make next, where AWS is.
LEMMA NextCall ==
    ASSUME TypeOK, Phase, Undisturbed, NEW p, IsNext(p)
    PROVE  /\ plan # "none" /\ p \in todo /\ Todo(p) \in CallOf(K)
           /\ plan = "create" =>
                  IF p = <<1, 1>> THEN Todo(p).does = "make" /\ ~ Todo(p).undo
                  ELSE Todo(p).does \in {"put", "await"} /\ <<1, 1>> \notin todo
           /\ plan = "update" =>
                  Todo(p).does \in {"put", "await", "refuse", "giveUp"} /\ ~ Todo(p).undo
           /\ plan = "removal" =>
                  /\ ~ Todo(p).undo
                  /\ \/ status \in {"absent", "going"} /\ Todo(p).does = "awaitGone"
                     \/ status \in {"busy", "ready"} /\ Todo(p).does = "delete"
                     \/ /\ status \in {"busy", "ready"} /\ Todo(p).does \in {"put", "await"}
                        /\ \E d \in todo : d # p /\ Todo(d).does = "delete"
<1>1. /\ p \in todo /\ p \in Places(Steps) /\ \A q \in todo \ {p} : Precedes(p, q)
      /\ \A q \in todo : ~ Precedes(q, p)
      BY NextIsFirst
<1>2. /\ Steps = Plan(K, plan) /\ InOrder(K) /\ Todo(p) = At(Steps, p)
      /\ todo \subseteq Places(Steps)
      BY StepsAre
<1>3. plan # "none"
    <2> SUFFICES ASSUME plan = "none" PROVE FALSE
          OBVIOUS
    <2>1. Steps = << >>
          BY <1>2 DEF Plan
    <2>2. Places(Steps) = {}
          BY <2>1, PlaceIs
    <2> QED BY <1>1, <2>2
<1>4. ASSUME plan = "create"
      PROVE  IF p = <<1, 1>> THEN Todo(p).does = "make" /\ ~ Todo(p).undo
             ELSE Todo(p).does \in {"put", "await"} /\ <<1, 1>> \notin todo
    <2>1. /\ At(Steps, <<1, 1>>).does = "make" /\ ~ At(Steps, <<1, 1>>).undo
          /\ \A q \in Places(Steps) : q # <<1, 1>> =>
                 At(Steps, q).does \in {"put", "await"} /\ Precedes(<<1, 1>>, q)
          BY <1>2, <1>4, CreatePlaces
    <2>2. p # <<1, 1>> => <<1, 1>> \notin todo
          BY <1>1, <2>1
    <2> QED BY <1>1, <1>2, <2>1, <2>2
<1>5. ASSUME plan = "update"
      PROVE  Todo(p).does \in {"put", "await", "refuse", "giveUp"} /\ ~ Todo(p).undo
    <2>1. Steps = K.update
          BY <1>2, <1>5 DEF Plan
    <2> QED BY <1>1, <1>2, <2>1 DEF InOrder, UpdateRule
<1>6. ASSUME plan = "removal"
      PROVE  /\ ~ Todo(p).undo
             /\ \/ status \in {"absent", "going"} /\ Todo(p).does = "awaitGone"
                \/ status \in {"busy", "ready"} /\ Todo(p).does = "delete"
                \/ /\ status \in {"busy", "ready"} /\ Todo(p).does \in {"put", "await"}
                   /\ \E d \in todo : d # p /\ Todo(d).does = "delete"
    <2>1. ~ Todo(p).undo
          BY <1>1, <1>2, <1>6, RemovalPlaces
    <2>2. CASE status \in {"absent", "going"} /\ \A q \in todo : Todo(q).does = "awaitGone"
          BY <1>1, <2>1, <2>2
    <2>3. CASE status \in {"busy", "ready"} /\ \E d \in todo : Todo(d).does = "delete"
        <3>1. PICK d \in todo : Todo(d).does = "delete"
              BY <2>3
        <3>2. CASE p = d
              BY <2>1, <2>3, <3>1, <3>2
        <3>3. CASE p # d
            <4>1. Precedes(p, d)
                  BY <1>1, <3>3
            <4>2. Todo(p).does \in {"put", "await"}
                  BY <1>1, <1>2, <1>6, <3>1, <4>1, DeletePlace
            <4> QED BY <2>1, <2>3, <3>1, <3>3, <4>2
        <3> QED BY <3>2, <3>3
    <2> QED BY <1>6, <2>2, <2>3 DEF Phase
<1>7. Todo(p) \in CallOf(K)
      BY <1>1, TodoTyped
<1> QED BY <1>1, <1>3, <1>4, <1>5, <1>6, <1>7

\* The call that was made is no longer to be made, and the plan is the same.
LEMMA PassesFrame ==
    ASSUME TypeOK, NEW p, Passes(p)
    PROVE  /\ kind' = kind /\ plan' = plan /\ op' = op /\ began' = began /\ K' = K
           /\ todo' \subseteq todo \ {p} /\ Steps' = Steps
           /\ Todo(p).does # "giveUp" => todo' = todo \ {p}
           /\ \A q : Todo(q)' = Todo(q)
           /\ Accepts(Todo(p))
           /\ Perform(Todo(p)) \/ (Todo(p).loose /\ Todo(p).does = "put" /\ UNCHANGED aws)
<1>1. UNCHANGED <<kind, op, plan, began>>
      BY DEF Passes, GoesOn
<1>2. p \in Places(Steps)
      BY NextIsFirst DEF Passes
<1>3. Todo(p).loose => Todo(p).does = "put"
      BY <1>2, LooseIsPut
<1> QED BY <1>1, <1>3, SamePlan DEF Passes

LEMMA UndoesFrame ==
    ASSUME TypeOK, Phase, Undisturbed, NEW p, Undoes(p)
    PROVE  /\ plan = "create" /\ Todo(p).does \in {"put", "await"} /\ Todo(p).undo
           /\ status' \in {"busy", "ready"}
           /\ plan' = "removal" /\ op' = "undo" /\ began' = began /\ kind' = kind /\ K' = K
           /\ Steps' = Plan(K, "removal") /\ InOrder(K)
           /\ todo' = Due(Plan(K, "removal"), parts')
           /\ \A q : Todo(q)' = At(Plan(K, "removal"), q)
<1>1. /\ IsNext(p) /\ op' = "undo" /\ plan' = "removal" /\ Todo(p).undo
      /\ todo' = Due(Plans[kind]["removal"], parts') /\ UNCHANGED <<kind, began>>
      /\ UNCHANGED aws \/ (Accepts(Todo(p)) /\ Perform(Todo(p)))
      BY DEF Undoes
<1>2. /\ plan \in {"none", "create", "update", "removal"} /\ Todo(p) \in CallOf(K)
      /\ plan = "create" /\ Todo(p).does \in {"put", "await"} /\ <<1, 1>> \notin todo
      BY <1>1, NextCall DEF TypeOK, PlanNames
<1>3. status \in {"busy", "ready"}
      BY <1>2 DEF Phase
<1>4. status' \in {"busy", "ready"}
    <2>1. CASE UNCHANGED aws
          BY <1>3, <2>1 DEF aws
    <2>2. CASE Perform(Todo(p))
        <3>1. CASE Todo(p).does = "put"
              BY <1>2, <1>3, <2>2, <3>1, PerformEffect
        <3>2. CASE Todo(p).does = "await"
              BY <1>2, <1>3, <2>2, <3>2, PerformEffect DEF aws
        <3> QED BY <1>2, <3>1, <3>2
    <2> QED BY <1>1, <2>1, <2>2
<1>5. /\ Steps' = Plan(K, "removal") /\ K' = K
      /\ todo' = Due(Plan(K, "removal"), parts')
      /\ \A q : Todo(q)' = At(Plan(K, "removal"), q)
      BY <1>1, BeginTyped DEF PlanNames
<1> QED BY <1>1, <1>2, <1>4, <1>5, StepsAre

LEMMA StepPhase ==
    ASSUME TypeOK, Phase, Changes
    PROVE  Phase'
<1> DEFINE Goal ==
        /\ plan' = "none"   => status' \in {"absent", "going"}
        /\ plan' = "create" =>
               IF <<1, 1>> \in todo' THEN status' \in {"absent", "going"}
                                     ELSE status' \in {"busy", "ready"}
        /\ plan' = "update" => status' \in {"busy", "ready"}
        /\ plan' = "removal" =>
               \/ /\ status' \in {"busy", "ready"}
                  /\ \E d \in todo' : Todo(d)'.does = "delete"
               \/ /\ status' \in {"absent", "going"}
                  /\ \A p \in todo' : Todo(p)'.does = "awaitGone"
<1> SUFFICES ASSUME Undisturbed' PROVE Goal
    BY DEF Phase
<1>1. CASE Apply \/ Destroy
    <2>1. PICK name, what :
              /\ name \in PlanNames /\ plan' = name
              /\ name \in {"none", "create"} => status \in {"absent", "going"}
              /\ name \in {"update", "removal"} => Exists
              /\ todo' = Due(Plan(K, name), what)
              /\ \A p : Todo(p)' = At(Plan(K, name), p)
              /\ began' = status /\ UNCHANGED <<kind, status>>
          BY <1>1, BeginIs
    <2>2. status' = status /\ InOrder(K)
          BY <2>1, StepsAre
    <2>3. CASE name = "none"
          BY <2>1, <2>2, <2>3
    <2>4. CASE name = "create"
        <3>1. <<1, 1>> \in todo'
              BY <2>1, <2>2, <2>4, CreatePlaces, CreateDue
        <3> QED BY <2>1, <2>2, <2>4, <3>1
    <2>5. CASE name \in {"update", "removal"}
        <3>1. K' = K
              BY <2>1 DEF K
        <3>2. ~ (K.ghost /\ status = "going")
              BY <2>1, <3>1 DEF Undisturbed, Promising
        <3>3. status' \in {"busy", "ready"}
              BY <2>1, <2>2, <2>5, <3>2 DEF Exists
        <3>4. name = "removal" => \E d \in todo' : Todo(d)'.does = "delete"
            <4> SUFFICES ASSUME name = "removal" PROVE \E d \in todo' : Todo(d)'.does = "delete"
                OBVIOUS
            <4>1. PICK d : d \in Due(Plan(K, name), what) /\ At(Plan(K, name), d).does = "delete"
                  BY <2>2, RemovalPlaces
            <4> QED BY <2>1, <4>1
        <3> QED BY <2>1, <2>5, <3>3, <3>4
    <2> QED BY <2>1, <2>3, <2>4, <2>5 DEF PlanNames
<1>2. ASSUME Undisturbed, NEW p, Passes(p)
      PROVE  Goal
    <2>1. /\ plan' = plan /\ todo' \subseteq todo \ {p} /\ \A q : Todo(q)' = Todo(q)
          /\ Todo(p).does # "giveUp" => todo' = todo \ {p}
          /\ Accepts(Todo(p))
          /\ Perform(Todo(p)) \/ (Todo(p).loose /\ Todo(p).does = "put" /\ UNCHANGED aws)
          BY <1>2, PassesFrame
    <2>2. IsNext(p) /\ Todo(p) \in CallOf(K) /\ plan # "none"
          BY <1>2, NextCall DEF Passes
    <2>3. /\ Todo(p).does = "make" /\ ~ Todo(p).loose => status' \in {"busy", "ready"}
          /\ Todo(p).does \in {"put", "await", "giveUp"} /\ status \in {"busy", "ready"} =>
                 status' \in {"busy", "ready"}
          /\ Todo(p).does = "delete" => status' \in {"going", "absent"}
          /\ Todo(p).does = "awaitGone" => status' = status
        <3>1. CASE Perform(Todo(p))
            <4>1. UNCHANGED aws => status' = status
                  BY DEF aws
            <4>2. status \in {"busy", "ready"} /\ Todo(p).does = "put" =>
                      status' \in {"busy", "ready"}
                  BY <2>2, <3>1, PerformEffect
            <4> QED BY <2>2, <3>1, <4>1, <4>2, PerformEffect
        <3>2. CASE Todo(p).loose /\ Todo(p).does = "put" /\ UNCHANGED aws
              BY <3>2 DEF aws
        <3> QED BY <2>1, <3>1, <3>2
    <2>4. CASE plan = "create"
        <3>1. CASE p = <<1, 1>>
            <4>1. Todo(p).does = "make"
                  BY <1>2, <2>2, <2>4, <3>1, NextCall
            <4>2. ~ Todo(p).loose
                  BY <2>4, <3>1, StepsAre, CreatePlaces
            <4>3. <<1, 1>> \notin todo'
                  BY <2>1, <3>1
            <4> QED BY <2>1, <2>3, <2>4, <4>1, <4>2, <4>3
        <3>2. CASE p # <<1, 1>>
            <4>1. Todo(p).does \in {"put", "await"} /\ <<1, 1>> \notin todo
                  BY <1>2, <2>2, <2>4, <3>2, NextCall
            <4>2. status \in {"busy", "ready"}
                  BY <1>2, <2>4, <4>1 DEF Phase
            <4> QED BY <2>1, <2>3, <2>4, <4>1, <4>2
        <3> QED BY <3>1, <3>2
    <2>5. CASE plan = "update"
        <3>1. Todo(p).does # "refuse"
              BY <2>1 DEF Accepts
        <3>2. Todo(p).does \in {"put", "await", "giveUp"}
              BY <1>2, <2>2, <2>5, <3>1, NextCall
        <3>3. status \in {"busy", "ready"}
              BY <1>2, <2>5 DEF Phase
        <3> QED BY <2>1, <2>3, <2>5, <3>2, <3>3
    <2>6. CASE plan = "removal"
        <3>1. CASE status \in {"absent", "going"} /\ Todo(p).does = "awaitGone"
            <4>1. \A q \in todo : Todo(q).does = "awaitGone"
                  BY <1>2, <2>6, <3>1 DEF Phase
            <4> QED BY <2>1, <2>3, <2>6, <3>1, <4>1
        <3>2. CASE Todo(p).does = "delete"
            <4>1. p \in Places(Steps) /\ \A q \in todo \ {p} : Precedes(p, q)
                  BY <2>2, NextIsFirst
            <4>2. \A q \in todo \ {p} : Todo(q).does = "awaitGone"
                  BY <2>6, <3>2, <4>1, StepsAre, DeletePlace
            <4> QED BY <2>1, <2>3, <2>6, <3>2, <4>2
        <3>3. CASE /\ status \in {"busy", "ready"} /\ Todo(p).does \in {"put", "await"}
                   /\ \E d \in todo : d # p /\ Todo(d).does = "delete"
            <4>1. PICK d \in todo : d # p /\ Todo(d).does = "delete"
                  BY <3>3
            <4>2. d \in todo'
                  BY <2>1, <3>3, <4>1
            <4> QED BY <2>1, <2>3, <2>6, <3>3, <4>1, <4>2
        <3> QED BY <1>2, <2>2, <2>6, <3>1, <3>2, <3>3, NextCall
    <2> QED BY <2>2, <2>4, <2>5, <2>6 DEF TypeOK, PlanNames
<1>3. ASSUME Undisturbed, NEW p, Undoes(p)
      PROVE  Goal
    <2>1. /\ plan' = "removal" /\ status' \in {"busy", "ready"} /\ InOrder(K)
          /\ todo' = Due(Plan(K, "removal"), parts')
          /\ \A q : Todo(q)' = At(Plan(K, "removal"), q)
          BY <1>3, UndoesFrame
    <2>2. PICK d : /\ d \in Due(Plan(K, "removal"), parts')
                   /\ At(Plan(K, "removal"), d).does = "delete"
          BY <2>1, RemovalPlaces
    <2> QED BY <2>1, <2>2
<1>4. ASSUME Undisturbed, Settle
      PROVE  Goal
    <2>1. /\ UNCHANGED <<kind, op, plan, todo>>
          /\ \/ status = "busy" /\ status' = "ready"
             \/ status = "going" /\ status' = "absent"
          BY <1>4, SettleIs
    <2>2. \A q : Todo(q)' = Todo(q)
          BY <2>1, SamePlan
    <2> QED BY <1>4, <2>1, <2>2 DEF Phase
<1>5. ASSUME Undisturbed, UNCHANGED vars
      PROVE  Goal
    <2>1. UNCHANGED <<kind, plan, todo, status>>
          BY <1>5 DEF vars, run, aws
    <2>2. \A q : Todo(q)' = Todo(q)
          BY <2>1, SamePlan
    <2> QED BY <1>5, <2>1, <2>2 DEF Phase
<1> QED BY <1>1, <1>2, <1>3, <1>4, <1>5, Binding

\* What a wait is put between is still to be made, with the wait.
LEMMA WaitsBetween ==
    ASSUME TypeOK, Whole, NEW p, IsNext(p), NEW q \in todo \ {p},
           Todo(p).slow, Todo(q).strict
    PROVE  \E r \in todo \ {p} : Todo(r).does = "await" /\ Precedes(r, q)
<1>1. /\ p \in todo /\ p \in Places(Steps) /\ Precedes(p, q)
      /\ \A x \in todo : ~ Precedes(x, p)
      BY NextIsFirst
<1>2. /\ Steps = Plan(K, plan) /\ InOrder(K) /\ q \in Places(Steps)
      /\ Steps \in Seq(StepOf(K)) /\ \A x : Todo(x) = At(Steps, x)
      BY StepsAre
<1>3. plan # "none"
    <2> SUFFICES ASSUME plan = "none" PROVE FALSE
          OBVIOUS
    <2>1. Steps = << >>
          BY <1>2 DEF Plan
    <2>2. Places(Steps) = {}
          BY <2>1, PlaceIs
    <2> QED BY <1>1, <2>2
<1>4. Waited(Steps)
      BY <1>2, <1>3 DEF InOrder, TypeOK, PlanNames
<1>5. PICK r \in Places(Steps) :
          /\ At(Steps, r).does = "await" /\ Joins(Steps[r[1]], Steps[p[1]], Steps[q[1]])
          /\ Precedes(p, r) /\ Precedes(r, q)
      BY <1>1, <1>2, <1>4 DEF Waited
<1>6. /\ ~ Precedes(p, p) /\ (Precedes(p, r) /\ Precedes(r, p) => Precedes(p, p))
      /\ ~ Precedes(q, q) /\ (Precedes(q, r) /\ Precedes(r, q) => Precedes(q, q))
      /\ (Precedes(r, q) /\ Precedes(q, r) => Precedes(r, r)) /\ ~ Precedes(r, r)
      BY <1>1, <1>2, PlaceOrder
<1>7. r \in todo
      BY <1>1, <1>5, <1>6 DEF Whole
<1>8. r # p
      BY <1>5, <1>6
<1> QED BY <1>2, <1>5, <1>7, <1>8

LEMMA StepRest ==
    ASSUME TypeOK, Whole, Phase, Rest, Changes
    PROVE  Rest'
<1> DEFINE Goal ==
        /\ plan' = "create" /\ <<1, 1>> \in todo' => status' = "absent"
        /\ status' = "busy" =>
               \A p \in todo' : Todo(p)'.strict =>
                   \E r \in todo' : Todo(r)'.does = "await" /\ Precedes(r, p)
<1> SUFFICES ASSUME Undisturbed', began' \in {"absent", "ready"} PROVE Goal
    BY DEF Rest
<1>1. CASE Apply \/ Destroy
    <2>1. PICK name \in PlanNames :
              /\ plan' = name
              /\ name = "create" => status \in {"absent", "going"}
              /\ began' = status /\ UNCHANGED <<kind, status>>
          BY <1>1, BeginIs
    <2> QED BY <2>1
<1>2. ASSUME Undisturbed, NEW p, Passes(p)
      PROVE  Goal
    <2>1. /\ plan' = plan /\ began' = began
          /\ todo' \subseteq todo \ {p} /\ \A q : Todo(q)' = Todo(q)
          /\ Todo(p).does # "giveUp" => todo' = todo \ {p}
          /\ Accepts(Todo(p))
          /\ Perform(Todo(p)) \/ (Todo(p).loose /\ Todo(p).does = "put" /\ UNCHANGED aws)
          BY <1>2, PassesFrame
    <2>2. IsNext(p) /\ Todo(p) \in CallOf(K) /\ p \in todo
          BY <1>2, NextCall DEF Passes
    <2>3. plan' = "create" => <<1, 1>> \notin todo'
        <3> SUFFICES ASSUME plan' = "create" PROVE <<1, 1>> \notin todo'
            OBVIOUS
        <3>1. p = <<1, 1>> \/ <<1, 1>> \notin todo
              BY <1>2, <2>1, <2>2, NextCall
        <3> QED BY <2>1, <3>1
    <2>4. ASSUME status' = "busy", NEW q \in todo', Todo(q)'.strict
          PROVE  \E r \in todo' : Todo(r)'.does = "await" /\ Precedes(r, q)
        <3>1. q \in todo \ {p} /\ Todo(q).strict
              BY <2>1, <2>4
        <3>2. CASE Todo(p).does = "giveUp"
              BY <1>2, <2>4, <3>2 DEF Passes
        <3>3. CASE Todo(p).does # "giveUp" /\ Todo(p).slow
            <4>1. PICK r \in todo \ {p} : Todo(r).does = "await" /\ Precedes(r, q)
                  BY <2>2, <3>1, <3>3, WaitsBetween
            <4> QED BY <2>1, <3>3, <4>1
        <3>4. CASE Todo(p).does # "giveUp" /\ ~ Todo(p).slow
            <4>1. status = "busy" /\ Todo(p).does # "await"
                <5>1. Todo(p).does \in {"make", "put", "delete", "await", "awaitGone", "refuse"}
                      BY <2>2, <3>4, CallTyped
                <5>2. CASE Perform(Todo(p))
                    <6>1. CASE Todo(p).does = "make"
                          BY <2>4, <3>4, <5>2, <6>1 DEF Perform
                    <6>2. CASE Todo(p).does = "put"
                          BY <2>2, <2>4, <3>4, <5>2, <6>2, PerformEffect
                    <6>3. CASE Todo(p).does = "delete"
                          BY <2>2, <2>4, <5>2, <6>3, PerformEffect
                    <6>4. CASE Todo(p).does \in {"await", "awaitGone", "refuse"}
                        <7>1. status = "busy"
                              BY <2>2, <2>4, <5>2, <6>4, PerformEffect DEF aws
                        <7> QED BY <2>1, <6>4, <7>1 DEF Accepts
                    <6> QED BY <5>1, <6>1, <6>2, <6>3, <6>4
                <5>3. CASE Todo(p).does = "put" /\ UNCHANGED aws
                      BY <2>4, <5>3 DEF aws
                <5> QED BY <2>1, <5>2, <5>3
            <4>2. PICK r \in todo : Todo(r).does = "await" /\ Precedes(r, q)
                  BY <1>2, <2>1, <3>1, <4>1 DEF Rest
            <4>3. r # p /\ todo' = todo \ {p}
                  BY <2>1, <3>4, <4>1, <4>2
            <4> QED BY <2>1, <4>2, <4>3
        <3> QED BY <2>2, <3>2, <3>3, <3>4, CallTyped
    <2> QED BY <2>3, <2>4
<1>3. ASSUME Undisturbed, NEW p, Undoes(p)
      PROVE  Goal
    <2>1. /\ plan' = "removal" /\ InOrder(K) /\ plan = "create" /\ Todo(p).undo
          /\ todo' = Due(Plan(K, "removal"), parts')
          /\ \A q : Todo(q)' = At(Plan(K, "removal"), q)
          BY <1>3, UndoesFrame
    <2>2. p \in Places(Plan(K, "create")) /\ At(Plan(K, "create"), p).undo
          BY <1>3, <2>1, StepsAre, NextIsFirst DEF Undoes
    <2>3. ASSUME NEW q \in todo', Todo(q)'.strict
          PROVE  \E r \in todo' : Todo(r)'.does = "await" /\ Precedes(r, q)
        <3>1. /\ q \in Due(Plan(K, "removal"), parts') /\ q \in Places(Plan(K, "removal"))
              /\ At(Plan(K, "removal"), q).strict
              BY <2>1, <2>3, DuePlaces
        <3>2. PICK r \in Places(Plan(K, "removal")) :
                  /\ r[1] = q[1] /\ Precedes(r, q)
                  /\ At(Plan(K, "removal"), r).does = "await"
              BY <2>1, <2>2, <3>1, UndoPlaces
        <3>3. r \in Due(Plan(K, "removal"), parts')
              BY <3>1, <3>2, DueWhole
        <3> QED BY <2>1, <3>2, <3>3
    <2> QED BY <2>1, <2>3
<1>4. ASSUME Undisturbed, Settle
      PROVE  Goal
    <2>1. /\ UNCHANGED <<kind, op, plan, todo, began>>
          /\ \/ status = "busy" /\ status' = "ready"
             \/ status = "going" /\ status' = "absent"
          BY <1>4, SettleIs
    <2>2. plan = "create" /\ <<1, 1>> \in todo => status = "absent"
          BY <1>4, <2>1 DEF Rest
    <2> QED BY <2>1, <2>2
<1>5. ASSUME Undisturbed, UNCHANGED vars
      PROVE  Goal
    <2>1. UNCHANGED <<kind, plan, todo, status, began>>
          BY <1>5 DEF vars, run, aws
    <2>2. \A q : Todo(q)' = Todo(q)
          BY <2>1, SamePlan
    <2> QED BY <1>5, <2>1, <2>2 DEF Rest
<1> QED BY <1>1, <1>2, <1>3, <1>4, <1>5, Binding

LEMMA StepClearing ==
    ASSUME TypeOK, TypeOK', Whole, Phase, Clearing, Changes
    PROVE  Clearing'
<1> DEFINE Goal ==
        \A part \in parts' \ Staying' :
            \E r \in todo' :
                Clears(Todo(r)', part) /\ ~ Todo(r)'.loose /\ r[1] <= Len(K'.removal)
<1> SUFFICES ASSUME Undisturbed', plan' = "removal" PROVE Goal
    BY DEF Clearing
<1>0. parts' \subseteq K'.parts
      BY DEF TypeOK
<1>1. CASE Apply \/ Destroy
    <2>1. PICK name, what :
              /\ name \in PlanNames /\ plan' = name
              /\ name = "removal" => what = parts
              /\ todo' = Due(Plan(K, name), what)
              /\ \A p : Todo(p)' = At(Plan(K, name), p)
              /\ K' = K /\ UNCHANGED <<kind, parts>>
          BY <1>1, BeginIs
    <2>2. InOrder(K) /\ name = "removal" /\ what = parts /\ parts' = parts
          BY <2>1, StepsAre
    <2>3. ASSUME NEW part \in parts' \ Staying'
          PROVE  \E r \in todo' :
                     Clears(Todo(r)', part) /\ ~ Todo(r)'.loose /\ r[1] <= Len(K'.removal)
        <3>1. part \in what /\ part \in K.parts \ Staying
              BY <1>0, <2>1, <2>2, <2>3 DEF Staying
        <3>2. PICK r \in Due(Plan(K, name), what) :
                  /\ Clears(At(Plan(K, name), r), part) /\ ~ At(Plan(K, name), r).loose
                  /\ r[1] <= Len(K.removal)
              BY <2>2, <3>1, ClearPlaces DEF Staying
        <3> QED BY <2>1, <3>2
    <2> QED BY <2>3
<1>2. ASSUME Undisturbed, NEW p, Passes(p)
      PROVE  Goal
    <2>1. /\ plan = "removal" /\ K' = K
          /\ \A q : Todo(q)' = Todo(q)
          /\ Todo(p).does # "giveUp" => todo' = todo \ {p}
          /\ Accepts(Todo(p))
          /\ Perform(Todo(p)) \/ (Todo(p).loose /\ Todo(p).does = "put" /\ UNCHANGED aws)
          BY <1>2, PassesFrame
    <2>2. /\ IsNext(p) /\ Todo(p) \in CallOf(K) /\ p \in todo
          /\ Todo(p).does \in {"put", "await", "delete", "awaitGone"}
          BY <1>2, <2>1, NextCall DEF Passes
    <2>3. todo' = todo \ {p}
          BY <2>1, <2>2
    <2>4. Todo(p).adds = {}
          BY <2>1, <2>2, StepsAre, RemovalPlaces
    <2>5. ASSUME NEW part \in parts' \ Staying'
          PROVE  \E r \in todo' :
                     Clears(Todo(r)', part) /\ ~ Todo(r)'.loose /\ r[1] <= Len(K'.removal)
        <3>1. part \in parts /\ (Clears(Todo(p), part) => Todo(p).loose)
            <4> SUFFICES ASSUME Perform(Todo(p))
                         PROVE  part \in parts /\ ~ Clears(Todo(p), part)
                BY <2>1, <2>5 DEF aws
            <4>1. CASE Todo(p).does = "put"
                  BY <2>2, <2>4, <2>5, <4>1, PerformEffect DEF Clears
            <4>2. CASE Todo(p).does = "delete"
                  BY <2>2, <2>5, <4>2, PerformEffect DEF Clears
            <4>3. CASE Todo(p).does \in {"await", "awaitGone"}
                  BY <2>2, <2>5, <4>3, PerformEffect DEF aws, Clears
            <4> QED BY <2>2, <4>1, <4>2, <4>3
        <3>2. PICK r \in todo :
                  Clears(Todo(r), part) /\ ~ Todo(r).loose /\ r[1] <= Len(K.removal)
              BY <1>2, <2>1, <2>5, <3>1 DEF Clearing, Staying
        <3>3. r # p
              BY <3>1, <3>2
        <3> QED BY <2>1, <2>3, <3>2, <3>3
    <2> QED BY <2>5
<1>3. ASSUME Undisturbed, NEW p, Undoes(p)
      PROVE  Goal
    <2>1. /\ InOrder(K) /\ K' = K
          /\ todo' = Due(Plan(K, "removal"), parts')
          /\ \A q : Todo(q)' = At(Plan(K, "removal"), q)
          BY <1>3, UndoesFrame
    <2>2. ASSUME NEW part \in parts' \ Staying'
          PROVE  \E r \in todo' :
                     Clears(Todo(r)', part) /\ ~ Todo(r)'.loose /\ r[1] <= Len(K'.removal)
        <3>1. part \in K.parts \ Staying
              BY <1>0, <2>1, <2>2 DEF Staying
        <3>2. PICK r \in Due(Plan(K, "removal"), parts') :
                  /\ Clears(At(Plan(K, "removal"), r), part)
                  /\ ~ At(Plan(K, "removal"), r).loose /\ r[1] <= Len(K.removal)
              BY <2>1, <2>2, <3>1, ClearPlaces DEF Staying
        <3> QED BY <2>1, <3>2
    <2> QED BY <2>2
<1>4. ASSUME Undisturbed, Settle \/ UNCHANGED vars
      PROVE  Goal
    <2>1. UNCHANGED <<kind, plan, todo>> /\ parts' \subseteq parts
          BY <1>4, SettleIs DEF vars, run, aws
    <2>2. K' = K /\ \A q : Todo(q)' = Todo(q)
          BY <2>1, SamePlan
    <2> QED BY <1>4, <2>1, <2>2 DEF Clearing, Staying
<1> QED BY <1>1, <1>2, <1>3, <1>4, Binding

\* A facet that is seen to is seen to after a call has been made, too.
LEMMA SureKept ==
    ASSUME TypeOK, NEW p, Passes(p), Todo(p).does \in {"make", "put", "await"},
           NEW facet, Sure(facet)
    PROVE  Sure(facet)'
<1>1. /\ todo' = todo \ {p} /\ \A q : Todo(q)' = Todo(q) /\ Accepts(Todo(p))
      /\ Perform(Todo(p)) \/ (Todo(p).loose /\ Todo(p).does = "put" /\ UNCHANGED aws)
      BY PassesFrame
<1>2. /\ p \in todo /\ p \in Places(Steps)
      /\ \A q \in todo \ {p}, r \in todo : Precedes(q, r) => r # p
      /\ \A q \in todo : ~ Precedes(q, p)
      BY NextIsFirst DEF Passes
<1>3. Todo(p) \in CallOf(K)
      BY <1>2, TodoTyped
<1>4. ASSUME NEW q \in todo', facet \in Todo(q)'.takes
      PROVE  \E r \in todo' : Precedes(q, r) /\ Sets(Todo(r)', facet)
    <2>1. PICK r \in todo : Precedes(q, r) /\ Sets(Todo(r), facet)
          BY <1>1, <1>4 DEF Sure, Pending
    <2>2. r # p
          BY <1>1, <1>2, <1>4, <2>1
    <2> QED BY <1>1, <2>1, <2>2
<1>5. facet \in right' \/ \E q \in todo' : Sets(Todo(q)', facet)
    <2>1. CASE facet \in Todo(p).takes
        <3>1. PICK r \in todo : Precedes(p, r) /\ Sets(Todo(r), facet)
              BY <1>2, <2>1 DEF Sure, Pending
        <3>2. r # p
              BY <1>2, <3>1
        <3> QED BY <1>1, <3>1, <3>2
    <2>2. CASE facet \notin Todo(p).takes /\ Sets(Todo(p), facet)
        <3>1. /\ Perform(Todo(p)) /\ facet \in Todo(p).puts
              /\ Todo(p).does \in {"make", "put"}
              BY <1>1, <2>2 DEF Sets
        <3>2. right' = (right \ Todo(p).takes) \cup Todo(p).puts
              BY <1>3, <3>1, PerformEffect
        <3> QED BY <3>1, <3>2
    <2>3. CASE facet \notin Todo(p).takes /\ ~ Sets(Todo(p), facet)
        <3>1. CASE facet \in right
            <4>1. CASE Perform(Todo(p)) /\ Todo(p).does \in {"make", "put"}
                <5>1. right' = (right \ Todo(p).takes) \cup Todo(p).puts
                      BY <1>3, <4>1, PerformEffect
                <5> QED BY <2>3, <3>1, <5>1
            <4>2. CASE Perform(Todo(p)) /\ Todo(p).does = "await"
                <5>1. right' = right
                      BY <1>3, <4>2, PerformEffect DEF aws
                <5> QED BY <3>1, <5>1
            <4>3. CASE UNCHANGED aws
                  BY <3>1, <4>3 DEF aws
            <4> QED BY <1>1, <4>1, <4>2, <4>3
        <3>2. CASE \E q \in todo : Sets(Todo(q), facet)
            <4>1. PICK q \in todo : Sets(Todo(q), facet)
                  BY <3>2
            <4>2. q # p
                  BY <2>3, <4>1
            <4> QED BY <1>1, <4>1, <4>2
        <3> QED BY <3>1, <3>2 DEF Sure, Pending
    <2> QED BY <2>1, <2>2, <2>3
<1> QED BY <1>4, <1>5 DEF Sure, Pending

\* What the calls that are due undo, they set again.
LEMMA DueRestores ==
    ASSUME NEW row, InOrder(row), NEW name \in {"create", "update"},
           NEW what, NEW facet \in row.facets \ row.overlooked,
           NEW q \in Due(Plan(row, name), what), facet \in At(Plan(row, name), q).takes
    PROVE  \E r \in Due(Plan(row, name), what) :
               Precedes(q, r) /\ Sets(At(Plan(row, name), r), facet)
<1>1. q \in Places(Plan(row, name))
      BY DuePlaces
<1>2. PICK r \in Places(Plan(row, name)) :
          r[1] = q[1] /\ Precedes(q, r) /\ Sets(At(Plan(row, name), r), facet)
      BY <1>1, RestorePlaces
<1>3. r \in Due(Plan(row, name), what)
      BY <1>2, DueWhole
<1> QED BY <1>2, <1>3

LEMMA StepCreating ==
    ASSUME TypeOK, Phase, Creating, Changes
    PROVE  Creating'
<1> SUFFICES ASSUME Undisturbed', plan' = "create",
                    NEW facet \in K'.facets \ K'.overlooked
             PROVE  Sure(facet)' /\ (<<1, 1>> \in todo' => Pending(facet)')
    BY DEF Creating, Promised
<1>1. CASE Apply \/ Destroy
    <2>1. PICK name, what :
              /\ name \in PlanNames /\ plan' = name /\ todo' = Due(Plan(K, name), what)
              /\ \A p : Todo(p)' = At(Plan(K, name), p)
              /\ K' = K
          BY <1>1, BeginIs
    <2>2. InOrder(K) /\ name = "create" /\ facet \in K.facets \ K.overlooked
          BY <2>1, StepsAre
    <2>3. \E p \in todo' : Sets(Todo(p)', facet)
        <3>1. PICK p \in Due(Plan(K, name), what) : Sets(At(Plan(K, name), p), facet)
              BY <2>2, CreateSets
        <3> QED BY <2>1, <3>1
    <2>4. ASSUME NEW q \in todo', facet \in Todo(q)'.takes
          PROVE  \E r \in todo' : Precedes(q, r) /\ Sets(Todo(r)', facet)
        <3>1. q \in Due(Plan(K, name), what) /\ facet \in At(Plan(K, name), q).takes
              BY <2>1, <2>4
        <3>2. PICK r \in Due(Plan(K, name), what) :
                  Precedes(q, r) /\ Sets(At(Plan(K, name), r), facet)
              BY <2>2, <3>1, DueRestores
        <3> QED BY <2>1, <3>2
    <2> QED BY <2>3, <2>4 DEF Sure, Pending
<1>2. ASSUME Undisturbed, NEW p, Passes(p)
      PROVE  Sure(facet)' /\ (<<1, 1>> \in todo' => Pending(facet)')
    <2>1. plan = "create" /\ K' = K
          BY <1>2, PassesFrame
    <2>2. Todo(p).does \in {"make", "put", "await"}
          BY <1>2, <2>1, NextCall DEF Passes
    <2>3. Sure(facet)
          BY <1>2, <2>1 DEF Creating, Promised
    <2>4. <<1, 1>> \notin todo'
        <3>1. p = <<1, 1>> \/ <<1, 1>> \notin todo
              BY <1>2, <2>1, NextCall DEF Passes
        <3>2. todo' \subseteq todo \ {p}
              BY <1>2, PassesFrame
        <3> QED BY <3>1, <3>2
    <2> QED BY <1>2, <2>2, <2>3, <2>4, SureKept
<1>3. ASSUME Undisturbed, NEW p, Undoes(p)
      PROVE  Sure(facet)' /\ (<<1, 1>> \in todo' => Pending(facet)')
      BY <1>3 DEF Undoes
<1>4. ASSUME Undisturbed, Settle
      PROVE  Sure(facet)' /\ (<<1, 1>> \in todo' => Pending(facet)')
    <2>1. /\ UNCHANGED <<kind, plan, todo>>
          /\ \/ status = "busy" /\ UNCHANGED right
             \/ status = "going"
          BY <1>4, SettleIs
    <2>2. K' = K /\ \A q : Todo(q)' = Todo(q)
          BY <2>1, SamePlan
    <2>3. Sure(facet)
          BY <1>4, <2>1, <2>2 DEF Creating, Promised
    <2>4. ASSUME NEW q \in todo', facet \in Todo(q)'.takes
          PROVE  \E r \in todo' : Precedes(q, r) /\ Sets(Todo(r)', facet)
          BY <2>1, <2>2, <2>3, <2>4 DEF Sure
    <2>5. facet \in right' \/ \E q \in todo' : Sets(Todo(q)', facet)
        <3>1. CASE UNCHANGED right
              BY <2>1, <2>2, <2>3, <3>1 DEF Sure, Pending
        <3>2. CASE status = "going"
            <4>1. <<1, 1>> \in todo
                  BY <1>4, <2>1, <3>2 DEF Phase
            <4>2. \E q \in todo : Sets(Todo(q), facet)
                  BY <1>4, <2>1, <2>2, <4>1 DEF Creating, Promised, Pending
            <4> QED BY <2>1, <2>2, <4>2
        <3> QED BY <2>1, <3>1, <3>2
    <2>6. <<1, 1>> \in todo' => \E q \in todo' : Sets(Todo(q)', facet)
          BY <1>4, <2>1, <2>2 DEF Creating, Promised, Pending
    <2> QED BY <2>4, <2>5, <2>6 DEF Sure, Pending
<1>5. ASSUME Undisturbed, UNCHANGED vars
      PROVE  Sure(facet)' /\ (<<1, 1>> \in todo' => Pending(facet)')
    <2>1. UNCHANGED <<kind, plan, todo, right>>
          BY <1>5 DEF vars, run, aws
    <2>2. K' = K /\ \A q : Todo(q)' = Todo(q)
          BY <2>1, SamePlan
    <2>3. Sure(facet)
          BY <1>5, <2>1, <2>2 DEF Creating, Promised
    <2>4. <<1, 1>> \in todo => Pending(facet)
          BY <1>5, <2>1, <2>2 DEF Creating, Promised
    <2> QED BY <2>1, <2>2, <2>3, <2>4 DEF Sure, Pending
<1> QED BY <1>1, <1>2, <1>3, <1>4, <1>5, Binding

\* What stops an update as if all was well, no call of it sets right.
LEMMA GivenUpKept ==
    ASSUME TypeOK, NEW c \in CallOf(K), GivenUp, kind' = kind,
           NEW p \in Places(K.update), c = At(K.update, p),
           Perform(c) \/ UNCHANGED aws,
           c.does \in {"put", "await", "refuse", "giveUp"}
    PROVE  GivenUp'
<1>1. PICK facet \in Stopping[kind]["giveUp"] : facet \notin right
      BY DEF GivenUp
<1>2. kind \in DOMAIN Kinds /\ InOrder(K)
      BY StepsAre DEF TypeOK
<1>3. PICK i \in DOMAIN K.update : facet \in K.update[i].on /\ Stops(K.update[i], "giveUp")
    <2>1. Stopping[kind]["giveUp"] =
              {f \in Seen[kind] : \E i \in DOMAIN Kinds[kind].update :
                  f \in Kinds[kind].update[i].on /\ Stops(Kinds[kind].update[i], "giveUp")}
          BY <1>2 DEF Stopping
    <2> QED BY <1>1, <2>1 DEF K
<1>4. facet \notin c.puts
      BY <1>2, <1>3 DEF InOrder, UpdateRule
<1>5. facet \notin right'
    <2>1. CASE UNCHANGED aws
          BY <1>1, <2>1 DEF aws
    <2>2. CASE Perform(c) /\ c.does = "put"
        <3>1. right' = (right \ c.takes) \cup c.puts
              BY <2>2, PerformEffect
        <3> QED BY <1>1, <1>4, <3>1
    <2>3. CASE Perform(c) /\ c.does # "put"
        <3>1. UNCHANGED aws
              BY <2>3, PerformEffect
        <3> QED BY <1>1, <3>1 DEF aws
    <2> QED BY <2>1, <2>2, <2>3
<1>6. Stopping[kind]' = Stopping[kind]
      OBVIOUS
<1> QED BY <1>1, <1>5, <1>6 DEF GivenUp

\* Where nothing differs that stops an update, it is about to see to what differs.
LEMMA UpdateBegins ==
    ASSUME TypeOK, NEW what, what = Diffs, TypeOK',
           kind' = kind, plan' = "update", right' = right,
           todo' = Due(Plan(K, "update"), what),
           \A p : Todo(p)' = At(Plan(K, "update"), p), K' = K
    PROVE  /\ \A p \in todo' : Todo(p)'.does = "giveUp" => GivenUp'
           /\ GivenUp' \/ Refusing' \/ \A facet \in Promised' : Sure(facet)'
<1>1. kind \in DOMAIN Kinds /\ InOrder(K) /\ Plan(K, "update") = K.update
      BY StepsAre DEF TypeOK, Plan
<1>2. \A f : f \in Seen[kind] <=> \E i \in DOMAIN K.update : f \in K.update[i].on
      BY <1>1 DEF Seen, K
<1>3. \A f : (f \in Seen[kind] /\ \E i \in DOMAIN K.update :
                  f \in K.update[i].on /\ Stops(K.update[i], "giveUp"))
             => f \in Stopping[kind]["giveUp"]
    <2>1. Stopping[kind]["giveUp"] =
              {f \in Seen[kind] : \E i \in DOMAIN Kinds[kind].update :
                  f \in Kinds[kind].update[i].on /\ Stops(Kinds[kind].update[i], "giveUp")}
          BY <1>1 DEF Stopping
    <2> QED BY <2>1 DEF K
<1>4. ASSUME NEW p \in todo', Todo(p)'.does = "giveUp"
      PROVE  GivenUp'
    <2>1. p \in Due(K.update, what) /\ At(K.update, p).does = "giveUp"
          BY <1>1, <1>4
    <2>2. PICK i \in DOMAIN K.update : \E facet \in K.update[i].on :
              facet \in what /\ Stops(K.update[i], "giveUp")
          BY <1>1, <2>1, GiveUpFacet
    <2>3. PICK facet \in K.update[i].on : facet \in what /\ Stops(K.update[i], "giveUp")
          BY <2>2
    <2>4. facet \in Stopping[kind]["giveUp"] /\ facet \notin right
          BY <1>2, <1>3, <2>3 DEF Diffs
    <2> QED BY <2>4 DEF GivenUp
<1>5. ASSUME ~ GivenUp', ~ Refusing', NEW facet \in Promised'
      PROVE  Sure(facet)'
    <2>1. facet \in K.facets \ K.overlooked
          BY <1>5 DEF Promised
    <2>2. facet \in right' \/ Pending(facet)'
        <3> SUFFICES ASSUME facet \notin right PROVE Pending(facet)'
              OBVIOUS
        <3>1. \E i \in DOMAIN K.update : facet \in K.update[i].on
              BY <1>1, <2>1 DEF InOrder, FacetRule
        <3>2. facet \in what
              BY <1>2, <3>1 DEF Diffs
        <3>3. PICK p \in Due(K.update, what) :
                  \/ At(K.update, p).does \in {"refuse", "giveUp"}
                  \/ Sets(At(K.update, p), facet)
              BY <1>1, <2>1, <3>2, UpdateSettles
        <3>4. p \in todo' /\ Todo(p)' = At(K.update, p)
              BY <1>1, <3>3
        <3>5. Todo(p)'.does # "giveUp" /\ Todo(p)'.does # "refuse"
              BY <1>4, <1>5, <3>4 DEF Refusing
        <3> QED BY <3>3, <3>4, <3>5 DEF Pending
    <2>3. ASSUME NEW q \in todo', facet \in Todo(q)'.takes
          PROVE  \E r \in todo' : Precedes(q, r) /\ Sets(Todo(r)', facet)
        <3>1. /\ q \in Due(Plan(K, "update"), what)
              /\ facet \in At(Plan(K, "update"), q).takes
              BY <2>3
        <3>2. PICK r \in Due(Plan(K, "update"), what) :
                  Precedes(q, r) /\ Sets(At(Plan(K, "update"), r), facet)
              BY <1>1, <2>1, <3>1, DueRestores
        <3> QED BY <3>2
    <2> QED BY <2>2, <2>3 DEF Sure
<1> QED BY <1>4, <1>5

LEMMA StepUpdating ==
    ASSUME TypeOK, TypeOK', Phase, Updating, Changes
    PROVE  Updating'
<1> DEFINE Goal == /\ \A p \in todo' : Todo(p)'.does = "giveUp" => GivenUp'
                   /\ GivenUp' \/ Refusing' \/ \A facet \in Promised' : Sure(facet)'
<1> SUFFICES ASSUME Undisturbed', plan' = "update" PROVE Goal
    BY DEF Updating
<1>1. CASE Apply \/ Destroy
    <2>1. PICK name, what :
              /\ name \in PlanNames /\ plan' = name /\ todo' = Due(Plan(K, name), what)
              /\ name = "update" => what = Diffs
              /\ \A p : Todo(p)' = At(Plan(K, name), p)
              /\ K' = K /\ UNCHANGED <<kind, right>>
          BY <1>1, BeginIs
    <2>2. name = "update" /\ what = Diffs /\ kind' = kind /\ right' = right
          BY <2>1
    <2> QED BY <2>1, <2>2, UpdateBegins
<1>2. ASSUME Undisturbed, NEW p, Passes(p)
      PROVE  Goal
    <2>1. /\ plan = "update" /\ K' = K /\ kind' = kind
          /\ todo' \subseteq todo \ {p} /\ \A q : Todo(q)' = Todo(q)
          /\ Todo(p).does # "giveUp" => todo' = todo \ {p}
          /\ Accepts(Todo(p))
          /\ Perform(Todo(p)) \/ (Todo(p).loose /\ Todo(p).does = "put" /\ UNCHANGED aws)
          BY <1>2, PassesFrame
    <2>2. /\ p \in todo /\ Todo(p) \in CallOf(K)
          /\ Todo(p).does \in {"put", "await", "refuse", "giveUp"}
          BY <1>2, <2>1, NextCall DEF Passes
    <2>3. Todo(p).does # "refuse"
          BY <2>1 DEF Accepts
    <2>4. p \in Places(K.update) /\ Todo(p) = At(K.update, p)
          BY <2>1, <2>2, StepsAre DEF Plan
    <2>5. GivenUp => GivenUp'
          BY <2>1, <2>2, <2>4, GivenUpKept
    <2>6. \A q \in todo' : Todo(q)'.does = "giveUp" => GivenUp'
          BY <1>2, <2>1, <2>5 DEF Updating
    <2>7. CASE GivenUp \/ Todo(p).does = "giveUp"
          BY <1>2, <2>1, <2>2, <2>5, <2>6, <2>7 DEF Updating
    <2>8. CASE Refusing /\ Todo(p).does # "giveUp"
        <3>1. PICK q \in todo : Todo(q).does = "refuse"
              BY <2>8 DEF Refusing
        <3>2. q \in todo' /\ Todo(q)'.does = "refuse"
              BY <2>1, <2>3, <2>8, <3>1
        <3>3. Refusing'
              BY <3>2 DEF Refusing
        <3> QED BY <2>6, <3>3
    <2>9. CASE Todo(p).does # "giveUp" /\ \A facet \in Promised : Sure(facet)
        <3>1. Promised' = Promised
              BY <2>1 DEF Promised
        <3>2. Todo(p).does \in {"make", "put", "await"}
              BY <2>2, <2>3, <2>9
        <3>3. \A facet \in Promised : Sure(facet)'
              BY <1>2, <2>9, <3>2, SureKept
        <3> QED BY <2>6, <3>1, <3>3
    <2> QED BY <1>2, <2>1, <2>7, <2>8, <2>9 DEF Updating
<1>3. ASSUME Undisturbed, NEW p, Undoes(p)
      PROVE  Goal
      BY <1>3 DEF Undoes
<1>4. ASSUME Undisturbed, Settle \/ UNCHANGED vars
      PROVE  Goal
    <2>1. UNCHANGED <<kind, plan, todo, right>>
        <3>1. CASE Settle
            <4>1. /\ UNCHANGED <<kind, op, plan, todo>>
                  /\ \/ status = "busy" /\ UNCHANGED <<right, parts>>
                     \/ status = "going"
                  BY <3>1, SettleIs
            <4>2. status # "going"
                  BY <1>4, <4>1 DEF Phase
            <4> QED BY <4>1, <4>2
        <3>2. CASE UNCHANGED vars
              BY <3>2 DEF vars, run, aws
        <3> QED BY <1>4, <3>1, <3>2
    <2>2. K' = K /\ \A q : Todo(q)' = Todo(q)
          BY <2>1, SamePlan
    <2>3. GivenUp' = GivenUp /\ Promised' = Promised /\ Refusing' = Refusing
          BY <2>1, <2>2 DEF GivenUp, Promised, Refusing
    <2>4. ASSUME NEW facet, Sure(facet)
          PROVE  Sure(facet)'
          BY <2>1, <2>2, <2>4 DEF Sure, Pending
    <2> QED BY <1>4, <2>1, <2>2, <2>3, <2>4 DEF Updating
<1> QED BY <1>1, <1>2, <1>3, <1>4, Binding

-----------------------------------------------------------------------------
(* Theorems *)

\* Whatever operations, failures and other people do, the invariant holds: every
\* operation on which its promise binds is where its plan says, with AWS where it has
\* brought it and all that is left to do still to come.
THEOREM Inductive == Spec => []IInv
<1>1. Init => IInv
    <2> SUFFICES ASSUME Init PROVE IInv
        OBVIOUS
    <2>1. /\ kind \in DOMAIN Kinds /\ status = "absent" /\ parts = {} /\ op = "none"
          /\ plan = "none" /\ todo = {} /\ began = "absent" /\ touched = FALSE
          BY DEF Init
    <2>2. TypeOK /\ OpOK
          BY <2>1 DEF TypeOK, OpOK, Statuses, PlanNames
    <2>3. Whole /\ ~ Undisturbed
          BY <2>1 DEF Whole, Undisturbed
    <2> QED BY <2>2, <2>3 DEF IInv, Phase, Rest, Clearing, Creating, Updating
<1>2. IInv /\ [Next]_vars => IInv'
    <2> SUFFICES ASSUME IInv, [Next]_vars PROVE IInv'
        OBVIOUS
    <2>1. /\ TypeOK /\ OpOK /\ Whole /\ Phase /\ Rest /\ Clearing /\ Creating /\ Updating
          BY DEF IInv
    <2>2. Changes
          BY <2>1, NextChanges
    <2>3. TypeOK' /\ OpOK'
          BY <2>1, StepTyped
    <2>4. Whole'
          BY <2>1, <2>2, StepWhole
    <2>5. Phase'
          BY <2>1, <2>2, StepPhase
    <2>6. Rest'
          BY <2>1, <2>2, StepRest
    <2>7. Clearing'
          BY <2>1, <2>2, <2>3, StepClearing
    <2>8. Creating'
          BY <2>1, <2>2, StepCreating
    <2>9. Updating'
          BY <2>1, <2>2, <2>3, StepUpdating
    <2> QED BY <2>3, <2>4, <2>5, <2>6, <2>7, <2>8, <2>9 DEF IInv
<1> QED BY <1>1, <1>2, PTL DEF Spec

\* For every table in order, no operation that found AWS at rest and that nobody
\* disturbs makes a call that AWS would refuse: it waits where it has made AWS busy,
\* and has removed whatever keeps the resource from being deleted, but for what it
\* leaves to others and what AWS may not have removed when asked to (the waits and the
\* order of the calls in every Apply and Destroy).
THEOREM NeverObstructed == Spec => []Unobstructed
<1>1. IInv => Unobstructed
    <2> SUFFICES ASSUME IInv, Running, ~ touched, began \in {"absent", "ready"},
                        NEW p \in todo, IsNext(p)
                 PROVE  \/ Accepts(Todo(p)) \/ Waits(Todo(p)) \/ Todo(p).does = "refuse"
                        \/ Todo(p).does = "delete" /\ parts \cap Staying # {}
        BY DEF Unobstructed, Staying
    <2>1. TypeOK /\ Phase /\ Rest /\ Clearing /\ Undisturbed
          BY DEF IInv, Undisturbed, Running, Promising
    <2>2. /\ plan \in {"create", "update", "removal"}
          BY <2>1, NextCall DEF TypeOK, PlanNames
    <2>3. /\ p \in Places(Steps) /\ \A q \in todo : ~ Precedes(q, p)
          BY <2>1, NextIsFirst
    <2>4. status = "busy" => ~ Todo(p).strict
          BY <2>1, <2>3 DEF Rest
    <2>5. ASSUME status \in {"busy", "ready"}, Todo(p).does \in {"put", "await"}
          PROVE  Accepts(Todo(p)) \/ Waits(Todo(p))
          BY <2>4, <2>5 DEF Accepts, Waits
    <2>6. CASE plan = "create"
        <3>1. CASE p = <<1, 1>>
            <4>1. Todo(p).does = "make"
                  BY <2>1, <2>6, <3>1, NextCall
            <4>2. status = "absent"
                  BY <2>1, <2>6, <3>1 DEF Rest
            <4> QED BY <4>1, <4>2 DEF Accepts
        <3>2. CASE p # <<1, 1>>
            <4>1. Todo(p).does \in {"put", "await"} /\ <<1, 1>> \notin todo
                  BY <2>1, <2>6, <3>2, NextCall
            <4>2. status \in {"busy", "ready"}
                  BY <2>1, <2>6, <4>1 DEF Phase
            <4> QED BY <2>5, <4>1, <4>2
        <3> QED BY <3>1, <3>2
    <2>7. CASE plan = "update"
        <3>1. Todo(p).does \in {"put", "await", "refuse", "giveUp"}
              BY <2>1, <2>7, NextCall
        <3>2. status \in {"busy", "ready"}
              BY <2>1, <2>7 DEF Phase
        <3>3. Todo(p).does = "giveUp" => Accepts(Todo(p))
              BY DEF Accepts
        <3> QED BY <2>5, <3>1, <3>2, <3>3
    <2>8. CASE plan = "removal"
        <3>1. CASE status \in {"absent", "going"} /\ Todo(p).does = "awaitGone"
              BY <3>1 DEF Accepts, Waits
        <3>2. CASE status \in {"busy", "ready"} /\ Todo(p).does \in {"put", "await"}
              BY <2>5, <3>2
        <3>3. CASE status \in {"busy", "ready"} /\ Todo(p).does = "delete"
            <4>1. CASE parts \cap Staying # {}
                  BY <3>3, <4>1
            <4>2. CASE parts = {}
                  BY <2>4, <3>3, <4>2 DEF Accepts
            <4>3. ASSUME NEW part \in parts \ Staying
                  PROVE  FALSE
                <5>1. PICK r \in todo : r[1] <= Len(K.removal)
                      BY <2>1, <2>8, <4>3 DEF Clearing
                <5>2. p[1] = Len(K.removal) + 1
                      BY <2>1, <2>3, <2>8, <3>3, DeletePlace
                <5>3. K.removal \in Seq(StepOf(K)) /\ r \in Places(Steps)
                      BY <2>1, StepsAre DEF IsRow
                <5>4. r[1] \in Nat /\ Len(K.removal) \in Nat
                      BY <2>1, <5>3, StepsAre, PlaceTyped
                <5>5. Precedes(r, p)
                      BY <5>1, <5>2, <5>4 DEF Precedes
                <5> QED BY <2>3, <5>5
            <4> QED BY <4>1, <4>2, <4>3
        <3> QED BY <2>1, <2>8, <3>1, <3>2, <3>3, NextCall
    <2> QED BY <2>2, <2>6, <2>7, <2>8
<1> QED BY <1>1, Inductive, PTL
-----------------------------------------------------------------------------
(* The contract of the walks *)

Conditions == {"absent", "drifted", "matching"}

LEMMA ConditionFacts ==
    /\ Condition \in Conditions /\ Condition' \in Conditions
    /\ Condition = "absent" <=> status \in {"absent", "going"} \/ Uncommitted
    /\ Condition = "matching" <=>
           /\ ~ (status \in {"absent", "going"} \/ Uncommitted)
           /\ GivenUp \/ Promised \subseteq right
    /\ Condition' = "absent" <=> status' \in {"absent", "going"} \/ Uncommitted'
    /\ Condition' = "matching" <=>
           /\ ~ (status' \in {"absent", "going"} \/ Uncommitted')
           /\ GivenUp' \/ Promised' \subseteq right'
BY DEF Condition, Conditions, Promised

\* What the condition is made of.
LEMMA SameCondition ==
    ASSUME UNCHANGED <<kind, right>>, Uncommitted' <=> Uncommitted,
           status' \in {"absent", "going"} <=> status \in {"absent", "going"}
    PROVE  Condition' = Condition
<1>1. K' = K
      BY DEF K
<1>2. Promised' = Promised /\ GivenUp' = GivenUp
      BY <1>1 DEF Promised, GivenUp
<1> QED BY <1>2, ConditionFacts DEF Conditions

\* The calls of an operation, whatever others have done since it began.
LEMMA CallsOf ==
    ASSUME TypeOK, OpOK, NEW p \in todo
    PROVE  /\ Todo(p) \in CallOf(K) /\ plan # "none"
           /\ op = "apply" => Todo(p).does \in {"make", "put", "await", "refuse", "giveUp"}
           /\ op = "destroy" =>
                  /\ Todo(p).does \in {"put", "await", "delete", "awaitGone"}
                  /\ Todo(p).puts = {} /\ ~ Todo(p).undo
                  /\ Todo(p).takes \cap Stopping[kind]["giveUp"] = {}
<1>1. /\ Steps = Plan(K, plan) /\ InOrder(K) /\ p \in Places(Steps) /\ Todo(p) = At(Steps, p)
      /\ kind \in DOMAIN Kinds
      BY StepsAre DEF TypeOK
<1>2. Todo(p) \in CallOf(K)
      BY <1>1, TodoTyped
<1>3. plan # "none"
    <2> SUFFICES ASSUME plan = "none" PROVE FALSE
          OBVIOUS
    <2>1. Steps = << >>
          BY <1>1 DEF Plan
    <2>2. Places(Steps) = {}
          BY <2>1, PlaceIs
    <2> QED BY <1>1, <2>2
<1>4. CASE plan = "create"
    <2>1. Todo(p).does \in {"make", "put", "await"}
          BY <1>1, <1>4, CreatePlaces
    <2> QED BY <1>2, <1>4, <2>1 DEF OpOK
<1>5. CASE plan = "update"
    <2>1. Steps = K.update
          BY <1>1, <1>5 DEF Plan
    <2>2. Todo(p).does \in {"put", "await", "refuse", "giveUp"}
          BY <1>1, <2>1 DEF InOrder, UpdateRule
    <2> QED BY <1>2, <1>5, <2>2 DEF OpOK
<1>6. CASE plan = "removal"
    <2>1. /\ Todo(p).does \in {"put", "await", "delete", "awaitGone"}
          /\ Todo(p).puts = {} /\ ~ Todo(p).undo
          BY <1>1, <1>6, RemovalPlaces
    <2>2. ASSUME NEW facet \in Stopping[kind]["giveUp"]
          PROVE  facet \notin Todo(p).takes
        <3>1. Stopping[kind]["giveUp"] =
                  {f \in Seen[kind] : \E i \in DOMAIN Kinds[kind].update :
                      f \in Kinds[kind].update[i].on /\ Stops(Kinds[kind].update[i], "giveUp")}
              BY <1>1 DEF Stopping
        <3>2. PICK i \in DOMAIN K.update :
                  facet \in K.update[i].on /\ Stops(K.update[i], "giveUp")
              BY <2>2, <3>1 DEF K
        <3>3. At(Steps, p).takes \cap K.update[i].on = {}
              BY <1>1, <1>6, <3>2 DEF InOrder, RemovalRule
        <3> QED BY <1>1, <3>2, <3>3
    <2> QED BY <1>2, <1>6, <2>1, <2>2 DEF OpOK
<1> QED BY <1>1, <1>2, <1>3, <1>4, <1>5, <1>6 DEF TypeOK, PlanNames

\* An apply never removes the resource, and a destroy never mends it.
LEMMA CallReaches ==
    ASSUME TypeOK, OpOK, NEW p \in todo, op # "none", kind' = kind,
           UNCHANGED aws \/ (Accepts(Todo(p)) /\ Perform(Todo(p))),
           Uncommitted' => Uncommitted
    PROVE  Condition' \in Promise!Reachable(IF op = "undo" THEN "apply" ELSE op)
<1>1. Todo(p) \in CallOf(K)
      BY CallsOf
<1>2. status \in Statuses
      BY DEF TypeOK
<1>3. CASE op = "undo"
    <2>1. Condition = "absent"
          BY <1>3, ConditionFacts DEF Uncommitted
    <2> QED BY <1>3, <2>1, ConditionFacts DEF Promise!Reachable, Promise!Conditions, Conditions
<1>4. CASE op = "apply"
    <2>1. ASSUME status \in {"busy", "ready"}
          PROVE  status' \in {"busy", "ready"}
        <3>1. CASE UNCHANGED aws
              BY <2>1, <3>1 DEF aws
        <3>2. CASE Perform(Todo(p))
            <4>1. Todo(p).does \in {"make", "put", "await", "refuse", "giveUp"}
                  BY <1>4, CallsOf
            <4> QED BY <1>1, <2>1, <3>2, <4>1, PerformEffect DEF aws
        <3> QED BY <3>1, <3>2
    <2>2. Condition # "absent" => Condition' # "absent"
          BY <1>2, <2>1, ConditionFacts DEF Statuses
    <2> QED BY <1>4, <2>2, ConditionFacts DEF Promise!Reachable, Promise!Conditions, Conditions
<1>5. CASE op = "destroy"
    <2>1. /\ Todo(p).does \in {"put", "await", "delete", "awaitGone"} /\ Todo(p).puts = {}
          /\ Todo(p).takes \cap Stopping[kind]["giveUp"] = {}
          BY <1>5, CallsOf
    <2>2. ~ Uncommitted /\ ~ Uncommitted'
          BY <1>5 DEF Uncommitted
    <2>3. ASSUME status \in {"absent", "going"}
          PROVE  status' \in {"absent", "going"}
        <3>1. CASE UNCHANGED aws
              BY <2>3, <3>1 DEF aws
        <3>2. CASE Accepts(Todo(p)) /\ Perform(Todo(p))
            <4>1. Todo(p).does \in {"await", "awaitGone"}
                  BY <2>1, <2>3, <3>2 DEF Accepts
            <4> QED BY <1>1, <2>3, <3>2, <4>1, PerformEffect DEF aws
        <3> QED BY <3>1, <3>2
    <2>4. status' \in {"busy", "ready"} => right' \subseteq right /\ (GivenUp' => GivenUp)
        <3> SUFFICES ASSUME status' \in {"busy", "ready"}
                     PROVE  right' \subseteq right /\ (GivenUp' => GivenUp)
            OBVIOUS
        <3>1. Stopping[kind]' = Stopping[kind]
              OBVIOUS
        <3>2. CASE UNCHANGED aws
              BY <3>1, <3>2 DEF aws, GivenUp
        <3>3. CASE Perform(Todo(p)) /\ Todo(p).does = "put"
            <4>1. right' = (right \ Todo(p).takes) \cup Todo(p).puts
                  BY <1>1, <3>3, PerformEffect
            <4> QED BY <2>1, <3>1, <4>1 DEF GivenUp
        <3>4. CASE Perform(Todo(p)) /\ Todo(p).does # "put"
            <4>1. UNCHANGED aws
                  BY <1>1, <2>1, <3>4, PerformEffect
            <4> QED BY <3>1, <4>1 DEF aws, GivenUp
        <3> QED BY <3>2, <3>3, <3>4
    <2>5. Promised' = Promised
          BY DEF Promised, K
    <2>6. Condition = "absent" => Condition' = "absent"
          BY <2>2, <2>3, ConditionFacts
    <2>7. Condition' = "matching" => Condition = "matching"
        <3> SUFFICES ASSUME Condition' = "matching" PROVE Condition = "matching"
            OBVIOUS
        <3>1. status' \notin {"absent", "going"} /\ (GivenUp' \/ Promised' \subseteq right')
              BY ConditionFacts
        <3>2. status' \in Statuses
              BY <1>1, <1>2, PerformEffect DEF aws
        <3>3. GivenUp \/ Promised \subseteq right
              BY <2>4, <2>5, <3>1, <3>2 DEF Statuses
        <3> QED BY <2>2, <2>3, <3>1, <3>3, ConditionFacts
    <2> QED BY <1>5, <2>6, <2>7, ConditionFacts DEF Promise!Reachable, Conditions
<1> QED BY <1>3, <1>4, <1>5 DEF TypeOK

\* The call that the contract sees, and whether its promise is void.
Called == IF ~ Promising THEN "none" ELSE IF op = "undo" THEN "apply" ELSE op
Voided == Promising /\ touched

LEMMA BeginsCall ==
    ASSUME Called = "none", NEW c \in {"apply", "destroy"}, Called' = c, ~ Voided',
           result' = "none", Condition' = Condition
    PROVE  Promise!Next
BY DEF Promise!Next, Promise!Begin, Called, Voided

LEMMA WorksOn ==
    ASSUME Called # "none", Condition' \in Promise!Reachable(Called),
           UNCHANGED <<Called, Voided, result>>
    PROVE  Promise!Next
BY DEF Promise!Next, Promise!Work, Called, Voided

LEMMA SucceedsWith ==
    ASSUME Called # "none", Condition' \in Promise!Reachable(Called),
           Voided \/ Condition' = Promise!Goal(Called),
           result' = IF Voided THEN "none" ELSE Called,
           Called' = "none", ~ Voided'
    PROVE  Promise!Next
BY DEF Promise!Next, Promise!Succeed, Called, Voided

LEMMA FailsWith ==
    ASSUME Called # "none", Condition' \in Promise!Reachable(Called),
           result' = "error", Called' = "none", ~ Voided'
    PROVE  Promise!Next
BY DEF Promise!Next, Promise!Fail, Called, Voided

LEMMA IsDisturbed ==
    ASSUME Voided' <=> Called # "none", result' = "none", Called' = Called
    PROVE  Promise!Next
<1>1. Condition' \in Promise!Conditions
      BY ConditionFacts DEF Promise!Conditions, Conditions
<1> QED BY <1>1 DEF Promise!Next, Promise!Disturb, Called, Voided

\* While an operation goes on, its promise binds as before.
LEMMA SameCall ==
    ASSUME UNCHANGED <<kind, op, began>>
    PROVE  Promising' = Promising /\ Called' = Called
<1>1. Promising' = Promising
      BY DEF Promising, K
<1> QED BY <1>1 DEF Called

\* How an operation ends, in the words of the contract.
LEMMA EndKeeps ==
    ASSUME TypeOK, OpOK, op # "none", kind' = kind, NEW outcome, End(outcome),
           Promising => Condition' \in Promise!Reachable(Called),
           Promising => \/ outcome = "error"
                        \/ /\ outcome = IF touched THEN "none" ELSE Called
                           /\ touched \/ Condition' = Promise!Goal(Called)
    PROVE  Promise!Next
<1>1. /\ op' = "none" /\ began' = "absent" /\ touched' = FALSE
      /\ result' = IF Promising THEN outcome ELSE "none"
      BY DEF End
<1>2. Called' = "none" /\ ~ Voided'
      BY <1>1 DEF Called, Promising, Voided
<1>3. CASE ~ Promising
    <2>1. Called = "none"
          BY <1>3 DEF Called
    <2> QED BY <1>1, <1>2, <1>3, <2>1, IsDisturbed
<1>4. CASE Promising
    <2>1. Called # "none" /\ Voided = touched
          BY <1>4 DEF Called, Voided, TypeOK
    <2>2. CASE outcome = "error"
          BY <1>1, <1>2, <1>4, <2>1, <2>2, FailsWith
    <2>3. CASE /\ outcome = IF touched THEN "none" ELSE Called
               /\ touched \/ Condition' = Promise!Goal(Called)
          BY <1>1, <1>2, <1>4, <2>1, <2>3, SucceedsWith
    <2> QED BY <1>4, <2>2, <2>3
<1> QED BY <1>3, <1>4

\* A call that ends nothing is work; a promise that does not bind is as if others acted.
LEMMA WorkKeeps ==
    ASSUME TypeOK, OpOK, op # "none", UNCHANGED <<Called, Promising, touched, result>>,
           Promising => Condition' \in Promise!Reachable(Called)
    PROVE  Promise!Next
<1>1. result' = "none"
      BY DEF OpOK
<1>2. CASE Promising
    <2>1. Called # "none" /\ UNCHANGED Voided
          BY <1>2 DEF Called, Voided
    <2> QED BY <1>2, <2>1, WorksOn
<1>3. CASE ~ Promising
    <2>1. Called = "none" /\ ~ Voided'
          BY <1>3 DEF Called, Voided
    <2> QED BY <1>1, <2>1, IsDisturbed
<1> QED BY <1>2, <1>3

\* An error that has the resource destroyed again is met before the creation counts.
LEMMA BreakKeeps ==
    ASSUME TypeOK, OpOK, Running, NEW p \in todo, IsNext(p), kind' = kind, Break(Todo(p)),
           UNCHANGED aws \/ (Accepts(Todo(p)) /\ Perform(Todo(p)))
    PROVE  Promise!Next
<1>1. op # "none"
      BY DEF Running
<1>2. Promising => Called = IF op = "undo" THEN "apply" ELSE op
      BY DEF Called
<1>3. CASE ~ Todo(p).undo
    <2>1. End("error")
          BY <1>3 DEF Break
    <2>2. ~ Uncommitted'
          BY <2>1 DEF End, Uncommitted
    <2>3. Condition' \in Promise!Reachable(IF op = "undo" THEN "apply" ELSE op)
          BY <1>1, <2>2, CallReaches
    <2> QED BY <1>1, <1>2, <2>1, <2>3, EndKeeps
<1>4. CASE Todo(p).undo
    <2>1. op' = "undo" /\ UNCHANGED <<began, touched, result>>
          BY <1>4 DEF Break
    <2>2. op \in {"apply", "undo"}
          BY <1>1, <1>4, CallsOf DEF TypeOK
    <2>3. Uncommitted
          BY <1>4, <2>2 DEF Uncommitted
    <2>4. Condition' \in Promise!Reachable(IF op = "undo" THEN "apply" ELSE op)
          BY <1>1, <2>3, CallReaches
    <2>5. Promising' = Promising
          BY <2>1 DEF Promising, K
    <2>6. Called' = Called
          BY <2>1, <2>2, <2>5 DEF Called
    <2> QED BY <1>1, <1>2, <2>1, <2>4, <2>5, <2>6, WorkKeeps
<1> QED BY <1>3, <1>4

\* An operation that ends well has kept its promise.
LEMMA EndsWell ==
    ASSUME IInv, Undisturbed, todo = {}, op \in {"apply", "destroy"}
    PROVE  Condition = Promise!Goal(op)
<1>1. ~ Uncommitted
      BY DEF Uncommitted
<1>2. TypeOK /\ OpOK /\ Phase /\ Creating /\ Updating
      BY DEF IInv
<1>3. CASE op = "destroy"
    <2>1. plan \in {"none", "removal"}
          BY <1>2, <1>3 DEF OpOK
    <2>2. status \in {"absent", "going"}
          BY <1>2, <2>1 DEF Phase
    <2> QED BY <1>3, <2>2, ConditionFacts DEF Promise!Goal
<1>4. CASE op = "apply"
    <2>1. plan \in {"create", "update"}
          BY <1>2, <1>4 DEF OpOK
    <2>2. status \in {"busy", "ready"}
          BY <1>2, <2>1 DEF Phase
    <2>3. \A facet : ~ Pending(facet)
          BY DEF Pending
    <2>4. GivenUp \/ Promised \subseteq right
        <3>1. CASE plan = "create"
              BY <1>2, <2>3, <3>1 DEF Creating, Sure
        <3>2. CASE plan = "update"
              BY <1>2, <2>3, <3>2 DEF Updating, Refusing, Sure
        <3> QED BY <2>1, <3>1, <3>2
    <2> QED BY <1>1, <1>4, <2>2, <2>4, ConditionFacts DEF Promise!Goal
<1> QED BY <1>3, <1>4

\* An operation begins with nothing done.
LEMMA BeginKeeps ==
    ASSUME TypeOK, OpOK, Apply \/ Destroy
    PROVE  Promise!Next
<1>1. /\ op = "none" /\ op' \in {"apply", "destroy"}
      /\ touched' = FALSE /\ result' = "none" /\ UNCHANGED <<kind, aws>>
      BY DEF Apply, Destroy, Begin
<1>2. Called = "none"
      BY <1>1 DEF Called
<1>3. ~ Uncommitted
      BY <1>1 DEF Uncommitted
<1>4. PICK name, what :
          /\ name \in PlanNames /\ plan' = name
          /\ name = "create" => status \in {"absent", "going"}
          /\ todo' = Due(Plan(K, name), what)
          /\ \A p : Todo(p)' = At(Plan(K, name), p)
      BY BeginIs
<1>5. Uncommitted' => status \in {"absent", "going"}
    <2> SUFFICES ASSUME Uncommitted' PROVE status \in {"absent", "going"}
        OBVIOUS
    <2>1. PICK p \in todo' : Todo(p)'.undo
          BY <1>1 DEF Uncommitted
    <2>2. p \in Places(Plan(K, name)) /\ At(Plan(K, name), p).undo
          BY <1>4, <2>1, DuePlaces
    <2>3. InOrder(K)
          BY StepsAre
    <2>4. name # "none"
        <3> SUFFICES ASSUME name = "none" PROVE FALSE
            OBVIOUS
        <3>1. Plan(K, name) = << >>
              BY DEF Plan
        <3>2. Places(Plan(K, name)) = {}
              BY <3>1, PlaceIs
        <3> QED BY <2>2, <3>2
    <2>5. name # "update"
        <3> SUFFICES ASSUME name = "update" PROVE FALSE
            OBVIOUS
        <3>1. Plan(K, name) = K.update
              BY DEF Plan
        <3> QED BY <2>2, <2>3, <3>1 DEF InOrder, UpdateRule
    <2>6. name # "removal"
          BY <2>2, <2>3, RemovalPlaces
    <2> QED BY <1>4, <2>4, <2>5, <2>6 DEF PlanNames
<1>6. UNCHANGED <<kind, status, right, parts>>
      BY <1>1 DEF aws
<1>7. Condition' = Condition
    <2>1. CASE status \in {"absent", "going"}
          BY <1>6, <2>1, ConditionFacts
    <2>2. CASE status \notin {"absent", "going"}
          BY <1>3, <1>5, <1>6, <2>2, SameCondition
    <2> QED BY <2>1, <2>2
<1>8. CASE Promising'
    <2>1. Called' = op' /\ ~ Voided'
          BY <1>1, <1>8 DEF Called, Voided
    <2> QED BY <1>1, <1>2, <1>7, <2>1, BeginsCall
<1>9. CASE ~ Promising'
    <2>1. Called' = "none" /\ ~ Voided'
          BY <1>9 DEF Called, Voided
    <2> QED BY <1>1, <1>2, <2>1, IsDisturbed
<1> QED BY <1>8, <1>9

\* What AWS settles by itself changes nothing that the contract sees.
LEMMA SettleKeeps ==
    ASSUME TypeOK, Settle
    PROVE  UNCHANGED <<Condition, Called, Voided, result>>
<1>1. UNCHANGED <<kind, op, plan, todo, began, touched, result>>
      BY DEF Settle, run
<1>2. \A q : Todo(q)' = Todo(q)
      BY <1>1, SamePlan
<1>3. Uncommitted' <=> Uncommitted
      BY <1>1, <1>2 DEF Uncommitted
<1>4. Promising' = Promising /\ Called' = Called
      BY <1>1, SameCall
<1>5. Condition' = Condition
    <2>1. CASE status = "busy" /\ status' = "ready" /\ UNCHANGED <<right, parts>>
          BY <1>1, <1>3, <2>1, SameCondition
    <2>2. CASE status = "going" /\ status' = "absent"
          BY <2>2, ConditionFacts
    <2> QED BY <2>1, <2>2, SettleIs
<1> QED BY <1>1, <1>4, <1>5 DEF Voided

LEMMA StepKeepsContract ==
    ASSUME IInv, [Next]_vars
    PROVE  Promise!Next \/ UNCHANGED <<Condition, Called, Voided, result>>
<1>1. TypeOK /\ OpOK
      BY DEF IInv
<1>2. Promising => Called = IF op = "undo" THEN "apply" ELSE op
      BY DEF Called
<1>3. CASE Apply \/ Destroy
      BY <1>1, <1>3, BeginKeeps
<1>4. CASE MakeCall \/ Ignored
    <2>1. PICK p \in todo :
              /\ Running /\ Accepts(Todo(p)) /\ (Perform(Todo(p)) \/ UNCHANGED aws)
              /\ todo' \subseteq todo
              /\ UNCHANGED <<kind, op, plan, began, touched, result>>
        <3>1. CASE MakeCall
              BY <3>1 DEF MakeCall
        <3>2. CASE Ignored
              BY <3>2 DEF Ignored
        <3> QED BY <1>4, <3>1, <3>2
    <2>2. \A q : Todo(q)' = Todo(q)
          BY <2>1, SamePlan
    <2>3. Uncommitted' => Uncommitted
          BY <2>1, <2>2 DEF Uncommitted
    <2>4. op # "none"
          BY <2>1 DEF Running
    <2>5. Condition' \in Promise!Reachable(IF op = "undo" THEN "apply" ELSE op)
          BY <1>1, <2>1, <2>3, <2>4, CallReaches
    <2>6. Promising' = Promising /\ Called' = Called
          BY <2>1, SameCall
    <2> QED BY <1>1, <1>2, <2>1, <2>4, <2>5, <2>6, WorkKeeps
<1>5. CASE Refused \/ Fail
    <2>1. PICK p \in todo :
              /\ Running /\ IsNext(p) /\ Break(Todo(p)) /\ kind' = kind
              /\ UNCHANGED aws \/ (Accepts(Todo(p)) /\ Perform(Todo(p)))
        <3>1. CASE Refused
              BY <3>1 DEF Refused
        <3>2. CASE Fail
              BY <3>2 DEF Fail
        <3> QED BY <1>5, <3>1, <3>2
    <2> QED BY <1>1, <2>1, BreakKeeps
<1>6. CASE Kill
    <2>1. PICK p \in todo : Running /\ End("error") /\ UNCHANGED <<kind, aws>>
          BY <1>6 DEF Kill
    <2>2. op # "none" /\ ~ Uncommitted'
          BY <2>1 DEF Running, End, Uncommitted
    <2>3. Condition' \in Promise!Reachable(IF op = "undo" THEN "apply" ELSE op)
          BY <1>1, <2>1, <2>2, CallReaches
    <2> QED BY <1>1, <1>2, <2>1, <2>2, <2>3, EndKeeps
<1>7. CASE Succeed
    <2> DEFINE outcome == IF op = "undo" THEN "error" ELSE IF touched THEN "none" ELSE op
    <2>1. op # "none" /\ todo = {} /\ End(outcome) /\ UNCHANGED <<kind, aws>>
          BY <1>7 DEF Succeed
    <2>2. ~ Uncommitted' /\ UNCHANGED <<kind, status, right>>
          BY <2>1 DEF End, Uncommitted, aws
    <2>3. CASE op = "undo"
        <3>1. Condition = "absent"
              BY <2>3, ConditionFacts DEF Uncommitted
        <3>2. Promising => Condition' \in Promise!Reachable(Called)
              BY <1>2, <2>3, <3>1, ConditionFacts
              DEF Promise!Reachable, Promise!Conditions, Conditions
        <3>3. End("error")
              BY <2>1, <2>3
        <3> QED BY <1>1, <2>1, <3>2, <3>3, EndKeeps
    <2>4. CASE op \in {"apply", "destroy"}
        <3>1. ~ Uncommitted
              BY <2>1, <2>4 DEF Uncommitted
        <3>2. Condition' = Condition
              BY <2>2, <3>1, SameCondition
        <3>3. Promising => Called = op
              BY <1>2, <2>4
        <3>4. Promising => Condition' \in Promise!Reachable(Called)
              BY <2>4, <3>2, <3>3, ConditionFacts
              DEF Promise!Reachable, Promise!Conditions, Conditions
        <3>5. Promising => touched \/ Condition' = Promise!Goal(Called)
              BY <2>1, <2>4, <3>2, <3>3, EndsWell DEF Undisturbed
        <3>6. outcome = IF touched THEN "none" ELSE op
              BY <2>4
        <3>7. Promising => outcome = IF touched THEN "none" ELSE Called
              BY <3>3, <3>6
        <3> HIDE DEF outcome
        <3> QED BY <1>1, <2>1, <3>4, <3>5, <3>7, EndKeeps
    <2> QED BY <1>1, <2>1, <2>3, <2>4 DEF TypeOK
<1>8. CASE Settle
      BY <1>1, <1>8, SettleKeeps
<1>9. CASE People
    <2>1. /\ (touched' <=> op # "none") /\ result' = "none"
          /\ UNCHANGED <<kind, op, plan, todo, began>>
        <3>1. PICK step \in BOOLEAN : Others(step)
              BY <1>9 DEF People, Others
        <3> QED BY <3>1 DEF Others
    <2>2. Promising' = Promising /\ Called' = Called
          BY <2>1, SameCall
    <2>3. Voided' <=> Called # "none"
          BY <2>1, <2>2 DEF Voided, Called
    <2> QED BY <2>1, <2>2, <2>3, IsDisturbed
<1>10. CASE UNCHANGED vars
    <2>1. UNCHANGED <<kind, status, right, op, plan, todo, began, touched, result>>
          BY <1>10 DEF vars, aws, run
    <2>2. \A q : Todo(q)' = Todo(q)
          BY <2>1, SamePlan
    <2>3. Uncommitted' <=> Uncommitted
          BY <2>1, <2>2 DEF Uncommitted
    <2>4. Promising' = Promising /\ Called' = Called
          BY <2>1, SameCall
    <2> QED BY <2>1, <2>3, <2>4, SameCondition DEF Voided
<1> QED BY <1>3, <1>4, <1>5, <1>6, <1>7, <1>8, <1>9, <1>10 DEF Next, Progress, Trouble

\* For every table in order, whatever state earlier runs left a resource in, an apply
\* that nobody disturbs ends well only with every facet right that the row promises, a
\* destroy only with the resource gone, and neither does the other's work, though they
\* may stop at any call (Apply and Destroy of the resources, as config/dag.go uses them).
THEOREM KeepsContract == Spec => ImplementsContract
<1>1. Init => Promise!Init
    <2> SUFFICES ASSUME Init PROVE Promise!Init
        OBVIOUS
    <2>1. op = "none" /\ touched = FALSE /\ result = "none"
          BY DEF Init
    <2>2. Condition \in Promise!Conditions
          BY ConditionFacts DEF Promise!Conditions, Conditions
    <2> QED BY <2>1, <2>2 DEF Promise!Init
<1>2. IInv /\ [Next]_vars => [Promise!Next]_(Promise!contract)
    <2> SUFFICES ASSUME IInv, [Next]_vars PROVE [Promise!Next]_(Promise!contract)
        OBVIOUS
    <2>1. CASE Promise!Next
          BY <2>1
    <2>2. CASE UNCHANGED <<Condition, Called, Voided, result>>
          BY <2>2 DEF Promise!contract, Called, Voided
    <2> QED BY <2>1, <2>2, StepKeepsContract
<1> QED BY <1>1, <1>2, Inductive, PTL DEF Spec, ImplementsContract, Promise!Contract
=============================================================================
