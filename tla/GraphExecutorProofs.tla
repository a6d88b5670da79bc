------------------------ MODULE GraphExecutorProofs ------------------------
(***************************************************************************)
(* Theorems about GraphExecutor for any set of resources, any acyclic      *)
(* dependencies and any sequence of runs, failures and crashes.            *)
(***************************************************************************)
EXTENDS GraphExecutor, FiniteSetTheorems, TLAPS

N == Cardinality(Keys)

LEMMA NType == N \in Nat
BY KeysFinite, FS_CardinalityType DEF N

\* toposort's orders are sequences of keys that reach every key, with the
\* dependencies of a key before it.
LEMMA OrderFacts ==
  ASSUME NEW s \in TopologicalOrders
  PROVE  /\ s \in [1 .. N -> Keys]
         /\ s \in Seq(Keys)
         /\ DOMAIN s = 1 .. N
         /\ \A k \in Keys : \E i \in 1 .. N : s[i] = k
         /\ \A i, j \in 1 .. N : s[i] = s[j] => i = j
         /\ \A i, j \in 1 .. N : s[i] \in deps[s[j]] => i < j
<1>1. s \in [1 .. N -> Keys]
  BY DEF TopologicalOrders, OrdersOf, Bijection, Injection, Surjection, N
<1>2. DOMAIN s = 1 .. N
  BY <1>1
<1>3. s \in Seq(Keys)
  BY <1>1, NType
<1>4. \A k \in Keys : \E i \in 1 .. N : s[i] = k
  BY DEF TopologicalOrders, OrdersOf, Bijection, Surjection, N
<1>5. \A i, j \in 1 .. N : s[i] = s[j] => i = j
  BY <1>2 DEF TopologicalOrders, OrdersOf, Bijection, Injection, IsInjective, N
<1>6. \A i, j \in 1 .. N : s[i] \in deps[s[j]] => i < j
  BY <1>2 DEF TopologicalOrders, OrdersOf
<1> QED
  BY <1>1, <1>2, <1>3, <1>4, <1>5, <1>6

-----------------------------------------------------------------------------
(* Types *)

LEMMA InitTypeOK == Init => TypeOK
BY DEF Init, TypeOK, States, Phases, Results, Outcomes

LEMMA NextTypeOK == TypeOK /\ [Next]_vars => TypeOK'
<1> SUFFICES ASSUME TypeOK, [Next]_vars
             PROVE  TypeOK'
  OBVIOUS
<1> USE DEF TypeOK
<1>1. CASE User
  <2> SUFFICES ASSUME NEW cmd \in Commands, NEW names \in TargetSets,
                      Start(cmd, names)
               PROVE  TypeOK'
    BY <1>1 DEF User
  <2>1. order' \in Seq(Keys)
    BY OrderFacts DEF Start
  <2>2. at' \in Int
    BY NType DEF Start, FirstPosition, N
  <2> QED
    BY <2>1, <2>2, TargetsType DEF Start, Phases, Results, Outcomes
<1>2. CASE Walk
  <2>1. ASSUME NEW k \in Keys, Skip(k)
        PROVE  TypeOK'
    BY <2>1 DEF Skip, Turn, Step, run, Outcomes
  <2>2. ASSUME NEW k \in Keys, Plan(k)
        PROVE  TypeOK'
    <3>1. PlanOutcome(k) \in Outcomes
      BY DEF PlanOutcome, Outcomes, States
    <3> QED
      BY <2>2, <3>1 DEF Plan, Turn, Step, run
  <2>3. ASSUME NEW k \in Keys, Apply(k)
        PROVE  TypeOK'
    BY <2>3 DEF Apply, WaitsFor, Turn, Step, run, States
  <2>4. ASSUME NEW k \in Keys, Destroy(k)
        PROVE  TypeOK'
    BY <2>4 DEF Destroy, Turn, Step, run, States
  <2>5. CASE WalkEnds
    BY <2>5 DEF WalkEnds, End, run, Phases, Results
  <2> QED
    BY <1>2, <2>1, <2>2, <2>3, <2>4, <2>5 DEF Walk, Visit
<1>3. CASE Waits
  BY <1>3 DEF Waits, WaitDone, WaitsEnd, End, run, Phases, Results
<1>4. CASE Fault
  <2>1. CASE Crash
    BY <2>1 DEF Crash, End, run, Phases, Results
  <2>2. ASSUME NEW k \in Keys, Fail(k)
        PROVE  TypeOK'
    <3>1. Leftovers(k) \subseteq States
      BY CommandsType DEF Leftovers, States
    <3> QED
      BY <2>2, <3>1 DEF Fail, End, run, Phases, Results
  <2>3. ASSUME NEW k \in Keys, WaitFails(k)
        PROVE  TypeOK'
    BY <2>3 DEF WaitFails, End, run, Phases, Results
  <2>4. ASSUME NEW k \in Keys, Drift(k)
        PROVE  TypeOK'
    BY <2>4 DEF Drift, run, States, Results
  <2> QED
    BY <1>4, <2>1, <2>2, <2>3, <2>4 DEF Fault
<1>5. ASSUME NEW k \in Keys, Settle(k)
      PROVE  TypeOK'
  BY <1>5 DEF Settle, run
<1>6. CASE UNCHANGED vars
  BY <1>6 DEF vars, run
<1> QED
  BY <1>1, <1>2, <1>3, <1>4, <1>5, <1>6 DEF Next

\* The variables keep their types.
THEOREM TypeCorrect == Spec => []TypeOK
BY InitTypeOK, NextTypeOK, PTL DEF Spec

-----------------------------------------------------------------------------
(* Dependencies *)

\* What a walk without --targets has established behind its position: a step
\* needs to know which resources it has dealt with.
Progress ==
    phase = "walking" /\ targets = {} =>
        /\ order \in TopologicalOrders
        /\ at \in 0 .. N + 1
        /\ command = "apply"   => \A i \in 1 .. at - 1 : order[i] \in Exists
        /\ command = "destroy" => \A i \in at + 1 .. N : order[i] \notin Exists

WalkInv == TypeOK /\ Progress

LEMMA InitWalk == Init => WalkInv
BY InitTypeOK DEF Init, WalkInv, Progress

\* A step that leaves AWS and the walk alone disturbs nothing.
LEMMA WalkStable ==
  ASSUME WalkInv, TypeOK', UNCHANGED <<deps, Exists>>,
         \/ phase' # "walking"
         \/ UNCHANGED <<phase, order, at, command, targets>>
  PROVE  WalkInv'
BY DEF WalkInv, Progress, TopologicalOrders, OrdersOf

\* The keys that k depends on come earlier in the order, those that depend on
\* k later.
LEMMA Neighbours ==
  ASSUME WalkInv, targets = {}, NEW k \in Keys, Turn(k), NEW d \in Keys
  PROVE  /\ at \in 1 .. N
         /\ d \in deps[k] => \E i \in 1 .. at - 1 : order[i] = d
         /\ k \in deps[d] => \E i \in at + 1 .. N : order[i] = d
<1>1. order \in TopologicalOrders
  BY DEF WalkInv, Progress, Turn
<1>2. at \in 1 .. N /\ order[at] = k
  BY <1>1, OrderFacts DEF Turn
<1>3. PICK i \in 1 .. N : order[i] = d
  BY <1>1, OrderFacts
<1>4. /\ order[i] \in deps[order[at]] => i < at
      /\ order[at] \in deps[order[i]] => at < i
  BY <1>1, <1>2, OrderFacts
<1> QED
  BY <1>2, <1>3, <1>4, NType

LEMMA VisitWalk ==
  ASSUME WalkInv, TypeOK', NEW k \in Keys, Visit(k)
  PROVE  WalkInv'
<1>1. /\ phase = "walking"
      /\ Turn(k)
      /\ UNCHANGED <<deps, order, command, targets, phase>>
  BY DEF Visit, Skip, Plan, Apply, Destroy, Turn, run
<1>2. CASE targets # {}
  BY <1>1, <1>2 DEF WalkInv, Progress
<1>3. CASE targets = {}
  <2>1. /\ order \in TopologicalOrders
        /\ order' \in TopologicalOrders'
        /\ \A i, j \in 1 .. N : order[i] = order[j] => i = j
    BY <1>1, <1>3, OrderFacts DEF WalkInv, Progress, TopologicalOrders, OrdersOf
  <2>2. at \in 1 .. N /\ order[at] = k /\ Targeted(k) /\ N \in Nat
    BY <1>1, <1>3, <2>1, OrderFacts, NType DEF Turn, Targeted
  <2>3. aws \in [Keys -> States]
    BY DEF WalkInv, TypeOK
  <2>4. CASE Plan(k)
    <3>1. Exists' = Exists /\ command = "plan" /\ at' = at + 1
      BY <2>4 DEF Plan, Exists, Step
    <3> QED
      BY <1>1, <2>1, <2>2, <3>1 DEF WalkInv, Progress
  <2>5. CASE Apply(k)
    <3>1. /\ Exists' = Exists \cup {k}
          /\ command = "apply" /\ at' = at + 1
      BY <2>3, <2>5 DEF Apply, Exists, Step, States
    <3>2. \A i \in 1 .. at' - 1 : order[i] \in Exists'
      BY <1>1, <1>3, <2>2, <3>1 DEF WalkInv, Progress
    <3> QED
      BY <1>1, <2>1, <2>2, <3>1, <3>2 DEF WalkInv, Progress
  <2>6. CASE Destroy(k)
    <3>1. /\ Exists' = Exists \ {k}
          /\ command = "destroy" /\ at' = at - 1
      BY <2>3, <2>6 DEF Destroy, Exists, Step, States
    <3>2. \A i \in at' + 1 .. N : order[i] \notin Exists'
      BY <1>1, <1>3, <2>2, <3>1 DEF WalkInv, Progress
    <3> QED
      BY <1>1, <2>1, <2>2, <3>1, <3>2 DEF WalkInv, Progress
  <2> QED
    BY <2>2, <2>4, <2>5, <2>6 DEF Visit, Skip
<1> QED
  BY <1>2, <1>3

LEMMA NextWalk == WalkInv /\ [Next]_vars => WalkInv'
<1> SUFFICES ASSUME WalkInv, [Next]_vars
             PROVE  WalkInv'
  OBVIOUS
<1>1. TypeOK'
  BY NextTypeOK DEF WalkInv
<1>2. CASE User
  BY <1>1, <1>2, NType
     DEF User, Start, FirstPosition, WalkInv, Progress, TopologicalOrders, OrdersOf, N
<1>3. CASE Walk
  <2>1. CASE WalkEnds
    <3>1. phase' # "walking" /\ UNCHANGED <<deps, Exists>>
      BY <2>1 DEF WalkEnds, End, Exists
    <3> QED
      BY <1>1, <3>1, WalkStable
  <2> QED
    BY <1>1, <1>3, <2>1, VisitWalk DEF Walk
<1>4. ASSUME NEW k \in Keys, Fail(k)
      PROVE  WalkInv'
  BY <1>1, <1>4 DEF Fail, End, WalkInv, Progress
<1>5. ASSUME NEW k \in Keys, Drift(k)
      PROVE  WalkInv'
  BY <1>1, <1>5 DEF Drift, WalkInv, Progress
<1>6. CASE Waits \/ Crash \/ UNCHANGED vars
  BY <1>1, <1>6, WalkStable
     DEF Waits, WaitDone, WaitsEnd, Crash, End, run, vars, Exists
<1>7. ASSUME NEW k \in Keys, WaitFails(k) \/ Settle(k)
      PROVE  WalkInv'
  BY <1>1, <1>7, WalkStable DEF WaitFails, Settle, End, run, Exists
<1> QED
  BY <1>2, <1>3, <1>4, <1>5, <1>6, <1>7 DEF Next, Fault

-----------------------------------------------------------------------------
(* Refinement of DependencyOrder *)

named == targets # {}

\* What the abstract actions demand of a resource whose turn it is.
LEMMA SafeTurn ==
  ASSUME WalkInv, targets = {}, NEW k \in Keys, Turn(k)
  PROVE  /\ command = "apply"   => deps[k] \subseteq Exists
         /\ command = "destroy" => \A d \in Exists : k \notin deps[d]
<1>1. deps[k] \subseteq Keys
  BY GraphsType DEF WalkInv, TypeOK
<1>2. /\ command = "apply"   => \A i \in 1 .. at - 1 : order[i] \in Exists
      /\ command = "destroy" => \A i \in at + 1 .. N : order[i] \notin Exists
  BY DEF WalkInv, Progress, Turn
<1>3. \A d \in deps[k] : \E i \in 1 .. at - 1 : order[i] = d
  BY <1>1, Neighbours
<1>4. \A d \in Keys : k \in deps[d] => \E i \in at + 1 .. N : order[i] = d
  BY Neighbours
<1> QED
  BY <1>2, <1>3, <1>4 DEF Exists

\* A change of one resource during its turn is a Create, a Remove or nothing.
LEMMA TurnImplements ==
  ASSUME WalkInv, NEW k \in Keys, Turn(k), NEW left \in States,
         UNCHANGED <<deps, targets>>, aws' = [aws EXCEPT ![k] = left],
         left = "absent" => aws[k] = "absent" \/ command = "destroy",
         aws[k] = "absent" => left = "absent" \/ command = "apply"
  PROVE  [Promise!Next]_<<deps, Exists, named>>
<1>1. aws \in [Keys -> States]
  BY DEF WalkInv, TypeOK
<1>2. UNCHANGED named
  BY DEF named
<1>3. CASE left = "absent" /\ aws[k] # "absent"
  <2>1. Exists' = Exists \ {k} /\ k \in Exists
    BY <1>1, <1>3 DEF Exists
  <2>2. Promise!Remove(k)
    BY <1>2, <1>3, <2>1, SafeTurn DEF Promise!Remove, named
  <2> QED
    BY <2>2 DEF Promise!Next
<1>4. CASE left # "absent" /\ aws[k] = "absent"
  <2>1. Exists' = Exists \cup {k} /\ k \notin Exists
    BY <1>1, <1>4 DEF Exists
  <2>2. Promise!Create(k)
    BY <1>2, <1>4, <2>1, SafeTurn DEF Promise!Create, named
  <2> QED
    BY <2>2 DEF Promise!Next
<1>5. CASE (left = "absent") <=> (aws[k] = "absent")
  <2>1. Exists' = Exists
    BY <1>1, <1>5 DEF Exists
  <2> QED
    BY <1>2, <2>1
<1> QED
  BY <1>3, <1>4, <1>5

LEMMA NextImplements ==
  ASSUME WalkInv, [Next]_vars
  PROVE  [Promise!Next]_<<deps, Exists, named>>
<1>0. aws \in [Keys -> States]
  BY DEF WalkInv, TypeOK
<1>1. ASSUME NEW k \in Keys, Apply(k)
      PROVE  [Promise!Next]_<<deps, Exists, named>>
  BY <1>1, TurnImplements DEF Apply, States, run
<1>2. ASSUME NEW k \in Keys, Destroy(k)
      PROVE  [Promise!Next]_<<deps, Exists, named>>
  BY <1>2, TurnImplements DEF Destroy, States, run
<1>3. ASSUME NEW k \in Keys, Fail(k)
      PROVE  [Promise!Next]_<<deps, Exists, named>>
  <2>1. PICK left \in Leftovers(k) : aws' = [aws EXCEPT ![k] = left]
    BY <1>3 DEF Fail
  <2>2. command \in {"plan", "apply", "destroy"}
    BY CommandsType DEF WalkInv, TypeOK
  <2>3. /\ left \in States
        /\ left = "absent" => aws[k] = "absent" \/ command = "destroy"
        /\ aws[k] = "absent" => left = "absent" \/ command = "apply"
    BY <1>0, <2>1, <2>2 DEF Leftovers, States
  <2> QED
    BY <1>3, <2>1, <2>3, TurnImplements DEF Fail, run
<1>4. CASE User
  <2>1. named' \in BOOLEAN /\ UNCHANGED <<deps, Exists>>
    BY <1>4 DEF User, Start, Exists, named
  <2> QED
    BY <2>1 DEF Promise!Next, Promise!Start, named
<1>5. ASSUME NEW k \in Keys, Drift(k)
      PROVE  UNCHANGED <<deps, Exists, named>>
  BY <1>0, <1>5 DEF Drift, Exists, named, run
<1>6. WalkEnds \/ Waits \/ Crash \/ UNCHANGED vars
        => UNCHANGED <<deps, Exists, named>>
  BY DEF WalkEnds, Waits, WaitDone, WaitsEnd, Crash, vars, run, Exists, named
<1>7. ASSUME NEW k \in Keys
      PROVE  Skip(k) \/ Plan(k) \/ WaitFails(k) \/ Settle(k)
               => UNCHANGED <<deps, Exists, named>>
  BY DEF Skip, Plan, WaitFails, Settle, run, Exists, named
<1> QED
  BY <1>1, <1>2, <1>3, <1>4, <1>5, <1>6, <1>7 DEF Next, Walk, Visit, Fault

\* The walk of a resource graph implements the abstract promise: every step of
\* every run without --targets creates over existing dependencies, removes what
\* nothing depends on, or leaves what exists alone.
THEOREM Implementation == Spec => ImplementsDependencyOrder
<1>1. Init => Promise!Init
  BY DEF Init, Promise!Init, Exists
<1>2. WalkInv /\ [Next]_vars => [Promise!Next]_(Promise!promise)
  BY NextImplements DEF Promise!promise, named
<1> QED
  BY InitWalk, NextWalk, <1>1, <1>2, PTL
     DEF Spec, ImplementsDependencyOrder, Promise!Spec

-----------------------------------------------------------------------------
(* Closure under dependencies *)

\* A user who never gives --targets never has a resource in AWS without
\* something it depends on: what the promise comes to when no run is named.
ClosureInv == WalkInv /\ targets = {} /\ ClosedUnderDependencies

LEMMA NextClosure ==
  ASSUME TargetSets = {{}}, ClosureInv, [Next]_vars
  PROVE  ClosureInv'
<1>1. WalkInv'
  BY NextWalk DEF ClosureInv
<1>2. targets' = {}
  BY DEF ClosureInv, Next, User, Start, Walk, Visit, Skip, Plan, Apply, Destroy,
         WalkEnds, Waits, WaitDone, WaitsEnd, Fault, Crash, Fail, WaitFails,
         Drift, Settle, vars, run
<1>3. [Promise!Next]_<<deps, Exists, named>>
  BY NextImplements DEF ClosureInv
<1>4. ~ named /\ deps' = deps
  BY <1>3 DEF ClosureInv, named, Promise!Next, Promise!Start, Promise!Create,
              Promise!Remove
<1>5. ClosedUnderDependencies'
  <2>1. CASE UNCHANGED Exists
    BY <1>4, <2>1 DEF ClosureInv, ClosedUnderDependencies
  <2>2. ASSUME NEW k \in Keys, Promise!Create(k)
        PROVE  ClosedUnderDependencies'
    BY <1>4, <2>2
       DEF ClosureInv, ClosedUnderDependencies, Promise!Create, named
  <2>3. ASSUME NEW k \in Keys, Promise!Remove(k)
        PROVE  ClosedUnderDependencies'
    BY <1>4, <2>3
       DEF ClosureInv, ClosedUnderDependencies, Promise!Remove, named
  <2> QED
    BY <1>3, <2>1, <2>2, <2>3 DEF Promise!Next, Promise!Start
<1> QED
  BY <1>1, <1>2, <1>5 DEF ClosureInv

\* Without --targets, no run leaves a resource in AWS without something it
\* depends on, however it ends.
THEOREM DependenciesStayClosed ==
  ASSUME TargetSets = {{}}
  PROVE  Spec => []ClosedUnderDependencies
<1>1. Init => ClosureInv
  BY InitWalk DEF Init, ClosureInv, ClosedUnderDependencies, Exists
<1>2. ClosureInv => ClosedUnderDependencies
  BY DEF ClosureInv
<1> QED
  BY NextClosure, <1>1, <1>2, PTL DEF Spec

-----------------------------------------------------------------------------
(* What a successful apply means, with or without --targets *)

\* Everything an apply has passed is as its spec says, and every waitable one
\* of it is still to be waited for or was seen steady.
Applied(k) == Targeted(k) => aws[k] = "matching"
Waited(k)  == Targeted(k) /\ k \in Waitable => k \in settled \cup toWait

ApplyProgress ==
    command = "apply" =>
        /\ phase = "walking" =>
               /\ order \in TopologicalOrders
               /\ at \in 1 .. N + 1
               /\ \A i \in 1 .. at - 1 :
                      /\ Applied(order[i])
                      /\ Targeted(order[i]) /\ order[i] \in Waitable
                             => order[i] \in toWait
        /\ phase = "waiting" => \A k \in Keys : Applied(k) /\ Waited(k)

DoneInv ==
    /\ TypeOK
    /\ phase # "idle" => result = "none"
    /\ ApplyProgress
    /\ AppliedMeansDone

LEMMA InitDone == Init => DoneInv
BY InitTypeOK DEF Init, DoneInv, ApplyProgress, AppliedMeansDone

LEMMA NextDone == DoneInv /\ [Next]_vars => DoneInv'
<1> SUFFICES ASSUME DoneInv, [Next]_vars
             PROVE  DoneInv'
  OBVIOUS
<1>1. TypeOK'
  BY NextTypeOK DEF DoneInv
<1>t. /\ aws \in [Keys -> States]
      /\ N \in Nat
      /\ phase # "idle" => result = "none"
  BY NType DEF DoneInv, TypeOK
<1>2. ASSUME NEW k \in Keys, Visit(k)
      PROVE  DoneInv'
  <2>1. /\ phase = "walking" /\ phase' = "walking" /\ result' = "none"
        /\ Turn(k)
        /\ UNCHANGED <<deps, command, targets, order>>
    BY <1>t, <1>2 DEF Visit, Skip, Plan, Destroy, Apply, Turn, run
  <2>2. ASSUME command = "apply"
        PROVE  ApplyProgress'
    <3>1. /\ order \in TopologicalOrders
          /\ at \in 1 .. N + 1
          /\ \A i \in 1 .. at - 1 :
                 /\ Applied(order[i])
                 /\ Targeted(order[i]) /\ order[i] \in Waitable
                        => order[i] \in toWait
      BY <2>1, <2>2 DEF DoneInv, ApplyProgress
    <3>2. /\ at \in 1 .. N
          /\ order[at] = k
          /\ order \in [1 .. N -> Keys]
          /\ order \in TopologicalOrders'
      BY <2>1, <3>1, OrderFacts DEF Turn, TopologicalOrders, OrdersOf
    <3>3. /\ at' = at + 1
          /\ \A j \in Keys : aws[j] = "matching" => aws'[j] = "matching"
          /\ toWait \subseteq toWait'
          /\ Targeted(k) => aws'[k] = "matching"
          /\ Targeted(k) /\ k \in Waitable => k \in toWait'
      BY <1>t, <1>2, <2>2 DEF Visit, Skip, Plan, Destroy, Apply, WaitsFor, Step
    <3>4. ASSUME NEW i \in 1 .. at' - 1
          PROVE  /\ Applied(order[i])'
                 /\ Targeted(order[i])' /\ order[i] \in Waitable
                        => order[i] \in toWait'
      <4>1. i \in 1 .. at - 1 \/ i = at
        BY <3>2, <3>3, <3>4
      <4>2. order[i] \in Keys
        BY <1>t, <3>2, <4>1
      <4> QED
        BY <2>1, <3>1, <3>2, <3>3, <4>1, <4>2 DEF Applied, Targeted
    <3>5. at' \in 1 .. N + 1
      BY <1>t, <3>2, <3>3
    <3> QED
      BY <2>1, <3>2, <3>4, <3>5 DEF ApplyProgress
  <2> QED
    BY <1>1, <2>1, <2>2 DEF DoneInv, ApplyProgress, AppliedMeansDone
<1>3. CASE WalkEnds
  <2>1. /\ phase = "walking" /\ at \notin DOMAIN order
        /\ UNCHANGED <<deps, aws, settled, command, targets, order, at, toWait>>
    BY <1>3 DEF WalkEnds, run
  <2>2. ASSUME command = "apply", NEW k \in Keys
        PROVE  Applied(k) /\ Waited(k)
    <3>1. /\ order \in TopologicalOrders
          /\ at \in 1 .. N + 1
          /\ \A i \in 1 .. at - 1 :
                 /\ Applied(order[i])
                 /\ Targeted(order[i]) /\ order[i] \in Waitable
                        => order[i] \in toWait
      BY <2>1, <2>2 DEF DoneInv, ApplyProgress
    <3>2. at = N + 1
      BY <1>t, <2>1, <3>1, OrderFacts
    <3>3. PICK i \in 1 .. at - 1 : order[i] = k
      BY <1>t, <3>1, <3>2, OrderFacts
    <3> QED
      BY <3>1, <3>3 DEF Waited
  <2>3. CASE toWait = {}
    <3>1. phase' = "idle" /\ result' = "ok"
      BY <1>3, <2>3 DEF WalkEnds, End
    <3>2. AppliedMeansDone'
      BY <2>1, <2>2, <2>3
         DEF AppliedMeansDone, Applied, Waited, Targeted
    <3> QED
      BY <1>1, <3>1, <3>2 DEF DoneInv, ApplyProgress
  <2>4. CASE toWait # {}
    <3>1. phase' = "waiting" /\ result' = "none"
      BY <1>t, <1>3, <2>1, <2>4 DEF WalkEnds, End
    <3>2. ApplyProgress'
      BY <2>1, <2>2, <3>1
         DEF ApplyProgress, Applied, Waited, Targeted
    <3> QED
      BY <1>1, <3>1, <3>2 DEF DoneInv, AppliedMeansDone
  <2> QED
    BY <2>3, <2>4
<1>4. ASSUME NEW k \in Keys, WaitDone(k)
      PROVE  DoneInv'
  <2>1. /\ phase = "waiting" /\ k \in settled /\ toWait' = toWait \ {k}
        /\ UNCHANGED <<aws, settled, phase, command, targets, result>>
    BY <1>4 DEF WaitDone, run
  <2>2. ApplyProgress'
    BY <2>1 DEF DoneInv, ApplyProgress, Applied, Waited, Targeted
  <2> QED
    BY <1>1, <1>t, <2>1, <2>2 DEF DoneInv, AppliedMeansDone
<1>5. CASE WaitsEnd
  <2>1. /\ phase = "waiting" /\ toWait = {}
        /\ phase' = "idle"
        /\ UNCHANGED <<aws, settled, command, targets>>
    BY <1>5 DEF WaitsEnd, End, run
  <2>2. AppliedMeansDone'
    BY <2>1 DEF DoneInv, ApplyProgress, AppliedMeansDone, Applied, Waited, Targeted
  <2> QED
    BY <1>1, <2>1, <2>2 DEF DoneInv, ApplyProgress
<1>6. ASSUME NEW k \in Keys, Drift(k)
      PROVE  DoneInv'
  BY <1>1, <1>6 DEF Drift, run, DoneInv, ApplyProgress, AppliedMeansDone
<1>7. ASSUME NEW k \in Keys, Settle(k)
      PROVE  DoneInv'
  <2>1. /\ settled \subseteq settled'
        /\ UNCHANGED <<deps, aws, phase, command, targets, order, at, toWait, result>>
    BY <1>7 DEF Settle, run
  <2>2. /\ ApplyProgress'
        /\ AppliedMeansDone'
    BY <2>1 DEF DoneInv, ApplyProgress, AppliedMeansDone, Applied, Waited,
                Targeted, TopologicalOrders, OrdersOf
  <2> QED
    BY <1>1, <2>1, <2>2 DEF DoneInv
<1>8. ASSUME phase' = "idle", result' \in {"error", "killed"}
      PROVE  DoneInv'
  BY <1>1, <1>8 DEF DoneInv, ApplyProgress, AppliedMeansDone
<1>9. CASE User
  BY <1>1, <1>9, <1>t
     DEF User, Start, FirstPosition, DoneInv, ApplyProgress, AppliedMeansDone,
         TopologicalOrders, OrdersOf, N
<1>10. CASE UNCHANGED vars
  BY <1>1, <1>10 DEF vars, run, DoneInv, ApplyProgress, AppliedMeansDone,
                     Applied, Waited, Targeted, TopologicalOrders, OrdersOf
<1>11. CASE Fault
  BY <1>6, <1>8, <1>11 DEF Fault, Crash, Fail, WaitFails, End
<1> QED
  BY <1>2, <1>3, <1>4, <1>5, <1>7, <1>9, <1>10, <1>11 DEF Next, Walk, Waits

\* An apply that reports success has brought every targeted resource to its
\* spec and has seen every targeted waitable one steady.
THEOREM SuccessMeansDone == Spec => []AppliedMeansDone
<1>1. DoneInv => AppliedMeansDone
  BY DEF DoneInv
<1> QED
  BY InitDone, NextDone, <1>1, PTL DEF Spec

-----------------------------------------------------------------------------
(* What a successful destroy and a successful plan mean *)

\* A destroy has removed what is behind its position; a plan has an entry of
\* each resource it has passed, true of what AWS has of it.
Gone(k)     == Targeted(k) => aws[k] = "absent"
Reported(k) ==
    IF Targeted(k) /\ k \in Comparable
    THEN /\ entries[k] = "create" <=> aws[k] = "absent"
         /\ entries[k] = "update" <=> aws[k] = "drifted"
         /\ entries[k] # "none"
    ELSE entries[k] \in {"skipped", "unsupported"}

OtherProgress ==
    phase = "walking" =>
        /\ order \in TopologicalOrders
        /\ command = "destroy" =>
               at \in 0 .. N /\ \A i \in at + 1 .. N : Gone(order[i])
        /\ command = "plan" =>
               at \in 1 .. N + 1 /\ \A i \in 1 .. at - 1 : Reported(order[i])

\* Only an apply has anything to wait for.
NothingToWait ==
    /\ phase # "idle" => result = "none" /\ (command # "apply" => toWait = {})
    /\ phase = "waiting" => command = "apply"

OtherInv ==
    /\ TypeOK
    /\ NothingToWait
    /\ OtherProgress
    /\ DestroyedMeansGone
    /\ PlanIsCurrent

LEMMA InitOther == Init => OtherInv
BY InitTypeOK
   DEF Init, OtherInv, NothingToWait, OtherProgress, DestroyedMeansGone, PlanIsCurrent

\* A walking process has reported nothing yet.
LEMMA StillWalking ==
  ASSUME NothingToWait', phase' = "walking"
  PROVE  DestroyedMeansGone' /\ PlanIsCurrent'
BY DEF NothingToWait, DestroyedMeansGone, PlanIsCurrent

LEMMA VisitOther ==
  ASSUME OtherInv, TypeOK', NEW k \in Keys, Visit(k)
  PROVE  OtherInv'
<1>1. /\ phase = "walking" /\ phase' = "walking"
      /\ Turn(k)
      /\ UNCHANGED <<deps, command, targets, order, result>>
      /\ aws \in [Keys -> States] /\ entries \in [Keys -> Outcomes \cup {"none"}]
      /\ command \in {"plan", "apply", "destroy"}
  BY CommandsType
     DEF Visit, Skip, Plan, Apply, Destroy, Turn, run, OtherInv, TypeOK
<1>2. NothingToWait'
  BY <1>1 DEF OtherInv, NothingToWait, Visit, Skip, Plan, Apply, Destroy
<1>3. /\ order \in TopologicalOrders /\ order' \in TopologicalOrders'
      /\ order \in [1 .. N -> Keys]
      /\ at \in 1 .. N /\ order[at] = k
      /\ N \in Nat
  BY <1>1, OrderFacts, NType DEF OtherInv, OtherProgress, TopologicalOrders, OrdersOf, Turn
<1>4. ASSUME command = "destroy"
      PROVE  at' \in 0 .. N /\ \A i \in at' + 1 .. N : Gone(order[i])'
  <2>1. at' = at - 1
    BY <1>1, <1>4 DEF Visit, Skip, Plan, Apply, Destroy, Step
  <2>2. \A j \in Keys : Gone(j) => Gone(j)'
    BY <1>1, <1>4 DEF Visit, Skip, Plan, Apply, Destroy, Gone, Targeted
  <2>3. Gone(k)'
    BY <1>1, <1>4 DEF Visit, Skip, Plan, Apply, Destroy, Gone, Targeted
  <2>4. \A i \in at + 1 .. N : Gone(order[i])
    BY <1>1, <1>4 DEF OtherInv, OtherProgress
  <2>5. ASSUME NEW i \in at' + 1 .. N
        PROVE  Gone(order[i])'
    <3>1. i = at \/ i \in at + 1 .. N
      BY <1>3, <2>1, <2>5
    <3>2. order[i] \in Keys /\ order'[i] = order[i]
      BY <1>1, <1>3, <3>1
    <3> QED
      BY <1>3, <2>2, <2>3, <2>4, <3>1, <3>2
  <2> QED
    BY <1>3, <2>1, <2>5
<1>5. ASSUME command = "plan"
      PROVE  at' \in 1 .. N + 1 /\ \A i \in 1 .. at' - 1 : Reported(order[i])'
  <2>1. at' = at + 1 /\ aws' = aws
    BY <1>1, <1>5 DEF Visit, Skip, Plan, Apply, Destroy, Step
  <2>2. PICK o \in Outcomes : entries' = [entries EXCEPT ![k] = o]
    <3>1. PlanOutcome(k) \in Outcomes
      BY <1>1 DEF PlanOutcome, Outcomes, States
    <3> QED
      BY <1>1, <1>5, <3>1 DEF Visit, Skip, Plan, Apply, Destroy, Outcomes
  <2>3. Reported(k)'
    <3>1. CASE Skip(k)
      BY <1>1, <1>5, <2>1, <3>1 DEF Skip, Reported, Targeted
    <3>2. CASE Plan(k)
      BY <1>1, <2>1, <3>2 DEF Plan, PlanOutcome, Reported, Targeted, States
    <3> QED
      BY <1>1, <1>5, <3>1, <3>2 DEF Visit, Apply, Destroy
  <2>4. \A j \in Keys \ {k} : Reported(j) => Reported(j)'
    BY <1>1, <2>1, <2>2 DEF Reported, Targeted
  <2>5. \A i \in 1 .. at - 1 : Reported(order[i])
    BY <1>1, <1>5 DEF OtherInv, OtherProgress
  <2>6. ASSUME NEW i \in 1 .. at' - 1
        PROVE  Reported(order[i])'
    <3>1. i = at \/ i \in 1 .. at - 1
      BY <1>3, <2>1, <2>6
    <3>2. order[i] \in Keys /\ order'[i] = order[i]
      BY <1>1, <1>3, <3>1
    <3> QED
      BY <1>3, <2>3, <2>4, <2>5, <3>1, <3>2
  <2> QED
    BY <1>3, <2>1, <2>6
<1>6. OtherProgress'
  BY <1>1, <1>3, <1>4, <1>5 DEF OtherProgress
<1> QED
  BY <1>1, <1>2, <1>6, StillWalking DEF OtherInv

\* When a walk is over nothing of it is left, forwards or backwards.
LEMMA EndOther ==
  ASSUME OtherInv, TypeOK', WalkEnds
  PROVE  OtherInv'
<1>1. /\ phase = "walking" /\ at \notin DOMAIN order
      /\ UNCHANGED <<deps, aws, command, targets, order, at, toWait, entries>>
      /\ order \in TopologicalOrders
      /\ N \in Nat /\ DOMAIN order = 1 .. N
  BY OrderFacts, NType DEF WalkEnds, run, OtherInv, OtherProgress
<1>2. NothingToWait'
  BY <1>1 DEF WalkEnds, End, OtherInv, NothingToWait
<1>3. phase' # "walking"
  BY <1>1 DEF WalkEnds, End
<1>4. ASSUME command = "destroy", NEW k \in Keys
      PROVE  Gone(k)
  <2>1. at = 0 /\ \A i \in at + 1 .. N : Gone(order[i])
    BY <1>1, <1>4 DEF OtherInv, OtherProgress
  <2>2. PICK i \in 1 .. N : order[i] = k
    BY <1>1, OrderFacts
  <2> QED
    BY <1>1, <2>1, <2>2
<1>5. ASSUME command = "plan", NEW k \in Keys
      PROVE  Reported(k)
  <2>1. at = N + 1 /\ \A i \in 1 .. at - 1 : Reported(order[i])
    BY <1>1, <1>5 DEF OtherInv, OtherProgress
  <2>2. PICK i \in 1 .. N : order[i] = k
    BY <1>1, OrderFacts
  <2> QED
    BY <1>1, <2>1, <2>2
<1>6. DestroyedMeansGone' /\ PlanIsCurrent'
  BY <1>1, <1>4, <1>5 DEF DestroyedMeansGone, PlanIsCurrent, Gone, Reported, Targeted
<1> QED
  BY <1>2, <1>3, <1>6 DEF OtherInv, OtherProgress

LEMMA NextOther == OtherInv /\ [Next]_vars => OtherInv'
<1> SUFFICES ASSUME OtherInv, [Next]_vars
             PROVE  OtherInv'
  OBVIOUS
<1>1. TypeOK'
  BY NextTypeOK DEF OtherInv
<1>2. ASSUME NEW k \in Keys, Visit(k)
      PROVE  OtherInv'
  BY <1>1, <1>2, VisitOther
<1>3. CASE WalkEnds
  BY <1>1, <1>3, EndOther
<1>4. CASE Waits
  <2>1. command = "apply" /\ command' = "apply" /\ phase' # "walking"
    BY <1>4 DEF Waits, WaitDone, WaitsEnd, End, run, OtherInv, NothingToWait
  <2>2. NothingToWait'
    BY <1>4, <2>1 DEF Waits, WaitDone, WaitsEnd, End, OtherInv, NothingToWait
  <2> QED
    BY <1>1, <2>1, <2>2 DEF OtherInv, OtherProgress, DestroyedMeansGone, PlanIsCurrent
<1>5. CASE User
  <2>1. /\ phase' = "walking" /\ result' = "none" /\ toWait' = {}
        /\ order' \in TopologicalOrders'
        /\ at' = IF command' = "destroy" THEN N ELSE 1
    BY <1>5 DEF User, Start, FirstPosition, N, TopologicalOrders, OrdersOf
  <2>2. NothingToWait' /\ OtherProgress'
    BY <2>1, NType DEF NothingToWait, OtherProgress
  <2> QED
    BY <1>1, <2>1, <2>2, StillWalking DEF OtherInv
<1>6. ASSUME phase' = "idle", result' \in {"error", "killed"}
      PROVE  OtherInv'
  BY <1>1, <1>6
     DEF OtherInv, NothingToWait, OtherProgress, DestroyedMeansGone, PlanIsCurrent
<1>7. ASSUME NEW k \in Keys, Drift(k)
      PROVE  OtherInv'
  BY <1>1, <1>7
     DEF Drift, run, OtherInv, NothingToWait, OtherProgress, DestroyedMeansGone, PlanIsCurrent
<1>8. CASE UNCHANGED vars \/ \E k \in Keys : Settle(k)
  <2>1. UNCHANGED <<deps, aws, phase, command, targets, order, at, toWait, entries, result>>
    BY <1>8 DEF Settle, run, vars
  <2> QED
    BY <1>1, <2>1
       DEF OtherInv, NothingToWait, OtherProgress, DestroyedMeansGone, PlanIsCurrent, Gone,
           Reported, Targeted, TopologicalOrders, OrdersOf
<1>9. CASE Fault
  BY <1>6, <1>7, <1>9 DEF Fault, Crash, Fail, WaitFails, End
<1> QED
  BY <1>2, <1>3, <1>4, <1>5, <1>8, <1>9 DEF Next, Walk

\* A destroy that reports success has removed every targeted resource (the
\* backward walk of Destroy in config/dag.go).
THEOREM DestroyMeansGone == Spec => []DestroyedMeansGone
<1>1. OtherInv => DestroyedMeansGone
  BY DEF OtherInv
<1> QED
  BY InitOther, NextOther, <1>1, PTL DEF Spec

\* What a plan that reports success says of each resource still holds as long as
\* nobody has changed anything (config/plan.go).
THEOREM PlanStaysCurrent == Spec => []PlanIsCurrent
<1>1. OtherInv => PlanIsCurrent
  BY DEF OtherInv
<1> QED
  BY InitOther, NextOther, <1>1, PTL DEF Spec
-----------------------------------------------------------------------------
(* A visit of the walk stands for a whole call on one resource *)

\* ResourceContract for a resource that is as s says.
Contract(s) == INSTANCE ResourceContract WITH
                   condition <- s, call <- command, disturbed <- FALSE, outcome <- "none"

\* The walks may take Apply or Destroy of one resource for a single step: however many
\* steps of its contract an undisturbed call makes, and wherever it stops, it leaves
\* what Fail allows, no more and no less, and when it succeeds what Apply and Destroy
\* say.  So each resource shown to keep the contract does what GraphExecutor assumes.
THEOREM VisitsAreCalls ==
  ASSUME TypeOK, NEW k \in Keys, command \in {"apply", "destroy"}
  PROVE  /\ Leftovers(k) = Contract(aws[k])!Reachable(command)
         /\ aws[k] \in Leftovers(k)
         /\ \A s \in Leftovers(k) :
                /\ Contract(s)!Reachable(command) \subseteq Leftovers(k)
                /\ Contract(s)!Goal(command) \in Contract(s)!Reachable(command)
         /\ Apply(k) \/ Destroy(k) => aws' = [aws EXCEPT ![k] = Contract(aws[k])!Goal(command)]
<1> aws[k] \in States
  BY DEF TypeOK
<1> USE DEF Contract!Reachable, Contract!Goal, Contract!Conditions, Leftovers, States
<1>1. Leftovers(k) = Contract(aws[k])!Reachable(command)
  BY SMT
<1> QED
  BY <1>1 DEF Apply, Destroy
============================================================================
