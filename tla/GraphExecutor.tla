--------------------------- MODULE GraphExecutor ---------------------------
(***************************************************************************)
(* Plan, apply and destroy over an ordered resource graph (config/dag.go   *)
(* and config/plan.go), run after run against one AWS account.             *)
(*                                                                         *)
(* A run walks a topological order, forwards to plan and apply, backwards  *)
(* to destroy, and skips what --targets leaves out.  The first resource    *)
(* that fails ends the run, whatever it has left behind in AWS.  When all  *)
(* are applied, the waitable ones are waited for, all at once.  The        *)
(* process keeps nothing: the next run starts over and finds in AWS what   *)
(* the last one left there, also when that one was killed half way.        *)
(***************************************************************************)
EXTENDS Integers, Sequences, FiniteSets, Functions, TopologicalOrder

CONSTANTS
    Keys,        \* resource keys
    Graphs,      \* possible dependencies: functions Keys -> SUBSET Keys
    Waitable,    \* the resources that implement WaitableResource
    Comparable,  \* the resources that implement ComparableResource
    TargetSets,  \* what --targets may name; {} stands for no --targets
    Commands     \* the commands the user gives

ASSUME KeysFinite   == IsFiniteSet(Keys)
ASSUME GraphsType   == Graphs \subseteq [Keys -> SUBSET Keys]
ASSUME TargetsType  == TargetSets \subseteq SUBSET Keys
ASSUME CommandsType == Commands \subseteq {"plan", "apply", "destroy"}

VARIABLES
    deps,     \* what each resource depends on
    aws,      \* each resource in AWS: absent, drifted or matching its spec
    settled,  \* the resources AWS has brought to a steady state
    phase,    \* what the process is doing
    command,  \* the command under way, or the last one
    targets,  \* its --targets
    order,    \* the order toposort gave this run
    at,       \* position in order of the resource whose turn it is
    toWait,   \* waitableResources, and then the Waits still running
    entries,  \* PlanEntry.Action of each resource a plan has visited
    result    \* how the last run ended, until something else happens

run  == <<command, targets, order>>
vars == <<deps, aws, settled, phase, run, at, toWait, entries, result>>

States   == {"absent", "drifted", "matching"}
Phases   == {"idle", "walking", "waiting"}
Results  == {"none", "ok", "error", "killed"}
Outcomes == {"create", "update", "no-change", "unsupported", "skipped"}

\* toposort's result.
TopologicalOrders == OrdersOf(Keys, deps)

Init ==
    /\ deps \in Graphs
    /\ aws = [k \in Keys |-> "absent"]
    /\ settled = {}
    /\ phase = "idle"
    /\ command \in Commands
    /\ targets = {}
    /\ order = << >>
    /\ at = 0
    /\ toWait = {}
    /\ entries = [k \in Keys |-> "none"]
    /\ result = "none"

-----------------------------------------------------------------------------
(* Starting and ending a run *)

\* Mutant: both walks begin one position late.
FirstPositionLate(cmd) == IF cmd = "destroy" THEN Cardinality(Keys) - 1 ELSE 2

FirstPosition(cmd) == IF cmd = "destroy" THEN Cardinality(Keys) ELSE 1

Start(cmd, names) ==
    /\ phase = "idle"
    /\ phase' = "walking"
    /\ command' = cmd
    /\ targets' = names
    /\ order' \in TopologicalOrders
    /\ at' = FirstPosition(cmd)
    /\ toWait' = {}
    /\ entries' = [k \in Keys |-> "none"]
    /\ result' = "none"
    /\ UNCHANGED <<deps, aws, settled>>

End(how) == phase' = "idle" /\ result' = how

\* The process dies; nothing of what it has done so far is undone.
Crash ==
    /\ phase # "idle"
    /\ End("killed")
    /\ UNCHANGED <<deps, aws, settled, run, at, toWait, entries>>

-----------------------------------------------------------------------------
(* The walk *)

Turn(k)     == phase = "walking" /\ at \in DOMAIN order /\ order[at] = k
Targeted(k) == targets = {} \/ k \in targets
Step        == IF command = "destroy" THEN at - 1 ELSE at + 1

Skip(k) ==
    /\ Turn(k)
    /\ ~ Targeted(k)
    /\ at' = Step
    /\ entries' = IF command = "plan" THEN [entries EXCEPT ![k] = "skipped"]
                                    ELSE entries
    /\ UNCHANGED <<deps, aws, settled, phase, run, toWait, result>>

\* Mutant: an outcome without a name.
PlanOutcomeUnnamed(k) ==
    IF k \in Comparable /\ aws[k] = "drifted" THEN "unknown" ELSE "no-change"

\* What a plan reports for a resource it compares.
PlanOutcome(k) ==
    IF k \notin Comparable THEN "unsupported"
    ELSE CASE aws[k] = "absent"   -> "create"
           [] aws[k] = "drifted"  -> "update"
           [] aws[k] = "matching" -> "no-change"

Plan(k) ==
    /\ Turn(k)
    /\ command = "plan"
    /\ Targeted(k)
    /\ at' = Step
    /\ entries' = [entries EXCEPT ![k] = PlanOutcome(k)]
    /\ UNCHANGED <<deps, aws, settled, phase, run, toWait, result>>

\* Mutant: only what this run has changed is waited for.
WaitsForChanged(k) == IF aws[k] = "matching" THEN {} ELSE {k} \cap Waitable

WaitsFor(k) == {k} \cap Waitable

\* A resource that had to change has to settle again.
Apply(k) ==
    /\ Turn(k)
    /\ command = "apply"
    /\ Targeted(k)
    /\ aws' = [aws EXCEPT ![k] = "matching"]
    /\ settled' = IF aws[k] = "matching" THEN settled ELSE settled \ {k}
    /\ toWait' = toWait \cup WaitsFor(k)
    /\ at' = Step
    /\ UNCHANGED <<deps, phase, run, entries, result>>

Destroy(k) ==
    /\ Turn(k)
    /\ command = "destroy"
    /\ Targeted(k)
    /\ aws' = [aws EXCEPT ![k] = "absent"]
    /\ settled' = settled \ {k}
    /\ at' = Step
    /\ UNCHANGED <<deps, phase, run, toWait, entries, result>>

\* What a failed call may leave of the resource: a failed apply may have
\* created it or not, a failed destroy may have removed it or not, and either
\* may have done all of its work.
Leftovers(k) ==
    CASE command = "apply"   -> IF aws[k] = "absent"
                                THEN {"absent", "drifted", "matching"}
                                ELSE {"drifted", "matching"}
      [] command = "destroy" -> IF aws[k] = "absent" THEN {"absent"}
                                                     ELSE {aws[k], "drifted", "absent"}
      [] command = "plan"    -> {aws[k]}

\* Mutant: the walk goes on after an error.
FailAndContinue(k) ==
    /\ Turn(k)
    /\ Targeted(k)
    /\ \E left \in Leftovers(k) :
           /\ aws' = [aws EXCEPT ![k] = left]
           /\ settled' = IF left = "matching" THEN settled ELSE settled \ {k}
    /\ at' = Step
    /\ UNCHANGED <<deps, phase, run, toWait, entries, result>>

\* An AWS error, a timeout or the cancelled context ends the run at this
\* resource: later ones are not visited and no Wait begins.
Fail(k) ==
    /\ Turn(k)
    /\ Targeted(k)
    /\ command = "plan" => k \in Comparable
    /\ \E left \in Leftovers(k) :
           /\ aws' = [aws EXCEPT ![k] = left]
           /\ settled' = IF left = "matching" THEN settled ELSE settled \ {k}
    /\ End("error")
    /\ UNCHANGED <<deps, run, at, toWait, entries>>

WalkEnds ==
    /\ phase = "walking"
    /\ at \notin DOMAIN order
    /\ IF toWait = {} THEN End("ok") ELSE phase' = "waiting" /\ UNCHANGED result
    /\ UNCHANGED <<deps, aws, settled, run, at, toWait, entries>>

-----------------------------------------------------------------------------
(* The concurrent Waits of an apply, in goutils' async.Group *)

\* A Wait ends well only when it has seen its resource steady.
WaitDone(k) ==
    /\ phase = "waiting"
    /\ k \in toWait
    /\ k \in settled
    /\ toWait' = toWait \ {k}
    /\ UNCHANGED <<deps, aws, settled, phase, run, at, entries, result>>

\* A Wait times out or meets an error: the group, and so the run, fails.
WaitFails(k) ==
    /\ phase = "waiting"
    /\ k \in toWait
    /\ End("error")
    /\ UNCHANGED <<deps, aws, settled, run, at, toWait, entries>>

WaitsEnd ==
    /\ phase = "waiting"
    /\ toWait = {}
    /\ End("ok")
    /\ UNCHANGED <<deps, aws, settled, run, at, toWait, entries>>

-----------------------------------------------------------------------------
(* AWS, and whoever else changes the account *)

Settle(k) ==
    /\ aws[k] # "absent"
    /\ k \notin settled
    /\ settled' = settled \cup {k}
    /\ UNCHANGED <<deps, aws, phase, run, at, toWait, entries, result>>

\* Someone changes a resource by hand, or its spec, between two runs.
Drift(k) ==
    /\ phase = "idle"
    /\ aws[k] = "matching"
    /\ aws' = [aws EXCEPT ![k] = "drifted"]
    /\ result' = "none"
    /\ UNCHANGED <<deps, settled, phase, run, at, toWait, entries>>

Visit(k) == Skip(k) \/ Plan(k) \/ Apply(k) \/ Destroy(k)
Walk     == (\E k \in Keys : Visit(k)) \/ WalkEnds
Waits    == (\E k \in Keys : WaitDone(k)) \/ WaitsEnd
Fault    == Crash \/ \E k \in Keys : Fail(k) \/ WaitFails(k) \/ Drift(k)
User     == \E cmd \in Commands, names \in TargetSets : Start(cmd, names)

Next == User \/ Walk \/ Waits \/ Fault \/ \E k \in Keys : Settle(k)

Spec == Init /\ [][Next]_vars

\* A run goes on by itself, its Waits included, and AWS settles what it is not
\* told to change again.
Fairness ==
    /\ WF_vars(Walk)
    /\ WF_vars(Waits)
    /\ \A k \in Keys : WF_vars(Settle(k))

FairSpec == Spec /\ Fairness

-----------------------------------------------------------------------------
(* Properties *)

Exists == {k \in Keys : aws[k] # "absent"}

\* Shapes of the variables.
TypeOK ==
    /\ deps \in Graphs
    /\ aws \in [Keys -> States]
    /\ settled \subseteq Keys
    /\ phase \in Phases
    /\ command \in Commands
    /\ targets \in SUBSET Keys
    /\ order \in Seq(Keys)
    /\ at \in Int
    /\ toWait \subseteq Keys
    /\ entries \in [Keys -> Outcomes \cup {"none"}]
    /\ result \in Results

\* A user who never gives --targets never has a resource in AWS without
\* something it depends on, whatever failed (proved in GraphExecutorProofs).
ClosedUnderDependencies == \A k \in Exists : deps[k] \subseteq Exists

\* Every run without --targets creates a resource only over its dependencies
\* and removes it only from under nothing, step by step, whatever runs failed,
\* died or had --targets before it.
Promise == INSTANCE DependencyOrder WITH exists <- Exists, named <- targets # {}
ImplementsDependencyOrder == Promise!Spec

\* An apply that reports success has brought every targeted resource to its
\* spec and seen every targeted waitable one steady, also those an earlier
\* failed run had applied and never waited for.
AppliedMeansDone ==
    command = "apply" /\ result = "ok" =>
        \A k \in Keys : Targeted(k) =>
            /\ aws[k] = "matching"
            /\ k \in Waitable => k \in settled

\* A destroy that reports success has removed every targeted resource.
DestroyedMeansGone ==
    command = "destroy" /\ result = "ok" =>
        \A k \in Keys : Targeted(k) => aws[k] = "absent"

\* A plan that reports success has an entry for every resource, and what it
\* says still holds: only resources it calls new or changed differ from the
\* spec, as long as nobody has changed anything since.
PlanIsCurrent ==
    command = "plan" /\ result = "ok" =>
        \A k \in Keys :
            IF Targeted(k) /\ k \in Comparable
            THEN /\ entries[k] = "create" <=> aws[k] = "absent"
                 /\ entries[k] = "update" <=> aws[k] = "drifted"
                 /\ entries[k] # "none"
            ELSE entries[k] \in {"skipped", "unsupported"}

\* Whatever went wrong before, a user who keeps applying, and destroys nothing,
\* after the faults have stopped ends with everything in place and steady.
Recovers ==
    /\ <>[][~ Fault /\ \A ts \in TargetSets : ~ Start("destroy", ts)]_vars
    /\ []<><<Start("apply", {})>>_vars
    => <>[](\A k \in Keys : aws[k] = "matching" /\ k \in settled)
============================================================================
