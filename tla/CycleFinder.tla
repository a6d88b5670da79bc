---------------------------- MODULE CycleFinder ----------------------------
(***************************************************************************)
(* Graph.Cycle of config/dag.go, which `buildit validate` runs on the      *)
(* graph that ResourceGraph has built, to name a dependency cycle where    *)
(* toposort failed: a depth-first search with an explicit path             *)
(* (config/stack.go).  A vertex the search leaves without a cycle turns    *)
(* white again, not black; only the root of a finished search is black.    *)
(***************************************************************************)
EXTENDS ResourceGraph

VARIABLES
    search,  \* "idle", "scanning", "visiting", "found" or "nil"
    colours, \* white: unvisited; grey: on the path; black: finished root
    path,    \* the stack of vertices
    cursors, \* how many neighbours each vertex of the path has dealt with
    cycle    \* the answer

finder  == <<search, colours, path, cursors, cycle>>
allVars == <<vars, finder>>

CycleInit ==
    /\ Init
    /\ search = "idle"
    /\ colours = [k \in Keys |-> "white"]
    /\ path = << >>
    /\ cursors = << >>
    /\ cycle = << >>

\* The graph is built and toposort has run: nil is the answer if it found an order.
TrySort ==
    /\ search = "idle"
    /\ pc \in {"ready", "cyclic"}
    /\ search' = IF pc = "ready" THEN "nil" ELSE "scanning"
    /\ UNCHANGED <<vars, colours, path, cursors, cycle>>

\* Mutant: the search of a vertex begins at its second neighbour.
FirstCursorLate == 1

FirstCursor == 0

\* The next root: map order, white ones only.
StartRoot(v) ==
    /\ search = "scanning"
    /\ v \in vertices
    /\ colours[v] = "white"
    /\ search' = "visiting"
    /\ colours' = [colours EXCEPT ![v] = "grey"]
    /\ path' = <<v>>
    /\ cursors' = <<FirstCursor>>
    /\ UNCHANGED <<vars, cycle>>

-----------------------------------------------------------------------------
(* visitVertex *)

Popped(s)  == SubSeq(s, 1, Len(s) - 1)
Depth      == Len(path)
Top        == path[Depth]
HasNext    == search = "visiting" /\ cursors[Depth] < Len(adjacent[Top])
Neighbour  == adjacent[Top][cursors[Depth] + 1]
Advanced   == [cursors EXCEPT ![Depth] = @ + 1]

\* Mutant: the whole path, from the root on, is taken for the cycle.
FindCycleFromRoot(n) ==
    <<n>> \o [i \in 1 .. Depth - 1 |-> path[Depth + 1 - i]] \o <<n>>

\* stack.FindCycle: n, then the path popped down to n, then n again.
FindCycle(n) ==
    LET at == CHOOSE i \in 1 .. Depth : path[i] = n
    IN  <<n>> \o [i \in 1 .. Depth - at |-> path[Depth + 1 - i]] \o <<n>>

CloseCycle ==
    /\ HasNext
    /\ colours[Neighbour] = "grey"
    /\ cycle' = FindCycle(Neighbour)
    /\ search' = "found"
    /\ UNCHANGED <<vars, colours, path, cursors>>

Descend ==
    /\ HasNext
    /\ colours[Neighbour] = "white"
    /\ path' = Append(path, Neighbour)
    /\ cursors' = Append(Advanced, FirstCursor)
    /\ colours' = [colours EXCEPT ![Neighbour] = "grey"]
    /\ UNCHANGED <<vars, search, cycle>>

PassFinished ==
    /\ HasNext
    /\ colours[Neighbour] = "black"
    /\ cursors' = Advanced
    /\ UNCHANGED <<vars, search, colours, path, cycle>>

Backtrack ==
    /\ search = "visiting"
    /\ ~ HasNext
    /\ Depth > 1
    /\ colours' = [colours EXCEPT ![Top] = "white"]
    /\ path' = Popped(path)
    /\ cursors' = Popped(cursors)
    /\ UNCHANGED <<vars, search, cycle>>

FinishRoot ==
    /\ search = "visiting"
    /\ ~ HasNext
    /\ Depth = 1
    /\ colours' = [colours EXCEPT ![Top] = "black"]
    /\ path' = << >>
    /\ cursors' = << >>
    /\ search' = "scanning"
    /\ UNCHANGED <<vars, cycle>>

Visit == CloseCycle \/ Descend \/ PassFinished \/ Backtrack \/ FinishRoot
Search == TrySort \/ (\E v \in vertices : StartRoot(v)) \/ Visit

CycleNext == (Next /\ UNCHANGED finder) \/ Search

CycleSpec == CycleInit /\ [][CycleNext]_allVars /\ WF_allVars(CycleNext)

-----------------------------------------------------------------------------
(* Properties *)

\* The reported list is a cycle of the declarations: it ends where it begins, each
\* member depends on the next, and none but the first comes twice.
ReportedCycleIsReal ==
    search = "found" =>
        /\ Len(cycle) >= 2
        /\ cycle[1] = cycle[Len(cycle)]
        /\ \A i \in 1 .. Len(cycle) - 1 : cycle[i + 1] \in Range(dependencies[cycle[i]])
        /\ \A i, j \in 1 .. Len(cycle) - 1 : cycle[i] = cycle[j] => i = j

\* Where toposort fails the search always finds a cycle to name, although it visits
\* a vertex once for each path to it and forgets those it has left: the nil at the
\* end of Cycle is never returned.
CycleIsFound == (pc = "cyclic") ~> (search = "found")
============================================================================
