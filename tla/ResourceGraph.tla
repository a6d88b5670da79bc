--------------------------- MODULE ResourceGraph ---------------------------
(***************************************************************************)
(* The resource graph of config/dag.go, built by buildGraph                *)
(* (config/internal_config.go) and ordered by toposort.                    *)
(*                                                                         *)
(* buildGraph reads the declared resources one after the other.  Each is   *)
(* validated; a valid one becomes a vertex unless its key is taken.  Every *)
(* error is collected, and any error stops the build before an edge        *)
(* exists.  The edges are then added from the dependencies map, whose keys *)
(* Go iterates in any order, and toposort runs Kahn's algorithm over       *)
(* vertices it also visits in any order.                                   *)
(***************************************************************************)
EXTENDS Integers, Sequences, FiniteSets, Functions

CONSTANTS Keys,      \* resource keys, provider::name
          Specs      \* the specs a user may write: sequences of Declarations

\* One declared resource: its key, what Dependencies() returns for it, and
\* whether its tags and attributes pass validation.
Declarations == [key : Keys, deps : Seq(Keys), valid : BOOLEAN]

ASSUME KeysFinite == IsFiniteSet(Keys)
ASSUME SpecsType  == Specs \subseteq Seq(Declarations)

VARIABLES
    spec,         \* the declared resources, in the order buildGraph reads them
    pc,           \* the phase of the build
    read,         \* how many declarations have been read
    errors,       \* validationErrs # nil
    vertices,     \* the keys of Graph.vertices
    dependencies, \* Graph.depdendencies
    wired,        \* how many of a key's dependencies have become edges
    adjacent,     \* Vertex.adjacentVertices
    inDegree,     \* Vertex.inDegree
    leaves,       \* toposort's queue of vertices with no edge left to wait for
    degrees,      \* toposort's working copy of the in-degrees
    sorted,       \* toposort's result so far
    relaxed       \* how many edges out of the last sorted vertex are done

declared == <<spec, read, errors, vertices, dependencies>>
edges    == <<wired, adjacent, inDegree>>
kahn     == <<leaves, degrees, sorted, relaxed>>
vars     == <<pc, declared, edges, kahn>>

Phases == {"reading", "wiring", "sorting", "ready",
           "invalid", "dangling", "cyclic"}

Init ==
    /\ spec \in Specs
    /\ pc = "reading"
    /\ read = 0
    /\ errors = FALSE
    /\ vertices = {}
    /\ dependencies = [k \in Keys |-> << >>]
    /\ wired = [k \in Keys |-> 0]
    /\ adjacent = [k \in Keys |-> << >>]
    /\ inDegree = [k \in Keys |-> 0]
    /\ leaves = << >>
    /\ degrees = [k \in Keys |-> 0]
    /\ sorted = << >>
    /\ relaxed = 0

-----------------------------------------------------------------------------
(* Reading the spec *)

Reading == pc = "reading" /\ read < Len(spec)
Current == spec[read + 1]

\* The resource fails a tag check or Validate: the error is collected and the
\* resource is left out of the graph.
RejectInvalid ==
    /\ Reading
    /\ ~ Current.valid
    /\ errors' = TRUE
    /\ read' = read + 1
    /\ UNCHANGED <<pc, spec, vertices, dependencies, edges, kahn>>

KeyTaken == Current.key \in vertices

\* AddVertex refuses a key that is taken, whatever the type of its holder.
RejectDuplicate ==
    /\ Reading
    /\ Current.valid
    /\ KeyTaken
    /\ errors' = TRUE
    /\ read' = read + 1
    /\ UNCHANGED <<pc, spec, vertices, dependencies, edges, kahn>>

AddVertex ==
    /\ Reading
    /\ Current.valid
    /\ ~ KeyTaken
    /\ vertices' = vertices \cup {Current.key}
    /\ dependencies' = [dependencies EXCEPT ![Current.key] = Current.deps]
    /\ read' = read + 1
    /\ UNCHANGED <<pc, spec, errors, edges, kahn>>

AllRead == read = Len(spec)

EndReading ==
    /\ pc = "reading"
    /\ AllRead
    /\ pc' = IF errors THEN "invalid" ELSE "wiring"
    /\ UNCHANGED <<declared, edges, kahn>>

-----------------------------------------------------------------------------
(* Adding the edges *)

\* The keys of the dependencies map come in any order, the dependencies of one
\* key in theirs: no key is begun before the one under way is finished.
NextDependency(to) ==
    /\ pc = "wiring"
    /\ to \in vertices
    /\ wired[to] < Len(dependencies[to])
    /\ \A k \in vertices \ {to} : wired[k] \in {0, Len(dependencies[k])}

Counted(from, to) == [inDegree EXCEPT ![to] = @ + 1]

AddEdge(to) ==
    LET from == dependencies[to][wired[to] + 1]
    IN  /\ NextDependency(to)
        /\ from \in vertices
        /\ adjacent' = [adjacent EXCEPT ![from] = Append(@, to)]
        /\ inDegree' = Counted(from, to)
        /\ wired' = [wired EXCEPT ![to] = @ + 1]
        /\ UNCHANGED <<pc, declared, kahn>>

MissingVertex(to) ==
    /\ NextDependency(to)
    /\ dependencies[to][wired[to] + 1] \notin vertices
    /\ pc' = "dangling"
    /\ UNCHANGED <<declared, edges, kahn>>

-----------------------------------------------------------------------------
(* toposort *)

\* Mutant: the working copy starts from zero.
StartDegreesUnset == [k \in Keys |-> 0]

StartDegrees == inDegree

\* The vertices that start with no incoming edge are queued in map order.
StartSort ==
    LET starts == {k \in vertices : inDegree[k] = 0}
    IN  /\ pc = "wiring"
        /\ \A k \in vertices : wired[k] = Len(dependencies[k])
        /\ pc' = "sorting"
        /\ leaves' \in Bijection(1 .. Cardinality(starts), starts)
        /\ degrees' = StartDegrees
        /\ UNCHANGED <<declared, edges, sorted, relaxed>>

\* The edges out of the vertex sorted last are all relaxed.
OutDegree  == IF sorted = << >> THEN 0 ELSE Len(adjacent[sorted[Len(sorted)]])
VertexDone == relaxed = OutDegree

TakeLeaf ==
    /\ pc = "sorting"
    /\ VertexDone
    /\ leaves # << >>
    /\ leaves' = Tail(leaves)
    /\ sorted' = Append(sorted, Head(leaves))
    /\ relaxed' = 0
    /\ UNCHANGED <<pc, declared, edges, degrees>>

\* Mutants: a vertex is queued at its first edge, or never.
QueuedEarly(w) == degrees[w] >= 1
QueuedNever(w) == degrees[w] = 0

LastEdge(w) == degrees[w] = 1

RelaxEdge ==
    LET w == adjacent[sorted[Len(sorted)]][relaxed + 1]
    IN  /\ pc = "sorting"
        /\ ~ VertexDone
        /\ degrees' = [degrees EXCEPT ![w] = @ - 1]
        /\ leaves' = IF LastEdge(w) THEN Append(leaves, w) ELSE leaves
        /\ relaxed' = relaxed + 1
        /\ UNCHANGED <<pc, declared, edges, sorted>>

FinishSort ==
    /\ pc = "sorting"
    /\ VertexDone
    /\ leaves = << >>
    /\ pc' = IF Len(sorted) = Cardinality(vertices) THEN "ready" ELSE "cyclic"
    /\ UNCHANGED <<declared, edges, kahn>>

Read == RejectInvalid \/ RejectDuplicate \/ AddVertex \/ EndReading
Wire == \E to \in Keys : AddEdge(to) \/ MissingVertex(to)
Sort == StartSort \/ TakeLeaf \/ RelaxEdge \/ FinishSort

Next == Read \/ Wire \/ Sort

Spec == Init /\ [][Next]_vars

\* One goroutine runs the build without waiting for anything.
FairSpec == Spec /\ WF_vars(Next)

-----------------------------------------------------------------------------
(* Properties *)

\* The edges of the graph as positions in the adjacency lists: a dependency
\* listed twice is two edges.
GraphEdges == UNION {{v} \X DOMAIN adjacent[v] : v \in Keys}
InEdges(w) == {e \in GraphEdges : adjacent[e[1]][e[2]] = w}

\* The edges toposort has counted off: those out of a sorted vertex, and of
\* the last one only those before the cursor.
Relaxed(e) ==
    \E j \in DOMAIN sorted :
        /\ sorted[j] = e[1]
        /\ j = Len(sorted) => e[2] <= relaxed

Waiting(w) == {e \in InEdges(w) : ~ Relaxed(e)}

\* Kahn's working in-degree of a vertex is the number of its edges not yet
\* counted off: it neither goes below zero nor reaches it early, also when a
\* dependency is listed twice.
DegreesCountWaiting ==
    pc \in {"sorting", "ready", "cyclic"} =>
        \A w \in Keys : degrees[w] = Cardinality(Waiting(w))

\* A vertex is sorted only after every dependency its declaration lists, and
\* once: Apply walks this list forwards and Destroy backwards.
SortedAfterDependencies ==
    /\ IsInjective(sorted)
    /\ \A j \in DOMAIN sorted : \A d \in Range(dependencies[sorted[j]]) :
           \E i \in 1 .. j - 1 : sorted[i] = d

\* A spec that builds loses nothing: every declared resource, and nothing
\* else, is in the order, each under a key of its own, and every dependency it
\* names is declared.  Two resources with one key never merge silently.
ReadyIsComplete ==
    pc = "ready" =>
        /\ Range(sorted) = {spec[i].key : i \in DOMAIN spec}
        /\ \A i, j \in DOMAIN spec : spec[i].key = spec[j].key => i = j
        /\ \A i \in DOMAIN spec : Range(spec[i].deps) \subseteq Range(sorted)

\* Both: what Apply and Destroy rely on when they walk the order.
OrderIsSound == SortedAfterDependencies /\ ReadyIsComplete

\* Whether a spec builds depends on the spec alone, not on Go's map order: an
\* acyclic, closed, duplicate-free spec is never refused.
Acyclic ==
    \A C \in SUBSET {spec[i].key : i \in DOMAIN spec} :
        C # {} => \E i \in DOMAIN spec :
                      spec[i].key \in C /\ Range(spec[i].deps) \cap C = {}
Buildable ==
    /\ \A i \in DOMAIN spec : spec[i].valid
    /\ \A i, j \in DOMAIN spec : spec[i].key = spec[j].key => i = j
    /\ \A i \in DOMAIN spec :
           Range(spec[i].deps) \subseteq {spec[j].key : j \in DOMAIN spec}
    /\ Acyclic
BuildableIsBuilt == Buildable => <>(pc = "ready")
============================================================================
