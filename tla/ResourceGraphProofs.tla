------------------------ MODULE ResourceGraphProofs ------------------------
(***************************************************************************)
(* Theorems about ResourceGraph and CycleFinder for any set of keys and    *)
(* any specs: whatever the declarations name, and in whatever order Go     *)
(* iterates the maps.                                                      *)
(***************************************************************************)
EXTENDS CycleFinder, TopologicalOrder, FiniteSetTheorems, TLAPS

\* Shapes of the variables: what has been read, and the graph made of it.
SpecTypeOK ==
    /\ spec \in Seq(Declarations)
    /\ pc \in Phases
    /\ read \in 0 .. Len(spec)
    /\ errors \in BOOLEAN
    /\ vertices \subseteq Keys

EdgesTypeOK ==
    /\ dependencies \in [Keys -> Seq(Keys)]
    /\ wired \in [Keys -> Nat]
    /\ adjacent \in [Keys -> Seq(Keys)]
    /\ inDegree \in [Keys -> Nat]
    /\ leaves \in Seq(Keys)
    /\ degrees \in [Keys -> Int]
    /\ sorted \in Seq(Keys)
    /\ relaxed \in Nat

GraphTypeOK == SpecTypeOK /\ EdgesTypeOK

\* Where toposort stands: its cursor is inside the list of the vertex it sorted
\* last, and before it starts there is none.
SortStarted == pc \in {"sorting", "ready", "cyclic"}
CursorOK    ==
    /\ \A k \in Keys : wired[k] <= Len(dependencies[k])
    /\ relaxed <= OutDegree
    /\ ~ SortStarted => leaves = << >> /\ sorted = << >> /\ relaxed = 0
    /\ pc \in {"ready", "cyclic"} => VertexDone /\ leaves = << >>
    /\ pc = "reading" => \A k \in Keys : wired[k] = 0 /\ adjacent[k] = << >> /\ inDegree[k] = 0

ShapeOK == GraphTypeOK /\ CursorOK

LEMMA InitShape == Init => ShapeOK
<1> SUFFICES ASSUME Init
             PROVE  ShapeOK
  OBVIOUS
<1>1. spec \in Seq(Declarations) /\ read \in 0 .. Len(spec)
  BY SpecsType DEF Init
<1>2. SpecTypeOK
  BY <1>1 DEF Init, SpecTypeOK, Phases
<1>3. EdgesTypeOK
  BY DEF Init, EdgesTypeOK
<1>4. CursorOK
  BY <1>3 DEF Init, EdgesTypeOK, CursorOK, SortStarted, OutDegree, VertexDone
<1> QED
  BY <1>2, <1>3, <1>4 DEF ShapeOK, GraphTypeOK

\* The queue toposort starts with holds vertices, each once.
LEMMA StartsListed ==
  ASSUME SpecTypeOK, NEW s \in Bijection(1 .. Cardinality(
             {k \in vertices : inDegree[k] = 0}), {k \in vertices : inDegree[k] = 0})
  PROVE  /\ s \in Seq(Keys)
         /\ IsInjective(s)
         /\ Range(s) = {k \in vertices : inDegree[k] = 0}
<1> DEFINE starts == {k \in vertices : inDegree[k] = 0}
<1>1. IsFiniteSet(starts) /\ Cardinality(starts) \in Nat
  BY KeysFinite, FS_Subset, FS_CardinalityType DEF SpecTypeOK
<1>2. s \in [1 .. Cardinality(starts) -> starts] /\ starts \subseteq Keys
  BY DEF Bijection, Injection, SpecTypeOK
<1>3. s \in Seq(Keys)
  <2>1. s \in [1 .. Cardinality(starts) -> Keys]
    BY <1>2
  <2> HIDE DEF starts
  <2> QED
    BY <1>1, <2>1
<1>4. \A y \in starts : \E x \in DOMAIN s : s[x] = y
  BY <1>2 DEF Bijection, Surjection
<1>5. IsInjective(s)
  BY <1>2 DEF Bijection, Injection, IsInjective
<1>6. Range(s) = starts
  BY <1>2, <1>4 DEF Range
<1> QED
  BY <1>3, <1>5, <1>6

\* While the last vertex has an edge left, the cursor is before it.
LEMMA NextRelaxed ==
  ASSUME ShapeOK, ~ VertexDone
  PROVE  LET last == sorted[Len(sorted)]
         IN  /\ sorted # << >> /\ last \in Keys
             /\ OutDegree = Len(adjacent[last])
             /\ relaxed + 1 \in DOMAIN adjacent[last]
             /\ adjacent[last][relaxed + 1] \in Keys
<1>1. sorted # << >>
  BY DEF ShapeOK, GraphTypeOK, EdgesTypeOK, CursorOK, VertexDone, OutDegree
<1> DEFINE last == sorted[Len(sorted)]
<1>2. last \in Keys
  BY <1>1 DEF ShapeOK, GraphTypeOK, EdgesTypeOK
<1>3. OutDegree = Len(adjacent[last]) /\ adjacent[last] \in Seq(Keys)
  BY <1>1, <1>2 DEF OutDegree, ShapeOK, GraphTypeOK, EdgesTypeOK
<1>4. relaxed + 1 \in 1 .. Len(adjacent[last])
  BY <1>3 DEF ShapeOK, GraphTypeOK, EdgesTypeOK, CursorOK, VertexDone
<1> HIDE DEF last
<1>5. adjacent[last][relaxed + 1] \in Keys /\ relaxed + 1 \in DOMAIN adjacent[last]
  BY <1>3, <1>4
<1> QED
  BY <1>1, <1>2, <1>3, <1>5 DEF last

LEMMA CurrentDeclared ==
  ASSUME SpecTypeOK, Reading
  PROVE  /\ read + 1 \in DOMAIN spec
         /\ Current.key \in Keys /\ Current.deps \in Seq(Keys) /\ Current.valid \in BOOLEAN
<1>1. read + 1 \in 1 .. Len(spec)
  BY DEF SpecTypeOK, Reading
<1>2. Current \in Declarations
  BY <1>1 DEF SpecTypeOK, Current
<1> QED
  BY <1>1, <1>2 DEF Declarations, SpecTypeOK

LEMMA NextSpecTypeOK ==
  ASSUME SpecTypeOK, [Next]_vars
  PROVE  SpecTypeOK'
<1> USE DEF SpecTypeOK
<1>1. CASE RejectInvalid \/ RejectDuplicate
  <2>1. /\ errors' = TRUE /\ read < Len(spec) /\ read' = read + 1
        /\ UNCHANGED <<pc, spec, vertices>>
    BY <1>1 DEF RejectInvalid, RejectDuplicate, Reading
  <2> QED
    BY <2>1
<1>2. CASE AddVertex
  <2>1. Current.key \in Keys
    BY <1>2, CurrentDeclared DEF AddVertex
  <2> QED
    BY <1>2, <2>1 DEF AddVertex, Reading
<1>3. CASE EndReading \/ StartSort \/ FinishSort
  BY <1>3 DEF EndReading, StartSort, FinishSort, declared, Phases
<1>4. ASSUME NEW to \in Keys, AddEdge(to) \/ MissingVertex(to)
      PROVE  SpecTypeOK'
  BY <1>4 DEF AddEdge, MissingVertex, declared, Phases
<1>5. CASE TakeLeaf \/ RelaxEdge
  BY <1>5 DEF TakeLeaf, RelaxEdge, declared
<1>6. CASE UNCHANGED vars
  BY <1>6 DEF vars, declared
<1> QED
  BY <1>1, <1>2, <1>3, <1>4, <1>5, <1>6 DEF Next, Read, Wire, Sort

LEMMA NextEdgesTypeOK ==
  ASSUME ShapeOK, [Next]_vars
  PROVE  EdgesTypeOK'
<1> SpecTypeOK /\ EdgesTypeOK
  BY DEF ShapeOK, GraphTypeOK
<1> USE DEF EdgesTypeOK
<1>1. CASE RejectInvalid \/ RejectDuplicate \/ EndReading \/ FinishSort
  BY <1>1 DEF RejectInvalid, RejectDuplicate, EndReading, FinishSort, declared, edges, kahn
<1>2. CASE AddVertex
  <2>1. Current.key \in Keys /\ Current.deps \in Seq(Keys)
    BY <1>2, CurrentDeclared DEF AddVertex
  <2> QED
    BY <1>2, <2>1 DEF AddVertex, edges, kahn
<1>4. ASSUME NEW to \in Keys, AddEdge(to)
      PROVE  EdgesTypeOK'
  <2> DEFINE from == dependencies[to][wired[to] + 1]
  <2>1. from \in Keys /\ adjacent' = [adjacent EXCEPT ![from] = Append(@, to)]
    BY <1>4 DEF AddEdge, SpecTypeOK
  <2> HIDE DEF from
  <2>2. UNCHANGED <<dependencies, kahn>>
    BY <1>4 DEF AddEdge, declared
  <2>3. wired' = [wired EXCEPT ![to] = @ + 1] /\ inDegree' = [inDegree EXCEPT ![to] = @ + 1]
    BY <1>4 DEF AddEdge, Counted
  <2>4. adjacent' \in [Keys -> Seq(Keys)]
    BY <2>1
  <2>5. wired' \in [Keys -> Nat] /\ inDegree' \in [Keys -> Nat]
    BY <2>3
  <2> QED
    BY <2>2, <2>4, <2>5 DEF kahn
<1>5. ASSUME NEW to \in Keys, MissingVertex(to)
      PROVE  EdgesTypeOK'
  BY <1>5 DEF MissingVertex, declared, edges, kahn
<1>6. CASE StartSort
  <2>1. leaves' \in Seq(Keys)
    BY <1>6, StartsListed DEF StartSort
  <2> QED
    BY <1>6, <2>1 DEF StartSort, StartDegrees, declared, edges
<1>7. CASE TakeLeaf
  <2>1. Head(leaves) \in Keys /\ Tail(leaves) \in Seq(Keys)
    BY <1>7 DEF TakeLeaf
  <2> QED
    BY <1>7, <2>1, SMTT(20) DEF TakeLeaf, declared, edges
<1>8. CASE RelaxEdge
  <2> DEFINE w == adjacent[sorted[Len(sorted)]][relaxed + 1]
  <2>1. w \in Keys
    BY <1>8, NextRelaxed DEF RelaxEdge
  <2>2. degrees' = [degrees EXCEPT ![w] = @ - 1] /\ leaves' \in {leaves, Append(leaves, w)}
    BY <1>8 DEF RelaxEdge
  <2>3. relaxed' = relaxed + 1 /\ UNCHANGED <<dependencies, edges, sorted>>
    BY <1>8 DEF RelaxEdge, declared
  <2> HIDE DEF w
  <2>4. leaves' \in Seq(Keys)
    <3>1. leaves \in Seq(Keys) /\ Append(leaves, w) \in Seq(Keys)
      BY <2>1
    <3> QED
      BY <3>1, <2>2
  <2>5. degrees' \in [Keys -> Int]
    BY <2>1, <2>2
  <2> QED
    BY <2>3, <2>4, <2>5 DEF edges
<1>9. CASE UNCHANGED vars
  BY <1>9 DEF vars, declared, edges, kahn
<1> QED
  BY <1>1, <1>2, <1>4, <1>5, <1>6, <1>7, <1>8, <1>9 DEF Next, Read, Wire, Sort

LEMMA NextShape ==
  ASSUME ShapeOK, [Next]_vars
  PROVE  ShapeOK'
<1> SpecTypeOK /\ EdgesTypeOK /\ CursorOK
  BY DEF ShapeOK, GraphTypeOK
<1> SpecTypeOK' /\ EdgesTypeOK'
  BY NextSpecTypeOK, NextEdgesTypeOK
<1> SUFFICES CursorOK'
  BY DEF ShapeOK, GraphTypeOK
<1> USE DEF SortStarted, VertexDone
<1>1. CASE RejectInvalid \/ RejectDuplicate
  <2>1. UNCHANGED <<pc, dependencies, edges, kahn>>
    BY <1>1 DEF RejectInvalid, RejectDuplicate
  <2> QED
    BY <2>1 DEF CursorOK, OutDegree, edges, kahn
<1>2. CASE AddVertex
  <2>1. UNCHANGED <<edges, kahn>> /\ pc = "reading" /\ pc' = pc
    BY <1>2 DEF AddVertex, Reading
  <2>2. \A k \in Keys : wired'[k] = 0 /\ adjacent'[k] = << >> /\ inDegree'[k] = 0
    BY <2>1 DEF CursorOK, edges
  <2>3. \A k \in Keys : dependencies'[k] \in Seq(Keys)
    BY DEF EdgesTypeOK
  <2>4. \A k \in Keys : Len(dependencies'[k]) \in Nat
    BY <2>3
  <2>5. leaves' = << >> /\ sorted' = << >> /\ relaxed' = 0
    BY <2>1 DEF CursorOK, kahn
  <2> QED
    BY <2>1, <2>2, <2>4, <2>5 DEF CursorOK, OutDegree
<1>3. CASE EndReading \/ FinishSort
  <2>1. UNCHANGED <<dependencies, edges, kahn>>
    BY <1>3 DEF EndReading, FinishSort, declared
  <2>2. OutDegree' = OutDegree
    BY <2>1 DEF OutDegree, edges, kahn
  <2> QED
    BY <1>3, <2>1, <2>2 DEF EndReading, FinishSort, CursorOK, edges, kahn
<1>4. ASSUME NEW to \in Keys, AddEdge(to)
      PROVE  CursorOK'
  <2>1. /\ pc = "wiring" /\ wired[to] < Len(dependencies[to])
        /\ wired' = [wired EXCEPT ![to] = @ + 1]
        /\ UNCHANGED <<pc, dependencies, kahn>>
    BY <1>4 DEF AddEdge, NextDependency, declared
  <2>2. \A k \in Keys : wired'[k] <= Len(dependencies'[k])
    BY <2>1 DEF CursorOK, EdgesTypeOK
  <2> QED
    BY <2>1, <2>2 DEF CursorOK, OutDegree, kahn
<1>5. ASSUME NEW to \in Keys, MissingVertex(to)
      PROVE  CursorOK'
  BY <1>5 DEF MissingVertex, NextDependency, declared, edges, kahn, CursorOK, OutDegree
<1>6. CASE StartSort
  BY <1>6 DEF StartSort, declared, edges, CursorOK, OutDegree
<1>7. CASE TakeLeaf
  <2>1. sorted' # << >> /\ relaxed' = 0 /\ pc' = "sorting" /\ UNCHANGED <<wired, dependencies>>
    BY <1>7, SMTT(20) DEF TakeLeaf, declared, edges, EdgesTypeOK
  <2>2. sorted'[Len(sorted')] \in Keys
    BY <2>1 DEF EdgesTypeOK
  <2>3. OutDegree' \in Nat
    <3>1. adjacent'[sorted'[Len(sorted')]] \in Seq(Keys)
      BY <2>2 DEF EdgesTypeOK
    <3> QED
      BY <3>1, <2>1 DEF OutDegree
  <2> QED
    BY <2>1, <2>3 DEF CursorOK
<1>8. CASE RelaxEdge
  <2>1. relaxed + 1 <= OutDegree
    BY <1>8, NextRelaxed DEF RelaxEdge, ShapeOK
  <2>2. OutDegree' = OutDegree
    BY <1>8 DEF RelaxEdge, OutDegree, edges
  <2> QED
    BY <1>8, <2>1, <2>2 DEF RelaxEdge, declared, edges, CursorOK
<1>9. CASE UNCHANGED vars
  BY <1>9 DEF vars, declared, edges, kahn, CursorOK, OutDegree
<1> QED
  BY <1>1, <1>2, <1>3, <1>4, <1>5, <1>6, <1>7, <1>8, <1>9 DEF Next, Read, Wire, Sort

-----------------------------------------------------------------------------
(* What has been read *)

\* Without an error the vertices are the declarations read so far, each under a
\* key of its own; an error is an invalid declaration or a key that comes twice.
ReadSoFar ==
    /\ \A k \in vertices : \E j \in 1 .. read : spec[j].key = k
    /\ ~ errors =>
           /\ \A i \in 1 .. read : spec[i].key \in vertices
           /\ \A i, j \in 1 .. read : spec[i].key = spec[j].key => i = j
           /\ \A i \in 1 .. read : dependencies[spec[i].key] = spec[i].deps
    /\ errors => \E i \in 1 .. read :
           ~ spec[i].valid \/ \E j \in 1 .. read : j # i /\ spec[j].key = spec[i].key
    /\ pc \notin {"reading", "invalid"} => read = Len(spec) /\ ~ errors
    /\ pc = "invalid" => errors

\* A step that reads nothing and leaves the phase, or goes on to a later one.
LEMMA ReadUntouched ==
  ASSUME ReadSoFar, UNCHANGED declared,
         \/ pc' = pc
         \/ pc \notin {"reading", "invalid"} /\ pc' \notin {"reading", "invalid"}
  PROVE  ReadSoFar'
BY DEF ReadSoFar, declared

LEMMA NextRead ==
  ASSUME ShapeOK, ReadSoFar, [Next]_vars
  PROVE  ReadSoFar'
<1> SpecTypeOK /\ EdgesTypeOK
  BY DEF ShapeOK, GraphTypeOK
<1>1. CASE RejectInvalid
  <2>1. read \in Nat /\ read + 1 \in 1 .. read'
    BY <1>1 DEF RejectInvalid, SpecTypeOK
  <2> QED
    BY <1>1, <2>1 DEF RejectInvalid, Reading, Current, ReadSoFar
<1>2. CASE RejectDuplicate
  <2>1. read \in Nat /\ read' = read + 1 /\ errors' /\ pc = "reading"
        /\ UNCHANGED <<pc, spec, vertices, dependencies>>
    BY <1>2 DEF RejectDuplicate, Reading, SpecTypeOK
  <2>2. PICK j \in 1 .. read : spec[j].key = spec[read + 1].key
    BY <1>2 DEF RejectDuplicate, KeyTaken, Current, ReadSoFar
  <2>3. j \in 1 .. read' /\ read + 1 \in 1 .. read' /\ j # read + 1
    BY <2>1
  <2>4. \A k \in vertices' : \E i \in 1 .. read' : spec'[i].key = k
    BY <2>1 DEF ReadSoFar
  <2> QED
    BY <2>1, <2>2, <2>3, <2>4 DEF ReadSoFar
<1>3. CASE AddVertex
  <2> DEFINE k == spec[read + 1].key
  <2>1. /\ read \in Nat /\ read' = read + 1 /\ pc = "reading" /\ k \in Keys
        /\ UNCHANGED <<pc, spec, errors>>
    BY <1>3, CurrentDeclared DEF AddVertex, Reading, Current, SpecTypeOK
  <2>2. /\ k \notin vertices /\ vertices' = vertices \cup {k}
        /\ dependencies' = [dependencies EXCEPT ![k] = spec[read + 1].deps]
    BY <1>3 DEF AddVertex, KeyTaken, Current
  <2>3. \A i \in 1 .. read' : i \in 1 .. read \/ i = read + 1
    BY <2>1
  <2>4. 1 .. read \subseteq 1 .. read' /\ read + 1 \in 1 .. read'
    BY <2>1
  <2>5. \A v \in vertices' : \E j \in 1 .. read' : spec'[j].key = v
    BY <2>1, <2>2, <2>4 DEF ReadSoFar
  <2>6. ASSUME ~ errors
        PROVE  /\ \A i \in 1 .. read' : spec'[i].key \in vertices'
               /\ \A i, j \in 1 .. read' : spec'[i].key = spec'[j].key => i = j
               /\ \A i \in 1 .. read' : dependencies'[spec'[i].key] = spec'[i].deps
    <3>1. \A i \in 1 .. read : spec[i].key \in vertices /\ spec[i].key # k
                              /\ spec[i].key \in Keys
      BY <2>2, <2>6 DEF ReadSoFar, SpecTypeOK
    <3>2. /\ \A i, j \in 1 .. read : spec[i].key = spec[j].key => i = j
          /\ \A i \in 1 .. read : dependencies[spec[i].key] = spec[i].deps
      BY <2>6 DEF ReadSoFar
    <3>3. dependencies'[k] = spec[read + 1].deps
          /\ \A v \in Keys : v # k => dependencies'[v] = dependencies[v]
      BY <2>1, <2>2 DEF EdgesTypeOK
    <3>4. \A i \in 1 .. read' : spec'[i].key \in vertices'
      BY <2>1, <2>2, <2>3, <3>1
    <3>5. \A i, j \in 1 .. read' : spec'[i].key = spec'[j].key => i = j
      BY <2>1, <2>3, <3>1, <3>2
    <3>6. \A i \in 1 .. read' : dependencies'[spec'[i].key] = spec'[i].deps
      BY <2>1, <2>3, <3>1, <3>2, <3>3
    <3> QED
      BY <3>4, <3>5, <3>6
  <2>7. errors => \E i \in 1 .. read' : ~ spec'[i].valid
                      \/ \E j \in 1 .. read' : j # i /\ spec'[j].key = spec'[i].key
    BY <2>1, <2>4 DEF ReadSoFar
  <2> QED
    BY <2>1, <2>5, <2>6, <2>7 DEF ReadSoFar
<1>4. CASE EndReading
  BY <1>4 DEF EndReading, AllRead, declared, ReadSoFar
<1>5. ASSUME NEW to \in Keys, AddEdge(to) \/ MissingVertex(to)
      PROVE  ReadSoFar'
  BY <1>5, ReadUntouched DEF AddEdge, MissingVertex, NextDependency
<1>6. CASE Sort
  BY <1>6, ReadUntouched DEF Sort, StartSort, TakeLeaf, RelaxEdge, FinishSort
<1>7. CASE UNCHANGED vars
  BY <1>7, ReadUntouched DEF vars
<1> QED
  BY <1>1, <1>2, <1>3, <1>4, <1>5, <1>6, <1>7 DEF Next, Read, Wire

-----------------------------------------------------------------------------
(* The edges *)

Adjacency == [Keys -> Seq(Keys)]

\* The edges into w, of any adjacency lists.
EdgesInto(adj, w) ==
    {e \in UNION {{v} \X DOMAIN adj[v] : v \in Keys} : adj[e[1]][e[2]] = w}

LEMMA EdgeFacts ==
  ASSUME NEW adj \in Adjacency, NEW w, NEW e
  PROVE  e \in EdgesInto(adj, w) <=>
             \E v \in Keys : \E i \in 1 .. Len(adj[v]) : e = <<v, i>> /\ adj[v][i] = w
<1>1. ASSUME e \in EdgesInto(adj, w)
      PROVE  \E v \in Keys : \E i \in 1 .. Len(adj[v]) : e = <<v, i>> /\ adj[v][i] = w
  <2>1. PICK v \in Keys : e \in {v} \X DOMAIN adj[v]
    BY <1>1 DEF EdgesInto
  <2>2. e = <<v, e[2]>> /\ e[2] \in 1 .. Len(adj[v])
    BY <2>1 DEF Adjacency
  <2>3. adj[e[1]][e[2]] = w
    BY <1>1 DEF EdgesInto
  <2> QED
    BY <2>2, <2>3
<1>2. ASSUME NEW v \in Keys, NEW i \in 1 .. Len(adj[v]), e = <<v, i>>, adj[v][i] = w
      PROVE  e \in EdgesInto(adj, w)
  <2>1. e \in {v} \X DOMAIN adj[v] /\ e[1] = v /\ e[2] = i
    BY <1>2 DEF Adjacency
  <2> QED
    BY <1>2, <2>1 DEF EdgesInto
<1> QED
  BY <1>1, <1>2

\* One more edge, from the end of one adjacency list.
LEMMA OneMoreEdge ==
  ASSUME NEW adj \in Adjacency, NEW from \in Keys, NEW to \in Keys,
         NEW new \in Adjacency, new[from] = Append(adj[from], to),
         \A v \in Keys \ {from} : new[v] = adj[v],
         NEW e, e = <<from, Len(adj[from]) + 1>>
  PROVE  /\ EdgesInto(new, to) = EdgesInto(adj, to) \cup {e}
         /\ e \notin EdgesInto(adj, to)
         /\ \A w \in Keys \ {to} : EdgesInto(new, w) = EdgesInto(adj, w)
<1>3. Len(adj[from]) \in Nat /\ Len(new[from]) = Len(adj[from]) + 1
      /\ new[from][Len(adj[from]) + 1] = to
      /\ \A i \in 1 .. Len(adj[from]) : new[from][i] = adj[from][i]
  BY DEF Adjacency
<1>4. ASSUME NEW w, NEW d
      PROVE  d \in EdgesInto(new, w) <=> d \in EdgesInto(adj, w) \/ (d = e /\ w = to)
  <2>1. d \in EdgesInto(new, w) <=>
            \E v \in Keys : \E i \in 1 .. Len(new[v]) : d = <<v, i>> /\ new[v][i] = w
    BY EdgeFacts
  <2>2. d \in EdgesInto(adj, w) <=>
            \E v \in Keys : \E i \in 1 .. Len(adj[v]) : d = <<v, i>> /\ adj[v][i] = w
    BY EdgeFacts
  <2>3. ASSUME NEW v \in Keys, NEW i \in 1 .. Len(new[v]), d = <<v, i>>, new[v][i] = w
        PROVE  d \in EdgesInto(adj, w) \/ (d = e /\ w = to)
    <3>1. CASE v = from /\ i = Len(adj[from]) + 1
      BY <1>3, <2>3, <3>1
    <3>2. CASE v = from /\ i # Len(adj[from]) + 1
      <4>1. i \in 1 .. Len(adj[v]) /\ adj[v][i] = w
        BY <1>3, <2>3, <3>2
      <4> QED
        BY <4>1, <2>2, <2>3
    <3>3. CASE v # from
      <4>1. i \in 1 .. Len(adj[v]) /\ adj[v][i] = w
        BY <2>3, <3>3
      <4> QED
        BY <4>1, <2>2, <2>3
    <3> QED
      BY <3>1, <3>2, <3>3
  <2>4. ASSUME NEW v \in Keys, NEW i \in 1 .. Len(adj[v]), d = <<v, i>>, adj[v][i] = w
        PROVE  d \in EdgesInto(new, w)
    <3>1. CASE v = from
      <4>1. i \in 1 .. Len(adj[from]) /\ new[from][i] = w
        BY <1>3, <2>4, <3>1
      <4>2. i \in 1 .. Len(new[from])
        BY <1>3, <4>1
      <4> QED
        BY <2>1, <2>4, <3>1, <4>1, <4>2
    <3>2. CASE v # from
      <4>1. i \in 1 .. Len(new[v]) /\ new[v][i] = w
        BY <2>4, <3>2
      <4> QED
        BY <2>1, <2>4, <4>1
    <3> QED
      BY <3>1, <3>2
  <2>5. ASSUME d = e, w = to
        PROVE  d \in EdgesInto(new, w)
    <3>1. Len(adj[from]) + 1 \in 1 .. Len(new[from])
      BY <1>3
    <3> QED
      BY <1>3, <2>1, <2>5, <3>1
  <2> QED
    BY <2>1, <2>2, <2>3, <2>4, <2>5
<1>5. e \notin EdgesInto(adj, to)
  <2>1. \A i \in 1 .. Len(adj[from]) : i # Len(adj[from]) + 1
    BY <1>3
  <2> QED
    BY <2>1, EdgeFacts
<1>6. EdgesInto(new, to) = EdgesInto(adj, to) \cup {e}
  BY <1>4
<1>7. ASSUME NEW w \in Keys \ {to}
      PROVE  EdgesInto(new, w) = EdgesInto(adj, w)
  <2>1. \A d : d \in EdgesInto(new, w) <=> d \in EdgesInto(adj, w)
    BY <1>4
  <2> QED
    BY <2>1
<1> QED
  BY <1>5, <1>6, <1>7

LEMMA InEdgesAre == \A w : InEdges(w) = EdgesInto(adjacent, w)
BY DEF InEdges, GraphEdges, EdgesInto

\* Every in-degree is the number of edges; every edge is a dependency that has
\* been wired, between vertices, and every wired dependency has an edge.
WiredOK ==
    /\ \A w \in Keys : /\ IsFiniteSet(EdgesInto(adjacent, w))
                       /\ inDegree[w] = Cardinality(EdgesInto(adjacent, w))
    /\ \A w \in Keys : \A e \in EdgesInto(adjacent, w) :
           /\ w \in vertices /\ e[1] \in vertices
           /\ \E i \in 1 .. wired[w] : dependencies[w][i] = e[1]
    /\ \A w \in Keys : \A i \in 1 .. wired[w] :
           \E e \in EdgesInto(adjacent, w) : e[1] = dependencies[w][i]
    /\ SortStarted => \A w \in vertices : wired[w] = Len(dependencies[w])

LEMMA NoEdgeYet ==
  ASSUME ShapeOK, pc = "reading"
  PROVE  \A w \in Keys : /\ wired[w] = 0 /\ inDegree[w] = 0
                        /\ EdgesInto(adjacent, w) = {}
<1>1. \A k \in Keys : wired[k] = 0 /\ inDegree[k] = 0 /\ adjacent[k] = << >>
  BY DEF ShapeOK, CursorOK
<1>2. adjacent \in Adjacency
  BY DEF ShapeOK, GraphTypeOK, EdgesTypeOK, Adjacency
<1>3. ASSUME NEW w, NEW e \in EdgesInto(adjacent, w)
      PROVE  FALSE
  <2>1. PICK v \in Keys : \E i \in 1 .. Len(adjacent[v]) : TRUE
    BY <1>2, EdgeFacts
  <2> QED
    BY <1>1, <2>1
<1> QED
  BY <1>1, <1>3

LEMMA InitWired == Init => WiredOK
<1> SUFFICES ASSUME Init
             PROVE  WiredOK
  OBVIOUS
<1>1. \A w \in Keys : /\ wired[w] = 0 /\ inDegree[w] = 0
                     /\ EdgesInto(adjacent, w) = {}
  BY InitShape, NoEdgeYet DEF Init
<1>2. ~ SortStarted
  BY DEF Init, SortStarted
<1> QED
  BY <1>1, <1>2, FS_EmptySet DEF WiredOK

LEMMA NextWired ==
  ASSUME ShapeOK, ReadSoFar, WiredOK, [Next]_vars
  PROVE  WiredOK'
<1> SpecTypeOK /\ EdgesTypeOK
  BY DEF ShapeOK, GraphTypeOK
<1>1. CASE pc = "reading" /\ UNCHANGED edges /\ pc' \in {"reading", "invalid", "wiring"}
  <2>1. \A w \in Keys : /\ wired'[w] = 0 /\ inDegree'[w] = 0
                       /\ EdgesInto(adjacent', w) = {}
    BY <1>1, NoEdgeYet DEF edges
  <2>2. ~ SortStarted'
    BY <1>1 DEF SortStarted
  <2>3. \A w \in Keys : /\ IsFiniteSet(EdgesInto(adjacent', w))
                       /\ inDegree'[w] = Cardinality(EdgesInto(adjacent', w))
    BY <2>1, FS_EmptySet
  <2> QED
    BY <2>1, <2>2, <2>3 DEF WiredOK
<1>2. CASE UNCHANGED <<vertices, dependencies, edges>> /\ (SortStarted' => SortStarted)
  <2>1. UNCHANGED <<vertices, dependencies, wired, adjacent, inDegree>>
    BY <1>2 DEF edges
  <2> QED
    BY <1>2, <2>1 DEF WiredOK
<1>3. ASSUME NEW to \in Keys, AddEdge(to)
      PROVE  WiredOK'
  <2> DEFINE from == dependencies[to][wired[to] + 1]
             e    == <<from, Len(adjacent[from]) + 1>>
  <2>1. /\ from \in vertices /\ to \in vertices /\ pc = "wiring" /\ pc' = pc
        /\ wired' = [wired EXCEPT ![to] = @ + 1]
        /\ adjacent' = [adjacent EXCEPT ![from] = Append(@, to)]
        /\ inDegree' = [inDegree EXCEPT ![to] = @ + 1]
        /\ UNCHANGED <<vertices, dependencies>>
    BY <1>3 DEF AddEdge, NextDependency, Counted, declared
  <2>2. from \in Keys /\ adjacent \in Adjacency
    BY <2>1 DEF SpecTypeOK, EdgesTypeOK, Adjacency
  <2>3. /\ EdgesInto(adjacent', to) = EdgesInto(adjacent, to) \cup {e}
        /\ e \notin EdgesInto(adjacent, to)
        /\ \A w \in Keys \ {to} : EdgesInto(adjacent', w) = EdgesInto(adjacent, w)
    <3> HIDE DEF from
    <3>1. /\ adjacent' \in Adjacency /\ adjacent'[from] = Append(adjacent[from], to)
          /\ \A v \in Keys \ {from} : adjacent'[v] = adjacent[v]
      BY <2>1, <2>2 DEF Adjacency
    <3>2. adjacent \in Adjacency /\ from \in Keys /\ e = <<from, Len(adjacent[from]) + 1>>
      BY <2>2
    <3> HIDE DEF e
    <3> QED
      BY <3>1, <3>2, OneMoreEdge
  <2>4. e[1] = from
    OBVIOUS
  <2>5. /\ wired'[to] = wired[to] + 1 /\ inDegree'[to] = inDegree[to] + 1
        /\ wired[to] \in Nat
        /\ \A w \in Keys \ {to} : wired'[w] = wired[w] /\ inDegree'[w] = inDegree[w]
    BY <2>1 DEF EdgesTypeOK
  <2>6. dependencies'[to][wired'[to]] = from
    BY <2>1, <2>5
  <2> HIDE DEF from, e
  <2>7. ASSUME NEW w \in Keys
        PROVE  /\ IsFiniteSet(EdgesInto(adjacent', w))
               /\ inDegree'[w] = Cardinality(EdgesInto(adjacent', w))
    <3>1. CASE w = to
      BY <2>3, <2>5, <3>1, FS_AddElement DEF WiredOK
    <3>2. CASE w # to
      BY <2>3, <2>5, <3>2 DEF WiredOK
    <3> QED
      BY <3>1, <3>2
  <2>8. ASSUME NEW w \in Keys, NEW d \in EdgesInto(adjacent', w)
        PROVE  /\ w \in vertices' /\ d[1] \in vertices'
               /\ \E i \in 1 .. wired'[w] : dependencies'[w][i] = d[1]
    <3>1. CASE d \in EdgesInto(adjacent, w)
      <4>1. PICK i \in 1 .. wired[w] : dependencies[w][i] = d[1]
        BY <3>1 DEF WiredOK
      <4>2. i \in 1 .. wired'[w]
        BY <2>5
      <4> QED
        BY <2>1, <3>1, <4>1, <4>2 DEF WiredOK
    <3>2. CASE w = to /\ d = e
      <4>1. wired'[w] \in 1 .. wired'[w]
        BY <2>5, <3>2
      <4> QED
        BY <2>1, <2>4, <2>6, <3>2, <4>1
    <3> QED
      BY <2>3, <3>1, <3>2
  <2>9. ASSUME NEW w \in Keys, NEW i \in 1 .. wired'[w]
        PROVE  \E d \in EdgesInto(adjacent', w) : d[1] = dependencies'[w][i]
    <3>1. CASE i \in 1 .. wired[w]
      <4>1. PICK d \in EdgesInto(adjacent, w) : d[1] = dependencies[w][i]
        BY <3>1 DEF WiredOK
      <4>2. d \in EdgesInto(adjacent', w)
        BY <2>3
      <4> QED
        BY <2>1, <4>1, <4>2
    <3>2. CASE i \notin 1 .. wired[w]
      <4>1. w = to /\ i = wired'[to]
        BY <2>5, <3>2
      <4> QED
        BY <2>3, <2>4, <2>6, <4>1
    <3> QED
      BY <3>1, <3>2
  <2>10. ~ SortStarted'
    BY <2>1 DEF SortStarted
  <2> QED
    BY <2>7, <2>8, <2>9, <2>10 DEF WiredOK
<1>4. CASE StartSort
  <2>1. UNCHANGED <<vertices, dependencies, wired, adjacent, inDegree>>
    BY <1>4 DEF StartSort, declared, edges
  <2>2. \A w \in vertices : wired[w] = Len(dependencies[w])
    BY <1>4 DEF StartSort
  <2> QED
    BY <2>1, <2>2 DEF WiredOK
<1>5. CASE Read
  BY <1>1, <1>5 DEF Read, RejectInvalid, RejectDuplicate, AddVertex, EndReading, Reading
<1>6. ASSUME NEW to \in Keys, MissingVertex(to)
      PROVE  WiredOK'
  BY <1>2, <1>6 DEF MissingVertex, declared, SortStarted
<1>7. CASE TakeLeaf \/ RelaxEdge \/ FinishSort
  BY <1>2, <1>7 DEF TakeLeaf, RelaxEdge, FinishSort, declared, SortStarted
<1>8. CASE UNCHANGED vars
  BY <1>2, <1>8 DEF vars, declared, SortStarted
<1> QED
  BY <1>3, <1>4, <1>5, <1>6, <1>7, <1>8 DEF Next, Wire, Sort

-----------------------------------------------------------------------------
(* Sequences without repetition *)

LEMMA TailFacts ==
  ASSUME NEW S, NEW s \in Seq(S), s # << >>, IsInjective(s)
  PROVE  /\ Tail(s) \in Seq(S) /\ IsInjective(Tail(s))
         /\ Head(s) \notin Range(Tail(s))
         /\ Range(s) = Range(Tail(s)) \cup {Head(s)}
<1>1. /\ Tail(s) \in Seq(S) /\ DOMAIN Tail(s) = 1 .. Len(s) - 1 /\ Len(s) \in Nat \ {0}
      /\ \A i \in 1 .. Len(s) - 1 : Tail(s)[i] = s[i + 1]
      /\ Head(s) = s[1] /\ DOMAIN s = 1 .. Len(s)
  OBVIOUS
<1>2. \A i \in 1 .. Len(s) - 1 : i + 1 \in 1 .. Len(s) /\ i + 1 # 1
  BY <1>1
<1>3. \A i, j \in 1 .. Len(s) : s[i] = s[j] => i = j
  BY <1>1 DEF IsInjective
<1>4. IsInjective(Tail(s))
  <2> SUFFICES ASSUME NEW i \in 1 .. Len(s) - 1, NEW j \in 1 .. Len(s) - 1,
                      Tail(s)[i] = Tail(s)[j]
               PROVE  i = j
    BY <1>1 DEF IsInjective
  <2>1. i + 1 = j + 1
    BY <1>1, <1>2, <1>3
  <2> QED
    BY <2>1
<1>5. Head(s) \notin Range(Tail(s))
  BY <1>1, <1>2, <1>3 DEF Range
<1>6. Range(Tail(s)) \cup {Head(s)} \subseteq Range(s)
  BY <1>1, <1>2 DEF Range
<1>7. ASSUME NEW i \in 1 .. Len(s)
      PROVE  s[i] \in Range(Tail(s)) \cup {Head(s)}
  <2>1. CASE i = 1
    BY <1>1, <2>1
  <2>2. CASE i # 1
    <3>1. i - 1 \in 1 .. Len(s) - 1 /\ Tail(s)[i - 1] = s[i]
      BY <1>1, <2>2
    <3> QED
      BY <1>1, <3>1 DEF Range
  <2> QED
    BY <2>1, <2>2
<1>8. Range(s) \subseteq Range(Tail(s)) \cup {Head(s)}
  BY <1>1, <1>7 DEF Range
<1> QED
  BY <1>1, <1>4, <1>5, <1>6, <1>8

LEMMA AppendFacts ==
  ASSUME NEW S, NEW s \in Seq(S), NEW x \in S
  PROVE  /\ Range(Append(s, x)) = Range(s) \cup {x}
         /\ (IsInjective(s) /\ x \notin Range(s)) => IsInjective(Append(s, x))
<1>1. /\ DOMAIN Append(s, x) = 1 .. Len(s) + 1 /\ Len(s) \in Nat
      /\ \A i \in 1 .. Len(s) : Append(s, x)[i] = s[i]
      /\ Append(s, x)[Len(s) + 1] = x /\ DOMAIN s = 1 .. Len(s)
  OBVIOUS
<1>2. \A i \in 1 .. Len(s) + 1 : i \in 1 .. Len(s) \/ i = Len(s) + 1
  BY <1>1
<1>3. 1 .. Len(s) \subseteq 1 .. Len(s) + 1 /\ Len(s) + 1 \in 1 .. Len(s) + 1
  BY <1>1
<1>4. Range(s) \subseteq Range(Append(s, x)) /\ x \in Range(Append(s, x))
  BY <1>1, <1>3 DEF Range
<1>5. Range(Append(s, x)) \subseteq Range(s) \cup {x}
  BY <1>1, <1>2 DEF Range
<1>6. ASSUME IsInjective(s), x \notin Range(s)
      PROVE  IsInjective(Append(s, x))
  <2>1. \A i \in 1 .. Len(s) : s[i] # x
    BY <1>1, <1>6 DEF Range
  <2>2. \A i, j \in 1 .. Len(s) : s[i] = s[j] => i = j
    BY <1>1, <1>6 DEF IsInjective
  <2>3. \A i, j \in 1 .. Len(s) + 1 : Append(s, x)[i] = Append(s, x)[j] => i = j
    BY <1>1, <1>2, <2>1, <2>2
  <2> QED
    BY <1>1, <2>3 DEF IsInjective
<1> QED
  BY <1>4, <1>5, <1>6

-----------------------------------------------------------------------------
(* toposort *)

\* Kahn's working in-degrees count the edges that wait, and the vertices that
\* no edge waits for are those queued or sorted, each once.
Reached == Range(leaves) \cup Range(sorted)
KahnOK  ==
    SortStarted =>
        /\ \A w \in Keys : degrees[w] = Cardinality(Waiting(w))
        /\ \A w \in Keys : w \in Reached <=> (w \in vertices /\ degrees[w] = 0)
        /\ IsInjective(leaves) /\ IsInjective(sorted)
        /\ Range(leaves) \cap Range(sorted) = {}

LEMMA WaitingAre ==
  ASSUME ShapeOK, WiredOK, NEW w \in Keys
  PROVE  /\ Waiting(w) = {e \in EdgesInto(adjacent, w) : ~ Relaxed(e)}
         /\ IsFiniteSet(Waiting(w))
<1>1. Waiting(w) = {e \in EdgesInto(adjacent, w) : ~ Relaxed(e)}
  BY InEdgesAre DEF Waiting
<1>2. Waiting(w) \subseteq EdgesInto(adjacent, w)
  BY <1>1
<1> QED
  BY <1>1, <1>2, FS_Subset DEF WiredOK

\* Sorting one more vertex counts no edge off: those of the last one are done,
\* and those of the new one begin.
LEMMA TakeRelaxesNone ==
  ASSUME ShapeOK, TakeLeaf, NEW w, NEW e \in EdgesInto(adjacent, w)
  PROVE  Relaxed(e)' <=> Relaxed(e)
<1>1. /\ sorted \in Seq(Keys) /\ leaves \in Seq(Keys) /\ leaves # << >>
      /\ sorted' = Append(sorted, Head(leaves)) /\ relaxed' = 0 /\ relaxed = OutDegree
  BY DEF ShapeOK, GraphTypeOK, EdgesTypeOK, TakeLeaf, VertexDone
<1>2. PICK v \in Keys : \E i \in 1 .. Len(adjacent[v]) : e = <<v, i>>
  <2>1. adjacent \in Adjacency
    BY DEF ShapeOK, GraphTypeOK, EdgesTypeOK, Adjacency
  <2> QED
    BY <2>1, EdgeFacts
<1> DEFINE i == e[2]
<1>3. e[1] = v /\ i \in 1 .. Len(adjacent[v]) /\ i \in Nat \ {0} /\ Len(adjacent[v]) \in Nat
  <2>1. e[1] = v /\ i \in 1 .. Len(adjacent[v])
    BY <1>2
  <2>2. adjacent[v] \in Seq(Keys)
    BY DEF ShapeOK, GraphTypeOK, EdgesTypeOK
  <2>3. Len(adjacent[v]) \in Nat
    BY <2>2
  <2> QED
    BY <2>1, <2>3
<1> HIDE DEF i
<1>4. /\ Len(sorted) \in Nat /\ DOMAIN sorted = 1 .. Len(sorted)
      /\ DOMAIN sorted' = 1 .. Len(sorted) + 1 /\ Len(sorted') = Len(sorted) + 1
      /\ \A j \in 1 .. Len(sorted) : sorted'[j] = sorted[j]
  BY <1>1
<1>5. Relaxed(e)' <=> \E j \in 1 .. Len(sorted) : sorted[j] = v
  <2>1. Relaxed(e)' <=> \E j \in 1 .. Len(sorted) + 1 :
                            sorted'[j] = v /\ (j = Len(sorted) + 1 => i <= 0)
    BY <1>1, <1>3, <1>4 DEF Relaxed, i
  <2>2. ~ (i <= 0)
    BY <1>3
  <2>3. \A j \in 1 .. Len(sorted) : j # Len(sorted) + 1 /\ j \in 1 .. Len(sorted) + 1
    BY <1>4
  <2>4. \A j \in 1 .. Len(sorted) + 1 : j # Len(sorted) + 1 => j \in 1 .. Len(sorted)
    BY <1>4
  <2> QED
    BY <1>4, <2>1, <2>2, <2>3, <2>4
<1>6. Relaxed(e) <=> \E j \in 1 .. Len(sorted) : sorted[j] = v
  <2>1. Relaxed(e) <=> \E j \in 1 .. Len(sorted) :
                           sorted[j] = v /\ (j = Len(sorted) => i <= relaxed)
    BY <1>3, <1>4 DEF Relaxed, i
  <2>2. ASSUME NEW j \in 1 .. Len(sorted), sorted[j] = v, j = Len(sorted)
        PROVE  i <= relaxed
    <3>1. sorted # << >>
      BY <1>4, <2>2
    <3>2. relaxed = Len(adjacent[v])
      BY <1>1, <2>2, <3>1 DEF OutDegree
    <3> QED
      BY <1>3, <3>2
  <2> QED
    BY <2>1, <2>2
<1> QED
  BY <1>5, <1>6

\* Relaxing counts off one edge that waited.
LEMMA RelaxRelaxesOne ==
  ASSUME ShapeOK, RelaxEdge, IsInjective(sorted),
         NEW last, last = sorted[Len(sorted)],
         NEW w, w = adjacent[last][relaxed + 1]
  PROVE  /\ <<last, relaxed + 1>> \in EdgesInto(adjacent, w)
         /\ ~ Relaxed(<<last, relaxed + 1>>)
         /\ \A x : \A e \in EdgesInto(adjacent, x) :
                Relaxed(e)' <=> (Relaxed(e) \/ e = <<last, relaxed + 1>>)
<1>1. /\ sorted # << >> /\ last \in Keys /\ relaxed + 1 \in 1 .. Len(adjacent[last])
      /\ sorted \in Seq(Keys) /\ adjacent \in Adjacency /\ relaxed \in Nat
  <2>1. ~ VertexDone /\ adjacent \in [Keys -> Seq(Keys)]
        /\ sorted \in Seq(Keys) /\ relaxed \in Nat
    BY DEF RelaxEdge, ShapeOK, GraphTypeOK, EdgesTypeOK
  <2> QED
    BY <2>1, NextRelaxed DEF Adjacency
<1>2. <<last, relaxed + 1>> \in EdgesInto(adjacent, w)
  BY <1>1, EdgeFacts
<1>3. /\ Len(sorted) \in Nat \ {0} /\ DOMAIN sorted = 1 .. Len(sorted)
      /\ Len(sorted) \in 1 .. Len(sorted)
  BY <1>1
<1>4. \A j \in 1 .. Len(sorted) : sorted[j] = last <=> j = Len(sorted)
  BY <1>3 DEF IsInjective
<1>5. ~ Relaxed(<<last, relaxed + 1>>)
  <2>1. <<last, relaxed + 1>>[1] = last /\ <<last, relaxed + 1>>[2] = relaxed + 1
    OBVIOUS
  <2>2. ~ (relaxed + 1 <= relaxed)
    BY <1>1
  <2> QED
    BY <1>3, <1>4, <2>1, <2>2 DEF Relaxed
<1>6. ASSUME NEW x, NEW e \in EdgesInto(adjacent, x)
      PROVE  Relaxed(e)' <=> (Relaxed(e) \/ e = <<last, relaxed + 1>>)
  <2>1. PICK v \in Keys : \E i \in 1 .. Len(adjacent[v]) : e = <<v, i>>
    BY <1>1, EdgeFacts
  <2> DEFINE i == e[2]
  <2>2. e = <<v, i>> /\ e[1] = v /\ i \in Nat
    BY <2>1
  <2> HIDE DEF i
  <2>3. Relaxed(e)' <=> \E j \in 1 .. Len(sorted) :
                            sorted[j] = v /\ (j = Len(sorted) => i <= relaxed + 1)
    BY <1>3, <2>2 DEF i, Relaxed, RelaxEdge
  <2>4. Relaxed(e) <=> \E j \in 1 .. Len(sorted) :
                           sorted[j] = v /\ (j = Len(sorted) => i <= relaxed)
    BY <1>3, <2>2 DEF i, Relaxed
  <2>5. i <= relaxed + 1 <=> (i <= relaxed \/ i = relaxed + 1)
    BY <1>1, <2>2
  <2>6. e = <<last, relaxed + 1>> <=> v = last /\ i = relaxed + 1
    BY <2>2
  <2> QED
    BY <1>3, <1>4, <2>3, <2>4, <2>5, <2>6
<1> QED
  BY <1>2, <1>5, <1>6

LEMMA KahnUntouched ==
  ASSUME KahnOK, SortStarted' => SortStarted, UNCHANGED <<vertices, adjacent, kahn>>
  PROVE  KahnOK'
<1>1. UNCHANGED <<vertices, adjacent, leaves, degrees, sorted, relaxed>>
  BY DEF kahn
<1>2. \A w \in Keys : Waiting(w)' = Waiting(w)
  BY <1>1 DEF Waiting, InEdges, GraphEdges, Relaxed
<1>3. Reached' = Reached
  BY <1>1 DEF Reached
<1> QED
  BY <1>1, <1>2, <1>3 DEF KahnOK

LEMMA StartKahn ==
  ASSUME ShapeOK, WiredOK, StartSort
  PROVE  KahnOK'
<1> DEFINE starts == {k \in vertices : inDegree[k] = 0}
<1>1. /\ leaves' \in Bijection(1 .. Cardinality(starts), starts) /\ degrees' = inDegree
      /\ UNCHANGED <<vertices, adjacent, sorted>> /\ sorted = << >>
      /\ starts \subseteq Keys
  BY DEF StartSort, StartDegrees, declared, edges, ShapeOK, GraphTypeOK, SpecTypeOK,
         CursorOK, SortStarted
<1>2. IsInjective(leaves') /\ Range(leaves') = starts
  BY <1>1, StartsListed DEF ShapeOK, GraphTypeOK
<1>3. IsInjective(sorted') /\ Range(sorted') = {}
  BY <1>1 DEF IsInjective, Range
<1>4. ASSUME NEW w \in Keys
      PROVE  Waiting(w)' = EdgesInto(adjacent, w)
  <2>1. \A e : ~ Relaxed(e)'
    BY <1>1 DEF Relaxed
  <2>2. InEdges(w)' = EdgesInto(adjacent, w)
    BY <1>1 DEF InEdges, GraphEdges, EdgesInto
  <2> QED
    BY <2>1, <2>2 DEF Waiting
<1>5. \A w \in Keys : degrees'[w] = Cardinality(Waiting(w)')
  BY <1>1, <1>4 DEF WiredOK
<1>6. Reached' = starts
  BY <1>2, <1>3 DEF Reached
<1>7. \A w \in Keys : w \in Reached' <=> (w \in vertices' /\ degrees'[w] = 0)
  BY <1>1, <1>6
<1> QED
  BY <1>2, <1>3, <1>5, <1>7 DEF KahnOK

LEMMA TakeKahn ==
  ASSUME ShapeOK, WiredOK, KahnOK, TakeLeaf
  PROVE  KahnOK'
<1>1. /\ SortStarted /\ leaves \in Seq(Keys) /\ sorted \in Seq(Keys) /\ leaves # << >>
      /\ leaves' = Tail(leaves) /\ sorted' = Append(sorted, Head(leaves))
      /\ UNCHANGED <<vertices, adjacent, degrees>>
  BY DEF TakeLeaf, ShapeOK, GraphTypeOK, EdgesTypeOK, SortStarted, declared, edges
<1>2. /\ IsInjective(leaves) /\ IsInjective(sorted) /\ Range(leaves) \cap Range(sorted) = {}
  BY <1>1 DEF KahnOK
<1>3. /\ IsInjective(leaves') /\ Head(leaves) \notin Range(leaves')
      /\ Range(leaves) = Range(leaves') \cup {Head(leaves)}
  BY <1>1, <1>2, TailFacts
<1>4. Head(leaves) \in Keys /\ Head(leaves) \notin Range(sorted)
  <2>1. Head(leaves) \in Keys
    BY <1>1
  <2> QED
    BY <2>1, <1>2, <1>3
<1>5. Range(sorted') = Range(sorted) \cup {Head(leaves)} /\ IsInjective(sorted')
  BY <1>1, <1>2, <1>4, AppendFacts
<1>6. Reached' = Reached
  BY <1>3, <1>5 DEF Reached
<1>7. ASSUME NEW w \in Keys
      PROVE  Waiting(w)' = Waiting(w)
  <2>1. InEdges(w)' = InEdges(w)
    BY <1>1 DEF InEdges, GraphEdges
  <2>2. \A e \in InEdges(w) : Relaxed(e)' <=> Relaxed(e)
    BY InEdgesAre, TakeRelaxesNone
  <2> QED
    BY <2>1, <2>2 DEF Waiting
<1>8. Range(leaves') \cap Range(sorted') = {}
  BY <1>2, <1>3, <1>5
<1> QED
  BY <1>1, <1>3, <1>5, <1>6, <1>7, <1>8 DEF KahnOK

LEMMA RelaxKahn ==
  ASSUME ShapeOK, WiredOK, KahnOK, RelaxEdge
  PROVE  KahnOK'
<1>a. PICK last : last = sorted[Len(sorted)]
  OBVIOUS
<1>b. PICK w : w = adjacent[last][relaxed + 1]
  OBVIOUS
<1>c. PICK e : e = <<last, relaxed + 1>>
  OBVIOUS
<1>1. /\ SortStarted /\ leaves \in Seq(Keys) /\ degrees \in [Keys -> Int]
      /\ degrees' = [degrees EXCEPT ![w] = @ - 1]
      /\ leaves' = IF degrees[w] = 1 THEN Append(leaves, w) ELSE leaves
      /\ UNCHANGED <<vertices, adjacent, sorted>>
  BY <1>a, <1>b DEF RelaxEdge, LastEdge, ShapeOK, GraphTypeOK, EdgesTypeOK, SortStarted, declared, edges
<1>2. IsInjective(leaves) /\ IsInjective(sorted) /\ Range(leaves) \cap Range(sorted) = {}
  BY <1>1 DEF KahnOK
<1>3. w \in Keys
  BY <1>a, <1>b, NextRelaxed DEF RelaxEdge
<1>4. /\ e \in EdgesInto(adjacent, w) /\ ~ Relaxed(e)
      /\ \A x : \A d \in EdgesInto(adjacent, x) : Relaxed(d)' <=> (Relaxed(d) \/ d = e)
  BY <1>2, <1>a, <1>b, <1>c, RelaxRelaxesOne
<1>5. \A x \in Keys : x # w => e \notin EdgesInto(adjacent, x)
  BY <1>4 DEF EdgesInto
<1>6. \A x \in Keys : InEdges(x)' = EdgesInto(adjacent, x)
  BY <1>1 DEF InEdges, GraphEdges, EdgesInto
<1>7. Waiting(w)' = Waiting(w) \ {e} /\ e \in Waiting(w)
  BY <1>3, <1>4, <1>6, WaitingAre DEF Waiting
<1>8. \A x \in Keys \ {w} : Waiting(x)' = Waiting(x)
  BY <1>4, <1>5, <1>6, InEdgesAre DEF Waiting
<1>9. /\ degrees[w] = Cardinality(Waiting(w)) /\ IsFiniteSet(Waiting(w))
      /\ degrees[w] \in Nat \ {0}
  <2>1. degrees[w] = Cardinality(Waiting(w)) /\ IsFiniteSet(Waiting(w))
    BY <1>1, <1>3, WaitingAre DEF KahnOK
  <2> QED
    BY <1>7, <2>1, FS_CardinalityType, FS_EmptySet
<1>10. /\ degrees'[w] = degrees[w] - 1 /\ degrees'[w] = Cardinality(Waiting(w)')
       /\ \A x \in Keys \ {w} : degrees'[x] = degrees[x]
  <2>1. Cardinality(Waiting(w) \ {e}) = Cardinality(Waiting(w)) - 1
    BY <1>7, <1>9, FS_RemoveElement
  <2> QED
    BY <1>1, <1>3, <1>7, <1>9, <2>1
<1>11. w \notin Reached /\ w \in vertices
  BY <1>1, <1>3, <1>4, <1>9 DEF KahnOK, WiredOK
<1>12. /\ Range(leaves') = IF degrees[w] = 1 THEN Range(leaves) \cup {w} ELSE Range(leaves)
       /\ IsInjective(leaves')
  <2>1. w \notin Range(leaves)
    BY <1>11 DEF Reached
  <2>2. Range(Append(leaves, w)) = Range(leaves) \cup {w} /\ IsInjective(Append(leaves, w))
    BY <1>1, <1>2, <1>3, <2>1, AppendFacts
  <2> QED
    BY <1>1, <1>2, <2>2
<1>13. Range(leaves') \cap Range(sorted') = {}
  BY <1>1, <1>2, <1>11, <1>12 DEF Reached
<1>14. ASSUME NEW x \in Keys
       PROVE  x \in Reached' <=> (x \in vertices' /\ degrees'[x] = 0)
  <2>1. x \in Reached <=> (x \in vertices /\ degrees[x] = 0)
    BY <1>1 DEF KahnOK
  <2>2. x \in Reached' <=> (x \in Reached \/ (x = w /\ degrees[w] = 1))
    BY <1>1, <1>12 DEF Reached
  <2>3. CASE x = w
    BY <1>1, <1>9, <1>10, <1>11, <2>2, <2>3
  <2>4. CASE x # w
    BY <1>1, <1>10, <2>1, <2>2, <2>4
  <2> QED
    BY <2>3, <2>4
<1>15. ASSUME NEW x \in Keys
       PROVE  degrees'[x] = Cardinality(Waiting(x)')
  BY <1>1, <1>8, <1>10 DEF KahnOK
<1> QED
  BY <1>1, <1>2, <1>12, <1>13, <1>14, <1>15 DEF KahnOK

LEMMA NextKahn ==
  ASSUME ShapeOK, WiredOK, KahnOK, [Next]_vars
  PROVE  KahnOK'
<1>1. CASE ~ SortStarted'
  BY <1>1 DEF KahnOK
<1>2. CASE Read
  BY <1>1, <1>2 DEF Read, RejectInvalid, RejectDuplicate, AddVertex, EndReading, Reading, SortStarted
<1>3. ASSUME NEW to \in Keys, AddEdge(to) \/ MissingVertex(to)
      PROVE  KahnOK'
  BY <1>1, <1>3 DEF AddEdge, MissingVertex, NextDependency, SortStarted
<1>4. CASE FinishSort
  BY <1>4, KahnUntouched DEF FinishSort, declared, edges, SortStarted
<1>5. CASE UNCHANGED vars
  BY <1>5, KahnUntouched DEF vars, declared, edges, SortStarted
<1> QED
  BY <1>2, <1>3, <1>4, <1>5, StartKahn, TakeKahn, RelaxKahn DEF Next, Wire, Sort

\* A vertex no edge waits for has all its dependencies sorted.
LEMMA DependenciesSorted ==
  ASSUME ShapeOK, WiredOK, KahnOK, SortStarted, NEW w \in Reached \cap Keys,
         NEW d \in Range(dependencies[w])
  PROVE  \E i \in DOMAIN sorted : sorted[i] = d
<1>1. w \in vertices /\ degrees[w] = 0 /\ degrees[w] = Cardinality(Waiting(w))
  BY DEF KahnOK
<1>2. Waiting(w) = {}
  BY <1>1, WaitingAre, FS_EmptySet
<1>3. dependencies[w] \in Seq(Keys) /\ wired[w] = Len(dependencies[w])
  BY <1>1 DEF WiredOK, ShapeOK, GraphTypeOK, EdgesTypeOK
<1>4. PICK i \in 1 .. wired[w] : dependencies[w][i] = d
  BY <1>3 DEF Range
<1>5. PICK e \in EdgesInto(adjacent, w) : e[1] = d
  BY <1>4 DEF WiredOK
<1>6. Relaxed(e)
  BY <1>2, WaitingAre
<1> QED
  BY <1>5, <1>6 DEF Relaxed

OrderOK ==
    /\ SortedAfterDependencies
    /\ pc = "ready" => Range(sorted) = vertices

LEMMA NextOrder ==
  ASSUME ShapeOK, WiredOK, KahnOK, OrderOK, [Next]_vars
  PROVE  OrderOK'
<1> sorted \in Seq(Keys) /\ leaves \in Seq(Keys) /\ vertices \subseteq Keys
  BY DEF ShapeOK, GraphTypeOK, SpecTypeOK, EdgesTypeOK
<1>1. CASE sorted' = << >> /\ pc' # "ready"
  BY <1>1 DEF OrderOK, SortedAfterDependencies, IsInjective
<1>2. CASE UNCHANGED <<dependencies, vertices, sorted>> /\ (pc' = "ready" => pc = "ready")
  <2>1. SortedAfterDependencies'
    BY <1>2 DEF OrderOK, SortedAfterDependencies
  <2> QED
    BY <1>2, <2>1 DEF OrderOK
<1>3. CASE TakeLeaf
  <2>1. PICK h \in Keys : h = Head(leaves)
    BY <1>3 DEF TakeLeaf
  <2>2. /\ SortStarted /\ sorted' = Append(sorted, h) /\ pc' # "ready"
        /\ UNCHANGED dependencies
    BY <1>3, <2>1 DEF TakeLeaf, SortStarted, declared
  <2>3. h \in Reached
    <3>1. leaves # << >>
      BY <1>3 DEF TakeLeaf
    <3> QED
      BY <2>1, <3>1 DEF Reached, Range
  <2>4. IsInjective(sorted')
    BY <1>3, <2>2, TakeKahn DEF KahnOK, TakeLeaf, SortStarted
  <2>5. /\ Len(sorted) \in Nat /\ DOMAIN sorted = 1 .. Len(sorted)
        /\ DOMAIN sorted' = 1 .. Len(sorted) + 1 /\ sorted'[Len(sorted) + 1] = h
        /\ \A i \in 1 .. Len(sorted) : sorted'[i] = sorted[i]
    BY <2>2
  <2>6. ASSUME NEW j \in DOMAIN sorted', NEW d \in Range(dependencies'[sorted'[j]])
        PROVE  \E i \in 1 .. j - 1 : sorted'[i] = d
    <3>1. CASE j \in 1 .. Len(sorted)
      <4>1. d \in Range(dependencies[sorted[j]])
        BY <2>2, <2>5, <2>6, <3>1
      <4>2. PICK i \in 1 .. j - 1 : sorted[i] = d
        BY <2>5, <3>1, <4>1 DEF OrderOK, SortedAfterDependencies
      <4>3. i \in 1 .. Len(sorted)
        BY <2>5, <3>1
      <4> QED
        BY <2>5, <4>2, <4>3
    <3>2. CASE j = Len(sorted) + 1
      <4>1. d \in Range(dependencies[h])
        BY <2>2, <2>5, <2>6, <3>2
      <4>2. PICK i \in 1 .. Len(sorted) : sorted[i] = d
        BY <2>2, <2>3, <2>5, <4>1, DependenciesSorted
      <4> QED
        BY <2>5, <3>2, <4>2
    <3> QED
      BY <2>5, <3>1, <3>2
  <2> QED
    BY <2>2, <2>4, <2>6 DEF OrderOK, SortedAfterDependencies
<1>4. CASE FinishSort
  <2>1. UNCHANGED <<dependencies, vertices, sorted>> /\ SortStarted
    BY <1>4 DEF FinishSort, declared, kahn, SortStarted
  <2>2. SortedAfterDependencies'
    BY <2>1 DEF OrderOK, SortedAfterDependencies
  <2>3. ASSUME pc' = "ready"
        PROVE  Range(sorted) = vertices
    <3>1. Len(sorted) = Cardinality(vertices) /\ Len(sorted) \in Nat
      BY <1>4, <2>3 DEF FinishSort
    <3>2. IsFiniteSet(vertices)
      BY KeysFinite, FS_Subset
    <3>3. sorted \in Injection(1 .. Len(sorted), vertices)
      <4>1. Range(sorted) \subseteq vertices /\ IsInjective(sorted)
        BY <2>1 DEF KahnOK, Reached, Range
      <4>2. \A i \in 1 .. Len(sorted) : sorted[i] \in vertices
        BY <4>1 DEF Range
      <4> QED
        BY <4>1, <4>2 DEF Injection, IsInjective
    <3>4. IsFiniteSet(1 .. Len(sorted)) /\ Cardinality(1 .. Len(sorted)) = Len(sorted)
      BY <3>1, FS_Interval
    <3>5. sorted \in Surjection(1 .. Len(sorted), vertices)
      BY <3>1, <3>2, <3>3, <3>4, FS_Injection
    <3> QED
      BY <3>3, <3>5 DEF Surjection, Injection, Range
  <2> QED
    BY <2>1, <2>2, <2>3 DEF OrderOK
<1>5. CASE Read
  <2>1. sorted = << >> /\ pc = "reading"
    BY <1>5 DEF Read, RejectInvalid, RejectDuplicate, AddVertex, EndReading, Reading,
                ShapeOK, CursorOK, SortStarted
  <2> QED
    BY <1>1, <1>5, <2>1 DEF Read, RejectInvalid, RejectDuplicate, AddVertex, EndReading, kahn
<1>6. ASSUME NEW to \in Keys, AddEdge(to) \/ MissingVertex(to)
      PROVE  OrderOK'
  BY <1>2, <1>6 DEF AddEdge, MissingVertex, declared, kahn
<1>7. CASE StartSort \/ RelaxEdge
  BY <1>2, <1>7 DEF StartSort, RelaxEdge, declared
<1>8. CASE UNCHANGED vars
  BY <1>2, <1>8 DEF vars, declared, kahn
<1> QED
  BY <1>3, <1>4, <1>5, <1>6, <1>7, <1>8 DEF Next, Wire, Sort

-----------------------------------------------------------------------------
(* The theorems about the build *)

GraphInv == ShapeOK /\ ReadSoFar /\ WiredOK /\ KahnOK /\ OrderOK

LEMMA InitGraphInv == Init => GraphInv
<1> SUFFICES ASSUME Init
             PROVE  GraphInv
  OBVIOUS
<1>1. ReadSoFar
  BY DEF Init, ReadSoFar
<1>2. KahnOK
  BY DEF Init, KahnOK, SortStarted
<1>3. OrderOK
  BY DEF Init, OrderOK, SortedAfterDependencies, IsInjective
<1> QED
  BY <1>1, <1>2, <1>3, InitShape, InitWired DEF GraphInv

LEMMA NextGraphInv == GraphInv /\ [Next]_vars => GraphInv'
BY NextShape, NextRead, NextWired, NextKahn, NextOrder DEF GraphInv

\* A build that ends with an order has lost and merged nothing.
LEMMA ReadyLosesNothing == GraphInv => ReadyIsComplete
<1> SUFFICES ASSUME GraphInv, pc = "ready"
             PROVE  /\ Range(sorted) = {spec[i].key : i \in DOMAIN spec}
                    /\ \A i, j \in DOMAIN spec : spec[i].key = spec[j].key => i = j
                    /\ \A i \in DOMAIN spec : Range(spec[i].deps) \subseteq Range(sorted)
  BY DEF ReadyIsComplete
<1>1. DOMAIN spec = 1 .. read /\ ~ errors /\ spec \in Seq(Declarations)
  BY DEF GraphInv, ReadSoFar, ShapeOK, GraphTypeOK, SpecTypeOK
<1>2. /\ \A i \in DOMAIN spec : spec[i].key \in vertices
      /\ \A i, j \in DOMAIN spec : spec[i].key = spec[j].key => i = j
      /\ \A i \in DOMAIN spec : dependencies[spec[i].key] = spec[i].deps
  BY <1>1 DEF GraphInv, ReadSoFar
<1>3. vertices \subseteq {spec[i].key : i \in DOMAIN spec}
  BY <1>1 DEF GraphInv, ReadSoFar
<1>4. Range(sorted) = vertices
  BY DEF GraphInv, OrderOK
<1>5. ASSUME NEW i \in DOMAIN spec, NEW d \in Range(spec[i].deps)
      PROVE  d \in Range(sorted)
  <2>1. PICK j \in DOMAIN sorted : sorted[j] = spec[i].key
    BY <1>2, <1>4 DEF Range
  <2>2. d \in Range(dependencies[sorted[j]])
    BY <1>2, <2>1
  <2>3. PICK m \in 1 .. j - 1 : sorted[m] = d
    BY <2>2 DEF GraphInv, OrderOK, SortedAfterDependencies
  <2>4. m \in DOMAIN sorted
    BY DEF GraphInv, ShapeOK, GraphTypeOK, EdgesTypeOK
  <2> QED
    BY <2>3, <2>4 DEF Range
<1> QED
  BY <1>2, <1>3, <1>4, <1>5

\* For any declarations and any map order Kahn's working in-degrees count the edges
\* that are left: they never go below zero and reach it only with the last edge, also
\* where a dependency is listed twice.
THEOREM DegreesAreExact == Spec => []DegreesCountWaiting
<1>1. GraphInv => DegreesCountWaiting
  BY DEF GraphInv, KahnOK, DegreesCountWaiting, SortStarted
<1> QED
  BY <1>1, InitGraphInv, NextGraphInv, PTL DEF Spec

\* For any declarations and any map order a vertex comes after all its dependencies
\* and once, and an order that is returned holds every declared resource.
THEOREM OrderHolds == Spec => []OrderIsSound
<1>1. GraphInv => OrderIsSound
  BY ReadyLosesNothing DEF GraphInv, OrderOK, OrderIsSound
<1> QED
  BY <1>1, InitGraphInv, NextGraphInv, PTL DEF Spec

\* What a build hands to the walks: what depends on what, and the order.
DependsOn == [k \in vertices |-> Range(dependencies[k])]
Walkable  ==
    /\ IsFiniteSet(vertices)
    /\ DependsOn \in [vertices -> SUBSET vertices]
    /\ sorted \in OrdersOf(vertices, DependsOn)

LEMMA ReadyIsWalkable == GraphInv => (pc = "ready" => Walkable)
<1> SUFFICES ASSUME GraphInv, pc = "ready"
             PROVE  Walkable
  OBVIOUS
<1>1. /\ sorted \in Seq(Keys) /\ vertices \subseteq Keys
      /\ Range(sorted) = vertices /\ SortedAfterDependencies
  BY DEF GraphInv, ShapeOK, GraphTypeOK, SpecTypeOK, EdgesTypeOK, OrderOK
<1>2. IsFiniteSet(vertices)
  BY <1>1, KeysFinite, FS_Subset
<1>3. Len(sorted) \in Nat /\ DOMAIN sorted = 1 .. Len(sorted)
  BY <1>1
<1>4. sorted \in Bijection(1 .. Len(sorted), vertices)
  BY <1>1, <1>3 DEF Bijection, Injection, Surjection, Range, IsInjective, SortedAfterDependencies
<1>5. Cardinality(vertices) = Len(sorted)
  BY <1>3, <1>4, FS_CountingElements DEF ExistsBijection
<1>6. ASSUME NEW j \in DOMAIN sorted, NEW d \in Range(dependencies[sorted[j]])
      PROVE  \E i \in DOMAIN sorted : i < j /\ sorted[i] = d
  <2>1. PICK i \in 1 .. j - 1 : sorted[i] = d
    BY <1>1, <1>6 DEF SortedAfterDependencies
  <2> QED
    BY <1>3, <2>1
<1>7. DependsOn \in [vertices -> SUBSET vertices]
  <2>1. ASSUME NEW k \in vertices, NEW d \in Range(dependencies[k])
        PROVE  d \in vertices
    <3>1. PICK j \in DOMAIN sorted : sorted[j] = k
      BY <1>1 DEF Range
    <3> QED
      BY <1>1, <1>6, <3>1 DEF Range
  <2> QED
    BY <2>1 DEF DependsOn
<1>8. ASSUME NEW i \in DOMAIN sorted, NEW j \in DOMAIN sorted, sorted[i] \in DependsOn[sorted[j]]
      PROVE  i < j
  <2>1. sorted[j] \in vertices
    BY <1>1 DEF Range
  <2>2. sorted[i] \in Range(dependencies[sorted[j]])
    BY <1>8, <2>1 DEF DependsOn
  <2>3. PICK m \in DOMAIN sorted : m < j /\ sorted[m] = sorted[i]
    BY <1>6, <2>2
  <2>4. m = i
    BY <1>1, <2>3 DEF SortedAfterDependencies, IsInjective
  <2> QED
    BY <2>3, <2>4
<1> QED
  BY <1>2, <1>4, <1>5, <1>7, <1>8 DEF Walkable, OrdersOf

\* A build that ends well hands Apply and Destroy just what GraphExecutor takes for
\* granted: finitely many resources, dependencies among them, and one of the orders
\* its walks may be given, each resource once and after all it depends on.
THEOREM BuildIsWalkable == Spec => [](pc = "ready" => Walkable)
BY InitGraphInv, NextGraphInv, ReadyIsWalkable, PTL DEF Spec

-----------------------------------------------------------------------------
(* Why a build is refused *)

\* A dangling build names a key that nobody declared; toposort calls a graph cyclic
\* only with a vertex left over.
RefusalOK ==
    /\ pc = "dangling" => \E w \in vertices : ~ (Range(dependencies[w]) \subseteq vertices)
    /\ pc = "cyclic"   => vertices \ Range(sorted) # {}

LEMMA NextRefusal ==
  ASSUME GraphInv, RefusalOK, [Next]_vars
  PROVE  RefusalOK'
<1> /\ SpecTypeOK /\ EdgesTypeOK /\ CursorOK /\ KahnOK
  BY DEF GraphInv, ShapeOK, GraphTypeOK
<1>1. CASE pc' \notin {"dangling", "cyclic"}
  BY <1>1 DEF RefusalOK
<1>2. ASSUME NEW to \in Keys, MissingVertex(to)
      PROVE  RefusalOK'
  <2>1. /\ to \in vertices /\ pc' = "dangling" /\ UNCHANGED <<vertices, dependencies>>
        /\ wired[to] < Len(dependencies[to])
        /\ dependencies[to][wired[to] + 1] \notin vertices
    BY <1>2 DEF MissingVertex, NextDependency, declared
  <2>2. wired[to] + 1 \in DOMAIN dependencies[to]
    <3>1. dependencies[to] \in Seq(Keys) /\ wired[to] \in Nat
      BY DEF EdgesTypeOK
    <3> QED
      BY <2>1, <3>1
  <2>3. dependencies[to][wired[to] + 1] \in Range(dependencies[to])
    BY <2>2 DEF Range
  <2> QED
    BY <2>1, <2>3 DEF RefusalOK
<1>3. CASE FinishSort
  <2>1. /\ UNCHANGED <<vertices, sorted>> /\ pc' \in {"ready", "cyclic"} /\ SortStarted
        /\ pc' = "cyclic" => Len(sorted) # Cardinality(vertices)
    BY <1>3 DEF FinishSort, declared, kahn, SortStarted
  <2>2. ASSUME vertices \subseteq Range(sorted)
        PROVE  Len(sorted) = Cardinality(vertices)
    <3>1. Range(sorted) = vertices /\ IsInjective(sorted)
      <4>1. Range(sorted) \subseteq Keys
        BY DEF Range, EdgesTypeOK
      <4>2. Range(sorted) \subseteq vertices
        BY <2>1, <4>1 DEF KahnOK, Reached
      <4> QED
        BY <2>1, <2>2, <4>2 DEF KahnOK
    <3>2. Len(sorted) \in Nat /\ DOMAIN sorted = 1 .. Len(sorted)
      BY DEF EdgesTypeOK
    <3>3. sorted \in Bijection(1 .. Len(sorted), vertices)
      BY <3>1, <3>2 DEF Bijection, Injection, Surjection, Range, IsInjective, EdgesTypeOK
    <3> QED
      BY <3>2, <3>3, FS_CountingElements DEF ExistsBijection
  <2> QED
    BY <2>1, <2>2 DEF RefusalOK
<1>4. CASE Read \/ StartSort \/ TakeLeaf \/ RelaxEdge
  BY <1>1, <1>4 DEF Read, RejectInvalid, RejectDuplicate, AddVertex, EndReading, Reading,
                    StartSort, TakeLeaf, RelaxEdge
<1>5. ASSUME NEW to \in Keys, AddEdge(to)
      PROVE  RefusalOK'
  BY <1>1, <1>5 DEF AddEdge, NextDependency
<1>6. CASE UNCHANGED vars
  BY <1>6 DEF vars, declared, kahn, RefusalOK
<1> QED
  BY <1>2, <1>3, <1>4, <1>5, <1>6 DEF Next, Wire, Sort

\* The edges out of sorted vertices are all counted off when toposort stops.
LEMMA SortedMeansRelaxed ==
  ASSUME ShapeOK, VertexDone, NEW w, NEW e \in EdgesInto(adjacent, w), e[1] \in Range(sorted)
  PROVE  Relaxed(e)
<1>1. PICK v \in Keys : \E i \in 1 .. Len(adjacent[v]) : e = <<v, i>>
  <2>1. adjacent \in Adjacency
    BY DEF ShapeOK, GraphTypeOK, EdgesTypeOK, Adjacency
  <2> QED
    BY <2>1, EdgeFacts
<1>2. e[1] = v /\ e[2] \in 1 .. Len(adjacent[v])
  BY <1>1
<1>3. PICK j \in DOMAIN sorted : sorted[j] = v
  BY <1>2 DEF Range
<1>4. j = Len(sorted) => relaxed = Len(adjacent[v])
  <2>1. j = Len(sorted) => sorted # << >>
    BY <1>3 DEF ShapeOK, GraphTypeOK, EdgesTypeOK
  <2> QED
    BY <1>3, <2>1 DEF VertexDone, OutDegree
<1> QED
  BY <1>2, <1>3, <1>4 DEF Relaxed

NeverRefused == Buildable => pc \notin {"invalid", "dangling", "cyclic"}

LEMMA RefusedForAReason == GraphInv /\ RefusalOK => NeverRefused
<1> SUFFICES ASSUME GraphInv, RefusalOK, Buildable
             PROVE  pc \notin {"invalid", "dangling", "cyclic"}
  BY DEF NeverRefused
<1> /\ ShapeOK /\ ReadSoFar /\ WiredOK /\ KahnOK
  BY DEF GraphInv
<1> DEFINE declaredKeys == {spec[i].key : i \in DOMAIN spec}
<1>1. pc # "invalid"
  <2>1. 1 .. read \subseteq DOMAIN spec
    BY DEF ShapeOK, GraphTypeOK, SpecTypeOK
  <2> QED
    BY <2>1 DEF ReadSoFar, Buildable
<1>2. ASSUME pc \in {"dangling", "cyclic"}
      PROVE  /\ vertices = declaredKeys
             /\ \A i \in DOMAIN spec : dependencies[spec[i].key] = spec[i].deps
  <2>1. DOMAIN spec = 1 .. read /\ ~ errors
    BY <1>2 DEF ReadSoFar, ShapeOK, GraphTypeOK, SpecTypeOK
  <2> QED
    BY <2>1 DEF ReadSoFar
<1>3. ASSUME pc \in {"dangling", "cyclic"}, NEW w \in vertices
      PROVE  Range(dependencies[w]) \subseteq vertices
  <2>1. PICK i \in DOMAIN spec : spec[i].key = w
    BY <1>2, <1>3
  <2> QED
    BY <1>2, <1>3, <2>1 DEF Buildable
<1>4. pc # "dangling"
  BY <1>3 DEF RefusalOK
<1>5. ASSUME pc = "cyclic"
      PROVE  FALSE
  <2> DEFINE C == vertices \ Range(sorted)
  <2>1. C \in SUBSET declaredKeys /\ C # {}
    BY <1>2, <1>5 DEF RefusalOK
  <2>2. PICK i \in DOMAIN spec : spec[i].key \in C /\ Range(spec[i].deps) \cap C = {}
    BY <2>1 DEF Buildable, Acyclic
  <2>3. PICK w \in Keys : w = spec[i].key
    BY <2>2 DEF ShapeOK, GraphTypeOK, SpecTypeOK
  <2>4. w \in vertices /\ w \notin Range(sorted)
    BY <2>2, <2>3
  <2>5. Range(dependencies[w]) \subseteq Range(sorted)
    BY <1>2, <1>3, <1>5, <2>2, <2>3, <2>4
  <2>6. SortStarted /\ VertexDone /\ leaves = << >>
    BY <1>5 DEF SortStarted, ShapeOK, CursorOK
  <2>7. ASSUME NEW e \in EdgesInto(adjacent, w)
        PROVE  Relaxed(e)
    <3>1. PICK m \in 1 .. wired[w] : dependencies[w][m] = e[1]
      BY <2>3, <2>7 DEF WiredOK
    <3>2. m \in DOMAIN dependencies[w]
      <4>1. wired[w] = Len(dependencies[w]) /\ dependencies[w] \in Seq(Keys)
        BY <2>4, <2>6 DEF WiredOK, ShapeOK, GraphTypeOK, EdgesTypeOK
      <4> QED
        BY <4>1
    <3>3. e[1] \in Range(sorted)
      BY <2>5, <3>1, <3>2 DEF Range
    <3> QED
      BY <2>6, <2>7, <3>3, SortedMeansRelaxed
  <2>8. degrees[w] = 0
    <3>1. Waiting(w) = {}
      BY <2>3, <2>7, WaitingAre
    <3> QED
      BY <2>3, <2>6, <3>1, FS_EmptySet DEF KahnOK
  <2>9. w \in Reached
    BY <2>3, <2>4, <2>6, <2>8 DEF KahnOK
  <2> QED
    BY <2>4, <2>6, <2>9 DEF Reached, Range
<1> QED
  BY <1>1, <1>4, <1>5

\* Whether a spec is refused depends on the spec alone, never on Go's map order: an
\* acyclic, closed and duplicate-free spec of valid declarations is never invalid,
\* dangling or cyclic.  (That it is built at last is the liveness TLC checks.)
THEOREM BuildableNeverRefused == Spec => []NeverRefused
<1>1. Init => GraphInv /\ RefusalOK
  <2>1. Init => RefusalOK
    BY DEF Init, RefusalOK
  <2> QED
    BY <2>1, InitGraphInv
<1>2. GraphInv /\ RefusalOK /\ [Next]_vars => (GraphInv /\ RefusalOK)'
  BY NextGraphInv, NextRefusal
<1> QED
  BY <1>1, <1>2, RefusedForAReason, PTL DEF Spec

-----------------------------------------------------------------------------
(* Cycle *)

\* The vertices of the path are the grey ones, each once, and each depends on the one
\* before it; while nothing is searched the path is empty.
FinderOK ==
    /\ search \in {"idle", "scanning", "visiting", "found", "nil"}
    /\ search # "idle" => pc \in {"ready", "cyclic"}
    /\ colours \in [Keys -> {"white", "grey", "black"}]
    /\ path \in Seq(Keys) /\ cursors \in Seq(Nat) /\ Len(cursors) = Len(path)
    /\ search = "visiting" <=> (path # << >> /\ search # "found")
    /\ \A k \in Keys : colours[k] = "grey" <=> k \in Range(path)
    /\ IsInjective(path)
    /\ \A i \in 1 .. Len(path) - 1 : path[i] \in Range(dependencies[path[i + 1]])

FinderInv == GraphInv /\ FinderOK /\ ReportedCycleIsReal

LEMMA InitFinder == CycleInit => FinderInv
<1> SUFFICES ASSUME CycleInit
             PROVE  FinderInv
  OBVIOUS
<1>1. GraphInv
  BY InitGraphInv DEF CycleInit
<1>2. FinderOK
  BY DEF CycleInit, FinderOK, IsInjective, Range
<1> QED
  BY <1>1, <1>2 DEF FinderInv, CycleInit, ReportedCycleIsReal

\* Each vertex depends on the one whose adjacency list it is in.
LEMMA AdjacentDepends ==
  ASSUME ShapeOK, WiredOK, NEW v \in Keys, NEW i \in 1 .. Len(adjacent[v])
  PROVE  /\ adjacent[v][i] \in vertices
         /\ v \in Range(dependencies[adjacent[v][i]])
<1>1. adjacent \in Adjacency /\ adjacent[v][i] \in Keys
  BY DEF ShapeOK, GraphTypeOK, EdgesTypeOK, Adjacency
<1>2. PICK w \in Keys : w = adjacent[v][i]
  BY <1>1
<1>3. PICK e : e = <<v, i>>
  OBVIOUS
<1>4. e \in EdgesInto(adjacent, w)
  BY <1>1, <1>2, <1>3, EdgeFacts
<1>5. w \in vertices /\ \E m \in 1 .. wired[w] : dependencies[w][m] = v
  <2>1. e[1] = v
    BY <1>3
  <2> QED
    BY <1>4, <2>1 DEF WiredOK
<1>6. 1 .. wired[w] \subseteq DOMAIN dependencies[w]
  <2>1. dependencies[w] \in Seq(Keys) /\ wired[w] \in Nat /\ wired[w] <= Len(dependencies[w])
    BY DEF ShapeOK, GraphTypeOK, EdgesTypeOK, CursorOK
  <2> QED
    BY <2>1
<1> QED
  BY <1>2, <1>5, <1>6 DEF Range

\* What FindCycle returns: n, then the path from its end down to n.
LEMMA FindCycleFacts ==
  ASSUME path \in Seq(Keys), NEW n \in Range(path)
  PROVE  \E at \in 1 .. Len(path) :
             /\ path[at] = n
             /\ FindCycle(n) \in Seq(Keys)
             /\ Len(FindCycle(n)) = Len(path) - at + 2
             /\ FindCycle(n)[1] = n
             /\ \A m \in 2 .. Len(path) - at + 2 : FindCycle(n)[m] = path[Len(path) + 2 - m]
<1> DEFINE at == CHOOSE i \in 1 .. Depth : path[i] = n
           down == [i \in 1 .. Depth - at |-> path[Depth + 1 - i]]
<1>1. at \in 1 .. Len(path) /\ path[at] = n /\ Depth = Len(path) /\ Depth \in Nat
  <2>1. \E i \in 1 .. Depth : path[i] = n
    BY DEF Range, Depth
  <2> QED
    BY <2>1 DEF Depth
<1>2. FindCycle(n) = <<n>> \o down \o <<n>>
  BY DEF FindCycle
<1> HIDE DEF at
<1>3. Depth - at \in Nat /\ \A i \in 1 .. Depth - at : Depth + 1 - i \in 1 .. Len(path)
  BY <1>1
<1>4. down \in Seq(Keys) /\ Len(down) = Depth - at /\ n \in Keys
  <2>1. down \in [1 .. Depth - at -> Keys]
    BY <1>3
  <2> QED
    BY <1>1, <1>3, <2>1
<1>5. \A i \in 1 .. Depth - at : down[i] = path[Depth + 1 - i]
  OBVIOUS
<1> HIDE DEF down
<1>6. /\ <<n>> \o down \in Seq(Keys) /\ Len(<<n>> \o down) = Depth - at + 1
      /\ (<<n>> \o down)[1] = n
      /\ \A m \in 2 .. Depth - at + 1 : (<<n>> \o down)[m] = down[m - 1]
  BY <1>3, <1>4
<1> DEFINE front == <<n>> \o down
<1> HIDE DEF front
<1>7. /\ front \o <<n>> \in Seq(Keys) /\ Len(front \o <<n>>) = Depth - at + 2
      /\ \A m \in 1 .. Depth - at + 1 : (front \o <<n>>)[m] = front[m]
      /\ (front \o <<n>>)[Depth - at + 2] = n
  BY <1>3, <1>4, <1>6 DEF front
<1>8. ASSUME NEW m \in 2 .. Depth - at + 2
      PROVE  (front \o <<n>>)[m] = path[Depth + 2 - m]
  <2>1. CASE m = Depth - at + 2
    <3>1. Depth + 2 - m = at
      BY <1>1, <1>3, <2>1
    <3> QED
      BY <1>1, <1>7, <2>1, <3>1
  <2>2. CASE m # Depth - at + 2
    <3>1. m \in 2 .. Depth - at + 1 /\ m \in 1 .. Depth - at + 1 /\ m - 1 \in 1 .. Depth - at
          /\ Depth + 1 - (m - 1) = Depth + 2 - m
      <4>1. at \in Int /\ Depth \in Int /\ m \in Int /\ m >= 2 /\ m <= Depth - at + 2
        BY <1>1
      <4> QED
        BY <2>2, <4>1
    <3>2. (front \o <<n>>)[m] = down[m - 1]
      BY <1>6, <1>7, <3>1 DEF front
    <3> QED
      BY <1>5, <3>1, <3>2
  <2> QED
    BY <2>1, <2>2
<1>9. front[1] = n /\ 1 \in 1 .. Depth - at + 1
  BY <1>3, <1>6 DEF front
<1>10. FindCycle(n) = front \o <<n>>
  BY <1>2 DEF front
<1> QED
  BY <1>1, <1>7, <1>8, <1>9, <1>10

LEMMA NeighbourFacts ==
  ASSUME FinderInv, HasNext
  PROVE  /\ Depth = Len(path) /\ Depth \in Nat \ {0} /\ Depth \in DOMAIN path
         /\ Top \in Keys /\ Top \in Range(path) /\ Neighbour \in Keys
         /\ Top \in Range(dependencies[Neighbour])
<1>1. /\ path \in Seq(Keys) /\ path # << >> /\ cursors \in Seq(Nat) /\ Len(cursors) = Len(path)
  BY DEF FinderInv, FinderOK, HasNext
<1>2. Depth = Len(path) /\ Depth \in Nat \ {0} /\ Depth \in DOMAIN path /\ Depth \in DOMAIN cursors
  BY <1>1 DEF Depth
<1>3. Top \in Keys /\ Top \in Range(path)
  BY <1>1, <1>2 DEF Top, Range
<1>4. cursors[Depth] \in Nat /\ adjacent[Top] \in Seq(Keys)
  <2>1. adjacent \in [Keys -> Seq(Keys)]
    BY DEF FinderInv, GraphInv, ShapeOK, GraphTypeOK, EdgesTypeOK
  <2> QED
    BY <1>1, <1>2, <1>3, <2>1
<1>5. cursors[Depth] + 1 \in 1 .. Len(adjacent[Top])
  BY <1>4 DEF HasNext
<1>6. Neighbour \in Keys
  BY <1>4, <1>5 DEF Neighbour
<1>7. Top \in Range(dependencies[Neighbour])
  BY <1>3, <1>5, AdjacentDepends DEF FinderInv, GraphInv, Neighbour
<1> QED
  BY <1>2, <1>3, <1>6, <1>7

\* A grey neighbour closes a cycle of dependencies.
LEMMA CloseIsReal ==
  ASSUME FinderInv, CloseCycle
  PROVE  ReportedCycleIsReal'
<1>1. PICK n : n = Neighbour
  OBVIOUS
<1>2. HasNext /\ colours[n] = "grey" /\ cycle' = FindCycle(n) /\ UNCHANGED dependencies
  BY <1>1 DEF CloseCycle, vars, declared
<1>3. /\ path \in Seq(Keys) /\ IsInjective(path) /\ n \in Range(path)
      /\ \A i \in 1 .. Len(path) - 1 : path[i] \in Range(dependencies[path[i + 1]])
  BY <1>1, <1>2, NeighbourFacts DEF FinderInv, FinderOK
<1>4. PICK at \in 1 .. Len(path) :
             /\ path[at] = n
             /\ cycle' \in Seq(Keys)
             /\ Len(cycle') = Len(path) - at + 2
             /\ cycle'[1] = n
             /\ \A m \in 2 .. Len(path) - at + 2 : cycle'[m] = path[Len(path) + 2 - m]
  BY <1>2, <1>3, FindCycleFacts
<1>5. path[Len(path)] \in Range(dependencies[n])
  BY <1>1, <1>2, NeighbourFacts DEF Top
<1> DEFINE L == Len(path)
<1>6. L \in Nat \ {0} /\ at \in 1 .. L /\ DOMAIN path = 1 .. L
  BY <1>3, <1>4
<1> HIDE DEF L
<1>7. cycle'[L - at + 2] = n /\ Len(cycle') = L - at + 2 /\ L - at + 2 >= 2
  <2>1. L - at + 2 \in 2 .. L - at + 2 /\ L + 2 - (L - at + 2) = at
    BY <1>6
  <2> QED
    BY <1>4, <1>6, <2>1 DEF L
<1>8. ASSUME NEW i \in 1 .. L - at + 1
      PROVE  cycle'[i + 1] \in Range(dependencies[cycle'[i]])
  <2>1. i + 1 \in 2 .. L - at + 2 /\ L + 2 - (i + 1) = L + 1 - i
    BY <1>6
  <2>2. cycle'[i + 1] = path[L + 1 - i]
    BY <1>4, <2>1 DEF L
  <2>3. CASE i = 1
    <3>1. L + 1 - i = L
      BY <1>6, <2>3
    <3> QED
      BY <1>4, <1>5, <2>2, <2>3, <3>1 DEF L
  <2>4. CASE i # 1
    <3>1. i \in 2 .. L - at + 2 /\ L + 1 - i \in 1 .. L - 1 /\ (L + 1 - i) + 1 = L + 2 - i
      BY <1>6, <2>4
    <3>2. cycle'[i] = path[(L + 1 - i) + 1]
      BY <1>4, <3>1 DEF L
    <3> QED
      BY <1>3, <2>2, <3>1, <3>2 DEF L
  <2> QED
    BY <2>3, <2>4
<1>9. ASSUME NEW i \in 1 .. L - at + 1
      PROVE  \E p \in 1 .. L : cycle'[i] = path[p] /\ p = IF i = 1 THEN at ELSE L + 2 - i
  <2>1. CASE i = 1
    BY <1>4, <1>6, <2>1
  <2>2. CASE i # 1
    <3>1. i \in 2 .. L - at + 2 /\ L + 2 - i \in 1 .. L
      BY <1>6, <2>2
    <3> QED
      BY <1>4, <2>2, <3>1 DEF L
  <2> QED
    BY <2>1, <2>2
<1>10. ASSUME NEW i \in 1 .. L - at + 1, NEW j \in 1 .. L - at + 1, cycle'[i] = cycle'[j]
       PROVE  i = j
  <2>1. PICK p \in 1 .. L : cycle'[i] = path[p] /\ p = IF i = 1 THEN at ELSE L + 2 - i
    BY <1>9
  <2>2. PICK q \in 1 .. L : cycle'[j] = path[q] /\ q = IF j = 1 THEN at ELSE L + 2 - j
    BY <1>9
  <2>3. p = q
    BY <1>3, <1>6, <1>10, <2>1, <2>2 DEF IsInjective
  <2>4. (i = 1 \/ L + 2 - i > at) /\ (j = 1 \/ L + 2 - j > at)
    BY <1>6
  <2> QED
    BY <1>6, <2>1, <2>2, <2>3, <2>4
<1>11. Len(cycle') - 1 = L - at + 1
  BY <1>6, <1>7
<1> QED
  BY <1>2, <1>4, <1>7, <1>8, <1>10, <1>11 DEF ReportedCycleIsReal

LEMMA NextFinder ==
  ASSUME FinderInv, [CycleNext]_allVars
  PROVE  FinderInv'
<1> /\ GraphInv /\ FinderOK /\ ReportedCycleIsReal
  BY DEF FinderInv
<1>1. [Next]_vars
  BY DEF CycleNext, Search, TrySort, StartRoot, Visit, CloseCycle, Descend, PassFinished,
         Backtrack, FinishRoot, allVars
<1>2. GraphInv'
  BY <1>1, NextGraphInv
<1>3. CASE UNCHANGED finder
  <2>1. UNCHANGED <<search, colours, path, cursors, cycle>>
    BY <1>3 DEF finder
  <2>2. CASE search = "idle"
    <3>1. path = << >>
      BY <2>2 DEF FinderOK
    <3>2. FinderOK'
      BY <2>1, <2>2, <3>1 DEF FinderOK
    <3>3. ReportedCycleIsReal'
      BY <2>1, <2>2 DEF ReportedCycleIsReal
    <3> QED
      BY <1>2, <3>2, <3>3 DEF FinderInv
  <2>3. CASE search # "idle"
    <3>1. pc \in {"ready", "cyclic"}
      BY <2>3 DEF FinderOK
    <3>2. UNCHANGED vars
      BY <1>1, <3>1 DEF Next, Read, Wire, Sort, RejectInvalid, RejectDuplicate, AddVertex,
                        EndReading, Reading, AddEdge, MissingVertex, NextDependency,
                        StartSort, TakeLeaf, RelaxEdge, FinishSort
    <3>3. UNCHANGED <<pc, dependencies>>
      BY <3>2 DEF vars, declared
    <3> QED
      BY <1>2, <2>1, <3>3 DEF FinderInv, FinderOK, ReportedCycleIsReal
  <2> QED
    BY <2>2, <2>3
<1>4. ASSUME UNCHANGED vars, search' # "found", FinderOK'
      PROVE  FinderInv'
  BY <1>2, <1>4 DEF FinderInv, ReportedCycleIsReal
<1>5. ASSUME UNCHANGED vars
      PROVE  UNCHANGED <<pc, dependencies, vertices>>
  BY <1>5 DEF vars, declared
<1>6. CASE TrySort
  <2>1. UNCHANGED vars /\ FinderOK' /\ search' # "found"
    BY <1>5, <1>6 DEF TrySort, FinderOK
  <2> QED
    BY <1>4, <2>1
<1>7. ASSUME NEW v \in vertices, StartRoot(v)
      PROVE  FinderInv'
  <2>1. v \in Keys /\ path = << >> /\ search' = "visiting" /\ pc \in {"ready", "cyclic"}
    BY <1>7 DEF StartRoot, FinderOK, GraphInv, ShapeOK, GraphTypeOK, SpecTypeOK
  <2>2. /\ path' = <<v>> /\ cursors' = <<0>> /\ colours' = [colours EXCEPT ![v] = "grey"]
        /\ UNCHANGED vars
    BY <1>7 DEF StartRoot, FirstCursor
  <2>3. Range(path) = {} /\ Range(path') = {v} /\ IsInjective(path')
    BY <2>1, <2>2 DEF Range, IsInjective
  <2>4. path' \in Seq(Keys) /\ cursors' \in Seq(Nat) /\ Len(path') = 1 /\ Len(cursors') = 1
        /\ path' # << >>
    BY <2>1, <2>2
  <2>5. \A k \in Keys : colours'[k] = "grey" <=> k \in Range(path')
    BY <2>1, <2>2, <2>3 DEF FinderOK
  <2>6. colours' \in [Keys -> {"white", "grey", "black"}]
    BY <2>1, <2>2 DEF FinderOK
  <2>7. FinderOK'
    BY <1>5, <2>1, <2>2, <2>3, <2>4, <2>5, <2>6 DEF FinderOK
  <2> QED
    BY <1>4, <2>1, <2>2, <2>7
<1>8. CASE CloseCycle
  <2>1. FinderOK'
    BY <1>5, <1>8 DEF CloseCycle, HasNext, FinderOK
  <2> QED
    BY <1>2, <1>8, <2>1, CloseIsReal DEF FinderInv
<1>9. CASE Descend
  <2>1. PICK n : n = Neighbour
    OBVIOUS
  <2>2. /\ HasNext /\ colours[n] = "white" /\ path' = Append(path, n)
        /\ cursors' = Append(Advanced, 0) /\ colours' = [colours EXCEPT ![n] = "grey"]
        /\ search' = search /\ search = "visiting" /\ UNCHANGED vars
    BY <1>9, <2>1 DEF Descend, FirstCursor, HasNext
  <2>3. /\ Depth = Len(path) /\ Depth \in Nat \ {0} /\ n \in Keys /\ path \in Seq(Keys)
        /\ path[Depth] \in Range(dependencies[n])
    BY <2>1, <2>2, NeighbourFacts DEF Top, FinderOK
  <2>4. n \notin Range(path)
    BY <2>2, <2>3 DEF FinderOK
  <2>5. Range(path') = Range(path) \cup {n} /\ IsInjective(path')
    BY <2>2, <2>3, <2>4, AppendFacts DEF FinderOK
  <2>6. path' \in Seq(Keys) /\ Len(path') = Depth + 1 /\ path' # << >>
        /\ path'[Depth + 1] = n /\ \A i \in 1 .. Depth : path'[i] = path[i]
    BY <2>2, <2>3
  <2>7. cursors' \in Seq(Nat) /\ Len(cursors') = Depth + 1
    <3>1. Advanced \in Seq(Nat) /\ Len(Advanced) = Depth
      BY <2>3 DEF Advanced, FinderOK
    <3> QED
      BY <2>2, <2>3, <3>1
  <2>8. colours' \in [Keys -> {"white", "grey", "black"}]
        /\ \A k \in Keys : colours'[k] = "grey" <=> k \in Range(path')
    BY <2>2, <2>3, <2>5 DEF FinderOK
  <2>9. ASSUME NEW i \in 1 .. Len(path') - 1
        PROVE  path'[i] \in Range(dependencies'[path'[i + 1]])
    <3>1. i \in 1 .. Depth /\ dependencies' = dependencies
      BY <1>5, <2>2, <2>3, <2>6
    <3>2. CASE i = Depth
      BY <2>3, <2>6, <3>1, <3>2
    <3>3. CASE i # Depth
      <4>1. i \in 1 .. Len(path) - 1 /\ i + 1 \in 1 .. Depth
        BY <2>3, <3>1, <3>3
      <4>2. path[i] \in Range(dependencies[path[i + 1]])
        BY <4>1 DEF FinderOK
      <4> QED
        BY <2>6, <3>1, <4>1, <4>2
    <3> QED
      BY <3>2, <3>3
  <2>10. FinderOK'
    BY <1>5, <2>2, <2>5, <2>6, <2>7, <2>8, <2>9 DEF FinderOK
  <2> QED
    BY <1>4, <2>2, <2>10
<1>10. CASE PassFinished
  <2>1. HasNext /\ cursors' = Advanced /\ UNCHANGED <<search, colours, path>> /\ UNCHANGED vars
    BY <1>10 DEF PassFinished
  <2>2. cursors' \in Seq(Nat) /\ Len(cursors') = Len(cursors)
    BY <2>1, NeighbourFacts DEF Advanced, FinderOK
  <2>3. FinderOK'
    BY <1>5, <2>1, <2>2 DEF FinderOK
  <2> QED
    BY <1>4, <2>1, <2>3 DEF HasNext
<1>11. CASE Backtrack
  <2>1. PICK t : t = Top
    OBVIOUS
  <2>2. /\ search = "visiting" /\ search' = search /\ Depth > 1 /\ UNCHANGED vars
        /\ colours' = [colours EXCEPT ![t] = "white"]
        /\ path' = SubSeq(path, 1, Len(path) - 1) /\ cursors' = SubSeq(cursors, 1, Len(cursors) - 1)
    BY <1>11, <2>1 DEF Backtrack, Popped
  <2>3. /\ Depth = Len(path) /\ Depth \in Nat \ {0, 1} /\ path \in Seq(Keys) /\ t = path[Depth]
        /\ cursors \in Seq(Nat) /\ Len(cursors) = Depth /\ DOMAIN path = 1 .. Depth
    BY <2>1, <2>2 DEF Depth, Top, FinderOK
  <2>4. /\ path' \in Seq(Keys) /\ Len(path') = Depth - 1 /\ DOMAIN path' = 1 .. Depth - 1
        /\ \A i \in 1 .. Depth - 1 : path'[i] = path[i]
    BY <2>2, <2>3
  <2>5. cursors' \in Seq(Nat) /\ Len(cursors') = Depth - 1
    BY <2>2, <2>3
  <2>6. /\ 1 .. Depth - 1 \subseteq 1 .. Depth /\ Depth \in 1 .. Depth /\ Depth \notin 1 .. Depth - 1
        /\ \A i \in 1 .. Depth : i \in 1 .. Depth - 1 \/ i = Depth
    BY <2>3
  <2>7. \A i, j \in 1 .. Depth : path[i] = path[j] => i = j
    BY <2>3 DEF FinderOK, IsInjective
  <2>8. IsInjective(path') /\ Range(path') = Range(path) \ {t} /\ t \in Keys
    <3>1. IsInjective(path')
      BY <2>4, <2>6, <2>7 DEF IsInjective
    <3>2. \A k : k \in Range(path) <=> \E i \in 1 .. Depth : path[i] = k
      BY <2>3 DEF Range
    <3>3. \A k : k \in Range(path') <=> \E i \in 1 .. Depth - 1 : path[i] = k
      BY <2>4 DEF Range
    <3>4. t \in Keys
      BY <2>3, <2>6
    <3>5. \A k : k \in Range(path') <=> k \in Range(path) \ {t}
      BY <2>3, <2>6, <2>7, <3>2, <3>3
    <3> QED
      BY <3>1, <3>4, <3>5
  <2>9. colours' \in [Keys -> {"white", "grey", "black"}]
        /\ \A k \in Keys : colours'[k] = "grey" <=> k \in Range(path')
    BY <2>2, <2>8 DEF FinderOK
  <2>10. ASSUME NEW i \in 1 .. Len(path') - 1
         PROVE  path'[i] \in Range(dependencies'[path'[i + 1]])
    <3>1. i \in 1 .. Depth - 1 /\ i + 1 \in 1 .. Depth - 1 /\ dependencies' = dependencies
      BY <1>5, <2>2, <2>3, <2>4
    <3>2. path[i] \in Range(dependencies[path[i + 1]])
      BY <2>3, <3>1 DEF FinderOK
    <3> QED
      BY <2>4, <3>1, <3>2
  <2>11. path' # << >>
    BY <2>3, <2>4
  <2>12. FinderOK'
    BY <1>5, <2>2, <2>4, <2>5, <2>8, <2>9, <2>10, <2>11 DEF FinderOK
  <2> QED
    BY <1>4, <2>2, <2>12
<1>12. CASE FinishRoot
  <2>1. PICK t : t = Top
    OBVIOUS
  <2>2. /\ search = "visiting" /\ search' = "scanning" /\ Depth = 1 /\ UNCHANGED vars
        /\ colours' = [colours EXCEPT ![t] = "black"] /\ path' = << >> /\ cursors' = << >>
    BY <1>12, <2>1 DEF FinishRoot
  <2>3. path \in Seq(Keys) /\ Len(path) = 1 /\ t = path[1]
    BY <2>1, <2>2 DEF Depth, Top, FinderOK
  <2>4. t \in Keys /\ Range(path) = {t}
    BY <2>3 DEF Range
  <2>5. \A k \in Keys : colours'[k] # "grey"
    BY <2>2, <2>4 DEF FinderOK
  <2>6. FinderOK'
    BY <1>5, <2>2, <2>4, <2>5 DEF FinderOK, IsInjective, Range
  <2> QED
    BY <1>4, <2>2, <2>6
<1> QED
  BY <1>3, <1>6, <1>7, <1>8, <1>9, <1>10, <1>11, <1>12
     DEF CycleNext, Search, Visit, allVars

\* Whatever the graph and the order of the visit, the list `buildit validate` prints is
\* a cycle of the declarations, and a simple one.
THEOREM CyclesAreReal == CycleSpec => []ReportedCycleIsReal
<1>1. FinderInv => ReportedCycleIsReal
  BY DEF FinderInv
<1>2. FinderInv /\ [CycleNext]_allVars => FinderInv'
  BY NextFinder
<1> QED
  BY <1>1, <1>2, InitFinder, PTL DEF CycleSpec

============================================================================
