-------------------------- MODULE NodeLoaderProofs --------------------------
(***************************************************************************)
(* What TLAPS proves of NodeLoader, for all files, filters and windows.    *)
(***************************************************************************)
EXTENDS NodeLoader, FiniteSums

\* A side that is being loaded has room for its whole file, and no more nodes
\* than entries it has gone over.
RoomOK ==
  /\ pc = "reserve" => nodes[side] = <<>>
  /\ pc = "load" => /\ Len(nodes[side]) <= position
                    /\ position <= Len(file[side])
                    /\ Len(file[side]) <= capacity[side]
  /\ side = "pupils" => nodes["students"] = <<>>

\* The inductive invariant behind NoDanglingCapture.
LoaderInvariant == TypeOK /\ NoDanglingCapture /\ RoomOK

-----------------------------------------------------------------------------
LEMMA InitLoader ==
  ASSUME Init
  PROVE  LoaderInvariant
  BY DEF Init, LoaderInvariant, TypeOK, NoDanglingCapture, RoomOK, NodeIds, Sides

\* The reserve for the whole file may move the vector, which is still empty.
LEMMA ReserveForFileKeeps ==
  ASSUME TypeOK, NoDanglingCapture, RoomOK, ReserveForFile
  PROVE  LoaderInvariant'
<1>1. Len(file[side]) \in Nat
  BY FileAssumption DEF TypeOK
<1>2. /\ nodes' = nodes /\ file' = file /\ side' = side /\ pc' = "load" /\ position' = 0
      /\ nodes[side] = <<>> /\ side \in Sides
  BY DEF ReserveForFile, Begin, RoomOK, TypeOK, input
<1>3. /\ capacity' \in [Sides -> Nat] /\ buffer' \in [Sides -> Nat]
      /\ Len(file[side]) <= capacity'[side]
      /\ \A s \in Sides : s # side => buffer'[s] = buffer[s]
  <2>1. capacity \in [Sides -> Nat] /\ buffer \in [Sides -> Nat]
    BY DEF TypeOK
  <2>2. CASE Len(file[side]) > capacity[side]
    <3>1. /\ capacity' = [capacity EXCEPT ![side] = Len(file[side])]
          /\ buffer' = [buffer EXCEPT ![side] = @ + 1]
      BY <2>2 DEF ReserveForFile, Begin, Reserve
    <3>2. QED
      BY <1>1, <1>2, <2>1, <3>1
  <2>3. CASE ~(Len(file[side]) > capacity[side])
    <3>1. capacity' = capacity /\ buffer' = buffer
      BY <2>3 DEF ReserveForFile, Begin, Reserve
    <3>2. QED
      BY <1>1, <1>2, <2>1, <2>3, <3>1
  <2>4. QED
    BY <2>2, <2>3
<1>4. TypeOK'
  BY <1>2, <1>3 DEF TypeOK, ReserveForFile, Begin, NodeIds, input
<1>5. NoDanglingCapture'
  BY <1>2, <1>3 DEF NoDanglingCapture, Dangling, NodeIds
<1>6. RoomOK'
  BY <1>1, <1>2, <1>3 DEF RoomOK
<1>7. QED
  BY <1>4, <1>5, <1>6 DEF LoaderInvariant

\* A node is made in the buffer that has room for the whole file.
LEMMA LoadKeeps ==
  ASSUME TypeOK, NoDanglingCapture, RoomOK, Load
  PROVE  LoaderInvariant'
<1>1. /\ file[side] \in Seq(Entries(side)) /\ nodes[side] \in Seq(Nodes(side))
      /\ side \in Sides /\ position \in Nat /\ capacity[side] \in Nat
      /\ buffer[side] \in Nat
  BY FileAssumption DEF TypeOK
<1>2. /\ position < Len(file[side]) /\ Len(nodes[side]) <= position
      /\ Len(file[side]) <= capacity[side] /\ pc = "load"
  BY DEF RoomOK, Load, AtNewNode, AtEntry
<1>3. ~(Len(nodes[side]) + 1 > capacity[side])
  BY <1>1, <1>2
<1>4. capacity' = capacity /\ buffer' = buffer
  BY <1>3 DEF Load, Reserve
<1>5. PICK unknown \in UnknownOutcomes :
        nodes' = [nodes EXCEPT ![side] =
          Append(@, [data |-> Data(side, Entry, unknown), made_in |-> buffer[side]])]
  BY <1>4 DEF Load
<1> DEFINE node == [data |-> Data(side, Entry, unknown), made_in |-> buffer[side]]
<1>6. node \in Nodes(side)
  <2>1. Entry \in Entries(side)
    BY <1>1, <1>2 DEF Entry
  <2>2. QED
    BY <1>1, <2>1 DEF Nodes
<1> HIDE DEF node
<1>7. /\ file' = file /\ side' = side /\ pc' = pc /\ position' = position + 1
      /\ edges' = edges /\ uuids' = uuids /\ count' = count + 1
  BY DEF Load, input
<1>8. /\ DOMAIN nodes' = Sides
      /\ nodes'[side] = Append(nodes[side], node)
      /\ \A s \in Sides : s # side => nodes'[s] = nodes[s]
  BY <1>1, <1>5 DEF TypeOK, node
<1>9. /\ nodes'[side] \in Seq(Nodes(side))
      /\ Len(nodes'[side]) = Len(nodes[side]) + 1
      /\ DOMAIN nodes'[side] = DOMAIN nodes[side] \cup {Len(nodes[side]) + 1}
      /\ \A i \in DOMAIN nodes[side] : nodes'[side][i] = nodes[side][i]
      /\ nodes'[side][Len(nodes[side]) + 1] = node
  BY <1>1, <1>6, <1>8
<1>10. TypeOK'
  <2>1. edges \subseteq NodeIds("pupils")' \X NodeIds("students")'
    BY <1>8, <1>9 DEF TypeOK, NodeIds, Sides
  <2>2. \A s \in Sides : nodes'[s] \in Seq(Nodes(s))
    BY <1>8, <1>9 DEF TypeOK
  <2>3. QED
    BY <1>1, <1>2, <1>4, <1>7, <1>8, <2>1, <2>2 DEF TypeOK
<1>11. NoDanglingCapture'
  <2>1. node.made_in = buffer[side]
    BY DEF node
  <2>2. QED
    BY <1>4, <1>8, <1>9, <2>1 DEF NoDanglingCapture, Dangling, NodeIds
<1>12. RoomOK'
  BY <1>1, <1>2, <1>4, <1>7, <1>8, <1>9 DEF RoomOK, Sides
<1>13. QED
  BY <1>10, <1>11, <1>12 DEF LoaderInvariant

LEMMA StepKeepsLoader ==
  ASSUME LoaderInvariant, [Next]_vars
  PROVE  LoaderInvariant'
<1> USE DEF LoaderInvariant
<1>1. CASE ReserveForFile
  BY <1>1, ReserveForFileKeeps
<1>2. CASE SkipOld \/ SkipUnlisted
  <2>1. position \in Nat /\ count \in Nat /\ Len(file[side]) \in Nat
    BY FileAssumption DEF TypeOK
  <2>2. QED
    BY <1>2, <2>1
    DEF TypeOK, NoDanglingCapture, RoomOK, SkipOld, SkipUnlisted, AtEntry, NodeIds,
        Dangling, input
<1>3. CASE Load
  BY <1>3, LoadKeeps
<1>4. CASE EndOfFile
  BY <1>4
  DEF TypeOK, NoDanglingCapture, RoomOK, EndOfFile, NodeIds, Dangling, Sides, input
<1>5. CASE CreateEdges
  <2>1. edges' \subseteq NodeIds("pupils") \X NodeIds("students")
    BY <1>5 DEF CreateEdges, AcceptablePairs, Edge
  <2>2. QED
    BY <1>5, <2>1
    DEF TypeOK, NoDanglingCapture, RoomOK, CreateEdges, NodeIds, Dangling, input
<1>6. CASE RunOutOfMemory
  BY <1>6 DEF TypeOK, NoDanglingCapture, RoomOK, RunOutOfMemory, NodeIds, Dangling, input
<1>7. CASE UNCHANGED vars
  BY <1>7 DEF TypeOK, NoDanglingCapture, RoomOK, NodeIds, Dangling, vars, input
<1>8. QED
  BY <1>1, <1>2, <1>3, <1>4, <1>5, <1>6, <1>7 DEF Next

\* The type invariant; in particular every edge refers to nodes that exist.
THEOREM LoaderTypeCorrect == Spec => []TypeOK
<1>1. Init => LoaderInvariant
  BY InitLoader
<1>2. LoaderInvariant /\ [Next]_vars => LoaderInvariant'
  BY StepKeepsLoader
<1>3. LoaderInvariant => TypeOK
  BY DEF LoaderInvariant
<1>4. QED
  BY <1>1, <1>2, <1>3, PTL DEF Spec

\* For every pair of files no acceptance function is ever called with the address
\* of freed memory: when create_edges runs, all nodes are where they were made.
THEOREM CapturesStayValid == Spec => []NoDanglingCapture
<1>1. Init => LoaderInvariant
  BY InitLoader
<1>2. LoaderInvariant /\ [Next]_vars => LoaderInvariant'
  BY StepKeepsLoader
<1>3. LoaderInvariant => NoDanglingCapture
  BY DEF LoaderInvariant
<1>4. QED
  BY <1>1, <1>2, <1>3, PTL DEF Spec

-----------------------------------------------------------------------------
(* Which edges there are. *)

\* A node has the data of an entry of its file.
DataOK ==
  \A s \in Sides : \A i \in NodeIds(s) :
    \E j \in DOMAIN file[s], unknown \in UnknownOutcomes :
      nodes[s][i].data = Data(s, file[s][j], unknown)

EdgesOK ==
  pc = "done" =>
    \A i \in NodeIds("pupils"), j \in NodeIds("students") :
      <<i, j>> \in edges <=>
        /\ PupilAccepts(nodes["pupils"][i].data, nodes["students"][j].data)
        /\ StudentAccepts(nodes["students"][j].data, nodes["pupils"][i].data)

EdgesInvariant == LoaderInvariant /\ DataOK /\ EdgesOK

\* Numbers that fit are not changed by narrowing.
LEMMA Narrowing ==
  ASSUME NEW m \in Nat, NEW n \in 0 .. m - 1
  PROVE  n % m = n
  OBVIOUS

\* The loop over the grades goes over those of the range, or over all.
LEMMA GradesOfOffer ==
  ASSUME NEW e \in StudentEntries, NumbersFit("students", e), NEW o \in e.offered,
         NEW grade \in MIN_POSSIBLE_GRADE .. MAX_POSSIBLE_GRADE
  PROVE  grade \in Grades(o) <=> IsOffered(o, grade)
<1>1. CASE o.grade = {}
  BY <1>1 DEF Grades, min, max, IsOffered
<1>2. CASE o.grade # {}
  <2>1. PICK g \in o.grade : TRUE
    BY <1>2
  <2>2. \A h \in o.grade : h = g
    BY <2>1, OfferAssumption
  <2>3. (CHOOSE h \in o.grade : TRUE) = g
    BY <2>1, <2>2
  <2>4. g.min \in 0 .. UnsignedModulus - 1 /\ g.max \in 0 .. UnsignedModulus - 1
    BY <2>1 DEF NumbersFit
  <2>5. min(o) = g.min /\ max(o) = g.max
    BY <1>2, <2>3, <2>4, Narrowing, WindowAssumption DEF min, max
  <2>6. IsOffered(o, grade) <=> g.min <= grade /\ grade <= g.max
    BY <2>1, <2>2 DEF IsOffered
  <2>7. QED
    BY <2>4, <2>5, <2>6 DEF Grades, MIN_POSSIBLE_GRADE, MAX_POSSIBLE_GRADE
<1>3. QED
  BY <1>1, <1>2

\* A pupil and a student that accept each other do so for an offer whose grades
\* contain the pupil's and whose name parses to the same as a requested one.
LEMMA AcceptedIffOffered ==
  ASSUME NEW e, NumbersFit("pupils", e), NEW f \in StudentEntries, NumbersFit("students", f),
         NEW x, NEW y
  PROVE  PupilAccepts(Data("pupils", e, x), Data("students", f, y))
           /\ StudentAccepts(Data("students", f, y), Data("pupils", e, x))
         <=> \E o \in f.offered : \E name \in e.requested :
               ParseSubject(o.name, y) = ParseSubject(name, x) /\ IsOffered(o, e.grade)
<1> DEFINE p == Data("pupils", e, x)
           t == Data("students", f, y)
<1>1. p.grade = e.grade
  <2>1. e.grade \in 0 .. GradeModulus - 1
    BY GradeAssumption, WindowAssumption DEF NumbersFit, MIN_POSSIBLE_GRADE, MAX_POSSIBLE_GRADE
  <2>2. QED
    BY <2>1, Narrowing, WindowAssumption DEF Data
<1>2. p.requested = {ParseSubject(name, x) : name \in e.requested}
  BY DEF Data
<1>3. t.offered = {<<ParseSubject(o.name, y), Grades(o)>> : o \in f.offered}
  BY DEF Data
<1> HIDE DEF p, t
<1>4. \A o \in f.offered : e.grade \in Grades(o) <=> IsOffered(o, e.grade)
  BY GradesOfOffer DEF NumbersFit
<1>5. ASSUME StudentAccepts(t, p)
      PROVE  \E o \in f.offered : \E name \in e.requested :
               ParseSubject(o.name, y) = ParseSubject(name, x) /\ IsOffered(o, e.grade)
  <2>1. PICK s \in t.offered : p.grade \in s[2] /\ s[1] \in p.requested
    BY <1>5 DEF StudentAccepts
  <2>2. PICK o \in f.offered : s = <<ParseSubject(o.name, y), Grades(o)>>
    BY <1>3, <2>1
  <2>3. e.grade \in Grades(o) /\ ParseSubject(o.name, y) \in p.requested
    BY <1>1, <2>1, <2>2
  <2>4. QED
    BY <1>2, <1>4, <2>3
<1>6. ASSUME NEW o \in f.offered, NEW name \in e.requested,
             ParseSubject(o.name, y) = ParseSubject(name, x), IsOffered(o, e.grade)
      PROVE  StudentAccepts(t, p) /\ PupilAccepts(p, t)
  <2>1. <<ParseSubject(o.name, y), Grades(o)>> \in t.offered
    BY <1>3
  <2>2. p.grade \in Grades(o) /\ ParseSubject(o.name, y) \in p.requested
    BY <1>1, <1>2, <1>4, <1>6
  <2>3. QED
    BY <2>1, <2>2 DEF StudentAccepts, PupilAccepts
<1>7. PupilAccepts(p, t) /\ StudentAccepts(t, p)
      <=> \E o \in f.offered : \E name \in e.requested :
            ParseSubject(o.name, y) = ParseSubject(name, x) /\ IsOffered(o, e.grade)
  BY <1>5, <1>6
<1>8. QED
  BY <1>7 DEF p, t

\* Where the student can help, whatever else is named, they accept each other; and
\* where they do, and all names are known, the student can help.
LEMMA AcceptedIffCanHelp ==
  ASSUME NEW e, NumbersFit("pupils", e), NEW f \in StudentEntries, NumbersFit("students", f),
         NEW x, NEW y,
         NEW accepted,
         accepted <=> PupilAccepts(Data("pupils", e, x), Data("students", f, y))
                        /\ StudentAccepts(Data("students", f, y), Data("pupils", e, x))
  PROVE  /\ CanHelp(f, e, Subjects) => accepted
         /\ accepted => \/ CanHelp(f, e, Subjects)
                        \/ ~(NamesAreKnown("pupils", e) /\ NamesAreKnown("students", f))
<1>1. accepted <=> \E o \in f.offered : \E name \in e.requested :
                     ParseSubject(o.name, y) = ParseSubject(name, x) /\ IsOffered(o, e.grade)
  BY AcceptedIffOffered
<1>2. ASSUME CanHelp(f, e, Subjects)
      PROVE  accepted
  <2>1. PICK o \in f.offered : o.name \in e.requested \cap Subjects /\ IsOffered(o, e.grade)
    BY <1>2 DEF CanHelp
  <2>2. ParseSubject(o.name, y) = ParseSubject(o.name, x)
    BY <2>1 DEF ParseSubject
  <2>3. QED
    BY <1>1, <2>1, <2>2
<1>3. ASSUME accepted, NamesAreKnown("pupils", e), NamesAreKnown("students", f)
      PROVE  CanHelp(f, e, Subjects)
  <2>1. PICK o \in f.offered, name \in e.requested :
          ParseSubject(o.name, y) = ParseSubject(name, x) /\ IsOffered(o, e.grade)
    BY <1>1, <1>3
  <2>2. o.name \in Subjects /\ name \in Subjects
    BY <1>3 DEF NamesAreKnown
  <2>3. o.name = name
    BY <2>1, <2>2 DEF ParseSubject
  <2>4. QED
    BY <2>1, <2>2, <2>3 DEF CanHelp
<1>4. QED
  BY <1>2, <1>3

LEMMA LoadKeepsData ==
  ASSUME LoaderInvariant, DataOK, Load
  PROVE  DataOK'
<1>1. /\ side \in Sides /\ DOMAIN nodes = Sides /\ position \in Nat
      /\ \A s \in Sides : nodes[s] \in Seq(Nodes(s)) /\ file[s] \in Seq(Entries(s))
  BY FileAssumption DEF LoaderInvariant, TypeOK
<1>2. position + 1 \in DOMAIN file[side] /\ file' = file
  BY <1>1 DEF Load, AtNewNode, AtEntry, input
<1>3. PICK unknown \in UnknownOutcomes :
        nodes' = [nodes EXCEPT ![side] =
          Append(@, [data |-> Data(side, Entry, unknown), made_in |-> buffer'[side]])]
  BY DEF Load
<1> DEFINE node == [data |-> Data(side, Entry, unknown), made_in |-> buffer'[side]]
<1>4. /\ nodes'[side] = Append(nodes[side], node)
      /\ \A s \in Sides : s # side => nodes'[s] = nodes[s]
  BY <1>1, <1>3
<1>5. node.data = Data(side, file[side][position + 1], unknown)
  BY DEF Entry
<1> HIDE DEF node
<1>6. \A i \in DOMAIN nodes'[side] :
        nodes'[side][i] = node \/ (i \in DOMAIN nodes[side] /\ nodes'[side][i] = nodes[side][i])
  BY <1>1, <1>4
<1>7. SUFFICES ASSUME NEW s \in Sides, NEW i \in DOMAIN nodes'[s]
               PROVE  \E j \in DOMAIN file[s], u \in UnknownOutcomes :
                        nodes'[s][i].data = Data(s, file[s][j], u)
  BY <1>2 DEF DataOK, NodeIds
<1>8. CASE s = side /\ nodes'[side][i] = node
  BY <1>2, <1>5, <1>8
<1>9. CASE i \in DOMAIN nodes[s] /\ nodes'[s][i] = nodes[s][i]
  BY <1>9 DEF DataOK, NodeIds
<1>10. QED
  BY <1>4, <1>6, <1>7, <1>8, <1>9

\* No function dangles, so that the garbage does not matter.
LEMMA CreateEdgesIsExact ==
  ASSUME LoaderInvariant, CreateEdges
  PROVE  EdgesOK'
<1>1. PICK garbage \in BOOLEAN : edges' = {Edge(e[1], e[2]) : e \in AcceptablePairs(garbage)}
  BY DEF CreateEdges
<1>2. nodes' = nodes
  BY DEF CreateEdges
<1>3. \A i \in NodeIds("pupils"), j \in NodeIds("students") :
        ~Dangling("pupils", i) /\ ~Dangling("students", j)
  BY DEF LoaderInvariant, NoDanglingCapture, Sides
<1>4. ASSUME NEW i \in NodeIds("pupils"), NEW j \in NodeIds("students")
      PROVE  <<i, j>> \in edges' <=>
               /\ PupilAccepts(nodes["pupils"][i].data, nodes["students"][j].data)
               /\ StudentAccepts(nodes["students"][j].data, nodes["pupils"][i].data)
  <2>1. <<i, j>> \in edges' <=> <<i, j>> \in AcceptablePairs(garbage)
    BY <1>1 DEF Edge, AcceptablePairs
  <2>2. QED
    BY <1>3, <1>4, <2>1 DEF AcceptablePairs
<1>5. QED
  BY <1>2, <1>4 DEF EdgesOK, NodeIds

LEMMA StepKeepsEdges ==
  ASSUME EdgesInvariant, [Next]_vars
  PROVE  EdgesInvariant'
<1> USE DEF EdgesInvariant
<1>1. LoaderInvariant'
  BY StepKeepsLoader
<1>2. CASE Load
  <2>1. pc' # "done"
    BY <1>2 DEF Load, AtNewNode, AtEntry
  <2>2. QED
    BY <1>1, <1>2, <2>1, LoadKeepsData DEF EdgesOK
<1>3. CASE CreateEdges
  <2>1. DataOK'
    BY <1>3 DEF CreateEdges, DataOK, NodeIds, input
  <2>2. QED
    BY <1>1, <1>3, <2>1, CreateEdgesIsExact
<1>4. CASE ReserveForFile \/ SkipOld \/ SkipUnlisted \/ RunOutOfMemory \/ EndOfFile
  BY <1>1, <1>4 DEF ReserveForFile, Begin, SkipOld, SkipUnlisted, RunOutOfMemory, AtNewNode, AtEntry,
                    EndOfFile, DataOK, EdgesOK, NodeIds, input
<1>5. CASE UNCHANGED vars
  BY <1>1, <1>5 DEF vars, input, DataOK, EdgesOK, NodeIds
<1>6. QED
  BY <1>2, <1>3, <1>4, <1>5 DEF Next

\* The entry that a node was loaded from is found again by its uuid.
LEMMA EntryIsFound ==
  ASSUME DataOK, NEW s \in Sides, ListsNobodyTwice(s), NEW i \in NodeIds(s)
  PROVE  \E j \in DOMAIN file[s], unknown \in UnknownOutcomes :
           EntryOf(s, i) = file[s][j] /\ nodes[s][i].data = Data(s, file[s][j], unknown)
<1>1. PICK j \in DOMAIN file[s], unknown \in UnknownOutcomes :
        nodes[s][i].data = Data(s, file[s][j], unknown)
  BY DEF DataOK
<1>2. nodes[s][i].data.uuid = file[s][j].uuid
  BY <1>1 DEF Data
<1>3. \A e \in {file[s][k] : k \in DOMAIN file[s]} : e.uuid = file[s][j].uuid => e = file[s][j]
  BY DEF ListsNobodyTwice
<1>4. EntryOf(s, i) = file[s][j]
  BY <1>2, <1>3 DEF EntryOf
<1>5. QED
  BY <1>1, <1>4

\* For all files, filters and ranges of grades: between the nodes that were loaded
\* there is an edge where the files say that the student can help in a subject the
\* program knows, and elsewhere only where a subject is named that it does not know.
THEOREM EdgesAreExact == Spec => []EdgesAreTheAcceptablePairs
<1>1. Init => EdgesInvariant
  <2>1. Init => DataOK /\ EdgesOK
    BY DEF Init, DataOK, EdgesOK, NodeIds
  <2>2. QED
    BY <2>1, InitLoader DEF EdgesInvariant
<1>2. EdgesInvariant /\ [Next]_vars => EdgesInvariant'
  BY StepKeepsEdges
<1>3. EdgesInvariant => EdgesAreTheAcceptablePairs
  <2>1. SUFFICES ASSUME EdgesInvariant, pc = "done", \A s \in Sides : ListsNobodyTwice(s),
                        NEW i \in NodeIds("pupils"), NEW j \in NodeIds("students"),
                        NumbersFit("pupils", EntryOf("pupils", i)),
                        NumbersFit("students", EntryOf("students", j))
                 PROVE  /\ CanHelp(EntryOf("students", j), EntryOf("pupils", i), Subjects) =>
                             <<i, j>> \in edges
                        /\ <<i, j>> \in edges =>
                             \/ CanHelp(EntryOf("students", j), EntryOf("pupils", i), Subjects)
                             \/ ~(/\ NamesAreKnown("pupils", EntryOf("pupils", i))
                                  /\ NamesAreKnown("students", EntryOf("students", j)))
    BY DEF EdgesAreTheAcceptablePairs
  <2>2. PICK k \in DOMAIN file["pupils"], x \in UnknownOutcomes :
          /\ EntryOf("pupils", i) = file["pupils"][k]
          /\ nodes["pupils"][i].data = Data("pupils", file["pupils"][k], x)
    BY <2>1, EntryIsFound DEF EdgesInvariant, Sides
  <2>3. PICK l \in DOMAIN file["students"], y \in UnknownOutcomes :
          /\ EntryOf("students", j) = file["students"][l]
          /\ nodes["students"][j].data = Data("students", file["students"][l], y)
    BY <2>1, EntryIsFound DEF EdgesInvariant, Sides
  <2>4. file["students"][l] \in StudentEntries
    BY <2>1, <2>3, FileAssumption DEF EdgesInvariant, LoaderInvariant, TypeOK, Sides, Entries
  <2>5. <<i, j>> \in edges <=>
          /\ PupilAccepts(nodes["pupils"][i].data, nodes["students"][j].data)
          /\ StudentAccepts(nodes["students"][j].data, nodes["pupils"][i].data)
    BY <2>1 DEF EdgesInvariant, EdgesOK
  <2>6. QED
    BY <2>1, <2>2, <2>3, <2>4, <2>5, AcceptedIffCanHelp
<1>4. QED
  BY <1>1, <1>2, <1>3, PTL DEF Spec

-----------------------------------------------------------------------------
(* What is loaded. *)

\* The entries to load among the first n.
ToLoad(s, n) == {j \in NewestListed(s) : j <= n}

\* They have been loaded, and nothing else.
LoadedUpTo(s, n) ==
  /\ Len(nodes[s]) = Cardinality(ToLoad(s, n))
  /\ \A j \in ToLoad(s, n) :
       nodes[s][Cardinality(ToLoad(s, j))].data.uuid = file[s][j].uuid

\* count is the position until the window is reached; it may fall behind then, but
\* not to before the window.
CountOK ==
  IF position <= FirstInWindow(side) THEN count = position
                                     ELSE count >= FirstInWindow(side)

ProgressOK ==
  /\ pc = "load" => CountOK /\ LoadedUpTo(side, position)
  /\ side = "students" => LoadedUpTo("pupils", Len(file["pupils"]))
  /\ pc \in {"create_edges", "done"} =>
       side = "students" /\ LoadedUpTo("students", Len(file["students"]))

LoadingInvariant == LoaderInvariant /\ ProgressOK

\* The first entry of the window: the unsigned subtraction of a window that is longer
\* than the file yields a number beyond its end.
LEMMA WindowBegins ==
  ASSUME NEW s \in Sides, file[s] \in Files(s)
  PROVE  /\ FirstInWindow(s) \in Nat
         /\ Window <= Len(file[s]) => FirstInWindow(s) = Len(file[s]) - Window
         /\ Window > Len(file[s]) => FirstInWindow(s) >= Len(file[s])
<1>1. PICK l \in Nat : l = Len(file[s]) /\ l < SizeModulus
  BY FileAssumption, SizeAssumption
<1>2. PICK w, m : /\ w = Window /\ m = SizeModulus
                  /\ w \in Nat /\ m \in Nat /\ m > 0 /\ w <= m
  BY WindowAssumption, SizeAssumption
<1>3. PICK f : f = FirstInWindow(s)
  OBVIOUS
<1>4. f = (l - w) % m
  BY <1>1, <1>2, <1>3 DEF FirstInWindow
<1>5. CASE w <= l
  <2>1. l - w \in 0 .. m - 1 /\ l - w = m * 0 + (l - w)
    <3>1. l - w \in Int /\ 0 <= l - w /\ l - w < m /\ m * 0 = 0
      BY <1>1, <1>2, <1>5
    <3>2. QED
      BY <1>2, <3>1
  <2>2. f = l - w
    BY <1>2, <1>4, <2>1, RemainderIs
  <2>3. QED
    BY <1>1, <1>2, <1>3, <1>5, <2>1, <2>2
<1>6. CASE w > l /\ w - l < m
  <2>1. (l - w) + m \in 0 .. m - 1 /\ l - w = m * (-1) + ((l - w) + m)
    <3>1. PICK d : d = l - w
      OBVIOUS
    <3>2. d \in Int /\ d < 0 /\ 0 < d + m
      BY <1>1, <1>2, <1>6, <3>1
    <3>3. m * (-1) = -m
      BY <1>2
    <3>4. d + m \in 0 .. m - 1 /\ d = m * (-1) + (d + m)
      BY <1>2, <3>2, <3>3
    <3>5. QED
      BY <3>1, <3>4
  <2>2. f = (l - w) + m
    BY <1>2, <1>4, <2>1, RemainderIs
  <2>3. f \in Nat /\ f >= l /\ ~(w <= l)
    BY <1>1, <1>2, <1>6, <2>1, <2>2
  <2>4. QED
    BY <1>1, <1>2, <1>3, <2>3
<1>7. CASE w - l = m
  <2>1. l = 0 /\ l - w = m * (-1) + 0 /\ 0 \in 0 .. m - 1
    BY <1>1, <1>2, <1>7
  <2>2. f = 0
    BY <1>2, <1>4, <2>1, RemainderIs
  <2>3. QED
    BY <1>1, <1>2, <1>3, <1>7, <2>1, <2>2
<1>8. QED
  BY <1>1, <1>2, <1>5, <1>6, <1>7

\* Counting up to n, and one further.
LEMMA ToLoadFacts ==
  ASSUME NEW s \in Sides, file[s] \in Seq(Entries(s)), NEW n \in Nat
  PROVE  /\ IsFiniteSet(ToLoad(s, n)) /\ Cardinality(ToLoad(s, n)) \in Nat
         /\ n + 1 \in NewestListed(s) =>
              /\ ToLoad(s, n + 1) = ToLoad(s, n) \cup {n + 1}
              /\ Cardinality(ToLoad(s, n + 1)) = Cardinality(ToLoad(s, n)) + 1
         /\ n + 1 \notin NewestListed(s) => ToLoad(s, n + 1) = ToLoad(s, n)
         /\ \A j \in ToLoad(s, n) :
              Cardinality(ToLoad(s, j)) \in 1 .. Cardinality(ToLoad(s, n))
<1>1. NewestListed(s) \subseteq 1 .. Len(file[s]) /\ Len(file[s]) \in Nat
  BY DEF NewestListed
<1>2. IsFiniteSet(NewestListed(s))
  <2>1. PICK l \in Nat : l = Len(file[s])
    BY <1>1
  <2>2. IsFiniteSet(1 .. l)
    BY FS_Interval
  <2>3. QED
    BY <1>1, <2>1, <2>2, FS_Subset
<1>3. \A m : ToLoad(s, m) \subseteq NewestListed(s)
  BY DEF ToLoad
<1>4. \A m : IsFiniteSet(ToLoad(s, m)) /\ Cardinality(ToLoad(s, m)) \in Nat
  BY <1>2, <1>3, FS_Subset, FS_CardinalityType
<1>5. ASSUME n + 1 \in NewestListed(s)
      PROVE  /\ ToLoad(s, n + 1) = ToLoad(s, n) \cup {n + 1}
             /\ Cardinality(ToLoad(s, n + 1)) = Cardinality(ToLoad(s, n)) + 1
  <2>1. ToLoad(s, n + 1) = ToLoad(s, n) \cup {n + 1} /\ n + 1 \notin ToLoad(s, n)
    BY <1>1, <1>5 DEF ToLoad
  <2>2. PICK S : S = ToLoad(s, n)
    OBVIOUS
  <2>3. Cardinality(S \cup {n + 1}) = Cardinality(S) + 1
    BY <1>4, <2>1, <2>2, FS_AddElement
  <2>4. QED
    BY <2>1, <2>2, <2>3, Zenon
<1>6. n + 1 \notin NewestListed(s) => ToLoad(s, n + 1) = ToLoad(s, n)
  BY <1>1 DEF ToLoad
<1>7. ASSUME NEW j \in ToLoad(s, n)
      PROVE  Cardinality(ToLoad(s, j)) \in 1 .. Cardinality(ToLoad(s, n))
  <2>1. j \in Nat /\ j <= n /\ j \in ToLoad(s, j) /\ ToLoad(s, j) \subseteq ToLoad(s, n)
    BY <1>1 DEF ToLoad
  <2>2. PICK S, T : S = ToLoad(s, j) /\ T = ToLoad(s, n)
    OBVIOUS
  <2>3. /\ IsFiniteSet(S) /\ IsFiniteSet(T) /\ Cardinality(S) \in Nat /\ Cardinality(T) \in Nat
        /\ j \in S /\ S \subseteq T
    BY <1>4, <2>1, <2>2
  <2>4. Cardinality(S) <= Cardinality(T) /\ Cardinality(S) # 0
    BY <2>3, FS_Subset, FS_EmptySet
  <2>5. QED
    BY <2>2, <2>3, <2>4
<1>8. QED
  BY <1>4, <1>5, <1>6, <1>7

\* The files and the lists stay as they are, and so does what is to be loaded.
LEMMA SameFiles ==
  ASSUME UNCHANGED input
  PROVE  /\ file' = file
         /\ \A s : NewestListed(s)' = NewestListed(s) /\ FirstInWindow(s)' = FirstInWindow(s)
         /\ \A s, n : ToLoad(s, n)' = ToLoad(s, n)
         /\ \A s : nodes'[s] = nodes[s] =>
                     \A n : LoadedUpTo(s, n)' <=> LoadedUpTo(s, n)
<1>1. file' = file /\ uuids' = uuids
  BY DEF input
<1>2. \A s : NewestListed(s)' = NewestListed(s) /\ FirstInWindow(s)' = FirstInWindow(s)
  BY <1>1 DEF NewestListed, FirstInWindow, Listed
<1>3. \A s, n : ToLoad(s, n)' = ToLoad(s, n)
  BY <1>2 DEF ToLoad
<1>4. \A s : nodes'[s] = nodes[s] => \A n : LoadedUpTo(s, n)' <=> LoadedUpTo(s, n)
  BY <1>1, <1>3 DEF LoadedUpTo
<1>5. QED
  BY <1>1, <1>2, <1>3, <1>4

\* An entry is in the window when the program thinks so.
LEMMA EntryInWindow ==
  ASSUME LoaderInvariant, CountOK, AtEntry
  PROVE  /\ side \in Sides /\ position \in Nat /\ count \in Nat /\ FirstInWindow(side) \in Nat
         /\ file[side] \in Seq(Entries(side)) /\ position + 1 \in DOMAIN file[side]
         /\ BeforeWindow <=> position < FirstInWindow(side)
         /\ position + 1 \in NewestListed(side) <=> ~BeforeWindow /\ Listed(side, Entry)
<1>1. /\ side \in Sides /\ position \in Nat /\ count \in Nat
      /\ file[side] \in Files(side) /\ file[side] \in Seq(Entries(side))
  BY FileAssumption DEF LoaderInvariant, TypeOK
<1>2. position < Len(file[side]) /\ Len(file[side]) \in Nat /\ Window \in Nat
  BY <1>1, WindowAssumption DEF AtEntry
<1>3. position + 1 \in DOMAIN file[side]
  BY <1>1, <1>2
<1>4. PICK f, l, p : f = FirstInWindow(side) /\ l = Len(file[side]) /\ p = position
  OBVIOUS
<1>5. /\ f \in Nat
      /\ Window <= l => f = l - Window
      /\ Window > l => f >= l
  BY <1>1, <1>4, WindowBegins
<1>6. BeforeWindow <=> p < f
  BY <1>1, <1>4, <1>5 DEF BeforeWindow, CountOK
<1>7. Window <= l /\ p + 1 > l - Window <=> ~(p < f)
  BY <1>1, <1>2, <1>4, <1>5
<1>8. p + 1 \in NewestListed(side)
      <=> Window <= l /\ p + 1 > l - Window /\ Listed(side, Entry)
  BY <1>3, <1>4 DEF NewestListed, Entry
<1>9. QED
  BY <1>1, <1>3, <1>4, <1>5, <1>6, <1>7, <1>8

\* count keeps up to the window, and does not fall back before it.
LEMMA CountKeepsUp ==
  ASSUME LoaderInvariant, CountOK, AtEntry,
         UNCHANGED input, side' = side, position' = position + 1,
         \/ BeforeWindow /\ count' = count + 1
         \/ ~BeforeWindow /\ count' \in {count, count + 1}
  PROVE  CountOK'
<1>1. PICK f, p, c : f = FirstInWindow(side) /\ p = position /\ c = count
  OBVIOUS
<1>2. f \in Nat /\ p \in Nat /\ c \in Nat /\ (BeforeWindow <=> p < f)
  BY <1>1, EntryInWindow
<1>3. IF p <= f THEN c = p ELSE c >= f
  BY <1>1 DEF CountOK
<1>4. FirstInWindow(side)' = f
  BY <1>1, SameFiles
<1>5. IF p + 1 <= f THEN count' = p + 1 ELSE count' >= f
  BY <1>1, <1>2, <1>3
<1>6. QED
  BY <1>1, <1>4, <1>5 DEF CountOK

\* An entry that is skipped is none of those to load.
LEMMA SkipKeepsProgress ==
  ASSUME LoadingInvariant, SkipOld \/ SkipUnlisted
  PROVE  ProgressOK'
<1>1. /\ pc = "load" /\ pc' = "load" /\ AtEntry /\ UNCHANGED input /\ side' = side
      /\ position' = position + 1 /\ nodes' = nodes
      /\ BeforeWindow \/ ~Listed(side, Entry)
      /\ \/ BeforeWindow /\ count' = count + 1
         \/ ~BeforeWindow /\ count' \in {count, count + 1}
  BY DEF SkipOld, SkipUnlisted, AtEntry
<1>2. LoaderInvariant /\ CountOK /\ LoadedUpTo(side, position)
  BY <1>1 DEF LoadingInvariant, ProgressOK
<1>3. CountOK'
  BY <1>1, <1>2, CountKeepsUp
<1>4. /\ position + 1 \notin NewestListed(side) /\ side \in Sides /\ position \in Nat
      /\ file[side] \in Seq(Entries(side))
  BY <1>1, <1>2, EntryInWindow
<1>5. ToLoad(side, position + 1) = ToLoad(side, position)
  BY <1>4, ToLoadFacts
<1>6. LoadedUpTo(side, position + 1)
  BY <1>2, <1>5 DEF LoadedUpTo
<1>7. LoadedUpTo(side, position)'
  BY <1>1, <1>6, SameFiles
<1>8. QED
  BY <1>1, <1>3, <1>7, SameFiles DEF LoadingInvariant, ProgressOK

\* The entry that is loaded is the next of them.
LEMMA LoadKeepsProgress ==
  ASSUME LoadingInvariant, Load
  PROVE  ProgressOK'
<1>1. /\ pc = "load" /\ pc' = "load" /\ AtEntry /\ UNCHANGED input /\ side' = side
      /\ position' = position + 1 /\ count' = count + 1
      /\ ~BeforeWindow /\ Listed(side, Entry)
  BY DEF Load, AtNewNode, AtEntry
<1>2. LoaderInvariant /\ CountOK /\ LoadedUpTo(side, position)
  BY <1>1 DEF LoadingInvariant, ProgressOK
<1>3. CountOK'
  BY <1>1, <1>2, CountKeepsUp
<1>4. PICK s, n : s = side /\ n = position + 1
  OBVIOUS
<1>5. /\ n \in NewestListed(s) /\ s \in Sides /\ position \in Nat
      /\ file[s] \in Seq(Entries(s)) /\ n = position + 1 /\ n \in Nat
  BY <1>1, <1>2, <1>4, EntryInWindow
<1>6. PICK node : /\ nodes'[s] = Append(nodes[s], node)
                  /\ \A z \in Sides : z # s => nodes'[z] = nodes[z]
                  /\ node.data.uuid = file[s][n].uuid
  <2>1. PICK unknown \in UnknownOutcomes :
          nodes' = [nodes EXCEPT ![side] =
            Append(@, [data |-> Data(side, Entry, unknown), made_in |-> buffer'[side]])]
    BY DEF Load
  <2>2. PICK node : node = [data |-> Data(side, Entry, unknown), made_in |-> buffer'[side]]
    OBVIOUS
  <2>3. DOMAIN nodes = Sides
    BY <1>2 DEF LoaderInvariant, TypeOK
  <2>4. /\ nodes'[s] = Append(nodes[s], node)
        /\ \A z \in Sides : z # s => nodes'[z] = nodes[z]
    BY <1>4, <1>5, <2>1, <2>2, <2>3
  <2>5. node.data.uuid = file[s][n].uuid
    BY <1>4, <2>2 DEF Data, Entry
  <2>6. QED
    BY <2>4, <2>5
<1>7. nodes[s] \in Seq(Nodes(s))
  BY <1>2, <1>5 DEF LoaderInvariant, TypeOK
<1>8. PICK k : k = Len(nodes[s]) /\ k = Cardinality(ToLoad(s, position)) /\ k \in Nat
  BY <1>2, <1>4, <1>7 DEF LoadedUpTo
<1>9. /\ ToLoad(s, n) = ToLoad(s, position) \cup {n}
      /\ Cardinality(ToLoad(s, n)) = k + 1
      /\ \A j \in ToLoad(s, position) : Cardinality(ToLoad(s, j)) \in 1 .. k
  BY <1>5, <1>8, ToLoadFacts
<1>10. /\ Len(nodes'[s]) = k + 1 /\ nodes'[s][k + 1] = node
       /\ \A i \in 1 .. k : nodes'[s][i] = nodes[s][i]
  <2>1. PICK T, list, longer : T = Nodes(s) /\ list = nodes[s] /\ longer = nodes'[s]
    OBVIOUS
  <2>2. list \in Seq(T) /\ longer = Append(list, node) /\ k = Len(list) /\ k \in Nat
    BY <1>6, <1>7, <1>8, <2>1
  <2>3. /\ Len(longer) = k + 1 /\ longer[k + 1] = node
        /\ \A i \in 1 .. k : longer[i] = list[i]
    BY <2>2
  <2>4. QED
    BY <2>1, <2>3
<1>11. ASSUME NEW j \in ToLoad(s, n)
       PROVE  nodes'[s][Cardinality(ToLoad(s, j))].data.uuid = file[s][j].uuid
  <2>1. CASE j = n
    BY <1>6, <1>9, <1>10, <2>1
  <2>2. CASE j \in ToLoad(s, position)
    <3>1. nodes[s][Cardinality(ToLoad(s, j))].data.uuid = file[s][j].uuid
      BY <1>2, <1>4, <2>2 DEF LoadedUpTo
    <3>2. QED
      BY <1>9, <1>10, <2>2, <3>1
  <2>3. QED
    BY <1>9, <2>1, <2>2
<1>12. LoadedUpTo(side, position)'
  BY <1>1, <1>4, <1>9, <1>10, <1>11, SameFiles DEF LoadedUpTo
<1>13. s = "students" => nodes'["pupils"] = nodes["pupils"]
  BY <1>6 DEF Sides
<1>14. QED
  BY <1>1, <1>3, <1>4, <1>12, <1>13, SameFiles DEF LoadingInvariant, ProgressOK

LEMMA StepKeepsProgress ==
  ASSUME LoadingInvariant, [Next]_vars
  PROVE  LoadingInvariant'
<1>1. LoaderInvariant /\ ProgressOK /\ LoaderInvariant'
  BY StepKeepsLoader DEF LoadingInvariant
<1>2. side \in Sides /\ file[side] \in Files(side) /\ file[side] \in Seq(Entries(side))
      /\ position \in Nat
  BY <1>1, FileAssumption DEF LoaderInvariant, TypeOK
<1>3. CASE ReserveForFile
  <2>1. /\ UNCHANGED input /\ nodes' = nodes /\ side' = side /\ pc = "reserve" /\ pc' = "load"
        /\ position' = 0 /\ count' = 0 /\ nodes[side] = <<>>
    BY <1>1, <1>3 DEF ReserveForFile, Begin, LoaderInvariant, RoomOK
  <2>2. FirstInWindow(side)' = FirstInWindow(side) /\ FirstInWindow(side) \in Nat
    BY <1>2, <2>1, WindowBegins, SameFiles
  <2>3. CountOK'
    BY <2>1, <2>2 DEF CountOK
  <2>4. ToLoad(side, 0) = {}
    BY <1>2 DEF ToLoad, NewestListed
  <2>5. LoadedUpTo(side, 0)
    BY <2>1, <2>4, FS_EmptySet DEF LoadedUpTo
  <2>6. LoadedUpTo(side, position)'
    BY <2>1, <2>5, SameFiles
  <2>7. QED
    BY <1>1, <2>1, <2>3, <2>6, SameFiles DEF LoadingInvariant, ProgressOK
<1>4. CASE SkipOld \/ SkipUnlisted
  BY <1>1, <1>4, SkipKeepsProgress DEF LoadingInvariant
<1>5. CASE Load
  BY <1>1, <1>5, LoadKeepsProgress DEF LoadingInvariant
<1>6. CASE EndOfFile
  <2>1. /\ UNCHANGED input /\ nodes' = nodes /\ pc = "load" /\ position = Len(file[side])
        /\ IF side = "pupils" THEN side' = "students" /\ pc' = "reserve"
                              ELSE side' = side /\ pc' = "create_edges"
    BY <1>6 DEF EndOfFile
  <2>2. LoadedUpTo(side, Len(file[side]))
    BY <1>1, <2>1 DEF ProgressOK
  <2>3. CASE side = "pupils"
    BY <1>1, <2>1, <2>2, <2>3, SameFiles DEF LoadingInvariant, ProgressOK
  <2>4. CASE side = "students"
    BY <1>1, <2>1, <2>2, <2>4, SameFiles DEF LoadingInvariant, ProgressOK
  <2>5. QED
    BY <1>2, <2>3, <2>4 DEF Sides
<1>7. CASE CreateEdges
  BY <1>1, <1>7, SameFiles DEF LoadingInvariant, ProgressOK, CreateEdges
<1>8. CASE RunOutOfMemory
  BY <1>1, <1>8, SameFiles DEF LoadingInvariant, ProgressOK, RunOutOfMemory
<1>9. CASE UNCHANGED vars
  <2>1. UNCHANGED <<input, nodes, position, count, side, pc>>
    BY <1>9 DEF vars, input
  <2>2. CountOK' <=> CountOK
    BY <2>1, SameFiles DEF CountOK
  <2>3. QED
    BY <1>1, <2>1, <2>2, SameFiles DEF LoadingInvariant, ProgressOK
<1>10. QED
  BY <1>3, <1>4, <1>5, <1>6, <1>7, <1>8, <1>9 DEF Next

\* For all files and lists: of the last entries of a file the listed ones are loaded,
\* in their order, and of a file that is shorter than the window none.
THEOREM NewestListedAreLoaded == Spec => []LoadsNewestListed
<1>1. Init => LoadingInvariant
  <2>1. Init => ProgressOK
    BY DEF Init, ProgressOK
  <2>2. QED
    BY <2>1, InitLoader DEF LoadingInvariant
<1>2. LoadingInvariant /\ [Next]_vars => LoadingInvariant'
  BY StepKeepsProgress
<1>3. LoadingInvariant => LoadsNewestListed
  <2>1. SUFFICES ASSUME LoadingInvariant, pc = "done", NEW s \in Sides
                 PROVE  /\ Len(nodes[s]) = Cardinality(NewestListed(s))
                        /\ \A j \in NewestListed(s) :
                             nodes[s][Cardinality({i \in NewestListed(s) : i <= j})].data.uuid
                               = file[s][j].uuid
    BY DEF LoadsNewestListed
  <2>2. LoadedUpTo(s, Len(file[s])) /\ file[s] \in Seq(Entries(s))
    BY <2>1, FileAssumption DEF LoadingInvariant, ProgressOK, LoaderInvariant, TypeOK, Sides
  <2>3. ToLoad(s, Len(file[s])) = NewestListed(s)
    BY <2>2 DEF ToLoad, NewestListed
  <2>4. QED
    BY <2>2, <2>3, Zenon DEF LoadedUpTo, ToLoad
<1>4. QED
  BY <1>1, <1>2, <1>3, PTL DEF Spec

-----------------------------------------------------------------------------
(* What brings the program down. *)

\* No range of the entries that were gone over is endless while the loop goes on.
EndlessOK ==
  /\ side = "students" /\ pc = "load" =>
       \A j \in ToLoad("students", position) : ~HasEndlessRange(file["students"][j])
  /\ pc \in {"create_edges", "done"} =>
       \A j \in NewestListed("students") : ~HasEndlessRange(file["students"][j])
  /\ pc = "terminated" =>
       \E j \in NewestListed("students") : HasEndlessRange(file["students"][j])

StoppingInvariant == LoadingInvariant /\ EndlessOK

\* The range the program loops over is endless when the one in the file is.
LEMMA EndlessInFile ==
  ASSUME NEW e \in StudentEntries
  PROVE  RangeIsEndless("students", e) <=> HasEndlessRange(e)
<1>1. ASSUME NEW o \in e.offered
      PROVE  max(o) = UnsignedModulus - 1
             <=> \E g \in o.grade : g.max % UnsignedModulus = UnsignedModulus - 1
  <2>1. CASE o.grade = {}
    BY <2>1, GradeAssumption, WindowAssumption DEF max, MAX_POSSIBLE_GRADE
  <2>2. CASE o.grade # {}
    <3>1. PICK g \in o.grade : TRUE
      BY <2>2
    <3>2. \A h \in o.grade : h = g
      BY <3>1, OfferAssumption
    <3>3. (CHOOSE h \in o.grade : TRUE) = g
      BY <3>1, <3>2
    <3>4. max(o) = g.max % UnsignedModulus
      BY <2>2, <3>3 DEF max
    <3>5. QED
      BY <3>1, <3>2, <3>4
  <2>3. QED
    BY <2>1, <2>2
<1>2. QED
  BY <1>1 DEF RangeIsEndless, HasEndlessRange

LEMMA StepKeepsStopping ==
  ASSUME StoppingInvariant, [Next]_vars
  PROVE  StoppingInvariant'
<1>1. LoadingInvariant /\ EndlessOK /\ LoadingInvariant'
  BY StepKeepsProgress DEF StoppingInvariant
<1>2. /\ side \in Sides /\ position \in Nat
      /\ \A s \in Sides : file[s] \in Seq(Entries(s))
  BY <1>1, FileAssumption DEF LoadingInvariant, LoaderInvariant, TypeOK
<1>3. CASE ReserveForFile
  <2>1. /\ UNCHANGED input /\ side' = side /\ pc' = "load" /\ position' = 0
    BY <1>3 DEF ReserveForFile, Begin
  <2>2. ToLoad("students", 0) = {}
    BY <1>2 DEF ToLoad, NewestListed
  <2>3. QED
    BY <1>1, <2>1, <2>2, SameFiles DEF EndlessOK, StoppingInvariant
<1>4. ASSUME SkipOld \/ SkipUnlisted \/ Load
      PROVE  EndlessOK'
  <2>1. /\ pc = "load" /\ pc' = "load" /\ AtEntry /\ UNCHANGED input /\ side' = side
        /\ position' = position + 1
        /\ \/ BeforeWindow \/ ~Listed(side, Entry)
           \/ ~RangeIsEndless(side, Entry)
    BY <1>4 DEF SkipOld, SkipUnlisted, Load, AtNewNode, AtEntry
  <2>2. CountOK /\ LoaderInvariant
    BY <1>1, <2>1 DEF LoadingInvariant, ProgressOK
  <2>3. SUFFICES ASSUME side = "students", NEW j \in ToLoad("students", position + 1)
                 PROVE  ~HasEndlessRange(file["students"][j])
    BY <2>1, SameFiles DEF EndlessOK
  <2>4. CASE j \in ToLoad("students", position)
    BY <1>1, <2>1, <2>3, <2>4 DEF EndlessOK
  <2>5. CASE j = position + 1
    <3>1. ~BeforeWindow /\ Listed(side, Entry)
      BY <2>1, <2>2, <2>3, <2>5, EntryInWindow DEF ToLoad
    <3>2. Entry = file["students"][j] /\ Entry \in StudentEntries
      <4>1. position + 1 \in DOMAIN file["students"] /\ file["students"] \in Seq(Entries("students"))
        BY <2>1, <2>2, <2>3, EntryInWindow
      <4>2. QED
        BY <2>3, <2>5, <4>1 DEF Entry, Entries
    <3>3. QED
      BY <2>1, <2>3, <3>1, <3>2, EndlessInFile
  <2>6. j \in ToLoad("students", position) \/ j = position + 1
    <3>1. j \in Nat /\ j <= position + 1 /\ j \in NewestListed("students")
      BY <1>2, <2>3 DEF ToLoad, NewestListed, Sides
    <3>2. QED
      BY <1>2, <3>1 DEF ToLoad
  <2>7. QED
    BY <2>4, <2>5, <2>6
<1>5. CASE RunOutOfMemory
  <2>1. /\ pc' = "terminated" /\ AtEntry /\ UNCHANGED input /\ side' = side /\ pc = "load"
        /\ ~BeforeWindow /\ Listed(side, Entry) /\ RangeIsEndless(side, Entry)
    BY <1>5 DEF RunOutOfMemory, AtNewNode, AtEntry
  <2>2. CountOK /\ LoaderInvariant
    BY <1>1, <2>1 DEF LoadingInvariant, ProgressOK
  <2>3. side = "students"
    BY <2>1 DEF RangeIsEndless
  <2>4. position + 1 \in NewestListed("students")
    BY <2>1, <2>2, <2>3, EntryInWindow
  <2>5. Entry = file["students"][position + 1] /\ Entry \in StudentEntries
    <3>1. position + 1 \in DOMAIN file["students"] /\ file["students"] \in Seq(Entries("students"))
      BY <2>1, <2>2, <2>3, EntryInWindow
    <3>2. QED
      BY <2>3, <3>1 DEF Entry, Entries
  <2>6. HasEndlessRange(file["students"][position + 1])
    BY <2>1, <2>3, <2>5, EndlessInFile
  <2>7. QED
    BY <1>1, <2>1, <2>4, <2>6, SameFiles DEF EndlessOK, StoppingInvariant
<1>6. CASE EndOfFile
  <2>1. /\ UNCHANGED input /\ pc = "load" /\ position = Len(file[side]) /\ position' = position
        /\ IF side = "pupils" THEN side' = "students" /\ pc' = "reserve"
                              ELSE side' = side /\ pc' = "create_edges"
    BY <1>6 DEF EndOfFile
  <2>2. ToLoad("students", Len(file["students"])) = NewestListed("students")
    BY <1>2 DEF ToLoad, NewestListed, Sides
  <2>3. QED
    BY <1>1, <1>2, <2>1, <2>2, SameFiles DEF EndlessOK, StoppingInvariant, Sides
<1>7. CASE CreateEdges
  BY <1>1, <1>7, SameFiles DEF EndlessOK, StoppingInvariant, CreateEdges
<1>8. CASE UNCHANGED vars
  <2>1. UNCHANGED <<input, position, side, pc>>
    BY <1>8 DEF vars, input
  <2>2. QED
    BY <1>1, <2>1, SameFiles DEF EndlessOK, StoppingInvariant
<1>9. QED
  BY <1>1, <1>3, <1>4, <1>5, <1>6, <1>7, <1>8 DEF Next, StoppingInvariant

\* For all files, windows and lists: the program runs out of memory because of a
\* listed student of the window with an endless range, and gets to the end of the
\* loading only when there is none.
THEOREM OnlyEndlessRangesStop == Spec => []StopsAtEndlessRanges
<1>1. Init => StoppingInvariant
  <2>1. Init => ProgressOK /\ EndlessOK
    BY DEF Init, ProgressOK, EndlessOK
  <2>2. QED
    BY <2>1, InitLoader DEF LoadingInvariant, StoppingInvariant
<1>2. StoppingInvariant /\ [Next]_vars => StoppingInvariant'
  BY StepKeepsStopping
<1>3. StoppingInvariant => StopsAtEndlessRanges
  BY DEF StoppingInvariant, EndlessOK, StopsAtEndlessRanges
<1>4. QED
  BY <1>1, <1>2, <1>3, PTL DEF Spec
=============================================================================
