----------------------------- MODULE NodeLoader -----------------------------
(***************************************************************************)
(* GraphCreator::init_from_json up to the creation of the edges: which     *)
(* entries of the two json files become pupils and students, and which     *)
(* pairs of them become edges.                                             *)
(*                                                                         *)
(* The nodes of a side live in one std::vector.  A node stores a function  *)
(* that captures the address the node was constructed at, and create_edges *)
(* calls it later.  When the vector moves to another buffer the function   *)
(* moves along but still reads from the old address, so a node remembers   *)
(* here the buffer it was constructed in.                                  *)
(*                                                                         *)
(* A definition whose name no action uses (ReserveNothing, EdgeSwapped,    *)
(* ...) is a deliberately wrong form of the one after it.  PROJECT.json    *)
(* pairs each with the property that detects it.                           *)
(***************************************************************************)
EXTENDS Integers, Sequences, FiniteSets

CONSTANTS
  PupilEntries,     \* the json objects that describe a pupil
  StudentEntries,   \* the json objects that describe a student
  PupilFiles,       \* the json arrays a pupil file may hold
  StudentFiles,     \* the json arrays a student file may hold
  Filters,          \* the uuid lists a caller may pass
  Subjects,         \* the subjects that parse_subject knows
  UnknownOutcomes,  \* what parse_subject, which then returns nothing, yields for
                    \* another name
  Window,           \* how many entries at the end of a file are loaded: 1000
  SizeModulus,      \* 2^w for the w bits of size_t ...
  UnsignedModulus,  \* ... of unsigned ...
  GradeModulus      \* ... and of Grade, which are 8

MIN_POSSIBLE_GRADE == 1
MAX_POSSIBLE_GRADE == 13

Sides == {"pupils", "students"}

Optional(S) == {{}} \cup {{x} : x \in S}

\* An entry has a uuid.  A pupil's has a grade and requested subjects as well, a
\* student's has offered subjects, each with a name and perhaps a grade range.
\* Names and numbers are what is written in the file.
Entries(s) == IF s = "pupils" THEN PupilEntries ELSE StudentEntries
Files(s) == IF s = "pupils" THEN PupilFiles ELSE StudentFiles

ASSUME FileAssumption == \A s \in Sides : Files(s) \subseteq Seq(Entries(s))
ASSUME OfferAssumption ==
  \A e \in StudentEntries : \A o \in e.offered : \A g, h \in o.grade : g = h
ASSUME WindowAssumption == Window \in Nat /\ {SizeModulus, UnsignedModulus, GradeModulus} \subseteq Nat \ {0}
\* size() and the window are of type size_t.
ASSUME SizeAssumption ==
  Window <= SizeModulus /\ \A s \in Sides : \A f \in Files(s) : Len(f) < SizeModulus
ASSUME GradeAssumption == MAX_POSSIBLE_GRADE < GradeModulus /\ GradeModulus < UnsignedModulus
ASSUME SubjectAssumption == UnknownOutcomes # {}

VARIABLES
  file,      \* the json array of each side
  uuids,     \* the uuid list for each side, a std::optional: the set of it, or {}
  buffer,    \* each vector: the number of its current allocation ...
  capacity,  \* ... and for how many nodes it has room
  nodes,     \* each vector: its nodes, with the allocation they were made in
  position,  \* how many entries of the current file the loop has gone over
  count,     \* pupil_count, student_count
  edges,     \* _edges, as the set of their <<pupil, student>> positions
  side,      \* the side that is being loaded
  pc

vars == <<file, uuids, buffer, capacity, nodes, position, count, edges, side, pc>>
input == <<file, uuids>>

-----------------------------------------------------------------------------
(* The loop over the entries of a file. *)

Init ==
  /\ file \in {f \in [Sides -> PupilFiles \cup StudentFiles] :
               \A s \in Sides : f[s] \in Files(s)}
  /\ uuids \in [Sides -> Optional(Filters)]
  /\ buffer = [s \in Sides |-> 0]
  /\ capacity = [s \in Sides |-> 0]
  /\ nodes = [s \in Sides |-> <<>>]
  /\ position = 0
  /\ count = 0
  /\ edges = {}
  /\ side = "pupils"
  /\ pc = "reserve"

\* vector::reserve moves the nodes only when there is not yet room enough.
Reserve(s, n) ==
  IF n > capacity[s]
    THEN /\ capacity' = [capacity EXCEPT ![s] = n]
         /\ buffer' = [buffer EXCEPT ![s] = @ + 1]
    ELSE UNCHANGED <<capacity, buffer>>

Begin(room) ==
  /\ pc = "reserve"
  /\ Reserve(side, room)
  /\ position' = 0
  /\ count' = 0
  /\ pc' = "load"
  /\ UNCHANGED <<input, nodes, edges, side>>

ReserveNothing == Begin(0)
ReserveForFile == Begin(Len(file[side]))

AtEntry == pc = "load" /\ position < Len(file[side])
Entry == file[side][position + 1]

\* size() - 1000, an unsigned subtraction: a short file yields a huge number.
FirstInWindowOffByOne(s) == (Len(file[s]) - Window - 1) % SizeModulus
FirstInWindow(s) == (Len(file[s]) - Window) % SizeModulus
BeforeWindow == count < FirstInWindow(side)

Listed(s, e) == \A list \in uuids[s] : e.uuid \in list

\* continue: before the window the entry is counted ...
SkipOld ==
  /\ AtEntry
  /\ BeforeWindow
  /\ position' = position + 1
  /\ count' = count + 1
  /\ UNCHANGED <<input, buffer, capacity, nodes, edges, side, pc>>

\* ... and in the window it is not, when its uuid is not in the list.
SkipUnlisted ==
  /\ AtEntry
  /\ ~BeforeWindow
  /\ ~Listed(side, Entry)
  /\ position' = position + 1
  /\ UNCHANGED <<input, buffer, capacity, nodes, count, edges, side, pc>>

\* The data of a node: the entry with its subjects parsed, its numbers narrowed,
\* and all possible grades where none are written.
ParseSubject(name, unknown) == IF name \in Subjects THEN name ELSE unknown

min(o) == IF o.grade = {} THEN MIN_POSSIBLE_GRADE
                          ELSE (CHOOSE g \in o.grade : TRUE).min % UnsignedModulus
max(o) == IF o.grade = {} THEN MAX_POSSIBLE_GRADE
                          ELSE (CHOOSE g \in o.grade : TRUE).max % UnsignedModulus

GradesBelowMax(o) == min(o) .. (max(o) - 1)
Grades(o) == min(o) .. max(o)

Data(s, e, unknown) ==
  IF s = "pupils"
    THEN [uuid |-> e.uuid,
          grade |-> e.grade % GradeModulus,
          requested |-> {ParseSubject(name, unknown) : name \in e.requested}]
    ELSE [uuid |-> e.uuid,
          offered |-> {<<ParseSubject(o.name, unknown), Grades(o)>> : o \in e.offered}]

\* No unsigned grade is greater than the greatest unsigned number.
RangeIsEndless(s, e) ==
  s = "students" /\ \E o \in e.offered : max(o) = UnsignedModulus - 1

\* The entry is to become a node.
AtNewNodeUnfiltered == AtEntry /\ ~BeforeWindow
AtNewNode == AtEntry /\ ~BeforeWindow /\ Listed(side, Entry)

\* create_pupils(1) or create_college_students(1) reserves room for one more
\* node and constructs it there; then its data is filled in.
Load ==
  /\ AtNewNode
  /\ ~RangeIsEndless(side, Entry)
  /\ Reserve(side, Len(nodes[side]) + 1)
  /\ \E unknown \in UnknownOutcomes :
       nodes' = [nodes EXCEPT ![side] =
                   Append(@, [data |-> Data(side, Entry, unknown), made_in |-> buffer'[side]])]
  /\ position' = position + 1
  /\ count' = count + 1
  /\ UNCHANGED <<input, edges, side, pc>>

\* The grades pile up until bad_alloc, which nobody catches.
RunOutOfMemory ==
  /\ AtNewNode
  /\ RangeIsEndless(side, Entry)
  /\ pc' = "terminated"
  /\ UNCHANGED <<input, buffer, capacity, nodes, position, count, edges, side>>

EndOfFile ==
  /\ pc = "load"
  /\ position = Len(file[side])
  /\ IF side = "pupils"
       THEN side' = "students" /\ pc' = "reserve"
       ELSE side' = side /\ pc' = "create_edges"
  /\ UNCHANGED <<input, buffer, capacity, nodes, position, count, edges>>

-----------------------------------------------------------------------------
(* The edges. *)

\* An id is a position in the vector, counted from 1 here.
NodeIds(s) == DOMAIN nodes[s]

\* The acceptance function of the node would read from a buffer that is gone.
Dangling(s, i) == nodes[s][i].made_in # buffer[s]

PupilAccepts(p, t) ==
  \E subject \in p.requested : \E o \in t.offered : o[1] = subject

StudentAccepts(t, p) ==
  \E o \in t.offered : p.grade \in o[2] /\ o[1] \in p.requested

\* A function that reads freed memory may answer anything.
AcceptablePairs(garbage) ==
  {e \in NodeIds("pupils") \X NodeIds("students") :
     LET p == nodes["pupils"][e[1]].data
         t == nodes["students"][e[2]].data
     IN  /\ IF Dangling("pupils", e[1]) THEN garbage ELSE PupilAccepts(p, t)
         /\ IF Dangling("students", e[2]) THEN garbage ELSE StudentAccepts(t, p)}

EdgeSwapped(pupil_id, college_student_id) == <<college_student_id, pupil_id>>
Edge(pupil_id, college_student_id) == <<pupil_id, college_student_id>>

CreateEdges ==
  /\ pc = "create_edges"
  /\ \E garbage \in BOOLEAN : edges' = {Edge(e[1], e[2]) : e \in AcceptablePairs(garbage)}
  /\ pc' = "done"
  /\ UNCHANGED <<input, buffer, capacity, nodes, position, count, side>>

Next ==
  \/ ReserveForFile
  \/ SkipOld
  \/ SkipUnlisted
  \/ Load
  \/ RunOutOfMemory
  \/ EndOfFile
  \/ CreateEdges

Spec == Init /\ [][Next]_vars

-----------------------------------------------------------------------------
Nodes(s) == [data : {Data(s, e, unknown) : e \in Entries(s), unknown \in UnknownOutcomes},
             made_in : Nat]

TypeOK ==
  /\ \A s \in Sides : file[s] \in Files(s)
  /\ uuids \in [Sides -> Optional(Filters)]
  /\ buffer \in [Sides -> Nat]
  /\ capacity \in [Sides -> Nat]
  /\ DOMAIN nodes = Sides
  /\ \A s \in Sides : nodes[s] \in Seq(Nodes(s))
  /\ position \in Nat
  /\ count \in Nat
  /\ edges \subseteq NodeIds("pupils") \X NodeIds("students")
  /\ side \in Sides
  /\ pc \in {"reserve", "load", "create_edges", "done", "terminated"}

\* No node is ever left behind with the address of a buffer that its vector has
\* moved out of.  It is the reserve for the whole file that sees to it: the
\* reserve in create_pupils alone would move the nodes every time.
NoDanglingCapture == \A s \in Sides : \A i \in NodeIds(s) : ~Dangling(s, i)

\* The positions of the listed ones among the last Window entries of a file.  A file
\* with fewer than Window entries has none.
NewestListed(s) ==
  {j \in DOMAIN file[s] : /\ Window <= Len(file[s])
                          /\ j > Len(file[s]) - Window
                          /\ Listed(s, file[s][j])}

\* They are what is loaded, in their order, although unlisted entries are not
\* counted: an entry becomes the node whose number is how many of them it is.
LoadsNewestListed ==
  pc = "done" =>
    \A s \in Sides :
      /\ Len(nodes[s]) = Cardinality(NewestListed(s))
      /\ \A j \in NewestListed(s) :
           nodes[s][Cardinality({i \in NewestListed(s) : i <= j})].data.uuid = file[s][j].uuid

\* The file entry that a node was loaded from.
EntryOf(s, i) == CHOOSE e \in {file[s][j] : j \in DOMAIN file[s]} :
                   e.uuid = nodes[s][i].data.uuid

\* The numbers of the entry fit in the types that the program reads them into.
NumbersFit(s, e) ==
  IF s = "pupils"
    THEN e.grade \in MIN_POSSIBLE_GRADE .. MAX_POSSIBLE_GRADE
    ELSE \A o \in e.offered : \A g \in o.grade : {g.min, g.max} \subseteq 0 .. UnsignedModulus - 1

NamesAreKnown(s, e) ==
  IF s = "pupils" THEN e.requested \subseteq Subjects
                  ELSE \A o \in e.offered : o.name \in Subjects

ListsNobodyTwice(s) ==
  \A i, j \in DOMAIN file[s] : file[s][i].uuid = file[s][j].uuid => i = j

IsOffered(o, grade) == \A g \in o.grade : g.min <= grade /\ grade <= g.max

\* The student offers, for the pupil's grade or without naming grades, one of the
\* subjects that the pupil requests.
CanHelp(student, pupil, subjects) ==
  \E o \in student.offered :
    o.name \in pupil.requested \cap subjects /\ IsOffered(o, pupil.grade)

\* Going by the files, an edge is there when the student can help the pupil in a
\* subject that parse_subject knows, whatever else the two name; and where there is
\* an edge although the student cannot, one of them names a subject that it does not
\* know.
EdgesAreTheAcceptablePairs ==
  pc = "done" /\ (\A s \in Sides : ListsNobodyTwice(s)) =>
    \A i \in NodeIds("pupils"), j \in NodeIds("students") :
      LET pupil == EntryOf("pupils", i)
          student == EntryOf("students", j)
      IN  NumbersFit("pupils", pupil) /\ NumbersFit("students", student) =>
            /\ CanHelp(student, pupil, Subjects) => <<i, j>> \in edges
            /\ <<i, j>> \in edges =>
                 \/ CanHelp(student, pupil, Subjects)
                 \/ ~(NamesAreKnown("pupils", pupil) /\ NamesAreKnown("students", student))

\* The loop over the grades of an offer ends unless the range goes up to the greatest
\* unsigned number (-1 in the file is one way to write it).
HasEndlessRange(e) ==
  \E o \in e.offered : \E g \in o.grade : g.max % UnsignedModulus = UnsignedModulus - 1

\* It is such a range of a listed student among the last Window entries that brings
\* the program down, and no other; and it always does.
StopsAtEndlessRanges ==
  LET endless == {j \in NewestListed("students") : HasEndlessRange(file["students"][j])}
  IN  /\ pc = "terminated" => endless # {}
      /\ pc = "done" => endless = {}

\* What the comment on init_from_json says: "Given the json files this function
\* constructs all students and pupils".
ConstructsAll ==
  pc = "done" => \A s \in Sides : uuids[s] = {} => Len(nodes[s]) = Len(file[s])
=============================================================================
