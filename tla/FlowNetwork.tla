---------------------------- MODULE FlowNetwork ----------------------------
(***************************************************************************)
(* The vertices and arcs that both algorithms of matching.h start from.    *)
(*                                                                         *)
(* The bipartite graph of pupils and college students becomes a flow       *)
(* network with a source s and a sink t.  An arc is the ordered pair of    *)
(* its end vertices; every arc has capacity 1, and the network holds the   *)
(* reverse of every arc with capacity 0 and the negated weight.            *)
(*                                                                         *)
(* Costs are double in the code.  Here they are multiples of 1/Scale,      *)
(* written as integers, so that the conversion to the int weights of the   *)
(* network, which drops the fraction, is modelled by what it does.         *)
(***************************************************************************)
EXTENDS Integers, FiniteSets, FiniteSetsExt

CONSTANTS
  NumPupils,    \* gc.nodes().pupils().size()
  NumStudents,  \* gc.nodes().college_students().size()
  Scale         \* how many units make 1.0

ASSUME SizeAssumption == NumPupils \in Nat /\ NumStudents \in Nat
ASSUME ScaleAssumption == Scale \in Nat \ {0}

-----------------------------------------------------------------------------
PupilIds == 0 .. (NumPupils - 1)
StudentIds == 0 .. (NumStudents - 1)

\* Students are numbered after the pupils, s and t after the students.
StudentVertex(id) == id + NumPupils
s_id == NumPupils + NumStudents
t_id == s_id + 1

StudentVertices == {StudentVertex(id) : id \in StudentIds}
Vertices == 0 .. t_id

\* A default-constructed edge descriptor: the vertex has no predecessor.
NoVertex == -1

rev(a) == <<a[2], a[1]>>

-----------------------------------------------------------------------------
\* An edge of the graph is a pair <<pupil_id, college_student_id>>.
EdgeArc(e) == <<e[1], StudentVertex(e[2])>>
EdgeArcs(E) == {EdgeArc(e) : e \in E}
SourceArcs == {<<s_id, id>> : id \in PupilIds}
SinkArcs == {<<StudentVertex(id), t_id>> : id \in StudentIds}

\* static_cast<int>: rounds towards zero.
ToInt(x) == IF x >= 0 THEN x \div Scale ELSE -((-x) \div Scale)

\* The value of a maximum flow, however many edges there are: what is not
\* matched flows on dummy arcs.
successive_flow_value == Min({NumPupils, NumStudents})

-----------------------------------------------------------------------------
IsMatching(M) ==
  \A e, f \in M : e # f => e[1] # f[1] /\ e[2] # f[2]
=============================================================================
