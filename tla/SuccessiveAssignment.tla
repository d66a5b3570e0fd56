------------------------ MODULE SuccessiveAssignment ------------------------
(***************************************************************************)
(* What the search for a matching of maximum cost promises, without a      *)
(* network: the pupils and students are assigned in rounds.  Every round   *)
(* takes in one more member of the smaller side and may reassign all those *)
(* taken in before; the assignment it leaves is worth the most among all   *)
(* assignments of so many members.  A member may be assigned to nobody.    *)
(* When the whole smaller side is taken in, the matching is delivered.     *)
(*                                                                         *)
(* The worth of an edge is its cost after the rounding of the int network, *)
(* so that this is what the code does and not only what it is meant to do. *)
(***************************************************************************)
EXTENDS Integers, FiniteSets, FiniteSetsExt, Functions

CONSTANTS
  NumPupils,    \* the number of pupils
  NumStudents,  \* the number of college students
  CostValues,   \* the edge costs a graph may hold, in units of 1/Scale
  Scale         \* how many units make 1.0

VARIABLES
  edges,           \* the set of acceptable <<pupil, student>> pairs
  cost,            \* the cost of each edge
  assignment,      \* what each member taken in is assigned to
  matching_edges,  \* the matching delivered ...
  matching_cost,   \* ... and its cost, in units of 1/Scale
  delivered

vars == <<edges, cost, assignment, matching_edges, matching_cost, delivered>>

PupilIds == 0 .. (NumPupils - 1)
StudentIds == 0 .. (NumStudents - 1)
Unmatched == -1

PupilsAreFewer == NumPupils < NumStudents
Members == IF PupilsAreFewer THEN PupilIds ELSE StudentIds
Partners == IF PupilsAreFewer THEN StudentIds ELSE PupilIds
PairOf(member, partner) ==
  IF PupilsAreFewer THEN <<member, partner>> ELSE <<partner, member>>

\* A cost c becomes the int part of 2 * (largest cost) - c in the network.
\* Read back, the worth is c rounded up to a whole distance from that constant.
Shift == 2 * Max({0} \cup {cost[e] : e \in edges})
Rounded(c) == Shift - Scale * ((Shift - c) \div Scale)

Worth(member, partner) ==
  IF partner = Unmatched THEN Rounded(0) ELSE Rounded(cost[PairOf(member, partner)])

IsAssignment(f) ==
  /\ \A m \in DOMAIN f : f[m] = Unmatched \/ PairOf(m, f[m]) \in edges
  /\ \A m, n \in DOMAIN f : m # n /\ f[m] = f[n] => f[m] = Unmatched

Assignments(M) == {f \in [M -> Partners \cup {Unmatched}] : IsAssignment(f)}
AssignmentsOfSize(k) == UNION {Assignments(M) : M \in kSubset(k, Members)}

Worths(f) == [m \in DOMAIN f |-> Worth(m, f[m])]
Value(f) == MapThenSumSet(LAMBDA m : Worths(f)[m], DOMAIN f)
Taken(f) == Range(f) \ {Unmatched}

Init ==
  /\ edges \in SUBSET (PupilIds \X StudentIds)
  /\ cost \in [edges -> CostValues]
  /\ assignment = <<>>
  /\ matching_edges = {}
  /\ matching_cost = 0
  /\ delivered = FALSE

\* One round.  Whoever has a place keeps one, on both sides.
TakeIn ==
  /\ ~delivered
  /\ DOMAIN assignment # Members
  /\ LET candidates == AssignmentsOfSize(Cardinality(DOMAIN assignment) + 1) IN
       /\ assignment' \in candidates
       /\ \A f \in candidates : Value(f) <= Value(assignment')
  /\ DOMAIN assignment \subseteq DOMAIN assignment'
  /\ Taken(assignment) \subseteq Taken(assignment')
  /\ UNCHANGED <<edges, cost, matching_edges, matching_cost, delivered>>

Deliver ==
  /\ ~delivered
  /\ DOMAIN assignment = Members
  /\ matching_edges' =
       {PairOf(m, assignment[m]) :
          m \in {n \in Members : assignment[n] # Unmatched}}
  /\ matching_cost' = Value(assignment)
  /\ delivered' = TRUE
  /\ UNCHANGED <<edges, cost, assignment>>

Next == TakeIn \/ Deliver
Spec == Init /\ [][Next]_vars
=============================================================================
