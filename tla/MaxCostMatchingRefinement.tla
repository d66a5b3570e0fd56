---------------------- MODULE MaxCostMatchingRefinement ----------------------
(***************************************************************************)
(* MaxCostMatching implements SuccessiveAssignment.  The members of the    *)
(* smaller side that are taken in are those the flow reaches, and an       *)
(* assignment to nobody is flow on a dummy arc.  A round becomes visible   *)
(* when the walk back from t is complete: until then the mapping reads the *)
(* flow as it was before the walk.                                         *)
(***************************************************************************)
EXTENDS MaxCostMatching

\* The vertices the walk has left: their predecessor arc has no residual
\* capacity any more.
Walked ==
  IF pc = "augment"
    THEN {v \in Vertices : pred[v] # NoVertex /\ <<pred[v], v>> \notin residual_capacity}
    ELSE {}

FlowBeforeWalk ==
  Arcs(edges) \ ((residual_capacity \ {<<v, pred[v]>> : v \in Walked})
                   \cup {<<pred[v], v>> : v \in Walked})

TakenIn ==
  IF NumPupils < NumStudents
    THEN {p \in PupilIds : <<s_id, p>> \in FlowBeforeWalk}
    ELSE {id \in StudentIds : <<StudentVertex(id), t_id>> \in FlowBeforeWalk}

PartnersInFlow(m) ==
  IF NumPupils < NumStudents
    THEN {id \in StudentIds : <<m, StudentVertex(id)>> \in FlowBeforeWalk}
    ELSE {p \in PupilIds : <<p, StudentVertex(m)>> \in FlowBeforeWalk}

assignment ==
  [m \in TakenIn |-> IF PartnersInFlow(m) = {} THEN -1
                                               ELSE CHOOSE q \in PartnersInFlow(m) : TRUE]

Rounds == INSTANCE SuccessiveAssignment WITH delivered <- pc = "done"

\* The successive searches assign in rounds, each of which leaves an assignment
\* worth the most among those of its size, and deliver the last one with its
\* rounded cost.
ImplementsRounds == Rounds!Spec
=============================================================================
