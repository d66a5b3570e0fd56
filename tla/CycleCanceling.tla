--------------------------- MODULE CycleCanceling ---------------------------
(***************************************************************************)
(* compute_max_cost_matching of matching.h with the other algorithm it     *)
(* offers, CycleCanceling.                                                 *)
(*                                                                         *)
(* A heuristic takes the most expensive edges first (TakeEdge).  Its       *)
(* matching becomes the initial flow, and an arc from s to t carries what  *)
(* is missing to the size of the smaller side (AdaptFlow).  Boost then     *)
(* looks for cycles of negative weight with the rounds of Bellman and Ford *)
(* (RelaxArc, EndRound, FindCycle), pushes flow around each one (Augment)  *)
(* and ends when there is none (Extract).                                  *)
(*                                                                         *)
(* A definition whose name no action uses (deltaByMax, ...) is a           *)
(* deliberately wrong form of the one after it.  PROJECT.json pairs each   *)
(* with the property that detects it.                                      *)
(***************************************************************************)
EXTENDS FlowNetwork

CONSTANTS
  CandidateEdges,  \* the edges a graph may hold ...
  CostValues       \* ... and the costs they may have, in units of 1/Scale

ASSUME CandidateAssumption == CandidateEdges \subseteq PupilIds \X StudentIds
ASSUME CostAssumption == CostValues \subseteq Int

VARIABLES
  edges,              \* gc.edges()
  cost,               \* the cost of each edge
  heuristic_edges,    \* the matching of the heuristic
  residual_capacity,  \* the residual capacity of each arc and reverse arc
  distance,           \* Bellman-Ford: the distance of each vertex ...
  pred,               \* ... the tail of the last arc relaxed into it ...
  k,                  \* ... the number of rounds done ...
  position,           \* ... the place in the list of arcs this round is at ...
  at_least_one_edge_relaxed,
                      \* ... and whether it has relaxed an arc
  cycleStart,         \* a vertex on the cycle that was found
  matching_edges,     \* the result of compute_max_cost_matching ...
  matching_cost,      \* ... and the cost it returns, in units of 1/Scale
  pc

vars == <<edges, cost, heuristic_edges, residual_capacity, distance, pred, k,
          position, at_least_one_edge_relaxed, cycleStart, matching_edges,
          matching_cost, pc>>

input == <<edges, cost>>
search == <<distance, pred, k, position, at_least_one_edge_relaxed>>
result == <<matching_edges, matching_cost>>

-----------------------------------------------------------------------------
(* The network. *)

DirectArc == <<s_id, t_id>>
Arcs == EdgeArcs(edges) \cup SourceArcs \cup SinkArcs \cup {DirectArc}
AllArcs == Arcs \cup {rev(a) : a \in Arcs}
NumVertices == Cardinality(Vertices)

\* Only the arcs of edges have a weight: here additional_cost is 0.
WeightOfEdgeNotInverted(e) == ToInt(cost[e])
WeightOfEdge(e) == ToInt(-cost[e])

Weight(a) ==
  IF a \in EdgeArcs(edges)
    THEN WeightOfEdge(CHOOSE e \in edges : EdgeArc(e) = a)
    ELSE IF rev(a) \in EdgeArcs(edges)
           THEN -WeightOfEdge(CHOOSE e \in edges : EdgeArc(e) = rev(a))
           ELSE 0

\* The arcs over which an edge sends its unit of flow.
PathOf(e) == {<<s_id, e[1]>>, EdgeArc(e), <<StudentVertex(e[2]), t_id>>}

MatchedEdges == {e \in edges : residual_capacity[EdgeArc(e)] = 0}

Init ==
  /\ edges \in SUBSET CandidateEdges
  /\ cost \in [edges -> CostValues]
  /\ heuristic_edges = {}
  /\ residual_capacity =
       [a \in AllArcs |-> IF a \in Arcs \ {DirectArc} THEN 1 ELSE 0]
  /\ distance = [v \in Vertices |-> 0]
  /\ pred = [v \in Vertices |-> NoVertex]
  /\ k = 0
  /\ position = 0
  /\ at_least_one_edge_relaxed = FALSE
  /\ cycleStart = NoVertex
  /\ matching_edges = {}
  /\ matching_cost = 0
  /\ pc = "heuristic"

-----------------------------------------------------------------------------
(* The initial flow. *)

IsUncovered(e) == \A f \in heuristic_edges : e[1] # f[1] /\ e[2] # f[2]
Eligible == {e \in edges : IsUncovered(e)}

\* The next edge in the order of the costs whose endpoints are not covered.
\* std::sort leaves the order of edges of equal cost open.
TakeEdge(e) ==
  /\ pc = "heuristic"
  /\ e \in Eligible
  /\ \A f \in Eligible : cost[e] >= cost[f]
  /\ heuristic_edges' = heuristic_edges \cup {e}
  /\ UNCHANGED <<input, residual_capacity, search, cycleStart, result, pc>>

remaining_flow_valueOfAll == successive_flow_value
remaining_flow_value == successive_flow_value - Cardinality(heuristic_edges)

AdaptFlow ==
  /\ pc = "heuristic"
  /\ Eligible = {}
  /\ LET path_arcs == UNION {PathOf(e) : e \in heuristic_edges} IN
       residual_capacity' =
         [a \in AllArcs |->
            IF a \in path_arcs THEN 0
            ELSE IF rev(a) \in path_arcs THEN 1
            ELSE IF a = rev(DirectArc) THEN remaining_flow_value
            ELSE residual_capacity[a]]
  /\ pc' = "relax"
  /\ UNCHANGED <<input, heuristic_edges, search, cycleStart, result>>

-----------------------------------------------------------------------------
(* Bellman and Ford's search for a cycle of negative weight. *)

ResidualArcs == {a \in DOMAIN residual_capacity : residual_capacity[a] > 0}

\* The graph lists its arcs by tail and, as they were added in that order, by head.
Place(a) == NumVertices * a[1] + a[2]
IsFirst(a, S) == a \in S /\ \A b \in S : Place(a) <= Place(b)
ArcsAhead == {a \in ResidualArcs : Place(a) >= position}

Improves(a) == distance[a[1]] + Weight(a) < distance[a[2]]

\* One arc of a round.
RelaxArc(a) ==
  /\ pc = "relax"
  /\ IsFirst(a, ArcsAhead)
  /\ IF Improves(a)
       THEN /\ distance' = [distance EXCEPT ![a[2]] = distance[a[1]] + Weight(a)]
            /\ pred' = [pred EXCEPT ![a[2]] = a[1]]
            /\ at_least_one_edge_relaxed' = TRUE
       ELSE UNCHANGED <<distance, pred, at_least_one_edge_relaxed>>
  /\ position' = Place(a) + 1
  /\ UNCHANGED <<input, heuristic_edges, residual_capacity, k, cycleStart, result, pc>>

\* There are as many rounds as vertices, unless one relaxes no arc.
EndRound ==
  /\ pc = "relax"
  /\ ArcsAhead = {}
  /\ k' = k + 1
  /\ pc' = IF ~at_least_one_edge_relaxed \/ k' = NumVertices THEN "check" ELSE "relax"
  /\ position' = 0
  /\ at_least_one_edge_relaxed' = FALSE
  /\ UNCHANGED <<input, heuristic_edges, residual_capacity, distance, pred,
                 cycleStart, result>>

Unminimized == {a \in ResidualArcs : Improves(a)}

\* The vertex n predecessors before v.
Back(v, n) ==
  LET back[i \in 0 .. n] == IF i = 0 THEN v ELSE pred[back[i - 1]]
  IN  back[n]

FindCycleAtUnminimized ==
  /\ pc = "check"
  /\ \E a \in Unminimized : IsFirst(a, Unminimized) /\ cycleStart' = a[2]
  /\ pc' = "augment"
  /\ UNCHANGED <<input, heuristic_edges, residual_capacity, search, result>>

\* The first arc that could still be relaxed need not be on the cycle: going
\* back once more than there are vertices leads to it.
FindCycle ==
  /\ pc = "check"
  /\ \E a \in Unminimized :
       IsFirst(a, Unminimized) /\ cycleStart' = Back(a[1], NumVertices + 1)
  /\ pc' = "augment"
  /\ UNCHANGED <<input, heuristic_edges, residual_capacity, search, result>>

-----------------------------------------------------------------------------
(* Flow around the cycle, and the result. *)

CycleVertices == {Back(cycleStart, n) : n \in 0 .. NumVertices}
CycleArcs == {<<pred[v], v>> : v \in CycleVertices}

deltaByMax == Max({residual_capacity[a] : a \in CycleArcs})
delta == Min({residual_capacity[a] : a \in CycleArcs})

AugmentByNothing ==
  /\ pc = "augment"
  /\ distance' = [v \in Vertices |-> 0]
  /\ pred' = [v \in Vertices |-> NoVertex]
  /\ k' = 0
  /\ pc' = "relax"
  /\ UNCHANGED <<input, heuristic_edges, residual_capacity, position,
                 at_least_one_edge_relaxed, cycleStart, result>>

Augment ==
  /\ pc = "augment"
  /\ residual_capacity' =
       [a \in AllArcs |->
          IF a \in CycleArcs THEN residual_capacity[a] - delta
          ELSE IF rev(a) \in CycleArcs THEN residual_capacity[a] + delta
          ELSE residual_capacity[a]]
  /\ distance' = [v \in Vertices |-> 0]
  /\ pred' = [v \in Vertices |-> NoVertex]
  /\ k' = 0
  /\ pc' = "relax"
  /\ UNCHANGED <<input, heuristic_edges, position, at_least_one_edge_relaxed,
                 cycleStart, result>>

\* What find_flow_cost sums up: only the arcs of edges have a weight.
FlowCost == MapThenSumSet(WeightOfEdge, MatchedEdges)

Extract ==
  /\ pc = "check"
  /\ Unminimized = {}
  /\ matching_edges' = MatchedEdges
  /\ matching_cost' = -(Scale * FlowCost)
  /\ pc' = "done"
  /\ UNCHANGED <<input, heuristic_edges, residual_capacity, search, cycleStart>>

Next ==
  \/ \E e \in edges : TakeEdge(e)
  \/ AdaptFlow
  \/ \E a \in DOMAIN residual_capacity : RelaxArc(a)
  \/ EndRound
  \/ FindCycle
  \/ Augment
  \/ Extract

Spec == Init /\ [][Next]_vars

\* A single thread computes without waiting for anything.
FairSpec == Spec /\ WF_vars(Next)

-----------------------------------------------------------------------------
TypeOK ==
  /\ edges \subseteq CandidateEdges
  /\ cost \in [edges -> CostValues]
  /\ heuristic_edges \subseteq edges
  /\ residual_capacity \in [AllArcs -> 0 .. NumVertices]
  /\ distance \in [Vertices -> Int]
  /\ pred \in [Vertices -> Vertices \cup {NoVertex}]
  /\ k \in 0 .. NumVertices
  /\ position \in Nat
  /\ at_least_one_edge_relaxed \in BOOLEAN
  /\ cycleStart \in Vertices \cup {NoVertex}
  /\ matching_edges \subseteq edges
  /\ matching_cost \in Int
  /\ pc \in {"heuristic", "relax", "check", "augment", "done"}

(* Safety. *)

\* The arc that edge_not_minimized is called with need not be on a cycle, but
\* the walk back from it ends on one: it has residual capacity all around and a
\* negative weight, so that pushing flow around it pays.
FoundCycleIsNegative ==
  pc = "augment" =>
    /\ CycleVertices \subseteq Vertices
    /\ \E n \in 1 .. NumVertices : Back(cycleStart, n) = cycleStart
    /\ \A a \in CycleArcs : a \in AllArcs /\ residual_capacity[a] > 0
    /\ MapThenSumSet(Weight, CycleArcs) < 0

\* The flow keeps its value through every cycle: what is not matched still
\* flows from s to t directly, and what is matched is a matching.
FlowKeepsItsValue ==
  pc \in {"relax", "check", "done"} =>
    /\ IsMatching(MatchedEdges)
    /\ Cardinality(MatchedEdges) + residual_capacity[rev(DirectArc)]
         = successive_flow_value

Matchings == {M \in SUBSET edges : IsMatching(M)}
CostOf(M) == MapThenSumSet(LAMBDA e : cost[e], M)

\* The worth of an edge as the int network sees it.
RoundedWorth(M) == MapThenSumSet(LAMBDA e : -ToInt(-cost[e]), M)

\* What the search for cycles achieves: the most that the int network can see
\* among the matchings which are at least as large as that of the heuristic.
\* The flow from s to t can be traded for matched edges, but never grows.
BestFromHeuristicSize ==
  pc = "done" =>
    \A M \in Matchings :
      Cardinality(M) >= Cardinality(heuristic_edges) =>
        RoundedWorth(M) <= RoundedWorth(matching_edges)

\* What the comment on compute_max_cost_matching says of the edges, whatever the
\* algorithm: they are "a matching of maximum cost".
ReturnsMaximumCostMatching ==
  pc = "done" => \A M \in Matchings : CostOf(M) <= CostOf(matching_edges)

(* Liveness. *)

\* Every cycle found is the last of its kind: the search for cycles ends.
Termination == <>(pc = "done")
=============================================================================
