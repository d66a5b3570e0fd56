--------------------------- MODULE MaxCostMatching ---------------------------
(***************************************************************************)
(* compute_max_cost_matching of matching.h with the algorithm the program  *)
(* runs, SuccessiveShortestPath.                                           *)
(*                                                                         *)
(* Every arc of the network has capacity 1.  Dummy arcs of weight          *)
(* additional_cost let the smaller side stay unmatched, so that a flow of  *)
(* value Min(pupils, students) always exists; its cheapest one is the      *)
(* matching of maximum cost.                                               *)
(*                                                                         *)
(* Boost finds it by repeating a Dijkstra search from s over the arcs with *)
(* residual capacity, with weights reduced by the potentials distance_prev *)
(* (StartSearch, ExamineVertex, StopSearching, UpdatePotentials), and by   *)
(* walking back along the predecessors from t to s to push one unit of     *)
(* flow (PushFlow), until t is out of reach.  Extract then reads the       *)
(* matching and its cost off the residual capacities.                      *)
(*                                                                         *)
(* A definition whose name no action uses (DummyArcsOfLargerSide, ...) is  *)
(* a deliberately wrong form of the one after it.  PROJECT.json pairs each *)
(* with the property that detects it.                                      *)
(***************************************************************************)
EXTENDS FlowNetwork

CONSTANTS
  CostValues,        \* the edge costs a graph may hold, in units of 1/Scale
  IntMax,            \* numeric_limits<int>::max(): the distance of a vertex
                     \* that the search has not reached
  OverflowOutcomes   \* what a build may store for an int addition that overflows

ASSUME CostAssumption == CostValues \subseteq Int
ASSUME IntAssumption ==
  IntMax \in Nat \ {0} /\ OverflowOutcomes \subseteq Int /\ OverflowOutcomes # {}

-----------------------------------------------------------------------------
VARIABLES
  edges,              \* gc.edges(), as the set of their <<pupil_id, student_id>>
  cost,               \* the cost of each edge
  weight,             \* the int weight of each arc and reverse arc
  residual_capacity,  \* the arcs and reverse arcs whose residual capacity is 1
  distance_prev,      \* the potential of each vertex
  distance,           \* Dijkstra: the distance found for each vertex
  pred,               \* Dijkstra: the tail of the last arc relaxed into it
  queue,              \* Dijkstra: the vertices in the heap (the gray ones)
  examined,           \* Dijkstra: 0, or the vertex is black and came that many-th
  examined_count,     \* Dijkstra: the number of black vertices
  u_path,             \* augment: the vertex the walk from t back to s is at
  matching_edges,     \* the result of compute_max_cost_matching ...
  matching_cost,      \* ... and the cost it returns, in units of 1/Scale
  pc

vars == <<edges, cost, weight, residual_capacity, distance_prev, distance, pred,
          queue, examined, examined_count, u_path, matching_edges, matching_cost,
          pc>>

input == <<edges, cost, weight>>
search == <<distance, pred, queue, examined, examined_count>>
result == <<matching_edges, matching_cost>>

-----------------------------------------------------------------------------
(* The network that compute_max_cost_matching builds. *)

DummyArcsOfLargerSide ==
  IF NumPupils > NumStudents
    THEN {<<id, t_id>> : id \in PupilIds}
    ELSE {<<s_id, StudentVertex(id)>> : id \in StudentIds}

\* The arcs through which a member of the smaller side stays unmatched.
DummyArcs ==
  IF NumPupils < NumStudents
    THEN {<<id, t_id>> : id \in PupilIds}
    ELSE {<<s_id, StudentVertex(id)>> : id \in StudentIds}

Arcs(E) == EdgeArcs(E) \cup SourceArcs \cup SinkArcs \cup DummyArcs

maximum_edge_weight(E, c) == Max({0} \cup {c[e] : e \in E})
additional_cost(E, c) == 2 * maximum_edge_weight(E, c)

\* The cost add_edge is called with, before it is rounded.
ArcCost(E, c, a) ==
  IF a \in EdgeArcs(E)
    THEN additional_cost(E, c) - c[CHOOSE e \in E : EdgeArc(e) = a]
    ELSE IF a \in DummyArcs THEN additional_cost(E, c) ELSE 0

NetworkWeightsRoundedByPart(E, c) ==
  [a \in Arcs(E) \cup {rev(b) : b \in Arcs(E)} |->
     LET Part(b) == IF b \in EdgeArcs(E)
                      THEN ToInt(additional_cost(E, c))
                             - ToInt(c[CHOOSE e \in E : EdgeArc(e) = b])
                      ELSE ToInt(ArcCost(E, c, b))
     IN  IF a \in Arcs(E) THEN Part(a) ELSE -Part(rev(a))]

NetworkWeights(E, c) ==
  [a \in Arcs(E) \cup {rev(b) : b \in Arcs(E)} |->
     IF a \in Arcs(E) THEN ToInt(ArcCost(E, c, a))
                      ELSE -ToInt(ArcCost(E, c, rev(a)))]

-----------------------------------------------------------------------------
(* Flows and matchings, read off the residual capacities. *)

FlowArcs == {a \in Arcs(edges) : a \notin residual_capacity}
FlowValue == Cardinality({a \in FlowArcs : a[1] = s_id})
FlowCost == MapThenSumSet(LAMBDA a : weight[a], FlowArcs)

EdgesWithCapacityLeft == {e \in edges : EdgeArc(e) \in residual_capacity}
MatchedEdges == {e \in edges : EdgeArc(e) \notin residual_capacity}

\* The sum of the costs of a set of edges, in units of 1/Scale.
CostOf(M) == MapThenSumSet(LAMBDA e : cost[e], M)

-----------------------------------------------------------------------------
\* The type of every variable but matching_cost, of which CostWithinRounding
\* says more.
TypeOK ==
  /\ edges \subseteq PupilIds \X StudentIds
  /\ cost \in [edges -> Int]
  /\ weight \in [Arcs(edges) \cup {rev(a) : a \in Arcs(edges)} -> Int]
  /\ residual_capacity \subseteq DOMAIN weight
  /\ distance_prev \in [Vertices -> Int]
  /\ distance \in [Vertices -> Int]
  /\ pred \in [Vertices -> Vertices \cup {NoVertex}]
  /\ queue \subseteq Vertices
  /\ examined \in [Vertices -> Nat]
  /\ examined_count \in Nat
  /\ u_path \in Vertices
  /\ matching_edges \subseteq edges
  /\ pc \in {"start", "search", "augment", "extract", "done", "negative_edge"}

\* The network with no flow: every arc has its capacity as residual capacity.
Init ==
  /\ edges \in SUBSET (PupilIds \X StudentIds)
  /\ cost \in [edges -> CostValues]
  /\ weight = NetworkWeights(edges, cost)
  /\ residual_capacity = Arcs(edges)
  /\ distance_prev = [v \in Vertices |-> 0]
  /\ distance = [v \in Vertices |-> IntMax]
  /\ pred = [v \in Vertices |-> NoVertex]
  /\ queue = {}
  /\ examined = [v \in Vertices |-> 0]
  /\ examined_count = 0
  /\ u_path = t_id
  /\ matching_edges = {}
  /\ matching_cost = 0
  /\ pc = "start"

-----------------------------------------------------------------------------
(* Dijkstra's search, and the loop around it. *)

SearchWith(residual, predecessors) ==
  /\ pc = "start"
  /\ residual_capacity' = residual
  /\ pred' = predecessors
  /\ distance' = [v \in Vertices |-> IF v = s_id THEN 0 ELSE IntMax]
  /\ queue' = {s_id}
  /\ examined' = [v \in Vertices |-> 0]
  /\ examined_count' = 0
  /\ pc' = "search"
  /\ UNCHANGED <<input, distance_prev, u_path, result>>

NoPredecessors == [v \in Vertices |-> NoVertex]

StartSearchKeepingPredecessors == SearchWith(residual_capacity, pred)
StartSearchWithoutFlow == SearchWith(Arcs(edges), NoPredecessors)

\* Head of the loop: no predecessors, and only s has a distance.
StartSearch == SearchWith(residual_capacity, NoPredecessors)

\* MapReducedWeight.
ReducedWeight(u, v) == distance_prev[u] - distance_prev[v] + weight[<<u, v>>]

\* closed_plus: nothing is reached over an unreached vertex.
ClosedPlus(d, w) == IF IntMax \in {d, w} THEN IntMax ELSE d + w

Successors(u) == {v \in Vertices : <<u, v>> \in residual_capacity}
IsWhite(v) == v \notin queue /\ examined[v] = 0

\* The heap hands out u, at a least distance; every arc with residual capacity
\* out of u is relaxed, unless its head is black.
Relaxed(u) ==
  {v \in Successors(u) : /\ examined[v] = 0
                         /\ ClosedPlus(distance[u], ReducedWeight(u, v)) < distance[v]}

IsGreatest(u) == \A v \in queue : distance[u] >= distance[v]
IsLeast(u) == \A v \in queue : distance[u] <= distance[v]

\* examine_edge throws negative_edge, which nothing between here and main
\* catches: what had been relaxed before is then of no importance.
MeetsNegativeEdge(u) == \E v \in Successors(u) : ReducedWeight(u, v) < 0

ExamineVertex(u) ==
  /\ pc = "search"
  /\ u \in queue
  /\ IsLeast(u)
  /\ distance' = [v \in Vertices |->
                    IF v \in Relaxed(u) THEN distance[u] + ReducedWeight(u, v)
                                        ELSE distance[v]]
  /\ pred' = [v \in Vertices |-> IF v \in Relaxed(u) THEN u ELSE pred[v]]
  /\ queue' = (queue \ {u}) \cup {v \in Successors(u) : IsWhite(v)}
  /\ examined_count' = examined_count + 1
  /\ examined' = [examined EXCEPT ![u] = examined_count']
  /\ pc' = IF MeetsNegativeEdge(u) THEN "negative_edge" ELSE "search"
  /\ UNCHANGED <<input, residual_capacity, distance_prev, u_path, result>>

\* t was not reached: the flow is maximum.
StopSearching ==
  /\ pc = "search"
  /\ queue = {}
  /\ pred[t_id] = NoVertex
  /\ pc' = "extract"
  /\ UNCHANGED <<input, residual_capacity, distance_prev, search, u_path, result>>

\* distance_prev += distance, for the unreached vertices too: there IntMax is
\* added, which overflows the int unless the potential was still 0 or negative.
Overflows(v) == distance[v] = IntMax /\ distance_prev[v] > 0

\* Every addition is one of its own: overflow says what each of them stores.
NewPotentials(overflow) ==
  [v \in Vertices |-> IF Overflows(v) THEN overflow[v] ELSE distance_prev[v] + distance[v]]

AugmentWith(potentials) ==
  /\ pc = "search"
  /\ queue = {}
  /\ pred[t_id] # NoVertex
  /\ distance_prev' \in potentials
  /\ u_path' = t_id
  /\ pc' = "augment"
  /\ UNCHANGED <<input, residual_capacity, search, result>>

ReplacePotentials == AugmentWith({distance})
UpdatePotentials ==
  AugmentWith({NewPotentials(overflow) :
                 overflow \in [{v \in Vertices : Overflows(v)} -> OverflowOutcomes]})

\* One round of augment's loop.  All capacities are 1, so delta is 1.
PushWith(taken, isLast) ==
  /\ pc = "augment"
  /\ residual_capacity' = (residual_capacity \ taken) \cup {<<u_path, pred[u_path]>>}
  /\ u_path' = pred[u_path]
  /\ pc' = IF isLast THEN "start" ELSE "augment"
  /\ UNCHANGED <<input, distance_prev, search, result>>

PushFlowPastSource == PushWith({<<pred[u_path], u_path>>}, u_path = s_id)
PushFlowOnReverseOnly == PushWith({}, pred[u_path] = s_id)
PushFlow == PushWith({<<pred[u_path], u_path>>}, pred[u_path] = s_id)

-----------------------------------------------------------------------------
\* The cost of the flow is converted back with the exact additional_cost.
ReturnedCost ==
  successive_flow_value * additional_cost(edges, cost) - Scale * FlowCost

Extract ==
  /\ pc = "extract"
  /\ matching_edges' = MatchedEdges
  /\ matching_cost' = ReturnedCost
  /\ pc' = "done"
  /\ UNCHANGED <<input, residual_capacity, distance_prev, search, u_path>>

Next ==
  \/ StartSearch
  \/ \E u \in Vertices : ExamineVertex(u)
  \/ StopSearching
  \/ UpdatePotentials
  \/ PushFlow
  \/ Extract

Spec == Init /\ [][Next]_vars

\* A single thread computes without waiting for anything.
FairSpec == Spec /\ WF_vars(Next)

-----------------------------------------------------------------------------
(* Safety. *)

\* The flow is a matching whenever the walk back from t is complete, not only
\* at the end: every pupil and every student is in at most one edge with flow.
FlowIsMatching == pc # "augment" => IsMatching(MatchedEdges)

\* The potentials keep every reduced weight that Dijkstra looks at
\* non-negative, so Boost never throws negative_edge.
NeverNegativeEdge == pc # "negative_edge"

\* The dummy arcs make the flow as large as the smaller side, which is what the
\* returned cost assumes when it takes successive_flow_value * additional_cost off.
FlowIsMaximum == pc \in {"extract", "done"} => FlowValue = successive_flow_value

Matchings == {M \in SUBSET edges : IsMatching(M)}
OptimalCost == Max({CostOf(M) : M \in Matchings})

\* Each unit of flow crosses one arc whose weight was rounded down, by less
\* than 1.  So the matching may miss the optimum, and the returned cost may
\* exceed the optimum, by less than 1 per member of the smaller side, and never
\* in the other direction.
CostWithinRounding ==
  pc = "done" =>
    /\ CostOf(matching_edges) <= OptimalCost
    /\ OptimalCost <= matching_cost
    /\ matching_cost <= CostOf(matching_edges)
                         + successive_flow_value * (Scale - 1)

\* What the comment on compute_max_cost_matching says of the edges: they are "a
\* matching of maximum cost".
ReturnsMaximumCostMatching == pc = "done" => CostOf(matching_edges) = OptimalCost

LargestWeight == Max({0} \cup {weight[a] : a \in Arcs(edges)})

\* A path from s crosses an edge at most once more often than it crosses the
\* reverse of an edge with flow, and there are successive_flow_value of those.
LongestPath == (successive_flow_value + 1) * LargestWeight

\* A vertex that a search reaches has a potential between 0 and LongestPath.
\* Hence no sum that is used overflows as long as LongestPath fits in an int,
\* and a vertex to whose potential IntMax was added, because an earlier search
\* did not reach it, is never reached again: the overflow does no harm.
ReachedPotentialsFit ==
  \A v \in Vertices : pred[v] # NoVertex => distance_prev[v] \in 0 .. LongestPath

(* Action properties. *)

\* Later augmentations may give a pupil or a student another partner, and never
\* take its place in the flow away.
CoveredForever ==
  [][{a \in FlowArcs : a \in SourceArcs \cup SinkArcs} \subseteq FlowArcs']_vars

(* Liveness. *)

\* The loop ends and a matching is returned.
Termination == <>(pc = "done")
=============================================================================
