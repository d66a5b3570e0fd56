----------------------- MODULE MaxCostMatchingOptimality -----------------------
(***************************************************************************)
(* What TLAPS proves of the matching that MaxCostMatching delivers: at all *)
(* times the flow is the cheapest of its value, and so the matching is one *)
(* of maximum cost but for what the rounding of the weights makes of it    *)
(* (Part 1), and SuccessiveAssignment is implemented (Part 2).  Part 3     *)
(* bounds the potentials that a search can meet.                           *)
(*                                                                         *)
(* The potentials are the witness.  A search gives the vertices that it    *)
(* does not reach a potential that is of no use, for the addition may      *)
(* overflow.  The prices below are what the potentials would be in         *)
(* integers without bounds: they agree with the potentials where a search  *)
(* may still get, and fit all residual arcs of the network.                *)
(***************************************************************************)
EXTENDS MaxCostMatchingProofs, MaxCostMatchingRefinement, FiniteSums

-----------------------------------------------------------------------------
(* The inductive invariant. *)

\* What the arc a costs more than its ends differ in price.
Excess(price, a) == price[a[1]] - price[a[2]] + weight[a]

PricesFit(price) == \A a \in residual_capacity : Excess(price, a) >= 0

\* What LiveOK says of the live vertices, with the potentials as their prices.
Agrees(price, L) ==
  pc \in {"start", "search", "augment"} =>
    /\ Live(L)
    /\ \A v \in L : price[v] = distance_prev[v]
    /\ pc = "search" => Seen \subseteq L
    /\ pc = "augment" =>
         \A v \in Vertices : pred[v] # NoVertex =>
           v \in L /\ pred[v] \in L /\ ReducedWeight(pred[v], v) = 0

PricesOK ==
  \E price \in [Vertices -> Int], L \in SUBSET Vertices :
    PricesFit(price) /\ Agrees(price, L)

\* The members of the smaller side, those that they may be assigned to, and the
\* vertex that takes the flow of a member assigned to nobody.
PupilsAreFewer == NumPupils < NumStudents
MemberVertices == IF PupilsAreFewer THEN PupilIds ELSE StudentVertices
OtherVertices == IF PupilsAreFewer THEN StudentVertices ELSE PupilIds
Nobody == IF PupilsAreFewer THEN t_id ELSE s_id

\* The arcs over which a member m, assigned to z, has its flow.
PlaceArc(m) == IF PupilsAreFewer THEN <<s_id, m>> ELSE <<m, t_id>>
PairArc(m, z) == IF PupilsAreFewer THEN <<m, z>> ELSE <<z, m>>
OtherArc(z) == IF PupilsAreFewer THEN <<z, t_id>> ELSE <<s_id, z>>

\* When the search is over everyone on the smaller side has flow.
EveryonePlaced ==
  pc \in {"extract", "done"} => \A m \in MemberVertices : PlaceArc(m) \in FlowArcs

\* The input stays as it was, and the result is read off the flow.
NetworkOK ==
  /\ weight = NetworkWeights(edges, cost)
  /\ cost \in [edges -> CostValues]
  /\ pc = "done" =>
       /\ matching_edges = MatchedEdges
       /\ matching_cost = successive_flow_value * additional_cost(edges, cost)
                            - Scale * SumOver(weight, FlowArcs)

OptimalityInvariant(W) ==
  FlowValueInvariant(W) /\ PricesOK /\ NetworkOK /\ EveryonePlaced

-----------------------------------------------------------------------------
(* The steps keep the prices. *)

\* An arc of the residual network is the pair of its ends, and weighs something.
LEMMA ResidualExcess ==
  ASSUME NEW W \in Nat, PotentialInvariant(W), NEW price \in [Vertices -> Int],
         NEW a \in residual_capacity
  PROVE  /\ a = <<a[1], a[2]>> /\ a[1] \in Vertices /\ a[2] \in Vertices
         /\ weight[a] \in Int /\ Excess(price, a) \in Int
<1>1. /\ residual_capacity \subseteq Arcs(edges) \cup {rev(b) : b \in Arcs(edges)}
      /\ edges \in SUBSET (PupilIds \X StudentIds)
  BY DEF PotentialInvariant, FlowInvariant, ResidualOK, TypeOK
<1>2. a = <<a[1], a[2]>>
  <2>1. CASE a \in Arcs(edges)
    BY <1>1, <2>1, ArcsArePairs
  <2>2. CASE \E b \in Arcs(edges) : a = rev(b)
    BY <2>2 DEF rev
  <2>3. QED
    BY <1>1, <2>1, <2>2
<1>3. PICK u, v : a = <<u, v>> /\ u = a[1] /\ v = a[2]
  BY <1>2
<1>4. u \in Vertices /\ v \in Vertices /\ weight[<<u, v>>] \in Int
  BY <1>3, ResidualWeights DEF PotentialInvariant
<1>5. QED
  BY <1>2, <1>3, <1>4 DEF Excess

\* UpdatePotentials adds the distances.  A vertex that was not reached is as far
\* away as can be, and no residual arc leads to it from one that was.
LEMMA UpdatePotentialsKeepsPrices ==
  ASSUME NEW W \in Nat, PotentialInvariant(W), PricesOK, UpdatePotentials
  PROVE  PricesOK'
<1>1. pc = "search" /\ pc' = "augment" /\ queue = {} /\ Seen = Examined
  BY DEF UpdatePotentials, AugmentWith, Seen
<1>2. TypeOK /\ TreeOK /\ SeenOK /\ ExaminedOK
  BY <1>1 DEF PotentialInvariant, FlowInvariant, DistancesOK
<1>3. /\ residual_capacity' = residual_capacity /\ weight' = weight
      /\ pred' = pred /\ examined' = examined
  BY DEF UpdatePotentials, AugmentWith, input, search
<1>4. PICK price \in [Vertices -> Int], L \in SUBSET Vertices :
        PricesFit(price) /\ Agrees(price, L)
  BY DEF PricesOK
<1>5. PICK new : new = [v \in Vertices |-> price[v] + distance[v]]
  OBVIOUS
<1>6. \A v \in Vertices : distance[v] \in Int /\ price[v] \in Int
  BY <1>2 DEF TypeOK
<1>7. new \in [Vertices -> Int] /\ \A v \in Vertices : new[v] = price[v] + distance[v]
  BY <1>5, <1>6
<1>8. /\ \A v \in Examined : distance[v] \in 0 .. IntMax - 1
      /\ \A v \in Vertices \ Examined : distance[v] = IntMax
  BY <1>1, <1>2 DEF SeenOK
<1>9. \A v \in Examined : v \in L /\ price[v] = distance_prev[v]
  BY <1>1, <1>4 DEF Agrees
<1>10. ASSUME NEW a \in residual_capacity PROVE Excess(new, a)' >= 0
  <2>1. PICK u, v : /\ u = a[1] /\ v = a[2] /\ a = <<u, v>>
                    /\ u \in Vertices /\ v \in Vertices /\ weight[a] \in Int
    BY <1>4, ResidualExcess
  <2>2. price[u] - price[v] + weight[a] >= 0
    BY <1>4, <2>1 DEF PricesFit, Excess
  <2>3. distance[u] >= distance[v] \/ (u \in Examined /\ v \in Examined)
    BY <1>2, <1>8, <2>1, <1>1, IntAssumption DEF ExaminedOK
  <2>4. new[u] - new[v] + weight[a] >= 0
    <3>1. CASE distance[u] >= distance[v]
      BY <1>6, <1>7, <2>1, <2>2, <3>1
    <3>2. CASE u \in Examined /\ v \in Examined
      <4>1. distance[v] <= distance[u] + ReducedWeight(u, v)
        BY <1>2, <2>1, <3>2 DEF ExaminedOK
      <4>2. ReducedWeight(u, v) = price[u] - price[v] + weight[a]
        BY <1>9, <2>1, <3>2 DEF ReducedWeight
      <4>3. QED
        BY <1>6, <1>7, <2>1, <4>1, <4>2
    <3>3. QED
      BY <2>3, <3>1, <3>2
  <2>5. QED
    BY <1>3, <2>1, <2>4 DEF Excess
<1>11. PricesFit(new)'
  BY <1>3, <1>10 DEF PricesFit
<1>12. PICK M : M = Examined
  OBVIOUS
<1>13. Agrees(new, M)'
  <2>1. /\ M \in SUBSET Vertices
        /\ Live(M)'
        /\ \A v \in M : distance_prev'[v] = distance_prev[v] + distance[v]
        /\ \A v \in Vertices : pred'[v] # NoVertex =>
             v \in M /\ pred'[v] \in M /\ ReducedWeight(pred[v], v)' = 0
    BY <1>12, UpdatedPotentials
  <2>2. \A v \in M : new[v] = distance_prev'[v]
    BY <1>7, <1>9, <1>12, <2>1
  <2>3. QED
    BY <1>1, <2>1, <2>2 DEF Agrees
<1>14. M \in SUBSET Vertices
  BY <1>12 DEF Examined
<1>15. QED
  BY <1>7, <1>11, <1>13, <1>14 DEF PricesOK

\* The walk follows arcs whose ends differ in price by exactly what they cost.
LEMMA PushFlowKeepsPrices ==
  ASSUME NEW W \in Nat, PotentialInvariant(W), PricesOK, PushFlow
  PROVE  PricesOK'
<1>1. pc = "augment" /\ pc' \in {"start", "augment"} /\ pred' = pred
  BY DEF PushFlow, PushWith, search
<1>2. PICK price \in [Vertices -> Int], L \in SUBSET Vertices :
        PricesFit(price) /\ Agrees(price, L)
  BY DEF PricesOK
<1>3. PICK w, u : w = u_path /\ u = pred[w]
  OBVIOUS
<1>4. /\ w \in Vertices /\ u \in Vertices /\ <<u, w>> \in residual_capacity
      /\ pred[w] # NoVertex
  BY <1>1, <1>3, WalkStep DEF PotentialInvariant, FlowInvariant, WalkOK
<1>5. /\ residual_capacity' = (residual_capacity \ {<<u, w>>}) \cup {<<w, u>>}
      /\ weight' = weight /\ distance_prev' = distance_prev
  BY <1>3 DEF PushFlow, PushWith, input
<1>6. /\ Live(L)
      /\ \A v \in L : price[v] = distance_prev[v]
      /\ \A v \in Vertices : pred[v] # NoVertex =>
           v \in L /\ pred[v] \in L /\ ReducedWeight(pred[v], v) = 0
  BY <1>1, <1>2 DEF Agrees
<1>7. Excess(price, <<w, u>>) = 0
  <2>1. ReducedWeight(u, w) = 0 /\ price[u] = distance_prev[u] /\ price[w] = distance_prev[w]
    BY <1>3, <1>4, <1>6
  <2>2. weight[<<u, w>>] \in Int /\ weight[<<w, u>>] = -weight[<<u, w>>]
    BY <1>4, ResidualWeights DEF PotentialInvariant
  <2>3. price[u] \in Int /\ price[w] \in Int
    BY <1>4
  <2>4. price[u] - price[w] + weight[<<u, w>>] = 0
    BY <2>1 DEF ReducedWeight
  <2>5. price[w] - price[u] + weight[<<w, u>>] = 0
    BY <2>2, <2>3, <2>4
  <2>6. QED
    BY <2>5 DEF Excess
<1>8. PricesFit(price)'
  <2>1. \A a : Excess(price, a)' = Excess(price, a)
    BY <1>5 DEF Excess
  <2>2. QED
    BY <1>2, <1>5, <1>7, <2>1 DEF PricesFit
<1>9. Agrees(price, L)'
  BY <1>1, <1>5, <1>6, PushFlowKeepsLive DEF Agrees
<1>10. QED
  BY <1>2, <1>8, <1>9 DEF PricesOK

\* Without flow the price 0 fits everywhere.
LEMMA InitPrices ==
  ASSUME NEW W \in Nat, PotentialInvariant(W), Init
  PROVE  PricesOK /\ NetworkOK
<1>1. NetworkOK
  BY DEF Init, NetworkOK
<1>2. PICK price : price = [v \in Vertices |-> 0]
  OBVIOUS
<1>3. price \in [Vertices -> Int] /\ distance_prev = price /\ pc = "start"
  BY <1>2 DEF Init
<1>4. PricesFit(price)
  <2>1. ASSUME NEW a \in residual_capacity PROVE Excess(price, a) >= 0
    <3>1. a[1] \in Vertices /\ a[2] \in Vertices
      BY ResidualExcess, <1>3
    <3>2. weight[a] \in 0 .. W
      BY DEF Init, PotentialInvariant, WeightsOK
    <3>3. QED
      BY <1>2, <3>1, <3>2 DEF Excess
  <2>2. QED
    BY <2>1 DEF PricesFit
<1>5. PICK L \in SUBSET Vertices : Live(L)
  BY <1>3 DEF PotentialInvariant, LiveOK
<1>6. Agrees(price, L)
  BY <1>3, <1>5 DEF Agrees
<1>7. QED
  BY <1>1, <1>3, <1>4, <1>6 DEF PricesOK

\* All actions together.
LEMMA StepKeepsPrices ==
  ASSUME NEW W \in Nat, PathsFit(W), PotentialInvariant(W), PricesOK, [Next]_vars
  PROVE  PricesOK'
<1>1. CASE StartSearch
  <2>1. PICK price \in [Vertices -> Int], L \in SUBSET Vertices :
          PricesFit(price) /\ Agrees(price, L)
    BY DEF PricesOK
  <2>2. /\ pc = "start" /\ pc' = "search"
        /\ residual_capacity' = residual_capacity /\ weight' = weight
        /\ distance_prev' = distance_prev
        /\ Seen' = {s_id}
    BY <1>1 DEF StartSearch, SearchWith, Seen, Examined, input
  <2>3. PricesFit(price)'
    BY <2>1, <2>2 DEF PricesFit, Excess
  <2>4. Agrees(price, L)'
    BY <2>1, <2>2, SameLive DEF Agrees, Live
  <2>5. QED
    BY <2>3, <2>4 DEF PricesOK
<1>2. ASSUME NEW u \in Vertices, ExamineVertex(u) PROVE PricesOK'
  <2>1. PICK price \in [Vertices -> Int], L \in SUBSET Vertices :
          PricesFit(price) /\ Agrees(price, L)
    BY DEF PricesOK
  <2>2. /\ pc = "search" /\ pc' = "search" /\ u \in queue
        /\ residual_capacity' = residual_capacity /\ weight' = weight
        /\ distance_prev' = distance_prev
        /\ queue' \subseteq queue \cup Successors(u)
        /\ Examined' \subseteq Examined \cup {u}
    <3>1. pc' = "search"
      BY <1>2, ExamineStep
    <3>2. \A v \in Vertices \ {u} : examined'[v] = examined[v]
      BY <1>2 DEF ExamineVertex, PotentialInvariant, FlowInvariant, TypeOK
    <3>3. Examined' \subseteq Examined \cup {u}
      BY <3>2 DEF Examined
    <3>4. QED
      BY <1>2, <3>1, <3>3 DEF ExamineVertex, input
  <2>3. Live(L) /\ Seen \subseteq L
    BY <2>1, <2>2 DEF Agrees
  <2>4. Seen' \subseteq L
    BY <2>2, <2>3 DEF Seen, Successors, Live
  <2>5. PricesFit(price)'
    BY <2>1, <2>2 DEF PricesFit, Excess
  <2>6. Agrees(price, L)'
    BY <2>1, <2>2, <2>4, SameLive DEF Agrees
  <2>7. QED
    BY <2>5, <2>6 DEF PricesOK
<1>3. CASE UpdatePotentials
  BY <1>3, UpdatePotentialsKeepsPrices
<1>4. CASE PushFlow
  BY <1>4, PushFlowKeepsPrices
<1>5. CASE StopSearching \/ Extract \/ UNCHANGED vars
  <2>1. PICK price \in [Vertices -> Int], L \in SUBSET Vertices :
          PricesFit(price) /\ Agrees(price, L)
    BY DEF PricesOK
  <2>2. residual_capacity' = residual_capacity /\ weight' = weight
    BY <1>5 DEF StopSearching, Extract, vars, input
  <2>3. PricesFit(price)'
    BY <2>1, <2>2 DEF PricesFit, Excess
  <2>4. Agrees(price, L)'
    <3>1. CASE StopSearching \/ Extract
      BY <3>1 DEF StopSearching, Extract, Agrees
    <3>2. CASE UNCHANGED vars
      BY <2>1, <3>2
      DEF vars, input, search, Agrees, Live, ReducedWeight, Seen, Examined
    <3>3. QED
      BY <1>5, <3>1, <3>2
  <2>5. QED
    BY <2>3, <2>4 DEF PricesOK
<1>6. QED
  BY <1>1, <1>2, <1>3, <1>4, <1>5 DEF Next

\* The input never changes, and Extract alone sets the result.
LEMMA StepKeepsNetwork ==
  ASSUME NetworkOK, [Next]_vars
  PROVE  NetworkOK'
<1>1. /\ edges' = edges /\ cost' = cost /\ weight' = weight
  BY DEF Next, StartSearch, SearchWith, ExamineVertex, StopSearching, UpdatePotentials,
         AugmentWith, PushFlow, PushWith, Extract, vars, input
<1>2. NetworkWeights(edges, cost)' = NetworkWeights(edges, cost)
  BY <1>1
<1>3. CASE residual_capacity' = residual_capacity
  <2>1. FlowArcs' = FlowArcs /\ MatchedEdges' = MatchedEdges
    BY <1>1, <1>3, SameFlow DEF MatchedEdges
  <2>2. additional_cost(edges, cost)' = additional_cost(edges, cost)
    BY <1>1
  <2>3. ReturnedCost = successive_flow_value * additional_cost(edges, cost)
                         - Scale * SumOver(weight, FlowArcs)
    BY DEF ReturnedCost, FlowCost, SumOver
  <2>4. CASE Extract
    BY <1>1, <1>2, <2>1, <2>2, <2>3, <2>4 DEF Extract, NetworkOK, successive_flow_value
  <2>5. CASE UNCHANGED vars
    BY <1>1, <1>2, <2>1, <2>2, <2>5 DEF vars, result, NetworkOK, successive_flow_value
  <2>6. CASE pc' # "done"
    BY <1>1, <1>2, <2>6 DEF NetworkOK
  <2>7. QED
    BY <2>4, <2>5, <2>6
    DEF Next, StartSearch, SearchWith, ExamineVertex, StopSearching, UpdatePotentials,
        AugmentWith, PushFlow, PushWith
<1>4. CASE PushFlow
  <2>1. pc' # "done"
    BY <1>4 DEF PushFlow, PushWith
  <2>2. QED
    BY <1>1, <1>2, <2>1 DEF NetworkOK
<1>5. QED
  BY <1>3, <1>4
  DEF Next, StartSearch, SearchWith, ExamineVertex, StopSearching, UpdatePotentials,
      AugmentWith, Extract, vars

-----------------------------------------------------------------------------
(* The flow as an assignment of the smaller side. *)

\* A member can be assigned to nobody or along an edge.
LEMMA Sides ==
  ASSUME NEW E \in SUBSET (PupilIds \X StudentIds), NEW m \in MemberVertices
  PROVE  /\ m \in Vertices /\ m \notin OtherVertices /\ Nobody \notin OtherVertices
         /\ OtherVertices \subseteq Vertices /\ Nobody \in Vertices
         /\ PlaceArc(m) \in Arcs(E) /\ PlaceArc(m) \notin EdgeArcs(E) \cup DummyArcs
         /\ PairArc(m, Nobody) \in DummyArcs /\ PairArc(m, Nobody) \in Arcs(E)
         /\ PairArc(m, Nobody) \notin EdgeArcs(E)
         /\ \A z : PairArc(m, z) \in Arcs(E) =>
                     z = Nobody \/ (z \in OtherVertices /\ PairArc(m, z) \in EdgeArcs(E))
         /\ \A z \in OtherVertices :
              OtherArc(z) \in Arcs(E) /\ OtherArc(z) \notin EdgeArcs(E) \cup DummyArcs
<1>1. \A id \in StudentIds : StudentVertex(id) \in StudentVertices
  BY DEF StudentVertices
<1>2. CASE PupilsAreFewer
  <2>1. m \in PupilIds /\ MemberVertices = PupilIds /\ OtherVertices = StudentVertices
        /\ Nobody = t_id
    BY <1>2 DEF MemberVertices, OtherVertices, Nobody
  <2>2. PlaceArc(m) = <<s_id, m>> /\ \A z : PairArc(m, z) = <<m, z>> /\ OtherArc(z) = <<z, t_id>>
    BY <1>2 DEF PlaceArc, PairArc, OtherArc
  <2>3. DummyArcs = {<<id, t_id>> : id \in PupilIds}
    BY <1>2 DEF DummyArcs, PupilsAreFewer
  <2>4. \A u, v : <<u, v>> \in EdgeArcs(E) => u \in PupilIds /\ v \in StudentVertices
    BY <1>1 DEF EdgeArcs, EdgeArc
  <2>5. \A u, v : <<u, v>> \in SourceArcs <=> u = s_id /\ v \in PupilIds
    BY DEF SourceArcs
  <2>6. \A u, v : <<u, v>> \in SinkArcs <=> u \in StudentVertices /\ v = t_id
    BY DEF SinkArcs, StudentVertices
  <2>7. \A u, v : <<u, v>> \in DummyArcs <=> u \in PupilIds /\ v = t_id
    BY <2>3
  <2>8. QED
    BY <2>1, <2>2, <2>4, <2>5, <2>6, <2>7, VertexKinds DEF Arcs
<1>3. CASE ~PupilsAreFewer
  <2>1. m \in StudentVertices /\ MemberVertices = StudentVertices /\ OtherVertices = PupilIds
        /\ Nobody = s_id
    BY <1>3 DEF MemberVertices, OtherVertices, Nobody
  <2>2. PlaceArc(m) = <<m, t_id>> /\ \A z : PairArc(m, z) = <<z, m>> /\ OtherArc(z) = <<s_id, z>>
    BY <1>3 DEF PlaceArc, PairArc, OtherArc
  <2>3. DummyArcs = {<<s_id, StudentVertex(id)>> : id \in StudentIds}
    BY <1>3 DEF DummyArcs, PupilsAreFewer
  <2>4. \A u, v : <<u, v>> \in EdgeArcs(E) => u \in PupilIds /\ v \in StudentVertices
    BY <1>1 DEF EdgeArcs, EdgeArc
  <2>5. \A u, v : <<u, v>> \in SourceArcs <=> u = s_id /\ v \in PupilIds
    BY DEF SourceArcs
  <2>6. \A u, v : <<u, v>> \in SinkArcs <=> u \in StudentVertices /\ v = t_id
    BY DEF SinkArcs, StudentVertices
  <2>7. \A u, v : <<u, v>> \in DummyArcs <=> u = s_id /\ v \in StudentVertices
    BY <2>3 DEF StudentVertices
  <2>8. QED
    BY <2>1, <2>2, <2>4, <2>5, <2>6, <2>7, VertexKinds DEF Arcs
<1>4. QED
  BY <1>2, <1>3

\* Whoever has flow when no walk is under way has it along a path of its own: a
\* member has a place exactly when it is assigned, to one vertex, and one of the
\* others is in the flow exactly when a member, and one only, is assigned to it.
LEMMA SettledFlow ==
  ASSUME NEW W \in Nat, FlowValueInvariant(W), pc # "augment"
  PROVE  /\ \A m \in MemberVertices : PlaceArc(m) \in FlowArcs =>
              \E z \in OtherVertices \cup {Nobody} : PairArc(m, z) \in FlowArcs
         /\ \A m \in MemberVertices : \A z : PairArc(m, z) \in FlowArcs =>
              /\ PlaceArc(m) \in FlowArcs
              /\ z # Nobody => z \in OtherVertices /\ OtherArc(z) \in FlowArcs
         /\ \A m \in MemberVertices : \A y, z :
              PairArc(m, y) \in FlowArcs /\ PairArc(m, z) \in FlowArcs => y = z
         /\ \A z \in OtherVertices : OtherArc(z) \in FlowArcs =>
              \E m \in MemberVertices : PairArc(m, z) \in FlowArcs
         /\ \A l, m \in MemberVertices, z \in OtherVertices :
              PairArc(l, z) \in FlowArcs /\ PairArc(m, z) \in FlowArcs => l = m
<1>1. /\ edges \in SUBSET (PupilIds \X StudentIds)
      /\ \A p \in PupilIds : PupilBalanced(p, NoVertex)
      /\ \A v \in StudentVertices : StudentBalanced(v)
      /\ \A p \in PupilIds : <<s_id, p>> \in FlowArcs => \E v \in Vertices : <<p, v>> \in FlowArcs
      /\ \A v \in StudentVertices :
           <<v, t_id>> \in FlowArcs => \E p \in Vertices : <<p, v>> \in FlowArcs
  BY DEF FlowValueInvariant, PotentialInvariant, FlowInvariant, TypeOK, BalanceOK,
         ConservationOK
<1>2. \A u, v : <<u, v>> \in FlowArcs =>
         /\ <<u, v>> \in Arcs(edges)
         /\ u \in Vertices \ {NoVertex} /\ v \in Vertices \ {NoVertex}
         /\ \/ u = s_id /\ v \in PupilIds \cup StudentVertices
            \/ u \in PupilIds \cup StudentVertices /\ v = t_id
            \/ u \in PupilIds /\ v \in StudentVertices
  BY <1>1, ArcKinds, VertexKinds DEF FlowArcs
<1>3. \A m \in MemberVertices : \A z : PairArc(m, z) \in FlowArcs =>
         z = Nobody \/ z \in OtherVertices
  BY <1>1, Sides DEF FlowArcs
<1>4. CASE PupilsAreFewer
  <2>1. /\ MemberVertices = PupilIds /\ OtherVertices = StudentVertices /\ Nobody = t_id
        /\ \A m, z : /\ PlaceArc(m) = <<s_id, m>> /\ PairArc(m, z) = <<m, z>>
                     /\ OtherArc(z) = <<z, t_id>>
    BY <1>4 DEF MemberVertices, OtherVertices, Nobody, PlaceArc, PairArc, OtherArc
  <2>2. \A v \in StudentVertices : <<s_id, v>> \notin Arcs(edges)
    BY <1>1, <1>4, VertexKinds
    DEF PupilsAreFewer, Arcs, EdgeArcs, EdgeArc, SourceArcs, SinkArcs, DummyArcs
  <2>3. \A p, v : <<p, v>> \in FlowArcs /\ v \in StudentVertices => p \in PupilIds
    BY <1>2, <2>2, VertexKinds
  <2>4. \A m \in MemberVertices : \A z : PairArc(m, z) \in FlowArcs =>
           /\ PlaceArc(m) \in FlowArcs
           /\ z # Nobody => z \in OtherVertices /\ OtherArc(z) \in FlowArcs
    BY <2>1, <1>1, <1>2, VertexKinds DEF PupilBalanced, StudentBalanced
  <2>5. \A m \in MemberVertices : \A y, z :
           PairArc(m, y) \in FlowArcs /\ PairArc(m, z) \in FlowArcs => y = z
    BY <2>1, <1>1, <1>2 DEF PupilBalanced
  <2>6. \A l, m \in MemberVertices, z \in OtherVertices :
           PairArc(l, z) \in FlowArcs /\ PairArc(m, z) \in FlowArcs => l = m
    BY <2>1, <1>1, <1>2 DEF StudentBalanced
  <2>7. \A m \in MemberVertices : PlaceArc(m) \in FlowArcs =>
           \E z \in OtherVertices \cup {Nobody} : PairArc(m, z) \in FlowArcs
    <3>1. ASSUME NEW m \in MemberVertices, PlaceArc(m) \in FlowArcs
          PROVE  \E z \in OtherVertices \cup {Nobody} : PairArc(m, z) \in FlowArcs
      <4>1. PICK z \in Vertices : PairArc(m, z) \in FlowArcs
        BY <1>1, <2>1, <3>1
      <4>2. z = Nobody \/ z \in OtherVertices
        BY <1>3, <4>1
      <4>3. QED
        BY <4>1, <4>2
    <3>2. QED
      BY <3>1
  <2>8. \A z \in OtherVertices : OtherArc(z) \in FlowArcs =>
           \E m \in MemberVertices : PairArc(m, z) \in FlowArcs
    BY <2>1, <1>1, <2>3
  <2>9. QED
    BY <2>4, <2>5, <2>6, <2>7, <2>8
<1>5. CASE ~PupilsAreFewer
  <2>1. /\ MemberVertices = StudentVertices /\ OtherVertices = PupilIds /\ Nobody = s_id
        /\ \A m, z : /\ PlaceArc(m) = <<m, t_id>> /\ PairArc(m, z) = <<z, m>>
                     /\ OtherArc(z) = <<s_id, z>>
    BY <1>5 DEF MemberVertices, OtherVertices, Nobody, PlaceArc, PairArc, OtherArc
  <2>2. \A p \in PupilIds : <<p, t_id>> \notin Arcs(edges)
    BY <1>1, <1>5, VertexKinds
    DEF PupilsAreFewer, Arcs, EdgeArcs, EdgeArc, SourceArcs, SinkArcs, DummyArcs,
        StudentVertices
  <2>3. \A p, v : <<p, v>> \in FlowArcs /\ p \in PupilIds => v \in StudentVertices
    BY <1>2, <2>2, VertexKinds
  <2>4. \A m \in MemberVertices : \A z : PairArc(m, z) \in FlowArcs =>
           /\ PlaceArc(m) \in FlowArcs
           /\ z # Nobody => z \in OtherVertices /\ OtherArc(z) \in FlowArcs
    BY <2>1, <1>1, <1>2, VertexKinds DEF PupilBalanced, StudentBalanced
  <2>5. \A m \in MemberVertices : \A y, z :
           PairArc(m, y) \in FlowArcs /\ PairArc(m, z) \in FlowArcs => y = z
    BY <2>1, <1>1, <1>2 DEF StudentBalanced
  <2>6. \A l, m \in MemberVertices, z \in OtherVertices :
           PairArc(l, z) \in FlowArcs /\ PairArc(m, z) \in FlowArcs => l = m
    <3>1. \A z \in PupilIds : \A l, m : <<z, l>> \in FlowArcs /\ <<z, m>> \in FlowArcs => l = m
      BY <1>1, <1>2 DEF PupilBalanced
    <3>2. QED
      BY <2>1, <3>1
  <2>7. \A m \in MemberVertices : PlaceArc(m) \in FlowArcs =>
           \E z \in OtherVertices \cup {Nobody} : PairArc(m, z) \in FlowArcs
    <3>1. ASSUME NEW m \in MemberVertices, PlaceArc(m) \in FlowArcs
          PROVE  \E z \in OtherVertices \cup {Nobody} : PairArc(m, z) \in FlowArcs
      <4>1. PICK z \in Vertices : PairArc(m, z) \in FlowArcs
        BY <1>1, <2>1, <3>1
      <4>2. z = Nobody \/ z \in OtherVertices
        BY <1>3, <4>1
      <4>3. QED
        BY <4>1, <4>2
    <3>2. QED
      BY <3>1
  <2>8. \A z \in OtherVertices : OtherArc(z) \in FlowArcs =>
           \E m \in MemberVertices : PairArc(m, z) \in FlowArcs
    BY <2>1, <1>1, <2>3
  <2>9. QED
    BY <2>4, <2>5, <2>6, <2>7, <2>8
<1>6. QED
  BY <1>4, <1>5

-----------------------------------------------------------------------------
(* What the flow costs. *)

\* The prices say of every arc whether it may have flow.
LEMMA ArcExcess ==
  ASSUME NEW W \in Nat, PotentialInvariant(W), NEW price \in [Vertices -> Int],
         PricesFit(price), NEW a \in Arcs(edges)
  PROVE  /\ weight[a] \in Int /\ Excess(price, a) \in Int
         /\ a \in FlowArcs => Excess(price, a) <= 0
         /\ a \notin FlowArcs => Excess(price, a) >= 0
<1>1. edges \in SUBSET (PupilIds \X StudentIds) /\ ResidualOK /\ WeightsOK(W)
  BY DEF PotentialInvariant, FlowInvariant, TypeOK
<1>2. PICK u, v : a = <<u, v>>
  BY <1>1, ArcsArePairs
<1>3. u \in Vertices /\ v \in Vertices
  BY <1>1, <1>2, ArcsAreAntisymmetric
<1>4. rev(a) = <<v, u>> /\ weight[a] \in Int /\ weight[<<v, u>>] = -weight[a]
  BY <1>1, <1>2 DEF WeightsOK, rev
<1>5. /\ Excess(price, a) = price[u] - price[v] + weight[a]
      /\ Excess(price, <<v, u>>) = price[v] - price[u] + weight[<<v, u>>]
  BY <1>2 DEF Excess
<1>6. price[u] \in Int /\ price[v] \in Int
  BY <1>3
<1>7. CASE a \in FlowArcs
  <2>1. <<v, u>> \in residual_capacity
    BY <1>1, <1>4, <1>7 DEF ResidualOK, FlowArcs
  <2>2. Excess(price, <<v, u>>) >= 0
    BY <2>1 DEF PricesFit
  <2>3. QED
    BY <1>4, <1>5, <1>6, <1>7, <2>2
<1>8. CASE a \notin FlowArcs
  <2>1. Excess(price, a) >= 0
    BY <1>8 DEF PricesFit, FlowArcs
  <2>2. QED
    BY <1>4, <1>5, <1>6, <1>8, <2>1
<1>9. QED
  BY <1>7, <1>8

\* Only the arcs of edges and the dummy arcs cost anything.
LEMMA FreeArcs ==
  ASSUME NetworkOK, NEW a \in Arcs(edges), a \notin EdgeArcs(edges) \cup DummyArcs
  PROVE  weight[a] = 0
<1>1. ArcCost(edges, cost, a) = 0
  BY DEF ArcCost
<1>2. ToInt(0) = 0
  BY ScaleAssumption DEF ToInt
<1>3. QED
  BY <1>1, <1>2 DEF NetworkOK, NetworkWeights

\* The prices along the path of an assigned member cancel out.
LEMMA PathExcess ==
  ASSUME NEW W \in Nat, PotentialInvariant(W), NetworkOK, NEW price \in [Vertices -> Int],
         PricesFit(price), NEW m \in MemberVertices, NEW z, PairArc(m, z) \in Arcs(edges)
  PROVE  /\ Excess(price, PlaceArc(m)) \in Int /\ Excess(price, PairArc(m, z)) \in Int
         /\ z = Nobody =>
              weight[PairArc(m, z)] = Excess(price, PlaceArc(m)) + Excess(price, PairArc(m, z))
                                        + 0 + (price[t_id] - price[s_id])
         /\ z # Nobody =>
              /\ z \in OtherVertices /\ Excess(price, OtherArc(z)) \in Int
              /\ weight[PairArc(m, z)]
                   = Excess(price, PlaceArc(m)) + Excess(price, PairArc(m, z))
                       + Excess(price, OtherArc(z)) + (price[t_id] - price[s_id])
<1>1. edges \in SUBSET (PupilIds \X StudentIds)
  BY DEF PotentialInvariant, FlowInvariant, TypeOK
<1>2. /\ m \in Vertices /\ z \in Vertices /\ (z = Nobody \/ z \in OtherVertices)
      /\ PlaceArc(m) \in Arcs(edges) /\ weight[PlaceArc(m)] = 0
      /\ z # Nobody => OtherArc(z) \in Arcs(edges) /\ weight[OtherArc(z)] = 0
      /\ weight[PairArc(m, z)] \in Int
  BY <1>1, Sides, FreeArcs, ArcExcess
<1>3. price[m] \in Int /\ price[z] \in Int /\ price[s_id] \in Int /\ price[t_id] \in Int
  BY <1>2, VertexKinds
<1>4. CASE PupilsAreFewer
  BY <1>2, <1>3, <1>4 DEF PlaceArc, PairArc, OtherArc, Nobody, Excess
<1>5. CASE ~PupilsAreFewer
  BY <1>2, <1>3, <1>5 DEF PlaceArc, PairArc, OtherArc, Nobody, Excess
<1>6. QED
  BY <1>4, <1>5

\* Both sides are finite.
LEMMA SidesAreFinite ==
  /\ IsFiniteSet(MemberVertices) /\ IsFiniteSet(OtherVertices)
  /\ Cardinality(MemberVertices) = successive_flow_value
<1>1. IsFiniteSet(PupilIds) /\ Cardinality(PupilIds) = NumPupils
  BY FS_Interval, SizeAssumption DEF PupilIds
<1>2. IsFiniteSet(StudentVertices) /\ Cardinality(StudentVertices) = NumStudents
  <2>1. StudentVertices = NumPupils .. (s_id - 1)
    BY SizeAssumption DEF StudentVertices, StudentVertex, StudentIds, s_id
  <2>2. NumPupils \in Int /\ s_id - 1 \in Int
    BY SizeAssumption DEF s_id
  <2>3. /\ IsFiniteSet(StudentVertices)
        /\ Cardinality(StudentVertices) =
             IF NumPupils > s_id - 1 THEN 0 ELSE s_id - 1 - NumPupils + 1
    BY <2>1, <2>2, FS_Interval
  <2>4. QED
    BY <2>3, SizeAssumption DEF s_id
<1>3. QED
  BY <1>1, <1>2, SmallerSide DEF MemberVertices, OtherVertices, PupilsAreFewer

\* No assignment y of as many members, in the set T, costs less than the one in the
\* flow: x, of the members in D.
LEMMA FlowIsCheapest ==
  ASSUME NEW W \in Nat, FlowValueInvariant(W), PricesOK, NetworkOK, pc # "augment",
         NEW D, D = {m \in MemberVertices : PlaceArc(m) \in FlowArcs},
         NEW x, \A m \in D : PairArc(m, x[m]) \in FlowArcs,
         NEW T \in SUBSET MemberVertices, Cardinality(D) = Cardinality(T),
         NEW y, \A m \in T : PairArc(m, y[m]) \in Arcs(edges),
         \A l, m \in T : y[l] = y[m] /\ y[l] # Nobody => l = m,
         NEW f, \A m \in D : f[m] = weight[PairArc(m, x[m])],
         NEW g, \A m \in T : g[m] = weight[PairArc(m, y[m])]
  PROVE  SumOver(f, D) <= SumOver(g, T)
<1>1. PotentialInvariant(W) /\ edges \in SUBSET (PupilIds \X StudentIds)
  BY DEF FlowValueInvariant, PotentialInvariant, FlowInvariant, TypeOK
<1>2. PICK price \in [Vertices -> Int] : PricesFit(price)
  BY DEF PricesOK
<1>3. PICK k \in Int : k = price[t_id] - price[s_id]
  <2>1. price[t_id] \in Int /\ price[s_id] \in Int
    BY <1>2, VertexKinds
  <2>2. QED
    BY <2>1
<1>4. /\ IsFiniteSet(D) /\ IsFiniteSet(T)
      /\ IsFiniteSet(OtherVertices)
      /\ D \subseteq MemberVertices
  BY SidesAreFinite, FS_Subset
<1>5. PICK a, b, c, bT, cT, e :
        /\ a = [m \in MemberVertices |-> Excess(price, PlaceArc(m))]
        /\ b = [m \in D |-> Excess(price, PairArc(m, x[m]))]
        /\ bT = [m \in T |-> Excess(price, PairArc(m, y[m]))]
        /\ e = [z \in OtherVertices |-> Excess(price, OtherArc(z))]
        /\ c = [m \in D |-> IF x[m] = Nobody THEN 0 ELSE Excess(price, OtherArc(x[m]))]
        /\ cT = [m \in T |-> IF y[m] = Nobody THEN 0 ELSE Excess(price, OtherArc(y[m]))]
  OBVIOUS
<1>6. ASSUME NEW m \in D
      PROVE  /\ a[m] \in Int /\ b[m] \in Int /\ c[m] \in Int
             /\ f[m] = a[m] + b[m] + c[m] + k
             /\ a[m] <= 0 /\ b[m] <= 0
             /\ x[m] # Nobody => x[m] \in OtherVertices /\ c[m] = e[x[m]] /\ e[x[m]] \in Int
             /\ x[m] = Nobody => c[m] = 0
  <2>1. /\ m \in MemberVertices /\ PlaceArc(m) \in FlowArcs
        /\ PairArc(m, x[m]) \in FlowArcs /\ PairArc(m, x[m]) \in Arcs(edges)
        /\ PlaceArc(m) \in Arcs(edges)
    BY DEF FlowArcs
  <2>2. Excess(price, PlaceArc(m)) <= 0 /\ Excess(price, PairArc(m, x[m])) <= 0
    BY <1>1, <1>2, <2>1, ArcExcess
  <2>3. PICK z : z = x[m]
    OBVIOUS
  <2>4. PICK p, q, r : /\ p = Excess(price, PlaceArc(m)) /\ q = Excess(price, PairArc(m, z))
                       /\ r = Excess(price, OtherArc(z))
    OBVIOUS
  <2>5. /\ p \in Int /\ q \in Int /\ f[m] = weight[PairArc(m, z)]
        /\ z = Nobody => f[m] = p + q + 0 + k
        /\ z # Nobody => z \in OtherVertices /\ r \in Int /\ f[m] = p + q + r + k
    BY <1>1, <1>2, <1>3, <2>1, <2>3, <2>4, PathExcess
  <2>6. /\ a[m] = p /\ b[m] = q /\ c[m] = IF z = Nobody THEN 0 ELSE r
        /\ z \in OtherVertices => e[z] = r
    BY <1>5, <2>1, <2>3, <2>4
  <2>7. QED
    BY <2>2, <2>3, <2>4, <2>5, <2>6
<1>7. ASSUME NEW m \in T
      PROVE  /\ a[m] \in Int /\ bT[m] \in Int /\ cT[m] \in Int
             /\ g[m] = a[m] + bT[m] + cT[m] + k
             /\ m \in D \/ a[m] >= 0
             /\ (m \in D /\ bT[m] = b[m]) \/ bT[m] >= 0
             /\ y[m] # Nobody => y[m] \in OtherVertices /\ cT[m] = e[y[m]] /\ e[y[m]] \in Int
             /\ y[m] = Nobody => cT[m] = 0
  <2>1. /\ m \in MemberVertices /\ PairArc(m, y[m]) \in Arcs(edges)
        /\ PlaceArc(m) \in Arcs(edges)
    BY <1>1, Sides
  <2>2. m \in D \/ Excess(price, PlaceArc(m)) >= 0
    BY <1>1, <1>2, <2>1, ArcExcess
  <2>3. PICK z : z = y[m]
    OBVIOUS
  <2>4. PICK p, q, r : /\ p = Excess(price, PlaceArc(m)) /\ q = Excess(price, PairArc(m, z))
                       /\ r = Excess(price, OtherArc(z))
    OBVIOUS
  <2>5. /\ p \in Int /\ q \in Int /\ g[m] = weight[PairArc(m, z)]
        /\ z = Nobody => g[m] = p + q + 0 + k
        /\ z # Nobody => z \in OtherVertices /\ r \in Int /\ g[m] = p + q + r + k
    BY <1>1, <1>2, <1>3, <2>1, <2>3, <2>4, PathExcess
  <2>6. /\ a[m] = p /\ bT[m] = q /\ cT[m] = IF z = Nobody THEN 0 ELSE r
        /\ z \in OtherVertices => e[z] = r
    BY <1>5, <2>1, <2>3, <2>4
  <2>7. (m \in D /\ z = x[m]) \/ q >= 0
    <3>1. CASE PairArc(m, z) \in FlowArcs
      <4>1. m \in D
        BY <2>1, <3>1, SettledFlow
      <4>2. z = x[m]
        BY <2>1, <3>1, <4>1, SettledFlow
      <4>3. QED
        BY <4>1, <4>2
    <3>2. CASE PairArc(m, z) \notin FlowArcs
      BY <1>1, <1>2, <2>1, <2>3, <2>4, <3>2, ArcExcess
    <3>3. QED
      BY <3>1, <3>2
  <2>8. m \in D /\ z = x[m] => bT[m] = b[m]
    BY <1>5, <2>3
  <2>9. QED
    BY <2>2, <2>3, <2>4, <2>5, <2>6, <2>7, <2>8
<1>8. Exchange(D, T, k, a, b, c, f, bT, cT, g)
  BY <1>6, <1>7 DEF Exchange
<1>9. PICK U, V : /\ U = {z \in OtherVertices : OtherArc(z) \in FlowArcs}
                  /\ V = {z \in OtherVertices : \E m \in T : y[m] = z}
  OBVIOUS
<1>10. SumOver(c, D) = SumOver(e, U) /\ IsFiniteSet(U)
  <2>1. \A m \in D : (x[m] = Nobody /\ c[m] = 0) \/ (x[m] # Nobody /\ x[m] \in U)
    BY <1>4, <1>6, <1>9, SettledFlow
  <2>2. \A z \in U : z # Nobody /\ \E m \in D : x[m] = z
    <3>1. ASSUME NEW z \in U PROVE z # Nobody /\ \E m \in D : x[m] = z
      <4>1. PICK m \in MemberVertices : PairArc(m, z) \in FlowArcs
        BY <1>9, SettledFlow
      <4>2. m \in D
        BY <4>1, SettledFlow
      <4>3. x[m] = z
        BY <4>1, <4>2, SettledFlow
      <4>4. z # Nobody
        BY <1>1, <1>9, <4>1, Sides
      <4>5. QED
        BY <4>2, <4>3, <4>4
    <3>2. QED
      BY <3>1
  <2>3. \A m, n \in D : x[m] = x[n] /\ x[m] # Nobody => m = n
    BY <1>4, <1>6, SettledFlow
  <2>4. \A m \in D : x[m] # Nobody => e[x[m]] \in Int /\ c[m] = e[x[m]]
    BY <1>6
  <2>5. Assigns(x, Nobody, D, U, c, e)
    BY <2>1, <2>2, <2>3, <2>4 DEF Assigns
  <2>6. QED
    BY <1>4, <2>5, SumThrough
<1>11. SumOver(cT, T) = SumOver(e, V) /\ IsFiniteSet(V)
  <2>1. \A m \in T : (y[m] = Nobody /\ cT[m] = 0) \/ (y[m] # Nobody /\ y[m] \in V)
    BY <1>7, <1>9
  <2>2. \A z \in V : z # Nobody /\ \E m \in T : y[m] = z
    BY <1>1, <1>9, Sides
  <2>3. \A m, n \in T : y[m] = y[n] /\ y[m] # Nobody => m = n
    OBVIOUS
  <2>4. \A m \in T : y[m] # Nobody => e[y[m]] \in Int /\ cT[m] = e[y[m]]
    BY <1>7
  <2>5. Assigns(y, Nobody, T, V, cT, e)
    BY <2>1, <2>2, <2>3, <2>4 DEF Assigns
  <2>6. QED
    BY <1>4, <2>5, SumThrough
<1>12. SumOver(e, U) <= SumOver(e, V)
  <2>1. ASSUME NEW z \in OtherVertices, MemberVertices # {}
        PROVE  /\ e[z] \in Int
               /\ z \in U => e[z] <= 0
               /\ z \notin U => e[z] >= 0
    <3>1. OtherArc(z) \in Arcs(edges) /\ e[z] = Excess(price, OtherArc(z))
      BY <1>1, <1>5, <2>1, Sides
    <3>2. QED
      BY <1>1, <1>2, <1>9, <3>1, ArcExcess
  <2>2. CASE MemberVertices # {}
    <3>1. (\A z \in U : e[z] \in Int /\ e[z] <= 0) /\ \A z \in V \ U : e[z] \in Int /\ e[z] >= 0
      BY <1>9, <2>1, <2>2
    <3>2. QED
      BY <1>10, <1>11, <3>1, SumOfSigns
  <2>3. CASE MemberVertices = {}
    <3>1. U = {} /\ V = {}
      BY <1>9, <2>3, SettledFlow
    <3>2. QED
      BY <3>1, SumEmpty
  <2>4. QED
    BY <2>2, <2>3
<1>13. SumOver(c, D) <= SumOver(cT, T)
  BY <1>10, <1>11, <1>12
<1>14. QED
  BY <1>3, <1>4, <1>8, <1>13, SumOfExchange

-----------------------------------------------------------------------------
(* Matchings as assignments. *)

\* The ends of an edge on either side, and what a matching assigns to a member.
MemberOf(e) == IF PupilsAreFewer THEN e[1] ELSE StudentVertex(e[2])
PartnerOf(e) == IF PupilsAreFewer THEN StudentVertex(e[2]) ELSE e[1]
EdgesOf(M, m) == {e \in M : MemberOf(e) = m}
Mate(M, m) ==
  IF EdgesOf(M, m) = {} THEN Nobody ELSE PartnerOf(CHOOSE e \in EdgesOf(M, m) : TRUE)

\* An edge is known by its ends, and by its arc.
LEMMA EdgeEnds ==
  ASSUME NEW e \in PupilIds \X StudentIds
  PROVE  /\ MemberOf(e) \in MemberVertices /\ PartnerOf(e) \in OtherVertices
         /\ PartnerOf(e) # Nobody
         /\ EdgeArc(e) = PairArc(MemberOf(e), PartnerOf(e))
         /\ \A m, z : EdgeArc(e) = PairArc(m, z) => m = MemberOf(e) /\ z = PartnerOf(e)
         /\ \A f \in PupilIds \X StudentIds :
              /\ EdgeArc(f) = EdgeArc(e) => f = e
              /\ e[1] # f[1] /\ e[2] # f[2] =>
                   MemberOf(e) # MemberOf(f) /\ PartnerOf(e) # PartnerOf(f)
<1>1. /\ e[1] \in PupilIds /\ e[2] \in StudentIds /\ e = <<e[1], e[2]>>
      /\ StudentVertex(e[2]) \in StudentVertices
  BY DEF StudentVertices
<1>2. \A i, j \in StudentIds : StudentVertex(i) = StudentVertex(j) => i = j
  BY SizeAssumption DEF StudentVertex, StudentIds
<1>3. CASE PupilsAreFewer
  BY <1>1, <1>2, <1>3, VertexKinds
  DEF MemberOf, PartnerOf, MemberVertices, OtherVertices, Nobody, EdgeArc, PairArc
<1>4. CASE ~PupilsAreFewer
  BY <1>1, <1>2, <1>4, VertexKinds
  DEF MemberOf, PartnerOf, MemberVertices, OtherVertices, Nobody, EdgeArc, PairArc
<1>5. QED
  BY <1>3, <1>4

\* A matching gives each member one mate at most, and no mate to two members.
LEMMA Mates ==
  ASSUME NEW E \in SUBSET (PupilIds \X StudentIds), NEW M \in SUBSET E, IsMatching(M),
         NEW m \in MemberVertices
  PROVE  /\ \A e \in M : MemberOf(e) = m => Mate(M, m) = PartnerOf(e)
         /\ (\A e \in M : MemberOf(e) # m) => Mate(M, m) = Nobody
         /\ Mate(M, m) # Nobody => \E e \in M : MemberOf(e) = m
         /\ PairArc(m, Mate(M, m)) \in Arcs(E)
         /\ \A l \in MemberVertices :
              Mate(M, l) = Mate(M, m) /\ Mate(M, l) # Nobody => l = m
<1>1. \A e, f \in M : MemberOf(e) = MemberOf(f) \/ PartnerOf(e) = PartnerOf(f) => e = f
  <2>1. ASSUME NEW e \in M, NEW f \in M, e # f
        PROVE  MemberOf(e) # MemberOf(f) /\ PartnerOf(e) # PartnerOf(f)
    <3>1. e[1] # f[1] /\ e[2] # f[2]
      BY <2>1 DEF IsMatching
    <3>2. e \in PupilIds \X StudentIds /\ f \in PupilIds \X StudentIds
      OBVIOUS
    <3>3. QED
      BY <3>1, <3>2, EdgeEnds
  <2>2. QED
    BY <2>1
<1>2. ASSUME NEW l \in MemberVertices, NEW e \in M, MemberOf(e) = l
      PROVE  Mate(M, l) = PartnerOf(e) /\ Mate(M, l) # Nobody
  <2>1. EdgesOf(M, l) = {e}
    BY <1>1, <1>2 DEF EdgesOf
  <2>2. Mate(M, l) = PartnerOf(e)
    BY <2>1 DEF Mate
  <2>3. QED
    BY <2>2, EdgeEnds
<1>3. ASSUME NEW l \in MemberVertices, \A e \in M : MemberOf(e) # l
      PROVE  Mate(M, l) = Nobody
  <2>1. EdgesOf(M, l) = {}
    BY <1>3 DEF EdgesOf
  <2>2. QED
    BY <2>1 DEF Mate
<1>4. PairArc(m, Mate(M, m)) \in Arcs(E)
  <2>1. CASE \E e \in M : MemberOf(e) = m
    <3>1. PICK e \in M : MemberOf(e) = m
      BY <2>1
    <3>2. PairArc(m, Mate(M, m)) = EdgeArc(e) /\ e \in E
      BY <1>2, <3>1, EdgeEnds
    <3>3. QED
      BY <3>2 DEF Arcs, EdgeArcs
  <2>2. CASE \A e \in M : MemberOf(e) # m
    BY <1>3, <2>2, Sides
  <2>3. QED
    BY <2>1, <2>2
<1>5. ASSUME NEW l \in MemberVertices, Mate(M, l) = Mate(M, m), Mate(M, l) # Nobody
      PROVE  l = m
  <2>1. PICK e \in M : MemberOf(e) = l
    BY <1>3, <1>5
  <2>2. PICK f \in M : MemberOf(f) = m
    BY <1>3, <1>5
  <2>3. e = f
    BY <1>1, <1>2, <1>5, <2>1, <2>2
  <2>4. QED
    BY <2>1, <2>2, <2>3
<1>6. QED
  BY <1>2, <1>3, <1>4, <1>5

\* A matching costs the network, before rounding, the less the more it is worth.
LEMMA MatchingCost ==
  ASSUME NEW E \in SUBSET (PupilIds \X StudentIds), NEW c \in [E -> Int],
         NEW M \in SUBSET E, IsMatching(M), additional_cost(E, c) \in Int,
         NEW K, \A m \in MemberVertices : K[m] = ArcCost(E, c, PairArc(m, Mate(M, m)))
  PROVE  /\ \A m \in MemberVertices : K[m] \in Int
         /\ SumOver(c, M) \in Int
         /\ SumOver(K, MemberVertices)
              = additional_cost(E, c) * successive_flow_value - SumOver(c, M)
<1>1. PICK A \in Int : A = additional_cost(E, c)
  OBVIOUS
<1>2. PICK d : d = <<-1, -1>>
  OBVIOUS
<1>3. d \notin M
  BY <1>2 DEF StudentIds
<1>4. PICK x, u, one :
        /\ x = [m \in MemberVertices |->
                  IF EdgesOf(M, m) = {} THEN d ELSE CHOOSE e \in EdgesOf(M, m) : TRUE]
        /\ u = [m \in MemberVertices |-> IF x[m] = d THEN 0 ELSE c[x[m]]]
        /\ one = [m \in MemberVertices |-> 1]
  OBVIOUS
<1>5. ASSUME NEW m \in MemberVertices
      PROVE  /\ x[m] # d => x[m] \in M /\ MemberOf(x[m]) = m
             /\ (\E e \in M : MemberOf(e) = m) => x[m] # d
             /\ x[m] = d => Mate(M, m) = Nobody
             /\ x[m] # d => Mate(M, m) = PartnerOf(x[m])
  <2>1. EdgesOf(M, m) # {} => x[m] \in EdgesOf(M, m)
    BY <1>4
  <2>2. EdgesOf(M, m) = {} => x[m] = d
    BY <1>4
  <2>3. x[m] # d => x[m] \in M /\ MemberOf(x[m]) = m
    BY <2>1, <2>2 DEF EdgesOf
  <2>4. (\E e \in M : MemberOf(e) = m) => x[m] # d
    BY <1>3, <2>1 DEF EdgesOf
  <2>5. QED
    BY <2>3, <2>4, Mates
<1>6. ASSUME NEW m \in MemberVertices
      PROVE  /\ u[m] \in Int /\ one[m] = 1 /\ K[m] \in Int
             /\ K[m] = A * one[m] + (-1) * u[m]
  <2>1. CASE x[m] = d
    <3>1. PairArc(m, Mate(M, m)) \in DummyArcs /\ PairArc(m, Mate(M, m)) \notin EdgeArcs(E)
      BY <1>5, <2>1, Sides
    <3>2. K[m] = A /\ u[m] = 0 /\ one[m] = 1
      BY <1>1, <1>4, <2>1, <3>1 DEF ArcCost
    <3>3. QED
      BY <3>2
  <2>2. CASE x[m] # d
    <3>1. PICK e \in M : e = x[m]
      BY <1>5, <2>2
    <3>2. PairArc(m, Mate(M, m)) = EdgeArc(e) /\ e \in E
      BY <1>5, <2>2, <3>1, EdgeEnds
    <3>3. (CHOOSE f \in E : EdgeArc(f) = EdgeArc(e)) = e
      BY <3>2, EdgeEnds
    <3>4. EdgeArc(e) \in EdgeArcs(E)
      BY <3>2 DEF EdgeArcs
    <3>5. K[m] = A - c[e]
      BY <1>1, <3>2, <3>3, <3>4 DEF ArcCost
    <3>6. u[m] = c[e] /\ one[m] = 1 /\ c[e] \in Int
      BY <1>4, <2>2, <3>1, <3>2
    <3>7. QED
      BY <3>5, <3>6
  <2>3. QED
    BY <2>1, <2>2
<1>7. SumOver(u, MemberVertices) = SumOver(c, M) /\ IsFiniteSet(M)
  <2>1. \A m \in MemberVertices : (x[m] = d /\ u[m] = 0) \/ (x[m] # d /\ x[m] \in M)
    BY <1>4, <1>5
  <2>2. \A e \in M : e # d /\ \E m \in MemberVertices : x[m] = e
    <3>1. ASSUME NEW e \in M PROVE e # d /\ \E m \in MemberVertices : x[m] = e
      <4>1. MemberOf(e) \in MemberVertices
        BY EdgeEnds
      <4>2. x[MemberOf(e)] \in M /\ MemberOf(x[MemberOf(e)]) = MemberOf(e)
        BY <1>5, <4>1
      <4>3. PartnerOf(x[MemberOf(e)]) = PartnerOf(e)
        BY <4>1, <4>2, Mates
      <4>4. x[MemberOf(e)] = e
        BY <4>2, <4>3, EdgeEnds
      <4>5. QED
        BY <1>3, <4>1, <4>4
    <3>2. QED
      BY <3>1
  <2>3. \A l, m \in MemberVertices : x[l] = x[m] /\ x[l] # d => l = m
    BY <1>5
  <2>4. \A m \in MemberVertices : x[m] # d => c[x[m]] \in Int /\ u[m] = c[x[m]]
    BY <1>4, <1>5
  <2>5. Assigns(x, d, MemberVertices, M, u, c)
    BY <2>1, <2>2, <2>3, <2>4 DEF Assigns
  <2>6. QED
    BY <2>5, SidesAreFinite, SumThrough
<1>8. SumOver(K, MemberVertices)
        = A * SumOver(one, MemberVertices) + (-1) * SumOver(u, MemberVertices)
  <2>1. \A m \in MemberVertices :
          one[m] \in Int /\ u[m] \in Int /\ K[m] = A * one[m] + (-1) * u[m]
    BY <1>6
  <2>2. Combines(K, A, one, -1, u, MemberVertices)
    BY <2>1 DEF Combines
  <2>3. IsFiniteSet(MemberVertices) /\ -1 \in Int
    BY SidesAreFinite
  <2>4. QED
    BY <2>2, <2>3, SumLinear
<1>9. SumOver(one, MemberVertices) = successive_flow_value
  <2>1. SumOver(one, MemberVertices) = 1 * Cardinality(MemberVertices)
    BY <1>6, SidesAreFinite, SumConstant
  <2>2. Cardinality(MemberVertices) \in Nat
    BY SidesAreFinite, FS_CardinalityType
  <2>3. QED
    BY <2>1, <2>2, SidesAreFinite
<1>10. SumOver(u, MemberVertices) \in Int
  BY <1>6, SidesAreFinite, SumRemove
<1>11. PICK n : n = A * successive_flow_value /\ n \in Int
  <2>1. successive_flow_value \in Nat
    BY SidesAreFinite, FS_CardinalityType
  <2>2. \A i \in Nat : A * i \in Int
    OBVIOUS
  <2>3. QED
    BY <2>1, <2>2
<1>12. SumOver(K, MemberVertices) = n - SumOver(c, M) /\ SumOver(c, M) \in Int
  BY <1>7, <1>8, <1>9, <1>10, <1>11
<1>13. QED
  BY <1>1, <1>6, <1>11, <1>12

\* The rounding drops less than 1 for each of the numbers that are added up.
LEMMA RoundedSum ==
  ASSUME NEW S, IsFiniteSet(S), NEW f, NEW K,
         \A m \in S : /\ f[m] \in Int /\ K[m] \in Int
                      /\ Scale * f[m] <= K[m] /\ K[m] <= Scale * f[m] + (Scale - 1)
  PROVE  /\ Scale * SumOver(f, S) <= SumOver(K, S)
         /\ SumOver(K, S) <= Scale * SumOver(f, S) + Cardinality(S) * (Scale - 1)
<1>1. PICK one, lo, hi : /\ one = [m \in S |-> 1]
                         /\ lo = [m \in S |-> Scale * f[m]]
                         /\ hi = [m \in S |-> Scale * f[m] + (Scale - 1)]
  OBVIOUS
<1>2. Scale \in Int /\ Scale - 1 \in Int
  BY ScaleAssumption
<1>3. \A i \in Int : Scale * i \in Int /\ Scale * i + (Scale - 1) \in Int
  BY <1>2
<1>4. \A i \in Int : /\ Scale * i = Scale * i + 0 * 1
                     /\ Scale * i + (Scale - 1) = Scale * i + (Scale - 1) * 1
  BY <1>2
<1>5. \A m \in S : /\ one[m] \in Int /\ one[m] = 1
                   /\ lo[m] \in Int /\ lo[m] = Scale * f[m] + 0 * one[m] /\ lo[m] <= K[m]
                   /\ hi[m] \in Int /\ hi[m] = Scale * f[m] + (Scale - 1) * one[m]
                   /\ K[m] <= hi[m]
  BY <1>1, <1>3, <1>4
<1>6. SumOver(lo, S) <= SumOver(K, S) /\ SumOver(K, S) <= SumOver(hi, S)
  BY <1>5, SumMonotonic
<1>7. SumOver(lo, S) = Scale * SumOver(f, S) + 0 * SumOver(one, S)
  <2>1. Combines(lo, Scale, f, 0, one, S)
    BY <1>1, <1>5 DEF Combines
  <2>2. QED
    BY <1>2, <2>1, SumLinear
<1>8. SumOver(hi, S) = Scale * SumOver(f, S) + (Scale - 1) * SumOver(one, S)
  <2>1. Combines(hi, Scale, f, Scale - 1, one, S)
    BY <1>1, <1>5 DEF Combines
  <2>2. Scale - 1 \in Int
    BY <1>2
  <2>3. QED
    BY <1>2, <2>1, <2>2, SumLinear
<1>9. SumOver(one, S) = Cardinality(S) /\ Cardinality(S) \in Nat
  <2>1. SumOver(one, S) = 1 * Cardinality(S) /\ Cardinality(S) \in Nat
    BY <1>5, SumConstant, FS_CardinalityType
  <2>2. QED
    BY <2>1
<1>10. SumOver(f, S) \in Int
  BY SumRemove
<1>11. \A i \in Int, n \in Nat : /\ Scale * i + 0 * n = Scale * i
                                 /\ (Scale - 1) * n = n * (Scale - 1)
  BY <1>2
<1>12. QED
  BY <1>6, <1>7, <1>8, <1>9, <1>10, <1>11

\* Only the arcs of members to what they are assigned to cost anything.
LEMMA PaidArcs ==
  ASSUME NEW E \in SUBSET (PupilIds \X StudentIds), NEW a \in EdgeArcs(E) \cup DummyArcs
  PROVE  \E m \in MemberVertices : \E z : a = PairArc(m, z)
<1>1. CASE a \in EdgeArcs(E)
  <2>1. PICK e \in E : a = EdgeArc(e)
    BY <1>1 DEF EdgeArcs
  <2>2. QED
    BY <2>1, EdgeEnds
<1>2. CASE a \in DummyArcs
  BY <1>2 DEF DummyArcs, MemberVertices, PairArc, PupilsAreFewer, StudentVertices
<1>3. QED
  BY <1>1, <1>2

\* So the cost of the flow is what the members with flow pay.
LEMMA FlowCostByMember ==
  ASSUME NEW W \in Nat, FlowValueInvariant(W), NetworkOK, pc # "augment",
         NEW D, D = {m \in MemberVertices : PlaceArc(m) \in FlowArcs},
         NEW x, \A m \in D : PairArc(m, x[m]) \in FlowArcs,
         NEW f, \A m \in D : f[m] = weight[PairArc(m, x[m])]
  PROVE  /\ \A m \in D : f[m] \in Int
         /\ SumOver(f, D) \in Int /\ SumOver(weight, FlowArcs) = SumOver(f, D)
<1>1. /\ edges \in SUBSET (PupilIds \X StudentIds)
      /\ \A a \in Arcs(edges) : weight[a] \in Int
  BY DEF FlowValueInvariant, PotentialInvariant, FlowInvariant, TypeOK, WeightsOK
<1>2. IsFiniteSet(D) /\ D \subseteq MemberVertices
  BY SidesAreFinite, FS_Subset
<1>3. FlowArcs \subseteq Arcs(edges)
  BY DEF FlowArcs
<1>4. IsFiniteSet(FlowArcs)
  <2>1. IsFiniteSet(Vertices)
    BY FS_Interval, SizeAssumption DEF Vertices, t_id, s_id
  <2>2. FlowArcs \subseteq Vertices \X Vertices
    <3>1. ASSUME NEW a \in FlowArcs PROVE a \in Vertices \X Vertices
      <4>1. PICK u, v : a = <<u, v>>
        BY <1>1, <1>3, ArcsArePairs
      <4>2. u \in Vertices /\ v \in Vertices
        BY <1>1, <1>3, <4>1, ArcsAreAntisymmetric
      <4>3. QED
        BY <4>1, <4>2
    <3>2. QED
      BY <3>1
  <2>3. QED
    BY <2>1, <2>2, FS_Product, FS_Subset
<1>5. PICK b, Q, R : /\ b = [m \in D |-> PairArc(m, x[m])]
                     /\ Q = {a \in FlowArcs : \E m \in D : b[m] = a}
                     /\ R = FlowArcs \ Q
  OBVIOUS
<1>6. \A m \in D : b[m] = PairArc(m, x[m]) /\ b[m] \in FlowArcs /\ b[m] \in Q
  BY <1>5
<1>7. /\ IsFiniteSet(Q) /\ IsFiniteSet(R) /\ Q \cup R = FlowArcs /\ Q \cap R = {}
      /\ \A a \in FlowArcs : weight[a] \in Int
  BY <1>1, <1>3, <1>4, <1>5, FS_Subset
<1>8. SumOver(weight, FlowArcs) = SumOver(weight, Q) + SumOver(weight, R)
  BY <1>7, SumUnion
<1>9. \A l, m : \A y, z : PairArc(l, y) = PairArc(m, z) => l = m /\ y = z
  BY DEF PairArc
<1>10. SumOver(weight, Q) = SumOver(f, D)
  <2>1. \A z \in Q : \E m \in D : b[m] = z
    BY <1>5
  <2>2. \A l, m \in D : b[l] = b[m] => l = m
    BY <1>6, <1>9
  <2>3. \A m \in D : weight[b[m]] \in Int /\ f[m] = weight[b[m]]
    BY <1>6, <1>7
  <2>4. Reindexes(b, D, Q, f, weight)
    BY <1>6, <2>1, <2>2, <2>3 DEF Reindexes
  <2>5. QED
    BY <1>2, <2>4, SumReindexed
<1>11. SumOver(weight, R) = 0
  <2>1. ASSUME NEW a \in R PROVE weight[a] = 0
    <3>1. a \in FlowArcs /\ a \in Arcs(edges) /\ a \notin Q
      BY <1>3, <1>5
    <3>2. CASE a \in EdgeArcs(edges) \cup DummyArcs
      <4>1. PICK m \in MemberVertices : \E z : a = PairArc(m, z)
        BY <1>1, <3>2, PaidArcs
      <4>2. PICK z : a = PairArc(m, z)
        BY <4>1
      <4>3. m \in D
        BY <3>1, <4>2, SettledFlow
      <4>4. z = x[m]
        BY <3>1, <4>2, <4>3, SettledFlow
      <4>5. QED
        BY <1>6, <3>1, <4>2, <4>3, <4>4
    <3>3. CASE a \notin EdgeArcs(edges) \cup DummyArcs
      BY <3>1, <3>3, FreeArcs
    <3>4. QED
      BY <3>2, <3>3
  <2>2. SumOver(weight, R) = 0 * Cardinality(R) /\ Cardinality(R) \in Nat
    BY <1>7, <2>1, SumConstant, FS_CardinalityType
  <2>3. QED
    BY <2>2
<1>12. \A m \in D : f[m] \in Int
  BY <1>6, <1>7
<1>13. SumOver(f, D) \in Int
  BY <1>2, <1>12, SumRemove
<1>14. QED
  BY <1>8, <1>10, <1>11, <1>12, <1>13

-----------------------------------------------------------------------------
(* The matching that is delivered. *)

\* A search that does not reach t has found everyone placed, and the flow stays.
LEMMA StepPlacesEveryone ==
  ASSUME NEW W \in Nat, PotentialInvariant(W), EveryonePlaced, [Next]_vars
  PROVE  EveryonePlaced'
<1>1. CASE StopSearching
  <2>1. FlowArcs' = FlowArcs
    BY <1>1, SameFlow DEF StopSearching, input
  <2>2. \A m \in MemberVertices : PlaceArc(m) \in FlowArcs
    BY <1>1, PupilsAreServed, StudentsAreServed DEF MemberVertices, PlaceArc, PupilsAreFewer
  <2>3. QED
    BY <2>1, <2>2 DEF EveryonePlaced, MemberVertices, PlaceArc, PupilsAreFewer
<1>2. CASE Extract \/ UNCHANGED vars
  <2>1. FlowArcs' = FlowArcs /\ (pc' \in {"extract", "done"} => pc \in {"extract", "done"})
    BY <1>2, SameFlow DEF Extract, vars, input
  <2>2. QED
    BY <2>1 DEF EveryonePlaced, MemberVertices, PlaceArc, PupilsAreFewer
<1>3. CASE StartSearch \/ UpdatePotentials \/ PushFlow \/ \E u \in Vertices : ExamineVertex(u)
  <2>1. pc' \notin {"extract", "done"}
    BY <1>3 DEF StartSearch, SearchWith, UpdatePotentials, AugmentWith, PushFlow,
                PushWith, ExamineVertex
  <2>2. QED
    BY <2>1 DEF EveryonePlaced
<1>4. QED
  BY <1>1, <1>2, <1>3 DEF Next

\* The flow assigns the members as the matched edges do.
LEMMA FlowIsAssignment ==
  ASSUME NEW W \in Nat, FlowValueInvariant(W), pc # "augment",
         NEW m \in MemberVertices, PlaceArc(m) \in FlowArcs
  PROVE  PairArc(m, Mate(MatchedEdges, m)) \in FlowArcs
<1>1. /\ edges \in SUBSET (PupilIds \X StudentIds)
      /\ MatchedEdges \in SUBSET edges
  BY DEF FlowValueInvariant, PotentialInvariant, FlowInvariant, TypeOK, MatchedEdges
<1>2. IsMatching(MatchedEdges)
  BY InvariantGivesMatching DEF FlowValueInvariant, PotentialInvariant, FlowIsMatching
<1>3. \A e \in edges : e \in MatchedEdges <=> EdgeArc(e) \in FlowArcs
  BY DEF MatchedEdges, FlowArcs, Arcs, EdgeArcs
<1>4. PICK z \in OtherVertices \cup {Nobody} : PairArc(m, z) \in FlowArcs
  BY SettledFlow
<1>5. CASE \E e \in MatchedEdges : MemberOf(e) = m
  <2>1. PICK e \in MatchedEdges : MemberOf(e) = m
    BY <1>5
  <2>2. Mate(MatchedEdges, m) = PartnerOf(e) /\ EdgeArc(e) = PairArc(m, PartnerOf(e))
    BY <1>1, <1>2, <2>1, Mates, EdgeEnds
  <2>3. QED
    BY <1>1, <1>3, <2>1, <2>2
<1>6. CASE \A e \in MatchedEdges : MemberOf(e) # m
  <2>1. Mate(MatchedEdges, m) = Nobody
    BY <1>1, <1>2, <1>6, Mates
  <2>2. z = Nobody
    <3>1. SUFFICES ASSUME z # Nobody PROVE FALSE
      OBVIOUS
    <3>2. PairArc(m, z) \in EdgeArcs(edges)
      BY <1>1, <1>4, <3>1, Sides DEF FlowArcs
    <3>3. PICK e \in edges : PairArc(m, z) = EdgeArc(e)
      BY <3>2 DEF EdgeArcs
    <3>4. MemberOf(e) = m /\ e \in MatchedEdges
      BY <1>1, <1>3, <1>4, <3>3, EdgeEnds
    <3>5. QED
      BY <1>6, <3>4
  <2>3. QED
    BY <1>4, <2>1, <2>2
<1>7. QED
  BY <1>5, <1>6

\* Rounding towards zero drops less than 1.
LEMMA RoundingDropsFraction ==
  ASSUME NEW K \in Nat
  PROVE  /\ ToInt(K) \in Int
         /\ Scale * ToInt(K) <= K /\ K <= Scale * ToInt(K) + (Scale - 1)
<1>1. ToInt(K) = K \div Scale
  BY DEF ToInt
<1>2. \A s \in Nat \ {0} : K \div s \in Int /\ s * (K \div s) <= K /\ K <= s * (K \div s) + (s - 1)
  OBVIOUS
<1>3. QED
  BY <1>1, <1>2, ScaleAssumption

\* What a matching pays in the network, before and after the rounding.
LEMMA MatchingBounds ==
  ASSUME NEW C \in Nat, CostValues \subseteq -C .. C,
         edges \in SUBSET (PupilIds \X StudentIds), NetworkOK,
         NEW M \in SUBSET edges, IsMatching(M),
         NEW f, \A m \in MemberVertices : f[m] = weight[PairArc(m, Mate(M, m))],
         NEW n, n = successive_flow_value * additional_cost(edges, cost)
  PROVE  /\ n \in Int /\ SumOver(cost, M) \in Int
         /\ SumOver(f, MemberVertices) \in Int
         /\ SumOver(cost, M) <= n - Scale * SumOver(f, MemberVertices)
         /\ n - Scale * SumOver(f, MemberVertices)
              <= SumOver(cost, M) + successive_flow_value * (Scale - 1)
<1>1. cost \in [edges -> -C .. C] /\ cost \in [edges -> Int]
  <2>1. cost \in [edges -> CostValues]
    BY DEF NetworkOK
  <2>2. CostValues \subseteq Int
    BY CostAssumption
  <2>3. QED
    BY <2>1, <2>2
<1>2. additional_cost(edges, cost) \in Int
  BY <1>1, AdditionalCostType
<1>3. PICK K : K = [m \in MemberVertices |-> ArcCost(edges, cost, PairArc(m, Mate(M, m)))]
  OBVIOUS
<1>4. ASSUME NEW m \in MemberVertices
      PROVE  /\ f[m] \in Int /\ K[m] \in Int
             /\ Scale * f[m] <= K[m] /\ K[m] <= Scale * f[m] + (Scale - 1)
  <2>1. PICK a : a = PairArc(m, Mate(M, m))
    OBVIOUS
  <2>2. a \in Arcs(edges)
    BY <2>1, Mates
  <2>3. K[m] = ArcCost(edges, cost, a) /\ K[m] \in Nat
    <3>1. \A i \in 0 .. 3 * C : i \in Nat
      OBVIOUS
    <3>2. QED
      BY <1>1, <1>3, <2>1, <3>1, ArcCostBounds
  <2>4. f[m] = ToInt(K[m])
    BY <2>1, <2>2, <2>3 DEF NetworkOK, NetworkWeights
  <2>5. QED
    BY <2>3, <2>4, RoundingDropsFraction
<1>5. /\ SumOver(cost, M) \in Int
      /\ SumOver(K, MemberVertices)
           = additional_cost(edges, cost) * successive_flow_value - SumOver(cost, M)
  BY <1>1, <1>2, <1>3, MatchingCost
<1>6. PICK r, F \in Int : r = Scale * F /\ r \in Int /\ F = SumOver(f, MemberVertices)
  <2>1. SumOver(f, MemberVertices) \in Int
    BY <1>4, SidesAreFinite, SumRemove
  <2>2. \A F \in Int : Scale * F \in Int
    BY ScaleAssumption
  <2>3. QED
    BY <2>1, <2>2
<1>7. PICK q \in Int : q = successive_flow_value * (Scale - 1)
  <2>1. successive_flow_value \in Nat
    BY SidesAreFinite, FS_CardinalityType
  <2>2. \A i, j \in Int : i * j \in Int
    OBVIOUS
  <2>3. QED
    BY <2>1, <2>2, ScaleAssumption
<1>8. r <= SumOver(K, MemberVertices) /\ SumOver(K, MemberVertices) <= r + q
  BY <1>4, <1>6, <1>7, SidesAreFinite, RoundedSum
<1>9. n \in Int /\ n = additional_cost(edges, cost) * successive_flow_value
  <2>1. successive_flow_value \in Int
    BY SidesAreFinite, FS_CardinalityType
  <2>2. \A i, j \in Int : i * j \in Int /\ i * j = j * i
    OBVIOUS
  <2>3. QED
    BY <1>2, <2>1, <2>2
<1>10. QED
  BY <1>5, <1>6, <1>7, <1>8, <1>9

\* There is a best matching, and none is worth more.
LEMMA OptimumExists ==
  ASSUME edges \in SUBSET (PupilIds \X StudentIds), cost \in [edges -> Int]
  PROVE  /\ \E M \in Matchings : OptimalCost = SumOver(cost, M)
         /\ \A M \in Matchings : SumOver(cost, M) <= OptimalCost
<1>1. PICK S : S = {CostOf(M) : M \in Matchings}
  OBVIOUS
<1>2. \A M : CostOf(M) = SumOver(cost, M)
  BY DEF CostOf, SumOver
<1>3. IsFiniteSet(edges)
  <2>1. IsFiniteSet(PupilIds) /\ IsFiniteSet(StudentIds)
    BY FS_Interval, SizeAssumption DEF PupilIds, StudentIds
  <2>2. QED
    BY <2>1, FS_Product, FS_Subset
<1>4. \A M \in Matchings : CostOf(M) \in Int
  <2>1. ASSUME NEW M \in Matchings PROVE CostOf(M) \in Int
    <3>1. M \in SUBSET edges /\ IsFiniteSet(M)
      BY <1>3, FS_Subset DEF Matchings
    <3>2. \A e \in M : cost[e] \in Int
      BY <3>1
    <3>3. QED
      BY <1>2, <3>1, <3>2, SumRemove
  <2>2. QED
    BY <2>1
<1>5. IsFiniteSet(S)
  <2>1. IsFiniteSet(SUBSET edges)
    BY <1>3, FS_SUBSET
  <2>2. IsFiniteSet(Matchings)
    BY <2>1, FS_Subset DEF Matchings
  <2>3. PICK h : h = [M \in Matchings |-> CostOf(M)]
    OBVIOUS
  <2>4. h \in Surjection(Matchings, S)
    BY <1>1, <2>3 DEF Surjection
  <2>5. QED
    BY <2>2, <2>4, FS_Surjection
<1>6. {} \in Matchings
  BY DEF Matchings, IsMatching
<1>7. S \in SUBSET Int /\ S # {}
  BY <1>1, <1>4, <1>6
<1>8. OptimalCost = Max(S)
  BY <1>1 DEF OptimalCost
<1>9. Max(S) \in S /\ \A i \in S : i <= Max(S)
  BY <1>5, <1>7, MaxOfFiniteSet
<1>10. QED
  BY <1>1, <1>2, <1>8, <1>9

\* The potentials prove the flow to be the cheapest, and the rounding stands between
\* what the flow costs and what the matching is worth.
LEMMA InvariantGivesCost ==
  ASSUME NEW C \in Nat, CostValues \subseteq -C .. C, NEW W \in Nat,
         FlowValueInvariant(W), PricesOK, NetworkOK, EveryonePlaced
  PROVE  CostWithinRounding
<1>1. SUFFICES ASSUME pc = "done"
               PROVE  /\ CostOf(matching_edges) <= OptimalCost
                      /\ OptimalCost <= matching_cost
                      /\ matching_cost <= CostOf(matching_edges)
                                            + successive_flow_value * (Scale - 1)
  BY DEF CostWithinRounding
<1>2. edges \in SUBSET (PupilIds \X StudentIds) /\ cost \in [edges -> Int]
  BY DEF FlowValueInvariant, PotentialInvariant, FlowInvariant, TypeOK
<1>3. IsMatching(MatchedEdges)
  BY <1>1, InvariantGivesMatching DEF FlowValueInvariant, PotentialInvariant, FlowIsMatching
<1>4. PICK n, B : /\ n = successive_flow_value * additional_cost(edges, cost)
                  /\ B = MatchedEdges
  OBVIOUS
<1>5. B \in SUBSET edges /\ B \in Matchings /\ matching_edges = B /\ IsMatching(B)
  BY <1>1, <1>3, <1>4 DEF MatchedEdges, Matchings, NetworkOK
<1>6. PICK x, f : /\ x = [m \in MemberVertices |-> Mate(B, m)]
                  /\ f = [m \in MemberVertices |-> weight[PairArc(m, x[m])]]
  OBVIOUS
<1>7. \A m \in MemberVertices :
        /\ PlaceArc(m) \in FlowArcs /\ x[m] = Mate(B, m) /\ PairArc(m, x[m]) \in FlowArcs
        /\ f[m] = weight[PairArc(m, x[m])] /\ f[m] = weight[PairArc(m, Mate(B, m))]
  BY <1>1, <1>4, <1>6, FlowIsAssignment DEF EveryonePlaced
<1>8. MemberVertices = {m \in MemberVertices : PlaceArc(m) \in FlowArcs}
  BY <1>7
<1>9. SumOver(weight, FlowArcs) = SumOver(f, MemberVertices)
  BY <1>1, <1>7, <1>8, FlowCostByMember
<1>10. matching_cost = n - Scale * SumOver(f, MemberVertices)
  BY <1>1, <1>4, <1>9 DEF NetworkOK
<1>11. /\ n \in Int /\ SumOver(cost, B) \in Int /\ SumOver(f, MemberVertices) \in Int
       /\ n - Scale * SumOver(f, MemberVertices)
            <= SumOver(cost, B) + successive_flow_value * (Scale - 1)
  BY <1>2, <1>4, <1>5, <1>7, MatchingBounds
<1>12. CostOf(B) = SumOver(cost, B)
  BY DEF CostOf, SumOver
<1>13. SumOver(cost, B) <= OptimalCost
  BY <1>2, <1>5, OptimumExists
<1>14. OptimalCost <= n - Scale * SumOver(f, MemberVertices)
  <2>1. PICK M \in Matchings : OptimalCost = SumOver(cost, M)
    BY <1>2, OptimumExists
  <2>2. M \in SUBSET edges /\ IsMatching(M)
    BY DEF Matchings
  <2>3. PICK y, g : /\ y = [m \in MemberVertices |-> Mate(M, m)]
                    /\ g = [m \in MemberVertices |-> weight[PairArc(m, y[m])]]
    OBVIOUS
  <2>4. \A m \in MemberVertices :
          /\ y[m] = Mate(M, m) /\ PairArc(m, y[m]) \in Arcs(edges)
          /\ g[m] = weight[PairArc(m, y[m])] /\ g[m] = weight[PairArc(m, Mate(M, m))]
    BY <1>2, <2>2, <2>3, Mates
  <2>5. \A l, m \in MemberVertices : y[l] = y[m] /\ y[l] # Nobody => l = m
    BY <1>2, <2>2, <2>4, Mates
  <2>6. SumOver(f, MemberVertices) <= SumOver(g, MemberVertices)
    BY <1>1, <1>7, <1>8, <2>4, <2>5, FlowIsCheapest
  <2>7. /\ SumOver(cost, M) \in Int /\ SumOver(g, MemberVertices) \in Int
        /\ SumOver(cost, M) <= n - Scale * SumOver(g, MemberVertices)
    BY <1>2, <1>4, <2>2, <2>4, MatchingBounds
  <2>8. \A i, j \in Int : i <= j => Scale * i <= Scale * j
    BY ScaleAssumption
  <2>9. \A i \in Int : Scale * i \in Int
    BY ScaleAssumption
  <2>10. QED
    BY <1>11, <2>1, <2>6, <2>7, <2>8, <2>9
<1>15. QED
  BY <1>5, <1>10, <1>11, <1>12, <1>13, <1>14

-----------------------------------------------------------------------------
\* The flow is the cheapest of its value at all times, with prices that prove it so, for
\* costs between -C and C whose paths fit in an int.
THEOREM OptimalityHolds ==
  ASSUME NEW C \in Nat, CostValues \subseteq -C .. C, PathsFit(ToInt(3 * C))
  PROVE  Spec => []OptimalityInvariant(ToInt(3 * C))
<1>1. ToInt(3 * C) \in Nat
  BY RoundingIsMonotonic
<1>2. ASSUME NEW W \in Nat, W = ToInt(3 * C)
      PROVE  Init => OptimalityInvariant(W)
  <2>1. SUFFICES ASSUME Init PROVE OptimalityInvariant(W)
    OBVIOUS
  <2>2. PotentialInvariant(W) /\ FlowValueInvariant(W)
    BY <1>2, <2>1, InitPotentials, InitFlowValue
  <2>3. PricesOK /\ NetworkOK
    BY <2>1, <2>2, InitPrices
  <2>4. EveryonePlaced
    BY <2>1 DEF Init, EveryonePlaced
  <2>5. QED
    BY <2>2, <2>3, <2>4 DEF OptimalityInvariant
<1>3. ASSUME NEW W \in Nat, W = ToInt(3 * C)
      PROVE  OptimalityInvariant(W) /\ [Next]_vars => OptimalityInvariant(W)'
  <2>1. SUFFICES ASSUME OptimalityInvariant(W), [Next]_vars PROVE OptimalityInvariant(W)'
    OBVIOUS
  <2>2. /\ FlowValueInvariant(W) /\ PotentialInvariant(W) /\ PricesOK /\ NetworkOK
        /\ EveryonePlaced /\ PathsFit(W)
    BY <1>3, <2>1 DEF OptimalityInvariant, FlowValueInvariant
  <2>3. FlowValueInvariant(W)'
    BY <2>1, <2>2, StepKeepsFlowValue
  <2>4. PricesOK' /\ NetworkOK'
    BY <2>1, <2>2, StepKeepsPrices, StepKeepsNetwork
  <2>5. EveryonePlaced'
    BY <2>1, <2>2, StepPlacesEveryone
  <2>6. QED
    BY <2>3, <2>4, <2>5 DEF OptimalityInvariant
<1>4. Init => OptimalityInvariant(ToInt(3 * C))
  BY <1>1, <1>2
<1>5. OptimalityInvariant(ToInt(3 * C)) /\ [Next]_vars => OptimalityInvariant(ToInt(3 * C))'
  BY <1>1, <1>3
<1>6. QED
  BY <1>4, <1>5, PTL DEF Spec

\* The matching that is delivered, and the cost that is returned with it, are those of
\* the best matching but for the rounding of the weights: for any number of pupils and
\* students, any graph, and costs between -C and C whose paths fit in an int.
THEOREM CostIsWithinRounding ==
  ASSUME NEW C \in Nat, CostValues \subseteq -C .. C, PathsFit(ToInt(3 * C))
  PROVE  Spec => []CostWithinRounding
<1>1. ToInt(3 * C) \in Nat
  BY RoundingIsMonotonic
<1>2. OptimalityInvariant(ToInt(3 * C)) => CostWithinRounding
  BY <1>1, InvariantGivesCost DEF OptimalityInvariant
<1>3. QED
  BY <1>2, OptimalityHolds, PTL

-----------------------------------------------------------------------------
(*****************************************************************************)
(* Part 2: the rounds.  The mapping of MaxCostMatchingRefinement reads the *)
(* flow before the walk that is under way.  So all steps of a search and   *)
(* of a walk stutter but for the last step of the walk, which takes one    *)
(* more member in.  What the members are assigned to is then worth the     *)
(* most because the flow is the cheapest of its value.                     *)
(*****************************************************************************)

(* The flow before the walk. *)

\* The walk has left the vertices between t and the one that it is at, and the arcs
\* of the tree are arcs of the network or reverse ones.
WalkedOK ==
  pc = "augment" =>
    /\ u_path # t_id => t_id \in Walked
    /\ \A v \in Walked :
         examined[v] <= examined[t_id] /\ (pred[v] = u_path \/ pred[v] \in Walked)
    /\ \A v \in Vertices : pred[v] # NoVertex =>
         <<pred[v], v>> \in Arcs(edges) \/ <<v, pred[v]>> \in Arcs(edges)

\* The tree has no cycle, and s no predecessor.
LEMMA WalkedTree ==
  ASSUME FlowInvariant, pc = "augment"
  PROVE  /\ \A v \in Vertices : pred[v] # NoVertex =>
              /\ pred[v] \in Vertices /\ v # s_id
              /\ examined[pred[v]] \in Nat /\ examined[v] \in Nat
              /\ examined[pred[v]] < examined[v] /\ pred[pred[v]] # v
         /\ \A v \in Walked :
              v \in Vertices /\ pred[v] # NoVertex /\ <<pred[v], v>> \notin residual_capacity
         /\ \A v \in Walked : examined[u_path] < examined[v]
<1>1. pred \in [Vertices -> Vertices \cup {NoVertex}] /\ examined \in [Vertices -> Nat]
      /\ u_path \in Vertices
  BY DEF FlowInvariant, TypeOK
<1>2. \A v \in Vertices : pred[v] # NoVertex =>
        examined[v] > 0 /\ examined[pred[v]] < examined[v] /\ v # s_id
  BY DEF FlowInvariant, TreeOK, WalkOK
<1>3. ASSUME NEW v \in Vertices, pred[v] # NoVertex
      PROVE  /\ pred[v] \in Vertices /\ v # s_id
             /\ examined[pred[v]] \in Nat /\ examined[v] \in Nat
             /\ examined[pred[v]] < examined[v] /\ pred[pred[v]] # v
  <2>1. pred[v] \in Vertices
    BY <1>1, <1>3
  <2>2. pred[pred[v]] = v => examined[v] < examined[pred[v]]
    <3>1. NoVertex \notin Vertices
      BY VertexKinds
    <3>2. QED
      BY <1>2, <2>1, <3>1
  <2>3. QED
    BY <1>1, <1>2, <1>3, <2>1, <2>2
<1>4. ASSUME NEW v \in Walked
      PROVE  v \in Vertices /\ pred[v] # NoVertex /\ <<pred[v], v>> \notin residual_capacity
  BY <1>4 DEF Walked
<1>5. ASSUME NEW v \in Walked
      PROVE  examined[u_path] < examined[v]
  <2>1. examined[v] <= examined[u_path] => <<pred[v], v>> \in residual_capacity
    BY <1>4 DEF FlowInvariant, WalkOK
  <2>2. QED
    BY <1>1, <1>4, <2>1
<1>6. QED
  BY <1>3, <1>4, <1>5

\* The walk is under way: it changed the arcs of the vertices that it has left.
LEMMA WalkedArcs ==
  ASSUME FlowInvariant, pc = "augment", NEW u, NEW v, <<u, v>> \in Arcs(edges)
  PROVE  /\ v \in Walked /\ pred[v] = u =>
              <<u, v>> \notin FlowBeforeWalk /\ <<u, v>> \in FlowArcs
         /\ u \in Walked /\ pred[u] = v =>
              <<u, v>> \in FlowBeforeWalk /\ <<u, v>> \notin FlowArcs
         /\ ~(v \in Walked /\ pred[v] = u) /\ ~(u \in Walked /\ pred[u] = v) =>
              (<<u, v>> \in FlowBeforeWalk <=> <<u, v>> \in FlowArcs)
<1>1. <<u, v>> \in FlowArcs <=> <<u, v>> \notin residual_capacity
  BY DEF FlowArcs
<1>2. u \in Walked /\ pred[u] = v => <<u, v>> \in residual_capacity
  <2>1. edges \in SUBSET (PupilIds \X StudentIds) /\ rev(<<u, v>>) = <<v, u>>
    BY DEF FlowInvariant, TypeOK, rev
  <2>2. <<u, v>> \in residual_capacity \/ <<v, u>> \in residual_capacity
    BY <2>1 DEF FlowInvariant, ResidualOK
  <2>3. QED
    BY <2>2, WalkedTree
<1>3. <<u, v>> \in {<<pred[w], w>> : w \in Walked} <=> v \in Walked /\ pred[v] = u
  OBVIOUS
<1>4. <<u, v>> \in {<<w, pred[w]>> : w \in Walked} <=> u \in Walked /\ pred[u] = v
  OBVIOUS
<1>5. ~(v \in Walked /\ pred[v] = u /\ u \in Walked /\ pred[u] = v)
  BY WalkedTree
<1>6. v \in Walked /\ pred[v] = u => <<u, v>> \notin residual_capacity
  BY WalkedTree
<1>7. QED
  BY <1>1, <1>2, <1>3, <1>4, <1>5, <1>6 DEF FlowBeforeWalk

\* No walk is under way: nothing changed.
LEMMA NothingWalked ==
  ASSUME Walked = {}
  PROVE  FlowBeforeWalk = FlowArcs
BY DEF FlowBeforeWalk, FlowArcs

-----------------------------------------------------------------------------
(* What the steps change of it. *)

\* A search begins its walk with arcs that all have residual capacity.
LEMMA WalkBegins ==
  ASSUME FlowInvariant, UpdatePotentials
  PROVE  Walked = {} /\ Walked' = {} /\ WalkedOK'
<1>1. /\ pc = "search" /\ pc' = "augment" /\ residual_capacity' = residual_capacity
      /\ pred' = pred /\ edges' = edges /\ u_path' = t_id
  BY DEF UpdatePotentials, AugmentWith, search, input
<1>2. \A v \in Vertices : pred[v] # NoVertex => <<pred[v], v>> \in residual_capacity
  BY <1>1 DEF FlowInvariant, SearchOK
<1>3. Walked = {} /\ Walked' = {}
  BY <1>1, <1>2 DEF Walked
<1>4. ASSUME NEW v \in Vertices, pred[v] # NoVertex
      PROVE  <<pred[v], v>> \in Arcs(edges) \/ <<v, pred[v]>> \in Arcs(edges)
  BY <1>2, <1>4, ResidualArcs DEF FlowInvariant, FlowArcs
<1>5. Arcs(edges)' = Arcs(edges)
  BY <1>1, SameFlow
<1>6. QED
  BY <1>1, <1>3, <1>4, <1>5 DEF WalkedOK

\* On its way it leaves one vertex after the other.
LEMMA WalkGoesOn ==
  ASSUME FlowInvariant, WalkedOK, PushFlow, pred[u_path] # s_id
  PROVE  Walked' = Walked \cup {u_path} /\ WalkedOK'
<1>1. /\ pc = "augment" /\ pc' = "augment" /\ pred' = pred /\ examined' = examined
      /\ edges' = edges /\ u_path' = pred[u_path]
      /\ residual_capacity' = (residual_capacity \ {<<pred[u_path], u_path>>})
                                \cup {<<u_path, pred[u_path]>>}
  BY DEF PushFlow, PushWith, search, input
<1>2. PICK w, u : w = u_path /\ u = pred[w]
  OBVIOUS
<1>3. /\ w \in Vertices /\ u \in Vertices /\ w # u /\ w # s_id /\ u # t_id
      /\ <<u, w>> \in residual_capacity /\ examined[w] <= examined[t_id] /\ pred[w] # NoVertex
  <2>1. FlowInvariant /\ PushFlow
    OBVIOUS
  <2>2. examined[w] <= examined[t_id] /\ pred[w] # NoVertex
    BY <1>1, <1>2 DEF FlowInvariant, WalkOK
  <2>3. QED
    BY <1>2, <2>1, <2>2, WalkStep DEF FlowInvariant
<1>4. \A v \in Vertices : pred[v] # NoVertex =>
        (<<pred[v], v>> \notin residual_capacity'
           <=> v = w \/ <<pred[v], v>> \notin residual_capacity)
  <2>1. \A v \in Vertices : pred[v] # NoVertex => <<pred[v], v>> # <<w, u>>
    BY <1>1, <1>2, <1>3, WalkedTree
  <2>2. QED
    BY <1>1, <1>2, <1>3, <2>1
<1>5. Walked' = Walked \cup {w}
  <2>1. Walked = {v \in Vertices : pred[v] # NoVertex /\ <<pred[v], v>> \notin residual_capacity}
    BY <1>1 DEF Walked
  <2>2. Walked' = {v \in Vertices : pred[v] # NoVertex /\ <<pred[v], v>> \notin residual_capacity'}
    BY <1>1 DEF Walked
  <2>3. QED
    BY <1>3, <1>4, <2>1, <2>2
<1>6. Arcs(edges)' = Arcs(edges)
  <2>1. edges' = edges
    BY <1>1
  <2>2. QED
    BY <2>1 DEF Arcs
<1>7. t_id \in Walked'
  BY <1>1, <1>2, <1>5 DEF WalkedOK
<1>8. \A v \in Walked' :
        examined'[v] <= examined'[t_id] /\ (pred'[v] = u_path' \/ pred'[v] \in Walked')
  BY <1>1, <1>2, <1>3, <1>5 DEF WalkedOK
<1>9. QED
  BY <1>1, <1>2, <1>5, <1>6, <1>7, <1>8 DEF WalkedOK

\* The flow before the walk stays what it was as long as the walk goes on.
LEMMA FlowBeforeWalkStays ==
  ASSUME FlowInvariant, WalkedOK, PushFlow, pred[u_path] # s_id
  PROVE  FlowBeforeWalk' = FlowBeforeWalk
<1>1. PICK R, S, W, X : /\ R = residual_capacity /\ S = residual_capacity'
                        /\ W = Walked /\ X = Walked'
  OBVIOUS
<1>2. PICK w, u : w = u_path /\ u = pred[w]
  OBVIOUS
<1>3. /\ pc = "augment" /\ pred' = pred /\ edges' = edges
      /\ S = (R \ {<<u, w>>}) \cup {<<w, u>>}
  BY <1>1, <1>2 DEF PushFlow, PushWith, search, input
<1>4. X = W \cup {w}
  BY <1>1, <1>2, WalkGoesOn
<1>5. <<u, w>> \in R /\ <<w, u>> \notin R /\ w \in Vertices /\ pred[w] # NoVertex
  <2>1. <<u, w>> \in R /\ w \in Vertices /\ pred[w] # NoVertex
    BY <1>1, <1>2, <1>3, WalkStep DEF FlowInvariant, WalkOK
  <2>2. <<w, u>> \notin R
    BY <1>1, <2>1, ResidualArcs DEF FlowInvariant, ResidualOK, FlowArcs, rev
  <2>3. QED
    BY <2>1, <2>2
<1>6. \A v \in X : <<v, pred[v]>> # <<u, w>> /\ <<pred[v], v>> # <<w, u>>
  <2>1. \A v \in X : v \in Vertices /\ pred[v] # NoVertex
    BY <1>1, <1>3, <1>4, <1>5, WalkedTree
  <2>2. QED
    BY <1>2, <1>3, <1>5, <2>1, WalkedTree
<1>7. (S \ {<<v, pred[v]>> : v \in X}) \cup {<<pred[v], v>> : v \in X}
        = (R \ {<<v, pred[v]>> : v \in W}) \cup {<<pred[v], v>> : v \in W}
  BY <1>2, <1>3, <1>4, <1>5, <1>6
<1>8. Arcs(edges)' = Arcs(edges)
  BY <1>3 DEF Arcs
<1>9. QED
  BY <1>1, <1>3, <1>7, <1>8 DEF FlowBeforeWalk

\* The walk ends, and with it the difference.
LEMMA WalkEnds ==
  ASSUME PushFlow, pred[u_path] = s_id
  PROVE  FlowBeforeWalk' = FlowArcs' /\ WalkedOK'
<1>1. pc' = "start"
  BY DEF PushFlow, PushWith
<1>2. Walked' = {}
  BY <1>1 DEF Walked
<1>3. QED
  BY <1>1, <1>2 DEF WalkedOK, FlowBeforeWalk, FlowArcs

\* No other step has to do with it.
LEMMA OtherStepsStay ==
  ASSUME FlowInvariant, WalkedOK, [Next]_vars, ~PushFlow
  PROVE  FlowBeforeWalk' = FlowBeforeWalk /\ WalkedOK'
<1>1. Arcs(edges)' = Arcs(edges) /\ residual_capacity' = residual_capacity
  <2>1. edges' = edges /\ residual_capacity' = residual_capacity
    BY DEF Next, vars, StartSearch, SearchWith, ExamineVertex, StopSearching,
           UpdatePotentials, AugmentWith, Extract, input, search
  <2>2. QED
    BY <2>1 DEF Arcs
<1>2. CASE UpdatePotentials
  BY <1>1, <1>2, WalkBegins DEF FlowBeforeWalk
<1>3. CASE UNCHANGED vars
  <2>1. Walked' = Walked
    BY <1>3 DEF Walked, vars
  <2>2. QED
    BY <1>1, <1>3, <2>1 DEF FlowBeforeWalk, WalkedOK, vars
<1>4. CASE ~UpdatePotentials /\ ~UNCHANGED vars
  <2>1. pc # "augment" /\ pc' # "augment"
    BY <1>4 DEF Next, StartSearch, SearchWith, ExamineVertex, StopSearching, Extract
  <2>2. Walked = {} /\ Walked' = {}
    BY <2>1 DEF Walked
  <2>3. QED
    BY <1>1, <2>1, <2>2 DEF FlowBeforeWalk, WalkedOK
<1>5. QED
  BY <1>2, <1>3, <1>4

-----------------------------------------------------------------------------
(* The assignment that the flow is. *)

\* The vertices of a member, and of what it is assigned to.
VertexOf(m) == IF PupilsAreFewer THEN m ELSE StudentVertex(m)
PartnerVertex(q) ==
  IF q = -1 THEN Nobody ELSE IF PupilsAreFewer THEN StudentVertex(q) ELSE q

\* The paths of the flow F: who has a place is assigned, once and to someone of its
\* own, or to nobody, and the others are in the flow when somebody is assigned to them.
Settled(F) ==
  /\ \A m \in MemberVertices : PlaceArc(m) \in F =>
       \E z \in OtherVertices \cup {Nobody} : PairArc(m, z) \in F
  /\ \A m \in MemberVertices : \A z : PairArc(m, z) \in F =>
       PlaceArc(m) \in F /\ (z # Nobody => z \in OtherVertices /\ OtherArc(z) \in F)
  /\ \A m \in MemberVertices : \A y, z : PairArc(m, y) \in F /\ PairArc(m, z) \in F => y = z
  /\ \A z \in OtherVertices : OtherArc(z) \in F =>
       \E m \in MemberVertices : PairArc(m, z) \in F
  /\ \A l, m \in MemberVertices, z \in OtherVertices :
       PairArc(l, z) \in F /\ PairArc(m, z) \in F => l = m

SettledNow == pc # "augment" => Settled(FlowArcs)

LEMMA FlowIsSettled ==
  ASSUME NEW W \in Nat, FlowValueInvariant(W)
  PROVE  SettledNow
<1>1. SUFFICES ASSUME pc # "augment"
               PROVE  Settled(FlowArcs)
  BY DEF SettledNow
<1>2. QED
  BY <1>1, SettledFlow DEF Settled

\* The members and their partners are known by their vertices.
LEMMA Ids ==
  /\ \A m \in Rounds!Members :
       /\ VertexOf(m) \in MemberVertices
       /\ \A n \in Rounds!Members : VertexOf(m) = VertexOf(n) => m = n
  /\ \A v \in MemberVertices : \E m \in Rounds!Members : VertexOf(m) = v
  /\ \A q \in Rounds!Partners :
       /\ q # -1 /\ PartnerVertex(q) \in OtherVertices /\ PartnerVertex(q) # Nobody
       /\ \A r \in Rounds!Partners \cup {-1} : PartnerVertex(q) = PartnerVertex(r) => q = r
  /\ \A z \in OtherVertices : \E q \in Rounds!Partners : PartnerVertex(q) = z
  /\ PartnerVertex(-1) = Nobody
<1>1. NumPupils \in Nat /\ NumStudents \in Nat
  BY SizeAssumption
<1>2. \A i, j \in Int : StudentVertex(i) = StudentVertex(j) => i = j
  BY <1>1 DEF StudentVertex
<1>3. Rounds!Members \subseteq Int /\ Rounds!Partners \subseteq Int /\ -1 \notin Rounds!Partners
  BY DEF Rounds!Members, Rounds!Partners, Rounds!PupilIds, Rounds!StudentIds
<1>4. \A z \in OtherVertices : z # Nobody
  BY VertexKinds DEF OtherVertices, Nobody
<1>5. /\ Rounds!Members = IF PupilsAreFewer THEN PupilIds ELSE StudentIds
      /\ Rounds!Partners = IF PupilsAreFewer THEN StudentIds ELSE PupilIds
  BY DEF Rounds!Members, Rounds!Partners, Rounds!PupilIds, Rounds!StudentIds,
         Rounds!PupilsAreFewer, PupilIds, StudentIds, PupilsAreFewer
<1>6. \A q \in Rounds!Partners : PartnerVertex(q) \in OtherVertices
  BY <1>3, <1>5 DEF PartnerVertex, OtherVertices, StudentVertices
<1>7. \A z \in OtherVertices : \E q \in Rounds!Partners : PartnerVertex(q) = z
  BY <1>3, <1>5 DEF PartnerVertex, OtherVertices, StudentVertices
<1>8. PartnerVertex(-1) = Nobody
  BY DEF PartnerVertex
<1>9. \A q, r \in Rounds!Partners : PartnerVertex(q) = PartnerVertex(r) => q = r
  BY <1>2, <1>3 DEF PartnerVertex
<1>10. \A m \in Rounds!Members :
         /\ VertexOf(m) \in MemberVertices
         /\ \A n \in Rounds!Members : VertexOf(m) = VertexOf(n) => m = n
  BY <1>2, <1>3, <1>5 DEF VertexOf, MemberVertices, StudentVertices
<1>11. \A v \in MemberVertices : \E m \in Rounds!Members : VertexOf(m) = v
  BY <1>5 DEF VertexOf, MemberVertices, StudentVertices
<1>12. QED
  BY <1>3, <1>4, <1>6, <1>7, <1>8, <1>9, <1>10, <1>11

\* An edge is the arc from a vertex of the one to that of the other.
LEMMA PairIds ==
  ASSUME NEW E \in SUBSET (PupilIds \X StudentIds),
         NEW m \in Rounds!Members, NEW q \in Rounds!Partners
  PROVE  /\ Rounds!PairOf(m, q) \in PupilIds \X StudentIds
         /\ EdgeArc(Rounds!PairOf(m, q)) = PairArc(VertexOf(m), PartnerVertex(q))
         /\ PairArc(VertexOf(m), PartnerVertex(q)) \in Arcs(E) <=> Rounds!PairOf(m, q) \in E
<1>1. /\ Rounds!Members = IF PupilsAreFewer THEN PupilIds ELSE StudentIds
      /\ Rounds!Partners = IF PupilsAreFewer THEN StudentIds ELSE PupilIds
      /\ \A x, y : Rounds!PairOf(x, y) = IF PupilsAreFewer THEN <<x, y>> ELSE <<y, x>>
  BY DEF Rounds!Members, Rounds!Partners, Rounds!PupilIds, Rounds!StudentIds,
         Rounds!PupilsAreFewer, Rounds!PairOf, PupilIds, StudentIds, PupilsAreFewer
<1>2. Rounds!PairOf(m, q) \in PupilIds \X StudentIds
  BY <1>1
<1>3. q # -1
  BY Ids
<1>4. EdgeArc(Rounds!PairOf(m, q)) = PairArc(VertexOf(m), PartnerVertex(q))
  BY <1>1, <1>3 DEF EdgeArc, PairArc, VertexOf, PartnerVertex
<1>5. PairArc(VertexOf(m), PartnerVertex(q)) \in Arcs(E) <=>
        EdgeArc(Rounds!PairOf(m, q)) \in EdgeArcs(E)
  <2>1. VertexOf(m) \in MemberVertices /\ PartnerVertex(q) # Nobody
    BY Ids
  <2>2. EdgeArcs(E) \subseteq Arcs(E)
    BY DEF Arcs
  <2>3. QED
    BY <1>4, <2>1, <2>2, Sides
<1>6. EdgeArc(Rounds!PairOf(m, q)) \in EdgeArcs(E) <=> Rounds!PairOf(m, q) \in E
  <2>1. \A e, f \in PupilIds \X StudentIds : EdgeArc(f) = EdgeArc(e) => f = e
    BY EdgeEnds
  <2>2. QED
    BY <1>2, <2>1 DEF EdgeArcs
<1>7. QED
  BY <1>2, <1>4, <1>5, <1>6

\* So the mapping reads the assignment off the arcs between the two sides.
LEMMA MappedAssignment ==
  ASSUME edges \in SUBSET (PupilIds \X StudentIds), Settled(FlowBeforeWalk)
  PROVE  /\ DOMAIN assignment = TakenIn
         /\ TakenIn = {m \in Rounds!Members : PlaceArc(VertexOf(m)) \in FlowBeforeWalk}
         /\ \A m \in TakenIn :
              /\ assignment[m] \in Rounds!Partners \cup {-1}
              /\ PairArc(VertexOf(m), PartnerVertex(assignment[m])) \in FlowBeforeWalk
<1>1. /\ Rounds!Members = IF PupilsAreFewer THEN PupilIds ELSE StudentIds
      /\ Rounds!Partners = IF PupilsAreFewer THEN StudentIds ELSE PupilIds
  BY DEF Rounds!Members, Rounds!Partners, Rounds!PupilIds, Rounds!StudentIds,
         Rounds!PupilsAreFewer, PupilIds, StudentIds, PupilsAreFewer
<1>2. TakenIn = {m \in Rounds!Members : PlaceArc(VertexOf(m)) \in FlowBeforeWalk}
  BY <1>1 DEF TakenIn, PlaceArc, VertexOf, PupilsAreFewer
<1>3. DOMAIN assignment = TakenIn
  BY DEF assignment
<1>4. \A q \in Rounds!Partners : q # -1
  BY Ids
<1>5. ASSUME NEW m \in Rounds!Members
      PROVE  PartnersInFlow(m) = {q \in Rounds!Partners :
               PairArc(VertexOf(m), PartnerVertex(q)) \in FlowBeforeWalk}
  BY <1>1, <1>4 DEF PartnersInFlow, PairArc, VertexOf, PartnerVertex, PupilsAreFewer
<1>6. ASSUME NEW m \in TakenIn
      PROVE  /\ assignment[m] \in Rounds!Partners \cup {-1}
             /\ PairArc(VertexOf(m), PartnerVertex(assignment[m])) \in FlowBeforeWalk
  <2>1. m \in Rounds!Members /\ PlaceArc(VertexOf(m)) \in FlowBeforeWalk
    BY <1>2
  <2>2. CASE PartnersInFlow(m) = {}
    <3>1. assignment[m] = -1
      BY <2>2, <1>6 DEF assignment
    <3>2. PICK z \in OtherVertices \cup {Nobody} : PairArc(VertexOf(m), z) \in FlowBeforeWalk
      <4>1. VertexOf(m) \in MemberVertices
        BY <2>1, Ids
      <4>2. QED
        BY <2>1, <4>1 DEF Settled
    <3>3. z = Nobody
      <4>1. ASSUME z \in OtherVertices
            PROVE  FALSE
        <5>1. PICK q \in Rounds!Partners : PartnerVertex(q) = z
          BY <4>1, Ids
        <5>2. QED
          BY <2>1, <2>2, <3>2, <5>1, <1>5
      <4>2. QED
        BY <4>1
    <3>4. QED
      BY <3>1, <3>2, <3>3, Ids
  <2>3. CASE PartnersInFlow(m) # {}
    <3>1. assignment[m] \in PartnersInFlow(m)
      <4>1. PICK P : P = PartnersInFlow(m)
        OBVIOUS
      <4>2. assignment[m] = CHOOSE q \in P : TRUE
        BY <2>3, <1>6, <4>1 DEF assignment
      <4>3. QED
        BY <2>3, <4>1, <4>2
    <3>2. QED
      BY <2>1, <3>1, <1>5
  <2>4. QED
    BY <2>2, <2>3
<1>7. QED
  BY <1>2, <1>3, <1>6

\* It is an assignment, and those taken are those that have flow.
LEMMA MappedIsAssignment ==
  ASSUME edges \in SUBSET (PupilIds \X StudentIds), Settled(FlowBeforeWalk)
  PROVE  /\ TakenIn \in SUBSET Rounds!Members
         /\ assignment \in Rounds!Assignments(TakenIn)
         /\ Rounds!Taken(assignment)
              = {q \in Rounds!Partners : OtherArc(PartnerVertex(q)) \in FlowBeforeWalk}
<1>1. /\ DOMAIN assignment = TakenIn /\ TakenIn \in SUBSET Rounds!Members
      /\ \A m \in TakenIn :
           /\ assignment[m] \in Rounds!Partners \cup {-1}
           /\ PairArc(VertexOf(m), PartnerVertex(assignment[m])) \in FlowBeforeWalk
  BY MappedAssignment
<1>2. assignment \in [TakenIn -> Rounds!Partners \cup {Rounds!Unmatched}]
  <2>1. assignment = [m \in TakenIn |-> assignment[m]]
    BY DEF assignment
  <2>2. QED
    BY <1>1, <2>1 DEF Rounds!Unmatched
<1>3. FlowBeforeWalk \subseteq Arcs(edges)
  BY DEF FlowBeforeWalk
<1>4. ASSUME NEW m \in TakenIn, assignment[m] # -1
      PROVE  Rounds!PairOf(m, assignment[m]) \in edges
  <2>1. m \in Rounds!Members /\ assignment[m] \in Rounds!Partners
    BY <1>1, <1>4
  <2>2. PairArc(VertexOf(m), PartnerVertex(assignment[m])) \in Arcs(edges)
    BY <1>1, <1>3
  <2>3. QED
    BY <2>1, <2>2, PairIds
<1>5. ASSUME NEW l \in TakenIn, NEW m \in TakenIn, assignment[l] = assignment[m], assignment[m] # -1
      PROVE  l = m
  <2>1. l \in Rounds!Members /\ m \in Rounds!Members /\ assignment[m] \in Rounds!Partners
    BY <1>1, <1>5
  <2>2. PartnerVertex(assignment[m]) \in OtherVertices
    BY <2>1, Ids
  <2>3. VertexOf(l) \in MemberVertices /\ VertexOf(m) \in MemberVertices
    BY <2>1, Ids
  <2>4. VertexOf(l) = VertexOf(m)
    BY <1>1, <1>5, <2>2, <2>3 DEF Settled
  <2>5. QED
    BY <2>1, <2>4, Ids
<1>6. Rounds!IsAssignment(assignment)
  BY <1>1, <1>4, <1>5 DEF Rounds!IsAssignment, Rounds!Unmatched
<1>7. assignment \in Rounds!Assignments(TakenIn)
  BY <1>2, <1>6 DEF Rounds!Assignments
<1>8. ASSUME NEW q \in Rounds!Partners
      PROVE  (\E m \in TakenIn : assignment[m] = q)
               <=> OtherArc(PartnerVertex(q)) \in FlowBeforeWalk
  <2>1. PartnerVertex(q) \in OtherVertices /\ PartnerVertex(q) # Nobody
    BY Ids
  <2>2. ASSUME NEW m \in TakenIn, assignment[m] = q
        PROVE  OtherArc(PartnerVertex(q)) \in FlowBeforeWalk
    <3>1. VertexOf(m) \in MemberVertices
      BY <1>1, Ids
    <3>2. QED
      BY <1>1, <2>1, <2>2, <3>1 DEF Settled
  <2>3. ASSUME OtherArc(PartnerVertex(q)) \in FlowBeforeWalk
        PROVE  \E m \in TakenIn : assignment[m] = q
    <3>1. PICK v \in MemberVertices : PairArc(v, PartnerVertex(q)) \in FlowBeforeWalk
      BY <2>1, <2>3 DEF Settled
    <3>2. PICK m \in Rounds!Members : VertexOf(m) = v
      BY Ids
    <3>3. m \in TakenIn
      <4>1. PlaceArc(v) \in FlowBeforeWalk
        BY <3>1 DEF Settled
      <4>2. QED
        BY <3>2, <4>1, MappedAssignment
    <3>4. PartnerVertex(assignment[m]) = PartnerVertex(q)
      BY <1>1, <3>1, <3>2, <3>3 DEF Settled
    <3>5. assignment[m] = q
      BY <1>1, <3>3, <3>4, Ids
    <3>6. QED
      BY <3>3, <3>5
  <2>4. QED
    BY <2>2, <2>3
<1>9. Rounds!Taken(assignment)
        = {q \in Rounds!Partners : OtherArc(PartnerVertex(q)) \in FlowBeforeWalk}
  <2>1. Rounds!Taken(assignment) = {assignment[m] : m \in TakenIn} \ {-1}
    BY <1>1 DEF Rounds!Taken, Rounds!Unmatched, Rounds!Range
  <2>2. \A q \in Rounds!Partners : q # -1
    BY Ids
  <2>3. QED
    BY <1>1, <1>8, <2>1, <2>2
<1>10. QED
  BY <1>1, <1>7, <1>9

-----------------------------------------------------------------------------
(* What a walk changes. *)

\* The walk changes no arc out of s before its last step, and of those into t only
\* the first that it takes.
LEMMA WalkedEnds ==
  ASSUME FlowInvariant, WalkedOK, pc = "augment"
  PROVE  /\ \A x : <<s_id, x>> \in Arcs(edges) =>
                     (<<s_id, x>> \in FlowBeforeWalk <=> <<s_id, x>> \in FlowArcs)
         /\ \A x : <<x, t_id>> \in Arcs(edges) =>
              /\ t_id \in Walked /\ pred[t_id] = x =>
                   <<x, t_id>> \notin FlowBeforeWalk /\ <<x, t_id>> \in FlowArcs
              /\ ~(t_id \in Walked /\ pred[t_id] = x) =>
                   (<<x, t_id>> \in FlowBeforeWalk <=> <<x, t_id>> \in FlowArcs)
<1>1. u_path # s_id
  <2>1. pred[u_path] # NoVertex /\ pred[s_id] = NoVertex
    BY DEF FlowInvariant, WalkOK, TreeOK
  <2>2. QED
    BY <2>1
<1>2. s_id \notin Walked
  BY WalkedTree
<1>3. \A v \in Walked : pred[v] # s_id
  BY <1>1, <1>2 DEF WalkedOK
<1>4. \A v \in Walked : pred[v] # t_id
  <2>1. ASSUME NEW v \in Walked, pred[v] = t_id
        PROVE  FALSE
    <3>1. examined[t_id] < examined[v] /\ examined[t_id] \in Nat /\ examined[v] \in Nat
      BY <2>1, WalkedTree
    <3>2. examined[v] <= examined[t_id]
      BY DEF WalkedOK
    <3>3. QED
      BY <3>1, <3>2
  <2>2. QED
    BY <2>1
<1>5. QED
  BY <1>2, <1>3, <1>4, WalkedArcs

\* The last step of the walk takes one more member in, and nobody loses a place.
LEMMA WalkTakesOneIn ==
  ASSUME FlowInvariant, WalkedOK, PushFlow, pred[u_path] = s_id
  PROVE  /\ \E n \in MemberVertices :
              /\ PlaceArc(n) \notin FlowBeforeWalk
              /\ \A m \in MemberVertices : PlaceArc(m) \in FlowBeforeWalk'
                                             <=> PlaceArc(m) \in FlowBeforeWalk \/ m = n
         /\ \A z \in OtherVertices : OtherArc(z) \in FlowBeforeWalk =>
                                       OtherArc(z) \in FlowBeforeWalk'
<1>1. PICK w : w = u_path
  OBVIOUS
<1>2. pc = "augment" /\ FlowBeforeWalk' = FlowArcs'
  BY WalkEnds DEF PushFlow, PushWith
<1>3. /\ <<s_id, w>> \notin FlowArcs /\ FlowArcs' = FlowArcs \cup {<<s_id, w>>}
      /\ w \in PupilIds \cup StudentVertices
  <2>1. s_id \notin StudentVertices /\ s_id \notin PupilIds
    BY VertexKinds
  <2>2. QED
    BY <1>1, <2>1, WalkArcs DEF FlowInvariant
<1>4. <<s_id, w>> \in Arcs(edges)
  <2>1. <<s_id, w>> \in residual_capacity
    BY <1>1, WalkStep DEF FlowInvariant
  <2>2. <<w, s_id>> \notin Arcs(edges)
    <3>1. s_id \notin StudentVertices /\ s_id \notin PupilIds /\ s_id # t_id
      BY VertexKinds
    <3>2. edges \in SUBSET (PupilIds \X StudentIds)
      BY DEF FlowInvariant, TypeOK
    <3>3. QED
      BY <3>1, <3>2, ArcKinds
  <2>3. QED
    BY <2>1, <2>2, ResidualArcs DEF FlowInvariant, FlowArcs
<1>5. edges \in SUBSET (PupilIds \X StudentIds)
  BY DEF FlowInvariant, TypeOK
<1>6. /\ \A m \in MemberVertices : PlaceArc(m) \in Arcs(edges)
      /\ \A z \in OtherVertices : OtherArc(z) \in Arcs(edges)
  <2>1. \A z \in OtherVertices : OtherArc(z) \in Arcs(edges)
    BY DEF OtherVertices, OtherArc, Arcs, SourceArcs, SinkArcs, StudentVertices
  <2>2. QED
    BY <1>5, <2>1, Sides
<1>7. \A x : <<s_id, x>> \in FlowBeforeWalk => <<s_id, x>> \in FlowArcs
  <2>1. FlowBeforeWalk \subseteq Arcs(edges)
    BY DEF FlowBeforeWalk
  <2>2. QED
    BY <1>2, <2>1, WalkedEnds
<1>8. \A x : <<x, t_id>> \in FlowBeforeWalk => <<x, t_id>> \in FlowArcs
  <2>1. FlowBeforeWalk \subseteq Arcs(edges)
    BY DEF FlowBeforeWalk
  <2>2. QED
    BY <1>2, <2>1, WalkedEnds
<1>9. \A z \in OtherVertices : OtherArc(z) \in FlowBeforeWalk => OtherArc(z) \in FlowBeforeWalk'
  BY <1>2, <1>3, <1>7, <1>8 DEF OtherArc
<1>10. CASE PupilsAreFewer
  <2>1. /\ MemberVertices = PupilIds
        /\ \A m : PlaceArc(m) = <<s_id, m>>
    BY <1>10 DEF MemberVertices, PlaceArc
  <2>2. w \in PupilIds
    <3>1. <<s_id, w>> \notin DummyArcs
      BY <1>10, VertexKinds DEF DummyArcs, PupilsAreFewer
    <3>2. <<s_id, w>> \in SourceArcs
      BY <1>4, <3>1, <1>5, VertexKinds
         DEF Arcs, EdgeArcs, EdgeArc, SinkArcs, StudentVertices
    <3>3. QED
      BY <3>2 DEF SourceArcs
  <2>3. <<s_id, w>> \notin FlowBeforeWalk
    BY <1>3, <1>7
  <2>4. \A m \in MemberVertices : PlaceArc(m) \in FlowBeforeWalk'
                                    <=> PlaceArc(m) \in FlowBeforeWalk \/ m = w
    BY <1>2, <1>3, <1>6, <2>1, WalkedEnds
  <2>5. QED
    BY <1>9, <2>1, <2>2, <2>3, <2>4
<1>11. CASE ~PupilsAreFewer
  <2>1. /\ MemberVertices = StudentVertices
        /\ \A m : PlaceArc(m) = <<m, t_id>>
    BY <1>11 DEF MemberVertices, PlaceArc
  <2>2. t_id \in Walked
    <3>1. w # t_id
      BY <1>3, VertexKinds
    <3>2. QED
      BY <1>1, <1>2, <3>1 DEF WalkedOK
  <2>3. PICK n : n = pred[t_id]
    OBVIOUS
  <2>4. <<n, t_id>> \in Arcs(edges)
    <3>1. pred[t_id] # NoVertex /\ t_id \in Vertices
      BY <1>2, <2>2, WalkedTree
    <3>2. <<n, t_id>> \in Arcs(edges) \/ <<t_id, n>> \in Arcs(edges)
      BY <1>2, <2>3, <3>1 DEF WalkedOK
    <3>3. <<t_id, n>> \notin Arcs(edges)
      BY <1>5, ArcKinds, VertexKinds
    <3>4. QED
      BY <3>2, <3>3
  <2>5. n \in StudentVertices
    <3>1. <<n, t_id>> \notin DummyArcs
      BY <1>11, VertexKinds DEF DummyArcs, PupilsAreFewer, StudentVertices
    <3>2. <<n, t_id>> \in SinkArcs
      BY <2>4, <3>1, <1>5, VertexKinds
         DEF Arcs, EdgeArcs, EdgeArc, SourceArcs, StudentVertices
    <3>3. QED
      BY <3>2 DEF SinkArcs, StudentVertices
  <2>6. <<n, t_id>> \notin FlowBeforeWalk
    BY <1>2, <2>2, <2>3, <2>4, WalkedEnds
  <2>7. \A m \in MemberVertices : PlaceArc(m) \in FlowBeforeWalk'
                                    <=> PlaceArc(m) \in FlowBeforeWalk \/ m = n
    <3>1. \A m \in MemberVertices : <<m, t_id>> # <<s_id, w>>
      BY <2>1, VertexKinds
    <3>2. \A m \in MemberVertices : <<m, t_id>> \in FlowArcs' <=> <<m, t_id>> \in FlowArcs
      BY <1>3, <3>1
    <3>3. QED
      BY <1>2, <1>6, <2>1, <2>2, <2>3, <3>2, WalkedEnds
  <2>8. QED
    BY <1>9, <2>1, <2>5, <2>6, <2>7
<1>12. QED
  BY <1>10, <1>11

-----------------------------------------------------------------------------
(* What an assignment is worth. *)

\* The worth of an assigned member is what its arc weighs less than additional_cost.
LEMMA WorthOfArc ==
  ASSUME NEW C \in Nat, CostValues \subseteq -C .. C,
         edges \in SUBSET (PupilIds \X StudentIds), NetworkOK,
         NEW m \in Rounds!Members, NEW q \in Rounds!Partners \cup {-1},
         NEW a, a = PairArc(VertexOf(m), PartnerVertex(q)), a \in Arcs(edges)
  PROVE  /\ weight[a] \in Int /\ Rounds!Shift \in Int
         /\ Rounds!Worth(m, q) = Rounds!Shift - Scale * weight[a]
<1>1. cost \in [edges -> -C .. C] /\ cost \in [edges -> Int]
  <2>1. cost \in [edges -> CostValues]
    BY DEF NetworkOK
  <2>2. CostValues \subseteq Int
    BY CostAssumption
  <2>3. QED
    BY <2>1, <2>2
<1>2. Rounds!Shift = additional_cost(edges, cost) /\ Rounds!Shift \in Int
  <2>1. additional_cost(edges, cost) \in Int
    BY <1>1, AdditionalCostType
  <2>2. QED
    BY <2>1 DEF Rounds!Shift, additional_cost, maximum_edge_weight, Rounds!Max, Max
<1>3. PICK K : K = ArcCost(edges, cost, a)
  OBVIOUS
<1>4. K \in Nat
  <2>1. K \in 0 .. 3 * C
    BY <1>1, <1>3, ArcCostBounds
  <2>2. \A i \in 0 .. 3 * C : i \in Nat
    OBVIOUS
  <2>3. QED
    BY <2>1, <2>2
<1>5. weight[a] = K \div Scale
  <2>1. weight[a] = ToInt(K)
    BY <1>3 DEF NetworkOK, NetworkWeights
  <2>2. QED
    BY <1>4, <2>1 DEF ToInt
<1>6. K \div Scale \in Int
  BY <1>4, ScaleAssumption
<1>7. CASE q = -1
  <2>1. K = Rounds!Shift
    <3>1. a \in DummyArcs /\ a \notin EdgeArcs(edges)
      <4>1. VertexOf(m) \in MemberVertices /\ PartnerVertex(q) = Nobody
        BY <1>7, Ids
      <4>2. QED
        BY <4>1, Sides
    <3>2. QED
      BY <1>2, <1>3, <3>1 DEF ArcCost
  <2>2. Rounds!Worth(m, q) = Rounds!Shift - Scale * ((Rounds!Shift - 0) \div Scale)
    BY <1>7 DEF Rounds!Worth, Rounds!Unmatched, Rounds!Rounded
  <2>3. Rounds!Shift - 0 = Rounds!Shift
    BY <1>2
  <2>4. QED
    BY <1>2, <1>5, <1>6, <2>1, <2>2, <2>3
<1>8. CASE q # -1
  <2>1. PICK e : e = Rounds!PairOf(m, q)
    OBVIOUS
  <2>2. e \in edges /\ EdgeArc(e) = a
    BY <1>8, <2>1, PairIds
  <2>3. (CHOOSE d \in edges : EdgeArc(d) = a) = e
    <3>1. \A d \in edges : EdgeArc(d) = a => d = e
      BY <2>2, EdgeEnds
    <3>2. QED
      BY <2>2, <3>1
  <2>4. K = Rounds!Shift - cost[e]
    <3>1. a \in EdgeArcs(edges)
      BY <2>2 DEF EdgeArcs
    <3>2. QED
      BY <1>2, <1>3, <2>3, <3>1 DEF ArcCost
  <2>5. Rounds!Worth(m, q) = Rounds!Shift - Scale * ((Rounds!Shift - cost[e]) \div Scale)
    BY <1>8, <2>1 DEF Rounds!Worth, Rounds!Unmatched, Rounds!Rounded
  <2>6. QED
    BY <1>2, <1>5, <1>6, <2>4, <2>5
<1>9. QED
  BY <1>7, <1>8

\* The value as a sum in the form of FiniteSums.
LEMMA ValueIsSum ==
  ASSUME NEW g
  PROVE  Rounds!Value(g) = SumOver(Rounds!Worths(g), DOMAIN g)
BY DEF Rounds!Value, SumOver, Rounds!MapThenSumSet, MapThenSumSet,
       Rounds!MapThenFoldSet, MapThenFoldSet

\* The arcs of an assignment are arcs of the network.
LEMMA AssignmentArcs ==
  ASSUME edges \in SUBSET (PupilIds \X StudentIds), NEW T \in SUBSET Rounds!Members,
         NEW g \in Rounds!Assignments(T), NEW m \in T
  PROVE  /\ g[m] \in Rounds!Partners \cup {-1}
         /\ PairArc(VertexOf(m), PartnerVertex(g[m])) \in Arcs(edges)
         /\ \A l \in T : /\ PartnerVertex(g[l]) = PartnerVertex(g[m])
                         /\ PartnerVertex(g[l]) # Nobody
                         => l = m
<1>1. g \in [T -> Rounds!Partners \cup {-1}] /\ Rounds!IsAssignment(g)
  BY DEF Rounds!Assignments, Rounds!Unmatched
<1>2. DOMAIN g = T
  BY <1>1
<1>3. PairArc(VertexOf(m), PartnerVertex(g[m])) \in Arcs(edges)
  <2>1. CASE g[m] = -1
    <3>1. VertexOf(m) \in MemberVertices /\ PartnerVertex(g[m]) = Nobody
      BY <2>1, Ids
    <3>2. QED
      BY <3>1, Sides
  <2>2. CASE g[m] # -1
    <3>1. g[m] \in Rounds!Partners /\ m \in Rounds!Members
      BY <1>1, <2>2
    <3>2. Rounds!PairOf(m, g[m]) \in edges
      BY <1>1, <1>2, <2>2 DEF Rounds!IsAssignment, Rounds!Unmatched
    <3>3. QED
      BY <3>1, <3>2, PairIds
  <2>3. QED
    BY <2>1, <2>2
<1>4. ASSUME NEW l \in T, PartnerVertex(g[l]) = PartnerVertex(g[m]), PartnerVertex(g[l]) # Nobody
      PROVE  l = m
  <2>1. g[l] # -1 /\ g[m] # -1
    BY <1>4, Ids
  <2>2. g[l] = g[m]
    BY <1>1, <1>4, <2>1, Ids
  <2>3. QED
    BY <1>1, <1>2, <2>1, <2>2 DEF Rounds!IsAssignment, Rounds!Unmatched
<1>5. QED
  BY <1>1, <1>3, <1>4

\* V are the vertices of the members of T, and w is what they pay in the assignment g.
Pays(w, V, g, T) ==
  /\ V = {VertexOf(m) : m \in T}
  /\ \A m \in T : w[VertexOf(m)] = weight[PairArc(VertexOf(m), PartnerVertex(g[m]))]

\* An assignment of n members is worth n times additional_cost less what it costs the
\* network.
LEMMA ValueOfAssignment ==
  ASSUME NEW C \in Nat, CostValues \subseteq -C .. C,
         edges \in SUBSET (PupilIds \X StudentIds), NetworkOK,
         NEW T \in SUBSET Rounds!Members, NEW g \in Rounds!Assignments(T),
         NEW V, NEW w, Pays(w, V, g, T)
  PROVE  /\ IsFiniteSet(T) /\ V \in SUBSET MemberVertices /\ Cardinality(V) = Cardinality(T)
         /\ SumOver(w, V) \in Int /\ Rounds!Shift \in Int
         /\ Rounds!Value(g) = Rounds!Shift * Cardinality(T) - Scale * SumOver(w, V)
<1>1. g \in [T -> Rounds!Partners \cup {-1}]
  BY DEF Rounds!Assignments, Rounds!Unmatched
<1>2. IsFiniteSet(T)
  <2>1. IsFiniteSet(Rounds!Members)
    BY SizeAssumption, FS_Interval
       DEF Rounds!Members, Rounds!PupilIds, Rounds!StudentIds
  <2>2. QED
    BY <2>1, FS_Subset
<1>3. PICK b : b = [m \in T |-> VertexOf(m)]
  OBVIOUS
<1>4. /\ b \in [T -> V]
      /\ \A l, m \in T : b[l] = b[m] => l = m
      /\ \A z \in V : \E m \in T : b[m] = z
  BY <1>3, Ids DEF Pays
<1>5. V \in SUBSET MemberVertices
  BY Ids DEF Pays
<1>6. Cardinality(V) = Cardinality(T)
  BY <1>2, <1>4, PairedOff
<1>7. Rounds!Shift \in Int
  <2>1. cost \in [edges -> Int]
    BY CostAssumption DEF NetworkOK
  <2>2. additional_cost(edges, cost) \in Int
    BY <2>1, AdditionalCostType
  <2>3. QED
    BY <2>2 DEF Rounds!Shift, additional_cost, maximum_edge_weight, Rounds!Max, Max
<1>8. PICK u, one, s, r :
        /\ u = [m \in T |-> weight[PairArc(VertexOf(m), PartnerVertex(g[m]))]]
        /\ one = [m \in T |-> 1]
        /\ s \in Int /\ s = Rounds!Shift
        /\ r \in Int /\ r = -Scale
  <2>1. Scale \in Nat /\ -Scale \in Int
    BY ScaleAssumption
  <2>2. QED
    BY <1>7, <2>1
<1>9. ASSUME NEW m \in T
      PROVE  /\ u[m] \in Int /\ one[m] \in Int
             /\ Rounds!Worths(g)[m] = s * one[m] + r * u[m]
             /\ w[b[m]] \in Int /\ u[m] = w[b[m]]
  <2>1. /\ g[m] \in Rounds!Partners \cup {-1} /\ m \in Rounds!Members
        /\ PairArc(VertexOf(m), PartnerVertex(g[m])) \in Arcs(edges)
    BY AssignmentArcs
  <2>2. u[m] \in Int /\ Rounds!Worth(m, g[m]) = Rounds!Shift - Scale * u[m]
    BY <1>8, <2>1, WorthOfArc
  <2>3. Rounds!Worths(g)[m] = Rounds!Worth(m, g[m])
    BY <1>1 DEF Rounds!Worths
  <2>4. s * 1 + r * u[m] = Rounds!Shift - Scale * u[m]
    BY <1>8, <2>2, ScaleAssumption
  <2>5. one[m] = 1 /\ u[m] = w[b[m]]
    BY <1>3, <1>8 DEF Pays
  <2>6. QED
    BY <2>2, <2>3, <2>4, <2>5
<1>10. SumOver(Rounds!Worths(g), T) = s * SumOver(one, T) + r * SumOver(u, T)
  <2>1. Combines(Rounds!Worths(g), s, one, r, u, T)
    BY <1>9 DEF Combines
  <2>2. QED
    BY <1>2, <1>8, <2>1, SumLinear
<1>11. SumOver(one, T) = Cardinality(T)
  <2>1. SumOver(one, T) = 1 * Cardinality(T)
    BY <1>2, <1>8, SumConstant
  <2>2. Cardinality(T) \in Nat
    BY <1>2, FS_CardinalityType
  <2>3. QED
    BY <2>1, <2>2
<1>12. SumOver(w, V) = SumOver(u, T)
  <2>1. Reindexes(b, T, V, u, w)
    BY <1>4, <1>9 DEF Reindexes
  <2>2. QED
    BY <1>2, <2>1, SumReindexed
<1>13. SumOver(u, T) \in Int
  BY <1>2, <1>9, SumRemove
<1>14. Rounds!Value(g) = s * Cardinality(T) + r * SumOver(w, V)
  <2>1. DOMAIN g = T
    BY <1>1
  <2>2. QED
    BY <1>10, <1>11, <1>12, <2>1, ValueIsSum
<1>15. \A n \in Int : r * n = -(Scale * n) /\ Scale * n \in Int
  BY <1>8, ScaleAssumption
<1>16. Rounds!Shift * Cardinality(T) \in Int
  <2>1. Cardinality(T) \in Int
    BY <1>2, FS_CardinalityType
  <2>2. \A i, j \in Int : i * j \in Int
    OBVIOUS
  <2>3. QED
    BY <1>7, <2>1, <2>2
<1>17. QED
  BY <1>2, <1>5, <1>6, <1>7, <1>8, <1>12, <1>13, <1>14, <1>15, <1>16

\* No assignment of as many members is worth more than the one that the flow is.
BestNow ==
  pc # "augment" =>
    \A T \in SUBSET Rounds!Members : Cardinality(T) = Cardinality(TakenIn) =>
      \A g \in Rounds!Assignments(T) :
        SumOver(Rounds!Worths(g), T) <= SumOver(Rounds!Worths(assignment), TakenIn)

LEMMA FlowIsBest ==
  ASSUME NEW C \in Nat, CostValues \subseteq -C .. C, NEW W \in Nat,
         FlowValueInvariant(W), PricesOK, NetworkOK, Settled(FlowBeforeWalk)
  PROVE  BestNow
<1>1. SUFFICES ASSUME pc # "augment",
                      NEW T \in SUBSET Rounds!Members, Cardinality(T) = Cardinality(TakenIn),
                      NEW g \in Rounds!Assignments(T)
               PROVE  SumOver(Rounds!Worths(g), T)
                        <= SumOver(Rounds!Worths(assignment), TakenIn)
  BY DEF BestNow
<1>2. edges \in SUBSET (PupilIds \X StudentIds) /\ FlowBeforeWalk = FlowArcs
  <2>1. Walked = {}
    BY <1>1 DEF Walked
  <2>2. QED
    BY <2>1, NothingWalked DEF FlowValueInvariant, PotentialInvariant, FlowInvariant, TypeOK
<1>3. PICK d : d = [v \in MemberVertices |-> CHOOSE m \in Rounds!Members : VertexOf(m) = v]
  OBVIOUS
<1>4. \A m \in Rounds!Members : VertexOf(m) \in MemberVertices /\ d[VertexOf(m)] = m
  <2>1. ASSUME NEW m \in Rounds!Members
        PROVE  VertexOf(m) \in MemberVertices /\ d[VertexOf(m)] = m
    <3>1. VertexOf(m) \in MemberVertices
      BY Ids
    <3>2. d[VertexOf(m)] \in Rounds!Members /\ VertexOf(d[VertexOf(m)]) = VertexOf(m)
      BY <1>3, <3>1
    <3>3. QED
      BY <3>1, <3>2, Ids
  <2>2. QED
    BY <2>1
<1>5. PICK D, V : D = {VertexOf(m) : m \in TakenIn} /\ V = {VertexOf(m) : m \in T}
  OBVIOUS
<1>6. PICK A : A = assignment
  OBVIOUS
<1>7. /\ DOMAIN A = TakenIn /\ TakenIn \in SUBSET Rounds!Members
      /\ A \in Rounds!Assignments(TakenIn)
      /\ \A m \in TakenIn : PairArc(VertexOf(m), PartnerVertex(A[m])) \in FlowArcs
      /\ TakenIn = {m \in Rounds!Members : PlaceArc(VertexOf(m)) \in FlowArcs}
  BY <1>2, <1>6, MappedAssignment, MappedIsAssignment
<1>8. PICK x, y, f, h :
        /\ x = [v \in MemberVertices |-> PartnerVertex(A[d[v]])]
        /\ y = [v \in MemberVertices |-> PartnerVertex(g[d[v]])]
        /\ f = [v \in MemberVertices |-> weight[PairArc(v, x[v])]]
        /\ h = [v \in MemberVertices |-> weight[PairArc(v, y[v])]]
  OBVIOUS
<1>9. /\ \A m \in Rounds!Members : /\ x[VertexOf(m)] = PartnerVertex(A[m])
                                   /\ y[VertexOf(m)] = PartnerVertex(g[m])
      /\ \A v \in MemberVertices : f[v] = weight[PairArc(v, x[v])] /\ h[v] = weight[PairArc(v, y[v])]
  BY <1>4, <1>8
<1>10. D = {v \in MemberVertices : PlaceArc(v) \in FlowArcs} /\ V \in SUBSET MemberVertices
  BY <1>5, <1>7, Ids
<1>11. /\ Cardinality(D) = Cardinality(TakenIn) /\ SumOver(f, D) \in Int
       /\ Rounds!Value(A) = Rounds!Shift * Cardinality(TakenIn) - Scale * SumOver(f, D)
  <2>1. Pays(f, D, A, TakenIn)
    BY <1>4, <1>5, <1>7, <1>9 DEF Pays
  <2>2. QED
    BY <1>2, <1>7, <2>1, ValueOfAssignment
<1>12. /\ Cardinality(V) = Cardinality(T) /\ SumOver(h, V) \in Int
       /\ Rounds!Shift \in Int /\ IsFiniteSet(T)
       /\ Rounds!Value(g) = Rounds!Shift * Cardinality(T) - Scale * SumOver(h, V)
  <2>1. Pays(h, V, g, T)
    BY <1>4, <1>5, <1>9 DEF Pays
  <2>2. QED
    BY <1>2, <2>1, ValueOfAssignment
<1>13. SumOver(f, D) <= SumOver(h, V)
  <2>1. \A v \in D : PairArc(v, x[v]) \in FlowArcs
    BY <1>5, <1>7, <1>9
  <2>2. \A v \in V : PairArc(v, y[v]) \in Arcs(edges)
    BY <1>2, <1>5, <1>9, AssignmentArcs
  <2>3. \A u, v \in V : y[u] = y[v] /\ y[u] # Nobody => u = v
    <3>1. ASSUME NEW k \in T, NEW m \in T,
                 y[VertexOf(k)] = y[VertexOf(m)], y[VertexOf(k)] # Nobody
          PROVE  k = m
      BY <1>2, <1>9, <3>1, AssignmentArcs
    <3>2. QED
      BY <1>5, <3>1
  <2>4. \A v \in D : f[v] = weight[PairArc(v, x[v])]
    BY <1>9, <1>10
  <2>5. \A v \in V : h[v] = weight[PairArc(v, y[v])]
    BY <1>9, <1>10
  <2>6. Cardinality(D) = Cardinality(V)
    BY <1>1, <1>11, <1>12
  <2>7. QED
    BY <1>1, <1>10, <2>1, <2>2, <2>3, <2>4, <2>5, <2>6, FlowIsCheapest
<1>14. Rounds!Value(g) <= Rounds!Value(A)
  <2>1. PICK n \in Int : n = Rounds!Shift * Cardinality(T)
    <3>1. Cardinality(T) \in Int
      BY <1>12, FS_CardinalityType
    <3>2. \A i, j \in Int : i * j \in Int
      OBVIOUS
    <3>3. QED
      BY <1>12, <3>1, <3>2
  <2>2. \A i, j \in Int : i <= j => Scale * i \in Int /\ Scale * j \in Int /\ Scale * i <= Scale * j
    BY ScaleAssumption
  <2>3. QED
    BY <1>1, <1>11, <1>12, <1>13, <2>1, <2>2
<1>15. DOMAIN g = T
  BY DEF Rounds!Assignments
<1>16. QED
  BY <1>6, <1>7, <1>14, <1>15, ValueIsSum

-----------------------------------------------------------------------------
(* The steps as steps of SuccessiveAssignment. *)

\* What the mapping shows.
MappingOK ==
  /\ DOMAIN assignment = TakenIn /\ TakenIn \in SUBSET Rounds!Members
  /\ TakenIn = {m \in Rounds!Members : PlaceArc(VertexOf(m)) \in FlowBeforeWalk}
  /\ assignment \in Rounds!Assignments(TakenIn)
  /\ Rounds!Taken(assignment)
       = {q \in Rounds!Partners : OtherArc(PartnerVertex(q)) \in FlowBeforeWalk}

\* The input does not change, and so neither do the assignments nor their worth.
LEMMA SameRounds ==
  ASSUME edges' = edges, cost' = cost
  PROVE  /\ \A T : Rounds!Assignments(T)' = Rounds!Assignments(T)
         /\ \A g : Rounds!Worths(g)' = Rounds!Worths(g)
<1>1. \A T : Rounds!Assignments(T)' = Rounds!Assignments(T)
  BY DEF Rounds!Assignments, Rounds!IsAssignment
<1>2. Rounds!Shift' = Rounds!Shift
  BY DEF Rounds!Shift
<1>3. \A g : Rounds!Worths(g)' = Rounds!Worths(g)
  BY <1>2 DEF Rounds!Worths, Rounds!Worth, Rounds!Rounded
<1>4. QED
  BY <1>1, <1>3

\* SuccessiveAssignment counts as this module does.
LEMMA SameCount ==
  ASSUME NEW S
  PROVE  Rounds!Cardinality(S) = Cardinality(S)
  BY DEF Rounds!Cardinality, Cardinality

\* The last step of a walk is a round.
LEMMA WalkIsRound ==
  ASSUME FlowInvariant, WalkedOK, MappingOK, MappingOK', BestNow',
         PushFlow, pred[u_path] = s_id
  PROVE  Rounds!TakeIn
<1>1. /\ pc = "augment" /\ pc' = "start" /\ edges' = edges /\ cost' = cost
      /\ matching_edges' = matching_edges /\ matching_cost' = matching_cost
  BY DEF PushFlow, PushWith, input, result
<1>2. PICK n \in MemberVertices :
        /\ PlaceArc(n) \notin FlowBeforeWalk
        /\ \A m \in MemberVertices : PlaceArc(m) \in FlowBeforeWalk'
                                       <=> PlaceArc(m) \in FlowBeforeWalk \/ m = n
  BY WalkTakesOneIn
<1>3. \A z \in OtherVertices : OtherArc(z) \in FlowBeforeWalk => OtherArc(z) \in FlowBeforeWalk'
  BY WalkTakesOneIn
<1>4. PICK A, D, k : A = assignment' /\ D = TakenIn' /\ k = Cardinality(TakenIn) + 1
  OBVIOUS
<1>5. /\ TakenIn' = {m \in Rounds!Members : PlaceArc(VertexOf(m)) \in FlowBeforeWalk'}
      /\ DOMAIN A = D /\ D \in SUBSET Rounds!Members
      /\ Rounds!Taken(assignment)' = {q \in Rounds!Partners :
                                        OtherArc(PartnerVertex(q)) \in FlowBeforeWalk'}
  BY <1>4 DEF MappingOK
<1>6. PICK i \in Rounds!Members : VertexOf(i) = n
  BY Ids
<1>7. D = TakenIn \cup {i} /\ i \notin TakenIn
  <2>1. TakenIn = {m \in Rounds!Members : PlaceArc(VertexOf(m)) \in FlowBeforeWalk}
    BY DEF MappingOK
  <2>2. \A m \in Rounds!Members : VertexOf(m) \in MemberVertices /\ (VertexOf(m) = n <=> m = i)
    BY <1>6, Ids
  <2>3. QED
    BY <1>2, <1>4, <1>5, <1>6, <2>1, <2>2
<1>8. Cardinality(D) = k
  <2>1. IsFiniteSet(TakenIn)
    <3>1. IsFiniteSet(Rounds!Members)
      BY SizeAssumption, FS_Interval
         DEF Rounds!Members, Rounds!PupilIds, Rounds!StudentIds
    <3>2. QED
      BY <3>1, FS_Subset DEF MappingOK
  <2>2. QED
    BY <1>4, <1>7, <2>1, FS_AddElement
<1>9. A \in Rounds!Assignments(D)
  <2>1. assignment' \in Rounds!Assignments(TakenIn)'
    BY DEF MappingOK
  <2>2. Rounds!Assignments(TakenIn)' = Rounds!Assignments(TakenIn')
    BY <1>1 DEF Rounds!Assignments, Rounds!IsAssignment
  <2>3. QED
    BY <1>4, <2>1, <2>2
<1>10. ASSUME NEW T \in SUBSET Rounds!Members, Cardinality(T) = k, NEW g \in Rounds!Assignments(T)
       PROVE  Rounds!Value(g) <= Rounds!Value(A)
  <2>1. g \in Rounds!Assignments(T)'
    BY <1>1, <1>10, SameRounds
  <2>2. SumOver(Rounds!Worths(g)', T) <= SumOver(Rounds!Worths(assignment)', TakenIn')
    BY <1>1, <1>4, <1>8, <1>10, <2>1 DEF BestNow
  <2>3. Rounds!Worths(assignment)' = Rounds!Worths(A)
    BY <1>1, <1>4, SameRounds DEF Rounds!Worths, Rounds!Worth, Rounds!Rounded, Rounds!Shift
  <2>4. Rounds!Worths(g)' = Rounds!Worths(g)
    BY <1>1, SameRounds
  <2>5. DOMAIN g = T
    BY <1>10 DEF Rounds!Assignments
  <2>6. QED
    BY <1>4, <1>5, <2>2, <2>3, <2>4, <2>5, ValueIsSum
<1>11. \A g : g \in Rounds!AssignmentsOfSize(k) <=>
         \E T \in SUBSET Rounds!Members : Cardinality(T) = k /\ g \in Rounds!Assignments(T)
  BY SameCount DEF Rounds!AssignmentsOfSize, Rounds!kSubset
<1>12. /\ A \in Rounds!AssignmentsOfSize(k)
       /\ \A g \in Rounds!AssignmentsOfSize(k) : Rounds!Value(g) <= Rounds!Value(A)
  BY <1>5, <1>8, <1>9, <1>10, <1>11
<1>13. DOMAIN assignment = TakenIn /\ DOMAIN assignment # Rounds!Members
  BY <1>7 DEF MappingOK
<1>14. DOMAIN assignment \subseteq DOMAIN A
  BY <1>5, <1>7, <1>13
<1>15. Rounds!Taken(assignment) \subseteq Rounds!Taken(assignment)'
  <2>1. Rounds!Taken(assignment)
          = {q \in Rounds!Partners : OtherArc(PartnerVertex(q)) \in FlowBeforeWalk}
    BY DEF MappingOK
  <2>2. \A q \in Rounds!Partners : PartnerVertex(q) \in OtherVertices
    BY Ids
  <2>3. QED
    BY <1>3, <1>5, <2>1, <2>2
<1>16. Rounds!Taken(assignment)' = Rounds!Taken(A)
  BY <1>4 DEF Rounds!Taken, Rounds!Range
<1>17. QED
  BY <1>1, <1>4, <1>12, <1>13, <1>14, <1>15, <1>16, SameCount DEF Rounds!TakeIn

\* A step that leaves the flow before the walk as it is leaves the assignment.
LEMMA SameAssignment ==
  ASSUME FlowBeforeWalk' = FlowBeforeWalk
  PROVE  assignment' = assignment
<1>1. \A m : PartnersInFlow(m)' = PartnersInFlow(m)
  BY DEF PartnersInFlow
<1>2. TakenIn' = TakenIn
  BY DEF TakenIn
<1>3. assignment =
        [m \in TakenIn |-> IF PartnersInFlow(m) = {} THEN -1 ELSE Pick(PartnersInFlow(m))]
  BY DEF assignment, Pick
<1>4. assignment' =
        [m \in TakenIn' |-> IF PartnersInFlow(m)' = {} THEN -1 ELSE Pick(PartnersInFlow(m)')]
  BY DEF assignment, Pick
<1>5. QED
  BY <1>1, <1>2, <1>3, <1>4

\* When everyone is taken in, the result is read off the assignment.
LEMMA ExtractDelivers ==
  ASSUME NEW C \in Nat, CostValues \subseteq -C .. C, NEW W \in Nat,
         FlowValueInvariant(W), NetworkOK, EveryonePlaced,
         Settled(FlowBeforeWalk), MappingOK, Extract, FlowBeforeWalk' = FlowBeforeWalk
  PROVE  Rounds!Deliver
<1>1. /\ pc = "extract" /\ pc' = "done" /\ edges' = edges /\ cost' = cost
      /\ matching_edges' = MatchedEdges /\ matching_cost' = ReturnedCost
  BY DEF Extract, input
<1>2. edges \in SUBSET (PupilIds \X StudentIds) /\ FlowBeforeWalk = FlowArcs
  <2>1. Walked = {}
    BY <1>1 DEF Walked
  <2>2. QED
    BY <2>1, NothingWalked DEF FlowValueInvariant, PotentialInvariant, FlowInvariant, TypeOK
<1>3. TakenIn = Rounds!Members
  <2>1. \A m \in MemberVertices : PlaceArc(m) \in FlowBeforeWalk
    BY <1>1, <1>2 DEF EveryonePlaced
  <2>2. QED
    BY <2>1, Ids DEF MappingOK
<1>4. PICK A : A = assignment
  OBVIOUS
<1>5. /\ A \in Rounds!Assignments(TakenIn)
      /\ \A m \in Rounds!Members :
           /\ A[m] \in Rounds!Partners \cup {-1}
           /\ PairArc(VertexOf(m), PartnerVertex(A[m])) \in FlowArcs
  BY <1>2, <1>3, <1>4, MappedAssignment DEF MappingOK
<1>6. ASSUME NEW m \in Rounds!Members, A[m] # -1
      PROVE  Rounds!PairOf(m, A[m]) \in MatchedEdges
  <2>1. A[m] \in Rounds!Partners
    BY <1>5, <1>6
  <2>2. PairArc(VertexOf(m), PartnerVertex(A[m])) \in Arcs(edges)
        /\ PairArc(VertexOf(m), PartnerVertex(A[m])) \notin residual_capacity
    BY <1>5 DEF FlowArcs
  <2>3. QED
    BY <1>2, <2>1, <2>2, PairIds DEF MatchedEdges
<1>7. ASSUME NEW e \in MatchedEdges
      PROVE  \E m \in Rounds!Members : A[m] # -1 /\ e = Rounds!PairOf(m, A[m])
  <2>1. e \in edges /\ e \in PupilIds \X StudentIds /\ EdgeArc(e) \in FlowArcs
    BY <1>2 DEF MatchedEdges, FlowArcs, Arcs, EdgeArcs
  <2>2. /\ MemberOf(e) \in MemberVertices /\ PartnerOf(e) \in OtherVertices
        /\ EdgeArc(e) = PairArc(MemberOf(e), PartnerOf(e))
    BY <2>1, EdgeEnds
  <2>3. PICK m \in Rounds!Members, q \in Rounds!Partners :
          VertexOf(m) = MemberOf(e) /\ PartnerVertex(q) = PartnerOf(e)
    BY <2>2, Ids
  <2>4. PartnerVertex(A[m]) = PartnerVertex(q)
    BY <1>2, <1>5, <2>1, <2>2, <2>3 DEF Settled
  <2>5. A[m] = q /\ q # -1
    BY <1>5, <2>3, <2>4, Ids
  <2>6. Rounds!PairOf(m, q) = e
    <3>1. EdgeArc(Rounds!PairOf(m, q)) = EdgeArc(e)
          /\ Rounds!PairOf(m, q) \in PupilIds \X StudentIds
      BY <1>2, <2>2, <2>3, PairIds
    <3>2. QED
      BY <2>1, <3>1, EdgeEnds
  <2>7. QED
    BY <2>5, <2>6
<1>8. MatchedEdges = {Rounds!PairOf(m, A[m]) : m \in {n \in Rounds!Members : A[n] # -1}}
  BY <1>6, <1>7
<1>9. PICK D : D = {VertexOf(m) : m \in TakenIn}
  OBVIOUS
<1>10. D = MemberVertices
  BY <1>3, <1>9, Ids
<1>11. PICK d : d = [v \in MemberVertices |-> CHOOSE m \in Rounds!Members : VertexOf(m) = v]
  OBVIOUS
<1>12. \A m \in Rounds!Members : VertexOf(m) \in MemberVertices /\ d[VertexOf(m)] = m
  <2>1. ASSUME NEW m \in Rounds!Members
        PROVE  VertexOf(m) \in MemberVertices /\ d[VertexOf(m)] = m
    <3>1. VertexOf(m) \in MemberVertices
      BY Ids
    <3>2. d[VertexOf(m)] \in Rounds!Members /\ VertexOf(d[VertexOf(m)]) = VertexOf(m)
      BY <1>11, <3>1
    <3>3. QED
      BY <3>1, <3>2, Ids
  <2>2. QED
    BY <2>1
<1>13. PICK x, f : /\ x = [v \in MemberVertices |-> PartnerVertex(A[d[v]])]
                   /\ f = [v \in MemberVertices |-> weight[PairArc(v, x[v])]]
  OBVIOUS
<1>14. \A m \in Rounds!Members : x[VertexOf(m)] = PartnerVertex(A[m])
  BY <1>12, <1>13
<1>15. \A v \in D : f[v] = weight[PairArc(v, x[v])] /\ PairArc(v, x[v]) \in FlowArcs
  BY <1>3, <1>5, <1>9, <1>10, <1>13, <1>14
<1>16. D = {m \in MemberVertices : PlaceArc(m) \in FlowArcs}
  BY <1>1, <1>10 DEF EveryonePlaced
<1>17. SumOver(weight, FlowArcs) = SumOver(f, D)
  BY <1>1, <1>15, <1>16, FlowCostByMember
<1>18. /\ Cardinality(D) = Cardinality(TakenIn)
       /\ Rounds!Value(A) = Rounds!Shift * Cardinality(TakenIn) - Scale * SumOver(f, D)
  <2>1. Pays(f, D, A, TakenIn)
    BY <1>3, <1>9, <1>10, <1>12, <1>14, <1>15 DEF Pays
  <2>2. QED
    BY <1>2, <1>3, <1>5, <2>1, ValueOfAssignment
<1>19. Rounds!Value(A) = ReturnedCost
  <2>1. FlowCost = SumOver(weight, FlowArcs)
    BY DEF FlowCost, SumOver
  <2>2. Cardinality(TakenIn) = successive_flow_value
    BY <1>10, <1>18, SidesAreFinite
  <2>3. Rounds!Shift = additional_cost(edges, cost) /\ Rounds!Shift \in Int
    <3>1. cost \in [edges -> Int]
      BY CostAssumption DEF NetworkOK
    <3>2. additional_cost(edges, cost) \in Int
      BY <1>2, <3>1, AdditionalCostType
    <3>3. QED
      BY <3>2 DEF Rounds!Shift, additional_cost, maximum_edge_weight, Rounds!Max, Max
  <2>4. successive_flow_value \in Int
    BY SidesAreFinite, FS_CardinalityType
  <2>5. \A i, j \in Int : i * j = j * i
    OBVIOUS
  <2>6. QED
    BY <1>17, <1>18, <2>1, <2>2, <2>3, <2>4, <2>5 DEF ReturnedCost
<1>20. assignment' = assignment /\ DOMAIN assignment = Rounds!Members
  BY <1>3, SameAssignment DEF MappingOK
<1>21. QED
  BY <1>1, <1>4, <1>8, <1>19, <1>20 DEF Rounds!Deliver, Rounds!Unmatched

-----------------------------------------------------------------------------
(* The refinement. *)

WalkInvariant == WalkedOK /\ Settled(FlowBeforeWalk)

\* Initially nobody is assigned.
LEMMA InitRounds ==
  ASSUME NEW W \in Nat, OptimalityInvariant(W), SettledNow, Init
  PROVE  Rounds!Init /\ WalkInvariant
<1>1. pc = "start" /\ residual_capacity = Arcs(edges)
  BY DEF Init
<1>2. FlowBeforeWalk = {} /\ FlowArcs = {}
  BY <1>1 DEF FlowBeforeWalk, FlowArcs, Walked
<1>3. WalkInvariant
  BY <1>1, <1>2 DEF WalkInvariant, WalkedOK, SettledNow
<1>4. assignment = <<>>
  <2>1. TakenIn = {}
    BY <1>2 DEF TakenIn
  <2>2. QED
    BY <2>1 DEF assignment
<1>5. Rounds!Init
  BY <1>1, <1>4
     DEF Init, Rounds!Init, Rounds!PupilIds, Rounds!StudentIds, PupilIds, StudentIds
<1>6. QED
  BY <1>3, <1>5

\* The flow before the walk is settled again when the walk ends.
LEMMA StepKeepsWalk ==
  ASSUME FlowInvariant, SettledNow', WalkInvariant, [Next]_vars
  PROVE  WalkInvariant'
<1>1. CASE PushFlow /\ pred[u_path] = s_id
  <2>1. pc' = "start" /\ FlowBeforeWalk' = FlowArcs' /\ WalkedOK'
    BY <1>1, WalkEnds DEF PushFlow, PushWith
  <2>2. Settled(FlowArcs')
    BY <2>1 DEF SettledNow, Settled
  <2>3. QED
    BY <2>1, <2>2 DEF WalkInvariant, Settled
<1>2. CASE ~(PushFlow /\ pred[u_path] = s_id)
  <2>1. FlowBeforeWalk' = FlowBeforeWalk /\ WalkedOK'
    BY <1>2, WalkGoesOn, FlowBeforeWalkStays, OtherStepsStay DEF WalkInvariant
  <2>2. QED
    BY <2>1 DEF WalkInvariant, Settled
<1>3. QED
  BY <1>1, <1>2

\* Every step is a round, the delivery, or hidden.
LEMMA StepIsRound ==
  ASSUME NEW C \in Nat, CostValues \subseteq -C .. C, NEW W \in Nat,
         OptimalityInvariant(W), WalkInvariant, MappingOK, MappingOK', BestNow', [Next]_vars
  PROVE  Rounds!Next \/ UNCHANGED Rounds!vars
<1>1. /\ FlowInvariant /\ FlowValueInvariant(W) /\ NetworkOK /\ EveryonePlaced
      /\ WalkedOK /\ Settled(FlowBeforeWalk)
  BY DEF OptimalityInvariant, FlowValueInvariant, PotentialInvariant, WalkInvariant
<1>2. CASE PushFlow /\ pred[u_path] = s_id
  BY <1>1, <1>2, WalkIsRound DEF Rounds!Next
<1>3. CASE ~(PushFlow /\ pred[u_path] = s_id)
  <2>1. FlowBeforeWalk' = FlowBeforeWalk
    BY <1>1, <1>3, FlowBeforeWalkStays, OtherStepsStay
  <2>2. CASE Extract
    BY <1>1, <2>1, <2>2, ExtractDelivers DEF Rounds!Next
  <2>3. CASE ~Extract
    <3>1. /\ edges' = edges /\ cost' = cost
          /\ matching_edges' = matching_edges /\ matching_cost' = matching_cost
          /\ pc' = pc \/ (pc # "done" /\ pc' # "done")
      BY <2>3 DEF Next, vars, StartSearch, SearchWith, ExamineVertex, StopSearching,
             UpdatePotentials, AugmentWith, PushFlow, PushWith, input, result
    <3>2. assignment' = assignment
      BY <2>1, SameAssignment
    <3>3. (pc = "done")' = (pc = "done")
      BY <3>1
    <3>4. QED
      BY <3>1, <3>2, <3>3 DEF Rounds!vars
  <2>4. QED
    BY <2>2, <2>3
<1>4. QED
  BY <1>2, <1>3

\* The searches and walks implement the rounds of SuccessiveAssignment: every walk takes
\* one more member in, leaves the best assignment of as many members, and takes nobody's
\* place away; what is delivered is the last of these assignments.
THEOREM SearchesImplementRounds ==
  ASSUME NEW C \in Nat, CostValues \subseteq -C .. C, PathsFit(ToInt(3 * C))
  PROVE  Spec => ImplementsRounds
<1>1. ToInt(3 * C) \in Nat
  BY RoundingIsMonotonic
<1>2. Spec => []OptimalityInvariant(ToInt(3 * C))
  BY OptimalityHolds
<1>3. OptimalityInvariant(ToInt(3 * C)) => SettledNow /\ FlowInvariant
  BY <1>1, FlowIsSettled DEF OptimalityInvariant, FlowValueInvariant, PotentialInvariant
<1>4. OptimalityInvariant(ToInt(3 * C)) /\ Init => Rounds!Init /\ WalkInvariant
  BY <1>1, <1>3, InitRounds
<1>5. FlowInvariant /\ SettledNow' /\ WalkInvariant /\ [Next]_vars => WalkInvariant'
  BY StepKeepsWalk
<1>6. OptimalityInvariant(ToInt(3 * C)) /\ WalkInvariant => MappingOK /\ BestNow
  <2>1. SUFFICES ASSUME NEW W \in Nat, OptimalityInvariant(W), WalkInvariant
                 PROVE  MappingOK /\ BestNow
    BY <1>1
  <2>2. /\ FlowValueInvariant(W) /\ PricesOK /\ NetworkOK /\ Settled(FlowBeforeWalk)
        /\ edges \in SUBSET (PupilIds \X StudentIds)
    BY <2>1 DEF OptimalityInvariant, FlowValueInvariant, PotentialInvariant, FlowInvariant,
                TypeOK, WalkInvariant
  <2>3. MappingOK
    BY <2>2, MappedAssignment, MappedIsAssignment DEF MappingOK
  <2>4. BestNow
    BY <2>2, FlowIsBest
  <2>5. QED
    BY <2>3, <2>4
<1>7. /\ OptimalityInvariant(ToInt(3 * C)) /\ WalkInvariant
      /\ MappingOK /\ MappingOK' /\ BestNow' /\ [Next]_vars
      => Rounds!Next \/ UNCHANGED Rounds!vars
  BY <1>1, StepIsRound
<1>8. QED
  BY <1>2, <1>3, <1>4, <1>5, <1>6, <1>7, PTL DEF Spec, ImplementsRounds, Rounds!Spec

-----------------------------------------------------------------------------
(*****************************************************************************)
(* Part 3: how far the potentials of reached vertices get.  A path from s  *)
(* crosses the edges and dummy arcs from the side of s and the pupils to   *)
(* the side of the students and t, and can cross them again only after it  *)
(* has come back over the reverse of such an arc with flow.                *)
(*****************************************************************************)

\* 1 on the side of the students and t, 0 on the side of s and the pupils.
Ahead(v) == IF v \in StudentVertices \cup {t_id} THEN 1 ELSE 0

\* The flow from one side to the other.
Carried == FlowArcs \ (SourceArcs \cup SinkArcs)

\* The vertices among the first n examined that were reached by coming back.
Returned(n) ==
  {v \in Vertices : /\ pred[v] # NoVertex
                    /\ examined[v] \in 1 .. n
                    /\ <<v, pred[v]>> \in Carried}

\* The path to an examined vertex crosses over once more at most than it comes
\* back.
ShortPathsOK ==
  pc = "search" =>
    \A v \in Examined :
      distance[v] + distance_prev[v]
        <= (Ahead(v) + Cardinality(Returned(examined[v]))) * LargestWeight

\* The live vertices have such potentials, and so have those that the last search
\* reached.
ShortPotentialsOK ==
  /\ pc \in {"start", "search", "augment"} =>
       \E L \in SUBSET Vertices :
         /\ Live(L)
         /\ \A v \in L : distance_prev[v] <= LongestPath
         /\ pc = "search" => Seen \subseteq L
         /\ pc = "augment" =>
              \A v \in Vertices : pred[v] # NoVertex =>
                v \in L /\ pred[v] \in L /\ ReducedWeight(pred[v], v) = 0
         /\ pc = "start" => \A v \in Vertices : pred[v] # NoVertex => v \in L
  /\ pc \in {"extract", "done"} => ReachedPotentialsFit

ReachInvariant(W) ==
  PotentialInvariant(W) /\ NetworkOK /\ ShortPathsOK /\ ShortPotentialsOK

\* There is a greatest weight of an arc.
LEMMA LargestWeightIs ==
  ASSUME NEW W \in Nat, PotentialInvariant(W)
  PROVE  LargestWeight \in Nat /\ \A a \in Arcs(edges) : weight[a] \in 0 .. LargestWeight
<1>1. edges \in SUBSET (PupilIds \X StudentIds) /\ WeightsOK(W)
  BY DEF PotentialInvariant, FlowInvariant, TypeOK
<1>2. PICK S : S = {0} \cup {weight[a] : a \in Arcs(edges)}
  OBVIOUS
<1>3. S \in SUBSET (0 .. W)
  BY <1>1, <1>2 DEF WeightsOK
<1>4. IsFiniteSet(S)
  <2>1. IsFiniteSet(0 .. W)
    BY FS_Interval
  <2>2. QED
    BY <1>3, <2>1, FS_Subset
<1>5. S \in SUBSET Int /\ S # {}
  BY <1>2, <1>3
<1>6. Max(S) \in S /\ \A y \in S : y <= Max(S)
  BY <1>4, <1>5, MaxOfFiniteSet
<1>7. LargestWeight = Max(S)
  BY <1>2 DEF LargestWeight
<1>8. LargestWeight \in 0 .. W
  BY <1>3, <1>6, <1>7
<1>9. ASSUME NEW a \in Arcs(edges) PROVE weight[a] \in 0 .. LargestWeight
  <2>1. weight[a] \in S /\ weight[a] \in 0 .. W
    BY <1>2, <1>3
  <2>2. QED
    BY <1>6, <1>7, <2>1
<1>10. QED
  BY <1>8, <1>9

\* No more flow goes over than there are members of the smaller side.
LEMMA CarriedFits ==
  ASSUME FlowInvariant, pc # "augment"
  PROVE  /\ IsFiniteSet(Carried)
         /\ Cardinality(Carried) \in Nat /\ successive_flow_value \in Nat
         /\ Cardinality(Carried) <= successive_flow_value
<1>1. /\ edges \in SUBSET (PupilIds \X StudentIds)
      /\ \A p \in PupilIds : PupilBalanced(p, NoVertex)
      /\ \A v \in StudentVertices : StudentBalanced(v)
  BY DEF FlowInvariant, TypeOK, BalanceOK
<1>2. ASSUME NEW a \in Carried
      PROVE  /\ a = <<a[1], a[2]>> /\ a[1] \in Vertices /\ a[2] \in Vertices
             /\ a \in FlowArcs /\ a[2] # NoVertex
             /\ PupilsAreFewer => a[1] \in PupilIds
             /\ ~PupilsAreFewer => a[2] \in StudentVertices
  <2>1. a \in FlowArcs /\ a \in Arcs(edges) /\ a \notin SourceArcs \cup SinkArcs
    BY DEF Carried, FlowArcs
  <2>2. a = <<a[1], a[2]>>
    BY <1>1, <2>1, ArcsArePairs
  <2>3. a[1] \in Vertices /\ a[2] \in Vertices /\ a[2] # NoVertex
    <3>1. PICK x, y : x = a[1] /\ y = a[2] /\ a = <<x, y>>
      BY <2>2
    <3>2. x \in Vertices /\ y \in Vertices
      BY <1>1, <2>1, <3>1, ArcsAreAntisymmetric
    <3>3. QED
      BY <3>1, <3>2, VertexKinds
  <2>4. CASE a \in EdgeArcs(edges)
    <3>1. a[1] \in PupilIds /\ a[2] \in StudentVertices
      BY <1>1, <2>4 DEF EdgeArcs, EdgeArc, StudentVertices
    <3>2. QED
      BY <2>1, <2>2, <2>3, <3>1
  <2>5. CASE a \in DummyArcs
    <3>1. PupilsAreFewer => a[1] \in PupilIds
      BY <2>5 DEF DummyArcs, PupilsAreFewer
    <3>2. ~PupilsAreFewer => a[2] \in StudentVertices
      BY <2>5 DEF DummyArcs, PupilsAreFewer, StudentVertices
    <3>3. QED
      BY <2>1, <2>2, <2>3, <3>1, <3>2
  <2>6. QED
    BY <2>1, <2>4, <2>5 DEF Arcs
<1>3. PICK f : f = [a \in Carried |-> IF PupilsAreFewer THEN a[1] ELSE a[2]]
  OBVIOUS
<1>4. f \in [Carried -> MemberVertices]
  BY <1>2, <1>3 DEF MemberVertices
<1>5. ASSUME NEW a \in Carried, NEW b \in Carried, f[a] = f[b] PROVE a = b
  <2>1. CASE PupilsAreFewer
    <3>1. a[1] = b[1] /\ a[1] \in PupilIds
      BY <1>2, <1>3, <1>5, <2>1
    <3>2. PICK p \in PupilIds, v \in Vertices, w \in Vertices :
            /\ a = <<p, v>> /\ <<p, v>> \in FlowArcs /\ v # NoVertex
            /\ b = <<p, w>> /\ <<p, w>> \in FlowArcs /\ w # NoVertex
      BY <1>2, <3>1
    <3>3. v = w
      BY <1>1, <3>2 DEF PupilBalanced
    <3>4. QED
      BY <3>2, <3>3
  <2>2. CASE ~PupilsAreFewer
    <3>1. a[2] = b[2] /\ a[2] \in StudentVertices
      BY <1>2, <1>3, <1>5, <2>2
    <3>2. PICK v \in StudentVertices, p \in Vertices, q \in Vertices :
            /\ a = <<p, v>> /\ <<p, v>> \in FlowArcs
            /\ b = <<q, v>> /\ <<q, v>> \in FlowArcs
      BY <1>2, <3>1
    <3>3. p = q
      BY <1>1, <3>2 DEF StudentBalanced
    <3>4. QED
      BY <3>2, <3>3
  <2>3. QED
    BY <2>1, <2>2
<1>6. f \in Injection(Carried, MemberVertices)
  BY <1>4, <1>5 DEF Injection, IsInjective
<1>7. IsFiniteSet(MemberVertices) /\ Cardinality(MemberVertices) = successive_flow_value
  BY SidesAreFinite
<1>8. IsFiniteSet(Carried) /\ Cardinality(Carried) <= Cardinality(MemberVertices)
  BY <1>6, <1>7, FS_Injection
<1>9. QED
  BY <1>7, <1>8, FS_CardinalityType

\* Every return is over another arc with flow, so that there are no more of them.
LEMMA ReturnsFit ==
  ASSUME FlowInvariant, pc # "augment", NEW n
  PROVE  /\ IsFiniteSet(Returned(n))
         /\ Cardinality(Returned(n)) \in Nat
         /\ Cardinality(Returned(n)) <= successive_flow_value
<1>1. PICK R : R = Returned(n)
  OBVIOUS
<1>2. PICK f : f = [v \in R |-> <<v, pred[v]>>]
  OBVIOUS
<1>3. f \in [R -> Carried]
  BY <1>1, <1>2 DEF Returned
<1>4. \A v, w \in R : f[v] = f[w] => v = w
  BY <1>2
<1>5. f \in Injection(R, Carried)
  BY <1>3, <1>4 DEF Injection, IsInjective
<1>6. /\ IsFiniteSet(Carried) /\ Cardinality(Carried) \in Nat /\ successive_flow_value \in Nat
      /\ Cardinality(Carried) <= successive_flow_value
  BY CarriedFits
<1>7. IsFiniteSet(R) /\ Cardinality(R) <= Cardinality(Carried)
  BY <1>5, <1>6, FS_Injection
<1>8. Cardinality(R) \in Nat
  BY <1>7, FS_CardinalityType
<1>9. Cardinality(R) <= successive_flow_value
  BY <1>6, <1>7, <1>8
<1>10. QED
  BY <1>1, <1>7, <1>8, <1>9

\* The sides of the ends of an arc.
LEMMA ArcsAhead ==
  ASSUME NEW E \in SUBSET (PupilIds \X StudentIds), NEW x, NEW y, <<x, y>> \in Arcs(E)
  PROVE  \/ /\ Ahead(x) = 0 /\ Ahead(y) = 1
            /\ <<x, y>> \notin SourceArcs \cup SinkArcs
         \/ x = s_id /\ Ahead(x) = 0 /\ Ahead(y) = 0
               /\ <<x, y>> \notin EdgeArcs(E) \cup DummyArcs
         \/ Ahead(x) = 1 /\ Ahead(y) = 1 /\ <<x, y>> \notin EdgeArcs(E) \cup DummyArcs
<1>1. /\ Ahead(s_id) = 0 /\ Ahead(t_id) = 1
      /\ \A p \in PupilIds : Ahead(p) = 0
      /\ \A v \in StudentVertices : Ahead(v) = 1
  BY VertexKinds DEF Ahead
<1>2. \A u, v : <<u, v>> \in EdgeArcs(E) => u \in PupilIds /\ v \in StudentVertices
  BY DEF EdgeArcs, EdgeArc, StudentVertices
<1>3. \A u, v : <<u, v>> \in SourceArcs => u = s_id /\ v \in PupilIds
  BY DEF SourceArcs
<1>4. \A u, v : <<u, v>> \in SinkArcs => u \in StudentVertices /\ v = t_id
  BY DEF SinkArcs, StudentVertices
<1>5. \A u, v : <<u, v>> \in DummyArcs =>
        (u \in PupilIds /\ v = t_id) \/ (u = s_id /\ v \in StudentVertices)
  <2>1. CASE NumPupils < NumStudents
    BY <2>1 DEF DummyArcs
  <2>2. CASE ~(NumPupils < NumStudents)
    BY <2>2 DEF DummyArcs, StudentVertices
  <2>3. QED
    BY <2>1, <2>2
<1>6. CASE <<x, y>> \in EdgeArcs(E)
  BY <1>1, <1>2, <1>3, <1>4, <1>6, VertexKinds
<1>7. CASE <<x, y>> \in SourceArcs
  BY <1>1, <1>2, <1>3, <1>5, <1>7, VertexKinds
<1>8. CASE <<x, y>> \in SinkArcs
  BY <1>1, <1>2, <1>4, <1>5, <1>8, VertexKinds
<1>9. CASE <<x, y>> \in DummyArcs
  BY <1>1, <1>3, <1>4, <1>5, <1>9, VertexKinds
<1>10. QED
  BY <1>6, <1>7, <1>8, <1>9 DEF Arcs

\* A residual arc crosses over and weighs at most LargestWeight, stays on its side and
\* weighs nothing, or comes back over flow and gains weight.
LEMMA ResidualAhead ==
  ASSUME NEW W \in Nat, PotentialInvariant(W), NetworkOK,
         NEW x, NEW y, <<x, y>> \in residual_capacity, y # s_id
  PROVE  \/ Ahead(x) = 0 /\ Ahead(y) = 1 /\ weight[<<x, y>>] <= LargestWeight
         \/ Ahead(x) = Ahead(y) /\ weight[<<x, y>>] = 0
         \/ Ahead(x) = 1 /\ Ahead(y) = 0 /\ weight[<<x, y>>] <= 0 /\ <<y, x>> \in Carried
<1>1. edges \in SUBSET (PupilIds \X StudentIds) /\ TypeOK /\ ResidualOK /\ FlowInvariant
      /\ WeightsOK(W)
  BY DEF PotentialInvariant, FlowInvariant, TypeOK
<1>2. weight[<<x, y>>] \in Int /\ weight[<<y, x>>] = -weight[<<x, y>>]
  BY <1>1, ResidualWeights
<1>3. LargestWeight \in Nat /\ \A a \in Arcs(edges) : weight[a] \in 0 .. LargestWeight
  BY LargestWeightIs
<1>4. CASE <<x, y>> \in Arcs(edges)
  <2>1. weight[<<x, y>>] <= LargestWeight
    BY <1>2, <1>3, <1>4
  <2>2. <<x, y>> \notin EdgeArcs(edges) \cup DummyArcs => weight[<<x, y>>] = 0
    BY <1>4, FreeArcs
  <2>3. QED
    BY <1>1, <1>4, <2>1, <2>2, ArcsAhead
<1>5. CASE <<y, x>> \in FlowArcs
  <2>1. <<y, x>> \in Arcs(edges)
    BY <1>5 DEF FlowArcs
  <2>2. weight[<<x, y>>] <= 0
    BY <1>2, <1>3, <2>1
  <2>3. <<y, x>> \notin EdgeArcs(edges) \cup DummyArcs => weight[<<x, y>>] = 0
    <3>1. <<y, x>> \notin EdgeArcs(edges) \cup DummyArcs => weight[<<y, x>>] = 0
      BY <2>1, FreeArcs
    <3>2. QED
      BY <1>2, <3>1
  <2>4. <<y, x>> \notin SourceArcs \cup SinkArcs => <<y, x>> \in Carried
    BY <1>5 DEF Carried
  <2>5. QED
    BY <1>1, <2>1, <2>2, <2>3, <2>4, ArcsAhead
<1>6. QED
  BY <1>1, <1>4, <1>5, ResidualArcs

\* The bounds as multiples of the largest weight L.
LEMMA Multiples ==
  ASSUME NEW L \in Nat, NEW j \in Nat, NEW k \in Nat
  PROVE  /\ j * L \in Nat /\ (j + 1) * L = j * L + L
         /\ j <= k => j * L <= k * L
<1>1. PICK n \in Nat : n = k + 1
  OBVIOUS
<1>2. \A i \in Nat : i <= k => i * L <= k * L
  BY <1>1, OneMoreArc
<1>3. PICK m \in Nat : m = j + 1
  OBVIOUS
<1>4. j * L \in Nat /\ (j + 1) * L = j * L + L
  BY <1>3, OneMoreArc
<1>5. QED
  BY <1>2, <1>4

-----------------------------------------------------------------------------
(* The steps. *)

\* The input does not change, and so neither do the bounds.
LEMMA SameBounds ==
  ASSUME [Next]_vars
  PROVE  LargestWeight' = LargestWeight /\ LongestPath' = LongestPath
<1>1. edges' = edges /\ weight' = weight
  BY DEF Next, StartSearch, SearchWith, ExamineVertex, StopSearching, UpdatePotentials,
         AugmentWith, PushFlow, PushWith, Extract, vars, input
<1>2. Arcs(edges)' = Arcs(edges)
  BY <1>1 DEF Arcs, EdgeArcs
<1>3. LargestWeight' = LargestWeight
  BY <1>1, <1>2 DEF LargestWeight
<1>4. QED
  BY <1>3 DEF LongestPath, successive_flow_value

\* What examining u leaves of the vertices examined before.
LEMMA ExaminedBefore ==
  ASSUME NEW W \in Nat, PathsFit(W), PotentialInvariant(W),
         NEW u \in Vertices, ExamineVertex(u)
  PROVE  /\ examined_count \in Nat /\ examined'[u] = examined_count + 1
         /\ Examined' = Examined \cup {u}
         /\ Carried' = Carried
         /\ distance_prev' = distance_prev
         /\ \A v \in Examined \cup {u} :
              /\ v \in Vertices
              /\ distance'[v] = distance[v] /\ pred'[v] = pred[v]
         /\ \A v \in Vertices \ {u} : examined'[v] = examined[v]
         /\ \A v \in Examined : examined[v] \in 1 .. examined_count
         /\ \A n \in 0 .. examined_count : Returned(n)' = Returned(n)
<1>1. TypeOK /\ ResidualOK /\ TreeOK
  BY DEF PotentialInvariant, FlowInvariant
<1>2. /\ examined_count \in Nat
      /\ examined' = [examined EXCEPT ![u] = examined_count + 1]
      /\ distance_prev' = distance_prev
      /\ residual_capacity' = residual_capacity /\ edges' = edges
      /\ \A v \in Vertices :
           v \notin Relaxed(u) => distance'[v] = distance[v] /\ pred'[v] = pred[v]
  BY <1>1 DEF ExamineVertex, input, TypeOK
<1>3. /\ examined'[u] = examined_count + 1
      /\ \A v \in Vertices \ {u} : examined'[v] = examined[v]
      /\ \A v \in Vertices : examined[v] \in 0 .. examined_count
  BY <1>1, <1>2 DEF TypeOK, TreeOK
<1>4. Examined' = Examined \cup {u}
  BY <1>2, <1>3 DEF Examined
<1>5. Carried' = Carried
  BY <1>2, SameFlow DEF Carried
<1>6. u \notin Relaxed(u) /\ \A v \in Examined : v \notin Relaxed(u)
  <2>1. <<u, u>> \notin residual_capacity
    BY <1>1, ResidualArcs
  <2>2. \A v \in Examined : examined[v] # 0
    BY <1>3 DEF Examined
  <2>3. QED
    BY <2>1, <2>2 DEF Relaxed, Successors
<1>7. \A v \in Examined \cup {u} :
        v \in Vertices /\ distance'[v] = distance[v] /\ pred'[v] = pred[v]
  BY <1>2, <1>6 DEF Examined
<1>8. \A v \in Examined : examined[v] \in 1 .. examined_count
  BY <1>3 DEF Examined
<1>9. ASSUME NEW n \in 0 .. examined_count PROVE Returned(n)' = Returned(n)
  <2>1. u \notin Returned(n) /\ u \notin Returned(n)'
    <3>1. examined[u] = 0
      BY <1>1 DEF ExamineVertex, TreeOK
    <3>2. QED
      BY <1>2, <1>3, <3>1 DEF Returned
  <2>2. ASSUME NEW v \in Vertices \ {u}, examined[v] \in 1 .. n
        PROVE  v \in Returned(n)' <=> v \in Returned(n)
    <3>1. v \in Examined
      BY <2>2 DEF Examined
    <3>2. pred'[v] = pred[v] /\ examined'[v] = examined[v]
      BY <1>3, <1>7, <3>1
    <3>3. QED
      BY <1>5, <3>2 DEF Returned
  <2>3. ASSUME NEW v \in Vertices \ {u}, examined[v] \notin 1 .. n
        PROVE  v \notin Returned(n)' /\ v \notin Returned(n)
    BY <1>3, <2>3 DEF Returned
  <2>4. Returned(n) \subseteq Vertices /\ Returned(n)' \subseteq Vertices
    BY DEF Returned
  <2>5. QED
    BY <2>1, <2>2, <2>3, <2>4
<1>10. QED
  BY <1>2, <1>3, <1>4, <1>5, <1>7, <1>8, <1>9

\* The path to u is the one to its predecessor and one arc more.
LEMMA ExaminedPath ==
  ASSUME NEW W \in Nat, PathsFit(W), ReachInvariant(W),
         NEW u \in Vertices, ExamineVertex(u), NEW n, n = examined_count + 1
  PROVE  distance[u] + distance_prev[u]
           <= (Ahead(u) + Cardinality(Returned(n)')) * LargestWeight
<1>1. /\ PotentialInvariant(W) /\ NetworkOK /\ ShortPathsOK /\ FlowInvariant
      /\ TypeOK /\ TreeOK /\ pc = "search" /\ u \in queue
  BY DEF ReachInvariant, PotentialInvariant, FlowInvariant, ExamineVertex
<1>2. SeenOK /\ PathsOK(W) /\ SearchOK
  BY <1>1 DEF PotentialInvariant, FlowInvariant, DistancesOK
<1>5. PICK R : R = Returned(n)'
  OBVIOUS
<1>6. IsFiniteSet(R) /\ Cardinality(R) \in Nat
  <2>1. R \in SUBSET Vertices
    BY <1>5 DEF Returned
  <2>2. IsFiniteSet(Vertices)
    BY FS_Interval, SizeAssumption DEF Vertices, t_id, s_id
  <2>3. QED
    BY <2>1, <2>2, FS_Subset, FS_CardinalityType
<1>7. PICK m \in Nat : m = LargestWeight
  BY <1>1, LargestWeightIs
<1>8. Ahead(u) \in {0, 1}
  BY DEF Ahead
<1>9. CASE u = s_id
  <2>1. distance[u] = 0
    BY <1>2, <1>9 DEF SeenOK
  <2>2. distance_prev[u] = 0
    <3>1. PICK L \in SUBSET Vertices : Live(L)
      BY <1>1 DEF PotentialInvariant, LiveOK
    <3>2. QED
      BY <1>9, <3>1 DEF Live
  <2>3. (Ahead(u) + Cardinality(R)) * m \in Nat
    BY <1>6, <1>8, Multiples
  <2>4. QED
    BY <1>5, <1>7, <2>1, <2>2, <2>3
<1>10. CASE u # s_id
  <2>1. PICK x : x = pred[u]
    OBVIOUS
  <2>2. pred[u] # NoVertex /\ x \in Vertices
    BY <1>1, <1>2, <1>10, <2>1 DEF SeenOK, Seen, TypeOK
  <2>3. /\ x \in Examined /\ <<x, u>> \in residual_capacity
        /\ distance[u] = distance[x] + ReducedWeight(x, u)
    BY <1>1, <1>2, <2>1, <2>2 DEF TreeOK, SearchOK, PathsOK, Examined
  <2>4. PICK k : k = examined[x] /\ k \in 1 .. examined_count
    BY <1>1, <2>3, ExaminedBefore
  <2>5. PICK S : S = Returned(k)
    OBVIOUS
  <2>6. IsFiniteSet(S) /\ Cardinality(S) \in Nat
    BY <1>1, <2>5, ReturnsFit
  <2>7. distance[x] + distance_prev[x] <= (Ahead(x) + Cardinality(S)) * m
    BY <1>1, <1>7, <2>3, <2>4, <2>5 DEF ShortPathsOK
  <2>8. /\ distance[x] \in Int /\ distance_prev[x] \in Int /\ distance_prev[u] \in Int
        /\ weight[<<x, u>>] \in Int
    BY <1>1, <2>2, <2>3, ResidualWeights DEF TypeOK, PotentialInvariant
  <2>9. distance[u] + distance_prev[u] = (distance[x] + distance_prev[x]) + weight[<<x, u>>]
    BY <2>3, <2>8 DEF ReducedWeight
  <2>10. /\ S \subseteq R /\ u \notin S
         /\ <<u, x>> \in Carried => u \in R
    <3>1. /\ Returned(k)' = Returned(k) /\ examined_count \in Nat
          /\ pred'[u] = pred[u] /\ examined'[u] = examined_count + 1 /\ Carried' = Carried
      BY <1>1, <2>4, ExaminedBefore
    <3>2. S \subseteq R
      BY <1>5, <2>4, <2>5, <3>1 DEF Returned
    <3>3. examined[u] = 0
      BY <1>1 DEF TreeOK
    <3>4. u \notin S
      BY <2>4, <2>5, <3>3 DEF Returned
    <3>5. <<u, x>> \in Carried => u \in R
      BY <1>5, <2>1, <2>2, <3>1 DEF Returned
    <3>6. QED
      BY <3>2, <3>4, <3>5
  <2>11. /\ Cardinality(S) <= Cardinality(R)
         /\ <<u, x>> \in Carried => Cardinality(S) + 1 <= Cardinality(R)
    <3>1. Cardinality(S) <= Cardinality(R)
      BY <1>6, <2>10, FS_Subset
    <3>2. ASSUME <<u, x>> \in Carried PROVE Cardinality(S) + 1 <= Cardinality(R)
      <4>1. S \cup {u} \subseteq R
        BY <2>10, <3>2
      <4>2. Cardinality(S \cup {u}) <= Cardinality(R)
        BY <1>6, <4>1, FS_Subset
      <4>3. Cardinality(S \cup {u}) = Cardinality(S) + 1
        BY <2>6, <2>10, FS_AddElement
      <4>4. QED
        BY <4>2, <4>3
    <3>3. QED
      BY <3>1, <3>2
  <2>12. PICK c \in Nat, d \in Nat : c = Cardinality(S) /\ d = Cardinality(R)
    BY <1>6, <2>6
  <2>13. PICK w \in Int, y \in Int, z \in Int :
           /\ w = weight[<<x, u>>] /\ y = distance[x] + distance_prev[x]
           /\ z = distance[u] + distance_prev[u] /\ z = y + w
    BY <2>8, <2>9
  <2>14. \/ Ahead(x) = 0 /\ Ahead(u) = 1 /\ w <= m
         \/ Ahead(x) = Ahead(u) /\ w = 0
         \/ Ahead(x) = 1 /\ Ahead(u) = 0 /\ w <= 0 /\ <<u, x>> \in Carried
    BY <1>1, <1>7, <1>10, <2>3, <2>13, ResidualAhead
  <2>15. CASE Ahead(x) = 0 /\ Ahead(u) = 1 /\ w <= m
    <3>1. y <= c * m
      BY <2>7, <2>12, <2>13, <2>15
    <3>2. c * m \in Nat /\ (c + 1) * m = c * m + m /\ (c + 1) * m <= (d + 1) * m
      BY <2>11, <2>12, Multiples
    <3>3. z <= (d + 1) * m
      <4>1. (d + 1) * m \in Nat
        BY Multiples
      <4>2. QED
        BY <2>13, <2>15, <3>1, <3>2, <4>1
    <3>4. d + 1 = Ahead(u) + Cardinality(R)
      BY <2>12, <2>15
    <3>5. QED
      BY <1>5, <1>7, <2>13, <3>3, <3>4
  <2>16. CASE Ahead(x) = Ahead(u) /\ w = 0
    <3>1. PICK i \in Nat, j \in Nat : i = Ahead(u) + c /\ j = Ahead(u) + d
      BY <1>8
    <3>2. i <= j
      BY <1>8, <2>11, <2>12, <3>1
    <3>3. i * m \in Nat /\ j * m \in Nat /\ i * m <= j * m
      BY <3>2, Multiples
    <3>4. y <= i * m
      BY <2>7, <2>12, <2>13, <2>16, <3>1
    <3>5. z <= j * m
      BY <2>13, <2>16, <3>3, <3>4
    <3>6. QED
      BY <1>5, <1>7, <2>12, <2>13, <3>1, <3>5
  <2>17. CASE Ahead(x) = 1 /\ Ahead(u) = 0 /\ w <= 0 /\ <<u, x>> \in Carried
    <3>1. PICK i \in Nat : i = 1 + c
      OBVIOUS
    <3>2. i <= d
      BY <2>11, <2>12, <2>17, <3>1
    <3>3. i * m \in Nat /\ d * m \in Nat /\ i * m <= d * m
      BY <3>2, Multiples
    <3>4. y <= i * m
      BY <2>7, <2>12, <2>13, <2>17, <3>1
    <3>5. z <= d * m
      BY <2>13, <2>17, <3>3, <3>4
    <3>6. Ahead(u) + Cardinality(R) = d
      BY <2>12, <2>17
    <3>7. QED
      BY <1>5, <1>7, <2>13, <3>5, <3>6
  <2>18. QED
    BY <2>14, <2>15, <2>16, <2>17
<1>11. QED
  BY <1>9, <1>10

\* So the bound holds of the vertices examined then.
LEMMA ExamineKeepsShortPaths ==
  ASSUME NEW W \in Nat, PathsFit(W), ReachInvariant(W),
         NEW u \in Vertices, ExamineVertex(u)
  PROVE  ShortPathsOK'
<1>1. PotentialInvariant(W) /\ ShortPathsOK /\ pc = "search"
  BY DEF ReachInvariant, ExamineVertex
<1>2. LargestWeight' = LargestWeight
  BY SameBounds DEF Next
<1>3. \A v : Ahead(v)' = Ahead(v)
  BY DEF Ahead
<1>4. ASSUME NEW v \in Examined'
      PROVE  (distance[v] + distance_prev[v]
                <= (Ahead(v) + Cardinality(Returned(examined[v]))) * LargestWeight)'
  <2>1. CASE v = u
    <3>1. /\ distance'[v] = distance[u] /\ distance_prev'[v] = distance_prev[u]
          /\ examined'[v] = examined_count + 1
      BY <1>1, <2>1, ExaminedBefore
    <3>2. PICK n : n = examined_count + 1
      OBVIOUS
    <3>3. distance[u] + distance_prev[u]
            <= (Ahead(u) + Cardinality(Returned(n)')) * LargestWeight
      BY <3>2, ExaminedPath
    <3>4. Returned(examined[v])' = Returned(n)'
      BY <3>1, <3>2 DEF Returned
    <3>5. QED
      BY <1>2, <1>3, <2>1, <3>1, <3>3, <3>4
  <2>2. CASE v # u
    <3>1. v \in Examined /\ v \in Vertices
      BY <1>1, <1>4, <2>2, ExaminedBefore
    <3>2. /\ distance'[v] = distance[v] /\ distance_prev'[v] = distance_prev[v]
          /\ examined'[v] = examined[v] /\ examined[v] \in 1 .. examined_count
          /\ examined_count \in Nat
      BY <1>1, <2>2, <3>1, ExaminedBefore
    <3>3. PICK n \in 0 .. examined_count : n = examined[v]
      BY <3>2
    <3>4. Returned(n)' = Returned(n)
      BY <1>1, ExaminedBefore
    <3>5. distance[v] + distance_prev[v]
            <= (Ahead(v) + Cardinality(Returned(n))) * LargestWeight
      BY <1>1, <3>1, <3>3 DEF ShortPathsOK
    <3>6. Returned(examined[v])' = Returned(n)'
      BY <3>2, <3>3 DEF Returned
    <3>7. QED
      BY <1>2, <1>3, <3>2, <3>4, <3>5, <3>6
  <2>3. QED
    BY <2>1, <2>2
<1>5. QED
  BY <1>4 DEF ShortPathsOK

\* Nothing changes for the live vertices, unless the potentials do; a search goes on
\* among them.
LEMMA SearchKeepsShortPotentials ==
  ASSUME NEW W \in Nat, PathsFit(W), ReachInvariant(W),
         StartSearch \/ (\E u \in Vertices : ExamineVertex(u))
  PROVE  ShortPotentialsOK'
<1>1. [Next]_vars /\ LongestPath' = LongestPath
  <2>1. [Next]_vars
    BY DEF Next
  <2>2. QED
    BY <2>1, SameBounds
<1>2. PotentialInvariant(W) /\ pc \in {"start", "search"}
  BY DEF ReachInvariant, StartSearch, SearchWith, ExamineVertex
<1>3. PICK L \in SUBSET Vertices :
        /\ Live(L) /\ \A v \in L : distance_prev[v] <= LongestPath
        /\ pc = "search" => Seen \subseteq L
  BY <1>2 DEF ReachInvariant, ShortPotentialsOK
<1>4. distance_prev' = distance_prev /\ residual_capacity' = residual_capacity
      /\ weight' = weight
  BY DEF StartSearch, SearchWith, ExamineVertex, input
<1>5. Live(L)' /\ \A v \in L : distance_prev'[v] <= LongestPath'
  BY <1>1, <1>3, <1>4, SameLive
<1>6. pc' = "search" /\ Seen' \subseteq L
  <2>1. CASE StartSearch
    <3>1. pc' = "search" /\ Seen' = {s_id}
      BY <2>1 DEF StartSearch, SearchWith, Seen, Examined
    <3>2. QED
      BY <1>3, <3>1 DEF Live
  <2>2. ASSUME NEW u \in Vertices, ExamineVertex(u) PROVE pc' = "search" /\ Seen' \subseteq L
    <3>1. pc' = "search" /\ pc = "search" /\ u \in queue
      BY <1>2, <2>2, ExamineStep DEF ExamineVertex
    <3>2. Examined' = Examined \cup {u} /\ queue' \subseteq queue \cup Successors(u)
      BY <1>2, <2>2, ExaminedBefore DEF ExamineVertex, Successors
    <3>3. u \in L /\ Seen \subseteq L
      BY <1>3, <3>1 DEF Seen
    <3>4. Successors(u) \subseteq L
      BY <1>3, <3>3 DEF Live, Successors
    <3>5. QED
      BY <3>1, <3>2, <3>3, <3>4 DEF Seen
  <2>3. QED
    BY <2>1, <2>2
<1>7. QED
  BY <1>5, <1>6 DEF ShortPotentialsOK

\* At the end of a search that reached t, the potentials of the examined vertices
\* become the weights of the paths to them.
LEMMA UpdateKeepsShortPotentials ==
  ASSUME NEW W \in Nat, PathsFit(W), ReachInvariant(W), UpdatePotentials
  PROVE  ShortPotentialsOK'
<1>1. LongestPath' = LongestPath
  BY SameBounds DEF Next
<1>2. /\ PotentialInvariant(W) /\ FlowInvariant /\ TypeOK /\ ShortPathsOK /\ pc = "search"
      /\ pc' = "augment"
  BY DEF ReachInvariant, PotentialInvariant, FlowInvariant, UpdatePotentials, AugmentWith
<1>3. PICK X : X = Examined
  OBVIOUS
<1>4. /\ X \in SUBSET Vertices /\ Live(X)'
      /\ \A v \in X : distance_prev'[v] = distance_prev[v] + distance[v]
      /\ \A v \in Vertices : pred'[v] # NoVertex =>
           v \in X /\ pred'[v] \in X /\ ReducedWeight(pred[v], v)' = 0
  BY <1>2, <1>3, UpdatedPotentials
<1>5. ASSUME NEW v \in X PROVE distance_prev'[v] <= LongestPath
  <2>1. PICK R : R = Returned(examined[v])
    OBVIOUS
  <2>2. /\ Cardinality(R) \in Nat /\ Cardinality(R) <= successive_flow_value
        /\ successive_flow_value \in Nat
    BY <1>2, <2>1, ReturnsFit, CarriedFits
  <2>3. PICK m \in Nat : m = LargestWeight
    BY <1>2, LargestWeightIs
  <2>4. PICK c \in Nat, n \in Nat :
          c = Ahead(v) + Cardinality(R) /\ n = successive_flow_value + 1 /\ c <= n
    <3>1. Ahead(v) \in {0, 1}
      BY DEF Ahead
    <3>2. QED
      BY <2>2, <3>1
  <2>5. c * m \in Nat /\ n * m \in Nat /\ c * m <= n * m
    BY <2>4, Multiples
  <2>6. distance[v] + distance_prev[v] <= c * m
    BY <1>2, <1>3, <2>1, <2>3, <2>4 DEF ShortPathsOK
  <2>7. distance[v] \in Int /\ distance_prev[v] \in Int
    BY <1>2, <1>4 DEF TypeOK
  <2>8. LongestPath = n * m
    BY <2>3, <2>4 DEF LongestPath
  <2>9. QED
    BY <1>4, <2>5, <2>6, <2>7, <2>8
<1>6. QED
  BY <1>1, <1>2, <1>4, <1>5 DEF ShortPotentialsOK

\* A walk leaves the potentials as they are.
LEMMA PushFlowKeepsShortPotentials ==
  ASSUME NEW W \in Nat, ReachInvariant(W), PushFlow
  PROVE  ShortPotentialsOK'
<1>1. LongestPath' = LongestPath
  BY SameBounds DEF Next
<1>2. /\ PotentialInvariant(W) /\ pc = "augment" /\ pc' \in {"start", "augment"}
      /\ pred' = pred /\ distance_prev' = distance_prev
  BY DEF ReachInvariant, PushFlow, PushWith, search
<1>3. PICK L \in SUBSET Vertices :
        /\ Live(L) /\ \A v \in L : distance_prev[v] <= LongestPath
        /\ \A v \in Vertices : pred[v] # NoVertex =>
             v \in L /\ pred[v] \in L /\ ReducedWeight(pred[v], v) = 0
  BY <1>2 DEF ReachInvariant, ShortPotentialsOK
<1>4. Live(L)' /\ \A x, y : ReducedWeight(x, y)' = ReducedWeight(x, y)
  BY <1>2, <1>3, PushFlowKeepsLive
<1>5. \A v \in L : distance_prev'[v] <= LongestPath'
  BY <1>1, <1>2, <1>3
<1>6. \A v \in Vertices : pred'[v] # NoVertex =>
        v \in L /\ pred'[v] \in L /\ ReducedWeight(pred[v], v)' = 0
  BY <1>2, <1>3, <1>4
<1>7. QED
  BY <1>2, <1>4, <1>5, <1>6 DEF ShortPotentialsOK

\* What the invariant says of the potentials.
LEMMA ReachedFit ==
  ASSUME NEW W \in Nat, ReachInvariant(W)
  PROVE  ReachedPotentialsFit
<1>1. /\ TypeOK /\ TreeOK /\ PotentialInvariant(W) /\ ShortPotentialsOK
      /\ pc \in {"start", "search", "augment", "extract", "done"}
  BY DEF ReachInvariant, PotentialInvariant, FlowInvariant, TypeOK, NeverNegativeEdge
<1>2. CASE pc \in {"extract", "done"}
  BY <1>1, <1>2 DEF ShortPotentialsOK
<1>3. CASE pc \in {"start", "search", "augment"}
  <2>1. PICK L \in SUBSET Vertices :
          /\ Live(L) /\ \A v \in L : distance_prev[v] <= LongestPath
          /\ pc = "search" => Seen \subseteq L
          /\ pc \in {"start", "augment"} =>
               \A v \in Vertices : pred[v] # NoVertex => v \in L
    BY <1>1, <1>3 DEF ShortPotentialsOK
  <2>2. ASSUME NEW v \in Vertices, pred[v] # NoVertex
        PROVE  distance_prev[v] \in 0 .. LongestPath
    <3>1. v \in Seen
      BY <1>1, <2>2 DEF TreeOK, Seen, Examined
    <3>2. v \in L
      BY <1>3, <2>1, <2>2, <3>1
    <3>3. distance_prev[v] \in Int /\ distance_prev[v] >= 0
      BY <1>1, <2>1, <3>2 DEF TypeOK, Live
    <3>4. LongestPath \in Int
      <4>1. LargestWeight \in Nat /\ successive_flow_value \in Nat
        BY <1>1, LargestWeightIs, SmallerSide, SizeAssumption
      <4>2. QED
        BY <4>1 DEF LongestPath
    <3>5. QED
      BY <2>1, <3>2, <3>3, <3>4
  <2>3. QED
    BY <2>2 DEF ReachedPotentialsFit
<1>4. QED
  BY <1>1, <1>2, <1>3

\* All steps together.
LEMMA StepKeepsReach ==
  ASSUME NEW W \in Nat, PathsFit(W), ReachInvariant(W), [Next]_vars
  PROVE  ReachInvariant(W)'
<1>1. PotentialInvariant(W) /\ PotentialInvariant(W)' /\ NetworkOK'
  BY StepKeepsPotentials, StepKeepsNetwork DEF ReachInvariant
<1>2. LongestPath' = LongestPath /\ LargestWeight' = LargestWeight
  BY SameBounds
<1>3. CASE StartSearch
  <2>1. Examined' = {}
    BY <1>3 DEF Examined, StartSearch, SearchWith
  <2>2. ShortPathsOK'
    BY <2>1 DEF ShortPathsOK
  <2>3. QED
    BY <1>1, <1>3, <2>2, SearchKeepsShortPotentials DEF ReachInvariant
<1>4. ASSUME NEW u \in Vertices, ExamineVertex(u) PROVE ReachInvariant(W)'
  BY <1>1, <1>4, ExamineKeepsShortPaths, SearchKeepsShortPotentials DEF ReachInvariant
<1>5. CASE UpdatePotentials
  <2>1. ShortPathsOK'
    BY <1>5 DEF ShortPathsOK, UpdatePotentials, AugmentWith
  <2>2. QED
    BY <1>1, <1>5, <2>1, UpdateKeepsShortPotentials DEF ReachInvariant
<1>6. CASE PushFlow
  <2>1. ShortPathsOK'
    BY <1>6 DEF ShortPathsOK, PushFlow, PushWith
  <2>2. QED
    BY <1>1, <1>6, <2>1, PushFlowKeepsShortPotentials DEF ReachInvariant
<1>7. CASE StopSearching \/ Extract
  <2>1. ReachedPotentialsFit
    BY ReachedFit
  <2>2. /\ pc' \in {"extract", "done"}
        /\ distance_prev' = distance_prev /\ pred' = pred
    BY <1>7 DEF StopSearching, Extract, search
  <2>3. ReachedPotentialsFit'
    BY <1>2, <2>1, <2>2 DEF ReachedPotentialsFit
  <2>4. QED
    BY <1>1, <2>2, <2>3 DEF ReachInvariant, ShortPathsOK, ShortPotentialsOK
<1>8. CASE UNCHANGED vars
  <2>1. /\ pc' = pc /\ distance' = distance /\ distance_prev' = distance_prev
        /\ pred' = pred /\ queue' = queue /\ examined' = examined /\ weight' = weight
        /\ residual_capacity' = residual_capacity /\ edges' = edges
    BY <1>8 DEF vars
  <2>2. FlowArcs' = FlowArcs /\ Carried' = Carried /\ Examined' = Examined /\ Seen' = Seen
    BY <2>1, SameFlow DEF Carried, Examined, Seen
  <2>3. ShortPathsOK'
    BY <1>2, <2>1, <2>2 DEF ReachInvariant, ShortPathsOK, Returned, Ahead
  <2>4. ShortPotentialsOK'
    BY <1>2, <2>1, <2>2 DEF ReachInvariant, ShortPotentialsOK, Live, ReducedWeight,
                            ReachedPotentialsFit
  <2>5. QED
    BY <1>1, <2>3, <2>4 DEF ReachInvariant
<1>9. QED
  BY <1>3, <1>4, <1>5, <1>6, <1>7, <1>8 DEF Next

-----------------------------------------------------------------------------
\* A potential that a search can meet is that of a path which crosses from one side to
\* the other once more than there are members of the smaller side, at most; so no sum
\* that is used overflows if the largest weight, that many times, fits in an int.
THEOREM ReachedPotentialsStayShort ==
  ASSUME NEW C \in Nat, CostValues \subseteq -C .. C, PathsFit(ToInt(3 * C))
  PROVE  Spec => []ReachedPotentialsFit
<1>1. ToInt(3 * C) \in Nat
  BY RoundingIsMonotonic
<1>2. ASSUME NEW W \in Nat, W = ToInt(3 * C) PROVE Init => ReachInvariant(W)
  <2>1. SUFFICES ASSUME Init PROVE ReachInvariant(W)
    OBVIOUS
  <2>2. PotentialInvariant(W) /\ NetworkOK
    BY <1>2, <2>1, InitPotentials DEF Init, NetworkOK
  <2>3. /\ pc = "start" /\ \A v \in Vertices : distance_prev[v] = 0 /\ pred[v] = NoVertex
    BY <2>1 DEF Init
  <2>4. LongestPath \in Nat
    <3>1. LargestWeight \in Nat /\ successive_flow_value \in Nat
      BY <2>2, LargestWeightIs, SmallerSide, SizeAssumption
    <3>2. QED
      BY <3>1, Multiples DEF LongestPath
  <2>5. PICK L \in SUBSET Vertices : Live(L)
    BY <2>2, <2>3 DEF PotentialInvariant, LiveOK
  <2>6. QED
    BY <2>2, <2>3, <2>4, <2>5 DEF ReachInvariant, ShortPathsOK, ShortPotentialsOK
<1>3. ReachInvariant(ToInt(3 * C)) /\ [Next]_vars => ReachInvariant(ToInt(3 * C))'
  BY <1>1, StepKeepsReach
<1>4. ReachInvariant(ToInt(3 * C)) => ReachedPotentialsFit
  BY <1>1, ReachedFit
<1>5. Init => ReachInvariant(ToInt(3 * C))
  BY <1>1, <1>2
<1>6. QED
  BY <1>3, <1>4, <1>5, PTL DEF Spec
=============================================================================
