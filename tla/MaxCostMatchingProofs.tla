------------------------ MODULE MaxCostMatchingProofs ------------------------
(***************************************************************************)
(* What TLAPS proves of the steps of MaxCostMatching, for all sizes, costs *)
(* and graphs.  Part 1: the flow stays a matching and nobody's place is    *)
(* taken away.  Part 2: as long as the weight of every path fits in an     *)
(* int, no search meets an arc of negative reduced weight, whatever the    *)
(* int additions that overflow yield.  Part 3: every search reaches t      *)
(* until the whole smaller side is on paths of the flow.                   *)
(***************************************************************************)
EXTENDS MaxCostMatching, FiniteSums

-----------------------------------------------------------------------------
(* The inductive invariant. *)

\* s, or a vertex that an arc of the search tree leads to.
Reached(v) == v = s_id \/ pred[v] # NoVertex

\* The residual network is the network with the arcs that carry flow reversed.
ResidualOK ==
  /\ residual_capacity \subseteq Arcs(edges) \cup {rev(a) : a \in Arcs(edges)}
  /\ \A a \in Arcs(edges) : (a \in residual_capacity) # (rev(a) \in residual_capacity)

\* pred is a tree: on the way from a vertex to s every vertex was examined
\* before the one it leads to.
TreeOK ==
  /\ pred[s_id] = NoVertex
  /\ \A v \in Vertices : pred[v] # NoVertex =>
       /\ examined[pred[v]] > 0
       /\ Reached(pred[v])
       /\ v \in queue \/ examined[v] > 0
       /\ examined[v] > 0 => examined[pred[v]] < examined[v]
  /\ \A v \in Vertices : examined[v] <= examined_count
  /\ \A v \in queue : examined[v] = 0

\* During a search only reached vertices have a distance, s is examined first,
\* and the tree consists of arcs with residual capacity.
SearchOK ==
  pc = "search" =>
    /\ \A v \in Vertices : distance[v] <= IntMax
    /\ \A v \in Vertices : distance[v] < IntMax => Reached(v)
    /\ examined[s_id] = 0 => queue = {s_id}
    /\ \A v \in Vertices : pred[v] # NoVertex => <<pred[v], v>> \in residual_capacity

\* The walk is at a reached vertex that t was reached through, and what is left
\* of its way to s has residual capacity.
WalkOK ==
  pc = "augment" =>
    /\ queue = {}
    /\ pred[t_id] # NoVertex
    /\ pred[u_path] # NoVertex
    /\ examined[u_path] <= examined[t_id]
    /\ \A v \in Vertices :
         pred[v] # NoVertex /\ examined[v] <= examined[u_path] =>
           <<pred[v], v>> \in residual_capacity

\* A pupil passes on at most the one unit of flow it gets from s, the arc to h
\* apart.
PupilBalanced(p, h) ==
  /\ \A v, w \in Vertices \ {h} : <<p, v>> \in FlowArcs /\ <<p, w>> \in FlowArcs => v = w
  /\ \A v \in Vertices \ {h} : <<p, v>> \in FlowArcs => <<s_id, p>> \in FlowArcs

\* A student gets at most the one unit of flow it passes on to t.
StudentBalanced(v) ==
  /\ \A p, q \in Vertices : <<p, v>> \in FlowArcs /\ <<q, v>> \in FlowArcs => p = q
  /\ \A p \in Vertices : <<p, v>> \in FlowArcs => <<v, t_id>> \in FlowArcs

\* Flow is conserved, except where the walk is: there a pupil passes on one unit
\* too many, to the vertex h the walk comes from, and a student passes on one
\* unit that it does not get.
BalanceOK ==
  /\ \A p \in PupilIds : ~(pc = "augment" /\ u_path = p) => PupilBalanced(p, NoVertex)
  /\ \A v \in StudentVertices : ~(pc = "augment" /\ u_path = v) => StudentBalanced(v)
  /\ pc = "augment" /\ u_path \in PupilIds =>
       \E h \in Vertices : /\ <<u_path, h>> \in FlowArcs
                           /\ examined[h] > examined[u_path]
                           /\ PupilBalanced(u_path, h)
  /\ pc = "augment" /\ u_path \in StudentVertices =>
       /\ \A p \in Vertices : <<p, u_path>> \notin FlowArcs
       /\ <<u_path, t_id>> \in FlowArcs

\* The inductive invariant behind TypeOK, FlowIsMatching and CoveredForever.
FlowInvariant ==
  TypeOK /\ ResidualOK /\ TreeOK /\ SearchOK /\ WalkOK /\ BalanceOK

-----------------------------------------------------------------------------
(* The network. *)

\* The vertices are the pupils, the students, s and t, which all differ.
LEMMA VertexKinds ==
  /\ Vertices = PupilIds \cup StudentVertices \cup {s_id, t_id}
  /\ Vertices \subseteq Int
  /\ PupilIds \cap StudentVertices = {}
  /\ {s_id, t_id} \cap (PupilIds \cup StudentVertices) = {}
  /\ s_id # t_id
  /\ NoVertex \notin Vertices
<1>1. StudentVertices = NumPupils .. (s_id - 1)
  BY SizeAssumption DEF StudentVertices, StudentVertex, StudentIds, s_id
<1>2. QED
  BY <1>1, SizeAssumption DEF Vertices, PupilIds, s_id, t_id, NoVertex

\* The kinds of arcs: no arc leads into s or out of t.
LEMMA ArcKinds ==
  ASSUME NEW E \in SUBSET (PupilIds \X StudentIds), NEW u, NEW v,
         <<u, v>> \in Arcs(E)
  PROVE  \/ u = s_id /\ v \in PupilIds \cup StudentVertices
         \/ u \in PupilIds \cup StudentVertices /\ v = t_id
         \/ u \in PupilIds /\ v \in StudentVertices
<1>1. CASE <<u, v>> \in EdgeArcs(E)
  BY <1>1 DEF EdgeArcs, EdgeArc, StudentVertices
<1>2. CASE <<u, v>> \in SourceArcs
  BY <1>2 DEF SourceArcs
<1>3. CASE <<u, v>> \in SinkArcs
  BY <1>3 DEF SinkArcs, StudentVertices
<1>4. CASE <<u, v>> \in DummyArcs
  BY <1>4 DEF DummyArcs, StudentVertices
<1>5. QED
  BY <1>1, <1>2, <1>3, <1>4 DEF Arcs

\* An arc is the pair of its end vertices.
LEMMA ArcsArePairs ==
  ASSUME NEW E \in SUBSET (PupilIds \X StudentIds), NEW a \in Arcs(E)
  PROVE  a = <<a[1], a[2]>>
  BY DEF Arcs, EdgeArcs, EdgeArc, SourceArcs, SinkArcs, DummyArcs

\* No arc is a loop or the reverse of another.
LEMMA ArcsAreAntisymmetric ==
  ASSUME NEW E \in SUBSET (PupilIds \X StudentIds), NEW u, NEW v,
         <<u, v>> \in Arcs(E)
  PROVE  /\ u \in Vertices /\ v \in Vertices /\ u # v
         /\ <<v, u>> \notin Arcs(E)
<1>1. u \in Vertices /\ v \in Vertices /\ u # v
  BY ArcKinds, VertexKinds
<1>2. ASSUME <<v, u>> \in Arcs(E) PROVE FALSE
  <2>1. \/ v = s_id /\ u \in PupilIds \cup StudentVertices
        \/ v \in PupilIds \cup StudentVertices /\ u = t_id
        \/ v \in PupilIds /\ u \in StudentVertices
    BY <1>2, ArcKinds
  <2>2. QED
    BY <2>1, ArcKinds, VertexKinds
<1>3. QED
  BY <1>1, <1>2

-----------------------------------------------------------------------------
(* The residual network. *)

\* A residual arc <<u, v>> is an arc without flow or the reverse of one with flow.
LEMMA ResidualArcs ==
  ASSUME TypeOK, ResidualOK, NEW u, NEW v, <<u, v>> \in residual_capacity
  PROVE  /\ u \in Vertices /\ v \in Vertices /\ u # v
         /\ \/ <<u, v>> \in Arcs(edges) /\ <<u, v>> \notin FlowArcs
                                       /\ <<v, u>> \notin Arcs(edges)
            \/ <<v, u>> \in FlowArcs /\ <<u, v>> \notin Arcs(edges)
<1>1. edges \in SUBSET (PupilIds \X StudentIds)
  BY DEF TypeOK
<1>2. <<u, v>> \in Arcs(edges) \/ <<v, u>> \in Arcs(edges)
  <2>1. CASE <<u, v>> \in Arcs(edges)
    BY <2>1
  <2>2. CASE <<u, v>> \notin Arcs(edges)
    <3>1. PICK a \in Arcs(edges) : <<u, v>> = rev(a)
      BY <2>2 DEF ResidualOK
    <3>2. a = <<a[1], a[2]>>
      BY <1>1, ArcsArePairs
    <3>3. a[1] = v /\ a[2] = u
      BY <3>1 DEF rev
    <3>4. QED
      BY <3>2, <3>3
  <2>3. QED
    BY <2>1, <2>2
<1>3. CASE <<u, v>> \in Arcs(edges)
  BY <1>1, <1>3, ArcsAreAntisymmetric DEF FlowArcs
<1>4. CASE <<v, u>> \in Arcs(edges)
  <2>1. u \in Vertices /\ v \in Vertices /\ u # v /\ <<u, v>> \notin Arcs(edges)
    BY <1>1, <1>4, ArcsAreAntisymmetric
  <2>2. rev(<<v, u>>) = <<u, v>>
    BY DEF rev
  <2>3. <<v, u>> \notin residual_capacity
    BY <1>4, <2>2 DEF ResidualOK
  <2>4. QED
    BY <1>4, <2>1, <2>3 DEF FlowArcs
<1>5. QED
  BY <1>2, <1>3, <1>4

\* Pushing one unit along a residual arc <<u, v>> puts flow on it, or takes the
\* flow off its reverse, and changes no other arc.
LEMMA Push ==
  ASSUME TypeOK, ResidualOK, NEW u, NEW v, <<u, v>> \in residual_capacity,
         residual_capacity' = (residual_capacity \ {<<u, v>>}) \cup {<<v, u>>},
         edges' = edges
  PROVE  /\ ResidualOK'
         /\ <<u, v>> \in Arcs(edges) => FlowArcs' = FlowArcs \cup {<<u, v>>}
         /\ <<u, v>> \notin Arcs(edges) => FlowArcs' = FlowArcs \ {<<v, u>>}
<1>1. edges \in SUBSET (PupilIds \X StudentIds)
  BY DEF TypeOK
<1>2. Arcs(edges)' = Arcs(edges)
  BY DEF Arcs, EdgeArcs
<1>3. \A a \in Arcs(edges) : a = <<a[1], a[2]>> /\ rev(a) = <<a[2], a[1]>>
  BY <1>1, ArcsArePairs DEF rev
<1>4. u # v
  BY ResidualArcs
<1>5. \A x, y : rev(<<x, y>>) = <<y, x>>
  BY DEF rev
<1>6. ASSUME NEW a \in Arcs(edges)
      PROVE  (a \in residual_capacity') # (rev(a) \in residual_capacity')
  <2>1. (a \in residual_capacity) # (rev(a) \in residual_capacity)
    BY DEF ResidualOK
  <2>2. PICK x, y : a = <<x, y>>
    BY <1>3
  <2>3. rev(a) = <<y, x>>
    BY <1>5, <2>2
  <2>4. QED
    BY <1>4, <2>1, <2>2, <2>3
<1>7. residual_capacity' \subseteq Arcs(edges) \cup {rev(a) : a \in Arcs(edges)}
  <2>1. <<v, u>> \in Arcs(edges) \/ <<u, v>> \in Arcs(edges)
    BY ResidualArcs DEF FlowArcs
  <2>2. <<v, u>> \in Arcs(edges) \cup {rev(a) : a \in Arcs(edges)}
    BY <1>5, <2>1
  <2>3. QED
    BY <2>2 DEF ResidualOK
<1>8. ResidualOK'
  BY <1>2, <1>6, <1>7 DEF ResidualOK
<1>9. CASE <<u, v>> \in Arcs(edges)
  <2>1. <<v, u>> \notin Arcs(edges)
    BY <1>1, <1>9, ArcsAreAntisymmetric
  <2>2. QED
    BY <1>2, <1>4, <1>8, <1>9, <2>1 DEF FlowArcs
<1>10. CASE <<u, v>> \notin Arcs(edges)
  <2>1. <<v, u>> \in FlowArcs
    BY <1>10, ResidualArcs
  <2>2. QED
    BY <1>2, <1>8, <1>10, <2>1 DEF FlowArcs
<1>11. QED
  BY <1>8, <1>9, <1>10

-----------------------------------------------------------------------------
(* The weights. *)

\* Max is defined for every finite set of integers with an element.  Were it
\* not, a smallest such set would have none; but one element less leaves a set
\* with a maximum.
LEMMA MaxOfFiniteSet ==
  ASSUME NEW S \in SUBSET Int, IsFiniteSet(S), S # {}
  PROVE  Max(S) \in S /\ \A y \in S : y <= Max(S)
<1> DEFINE HasMax(R) == \E x \in R : \A y \in R : x >= y
           Bad == {n \in Nat : \E R \in SUBSET S :
                                 R # {} /\ Cardinality(R) = n /\ ~HasMax(R)}
<1>1. ASSUME Bad # {} PROVE FALSE
  <2>1. PICK n \in Bad : \A m \in Bad : ~ (<<m, n>> \in OpToRel(<, Nat))
    <3>1. Bad \subseteq Nat
      OBVIOUS
    <3>2. QED
      BY <1>1, <3>1, NatLessThanWellFounded, WFMin
  <2>2. PICK R \in SUBSET S : R # {} /\ Cardinality(R) = n /\ ~HasMax(R)
    OBVIOUS
  <2>3. PICK x \in R : TRUE
    BY <2>2
  <2> DEFINE Q == R \ {x}
  <2>4. IsFiniteSet(R) /\ IsFiniteSet(Q)
    BY FS_Subset
  <2>5. Cardinality(Q) \in Nat /\ Cardinality(Q) < n
    BY <2>2, <2>3, <2>4, FS_RemoveElement, FS_CardinalityType
  <2>6. Cardinality(Q) \notin Bad
    <3>1. n \in Nat
      OBVIOUS
    <3>2. <<Cardinality(Q), n>> \in OpToRel(<, Nat)
      BY <2>5, <3>1 DEF OpToRel
    <3>3. QED
      BY <2>1, <3>2
  <2>7. CASE Q = {}
    BY <2>2, <2>3, <2>7
  <2>8. CASE Q # {}
    <3>1. HasMax(Q)
      BY <2>5, <2>6, <2>8
    <3>2. PICK q \in Q : \A y \in Q : q >= y
      BY <3>1
    <3>3. CASE q >= x
      BY <2>2, <3>2, <3>3
    <3>4. CASE ~(q >= x)
      BY <2>2, <2>3, <3>2, <3>4
    <3>5. QED
      BY <3>3, <3>4
  <2>9. QED
    BY <2>7, <2>8
<1>2. HasMax(S)
  <2>1. Cardinality(S) \in Nat /\ Cardinality(S) \notin Bad
    BY <1>1, FS_CardinalityType
  <2>2. QED
    BY <2>1
<1>3. QED
  BY <1>2 DEF Max

\* There is a largest cost of an edge, or 0, in every graph.
LEMMA AdditionalCostType ==
  ASSUME NEW E \in SUBSET (PupilIds \X StudentIds), NEW c \in [E -> Int]
  PROVE  additional_cost(E, c) \in Int
<1> DEFINE C == {c[e] : e \in E}
<1>1. IsFiniteSet(PupilIds) /\ IsFiniteSet(StudentIds)
  BY FS_Interval, SizeAssumption DEF PupilIds, StudentIds
<1>2. IsFiniteSet(E)
  BY <1>1, FS_Product, FS_Subset
<1>3. IsFiniteSet(C)
  <2>1. c \in Surjection(E, C)
    BY DEF Surjection
  <2>2. QED
    BY <1>2, <2>1, FS_Surjection
<1>4. IsFiniteSet({0} \cup C)
  BY <1>3, FS_Singleton, FS_Union
<1>5. Max({0} \cup C) \in Int
  BY <1>4, MaxOfFiniteSet
<1>6. QED
  BY <1>5 DEF additional_cost, maximum_edge_weight

\* The int weights are defined for every graph.
LEMMA WeightType ==
  ASSUME NEW E \in SUBSET (PupilIds \X StudentIds), NEW c \in [E -> Int]
  PROVE  NetworkWeights(E, c) \in [Arcs(E) \cup {rev(a) : a \in Arcs(E)} -> Int]
<1>1. additional_cost(E, c) \in Int
  BY AdditionalCostType
<1>2. ASSUME NEW a PROVE ArcCost(E, c, a) \in Int
  <2>1. CASE a \in EdgeArcs(E)
    <3>1. \E e \in E : EdgeArc(e) = a
      BY <2>1 DEF EdgeArcs
    <3>2. (CHOOSE e \in E : EdgeArc(e) = a) \in E
      BY <3>1
    <3>3. c[CHOOSE e \in E : EdgeArc(e) = a] \in Int
      BY <3>2
    <3>4. QED
      BY <1>1, <2>1, <3>3 DEF ArcCost
  <2>2. CASE a \notin EdgeArcs(E)
    BY <1>1, <2>2 DEF ArcCost
  <2>3. QED
    BY <2>1, <2>2
<1>3. \A x \in Int : ToInt(x) \in Int
  BY ScaleAssumption DEF ToInt
<1>4. \A a : ToInt(ArcCost(E, c, a)) \in Int /\ -ToInt(ArcCost(E, c, a)) \in Int
  BY <1>2, <1>3
<1>5. QED
  BY <1>4 DEF NetworkWeights

-----------------------------------------------------------------------------
(* The invariant holds initially. *)

LEMMA InitInvariant ==
  ASSUME Init
  PROVE  FlowInvariant
<1>1. edges \in SUBSET (PupilIds \X StudentIds) /\ cost \in [edges -> Int]
  BY CostAssumption DEF Init
<1>2. TypeOK
  <2>1. weight \in [Arcs(edges) \cup {rev(a) : a \in Arcs(edges)} -> Int]
    BY <1>1, WeightType DEF Init
  <2>2. t_id \in Vertices
    BY VertexKinds
  <2>3. QED
    BY <1>1, <2>1, <2>2, IntAssumption DEF Init, TypeOK
<1>3. ResidualOK
  <2>1. ASSUME NEW a \in Arcs(edges) PROVE rev(a) \notin Arcs(edges)
    <3>1. a = <<a[1], a[2]>>
      BY <1>1, ArcsArePairs
    <3>2. QED
      BY <1>1, <3>1, ArcsAreAntisymmetric DEF rev
  <2>2. QED
    BY <2>1 DEF Init, ResidualOK
<1>4. TreeOK /\ SearchOK /\ WalkOK
  BY VertexKinds DEF Init, TreeOK, SearchOK, WalkOK
<1>5. BalanceOK
  BY DEF Init, BalanceOK, FlowArcs, PupilBalanced, StudentBalanced
<1>6. QED
  BY <1>2, <1>3, <1>4, <1>5 DEF FlowInvariant

-----------------------------------------------------------------------------
(* The steps of a search. *)

\* A step that leaves the residual network alone leaves the flow alone.
LEMMA SameFlow ==
  ASSUME edges' = edges, residual_capacity' = residual_capacity
  PROVE  Arcs(edges)' = Arcs(edges) /\ FlowArcs' = FlowArcs
  BY DEF FlowArcs, Arcs, EdgeArcs

LEMMA StartSearchKeeps ==
  ASSUME FlowInvariant, StartSearch
  PROVE  FlowInvariant'
<1>1. TypeOK'
  BY VertexKinds, IntAssumption, SameFlow DEF FlowInvariant, TypeOK, StartSearch, SearchWith, NoPredecessors, input, result
<1>2. ResidualOK'
  BY SameFlow DEF FlowInvariant, ResidualOK, StartSearch, SearchWith, NoPredecessors, input
<1>3. TreeOK' /\ SearchOK' /\ WalkOK'
  BY VertexKinds, IntAssumption
  DEF StartSearch, SearchWith, NoPredecessors, TreeOK, SearchOK, WalkOK, Reached
<1>4. BalanceOK'
  BY SameFlow
  DEF FlowInvariant, BalanceOK, PupilBalanced, StudentBalanced, StartSearch, SearchWith, NoPredecessors, input
<1>5. QED
  BY <1>1, <1>2, <1>3, <1>4 DEF FlowInvariant

LEMMA ExamineVertexKeeps ==
  ASSUME TypeOK, ResidualOK, TreeOK, SearchOK, BalanceOK,
         NEW u \in Vertices, ExamineVertex(u)
  PROVE  FlowInvariant'
<1>1. examined[u] = 0 /\ u \in queue /\ pc = "search"
  BY DEF ExamineVertex, TreeOK
<1>2. \A v \in Vertices : <<u, v>> \in residual_capacity => v # u /\ <<u, v>> \in DOMAIN weight
  BY ResidualArcs DEF TypeOK
<1>3. \A v \in Vertices : pred[v] # NoVertex => pred[v] \in Vertices /\ pred[v] # v
  BY <1>1, ResidualArcs DEF TypeOK, SearchOK
<1>4. ASSUME NEW v \in Relaxed(u)
      PROVE  /\ v \in Vertices /\ v # u /\ v # s_id /\ examined[v] = 0
             /\ <<u, v>> \in residual_capacity
             /\ distance[u] < IntMax
             /\ distance[u] + ReducedWeight(u, v) < distance[v]
             /\ ReducedWeight(u, v) \in Int
  <2>1. v \in Vertices /\ <<u, v>> \in residual_capacity /\ examined[v] = 0
    BY DEF Relaxed, Successors
  <2>2. v # u /\ ReducedWeight(u, v) \in Int
    BY <1>2, <2>1 DEF ReducedWeight, TypeOK
  <2>3. distance[u] \in Int /\ distance[v] \in Int /\ distance[u] <= IntMax
        /\ distance[v] <= IntMax
    BY <1>1, <2>1 DEF TypeOK, SearchOK
  <2>4. distance[u] # IntMax
    BY <2>3, IntAssumption DEF Relaxed, ClosedPlus
  <2>5. v # s_id
    BY <1>1, <2>1, <2>2 DEF SearchOK
  <2>6. QED
    BY <2>1, <2>2, <2>3, <2>4, <2>5, IntAssumption DEF Relaxed, ClosedPlus
<1>5. TypeOK'
  <2>1. distance' \in [Vertices -> Int]
    <3>1. distance' = [v \in Vertices |-> IF v \in Relaxed(u)
                         THEN distance[u] + ReducedWeight(u, v) ELSE distance[v]]
      BY DEF ExamineVertex
    <3>2. \A v \in Relaxed(u) : ReducedWeight(u, v) \in Int
      BY <1>4
    <3>3. distance \in [Vertices -> Int]
      BY DEF TypeOK
    <3>4. QED
      BY <3>1, <3>2, <3>3
  <2>2. pred' \in [Vertices -> Vertices \cup {NoVertex}]
    BY DEF ExamineVertex, TypeOK
  <2>3. examined_count' \in Nat /\ examined' \in [Vertices -> Nat]
    BY DEF ExamineVertex, TypeOK
  <2>4. queue' \subseteq Vertices
    BY DEF ExamineVertex, TypeOK, Successors
  <2>5. Arcs(edges)' = Arcs(edges)
    BY SameFlow DEF ExamineVertex, input
  <2>6. QED
    BY <2>1, <2>2, <2>3, <2>4, <2>5 DEF ExamineVertex, TypeOK, input, result
<1>6. ResidualOK'
  BY SameFlow DEF ResidualOK, ExamineVertex, input
<1>7. TreeOK'
  <2>1. pred'[s_id] = NoVertex
    BY <1>4, VertexKinds DEF ExamineVertex, TreeOK
  <2>2. /\ examined' = [examined EXCEPT ![u] = examined_count + 1]
        /\ examined \in [Vertices -> Nat] /\ examined_count \in Nat
    BY DEF ExamineVertex, TypeOK
  <2>3. ASSUME NEW v \in Vertices, v \in Relaxed(u)
        PROVE  /\ pred'[v] = u
               /\ examined'[u] > 0
               /\ Reached(u)
               /\ v \in queue'
               /\ examined'[v] = 0
    <3>1. pred'[v] = u
      BY <2>3 DEF ExamineVertex
    <3>2. examined'[u] > 0 /\ examined'[v] = 0
      <4>1. v # u /\ examined[v] = 0
        BY <1>4, <2>3
      <4>2. QED
        BY <2>2, <4>1
    <3>3. Reached(u)
      BY <1>1, <1>4, <2>3 DEF SearchOK
    <3>4. v \in queue'
      BY <1>4, <2>3 DEF ExamineVertex, Relaxed, IsWhite
    <3>5. QED
      BY <3>1, <3>2, <3>3, <3>4
  <2>4. \A v \in Vertices : v \notin Relaxed(u) => pred'[v] = pred[v]
    BY DEF ExamineVertex, TypeOK
  <2>5. \A v \in Vertices : Reached(v) => Reached(v)'
    BY <2>3, <2>4, VertexKinds DEF Reached
  <2>6. ASSUME NEW v \in Vertices, v \notin Relaxed(u), pred[v] # NoVertex
        PROVE  /\ examined'[pred[v]] > 0
               /\ Reached(pred[v])
               /\ v \in queue' \/ examined'[v] > 0
               /\ examined'[v] > 0 => examined'[pred[v]] < examined'[v]
    <3>1. /\ examined[pred[v]] > 0
          /\ Reached(pred[v])
          /\ v \in queue \/ examined[v] > 0
          /\ examined[v] > 0 => examined[pred[v]] < examined[v]
          /\ examined[pred[v]] <= examined_count
      BY <1>3, <2>6 DEF TreeOK
    <3>2. pred[v] \in Vertices /\ pred[v] # u
      BY <1>1, <1>3, <2>6, <3>1
    <3>3. examined'[pred[v]] = examined[pred[v]]
      BY <2>2, <3>2
    <3>4. CASE v = u
      BY <2>2, <3>1, <3>2, <3>3, <3>4
    <3>5. CASE v # u
      <4>1. examined'[v] = examined[v]
        BY <2>2, <3>5
      <4>2. v \in queue => v \in queue'
        BY <3>5 DEF ExamineVertex
      <4>3. QED
        BY <3>1, <3>3, <4>1, <4>2
    <3>6. QED
      BY <3>1, <3>3, <3>4, <3>5
  <2>7. \A v \in Vertices : examined'[v] <= examined_count'
    <3>1. \A v \in Vertices : examined[v] <= examined_count
      BY DEF TreeOK
    <3>2. examined_count' = examined_count + 1
      BY DEF ExamineVertex
    <3>3. QED
      BY <2>2, <3>1, <3>2
  <2>8. \A v \in queue' : examined'[v] = 0
    <3>1. \A v \in queue' : v \in Vertices /\ v # u /\ examined[v] = 0
      BY <1>2 DEF ExamineVertex, TreeOK, Successors, IsWhite, TypeOK
    <3>2. QED
      BY <2>2, <3>1
  <2>9. ASSUME NEW v \in Vertices, pred'[v] # NoVertex
        PROVE  /\ examined'[pred'[v]] > 0
               /\ Reached(pred[v])'
               /\ v \in queue' \/ examined'[v] > 0
               /\ examined'[v] > 0 => examined'[pred'[v]] < examined'[v]
    <3>1. CASE v \in Relaxed(u)
      <4>1. pred'[v] = u /\ Reached(u)'
        BY <2>3, <2>5, <3>1
      <4>2. QED
        BY <2>3, <3>1, <4>1 DEF Reached
    <3>2. CASE v \notin Relaxed(u)
      <4>1. pred'[v] = pred[v] /\ pred[v] \in Vertices /\ Reached(pred[v])
        BY <1>3, <2>4, <2>6, <2>9, <3>2
      <4>2. Reached(pred[v])'
        BY <2>5, <4>1 DEF Reached
      <4>3. QED
        BY <2>6, <2>9, <3>2, <4>1, <4>2
    <3>3. QED
      BY <3>1, <3>2
  <2>10. QED
    BY <2>1, <2>7, <2>8, <2>9 DEF TreeOK
<1>8. SearchOK'
  <2>1. \A v \in Vertices : distance'[v] <= IntMax
    <3>1. distance' = [v \in Vertices |-> IF v \in Relaxed(u)
                         THEN distance[u] + ReducedWeight(u, v) ELSE distance[v]]
      BY DEF ExamineVertex
    <3>2. \A v \in Vertices : distance[v] \in Int /\ distance[v] <= IntMax
      BY <1>1 DEF SearchOK, TypeOK
    <3>3. \A v \in Relaxed(u) : distance[u] + ReducedWeight(u, v) < distance[v]
      BY <1>4
    <3>4. \A v \in Relaxed(u) : v \in Vertices /\ ReducedWeight(u, v) \in Int
      BY <1>4
    <3>5. QED
      BY <3>1, <3>2, <3>3, <3>4, IntAssumption
  <2>2. \A v \in Vertices : distance'[v] < IntMax => Reached(v)'
    BY <1>1, VertexKinds DEF ExamineVertex, SearchOK, TypeOK, Reached
  <2>3. examined'[s_id] # 0
    <3>1. examined[s_id] = 0 => u = s_id
      BY <1>1 DEF SearchOK
    <3>2. QED
      BY <3>1, VertexKinds DEF ExamineVertex, TypeOK
  <2>4. \A v \in Vertices : pred'[v] # NoVertex => <<pred'[v], v>> \in residual_capacity'
    BY <1>1, <1>4 DEF ExamineVertex, SearchOK, TypeOK
  <2>5. QED
    BY <2>1, <2>2, <2>3, <2>4 DEF SearchOK
<1>9. WalkOK' /\ BalanceOK'
  BY <1>1, SameFlow
  DEF WalkOK, BalanceOK, PupilBalanced, StudentBalanced, ExamineVertex, input
<1>10. QED
  BY <1>5, <1>6, <1>7, <1>8, <1>9 DEF FlowInvariant

LEMMA UpdatePotentialsKeeps ==
  ASSUME TypeOK, ResidualOK, TreeOK, SearchOK, BalanceOK, UpdatePotentials
  PROVE  FlowInvariant'
<1>1. TypeOK'
  <2>1. PICK overflow \in [{v \in Vertices : Overflows(v)} -> OverflowOutcomes] :
          distance_prev' = [v \in Vertices |->
            IF Overflows(v) THEN overflow[v] ELSE distance_prev[v] + distance[v]]
    BY DEF UpdatePotentials, AugmentWith, NewPotentials
  <2>2. \A v \in Vertices : Overflows(v) => overflow[v] \in Int
    BY IntAssumption
  <2>3. distance_prev' \in [Vertices -> Int]
    BY <2>1, <2>2 DEF TypeOK
  <2>4. QED
    BY <2>3, SameFlow, VertexKinds DEF TypeOK, UpdatePotentials, AugmentWith, NewPotentials, input, search, result
<1>2. ResidualOK'
  BY SameFlow DEF ResidualOK, UpdatePotentials, AugmentWith, NewPotentials, input
<1>3. TreeOK' /\ SearchOK'
  BY DEF TreeOK, SearchOK, Reached, UpdatePotentials, AugmentWith, NewPotentials, search
<1>4. WalkOK'
  <2>1. examined[t_id] \in Int
    BY VertexKinds DEF TypeOK
  <2>2. QED
    BY <2>1 DEF SearchOK, WalkOK, UpdatePotentials, AugmentWith, NewPotentials, search
<1>5. BalanceOK'
  <2>1. u_path' = t_id /\ pc = "search" /\ FlowArcs' = FlowArcs
    BY SameFlow DEF UpdatePotentials, AugmentWith, NewPotentials, input
  <2>2. QED
    BY <2>1, VertexKinds DEF BalanceOK, PupilBalanced, StudentBalanced
<1>6. QED
  BY <1>1, <1>2, <1>3, <1>4, <1>5 DEF FlowInvariant

-----------------------------------------------------------------------------
(* The steps of the walk from t back to s. *)

\* The walk is at w and goes on to u.
LEMMA WalkStep ==
  ASSUME TypeOK, ResidualOK, TreeOK, WalkOK, PushFlow,
         NEW w, w = u_path, NEW u, u = pred[w]
  PROVE  /\ w \in Vertices /\ u \in Vertices /\ w # u /\ w # s_id /\ u # t_id
         /\ <<u, w>> \in residual_capacity
         /\ examined[u] < examined[w] /\ examined[u] <= examined[t_id]
         /\ u # s_id => pred[u] # NoVertex
<1>1. w \in Vertices /\ u \in Vertices /\ u # NoVertex
  BY DEF TypeOK, WalkOK, PushFlow, PushWith
<1>2. examined[u] \in Nat /\ examined[w] \in Nat /\ examined[t_id] \in Nat
  BY <1>1, VertexKinds DEF TypeOK
<1>3. <<u, w>> \in residual_capacity /\ w # u
  <2>1. <<u, w>> \in residual_capacity
    BY <1>1, <1>2 DEF WalkOK, PushFlow, PushWith
  <2>2. QED
    BY <2>1, ResidualArcs
<1>4. examined[w] > 0 /\ examined[u] < examined[w] /\ examined[w] <= examined[t_id]
  BY <1>1 DEF TreeOK, WalkOK, PushFlow, PushWith
<1>5. u # t_id
  BY <1>2, <1>4
<1>6. w # s_id /\ (u # s_id => pred[u] # NoVertex)
  BY <1>1 DEF TreeOK, Reached
<1>7. QED
  BY <1>1, <1>2, <1>3, <1>4, <1>5, <1>6

\* The kinds of residual arcs that the walk can take.
LEMMA WalkArcs ==
  ASSUME TypeOK, ResidualOK, TreeOK, WalkOK, PushFlow,
         NEW w, w = u_path, NEW u, u = pred[w]
  PROVE  \/ /\ <<u, w>> \notin FlowArcs
            /\ FlowArcs' = FlowArcs \cup {<<u, w>>}
            /\ \/ u = s_id /\ w \in PupilIds
               \/ u = s_id /\ w \in StudentVertices
               \/ u \in PupilIds /\ w \in StudentVertices
               \/ u \in PupilIds /\ w = t_id
               \/ u \in StudentVertices /\ w = t_id
         \/ /\ <<w, u>> \in FlowArcs
            /\ FlowArcs' = FlowArcs \ {<<w, u>>}
            /\ w \in PupilIds /\ u \in StudentVertices
<1>1. edges \in SUBSET (PupilIds \X StudentIds)
  BY DEF TypeOK
<1>2. /\ <<u, w>> \in residual_capacity /\ w # s_id /\ u # t_id
  BY WalkStep
<1>3. residual_capacity' = (residual_capacity \ {<<u, w>>}) \cup {<<w, u>>} /\ edges' = edges
  BY DEF PushFlow, PushWith, input
<1>4. CASE <<u, w>> \in Arcs(edges)
  <2>1. <<u, w>> \notin FlowArcs /\ FlowArcs' = FlowArcs \cup {<<u, w>>}
    BY <1>2, <1>3, <1>4, ResidualArcs, Push DEF FlowArcs
  <2>2. QED
    BY <1>1, <1>4, <2>1, ArcKinds
<1>5. CASE <<u, w>> \notin Arcs(edges)
  <2>1. <<w, u>> \in FlowArcs /\ FlowArcs' = FlowArcs \ {<<w, u>>}
    BY <1>2, <1>3, <1>5, ResidualArcs, Push
  <2>2. <<w, u>> \in Arcs(edges)
    BY <2>1 DEF FlowArcs
  <2>3. QED
    BY <1>1, <1>2, <2>1, <2>2, ArcKinds
<1>6. QED
  BY <1>4, <1>5

\* The balance moves with the walk.
LEMMA WalkKeepsBalance ==
  ASSUME TypeOK, ResidualOK, TreeOK, WalkOK, BalanceOK, PushFlow,
         NEW w, w = u_path, NEW u, u = pred[w]
  PROVE  BalanceOK'
<1>1. /\ w \in Vertices /\ u \in Vertices /\ w # u /\ w # s_id /\ u # t_id
      /\ examined[u] < examined[w]
  BY WalkStep
<1>2. /\ u_path' = u /\ pc = "augment" /\ examined' = examined
      /\ pc' = IF u = s_id THEN "start" ELSE "augment"
  BY DEF PushFlow, PushWith, search
<1>3. \A x, y : x \notin {u, w} \/ y \notin {u, w} =>
                 (<<x, y>> \in FlowArcs' <=> <<x, y>> \in FlowArcs)
  <2>1. \/ FlowArcs' = FlowArcs \cup {<<u, w>>}
        \/ FlowArcs' = FlowArcs \ {<<w, u>>}
    BY WalkArcs
  <2>2. QED
    BY <2>1
<1>4. \A p \in PupilIds : p \notin {u, w} => PupilBalanced(p, NoVertex)'
  BY <1>2, <1>3 DEF BalanceOK, PupilBalanced
<1>5. \A v \in StudentVertices : v \notin {u, w} => StudentBalanced(v)'
  BY <1>2, <1>3 DEF BalanceOK, StudentBalanced
<1>6. /\ u \in PupilIds => PupilBalanced(u, NoVertex)
      /\ u \in StudentVertices => StudentBalanced(u)
  BY <1>1, <1>2 DEF BalanceOK
<1>7. /\ w \in PupilIds => \E h \in Vertices : /\ <<w, h>> \in FlowArcs
                                            /\ examined[h] > examined[w]
                                            /\ PupilBalanced(w, h)
      /\ w \in StudentVertices => /\ \A p \in Vertices : <<p, w>> \notin FlowArcs
                                 /\ <<w, t_id>> \in FlowArcs
  BY <1>2 DEF BalanceOK
<1>8. CASE /\ FlowArcs' = FlowArcs \cup {<<u, w>>} /\ <<u, w>> \notin FlowArcs
           /\ u = s_id /\ w \in PupilIds
  <2>1. PupilBalanced(w, NoVertex)'
    BY <1>1, <1>7, <1>8, VertexKinds DEF PupilBalanced
  <2>2. QED
    BY <1>2, <1>4, <1>5, <1>8, <2>1, VertexKinds DEF BalanceOK
<1>9. CASE /\ FlowArcs' = FlowArcs \cup {<<u, w>>} /\ <<u, w>> \notin FlowArcs
           /\ u = s_id /\ w \in StudentVertices
  <2>1. StudentBalanced(w)'
    BY <1>1, <1>7, <1>9 DEF StudentBalanced
  <2>2. QED
    BY <1>2, <1>4, <1>5, <1>9, <2>1, VertexKinds DEF BalanceOK
<1>10. CASE /\ FlowArcs' = FlowArcs \cup {<<u, w>>} /\ <<u, w>> \notin FlowArcs
            /\ u \in PupilIds /\ w \in StudentVertices \cup {t_id}
  <2>1. <<u, w>> \in FlowArcs' /\ PupilBalanced(u, w)'
    BY <1>1, <1>6, <1>10, VertexKinds DEF PupilBalanced
  <2>2. w \in StudentVertices => StudentBalanced(w)'
    BY <1>1, <1>7, <1>10, VertexKinds DEF StudentBalanced
  <2>3. QED
    BY <1>1, <1>2, <1>4, <1>5, <1>10, <2>1, <2>2, VertexKinds DEF BalanceOK
<1>11. CASE /\ FlowArcs' = FlowArcs \cup {<<u, w>>} /\ <<u, w>> \notin FlowArcs
            /\ u \in StudentVertices /\ w = t_id
  <2>1. <<u, t_id>> \in FlowArcs' /\ \A p \in Vertices : <<p, u>> \notin FlowArcs'
    BY <1>1, <1>6, <1>11 DEF StudentBalanced
  <2>2. QED
    BY <1>2, <1>4, <1>5, <1>11, <2>1, VertexKinds DEF BalanceOK
<1>12. CASE /\ FlowArcs' = FlowArcs \ {<<w, u>>} /\ <<w, u>> \in FlowArcs
            /\ w \in PupilIds /\ u \in StudentVertices
  <2>1. PICK h \in Vertices : /\ <<w, h>> \in FlowArcs
                              /\ examined[h] > examined[w]
                              /\ PupilBalanced(w, h)
    BY <1>7, <1>12
  <2>2. h # u
    <3>1. examined[h] \in Int /\ examined[w] \in Int /\ examined[u] \in Int
      BY <1>1 DEF TypeOK
    <3>2. QED
      BY <1>1, <2>1, <3>1
  <2>3. PupilBalanced(w, NoVertex)'
    BY <1>1, <1>12, <2>1, <2>2, VertexKinds DEF PupilBalanced
  <2>4. <<u, t_id>> \in FlowArcs' /\ \A p \in Vertices : <<p, u>> \notin FlowArcs'
    BY <1>1, <1>6, <1>12, VertexKinds DEF StudentBalanced
  <2>5. QED
    BY <1>2, <1>4, <1>5, <1>12, <2>3, <2>4, VertexKinds DEF BalanceOK
<1>13. QED
  BY <1>8, <1>9, <1>10, <1>11, <1>12, WalkArcs

LEMMA PushFlowKeeps ==
  ASSUME TypeOK, ResidualOK, TreeOK, SearchOK, WalkOK, BalanceOK, PushFlow
  PROVE  FlowInvariant'
<1>1. PICK w, u : w = u_path /\ u = pred[w]
  OBVIOUS
<1>2. /\ w \in Vertices /\ u \in Vertices /\ <<u, w>> \in residual_capacity
      /\ examined[u] < examined[w] /\ examined[u] <= examined[t_id]
      /\ u # s_id => pred[u] # NoVertex
  BY <1>1, WalkStep
<1>3. /\ residual_capacity' = (residual_capacity \ {<<u, w>>}) \cup {<<w, u>>}
      /\ u_path' = u /\ pc = "augment"
      /\ pc' = IF u = s_id THEN "start" ELSE "augment"
      /\ edges' = edges /\ weight' = weight /\ pred' = pred /\ queue' = queue
      /\ examined' = examined /\ examined_count' = examined_count
  BY <1>1 DEF PushFlow, PushWith, input, search
<1>4. ResidualOK'
  BY <1>2, <1>3, Push
<1>5. TypeOK'
  <2>1. Arcs(edges)' = Arcs(edges)
    BY <1>3 DEF Arcs, EdgeArcs
  <2>2. residual_capacity' \subseteq (DOMAIN weight)'
    BY <1>3, <1>4, <2>1 DEF TypeOK, ResidualOK
  <2>3. QED
    BY <1>2, <1>3, <2>1, <2>2 DEF TypeOK, PushFlow, PushWith, input, search, result
<1>6. TreeOK' /\ SearchOK'
  BY <1>3 DEF TreeOK, SearchOK, Reached
<1>7. WalkOK'
  <2>1. ASSUME NEW v \in Vertices, pred[v] # NoVertex, examined[v] <= examined[u]
        PROVE  <<pred[v], v>> \in residual_capacity'
    <3>1. examined[v] <= examined[w] /\ v # w
      BY <1>2, <2>1 DEF TypeOK
    <3>2. <<pred[v], v>> \in residual_capacity
      BY <1>1, <1>3, <2>1, <3>1 DEF WalkOK
    <3>3. QED
      BY <1>3, <3>1, <3>2
  <2>2. QED
    BY <1>2, <1>3, <2>1 DEF WalkOK
<1>8. BalanceOK'
  BY <1>1, WalkKeepsBalance
<1>9. QED
  BY <1>4, <1>5, <1>6, <1>7, <1>8 DEF FlowInvariant

-----------------------------------------------------------------------------
(* Every step keeps the invariant. *)

LEMMA StepKeepsInvariant ==
  ASSUME FlowInvariant, [Next]_vars
  PROVE  FlowInvariant'
<1>1. CASE StartSearch
  BY <1>1, StartSearchKeeps
<1>2. ASSUME NEW u \in Vertices, ExamineVertex(u) PROVE FlowInvariant'
  BY <1>2, ExamineVertexKeeps DEF FlowInvariant
<1>3. CASE StopSearching
  BY <1>3, SameFlow
  DEF FlowInvariant, TypeOK, ResidualOK, TreeOK, SearchOK, WalkOK, BalanceOK, Reached,
      PupilBalanced, StudentBalanced, StopSearching, input, search, result
<1>4. CASE UpdatePotentials
  BY <1>4, UpdatePotentialsKeeps DEF FlowInvariant
<1>5. CASE PushFlow
  BY <1>5, PushFlowKeeps DEF FlowInvariant
<1>6. CASE Extract
  <2>1. matching_edges' \subseteq edges
    BY <1>6 DEF Extract, MatchedEdges
  <2>2. QED
    BY <1>6, <2>1, SameFlow
    DEF FlowInvariant, TypeOK, ResidualOK, TreeOK, SearchOK, WalkOK, BalanceOK, Reached,
        PupilBalanced, StudentBalanced, Extract, input, search
<1>7. CASE UNCHANGED vars
  BY <1>7, SameFlow
  DEF FlowInvariant, TypeOK, ResidualOK, TreeOK, SearchOK, WalkOK, BalanceOK, Reached,
      PupilBalanced, StudentBalanced, vars, input, search, result
<1>8. QED
  BY <1>1, <1>2, <1>3, <1>4, <1>5, <1>6, <1>7 DEF Next

\* The inductive invariant holds in every reachable state.
THEOREM FlowInvariantHolds == Spec => []FlowInvariant
<1>1. Init => FlowInvariant
  BY InitInvariant
<1>2. FlowInvariant /\ [Next]_vars => FlowInvariant'
  BY StepKeepsInvariant
<1>3. QED
  BY <1>1, <1>2, PTL DEF Spec

\* Every variable keeps its type; in particular the walk back from t always
\* finds a predecessor and never leaves the network.
THEOREM TypeCorrect == Spec => []TypeOK
<1>1. FlowInvariant => TypeOK
  BY DEF FlowInvariant
<1>2. QED
  BY <1>1, FlowInvariantHolds, PTL

\* Balanced pupils and students are in one edge with flow at most.
LEMMA InvariantGivesMatching ==
  ASSUME FlowInvariant
  PROVE  FlowIsMatching
<1>1. SUFFICES ASSUME pc # "augment",
                      NEW e \in MatchedEdges, NEW f \in MatchedEdges,
                      e[1] = f[1] \/ e[2] = f[2]
               PROVE  e = f
  BY DEF FlowIsMatching, IsMatching
<1>2. /\ e = <<e[1], e[2]>> /\ e[1] \in PupilIds /\ e[2] \in StudentIds
      /\ f = <<f[1], f[2]>> /\ f[1] \in PupilIds /\ f[2] \in StudentIds
  BY <1>1 DEF MatchedEdges, FlowInvariant, TypeOK
<1> DEFINE x == StudentVertex(e[2])
           y == StudentVertex(f[2])
<1>3. /\ <<e[1], x>> \in FlowArcs /\ <<f[1], y>> \in FlowArcs
  BY <1>1 DEF MatchedEdges, FlowArcs, Arcs, EdgeArcs, EdgeArc
<1>4. /\ x \in StudentVertices /\ y \in StudentVertices
      /\ x \in Vertices \ {NoVertex} /\ y \in Vertices \ {NoVertex}
      /\ e[1] \in Vertices /\ f[1] \in Vertices
  BY <1>2, VertexKinds DEF StudentVertices
<1>5. /\ PupilBalanced(e[1], NoVertex)
      /\ StudentBalanced(x)
  BY <1>1, <1>2, <1>4 DEF FlowInvariant, BalanceOK
<1>6. x = y => e[2] = f[2]
  BY <1>2, SizeAssumption DEF StudentVertex, StudentIds
<1>7. CASE e[1] = f[1]
  <2>1. x = y
    BY <1>3, <1>4, <1>5, <1>7 DEF PupilBalanced
  <2>2. QED
    BY <1>2, <1>6, <1>7, <2>1
<1>8. CASE e[2] = f[2]
  <2>1. e[1] = f[1]
    BY <1>3, <1>4, <1>5, <1>8 DEF StudentBalanced
  <2>2. QED
    BY <1>2, <1>8, <2>1
<1>9. QED
  BY <1>1, <1>7, <1>8

\* The edges with flow never share a pupil or a student, whatever the weights
\* are and even if a sum overflowed.
THEOREM FlowStaysMatching == Spec => []FlowIsMatching
  BY InvariantGivesMatching, FlowInvariantHolds, PTL

\* An augmentation never takes the place of a pupil or a student away: the walk
\* does not cancel flow on an arc out of s or into t.
THEOREM PlacesAreKept == Spec => CoveredForever
<1> DEFINE Places == {a \in FlowArcs : a \in SourceArcs \cup SinkArcs}
<1>1. FlowInvariant /\ [Next]_vars => Places \subseteq FlowArcs'
  <2>1. SUFFICES ASSUME FlowInvariant, [Next]_vars PROVE Places \subseteq FlowArcs'
    OBVIOUS
  <2>2. CASE edges' = edges /\ residual_capacity' = residual_capacity
    BY <2>2, SameFlow
  <2>3. CASE PushFlow
    <3>1. PICK w, u : w = u_path /\ u = pred[w]
      OBVIOUS
    <3>2. w # s_id /\ u # t_id
      BY <2>1, <2>3, <3>1, WalkStep DEF FlowInvariant
    <3>3. <<w, u>> \notin SourceArcs \cup SinkArcs
      BY <3>2 DEF SourceArcs, SinkArcs
    <3>4. \/ FlowArcs' = FlowArcs \cup {<<u, w>>}
          \/ FlowArcs' = FlowArcs \ {<<w, u>>}
      BY <2>1, <2>3, <3>1, WalkArcs DEF FlowInvariant
    <3>5. QED
      BY <3>3, <3>4
  <2>4. CASE UNCHANGED vars
    BY <2>2, <2>4 DEF vars
  <2>5. CASE Next /\ ~PushFlow
    BY <2>2, <2>5
    DEF Next, StartSearch, SearchWith, NoPredecessors, ExamineVertex, StopSearching,
        UpdatePotentials, AugmentWith, NewPotentials, Extract, input
  <2>6. QED
    BY <2>1, <2>3, <2>4, <2>5
<1>2. QED
  BY <1>1, FlowInvariantHolds, PTL DEF CoveredForever, Spec

-----------------------------------------------------------------------------
(*****************************************************************************)
(* Part 2: the potentials.  W is a bound of the weights throughout.        *)
(*****************************************************************************)

(* The inductive invariant. *)

\* No path through the network weighs IntMax or more.
PathsFit(W) == Cardinality(Vertices) * W < IntMax

Examined == {v \in Vertices : examined[v] > 0}
Seen == queue \cup Examined

WeightsOK(W) ==
  \A a \in Arcs(edges) : weight[a] \in 0 .. W /\ weight[rev(a)] = -weight[a]

\* L holds s and what can be reached from it, and in L the potentials fit.  They
\* need not elsewhere, and after an overflow they do not.
Live(L) ==
  /\ s_id \in L /\ distance_prev[s_id] = 0
  /\ \A u \in L : distance_prev[u] >= 0
  /\ \A u \in L, v \in Vertices :
       <<u, v>> \in residual_capacity => v \in L /\ ReducedWeight(u, v) >= 0

\* A search stays among such vertices, and a walk follows arcs whose reduced
\* weight is 0, so that their reverse arcs have the same.
LiveOK ==
  pc \in {"start", "search", "augment"} =>
    \E L \in SUBSET Vertices :
      /\ Live(L)
      /\ pc = "search" => Seen \subseteq L
      /\ pc = "augment" =>
           \A v \in Vertices : pred[v] # NoVertex =>
             v \in L /\ pred[v] \in L /\ ReducedWeight(pred[v], v) = 0

\* s is seen, and all seen vertices have a distance and are reached.
SeenOK ==
  /\ s_id \in Seen /\ distance[s_id] = 0
  /\ \A v \in Vertices \ Seen : distance[v] = IntMax
  /\ \A v \in Seen : distance[v] \in 0 .. IntMax - 1 /\ (v # s_id => pred[v] # NoVertex)

\* The distances are those along the tree.  With the potentials they are the weight
\* of a path, which has at most as many arcs as vertices are examined.
PathsOK(W) ==
  \A v \in Vertices : pred[v] # NoVertex =>
    /\ distance[v] = distance[pred[v]] + ReducedWeight(pred[v], v)
    /\ distance[v] + distance_prev[v] <= examined[pred[v]] * W

\* The examined vertices have their final distances.
ExaminedOK ==
  /\ \A u \in Examined, v \in Vertices :
       <<u, v>> \in residual_capacity =>
         v \in Seen /\ distance[v] <= distance[u] + ReducedWeight(u, v)
  /\ \A u \in Examined, v \in queue : distance[u] <= distance[v]

DistancesOK(W) ==
  pc = "search" =>
    examined_count = Cardinality(Examined) /\ SeenOK /\ PathsOK(W) /\ ExaminedOK

PotentialInvariant(W) ==
  FlowInvariant /\ WeightsOK(W) /\ LiveOK /\ DistancesOK(W) /\ NeverNegativeEdge

-----------------------------------------------------------------------------
(* The weights. *)

\* Every residual arc weighs at most W, and its reverse weighs the opposite.
LEMMA ResidualWeights ==
  ASSUME FlowInvariant, NEW W \in Nat, WeightsOK(W),
         NEW u, NEW v, <<u, v>> \in residual_capacity
  PROVE  /\ u \in Vertices /\ v \in Vertices /\ u # v
         /\ weight[<<u, v>>] \in Int /\ weight[<<u, v>>] <= W
         /\ weight[<<v, u>>] = -weight[<<u, v>>]
         /\ ReducedWeight(u, v) \in Int
<1>1. u \in Vertices /\ v \in Vertices /\ u # v
  BY ResidualArcs DEF FlowInvariant
<1>2. \A x, y : rev(<<x, y>>) = <<y, x>>
  BY DEF rev
<1>3. <<u, v>> \in Arcs(edges) \/ <<v, u>> \in Arcs(edges)
  BY ResidualArcs DEF FlowInvariant, FlowArcs
<1>4. CASE <<u, v>> \in Arcs(edges)
  BY <1>1, <1>2, <1>4 DEF WeightsOK, ReducedWeight, FlowInvariant, TypeOK
<1>5. CASE <<v, u>> \in Arcs(edges)
  <2>1. weight[<<v, u>>] \in 0 .. W /\ weight[<<u, v>>] = -weight[<<v, u>>]
    BY <1>2, <1>5 DEF WeightsOK
  <2>2. QED
    BY <1>1, <2>1 DEF ReducedWeight, FlowInvariant, TypeOK
<1>6. QED
  BY <1>3, <1>4, <1>5

\* One more examined vertex makes a path longer by at most W.
LEMMA OneMoreArc ==
  ASSUME NEW k \in Nat, NEW n \in Nat, NEW W \in Nat, k + 1 <= n
  PROVE  /\ k * W \in Nat /\ k * W + W <= n * W
         /\ (k + 1) * W = k * W + W
         /\ \A j \in Nat : j <= k => j * W <= k * W
<1>1. \A x \in Nat : x * W \in Nat
  OBVIOUS
<1>2. \A x, y \in Nat : x * W + y * W = (x + y) * W
  OBVIOUS
<1>3. k * W + 1 * W = (k + 1) * W
  BY <1>2
<1>4. (k + 1) * W + (n - (k + 1)) * W = n * W
  BY <1>2
<1>5. (n - (k + 1)) * W \in Nat
  BY <1>1
<1>6. ASSUME NEW j \in Nat, j <= k PROVE j * W <= k * W
  <2>1. j * W + (k - j) * W = k * W
    BY <1>2, <1>6
  <2>2. j * W \in Nat /\ (k - j) * W \in Nat
    BY <1>1, <1>6
  <2>3. QED
    BY <2>1, <2>2
<1>7. QED
  BY <1>1, <1>3, <1>4, <1>5, <1>6

-----------------------------------------------------------------------------
(* The steps. *)

\* Whether L is live depends on the residual network and the potentials only.
LEMMA SameLive ==
  ASSUME NEW L, residual_capacity' = residual_capacity, distance_prev' = distance_prev,
         weight' = weight
  PROVE  /\ Live(L)' <=> Live(L)
         /\ \A u, v : ReducedWeight(u, v)' = ReducedWeight(u, v)
  BY DEF Live, ReducedWeight

\* The weights never change.
LEMMA SameWeights ==
  ASSUME NEW W, edges' = edges, weight' = weight, WeightsOK(W)
  PROVE  WeightsOK(W)'
  BY DEF WeightsOK, Arcs, EdgeArcs

\* A new search has reached s alone, with the potentials left as they were.
LEMMA StartSearchKeepsPotentials ==
  ASSUME NEW W \in Nat, PotentialInvariant(W), StartSearch
  PROVE  PotentialInvariant(W)'
<1>1. FlowInvariant' /\ WeightsOK(W)'
  BY StartSearchKeeps, SameWeights
  DEF PotentialInvariant, StartSearch, SearchWith, input
<1>2. Examined' = {} /\ Seen' = {s_id} /\ examined_count' = 0
  BY DEF Examined, Seen, StartSearch, SearchWith
<1>3. PICK L \in SUBSET Vertices : Live(L)
  BY DEF PotentialInvariant, LiveOK, StartSearch, SearchWith
<1>4. Live(L)' /\ Seen' \subseteq L /\ pc' = "search"
  BY <1>2, <1>3, SameLive DEF Live, StartSearch, SearchWith, input
<1>5. LiveOK'
  BY <1>4 DEF LiveOK
<1>6. DistancesOK(W)'
  <2>1. Cardinality(Examined') = 0
    BY <1>2, FS_EmptySet
  <2>2. SeenOK'
    BY <1>2, IntAssumption, VertexKinds DEF SeenOK, StartSearch, SearchWith
  <2>3. PathsOK(W)'
    BY DEF PathsOK, StartSearch, SearchWith, NoPredecessors
  <2>4. ExaminedOK'
    BY <1>2 DEF ExaminedOK
  <2>5. QED
    BY <1>2, <2>1, <2>2, <2>3, <2>4 DEF DistancesOK
<1>7. QED
  BY <1>1, <1>4, <1>5, <1>6 DEF PotentialInvariant, NeverNegativeEdge

\* What ExamineVertex does, in a search that has gone well so far.
LEMMA ExamineStep ==
  ASSUME NEW W \in Nat, PathsFit(W), PotentialInvariant(W),
         NEW u \in Vertices, ExamineVertex(u)
  PROVE  /\ u \in queue /\ u \notin Examined /\ pc' = "search"
         /\ distance[u] \in 0 .. IntMax - 1
         /\ distance_prev[u] >= 0
         /\ distance[u] + distance_prev[u] <= examined_count * W
         /\ examined_count \in Nat /\ examined_count + 1 <= Cardinality(Vertices)
         /\ Cardinality(Examined \cup {u}) = examined_count + 1
         /\ \A v \in Successors(u) :
              /\ ReducedWeight(u, v) \in Nat
              /\ distance[u] + ReducedWeight(u, v) < IntMax
              /\ distance[u] + ReducedWeight(u, v) + distance_prev[v]
                   <= (examined_count + 1) * W
              /\ v \in Relaxed(u) <=> /\ examined[v] = 0
                                      /\ distance[u] + ReducedWeight(u, v) < distance[v]
<1>1. u \in queue /\ u \notin Examined /\ pc = "search"
  BY DEF ExamineVertex, PotentialInvariant, FlowInvariant, TreeOK, Examined
<1>2. TypeOK /\ TreeOK /\ SeenOK /\ PathsOK(W) /\ examined_count = Cardinality(Examined)
  BY <1>1 DEF PotentialInvariant, FlowInvariant, DistancesOK
<1>3. PICK L \in SUBSET Vertices : Live(L) /\ Seen \subseteq L
  BY <1>1 DEF PotentialInvariant, LiveOK
<1>4. u \in L /\ u \in Seen
  BY <1>1, <1>3 DEF Seen
<1>5. \A v \in Successors(u) : v \in L /\ ReducedWeight(u, v) >= 0
  BY <1>3, <1>4 DEF Live, Successors
<1>6. distance[u] \in 0 .. IntMax - 1 /\ distance_prev[u] >= 0 /\ distance_prev[u] \in Int
  BY <1>2, <1>3, <1>4 DEF SeenOK, Live, TypeOK
<1>7. /\ examined_count \in Nat /\ examined_count + 1 <= Cardinality(Vertices)
      /\ Cardinality(Examined \cup {u}) = examined_count + 1
      /\ Cardinality(Vertices) \in Nat
  <2>1. IsFiniteSet(Vertices)
    BY FS_Interval, SizeAssumption DEF Vertices, t_id, s_id
  <2>2. Examined \subseteq Vertices /\ Examined \cup {u} \subseteq Vertices
    BY DEF Examined
  <2>3. IsFiniteSet(Examined)
    BY <2>1, <2>2, FS_Subset
  <2>4. Cardinality(Examined \cup {u}) = Cardinality(Examined) + 1
    BY <1>1, <2>3, FS_AddElement
  <2>5. Cardinality(Examined \cup {u}) <= Cardinality(Vertices)
    BY <2>1, <2>2, FS_Subset
  <2>6. QED
    BY <1>2, <2>1, <2>3, <2>4, <2>5, FS_CardinalityType
<1>8. distance[u] + distance_prev[u] <= examined_count * W
  <2>1. CASE u = s_id
    <3>1. distance[u] = 0 /\ distance_prev[u] = 0
      BY <1>2, <1>3, <2>1 DEF SeenOK, Live
    <3>2. QED
      BY <1>7, <3>1, OneMoreArc
  <2>2. CASE u # s_id
    <3>1. pred[u] # NoVertex /\ pred[u] \in Vertices
      BY <1>2, <1>4, <2>2 DEF SeenOK, TypeOK
    <3>2. examined[pred[u]] \in Nat /\ examined[pred[u]] <= examined_count
      BY <1>2, <3>1 DEF TreeOK, TypeOK
    <3>3. distance[u] + distance_prev[u] <= examined[pred[u]] * W
      BY <1>2, <3>1 DEF PathsOK
    <3>4. examined[pred[u]] * W <= examined_count * W
      BY <1>7, <3>2, OneMoreArc
    <3>5. examined[pred[u]] * W \in Nat /\ examined_count * W \in Nat
      BY <1>7, <3>2
    <3>6. QED
      BY <1>6, <3>3, <3>4, <3>5
  <2>3. QED
    BY <2>1, <2>2
<1>9. ASSUME NEW v \in Successors(u)
      PROVE  /\ ReducedWeight(u, v) \in Nat
             /\ distance[u] + ReducedWeight(u, v) < IntMax
             /\ distance[u] + ReducedWeight(u, v) + distance_prev[v]
                  <= (examined_count + 1) * W
  <2>1. <<u, v>> \in residual_capacity /\ v \in Vertices
    BY DEF Successors
  <2>2. weight[<<u, v>>] \in Int /\ weight[<<u, v>>] <= W /\ ReducedWeight(u, v) \in Int
    BY <2>1, ResidualWeights DEF PotentialInvariant
  <2>3. distance_prev[v] \in Int /\ distance_prev[v] >= 0
    BY <1>2, <1>3, <1>5, <2>1 DEF Live, TypeOK
  <2>4. ReducedWeight(u, v) \in Nat
    BY <1>5, <2>2
  <2>5. ReducedWeight(u, v) + distance_prev[v] = distance_prev[u] + weight[<<u, v>>]
    BY <1>6, <2>2, <2>3 DEF ReducedWeight
  <2>6. /\ examined_count * W \in Nat
        /\ examined_count * W + W <= Cardinality(Vertices) * W
        /\ (examined_count + 1) * W = examined_count * W + W
    BY <1>7, OneMoreArc
  <2>7. distance[u] + ReducedWeight(u, v) + distance_prev[v] <= examined_count * W + W
    BY <1>6, <1>8, <2>2, <2>3, <2>5, <2>6
  <2>8. Cardinality(Vertices) * W \in Nat
    BY <1>7
  <2>9. distance[u] + ReducedWeight(u, v) < IntMax
    BY <1>6, <2>2, <2>3, <2>6, <2>7, <2>8, IntAssumption DEF PathsFit
  <2>10. QED
    BY <2>4, <2>6, <2>7, <2>9
<1>10. pc' = "search"
  <2>1. ~MeetsNegativeEdge(u)
    BY <1>9 DEF MeetsNegativeEdge
  <2>2. QED
    BY <2>1 DEF ExamineVertex
<1>11. ASSUME NEW v \in Successors(u)
       PROVE  v \in Relaxed(u) <=> /\ examined[v] = 0
                                   /\ distance[u] + ReducedWeight(u, v) < distance[v]
  <2>1. ClosedPlus(distance[u], ReducedWeight(u, v)) = distance[u] + ReducedWeight(u, v)
    BY <1>6, <1>9, IntAssumption DEF ClosedPlus
  <2>2. QED
    BY <2>1 DEF Relaxed
<1>12. QED
  BY <1>1, <1>6, <1>7, <1>8, <1>9, <1>10, <1>11

\* Examining u gives its successors the lengths of paths over examined vertices,
\* none of which is shorter than the distance of u.
LEMMA ExamineVertexKeepsPotentials ==
  ASSUME NEW W \in Nat, PathsFit(W), PotentialInvariant(W),
         NEW u \in Vertices, ExamineVertex(u)
  PROVE  PotentialInvariant(W)'
<1>1. FlowInvariant' /\ WeightsOK(W)'
  BY ExamineVertexKeeps, SameWeights
  DEF PotentialInvariant, FlowInvariant, ExamineVertex, input
<1>2. /\ pc = "search" /\ pc' = "search" /\ u \in queue /\ u \notin Examined
      /\ distance[u] \in Nat /\ distance[u] < IntMax /\ examined_count \in Nat
  <2>1. distance[u] \in 0 .. IntMax - 1 /\ pc' = "search" /\ u \in queue /\ u \notin Examined
    BY ExamineStep
  <2>2. examined_count \in Nat
    BY ExamineStep
  <2>3. QED
    BY <2>1, <2>2, IntAssumption DEF ExamineVertex
<1>3. /\ TypeOK /\ TreeOK /\ SeenOK /\ PathsOK(W) /\ ExaminedOK
  BY <1>2 DEF PotentialInvariant, FlowInvariant, DistancesOK
<1>4. /\ residual_capacity' = residual_capacity /\ distance_prev' = distance_prev
      /\ weight' = weight
      /\ examined_count' = examined_count + 1
      /\ examined' = [examined EXCEPT ![u] = examined_count + 1]
      /\ queue' = (queue \ {u}) \cup {v \in Successors(u) : IsWhite(v)}
      /\ \A v \in Vertices :
           /\ distance'[v] = IF v \in Relaxed(u) THEN distance[u] + ReducedWeight(u, v)
                                                 ELSE distance[v]
           /\ pred'[v] = IF v \in Relaxed(u) THEN u ELSE pred[v]
  BY DEF ExamineVertex, input
<1>5. \A v, w : ReducedWeight(v, w)' = ReducedWeight(v, w)
  BY <1>4, SameLive
<1>6. Examined' = Examined \cup {u} /\ Seen' = Seen \cup Successors(u)
  <2>1. Examined' = Examined \cup {u}
    BY <1>2, <1>3, <1>4 DEF Examined, TypeOK
  <2>2. Successors(u) \subseteq Vertices
    BY DEF Successors
  <2>3. \A v \in Vertices : IsWhite(v) <=> v \notin Seen
    BY <1>3 DEF IsWhite, Seen, Examined, TypeOK
  <2>4. QED
    BY <1>2, <1>4, <2>1, <2>2, <2>3 DEF Seen
<1> DEFINE d(v) == distance[u] + ReducedWeight(u, v)
<1>7. \A v \in Successors(u) :
        /\ v \in Vertices /\ <<u, v>> \in residual_capacity
        /\ d(v) \in Nat /\ distance[u] <= d(v) /\ d(v) < IntMax
        /\ v \in Relaxed(u) <=> examined[v] = 0 /\ d(v) < distance[v]
  <2>1. TAKE v \in Successors(u)
  <2>2. v \in Vertices /\ <<u, v>> \in residual_capacity
    BY DEF Successors
  <2>3. ReducedWeight(u, v) \in Nat
    BY ExamineStep
  <2>4. d(v) < IntMax /\ (v \in Relaxed(u) <=> examined[v] = 0 /\ d(v) < distance[v])
    BY ExamineStep
  <2>5. QED
    BY <1>2, <2>2, <2>3, <2>4
<1> HIDE DEF d
<1>8. \A v \in Relaxed(u) :
        /\ v \in Successors(u) /\ v \in Vertices /\ examined[v] = 0
        /\ d(v) \in Nat /\ distance[u] <= d(v) /\ d(v) < IntMax /\ d(v) < distance[v]
  <2>1. Relaxed(u) \subseteq Successors(u)
    BY DEF Relaxed
  <2>2. QED
    BY <1>7, <2>1
<1>9. \A v \in Vertices : /\ distance[v] \in Int /\ examined[v] \in Nat
                        /\ distance'[v] = IF v \in Relaxed(u) THEN d(v) ELSE distance[v]
  BY <1>3, <1>4 DEF TypeOK, d
<1>10. LiveOK'
  <2>1. PICK L \in SUBSET Vertices : Live(L) /\ Seen \subseteq L
    BY <1>2 DEF PotentialInvariant, LiveOK
  <2>2. Successors(u) \subseteq L
    BY <1>2, <2>1 DEF Live, Successors, Seen
  <2>3. Live(L)' /\ Seen' \subseteq L
    BY <1>4, <1>6, <2>1, <2>2, SameLive
  <2>4. QED
    BY <1>2, <2>3 DEF LiveOK
<1>11. \A v \in Examined : v \notin Relaxed(u) /\ v \in Vertices
  BY <1>7, <1>8, <1>9 DEF Examined
<1>12. SeenOK'
  <2>1. s_id \in Seen' /\ distance'[s_id] = 0
    <3>1. s_id \notin Relaxed(u)
      BY <1>2, <1>3, <1>8 DEF SeenOK
    <3>2. QED
      BY <1>3, <1>4, <1>6, <3>1, VertexKinds DEF SeenOK
  <2>2. ASSUME NEW v \in Vertices \ Seen' PROVE distance'[v] = IntMax
    BY <1>3, <1>4, <1>6, <1>8, <2>2 DEF SeenOK
  <2>3. ASSUME NEW v \in Seen'
        PROVE  distance'[v] \in 0 .. IntMax - 1 /\ (v # s_id => pred'[v] # NoVertex)
    <3>1. v \in Vertices
      BY <1>3, <1>6, <1>7 DEF Seen, Examined, TypeOK
    <3>2. CASE v \in Relaxed(u)
      BY <1>4, <1>8, <1>9, <3>1, <3>2, VertexKinds, IntAssumption
    <3>3. CASE v \notin Relaxed(u)
      <4>1. v \in Seen
        <5>1. SUFFICES ASSUME v \notin Seen PROVE v \in Relaxed(u)
          BY <3>3
        <5>2. v \in Successors(u)
          BY <1>6, <5>1
        <5>3. distance[v] = IntMax
          BY <1>3, <3>1, <5>1 DEF SeenOK
        <5>4. examined[v] = 0
          BY <1>9, <3>1, <5>1 DEF Seen, Examined
        <5>5. QED
          BY <1>7, <5>2, <5>3, <5>4
      <4>2. QED
        BY <1>3, <1>4, <3>1, <3>3, <4>1 DEF SeenOK
    <3>4. QED
      BY <3>2, <3>3
  <2>4. QED
    BY <2>1, <2>2, <2>3 DEF SeenOK
<1>13. PathsOK(W)'
  <2>1. SUFFICES ASSUME NEW v \in Vertices, pred'[v] # NoVertex
                 PROVE  /\ distance'[v] = distance'[pred'[v]] + ReducedWeight(pred'[v], v)
                        /\ distance'[v] + distance_prev[v] <= examined'[pred'[v]] * W
    BY <1>4, <1>5 DEF PathsOK
  <2>2. CASE v \in Relaxed(u)
    <3>1. u \notin Relaxed(u)
      BY <1>2, <1>8
    <3>2. distance[u] + ReducedWeight(u, v) + distance_prev[v] <= (examined_count + 1) * W
      BY <1>8, <2>2, ExamineStep
    <3>3. pred'[v] = u /\ distance'[u] = distance[u] /\ examined'[u] = examined_count + 1
      BY <1>3, <1>4, <2>2, <3>1 DEF TypeOK
    <3>4. QED
      BY <1>4, <2>2, <3>2, <3>3
  <2>3. CASE v \notin Relaxed(u)
    <3>1. pred'[v] = pred[v] /\ pred[v] # NoVertex /\ distance'[v] = distance[v]
      BY <1>4, <2>1, <2>3
    <3>2. pred[v] \in Vertices /\ pred[v] \in Examined
      BY <1>3, <3>1 DEF TypeOK, TreeOK, Examined
    <3>3. distance'[pred[v]] = distance[pred[v]] /\ examined'[pred[v]] = examined[pred[v]]
      BY <1>2, <1>3, <1>4, <1>11, <3>2 DEF TypeOK
    <3>4. QED
      BY <1>3, <3>1, <3>3 DEF PathsOK
  <2>4. QED
    BY <2>2, <2>3
<1>14. ExaminedOK'
  <2>1. \A v \in Vertices : distance'[v] \in Int /\ distance'[v] <= distance[v]
    BY <1>8, <1>9
  <2>2. distance'[u] = distance[u] /\ \A x \in Examined : distance'[x] = distance[x]
    <3>1. u \notin Relaxed(u)
      BY <1>2, <1>8
    <3>2. QED
      BY <1>4, <1>11, <3>1
  <2>3. \A x \in Examined : distance[x] <= distance[u]
    BY <1>2, <1>3 DEF ExaminedOK
  <2>4. ASSUME NEW x \in Examined, NEW v \in Vertices, <<x, v>> \in residual_capacity
        PROVE  v \in Seen' /\ distance'[v] <= distance'[x] + ReducedWeight(x, v)
    <3>1. v \in Seen /\ distance[v] <= distance[x] + ReducedWeight(x, v)
      BY <1>3, <2>4 DEF ExaminedOK
    <3>2. ReducedWeight(x, v) \in Int
      BY <2>4, ResidualWeights DEF PotentialInvariant
    <3>3. QED
      BY <1>6, <1>9, <1>11, <2>1, <2>2, <3>1, <3>2
  <2>5. ASSUME NEW v \in Vertices, <<u, v>> \in residual_capacity
        PROVE  v \in Seen' /\ distance'[v] <= d(v)
    <3>1. v \in Successors(u)
      BY <2>5 DEF Successors
    <3>2. v \in Seen' /\ d(v) \in Nat /\ distance[u] <= d(v) /\ distance[v] \in Int
      BY <1>6, <1>7, <1>9, <3>1
    <3>3. CASE v \in Examined
      <4>1. distance'[v] = distance[v] /\ distance[v] <= distance[u]
        BY <2>2, <2>3, <3>3
      <4>2. QED
        BY <1>2, <3>2, <4>1
    <3>4. CASE v \in Relaxed(u)
      BY <1>9, <3>2, <3>4
    <3>5. CASE v \notin Examined /\ v \notin Relaxed(u)
      <4>1. examined[v] = 0
        BY <1>9, <3>5 DEF Examined
      <4>2. ~(d(v) < distance[v])
        BY <1>7, <3>1, <3>5, <4>1
      <4>3. distance'[v] = distance[v]
        BY <1>9, <3>5
      <4>4. QED
        BY <3>2, <4>2, <4>3
    <3>6. QED
      BY <3>3, <3>4, <3>5
  <2>6. ASSUME NEW x \in Examined', NEW v \in queue'
        PROVE  distance'[x] <= distance'[v]
    <3>1. x \in Vertices /\ v \in Vertices /\ distance'[x] = distance[x]
      BY <1>3, <1>4, <1>6, <1>7, <1>11, <2>2, <2>6 DEF TypeOK
    <3>2. distance[x] <= distance[u]
      BY <1>2, <1>6, <2>3, <2>6
    <3>3. distance[u] <= distance'[v]
      <4>1. CASE v \in Relaxed(u)
        BY <1>8, <1>9, <3>1, <4>1
      <4>2. CASE v \notin Relaxed(u) /\ v \in queue
        BY <1>4, <3>1, <4>2 DEF ExamineVertex, IsLeast
      <4>3. CASE v \notin Relaxed(u) /\ v \notin queue
        <5>1. v \in Successors(u) /\ examined[v] = 0
          BY <1>4, <4>3 DEF IsWhite
        <5>2. v \notin Seen
          BY <4>3, <5>1 DEF Seen, Examined
        <5>3. distance[v] = IntMax
          BY <1>3, <3>1, <5>2 DEF SeenOK
        <5>4. QED
          BY <1>7, <4>3, <5>1, <5>3
      <4>4. QED
        BY <4>1, <4>2, <4>3
    <3>4. QED
      BY <1>2, <1>9, <2>1, <3>1, <3>2, <3>3
  <2>7. \A v : d(v) = distance'[u] + ReducedWeight(u, v)
    BY <2>2 DEF d
  <2>8. QED
    BY <1>4, <1>5, <1>6, <2>4, <2>5, <2>6, <2>7 DEF ExaminedOK
<1>15. DistancesOK(W)'
  BY <1>4, <1>6, <1>12, <1>13, <1>14, ExamineStep DEF DistancesOK
<1>16. QED
  BY <1>1, <1>2, <1>10, <1>15 DEF PotentialInvariant, NeverNegativeEdge

\* A vertex that the search has reached gets a potential that does not overflow,
\* and the arcs between such vertices keep reduced weights of 0 or more.
LEMMA UpdatedPotentials ==
  ASSUME NEW W \in Nat, PotentialInvariant(W), UpdatePotentials, NEW X, X = Examined
  PROVE  /\ X \in SUBSET Vertices
         /\ Live(X)'
         /\ \A v \in X : distance_prev'[v] = distance_prev[v] + distance[v]
         /\ \A v \in Vertices : pred'[v] # NoVertex =>
              v \in X /\ pred'[v] \in X /\ ReducedWeight(pred[v], v)' = 0
<1>1. FlowInvariant'
  BY UpdatePotentialsKeeps
  DEF PotentialInvariant, FlowInvariant, UpdatePotentials, AugmentWith, input
<1>2. pc = "search" /\ pc' = "augment" /\ queue = {} /\ Seen = Examined
  BY DEF UpdatePotentials, AugmentWith, Seen
<1>3. TypeOK /\ TreeOK /\ SearchOK /\ SeenOK /\ PathsOK(W) /\ ExaminedOK
  BY <1>2 DEF PotentialInvariant, FlowInvariant, DistancesOK
<1>4. PICK L \in SUBSET Vertices : Live(L) /\ Examined \subseteq L
  BY <1>2 DEF PotentialInvariant, LiveOK
<1>5. /\ residual_capacity' = residual_capacity /\ weight' = weight
      /\ pred' = pred /\ examined' = examined
  BY DEF UpdatePotentials, AugmentWith, input, search
<1>6. \A v \in Examined :
        /\ distance_prev'[v] = distance_prev[v] + distance[v]
        /\ distance_prev[v] \in Nat /\ distance[v] \in Nat
  <2>1. TAKE v \in Examined
  <2>2. v \in Vertices /\ distance[v] \in Nat /\ distance[v] # IntMax
    BY <1>2, <1>3, IntAssumption DEF SeenOK, Examined
  <2>3. distance_prev[v] \in Nat
    BY <1>3, <1>4, <2>2 DEF Live, TypeOK
  <2>4. QED
    BY <2>2, <2>3 DEF UpdatePotentials, AugmentWith, NewPotentials, Overflows
<1>7. ASSUME NEW u \in Examined, NEW v \in Examined, <<u, v>> \in residual_capacity
      PROVE  ReducedWeight(u, v)' = ReducedWeight(u, v) + distance[u] - distance[v]
             /\ ReducedWeight(u, v) \in Int
  <2>1. weight[<<u, v>>] \in Int
    BY <1>7, ResidualWeights DEF PotentialInvariant
  <2>2. QED
    BY <1>5, <1>6, <2>1 DEF ReducedWeight
<1>8. Live(X)'
  <2>1. s_id \in Examined /\ distance_prev'[s_id] = 0
    BY <1>2, <1>3, <1>4, <1>6 DEF SeenOK, Live
  <2>2. \A u \in Examined : distance_prev'[u] >= 0
    BY <1>6
  <2>3. ASSUME NEW u \in Examined, NEW v \in Vertices, <<u, v>> \in residual_capacity
        PROVE  v \in Examined /\ ReducedWeight(u, v)' >= 0
    <3>1. v \in Examined /\ distance[v] <= distance[u] + ReducedWeight(u, v)
      BY <1>2, <1>3, <2>3 DEF ExaminedOK
    <3>2. distance[u] \in Nat /\ distance[v] \in Nat
      BY <1>6, <3>1
    <3>3. QED
      BY <1>7, <2>3, <3>1, <3>2
  <2>4. QED
    BY <1>5, <2>1, <2>2, <2>3 DEF Live
<1>9. ASSUME NEW v \in Vertices, NEW p \in Vertices, pred[v] = p
      PROVE  v \in Examined /\ p \in Examined /\ ReducedWeight(p, v)' = 0
  <2>1. pred[v] # NoVertex
    BY <1>9, VertexKinds
  <2>2. v \in Examined /\ p \in Examined
    BY <1>2, <1>3, <1>9, <2>1 DEF TreeOK, Examined
  <2>3. <<p, v>> \in residual_capacity
    BY <1>2, <1>3, <1>9, <2>1 DEF SearchOK
  <2>4. distance[v] = distance[p] + ReducedWeight(p, v)
    BY <1>3, <1>9, <2>1 DEF PathsOK
  <2>5. distance[v] \in Nat /\ distance[p] \in Nat
    BY <1>6, <2>2
  <2>6. /\ ReducedWeight(p, v)' = ReducedWeight(p, v) + distance[p] - distance[v]
        /\ ReducedWeight(p, v) \in Int
    BY <1>7, <2>2, <2>3
  <2>7. QED
    BY <2>2, <2>4, <2>5, <2>6
<1>10. ASSUME NEW v \in Vertices, pred'[v] # NoVertex
       PROVE  v \in X /\ pred'[v] \in X /\ ReducedWeight(pred[v], v)' = 0
  <2>1. pred'[v] \in Vertices
    BY <1>1, <1>10 DEF FlowInvariant, TypeOK
  <2>2. PICK p \in Vertices : p = pred'[v] /\ p = pred[v]
    BY <1>5, <2>1
  <2>3. ReducedWeight(p, v)' = 0 /\ p \in Examined /\ v \in Examined
    BY <1>9, <2>2
  <2>4. QED
    BY <2>2, <2>3 DEF ReducedWeight
<1>11. X \in SUBSET Vertices
  BY DEF Examined
<1>12. QED
  BY <1>6, <1>8, <1>10, <1>11

\* So the examined vertices are live.
LEMMA UpdatePotentialsKeepsPotentials ==
  ASSUME NEW W \in Nat, PotentialInvariant(W), UpdatePotentials
  PROVE  PotentialInvariant(W)'
<1>1. FlowInvariant' /\ WeightsOK(W)'
  BY UpdatePotentialsKeeps, SameWeights
  DEF PotentialInvariant, FlowInvariant, UpdatePotentials, AugmentWith, input
<1>2. pc' = "augment"
  BY DEF UpdatePotentials, AugmentWith
<1>3. PICK X : X = Examined
  OBVIOUS
<1>4. LiveOK'
  BY <1>2, <1>3, UpdatedPotentials DEF LiveOK
<1>5. QED
  BY <1>1, <1>2, <1>4 DEF PotentialInvariant, DistancesOK, NeverNegativeEdge

\* Both directions of an arc of reduced weight 0 may be in the residual network.
LEMMA PushFlowKeepsLive ==
  ASSUME NEW W \in Nat, PotentialInvariant(W), PushFlow,
         NEW L \in SUBSET Vertices, Live(L),
         \A v \in Vertices : pred[v] # NoVertex =>
           v \in L /\ pred[v] \in L /\ ReducedWeight(pred[v], v) = 0
  PROVE  Live(L)' /\ \A x, y : ReducedWeight(x, y)' = ReducedWeight(x, y)
<1>1. pc = "augment"
  BY DEF PushFlow, PushWith
<1>2. PICK w, u : w = u_path /\ u = pred[w]
  OBVIOUS
<1>3. /\ w \in Vertices /\ u \in Vertices /\ <<u, w>> \in residual_capacity
      /\ pred[w] # NoVertex
  BY <1>1, <1>2, WalkStep DEF PotentialInvariant, FlowInvariant, WalkOK
<1>4. /\ residual_capacity' = (residual_capacity \ {<<u, w>>}) \cup {<<w, u>>}
      /\ weight' = weight /\ distance_prev' = distance_prev /\ pred' = pred
  BY <1>2 DEF PushFlow, PushWith, input, search
<1>5. \A x, y : ReducedWeight(x, y)' = ReducedWeight(x, y)
  BY <1>4 DEF ReducedWeight
<1>6. ReducedWeight(w, u) = 0
  <2>1. ReducedWeight(u, w) = 0
    BY <1>2, <1>3
  <2>2. weight[<<u, w>>] \in Int /\ weight[<<w, u>>] = -weight[<<u, w>>]
    BY <1>3, ResidualWeights DEF PotentialInvariant
  <2>3. distance_prev[u] \in Int /\ distance_prev[w] \in Int
    BY <1>3 DEF PotentialInvariant, FlowInvariant, TypeOK
  <2>4. QED
    BY <2>1, <2>2, <2>3 DEF ReducedWeight
<1>7. Live(L)'
  <2>1. ASSUME NEW x \in L, NEW y \in Vertices, <<x, y>> \in residual_capacity'
        PROVE  y \in L /\ ReducedWeight(x, y) >= 0
    <3>1. CASE <<x, y>> = <<w, u>>
      <4>1. x = w /\ y = u
        BY <3>1
      <4>2. QED
        BY <1>2, <1>3, <1>6, <4>1
    <3>2. CASE <<x, y>> # <<w, u>>
      BY <1>4, <2>1, <3>2 DEF Live
    <3>3. QED
      BY <3>1, <3>2
  <2>2. QED
    BY <1>4, <1>5, <2>1 DEF Live
<1>8. QED
  BY <1>5, <1>7

\* So the same vertices stay live.
LEMMA PushFlowKeepsPotentials ==
  ASSUME NEW W \in Nat, PotentialInvariant(W), PushFlow
  PROVE  PotentialInvariant(W)'
<1>1. FlowInvariant' /\ WeightsOK(W)'
  BY PushFlowKeeps, SameWeights
  DEF PotentialInvariant, FlowInvariant, PushFlow, PushWith, input
<1>2. pc = "augment" /\ pc' \in {"start", "augment"} /\ pred' = pred
  BY DEF PushFlow, PushWith, search
<1>3. PICK L \in SUBSET Vertices :
        /\ Live(L)
        /\ \A v \in Vertices : pred[v] # NoVertex =>
             v \in L /\ pred[v] \in L /\ ReducedWeight(pred[v], v) = 0
  BY <1>2 DEF PotentialInvariant, LiveOK
<1>4. LiveOK'
  BY <1>2, <1>3, PushFlowKeepsLive DEF LiveOK
<1>5. QED
  BY <1>1, <1>2, <1>4 DEF PotentialInvariant, DistancesOK, NeverNegativeEdge

\* All actions together.
LEMMA StepKeepsPotentials ==
  ASSUME NEW W \in Nat, PathsFit(W), PotentialInvariant(W), [Next]_vars
  PROVE  PotentialInvariant(W)'
<1>1. CASE StartSearch
  BY <1>1, StartSearchKeepsPotentials
<1>2. ASSUME NEW u \in Vertices, ExamineVertex(u) PROVE PotentialInvariant(W)'
  BY <1>2, ExamineVertexKeepsPotentials
<1>3. CASE UpdatePotentials
  BY <1>3, UpdatePotentialsKeepsPotentials
<1>4. CASE PushFlow
  BY <1>4, PushFlowKeepsPotentials
<1>5. CASE StopSearching \/ Extract
  <2>1. FlowInvariant'
    BY <1>5, StepKeepsInvariant DEF PotentialInvariant, Next
  <2>2. WeightsOK(W)'
    BY <1>5, SameWeights DEF PotentialInvariant, StopSearching, Extract, input
  <2>3. pc' \in {"extract", "done"}
    BY <1>5 DEF StopSearching, Extract
  <2>4. QED
    BY <2>1, <2>2, <2>3 DEF PotentialInvariant, LiveOK, DistancesOK, NeverNegativeEdge
<1>6. CASE UNCHANGED vars
  <2>1. FlowInvariant'
    BY <1>6, StepKeepsInvariant DEF PotentialInvariant
  <2>2. WeightsOK(W)'
    BY <1>6, SameWeights DEF PotentialInvariant, vars, input
  <2>3. QED
    BY <1>6, <2>1, <2>2
    DEF PotentialInvariant, vars, input, search, LiveOK, Live, ReducedWeight, Seen, Examined,
        DistancesOK, SeenOK, PathsOK, ExaminedOK, NeverNegativeEdge
<1>7. QED
  BY <1>1, <1>2, <1>3, <1>4, <1>5, <1>6 DEF Next

-----------------------------------------------------------------------------
(* The beginning. *)

\* Rounding towards zero keeps the order of numbers that are not negative.
LEMMA RoundingIsMonotonic ==
  ASSUME NEW x \in Nat, NEW y \in Nat, x <= y
  PROVE  ToInt(x) \in 0 .. ToInt(y) /\ ToInt(y) \in Nat
<1>1. x \div Scale \in Nat /\ y \div Scale \in Nat
  BY ScaleAssumption
<1>2. x \div Scale <= y \div Scale
  BY ScaleAssumption
<1>3. QED
  BY <1>1, <1>2 DEF ToInt

\* An arc costs between nothing and three times the greatest cost of an edge.
LEMMA ArcCostBounds ==
  ASSUME NEW C \in Nat, NEW E \in SUBSET (PupilIds \X StudentIds), NEW c \in [E -> -C .. C],
         NEW a
  PROVE  ArcCost(E, c, a) \in 0 .. 3 * C
<1> DEFINE D == {c[e] : e \in E}
           m == Max({0} \cup D)
<1>1. IsFiniteSet({0} \cup D)
  <2>1. IsFiniteSet(PupilIds) /\ IsFiniteSet(StudentIds)
    BY FS_Interval, SizeAssumption DEF PupilIds, StudentIds
  <2>2. IsFiniteSet(E)
    BY <2>1, FS_Product, FS_Subset
  <2>3. c \in Surjection(E, D)
    BY DEF Surjection
  <2>4. IsFiniteSet(D)
    BY <2>2, <2>3, FS_Surjection
  <2>5. QED
    BY <2>4, FS_Singleton, FS_Union
<1>2. D \subseteq -C .. C /\ {0} \cup D \in SUBSET Int
  OBVIOUS
<1>3. m \in {0} \cup D /\ \A y \in {0} \cup D : y <= m
  BY <1>1, <1>2, MaxOfFiniteSet
<1>4. m \in 0 .. C
  <2>1. \A y \in {0} \cup D : y \in Int /\ y <= C
    BY <1>2
  <2>2. QED
    BY <1>3, <2>1
<1>5. additional_cost(E, c) = 2 * m
  BY DEF additional_cost, maximum_edge_weight
<1>6. \A e \in E : c[e] \in Int /\ -C <= c[e] /\ c[e] <= m
  BY <1>3
<1> HIDE DEF m
<1>7. CASE a \in EdgeArcs(E)
  <2>1. \E e \in E : EdgeArc(e) = a
    BY <1>7 DEF EdgeArcs
  <2>2. PICK e \in E : e = CHOOSE f \in E : EdgeArc(f) = a
    BY <2>1
  <2>3. ArcCost(E, c, a) = 2 * m - c[e]
    BY <1>5, <1>7, <2>2 DEF ArcCost
  <2>4. QED
    BY <1>4, <1>6, <2>3
<1>8. CASE a \notin EdgeArcs(E)
  <2>1. ArcCost(E, c, a) \in {0, 2 * m}
    BY <1>5, <1>8 DEF ArcCost
  <2>2. QED
    BY <1>4, <2>1
<1>9. QED
  BY <1>7, <1>8

\* Without flow the potentials 0 fit, for no arc has a negative weight.
LEMMA InitPotentials ==
  ASSUME NEW C \in Nat, CostValues \subseteq -C .. C, Init
  PROVE  PotentialInvariant(ToInt(3 * C))
<1>1. edges \in SUBSET (PupilIds \X StudentIds) /\ cost \in [edges -> -C .. C]
  BY DEF Init
<1>2. ASSUME NEW a \in Arcs(edges)
      PROVE  weight[a] \in 0 .. ToInt(3 * C) /\ weight[rev(a)] = -weight[a]
  <2>1. a = <<a[1], a[2]>>
    BY <1>1, ArcsArePairs
  <2>2. rev(a) = <<a[2], a[1]>> /\ rev(rev(a)) = a
    BY <2>1 DEF rev
  <2>3. rev(a) \notin Arcs(edges)
    BY <1>1, <2>1, <2>2, ArcsAreAntisymmetric
  <2>4. /\ weight[a] = ToInt(ArcCost(edges, cost, a))
        /\ weight[rev(a)] = -ToInt(ArcCost(edges, cost, a))
    BY <2>2, <2>3 DEF Init, NetworkWeights
  <2>5. ArcCost(edges, cost, a) \in 0 .. 3 * C
    BY <1>1, ArcCostBounds
  <2>6. ToInt(ArcCost(edges, cost, a)) \in 0 .. ToInt(3 * C)
    BY <2>5, RoundingIsMonotonic
  <2>7. QED
    BY <2>4, <2>6
<1>3. FlowInvariant /\ WeightsOK(ToInt(3 * C)) /\ pc = "start"
  BY <1>2, InitInvariant DEF WeightsOK, Init
<1>4. Live(Vertices)
  <2>1. \A v \in Vertices : distance_prev[v] = 0
    BY DEF Init
  <2>2. ASSUME NEW u \in Vertices, NEW v \in Vertices, <<u, v>> \in residual_capacity
        PROVE  ReducedWeight(u, v) >= 0
    <3>1. <<u, v>> \in Arcs(edges)
      BY <2>2 DEF Init
    <3>2. weight[<<u, v>>] \in 0 .. ToInt(3 * C)
      BY <1>2, <3>1
    <3>3. ToInt(3 * C) \in Nat
      BY RoundingIsMonotonic
    <3>4. QED
      BY <2>1, <3>2, <3>3 DEF ReducedWeight
  <2>3. QED
    BY <2>1, <2>2, VertexKinds DEF Live
<1>5. LiveOK
  BY <1>3, <1>4 DEF LiveOK
<1>6. QED
  BY <1>3, <1>5 DEF PotentialInvariant, DistancesOK, NeverNegativeEdge

-----------------------------------------------------------------------------
\* As long as no path weighs IntMax or more, for edge costs between -C and C and
\* any number of pupils and students.
THEOREM PotentialsHold ==
  ASSUME NEW C \in Nat, CostValues \subseteq -C .. C, PathsFit(ToInt(3 * C))
  PROVE  Spec => []PotentialInvariant(ToInt(3 * C))
<1>1. ToInt(3 * C) \in Nat
  BY RoundingIsMonotonic
<1>2. Init => PotentialInvariant(ToInt(3 * C))
  BY InitPotentials
<1>3. PotentialInvariant(ToInt(3 * C)) /\ [Next]_vars => PotentialInvariant(ToInt(3 * C))'
  BY <1>1, StepKeepsPotentials
<1>4. QED
  BY <1>2, <1>3, PTL DEF Spec

\* The potentials never let a search meet a negative reduced weight, although
\* those of unreached vertices overflow: Boost does not throw negative_edge.
THEOREM NoNegativeEdgeIsMet ==
  ASSUME NEW C \in Nat, CostValues \subseteq -C .. C, PathsFit(ToInt(3 * C))
  PROVE  Spec => []NeverNegativeEdge
<1>1. PotentialInvariant(ToInt(3 * C)) => NeverNegativeEdge
  BY DEF PotentialInvariant
<1>2. QED
  BY <1>1, PotentialsHold, PTL

-----------------------------------------------------------------------------
(*****************************************************************************)
(* Part 3: the value of the flow.                                          *)
(*****************************************************************************)

(* The inductive invariant. *)

\* What a pupil gets from s and what a student passes on to t is not lost on the
\* way, except where the walk is.
ConservationOK ==
  /\ \A p \in PupilIds : <<s_id, p>> \in FlowArcs /\ ~(pc = "augment" /\ u_path = p) =>
       \E v \in Vertices : <<p, v>> \in FlowArcs
  /\ \A v \in StudentVertices : <<v, t_id>> \in FlowArcs /\ ~(pc = "augment" /\ u_path = v) =>
       \E p \in Vertices : <<p, v>> \in FlowArcs

FlowValueInvariant(W) == PotentialInvariant(W) /\ ConservationOK /\ FlowIsMaximum

-----------------------------------------------------------------------------
(* The steps keep the conservation. *)

\* The walk leaves a vertex with what it passes on further along, or empties it.
LEMMA PushFlowConserves ==
  ASSUME FlowInvariant, ConservationOK, PushFlow
  PROVE  ConservationOK'
<1>1. PICK w, u : w = u_path /\ u = pred[w]
  OBVIOUS
<1>2. /\ w \in Vertices /\ u \in Vertices /\ w # u /\ w # s_id /\ u # t_id
      /\ examined[u] < examined[w]
  BY <1>1, WalkStep DEF FlowInvariant
<1>3. pc = "augment" /\ u_path' = u /\ (u # s_id => pc' = "augment")
  BY <1>1 DEF PushFlow, PushWith
<1>4. \/ FlowArcs' = FlowArcs \cup {<<u, w>>} /\ (w \in PupilIds => u = s_id)
      \/ FlowArcs' = FlowArcs \ {<<w, u>>} /\ w \in PupilIds /\ u \in StudentVertices
  BY <1>1, WalkArcs, VertexKinds DEF FlowInvariant
<1>5. \A x, y : x \notin {u, w} \/ y \notin {u, w} =>
                 (<<x, y>> \in FlowArcs' <=> <<x, y>> \in FlowArcs)
  BY <1>4
<1>6. ASSUME NEW p \in PupilIds, <<s_id, p>> \in FlowArcs', ~(pc' = "augment" /\ u = p)
      PROVE  \E v \in Vertices : <<p, v>> \in FlowArcs'
  <2>1. p # u
    BY <1>3, <1>6, VertexKinds
  <2>2. CASE p # w
    BY <1>3, <1>5, <1>6, <1>1, <2>1, <2>2 DEF ConservationOK
  <2>3. CASE p = w
    <3>1. PICK h \in Vertices : <<w, h>> \in FlowArcs /\ examined[h] > examined[w]
      BY <1>1, <1>3, <2>3 DEF FlowInvariant, BalanceOK
    <3>2. h # u
      BY <1>2, <3>1 DEF FlowInvariant, TypeOK
    <3>3. <<w, h>> \in FlowArcs'
      BY <1>4, <3>1, <3>2
    <3>4. QED
      BY <2>3, <3>3
  <2>4. QED
    BY <2>2, <2>3
<1>7. ASSUME NEW v \in StudentVertices, <<v, t_id>> \in FlowArcs', ~(pc' = "augment" /\ u = v)
      PROVE  \E p \in Vertices : <<p, v>> \in FlowArcs'
  <2>1. v # u
    BY <1>3, <1>7, VertexKinds
  <2>2. CASE v # w
    BY <1>1, <1>3, <1>5, <1>7, <2>1, <2>2 DEF ConservationOK
  <2>3. CASE v = w
    BY <1>2, <1>4, <2>3, VertexKinds
  <2>4. QED
    BY <2>2, <2>3
<1>8. QED
  BY <1>3, <1>6, <1>7 DEF ConservationOK

\* Only PushFlow changes the flow.
LEMMA StepConserves ==
  ASSUME FlowInvariant, ConservationOK, [Next]_vars
  PROVE  ConservationOK'
<1>1. CASE PushFlow
  BY <1>1, PushFlowConserves
<1>2. CASE edges' = edges /\ residual_capacity' = residual_capacity /\ u_path' = u_path
           /\ pc # "augment"
  BY <1>2, SameFlow DEF ConservationOK
<1>3. CASE UpdatePotentials
  <2>1. edges' = edges /\ residual_capacity' = residual_capacity /\ u_path' = t_id
        /\ pc # "augment"
    BY <1>3 DEF UpdatePotentials, AugmentWith, input
  <2>2. QED
    BY <2>1, SameFlow, VertexKinds DEF ConservationOK
<1>4. CASE UNCHANGED vars
  BY <1>4, SameFlow DEF ConservationOK, vars, input
<1>5. CASE StartSearch \/ StopSearching \/ Extract \/ \E u \in Vertices : ExamineVertex(u)
  BY <1>2, <1>5
  DEF StartSearch, SearchWith, StopSearching, Extract, ExamineVertex, input
<1>6. QED
  BY <1>1, <1>3, <1>4, <1>5 DEF Next

-----------------------------------------------------------------------------
(* A search that does not reach t. *)

\* The examined vertices are a cut: s is in it, t is not, and no arc with residual
\* capacity leads out of it.
LEMMA SearchEndsInCut ==
  ASSUME NEW W \in Nat, PotentialInvariant(W), StopSearching
  PROVE  /\ s_id \in Examined /\ t_id \notin Examined
         /\ \A u \in Examined, v \in Vertices :
              <<u, v>> \in residual_capacity => v \in Examined
<1>1. pc = "search" /\ queue = {} /\ pred[t_id] = NoVertex
  BY DEF StopSearching
<1>2. SeenOK /\ ExaminedOK /\ Seen = Examined
  BY <1>1 DEF PotentialInvariant, DistancesOK, Seen
<1>3. t_id \notin Examined
  BY <1>1, <1>2, VertexKinds DEF SeenOK
<1>4. QED
  BY <1>2, <1>3 DEF SeenOK, ExaminedOK

\* Then every pupil has its unit of flow, when the pupils are fewer.
LEMMA PupilsAreServed ==
  ASSUME NEW W \in Nat, PotentialInvariant(W), StopSearching, NumPupils < NumStudents,
         NEW p \in PupilIds
  PROVE  <<s_id, p>> \in FlowArcs
<1>1. <<s_id, p>> \in Arcs(edges) /\ <<p, t_id>> \in Arcs(edges)
  BY DEF Arcs, SourceArcs, DummyArcs
<1>2. SUFFICES ASSUME <<s_id, p>> \notin FlowArcs PROVE FALSE
  OBVIOUS
<1>3. p \in Examined
  BY <1>1, <1>2, SearchEndsInCut, VertexKinds DEF FlowArcs
<1>4. <<p, t_id>> \in FlowArcs
  BY <1>1, <1>3, SearchEndsInCut, VertexKinds DEF FlowArcs
<1>5. PupilBalanced(p, NoVertex)
  BY DEF PotentialInvariant, FlowInvariant, BalanceOK, StopSearching
<1>6. QED
  BY <1>2, <1>4, <1>5, VertexKinds DEF PupilBalanced

\* The same for the students, by the other dummy arcs.
LEMMA StudentsAreServed ==
  ASSUME NEW W \in Nat, PotentialInvariant(W), StopSearching, ~(NumPupils < NumStudents),
         NEW v \in StudentVertices
  PROVE  <<v, t_id>> \in FlowArcs
<1>1. <<s_id, v>> \in Arcs(edges) /\ <<v, t_id>> \in Arcs(edges)
  BY DEF Arcs, SinkArcs, DummyArcs, StudentVertices
<1>2. SUFFICES ASSUME <<v, t_id>> \notin FlowArcs PROVE FALSE
  OBVIOUS
<1>3. v \notin Examined
  BY <1>1, <1>2, SearchEndsInCut, VertexKinds DEF FlowArcs
<1>4. <<s_id, v>> \in FlowArcs
  BY <1>1, <1>3, SearchEndsInCut, VertexKinds DEF FlowArcs
<1>5. StudentBalanced(v)
  BY DEF PotentialInvariant, FlowInvariant, BalanceOK, StopSearching
<1>6. QED
  BY <1>2, <1>4, <1>5, VertexKinds DEF StudentBalanced

-----------------------------------------------------------------------------
(* The value of the flow. *)

FlowOutOfSource == {a \in FlowArcs : a[1] = s_id}

\* The value the code expects is the size of the smaller side.
LEMMA SmallerSide ==
  successive_flow_value = IF NumPupils < NumStudents THEN NumPupils ELSE NumStudents
  BY SizeAssumption DEF successive_flow_value, Min

\* With fewer pupils than students the arcs out of s with flow are those to the
\* pupils.
LEMMA FewerPupils ==
  ASSUME NEW W \in Nat, PotentialInvariant(W), StopSearching, NumPupils < NumStudents
  PROVE  Cardinality(FlowOutOfSource) = NumPupils
<1>1. edges \in SUBSET (PupilIds \X StudentIds)
  BY DEF PotentialInvariant, FlowInvariant, TypeOK
<1> DEFINE f == [p \in PupilIds |-> <<s_id, p>>]
<1>2. f \in [PupilIds -> FlowOutOfSource]
  BY PupilsAreServed DEF FlowOutOfSource
<1>3. ASSUME NEW a \in FlowOutOfSource PROVE \E p \in PupilIds : f[p] = a
  <2>1. a \in Arcs(edges) /\ a[1] = s_id
    BY DEF FlowOutOfSource, FlowArcs
  <2>2. a \in SourceArcs
    BY <1>1, <2>1, VertexKinds
    DEF Arcs, EdgeArcs, EdgeArc, SinkArcs, DummyArcs, StudentVertices
  <2>3. QED
    BY <2>2 DEF SourceArcs
<1>4. \A p, q \in PupilIds : f[p] = f[q] => p = q
  OBVIOUS
<1>5. IsFiniteSet(PupilIds) /\ Cardinality(PupilIds) = NumPupils
  BY FS_Interval, SizeAssumption DEF PupilIds
<1> HIDE DEF f
<1>6. QED
  BY <1>2, <1>3, <1>4, <1>5, PairedOff

\* Otherwise they are as many as the students: each student gets its unit along one
\* of them, directly or through a pupil that gives to it alone.
LEMMA FewerStudents ==
  ASSUME NEW W \in Nat, PotentialInvariant(W), ConservationOK, StopSearching,
         ~(NumPupils < NumStudents)
  PROVE  Cardinality(FlowOutOfSource) = NumStudents
<1>1. edges \in SUBSET (PupilIds \X StudentIds)
  BY DEF PotentialInvariant, FlowInvariant, TypeOK
<1>2. /\ \A p \in PupilIds : PupilBalanced(p, NoVertex)
      /\ \A v \in StudentVertices : StudentBalanced(v)
      /\ pc # "augment"
  BY DEF PotentialInvariant, FlowInvariant, BalanceOK, StopSearching
<1> DEFINE Giver(v) == CHOOSE p \in Vertices : <<p, v>> \in FlowArcs
           g == [v \in StudentVertices |->
                   IF Giver(v) = s_id THEN <<s_id, v>> ELSE <<s_id, Giver(v)>>]
\* Every student gets its unit from one vertex, s or a pupil.
<1>3. ASSUME NEW v \in StudentVertices
      PROVE  Giver(v) \in Vertices /\ <<Giver(v), v>> \in FlowArcs
  <2>1. \E p \in Vertices : <<p, v>> \in FlowArcs
    BY <1>2, StudentsAreServed DEF ConservationOK
  <2>2. QED
    BY <2>1
<1> HIDE DEF Giver
<1>4. ASSUME NEW v \in StudentVertices PROVE Giver(v) = s_id \/ Giver(v) \in PupilIds
  <2>1. <<Giver(v), v>> \in Arcs(edges)
    BY <1>3 DEF FlowArcs
  <2>2. QED
    BY <1>1, <2>1, ArcKinds, VertexKinds
<1>5. ASSUME NEW v \in StudentVertices, NEW p \in Vertices, <<p, v>> \in FlowArcs
      PROVE  Giver(v) = p
  BY <1>2, <1>3, <1>5 DEF StudentBalanced
\* So the arc out of s that the unit came along belongs to this student alone ...
<1>6. g \in [StudentVertices -> FlowOutOfSource]
  <2>1. SUFFICES ASSUME NEW v \in StudentVertices PROVE g[v] \in FlowOutOfSource
    OBVIOUS
  <2>2. CASE Giver(v) = s_id
    BY <1>3, <2>2 DEF FlowOutOfSource
  <2>3. CASE Giver(v) # s_id
    <3>1. Giver(v) \in PupilIds /\ v \in Vertices \ {NoVertex}
      BY <1>4, <2>3, VertexKinds
    <3>2. <<s_id, Giver(v)>> \in FlowArcs
      BY <1>2, <1>3, <3>1 DEF PupilBalanced
    <3>3. QED
      BY <2>3, <3>2 DEF FlowOutOfSource
  <2>4. QED
    BY <2>2, <2>3
<1>7. ASSUME NEW v \in StudentVertices, NEW w \in StudentVertices, g[v] = g[w]
      PROVE  v = w
  <2>1. /\ v \notin PupilIds /\ w \notin PupilIds
        /\ v \in Vertices \ {NoVertex} /\ w \in Vertices \ {NoVertex}
    BY VertexKinds
  <2>2. CASE Giver(v) = s_id \/ Giver(w) = s_id
    BY <1>4, <1>7, <2>1, <2>2
  <2>3. CASE Giver(v) # s_id /\ Giver(w) # s_id
    <3>1. Giver(v) = Giver(w) /\ Giver(v) \in PupilIds
      BY <1>4, <1>7, <2>3
    <3>2. <<Giver(v), v>> \in FlowArcs /\ <<Giver(v), w>> \in FlowArcs
      BY <1>3, <3>1
    <3>3. QED
      BY <1>2, <2>1, <3>1, <3>2 DEF PupilBalanced
  <2>4. QED
    BY <2>2, <2>3
\* ... and every arc out of s with flow is one of these.
<1>8. ASSUME NEW a \in FlowOutOfSource PROVE \E v \in StudentVertices : g[v] = a
  <2>1. a \in Arcs(edges) /\ a \in FlowArcs /\ a[1] = s_id
    BY DEF FlowOutOfSource, FlowArcs
  <2>2. PICK x : a = <<s_id, x>>
    BY <1>1, <2>1, ArcsArePairs
  <2>3. x \in PupilIds \/ x \in StudentVertices
    BY <1>1, <2>1, <2>2, ArcKinds, VertexKinds
  <2>4. CASE x \in StudentVertices
    <3>1. Giver(x) = s_id
      BY <1>5, <2>1, <2>2, <2>4, VertexKinds
    <3>2. QED
      BY <2>2, <2>4, <3>1
  <2>5. CASE x \in PupilIds
    <3>1. PICK v \in Vertices : <<x, v>> \in FlowArcs
      BY <1>2, <2>1, <2>2, <2>5 DEF ConservationOK
    <3>2. <<x, v>> \in Arcs(edges)
      BY <3>1 DEF FlowArcs
    <3>3. v # t_id
      <4>1. <<x, t_id>> \notin Arcs(edges)
        BY <1>1, <2>5, VertexKinds
        DEF Arcs, EdgeArcs, EdgeArc, SourceArcs, SinkArcs, DummyArcs, StudentVertices
      <4>2. QED
        BY <3>2, <4>1
    <3>4. v \in StudentVertices
      BY <1>1, <2>5, <3>2, <3>3, ArcKinds, VertexKinds
    <3>5. Giver(v) = x /\ x # s_id
      BY <1>5, <2>5, <3>1, <3>4, VertexKinds
    <3>6. QED
      BY <2>2, <3>4, <3>5
  <2>6. QED
    BY <2>3, <2>4, <2>5
<1>9. IsFiniteSet(StudentVertices) /\ Cardinality(StudentVertices) = NumStudents
  <2>1. StudentVertices = NumPupils .. (s_id - 1)
    BY SizeAssumption DEF StudentVertices, StudentVertex, StudentIds, s_id
  <2>2. NumPupils \in Int /\ s_id - 1 \in Int
    BY SizeAssumption DEF s_id
  <2>3. /\ IsFiniteSet(StudentVertices)
        /\ Cardinality(StudentVertices) =
             IF NumPupils > s_id - 1 THEN 0 ELSE s_id - 1 - NumPupils + 1
    BY <2>1, <2>2, FS_Interval
  <2>4. QED
    BY <2>3, SizeAssumption DEF s_id
<1> HIDE DEF g
<1>10. QED
  BY <1>6, <1>7, <1>8, <1>9, PairedOff

-----------------------------------------------------------------------------
(* The invariant. *)

\* Initially there is no flow.
LEMMA InitFlowValue ==
  ASSUME NEW W \in Nat, Init, PotentialInvariant(W)
  PROVE  FlowValueInvariant(W)
<1>1. FlowArcs = {} /\ pc = "start"
  BY DEF Init, FlowArcs
<1>2. QED
  BY <1>1 DEF FlowValueInvariant, ConservationOK, FlowIsMaximum

\* The value is settled when a search ends without t, and stays.
LEMMA StepKeepsFlowValue ==
  ASSUME NEW W \in Nat, PathsFit(W), FlowValueInvariant(W), [Next]_vars
  PROVE  FlowValueInvariant(W)'
<1>1. PotentialInvariant(W) /\ ConservationOK /\ FlowIsMaximum /\ FlowInvariant
  BY DEF FlowValueInvariant, PotentialInvariant
<1>2. PotentialInvariant(W)' /\ ConservationOK'
  BY <1>1, StepKeepsPotentials, StepConserves
<1>3. FlowIsMaximum'
  <2>1. CASE StopSearching
    <3>1. FlowValue = Cardinality(FlowOutOfSource)
      BY DEF FlowValue, FlowOutOfSource
    <3>2. FlowValue = successive_flow_value
      BY <1>1, <2>1, <3>1, FewerPupils, FewerStudents, SmallerSide
    <3>3. FlowArcs' = FlowArcs
      BY <2>1, SameFlow DEF StopSearching, input
    <3>4. QED
      BY <3>2, <3>3 DEF FlowIsMaximum, FlowValue, successive_flow_value
  <2>2. CASE Extract \/ UNCHANGED vars
    <3>1. FlowArcs' = FlowArcs /\ (pc' \in {"extract", "done"} => pc \in {"extract", "done"})
      BY <2>2, SameFlow DEF Extract, vars, input
    <3>2. QED
      BY <1>1, <3>1 DEF FlowIsMaximum, FlowValue, successive_flow_value
  <2>3. CASE StartSearch \/ UpdatePotentials \/ PushFlow \/ \E u \in Vertices : ExamineVertex(u)
    <3>1. pc' \notin {"extract", "done"}
      BY <2>3 DEF StartSearch, SearchWith, UpdatePotentials, AugmentWith, PushFlow,
                  PushWith, ExamineVertex
    <3>2. QED
      BY <3>1 DEF FlowIsMaximum
  <2>4. QED
    BY <2>1, <2>2, <2>3 DEF Next
<1>4. QED
  BY <1>2, <1>3 DEF FlowValueInvariant

\* When the search ends the whole smaller side has flow, matched or on dummy
\* arcs, so the returned cost may take successive_flow_value * additional_cost
\* as what the flow paid beyond the costs of the matching.
THEOREM FlowReachesMaximum ==
  ASSUME NEW C \in Nat, CostValues \subseteq -C .. C, PathsFit(ToInt(3 * C))
  PROVE  Spec => []FlowIsMaximum
<1>1. ToInt(3 * C) \in Nat
  BY RoundingIsMonotonic
<1>2. Init => FlowValueInvariant(ToInt(3 * C))
  BY <1>1, InitPotentials, InitFlowValue
<1>3. FlowValueInvariant(ToInt(3 * C)) /\ [Next]_vars => FlowValueInvariant(ToInt(3 * C))'
  BY <1>1, StepKeepsFlowValue
<1>4. FlowValueInvariant(ToInt(3 * C)) => FlowIsMaximum
  BY DEF FlowValueInvariant
<1>5. QED
  BY <1>2, <1>3, <1>4, PTL DEF Spec
=============================================================================
