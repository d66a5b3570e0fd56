----------------------------- MODULE EdgeCosts -----------------------------
(***************************************************************************)
(* The second half of GraphCreator::init_from_json, when the nodes and the *)
(* edges are there: the cost components of EdgeCostComputer are added, the *)
(* coefficients are balanced to the shares in balancing_coefficients.json, *)
(* and the cost of every edge is computed and cached.                      *)
(*                                                                         *)
(* A double is modelled as the exact fraction it stands for, a pair of a   *)
(* numerator and a positive denominator, in lowest terms where it matters  *)
(* to keep the numbers small.                                              *)
(*                                                                         *)
(* A definition whose name no action uses (IsPositiveOrZero, ...) is a     *)
(* deliberately wrong form of the one after it.  PROJECT.json pairs each   *)
(* with the property that detects it.                                      *)
(***************************************************************************)
EXTENDS Integers, Sequences, FiniteSetsExt, Functions

CONSTANTS
  NumPupils,    \* how many pupils ...
  NumStudents,  \* ... and how many students there are
  PupilData,    \* what may be known of a pupil: bundesland, requested subjects
                \* and waiting_days
  StudentData,  \* of a student: bundesland, offered subjects and waiting_days
  Shares,       \* what balancing_coefficients.json may hold: the share of some
                \* of the cost types ...
  Whole         \* ... and how much of it is 1.0

\* The enum CostType, in its order.
CostTypes == <<"BundeslandBonus", "FachUebereinstimmung", "WaitingTimeBonus">>
AllTypes == {CostTypes[i] : i \in DOMAIN CostTypes}

ASSUME SizeAssumption == NumPupils \in Nat /\ NumStudents \in Nat
ASSUME DataAssumption ==
  /\ \A p \in PupilData : p.requested \in Seq(STRING) /\ p.waiting_days \in Int
  /\ \A t \in StudentData : t.offered \in Seq(STRING) /\ t.waiting_days \in Int
ASSUME ShareAssumption ==
  /\ Whole \in Nat \ {0}
  /\ \A f \in Shares : DOMAIN f \subseteq AllTypes /\ f \in [DOMAIN f -> Int]

PupilIds == 0 .. (NumPupils - 1)
StudentIds == 0 .. (NumStudents - 1)

VARIABLES
  pupils, students,          \* the data of the nodes
  edges,                     \* the edges, as <<pupil_id, college_student_id>>
  shares,                    \* cost_coefficients_by_type, from the file
  coefficient,               \* the coefficient of every component added so far
  num_edges_with_type_data,  \* the edges on which a type costs something ...
  total_edge_costs_by_type,  \* ... and its cost on all edges, once collected
  total_cost,                \* the cost of the types collected
  adapted,                   \* the types whose coefficient has been adapted
  cost,                      \* the cached cost of each edge
  pc

vars == <<pupils, students, edges, shares, coefficient, num_edges_with_type_data,
          total_edge_costs_by_type, total_cost, adapted, cost, pc>>
input == <<pupils, students, edges, shares>>
totals == <<num_edges_with_type_data, total_edge_costs_by_type, total_cost>>

-----------------------------------------------------------------------------
(* Fractions. *)

Reduced(n, d) ==
  LET gcd == Max({k \in 1 .. d : n % k = 0 /\ d % k = 0})
  IN  <<n \div gcd, d \div gcd>>

Fraction(n, d) == IF d > 0 THEN Reduced(n, d) ELSE Reduced(-n, -d)
Zero == <<0, 1>>
One == <<1, 1>>

Times(a, b) == Fraction(a[1] * b[1], a[2] * b[2])
Over(a, b) == Fraction(a[1] * b[2], a[2] * b[1])

\* Equal denominators are kept, so that the costs of all edges share theirs.
Plus(a, b) ==
  IF a[2] = b[2] THEN <<a[1] + b[1], a[2]>>
                 ELSE <<a[1] * b[2] + b[1] * a[2], a[2] * b[2]>>

AtMost(a, b) == IF a[2] = b[2] THEN a[1] <= b[1] ELSE a[1] * b[2] <= b[1] * a[2]
Same(a, b) == AtMost(a, b) /\ AtMost(b, a)

-----------------------------------------------------------------------------
(* The cost components. *)

\* Every subject has the preference value 1.
preference_value(subject) == 1

SameSubjects(p, t) ==
  {m \in (DOMAIN t.offered) \X (DOMAIN p.requested) : t.offered[m[1]] = p.requested[m[2]]}

\* The raw cost component of a type on the edge of p and t.
RawCost(type, p, t) ==
  CASE type = "BundeslandBonus" ->
         IF p.bundesland # "Invalid" /\ p.bundesland = t.bundesland THEN 1 ELSE 0
    [] type = "FachUebereinstimmung" ->
         SumFunction([m \in SameSubjects(p, t) |->
                        preference_value(t.offered[m[1]]) + preference_value(p.requested[m[2]])])
    [] type = "WaitingTimeBonus" -> t.waiting_days + p.waiting_days

Raw(type, e) == RawCost(type, pupils[e[1]], students[e[2]])
RawTotal(type) == SumFunction([e \in edges |-> Raw(type, e)])
SumOfRawTotals(types) == SumFunction([type \in types |-> RawTotal(type)])

Init ==
  /\ pupils \in [PupilIds -> PupilData]
  /\ students \in [StudentIds -> StudentData]
  /\ edges \in SUBSET {e \in PupilIds \X StudentIds :
                       SameSubjects(pupils[e[1]], students[e[2]]) # {}}
  /\ shares \in Shares
  /\ coefficient = <<>>
  /\ num_edges_with_type_data = <<>>
  /\ total_edge_costs_by_type = <<>>
  /\ total_cost = Zero
  /\ adapted = {}
  /\ cost = <<>>
  /\ pc = "components"

AddComponents ==
  /\ pc = "components"
  /\ coefficient' = [type \in AllTypes |-> One]
  /\ pc' = "collect"
  /\ UNCHANGED <<input, totals, adapted, cost>>

-----------------------------------------------------------------------------
(* Balancing.  The maps are gone through in the order of the enum. *)

IsNext(type, types) ==
  \E i \in DOMAIN CostTypes :
    /\ type = CostTypes[i]
    /\ type \in types
    /\ \A j \in 1 .. (i - 1) : CostTypes[j] \notin types

Collected == DOMAIN total_edge_costs_by_type
IsPositiveOrZero(type, e) == coefficient[type][1] * Raw(type, e) >= 0
IsPositive(type, e) == coefficient[type][1] * Raw(type, e) > 0

PairsWithTypeData(type) == {e \in PupilIds \X StudentIds : IsPositive(type, e)}
EdgesWithTypeData(type) == {e \in edges : IsPositive(type, e)}

With(f, type, value) ==
  [u \in (DOMAIN f) \cup {type} |-> IF u = type THEN value ELSE f[u]]

\* The inner loop over all edges, for one type.
Collect(type) ==
  /\ pc = "collect"
  /\ IsNext(type, DOMAIN shares \ Collected)
  /\ LET specific_cost_total == Times(coefficient[type], <<RawTotal(type), 1>>) IN
       /\ total_edge_costs_by_type' =
            With(total_edge_costs_by_type, type, specific_cost_total)
       /\ total_cost' = Plus(total_cost, specific_cost_total)
  /\ num_edges_with_type_data' =
       With(num_edges_with_type_data, type,
            Cardinality(EdgesWithTypeData(type)))
  /\ UNCHANGED <<input, coefficient, adapted, cost, pc>>

\* If there is no cost to share out, the coefficients stay as they are.
EndCollection ==
  /\ pc = "collect"
  /\ Collected = DOMAIN shares
  /\ pc' = IF total_cost[1] = 0 THEN "cache" ELSE "adapt"
  /\ UNCHANGED <<input, coefficient, totals, adapted, cost>>

AdaptionFactor(type) ==
  LET current_coefficient == Over(total_edge_costs_by_type[type], total_cost)
      relative_num_edges == Fraction(num_edges_with_type_data[type], Cardinality(edges))
  IN  Times(Over(Fraction(shares[type], Whole), current_coefficient), relative_num_edges)

Adapt(type) ==
  /\ pc = "adapt"
  /\ IsNext(type, Collected \ adapted)
  /\ coefficient' =
       IF total_edge_costs_by_type[type][1] = 0
         THEN coefficient
         ELSE [coefficient EXCEPT ![type] = Times(AdaptionFactor(type), @)]
  /\ adapted' = adapted \cup {type}
  /\ UNCHANGED <<input, totals, cost, pc>>

EndAdaption ==
  /\ pc = "adapt"
  /\ adapted = Collected
  /\ pc' = "cache"
  /\ UNCHANGED <<input, coefficient, totals, adapted, cost>>

PenalisingWaitingTime(e) ==
  LET Part(i) == <<coefficient[CostTypes[i]][1] * Raw(CostTypes[i], e),
                   coefficient[CostTypes[i]][2]>>
  IN  Plus(Plus(Part(1), Part(2)), Times(<<-1, 1>>, Part(3)))

\* The weighted sum of the components.
compute_edge_cost(e) ==
  LET Part(i) == <<coefficient[CostTypes[i]][1] * Raw(CostTypes[i], e),
                   coefficient[CostTypes[i]][2]>>
  IN  Plus(Plus(Part(1), Part(2)), Part(3))

\* init_edge_costs.
CacheCosts ==
  /\ pc = "cache"
  /\ cost' = [e \in edges |-> compute_edge_cost(e)]
  /\ pc' = "done"
  /\ UNCHANGED <<input, coefficient, totals, adapted>>

Next ==
  \/ AddComponents
  \/ \E type \in AllTypes : Collect(type) \/ Adapt(type)
  \/ EndCollection
  \/ EndAdaption
  \/ CacheCosts

Spec == Init /\ [][Next]_vars

-----------------------------------------------------------------------------
IsFraction(a) == a \in Int \X (Nat \ {0})

TypeOK ==
  /\ pupils \in [PupilIds -> PupilData]
  /\ students \in [StudentIds -> StudentData]
  /\ edges \subseteq PupilIds \X StudentIds
  /\ shares \in Shares
  /\ DOMAIN coefficient \in {{}, AllTypes}
  /\ \A type \in DOMAIN coefficient : IsFraction(coefficient[type])
  /\ Collected \subseteq DOMAIN shares
  /\ DOMAIN num_edges_with_type_data = Collected
  /\ \A type \in Collected : /\ num_edges_with_type_data[type] \in 0 .. Cardinality(edges)
                             /\ IsFraction(total_edge_costs_by_type[type])
  /\ IsFraction(total_cost)
  /\ adapted \subseteq Collected
  /\ DOMAIN cost \subseteq edges
  /\ \A e \in DOMAIN cost : IsFraction(cost[e])
  /\ pc \in {"components", "collect", "adapt", "cache", "done"}
(* Safety. *)

WaitingDaysAreNatural ==
  /\ \A id \in PupilIds : pupils[id].waiting_days >= 0
  /\ \A id \in StudentIds : students[id].waiting_days >= 0

SharesOfAllTypes == DOMAIN shares = AllTypes
SharesAreNatural == \A type \in DOMAIN shares : shares[type] >= 0
SumOfShares == SumFunction(shares)


\* A type that comes to less than nothing while all of them come to more, or the
\* other way round: graph_creator.cpp:236 divides the one by the other.
IsTurned(type) ==
  type \in DOMAIN shares /\ RawTotal(type) * SumOfRawTotals(DOMAIN shares) < 0

SumOfCosts ==
  LET numerators == SumFunction([e \in edges |-> cost[e][1]])
  IN  IF edges = {} THEN Zero ELSE <<numerators, cost[CHOOSE e \in edges : TRUE][2]>>

\* The coefficient that the loops arrive at, in closed form.  A type that the
\* file does not name, or that costs nothing in all, keeps its coefficient 1.
BalancedCoefficient(type) ==
  LET all == SumOfRawTotals(DOMAIN shares)
      with_data == {e \in edges : Raw(type, e) > 0}
  IN  IF type \notin DOMAIN shares \/ all = 0 \/ RawTotal(type) = 0
        THEN One
        ELSE Fraction(shares[type] * all * Cardinality(with_data),
                      Whole * RawTotal(type) * Cardinality(edges))

\* The cached costs are those of the balanced coefficients: what is collected is
\* collected for every type before any coefficient is adapted, a coefficient is
\* adapted once, and the costs are cached after that.
CostsAreBalanced ==
  pc = "done" =>
    \A e \in edges :
      LET Part(i) == <<BalancedCoefficient(CostTypes[i])[1] * Raw(CostTypes[i], e),
                       BalancedCoefficient(CostTypes[i])[2]>>
      IN  Same(cost[e], Plus(Plus(Part(1), Part(2)), Part(3)))

\* Balancing shares out at most what the raw costs came to: the balanced costs of
\* all edges together are no more than the raw costs of all edges together.
BalancingNeverInflates ==
  /\ pc = "done" /\ WaitingDaysAreNatural
  /\ SharesAreNatural /\ SharesOfAllTypes /\ SumOfShares <= Whole
  => AtMost(SumOfCosts, <<SumOfRawTotals(AllTypes), 1>>)

\* An edge that is at least as good as another in every component has at least
\* its cost, whatever the shares.  What is good in a component is the larger number,
\* unless negative waiting days (a createdAt in the future) turn the component: just
\* then, and in no other way, does a bonus become a malus.
IsNoWorse(type, e, f) ==
  IF IsTurned(type) THEN Raw(type, e) <= Raw(type, f) ELSE Raw(type, e) >= Raw(type, f)

BetterStaysBetter ==
  pc = "done" /\ SharesAreNatural =>
    \A e, f \in edges :
      (\A type \in AllTypes : IsNoWorse(type, e, f)) => AtMost(cost[f], cost[e])

\* What the comment on balance_edge_costs says: "if the input file specifies that
\* 90% of the total costs should be reserved for matching subjects, then the
\* coefficients of the edge cost computer will be adapted accordingly".
SharesAreReached ==
  /\ pc = "done" /\ WaitingDaysAreNatural
  /\ SharesOfAllTypes /\ SumOfShares = Whole
  /\ \A type \in AllTypes : RawTotal(type) > 0
  => \A type \in AllTypes :
       Same(Times(coefficient[type], <<RawTotal(type), 1>>),
            Times(Fraction(shares[type], Whole), SumOfCosts))
=============================================================================
