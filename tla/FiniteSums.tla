----------------------------- MODULE FiniteSums -----------------------------
(***************************************************************************)
(* Induction over numbers and finite sets, remainders, the greatest of     *)
(* some numbers, and sums over finite sets, in the form in which the       *)
(* proofs about the program use them; a count is a sum of ones.  The       *)
(* induction principles speak of sets where those of the library speak of  *)
(* predicates: what is to hold for all numbers, or for all subsets, is the *)
(* set of those for which it does.                                         *)
(***************************************************************************)
EXTENDS Integers, Functions, FiniteSetsExt, FiniteSetTheorems, WellFoundedInduction, TLAPS

-----------------------------------------------------------------------------
(* Induction. *)

\* A set of numbers that holds every number whose predecessors it holds is Nat.
LEMMA LeastNumber ==
  ASSUME NEW P, \A n \in Nat : (\A m \in 0 .. n - 1 : m \in P) => n \in P
  PROVE  \A n \in Nat : n \in P
<1> DEFINE Bad == Nat \ P
<1>1. ASSUME Bad # {} PROVE FALSE
  <2>1. PICK n \in Bad : \A m \in Bad : ~ (<<m, n>> \in OpToRel(<, Nat))
    <3>1. Bad \subseteq Nat
      OBVIOUS
    <3>2. QED
      BY <1>1, <3>1, NatLessThanWellFounded, WFMin
  <2>2. ASSUME NEW m \in 0 .. n - 1 PROVE m \in P
    <3>1. m \in Nat /\ m < n
      OBVIOUS
    <3>2. <<m, n>> \in OpToRel(<, Nat)
      BY <3>1 DEF OpToRel
    <3>3. QED
      BY <2>1, <3>1, <3>2
  <2>3. QED
    BY <2>2
<1>2. QED
  BY <1>1

\* The subsets of a finite set, from smaller to larger ones.
LEMMA SubsetInduction ==
  ASSUME NEW S, IsFiniteSet(S), NEW P,
         \A T \in SUBSET S : (\A U \in SUBSET T : U # T => U \in P) => T \in P
  PROVE  \A T \in SUBSET S : T \in P
<1> DEFINE Q == {n \in Nat : \A T \in SUBSET S : Cardinality(T) = n => T \in P}
<1>1. ASSUME NEW n \in Nat, \A m \in 0 .. n - 1 : m \in Q PROVE n \in Q
  <2>1. SUFFICES ASSUME NEW T \in SUBSET S, Cardinality(T) = n PROVE T \in P
    OBVIOUS
  <2>2. ASSUME NEW U \in SUBSET T, U # T PROVE U \in P
    <3>1. IsFiniteSet(T) /\ U \in SUBSET S
      BY FS_Subset
    <3>2. Cardinality(U) \in Nat /\ Cardinality(U) < n
      BY <2>1, <2>2, <3>1, FS_Subset, FS_CardinalityType
    <3>3. Cardinality(U) \in Q
      BY <1>1, <3>2
    <3>4. QED
      BY <3>1, <3>3
  <2>3. QED
    BY <2>2
<1> HIDE DEF Q
<1>2. \A n \in Nat : n \in Q
  BY <1>1, LeastNumber
<1>3. QED
  BY <1>2, FS_Subset, FS_CardinalityType DEF Q

\* The same, one element at a time.
LEMMA OneByOne ==
  ASSUME NEW S, IsFiniteSet(S), NEW P, {} \in P,
         \A T \in SUBSET S, x \in S : T \in P /\ x \notin T => T \cup {x} \in P
  PROVE  S \in P
<1>1. ASSUME NEW T \in SUBSET S, \A U \in SUBSET T : U # T => U \in P PROVE T \in P
  <2>1. CASE T = {}
    BY <2>1
  <2>2. CASE T # {}
    <3>1. PICK x \in T : TRUE
      BY <2>2
    <3>2. T \ {x} \in P /\ T = (T \ {x}) \cup {x}
      BY <1>1, <3>1
    <3>3. QED
      BY <3>1, <3>2
  <2>3. QED
    BY <2>1, <2>2
<1>2. QED
  BY <1>1, SubsetInduction

\* Two finite sets are equally large if a function pairs their elements off.
LEMMA PairedOff ==
  ASSUME NEW S, IsFiniteSet(S), NEW T, NEW f \in [S -> T],
         \A x, y \in S : f[x] = f[y] => x = y,
         \A z \in T : \E x \in S : f[x] = z
  PROVE  Cardinality(T) = Cardinality(S)
<1>1. f \in Bijection(S, T)
  BY DEF Bijection, Injection, Surjection, IsInjective
<1>2. QED
  BY <1>1, FS_Bijection DEF ExistsBijection

-----------------------------------------------------------------------------
(* Greatest numbers. *)

\* A bounded set of numbers that is not empty has a greatest one.
LEMMA Greatest ==
  ASSUME NEW S \in SUBSET Nat, S # {}, NEW b \in Nat, \A k \in S : k <= b
  PROVE  Max(S) \in S /\ \A k \in S : k <= Max(S)
<1>1. \E x \in S : \A y \in S : x >= y
  <2>1. SUFFICES ASSUME \A x \in S : \E y \in S : y > x PROVE FALSE
    OBVIOUS
  <2> DEFINE P == {n \in Nat : b - n \notin S}
  <2>2. ASSUME NEW n \in Nat, \A m \in 0 .. n - 1 : m \in P PROVE n \in P
    <3>1. SUFFICES ASSUME b - n \in S PROVE FALSE
      OBVIOUS
    <3>2. PICK y \in S : y > b - n
      BY <2>1, <3>1
    <3>3. y <= b /\ y \in Nat
      OBVIOUS
    <3>4. b - y \in 0 .. n - 1
      BY <3>2, <3>3
    <3>5. b - (b - y) = y
      BY <3>3
    <3>6. QED
      BY <2>2, <3>4, <3>5
  <2> HIDE DEF P
  <2>3. \A n \in Nat : n \in P
    BY <2>2, LeastNumber
  <2>4. PICK x \in S : TRUE
    OBVIOUS
  <2>5. x \in Nat /\ b - x \in Nat /\ b - (b - x) = x
    OBVIOUS
  <2>6. b - x \in P
    BY <2>3, <2>5
  <2>7. QED
    BY <2>4, <2>5, <2>6 DEF P
<1>2. Max(S) \in S /\ \A y \in S : Max(S) >= y
  BY <1>1 DEF Max
<1>3. QED
  BY <1>2

-----------------------------------------------------------------------------
(* Remainders. *)

\* Of all numbers that differ by a multiple of W exactly one is a remainder.
LEMMA RemainderIs ==
  ASSUME NEW W \in Nat \ {0}, NEW a \in Int, NEW q \in Int, NEW r \in 0 .. (W - 1),
         a = W * q + r
  PROVE  a % W = r
<1>1. PICK p \in Int : a = W * p + (a % W)
  <2>1. a \div W \in Int /\ a = W * (a \div W) + (a % W)
    OBVIOUS
  <2>2. QED
    BY <2>1
<1>2. PICK m : m = a % W /\ m \in Int /\ 0 <= m /\ m < W
  OBVIOUS
<1>3. W * p + m = W * q + r /\ 0 <= r /\ r < W /\ r \in Int
  BY <1>1, <1>2
<1>4. CASE p < q
  <2>1. PICK k \in Nat : q = p + 1 + k
    <3>1. q - p - 1 \in Nat
      BY <1>4
    <3>2. QED
      BY <3>1
  <2>2. W * q = W * p + W + W * k /\ W * k >= 0 /\ W * p \in Int /\ W * k \in Int
    BY <2>1
  <2>3. QED
    BY <1>2, <1>3, <2>2
<1>5. CASE p > q
  <2>1. PICK k \in Nat : p = q + 1 + k
    <3>1. p - q - 1 \in Nat
      BY <1>5
    <3>2. QED
      BY <3>1
  <2>2. W * p = W * q + W + W * k /\ W * k >= 0 /\ W * q \in Int /\ W * k \in Int
    BY <2>1
  <2>3. QED
    BY <1>2, <1>3, <2>2
<1>6. CASE p = q
  <2>1. W * p \in Int /\ W * q = W * p
    BY <1>6
  <2>2. m = r
    BY <1>2, <1>3, <2>1
  <2>3. QED
    BY <1>2, <2>2
<1>7. QED
  BY <1>4, <1>5, <1>6

-----------------------------------------------------------------------------
(* Sums. *)

\* The sum of f[x] over the elements x of S.
SumOver(f, S) == MapThenSumSet(LAMBDA x : f[x], S)

\* The sum of the values of a function, as the library has it.
LEMMA SumOfFunction ==
  ASSUME NEW f
  PROVE  SumFunction(f) = SumOver(f, DOMAIN f)
  BY DEF SumFunction, SumFunctionOnSet, FoldFunctionOnSet, SumOver, MapThenSumSet

Pick(s) == CHOOSE x \in s : TRUE

\* The function on the subsets of S that the sum is defined by.
IsSum(g, f, S) ==
  g = [s \in SUBSET S |-> IF s = {} THEN 0 ELSE f[Pick(s)] + g[s \ {Pick(s)}]]

\* The library defines the sum by choosing such a function.
LEMMA SumIsChosen ==
  ASSUME NEW f, NEW S
  PROVE  SumOver(f, S) = (CHOOSE g : IsSum(g, f, S))[S]
  BY DEF SumOver, MapThenSumSet, MapThenFoldSet, IsSum, Pick

\* There is such a function: one for the sets of n elements gives one for those
\* of n + 1.
LEMMA SumExists ==
  ASSUME NEW f, NEW S, IsFiniteSet(S)
  PROVE  \E g : IsSum(g, f, S)
<1> DEFINE Small(n) == {s \in SUBSET S : Cardinality(s) <= n}
           Good(n, g) == g = [s \in Small(n) |-> IF s = {} THEN 0
                                                 ELSE f[Pick(s)] + g[s \ {Pick(s)}]]
           P == {n \in Nat : \E g : Good(n, g)}
<1>1. ASSUME NEW s \in SUBSET S, s # {}
      PROVE  /\ Pick(s) \in s /\ s \ {Pick(s)} \in SUBSET S
             /\ Cardinality(s) \in Nat /\ Cardinality(s \ {Pick(s)}) = Cardinality(s) - 1
  <2>1. Pick(s) \in s
    BY <1>1 DEF Pick
  <2>2. IsFiniteSet(s)
    BY FS_Subset
  <2>3. QED
    BY <2>1, <2>2, FS_RemoveElement, FS_CardinalityType
<1>2. ASSUME NEW s \in SUBSET S
      PROVE  Cardinality(s) \in Nat /\ (Cardinality(s) = 0 <=> s = {})
  BY FS_Subset, FS_EmptySet, FS_CardinalityType
<1>3. 0 \in P
  <2> DEFINE g == [s \in Small(0) |-> 0]
  <2>1. \A s \in Small(0) : s = {}
    BY <1>2
  <2>2. Good(0, g)
    BY <2>1
  <2>3. QED
    BY <2>2
<1>4. ASSUME NEW n \in Nat, n \in P PROVE n + 1 \in P
  <2>1. PICK g : Good(n, g)
    BY <1>4
  <2> DEFINE h == [s \in Small(n + 1) |-> IF s = {} THEN 0 ELSE f[Pick(s)] + g[s \ {Pick(s)}]]
  <2>2. ASSUME NEW s \in Small(n) PROVE h[s] = g[s]
    <3>1. s \in Small(n + 1)
      BY <1>2
    <3>2. g[s] = IF s = {} THEN 0 ELSE f[Pick(s)] + g[s \ {Pick(s)}]
      BY <2>1
    <3>3. QED
      BY <3>1, <3>2
  <2>3. ASSUME NEW s \in Small(n + 1), s # {} PROVE h[s \ {Pick(s)}] = g[s \ {Pick(s)}]
    <3>1. s \ {Pick(s)} \in Small(n)
      BY <1>1, <2>3
    <3>2. QED
      BY <2>2, <3>1
  <2>4. Good(n + 1, h)
    BY <2>3
  <2> HIDE DEF h
  <2>5. \E k : Good(n + 1, k)
    BY <2>4
  <2> HIDE DEF Good
  <2>6. QED
    BY <2>5
<1> HIDE DEF P
<1>5. \A n \in Nat : n \in P
  <2>1. ASSUME NEW n \in Nat, \A m \in 0 .. n - 1 : m \in P PROVE n \in P
    <3>1. CASE n = 0
      BY <1>3, <3>1
    <3>2. CASE n # 0
      <4>1. n - 1 \in Nat /\ n - 1 \in 0 .. n - 1
        BY <3>2
      <4>2. n - 1 + 1 \in P
        BY <1>4, <2>1, <4>1
      <4>3. QED
        BY <4>2
    <3>3. QED
      BY <3>1, <3>2
  <2>2. QED
    BY <2>1, LeastNumber
<1>6. Cardinality(S) \in Nat /\ Small(Cardinality(S)) = SUBSET S
  BY FS_Subset, FS_CardinalityType
<1>7. PICK g : Good(Cardinality(S), g)
  BY <1>5, <1>6 DEF P
<1>8. IsSum(g, f, S)
  BY <1>6, <1>7 DEF IsSum
<1>9. QED
  BY <1>8

\* There is only one, also when it is asked for on a smaller set.
LEMMA SumIsUnique ==
  ASSUME NEW f, NEW S, IsFiniteSet(S), NEW T \in SUBSET S,
         NEW g, IsSum(g, f, S), NEW h, IsSum(h, f, T)
  PROVE  h[T] = g[T]
<1> DEFINE P == {s \in SUBSET T : h[s] = g[s]}
<1>1. ASSUME NEW s \in SUBSET T, \A u \in SUBSET s : u # s => u \in P PROVE s \in P
  <2>1. /\ h[s] = IF s = {} THEN 0 ELSE f[Pick(s)] + h[s \ {Pick(s)}]
        /\ g[s] = IF s = {} THEN 0 ELSE f[Pick(s)] + g[s \ {Pick(s)}]
    BY DEF IsSum
  <2>2. ASSUME s # {} PROVE h[s \ {Pick(s)}] = g[s \ {Pick(s)}]
    <3>1. Pick(s) \in s
      BY <2>2 DEF Pick
    <3>2. s \ {Pick(s)} \in P
      BY <1>1, <3>1
    <3>3. QED
      BY <3>2
  <2>3. QED
    BY <2>1, <2>2
<1> HIDE DEF P
<1>2. \A s \in SUBSET T : s \in P
  BY <1>1, SubsetInduction, FS_Subset
<1>3. QED
  BY <1>2 DEF P

\* So any such function yields the sum.
LEMMA SumIs ==
  ASSUME NEW f, NEW S, IsFiniteSet(S), NEW g, IsSum(g, f, S)
  PROVE  SumOver(f, S) = g[S]
<1>1. IsSum(CHOOSE i : IsSum(i, f, S), f, S)
  OBVIOUS
<1>2. QED
  BY <1>1, SumIsChosen, SumIsUnique

\* Nothing adds up to 0.
LEMMA SumEmpty ==
  ASSUME NEW f
  PROVE  SumOver(f, {}) = 0
<1>1. PICK g : IsSum(g, f, {})
  BY SumExists, FS_EmptySet
<1>2. IsSum(CHOOSE h : IsSum(h, f, {}), f, {})
  BY <1>1
<1>3. QED
  BY <1>2, SumIsChosen DEF IsSum

\* The element that the library takes off first.
LEMMA SumOfPicked ==
  ASSUME NEW f, NEW S, IsFiniteSet(S), S # {}
  PROVE  Pick(S) \in S /\ SumOver(f, S) = f[Pick(S)] + SumOver(f, S \ {Pick(S)})
<1>1. Pick(S) \in S
  BY DEF Pick
<1> DEFINE T == S \ {Pick(S)}
           g == CHOOSE g : IsSum(g, f, S)
           h == CHOOSE h : IsSum(h, f, T)
<1>2. IsFiniteSet(T) /\ T \in SUBSET S
  BY FS_Subset
<1>3. IsSum(g, f, S) /\ IsSum(h, f, T)
  BY <1>2, SumExists
<1>4. SumOver(f, S) = g[S] /\ SumOver(f, T) = h[T]
  BY SumIsChosen
<1> HIDE DEF g, h
<1>5. h[T] = g[T]
  BY <1>2, <1>3, SumIsUnique
<1>6. g[S] = f[Pick(S)] + g[T]
  BY <1>3 DEF IsSum
<1>7. QED
  BY <1>1, <1>4, <1>5, <1>6

\* Any element may be taken off first.
LEMMA SumRemove ==
  ASSUME NEW f, NEW S, IsFiniteSet(S), \A x \in S : f[x] \in Int
  PROVE  /\ SumOver(f, S) \in Int
         /\ \A x \in S : SumOver(f, S) = f[x] + SumOver(f, S \ {x})
<1> DEFINE P == {T \in SUBSET S : /\ SumOver(f, T) \in Int
                                  /\ \A x \in T : SumOver(f, T) = f[x] + SumOver(f, T \ {x})}
<1>1. ASSUME NEW T \in SUBSET S, \A U \in SUBSET T : U # T => U \in P PROVE T \in P
  <2>1. CASE T = {}
    BY <2>1, SumEmpty
  <2>2. CASE T # {}
    <3>1. PICK p : p = Pick(T)
      OBVIOUS
    <3>2. p \in T /\ SumOver(f, T) = f[p] + SumOver(f, T \ {p})
      BY <2>2, <3>1, SumOfPicked, FS_Subset
    <3>3. T \ {p} \in P /\ f[p] \in Int
      BY <1>1, <3>2
    <3>4. SumOver(f, T) \in Int
      BY <3>2, <3>3
    <3>5. ASSUME NEW x \in T PROVE SumOver(f, T) = f[x] + SumOver(f, T \ {x})
      <4>1. CASE x = p
        BY <3>2, <4>1
      <4>2. CASE x # p
        <5>1. T \ {x} \in P /\ p \in T \ {x} /\ x \in T \ {p} /\ f[x] \in Int
          BY <1>1, <3>2, <4>2
        <5>2. (T \ {x}) \ {p} = (T \ {p}) \ {x}
          OBVIOUS
        <5>3. PICK U : U = (T \ {p}) \ {x}
          OBVIOUS
        <5>4. U \in P
          BY <1>1, <3>2, <5>3
        <5>5. /\ SumOver(f, T \ {x}) = f[p] + SumOver(f, U)
              /\ SumOver(f, T \ {p}) = f[x] + SumOver(f, U)
          BY <3>3, <5>1, <5>2, <5>3
        <5>6. SumOver(f, U) \in Int
          BY <5>4
        <5>7. QED
          BY <3>2, <3>3, <5>1, <5>5, <5>6
      <4>3. QED
        BY <4>1, <4>2
    <3>6. QED
      BY <3>4, <3>5
  <2>3. QED
    BY <2>1, <2>2
<1> HIDE DEF P
<1>2. S \in P
  BY <1>1, SubsetInduction
<1>3. QED
  BY <1>2 DEF P

\* An element is added.
LEMMA SumAdd ==
  ASSUME NEW f, NEW S, IsFiniteSet(S), NEW x, x \notin S,
         \A y \in S \cup {x} : f[y] \in Int
  PROVE  /\ SumOver(f, S) \in Int
         /\ SumOver(f, S \cup {x}) = SumOver(f, S) + f[x]
<1>1. IsFiniteSet(S \cup {x}) /\ (S \cup {x}) \ {x} = S
  BY FS_AddElement
<1>2. SumOver(f, S) \in Int /\ f[x] \in Int
  BY SumRemove
<1>3. SumOver(f, S \cup {x}) = f[x] + SumOver(f, S)
  BY <1>1, SumRemove
<1>4. QED
  BY <1>2, <1>3

\* Sums compare as what is summed up does.
LEMMA SumMonotonic ==
  ASSUME NEW f, NEW g, NEW S, IsFiniteSet(S),
         \A x \in S : f[x] \in Int /\ g[x] \in Int /\ f[x] <= g[x]
  PROVE  SumOver(f, S) <= SumOver(g, S)
<1> DEFINE P == {T \in SUBSET S : SumOver(f, T) <= SumOver(g, T)}
<1>1. {} \in P
  BY SumEmpty
<1>2. ASSUME NEW T \in SUBSET S, NEW x \in S, T \in P, x \notin T PROVE T \cup {x} \in P
  <2>1. IsFiniteSet(T)
    BY FS_Subset
  <2>2. /\ SumOver(f, T) \in Int /\ SumOver(f, T \cup {x}) = SumOver(f, T) + f[x]
        /\ SumOver(g, T) \in Int /\ SumOver(g, T \cup {x}) = SumOver(g, T) + g[x]
    BY <1>2, <2>1, SumAdd
  <2>3. f[x] \in Int /\ g[x] \in Int /\ f[x] <= g[x] /\ SumOver(f, T) <= SumOver(g, T)
    BY <1>2
  <2>4. SumOver(f, T \cup {x}) <= SumOver(g, T \cup {x})
    BY <2>2, <2>3
  <2>5. QED
    BY <2>4
<1> HIDE DEF P
<1>3. S \in P
  BY <1>1, <1>2, OneByOne
<1>4. QED
  BY <1>3 DEF P

\* One that is smaller makes the sum smaller.
LEMMA SumStrict ==
  ASSUME NEW f, NEW g, NEW S, IsFiniteSet(S),
         \A x \in S : f[x] \in Int /\ g[x] \in Int /\ f[x] <= g[x],
         NEW z \in S, f[z] < g[z]
  PROVE  SumOver(f, S) < SumOver(g, S)
<1>1. IsFiniteSet(S \ {z})
  BY FS_RemoveElement
<1>2. /\ SumOver(f, S) = f[z] + SumOver(f, S \ {z})
      /\ SumOver(g, S) = g[z] + SumOver(g, S \ {z})
  BY SumRemove
<1>3. \A x \in S \ {z} : f[x] \in Int /\ g[x] \in Int /\ f[x] <= g[x]
  OBVIOUS
<1>4. SumOver(f, S \ {z}) <= SumOver(g, S \ {z})
  BY <1>1, <1>3, SumMonotonic
<1>5. SumOver(f, S \ {z}) \in Int /\ SumOver(g, S \ {z}) \in Int
  BY <1>1, <1>3, SumRemove
<1>6. QED
  BY <1>2, <1>4, <1>5

\* Functions that agree on the set have the same sum.
LEMMA SumSame ==
  ASSUME NEW f, NEW g, NEW S, IsFiniteSet(S), \A x \in S : f[x] \in Int /\ f[x] = g[x]
  PROVE  SumOver(f, S) = SumOver(g, S)
<1>1. SumOver(f, S) <= SumOver(g, S) /\ SumOver(g, S) <= SumOver(f, S)
  BY SumMonotonic
<1>2. SumOver(f, S) \in Int /\ SumOver(g, S) \in Int
  BY SumRemove
<1>3. QED
  BY <1>1, <1>2

\* On S, h is a combination of f and g.
Combines(h, a, f, b, g, S) ==
  \A x \in S : f[x] \in Int /\ g[x] \in Int /\ h[x] = a * f[x] + b * g[x]

\* So is its sum one of theirs.
LEMMA SumLinear ==
  ASSUME NEW f, NEW g, NEW h, NEW a \in Int, NEW b \in Int, NEW S, IsFiniteSet(S),
         Combines(h, a, f, b, g, S)
  PROVE  SumOver(h, S) = a * SumOver(f, S) + b * SumOver(g, S)
<1> USE DEF Combines
<1> DEFINE P == {T \in SUBSET S : SumOver(h, T) = a * SumOver(f, T) + b * SumOver(g, T)}
<1>1. {} \in P
  BY SumEmpty
<1>2. ASSUME NEW T \in SUBSET S, NEW x \in S, T \in P, x \notin T PROVE T \cup {x} \in P
  <2>1. IsFiniteSet(T)
    BY FS_Subset
  <2>2. \A y \in S : h[y] \in Int
    OBVIOUS
  <2>3. /\ SumOver(f, T) \in Int /\ SumOver(f, T \cup {x}) = SumOver(f, T) + f[x]
        /\ SumOver(g, T) \in Int /\ SumOver(g, T \cup {x}) = SumOver(g, T) + g[x]
        /\ SumOver(h, T) \in Int /\ SumOver(h, T \cup {x}) = SumOver(h, T) + h[x]
    BY <1>2, <2>1, <2>2, SumAdd
  <2>4. /\ f[x] \in Int /\ g[x] \in Int /\ h[x] = a * f[x] + b * g[x]
        /\ SumOver(h, T) = a * SumOver(f, T) + b * SumOver(g, T)
    BY <1>2
  <2>5. \A i, j, k, l \in Int : a * i + b * j + (a * k + b * l) = a * (i + k) + b * (j + l)
    OBVIOUS
  <2>6. SumOver(h, T \cup {x}) = a * SumOver(f, T \cup {x}) + b * SumOver(g, T \cup {x})
    BY <2>3, <2>4, <2>5
  <2>7. QED
    BY <2>6
<1> HIDE DEF P
<1>3. S \in P
  BY <1>1, <1>2, OneByOne
<1>4. QED
  BY <1>3 DEF P

\* The sum of a constant.
LEMMA SumConstant ==
  ASSUME NEW f, NEW c \in Int, NEW S, IsFiniteSet(S), \A x \in S : f[x] = c
  PROVE  SumOver(f, S) = c * Cardinality(S)
<1> DEFINE P == {T \in SUBSET S : SumOver(f, T) = c * Cardinality(T)}
<1>1. {} \in P
  BY SumEmpty, FS_EmptySet
<1>2. ASSUME NEW T \in SUBSET S, NEW x \in S, T \in P, x \notin T PROVE T \cup {x} \in P
  <2>1. IsFiniteSet(T) /\ Cardinality(T) \in Nat /\ Cardinality(T \cup {x}) = Cardinality(T) + 1
    BY <1>2, FS_Subset, FS_CardinalityType, FS_AddElement
  <2>2. SumOver(f, T) \in Int /\ SumOver(f, T \cup {x}) = SumOver(f, T) + f[x]
    BY <1>2, <2>1, SumAdd
  <2>3. f[x] = c /\ SumOver(f, T) = c * Cardinality(T)
    BY <1>2
  <2>4. \A n \in Nat : c * n + c = c * (n + 1)
    OBVIOUS
  <2>5. SumOver(f, T \cup {x}) = c * Cardinality(T \cup {x})
    BY <2>1, <2>2, <2>3, <2>4
  <2>6. QED
    BY <2>5
<1> HIDE DEF P
<1>3. S \in P
  BY <1>1, <1>2, OneByOne
<1>4. QED
  BY <1>3 DEF P

\* The sum over two sets that have no element in common.
LEMMA SumUnion ==
  ASSUME NEW f, NEW S, IsFiniteSet(S), NEW T, IsFiniteSet(T), S \cap T = {},
         \A x \in S \cup T : f[x] \in Int
  PROVE  SumOver(f, S \cup T) = SumOver(f, S) + SumOver(f, T)
<1> DEFINE P == {U \in SUBSET T : SumOver(f, S \cup U) = SumOver(f, S) + SumOver(f, U)}
<1>0. SumOver(f, S) \in Int
  BY SumRemove
<1>1. {} \in P
  <2>1. S \cup {} = S
    OBVIOUS
  <2>2. QED
    BY <1>0, <2>1, SumEmpty
<1>2. ASSUME NEW U \in SUBSET T, NEW x \in T, U \in P, x \notin U PROVE U \cup {x} \in P
  <2>1. IsFiniteSet(U) /\ IsFiniteSet(S \cup U) /\ x \notin S \cup U
    BY <1>2, FS_Subset, FS_Union
  <2>2. S \cup (U \cup {x}) = (S \cup U) \cup {x}
    OBVIOUS
  <2>3. /\ SumOver(f, U) \in Int /\ SumOver(f, U \cup {x}) = SumOver(f, U) + f[x]
        /\ SumOver(f, (S \cup U) \cup {x}) = SumOver(f, S \cup U) + f[x]
    BY <1>2, <2>1, SumAdd
  <2>4. f[x] \in Int /\ SumOver(f, S \cup U) = SumOver(f, S) + SumOver(f, U)
    BY <1>2
  <2>5. SumOver(f, (S \cup U) \cup {x}) = SumOver(f, S) + (SumOver(f, U) + f[x])
    BY <1>0, <2>3, <2>4
  <2>6. SumOver(f, S \cup (U \cup {x})) = SumOver(f, S) + SumOver(f, U \cup {x})
    BY <2>2, <2>3, <2>5
  <2>7. QED
    BY <2>6
<1> HIDE DEF P
<1>3. T \in P
  BY <1>1, <1>2, OneByOne
<1>4. QED
  BY <1>3 DEF P

\* b maps S one-to-one onto U, and there f is what g is on S.
Reindexes(b, S, U, g, f) ==
  /\ \A x \in S : b[x] \in U
  /\ \A z \in U : \E x \in S : b[x] = z
  /\ \A x, y \in S : b[x] = b[y] => x = y
  /\ \A x \in S : f[b[x]] \in Int /\ g[x] = f[b[x]]

\* Then it does not matter which of them is summed up.
LEMMA SumReindexed ==
  ASSUME NEW f, NEW g, NEW b, NEW S, IsFiniteSet(S), NEW U, Reindexes(b, S, U, g, f)
  PROVE  IsFiniteSet(U) /\ SumOver(f, U) = SumOver(g, S)
<1> DEFINE B(T) == {b[x] : x \in T}
           P == {T \in SUBSET S : IsFiniteSet(B(T)) /\ SumOver(f, B(T)) = SumOver(g, T)}
<1>1. {} \in P
  <2>1. B({}) = {}
    OBVIOUS
  <2>2. QED
    BY <2>1, SumEmpty, FS_EmptySet
<1>2. ASSUME NEW T \in SUBSET S, NEW x \in S, T \in P, x \notin T PROVE T \cup {x} \in P
  <2>1. IsFiniteSet(T) /\ IsFiniteSet(B(T))
    BY <1>2, FS_Subset
  <2>2. B(T \cup {x}) = B(T) \cup {b[x]} /\ b[x] \notin B(T)
    BY <1>2 DEF Reindexes
  <2>3. \A y \in B(T) \cup {b[x]} : f[y] \in Int
    BY DEF Reindexes
  <2>4. \A y \in T \cup {x} : g[y] \in Int
    BY DEF Reindexes
  <2> HIDE DEF B
  <2>5. SumOver(f, B(T) \cup {b[x]}) = SumOver(f, B(T)) + f[b[x]]
    BY <2>1, <2>2, <2>3, SumAdd
  <2>6. SumOver(g, T \cup {x}) = SumOver(g, T) + g[x]
    BY <1>2, <2>1, <2>4, SumAdd
  <2>7. SumOver(f, B(T)) = SumOver(g, T) /\ f[b[x]] = g[x]
    BY <1>2 DEF Reindexes
  <2>8. IsFiniteSet(B(T) \cup {b[x]})
    BY <2>1, FS_AddElement
  <2>9. QED
    BY <2>2, <2>5, <2>6, <2>7, <2>8
<1>3. B(S) = U
  BY DEF Reindexes
<1> HIDE DEF P
<1>4. S \in P
  BY <1>1, <1>2, OneByOne
<1>5. QED
  BY <1>3, <1>4 DEF P

\* x maps S onto U, but elements for which f is 0 to d, and is one-to-one otherwise.
Assigns(x, d, S, U, f, c) ==
  /\ \A m \in S : (x[m] = d /\ f[m] = 0) \/ (x[m] # d /\ x[m] \in U)
  /\ \A z \in U : z # d /\ \E m \in S : x[m] = z
  /\ \A l, m \in S : x[l] = x[m] /\ x[l] # d => l = m
  /\ \A m \in S : x[m] # d => c[x[m]] \in Int /\ f[m] = c[x[m]]

\* Then it does not matter either.
LEMMA SumThrough ==
  ASSUME NEW c, NEW x, NEW d, NEW S, IsFiniteSet(S), NEW f, NEW U,
         Assigns(x, d, S, U, f, c)
  PROVE  IsFiniteSet(U) /\ SumOver(f, S) = SumOver(c, U)
<1>1. PICK Q, R : Q = {m \in S : x[m] # d} /\ R = {m \in S : x[m] = d}
  OBVIOUS
<1>2. IsFiniteSet(Q) /\ IsFiniteSet(R) /\ Q \cap R = {} /\ Q \cup R = S
  BY <1>1, FS_Subset
<1>3. \A m \in S : f[m] \in Int
  BY DEF Assigns
<1>4. SumOver(f, S) = SumOver(f, Q) + SumOver(f, R)
  BY <1>2, <1>3, SumUnion
<1>5. SumOver(f, R) = 0
  <2>1. \A m \in R : f[m] = 0
    BY <1>1 DEF Assigns
  <2>2. SumOver(f, R) = 0 * Cardinality(R) /\ Cardinality(R) \in Nat
    BY <1>2, <2>1, SumConstant, FS_CardinalityType
  <2>3. QED
    BY <2>2
<1>6. Reindexes(x, Q, U, f, c)
  BY <1>1 DEF Assigns, Reindexes
<1>7. IsFiniteSet(U) /\ SumOver(c, U) = SumOver(f, Q)
  BY <1>2, <1>6, SumReindexed
<1>8. SumOver(f, Q) \in Int
  BY <1>2, <1>3, SumRemove
<1>9. SumOver(f, S) = SumOver(f, Q)
  BY <1>4, <1>5, <1>8
<1>10. QED
  BY <1>7, <1>9

\* A set that leaves out what is negative only, and has what is positive only in
\* exchange, has no smaller sum.
LEMMA SumOfSigns ==
  ASSUME NEW f, NEW S, IsFiniteSet(S), NEW T, IsFiniteSet(T),
         \A x \in S : f[x] \in Int /\ f[x] <= 0,
         \A x \in T \ S : f[x] \in Int /\ f[x] >= 0
  PROVE  SumOver(f, S) <= SumOver(f, T)
<1> DEFINE both == S \cap T
           left == S \ T
           right == T \ S
           zero == [x \in S \cup T |-> 0]
<1>1. /\ IsFiniteSet(both) /\ IsFiniteSet(left) /\ IsFiniteSet(right)
      /\ both \cup left = S /\ both \cup right = T
      /\ both \cap left = {} /\ both \cap right = {}
  BY FS_Subset
<1>2. /\ \A x \in left : f[x] \in Int /\ zero[x] = 0 /\ f[x] <= zero[x]
      /\ \A x \in right : f[x] \in Int /\ zero[x] = 0 /\ zero[x] <= f[x]
      /\ \A x \in both : f[x] \in Int
  OBVIOUS
<1> HIDE DEF both, left, right, zero
<1>3. /\ SumOver(f, S) = SumOver(f, both) + SumOver(f, left)
      /\ SumOver(f, T) = SumOver(f, both) + SumOver(f, right)
  BY <1>1, <1>2, SumUnion
<1>4. SumOver(f, left) <= SumOver(zero, left) /\ SumOver(zero, right) <= SumOver(f, right)
  BY <1>1, <1>2, SumMonotonic
<1>5. SumOver(zero, left) = 0 /\ SumOver(zero, right) = 0
  <2>1. /\ SumOver(zero, left) = 0 * Cardinality(left) /\ Cardinality(left) \in Nat
        /\ SumOver(zero, right) = 0 * Cardinality(right) /\ Cardinality(right) \in Nat
    BY <1>1, <1>2, SumConstant, FS_CardinalityType
  <2>2. QED
    BY <2>1
<1>6. SumOver(f, both) \in Int /\ SumOver(f, left) \in Int /\ SumOver(f, right) \in Int
  BY <1>1, <1>2, SumRemove
<1>7. QED
  BY <1>3, <1>4, <1>5, <1>6

\* On S, f consists of four parts.
AddsUp(f, a, b, c, d, S) ==
  \A x \in S : /\ a[x] \in Int /\ b[x] \in Int /\ c[x] \in Int /\ d[x] \in Int
               /\ f[x] = a[x] + b[x] + c[x] + d[x]

\* So does its sum.
LEMMA SumOfParts ==
  ASSUME NEW S, IsFiniteSet(S), NEW a, NEW b, NEW c, NEW d, NEW f,
         AddsUp(f, a, b, c, d, S)
  PROVE  /\ SumOver(a, S) \in Int /\ SumOver(b, S) \in Int
         /\ SumOver(c, S) \in Int /\ SumOver(d, S) \in Int
         /\ SumOver(f, S) = SumOver(a, S) + SumOver(b, S) + SumOver(c, S) + SumOver(d, S)
<1>1. PICK ab, cd : /\ ab = [x \in S |-> a[x] + b[x]]
                    /\ cd = [x \in S |-> c[x] + d[x]]
  OBVIOUS
<1>2. \A x \in S : /\ ab[x] \in Int /\ cd[x] \in Int
                   /\ ab[x] = 1 * a[x] + 1 * b[x] /\ cd[x] = 1 * c[x] + 1 * d[x]
                   /\ f[x] = 1 * ab[x] + 1 * cd[x]
  BY <1>1 DEF AddsUp
<1>3. /\ SumOver(a, S) \in Int /\ SumOver(b, S) \in Int
      /\ SumOver(c, S) \in Int /\ SumOver(d, S) \in Int
      /\ SumOver(ab, S) \in Int /\ SumOver(cd, S) \in Int
  BY <1>2, SumRemove DEF AddsUp
<1>4. SumOver(ab, S) = 1 * SumOver(a, S) + 1 * SumOver(b, S)
  <2>1. \A x \in S : a[x] \in Int /\ b[x] \in Int /\ ab[x] = 1 * a[x] + 1 * b[x]
    BY <1>2 DEF AddsUp
  <2>2. QED
    BY <2>1, SumLinear DEF Combines
<1>5. SumOver(cd, S) = 1 * SumOver(c, S) + 1 * SumOver(d, S)
  <2>1. \A x \in S : c[x] \in Int /\ d[x] \in Int /\ cd[x] = 1 * c[x] + 1 * d[x]
    BY <1>2 DEF AddsUp
  <2>2. QED
    BY <2>1, SumLinear DEF Combines
<1>6. SumOver(f, S) = 1 * SumOver(ab, S) + 1 * SumOver(cd, S)
  <2>1. \A x \in S : ab[x] \in Int /\ cd[x] \in Int /\ f[x] = 1 * ab[x] + 1 * cd[x]
    BY <1>2
  <2>2. QED
    BY <2>1, SumLinear DEF Combines
<1>7. QED
  BY <1>3, <1>4, <1>5, <1>6

\* An exchange of D for T that costs no more in two parts: a, which the element
\* pays for itself, and b, which it pays for what it is exchanged with.
Exchange(D, T, k, a, b, c, f, bT, cT, fT) ==
  /\ \A x \in D : /\ a[x] \in Int /\ b[x] \in Int /\ c[x] \in Int
                  /\ f[x] = a[x] + b[x] + c[x] + k
                  /\ a[x] <= 0 /\ b[x] <= 0
  /\ \A x \in T : /\ a[x] \in Int /\ bT[x] \in Int /\ cT[x] \in Int
                  /\ fT[x] = a[x] + bT[x] + cT[x] + k
                  /\ x \in D \/ a[x] >= 0
                  /\ (x \in D /\ bT[x] = b[x]) \/ bT[x] >= 0

\* If it costs no more in the third, it costs no more.
LEMMA SumOfExchange ==
  ASSUME NEW D, IsFiniteSet(D), NEW T, IsFiniteSet(T), Cardinality(D) = Cardinality(T),
         NEW k \in Int, NEW a, NEW b, NEW c, NEW f, NEW bT, NEW cT, NEW fT,
         Exchange(D, T, k, a, b, c, f, bT, cT, fT),
         SumOver(c, D) <= SumOver(cT, T)
  PROVE  SumOver(f, D) <= SumOver(fT, T)
<1>1. SumOver(a, D) <= SumOver(a, T)
  <2>1. /\ \A x \in D : a[x] \in Int /\ a[x] <= 0
        /\ \A x \in T \ D : a[x] \in Int /\ a[x] >= 0
    BY DEF Exchange
  <2>2. QED
    BY <2>1, SumOfSigns
<1>2. SumOver(b, D) <= SumOver(bT, T)
  <2>1. PICK both : both = [x \in D \cup T |-> IF x \in D THEN b[x] ELSE bT[x]]
    OBVIOUS
  <2>2. /\ \A x \in D : both[x] = b[x] /\ b[x] \in Int /\ both[x] \in Int /\ both[x] <= 0
        /\ \A x \in T \ D : both[x] \in Int /\ both[x] >= 0
        /\ \A x \in T : both[x] \in Int /\ bT[x] \in Int /\ both[x] <= bT[x]
    BY <2>1 DEF Exchange
  <2>3. SumOver(b, D) = SumOver(both, D)
    BY <2>2, SumSame
  <2>4. SumOver(both, D) <= SumOver(both, T)
    BY <2>2, SumOfSigns
  <2>5. SumOver(both, T) <= SumOver(bT, T)
    BY <2>2, SumMonotonic
  <2>6. SumOver(both, D) \in Int /\ SumOver(both, T) \in Int /\ SumOver(bT, T) \in Int
    BY <2>2, SumRemove
  <2>7. QED
    BY <2>3, <2>4, <2>5, <2>6
<1>3. PICK d : d = [x \in D \cup T |-> k]
  OBVIOUS
<1>4. SumOver(d, D) = SumOver(d, T)
  <2>1. (\A x \in D : d[x] = k) /\ (\A x \in T : d[x] = k)
    BY <1>3
  <2>2. SumOver(d, D) = k * Cardinality(D) /\ SumOver(d, T) = k * Cardinality(T)
    BY <2>1, SumConstant
  <2>3. QED
    BY <2>2
<1>5. /\ SumOver(a, D) \in Int /\ SumOver(b, D) \in Int
      /\ SumOver(c, D) \in Int /\ SumOver(d, D) \in Int
      /\ SumOver(f, D) = SumOver(a, D) + SumOver(b, D) + SumOver(c, D) + SumOver(d, D)
  <2>1. AddsUp(f, a, b, c, d, D)
    BY <1>3 DEF AddsUp, Exchange
  <2>2. QED
    BY <2>1, SumOfParts
<1>6. /\ SumOver(a, T) \in Int /\ SumOver(bT, T) \in Int
      /\ SumOver(cT, T) \in Int /\ SumOver(d, T) \in Int
      /\ SumOver(fT, T) = SumOver(a, T) + SumOver(bT, T) + SumOver(cT, T) + SumOver(d, T)
  <2>1. AddsUp(fT, a, bT, cT, d, T)
    BY <1>3 DEF AddsUp, Exchange
  <2>2. QED
    BY <2>1, SumOfParts
<1>7. QED
  BY <1>1, <1>2, <1>4, <1>5, <1>6

\* S and T have ends, which their elements do not share; f goes by the ends, is not
\* positive for those of S and not negative for the others.
GoesByEnds(b, h, f, S, T) ==
  /\ \A x, y \in S : b[x] = b[y] => x = y
  /\ \A x, y \in T : b[x] = b[y] => x = y
  /\ \A x \in S : h[b[x]] \in Int /\ h[b[x]] <= 0 /\ f[x] = h[b[x]]
  /\ \A x \in T : h[b[x]] \in Int /\ f[x] = h[b[x]]
  /\ \A x \in T : (\E y \in S : b[y] = b[x]) \/ h[b[x]] >= 0

\* Then S has no larger sum, for it has what is not positive whenever T has it.
LEMMA SumOfEnds ==
  ASSUME NEW S, IsFiniteSet(S), NEW T, IsFiniteSet(T), NEW b, NEW h, NEW f,
         GoesByEnds(b, h, f, S, T)
  PROVE  SumOver(f, S) <= SumOver(f, T)
<1>1. PICK U, V : U = {b[x] : x \in S} /\ V = {b[x] : x \in T}
  OBVIOUS
<1>2. Reindexes(b, S, U, f, h)
  BY <1>1 DEF GoesByEnds, Reindexes
<1>3. Reindexes(b, T, V, f, h)
  BY <1>1 DEF GoesByEnds, Reindexes
<1>4. /\ IsFiniteSet(U) /\ SumOver(h, U) = SumOver(f, S)
      /\ IsFiniteSet(V) /\ SumOver(h, V) = SumOver(f, T)
  BY <1>2, <1>3, SumReindexed
<1>5. /\ \A z \in U : h[z] \in Int /\ h[z] <= 0
      /\ \A z \in V \ U : h[z] \in Int /\ h[z] >= 0
  BY <1>1 DEF GoesByEnds
<1>6. SumOver(h, U) <= SumOver(h, V)
  BY <1>4, <1>5, SumOfSigns
<1>7. QED
  BY <1>4, <1>6

-----------------------------------------------------------------------------
(* Counting by sums. *)

\* f is a table of numbers, r what its rows and c what its columns add up to.
IsTable(f, r, c, S, T) ==
  /\ \A x \in S : \A y \in T : f[x][y] \in Int
  /\ \A x \in S : r[x] = SumOver(f[x], T)
  /\ \A y \in T : c[y] = SumOver([x \in S |-> f[x][y]], S)

\* Its rows and its columns add up to the same.
LEMMA SumByColumns ==
  ASSUME NEW S, IsFiniteSet(S), NEW T, IsFiniteSet(T),
         NEW f, NEW r, NEW c, IsTable(f, r, c, S, T)
  PROVE  SumOver(r, S) = SumOver(c, T)
<1> USE DEF IsTable
<1> DEFINE Rows(U) == [x \in S |-> SumOver(f[x], U)]
           Column(y) == [x \in S |-> f[x][y]]
           P == {U \in SUBSET T : SumOver(Rows(U), S) = SumOver(c, U)}
<1>1. \A y \in T : c[y] = SumOver(Column(y), S) /\ c[y] \in Int
  <2>1. SUFFICES ASSUME NEW y \in T PROVE c[y] = SumOver(Column(y), S) /\ c[y] \in Int
    OBVIOUS
  <2>2. \A x \in S : Column(y)[x] \in Int
    OBVIOUS
  <2>3. c[y] = SumOver(Column(y), S)
    OBVIOUS
  <2> HIDE DEF Column
  <2>4. QED
    BY <2>2, <2>3, SumRemove
<1>2. {} \in P
  <2>1. \A x \in S : Rows({})[x] = 0
    BY SumEmpty
  <2>2. PICK g : g = Rows({})
    OBVIOUS
  <2>3. SumOver(g, S) = 0 * Cardinality(S)
    BY <2>1, <2>2, SumConstant
  <2>4. Cardinality(S) \in Nat
    BY FS_CardinalityType
  <2>5. SumOver(Rows({}), S) = 0
    BY <2>2, <2>3, <2>4
  <2>6. QED
    BY <2>5, SumEmpty
<1>3. ASSUME NEW U \in SUBSET T, NEW y \in T, U \in P, y \notin U PROVE U \cup {y} \in P
  <2>1. IsFiniteSet(U) /\ y \in T /\ \A z \in U \cup {y} : z \in T
    BY FS_Subset
  <2>2. ASSUME NEW x \in S
        PROVE  /\ SumOver(f[x], U) \in Int /\ f[x][y] \in Int
               /\ SumOver(f[x], U \cup {y}) = SumOver(f[x], U) + f[x][y]
    <3>1. PICK g : g = f[x]
      OBVIOUS
    <3>2. \A z \in U \cup {y} : g[z] \in Int
      BY <2>1, <3>1
    <3>3. SumOver(g, U) \in Int /\ SumOver(g, U \cup {y}) = SumOver(g, U) + g[y]
      BY <1>3, <2>1, <3>2, SumAdd
    <3>4. QED
      BY <2>1, <3>1, <3>3
  <2>3. PICK a : a = Rows(U)
    OBVIOUS
  <2>4. PICK b : b = Column(y)
    OBVIOUS
  <2>5. PICK d : d = Rows(U \cup {y})
    OBVIOUS
  <2>6. \A x \in S : /\ a[x] \in Int /\ b[x] \in Int
                     /\ d[x] = 1 * a[x] + 1 * b[x]
    <3>1. ASSUME NEW x \in S
          PROVE  /\ a[x] = SumOver(f[x], U) /\ b[x] = f[x][y]
                 /\ d[x] = SumOver(f[x], U \cup {y})
      BY <2>3, <2>4, <2>5
    <3>2. SUFFICES ASSUME NEW x \in S
                   PROVE  a[x] \in Int /\ b[x] \in Int /\ d[x] = 1 * a[x] + 1 * b[x]
      OBVIOUS
    <3>3. PICK u, v : u = SumOver(f[x], U) /\ v = f[x][y]
      OBVIOUS
    <3>4. u \in Int /\ v \in Int /\ a[x] = u /\ b[x] = v /\ d[x] = u + v
      BY <2>2, <3>1, <3>3
    <3>5. QED
      BY <3>4
  <2>7. Combines(d, 1, a, 1, b, S)
    BY <2>6 DEF Combines
  <2>8. SumOver(d, S) = 1 * SumOver(a, S) + 1 * SumOver(b, S)
    BY <2>7, SumLinear
  <2>9. SumOver(b, S) = c[y] /\ c[y] \in Int /\ SumOver(a, S) = SumOver(c, U)
    BY <1>1, <1>3, <2>3, <2>4
  <2>10. SumOver(c, U) \in Int /\ SumOver(c, U \cup {y}) = SumOver(c, U) + c[y]
    <3>1. \A z \in U \cup {y} : c[z] \in Int
      BY <1>1, <2>1
    <3>2. QED
      BY <1>3, <2>1, <3>1, SumAdd
  <2>11. SumOver(d, S) = SumOver(c, U \cup {y})
    BY <2>8, <2>9, <2>10
  <2>12. QED
    BY <2>5, <2>11
<1>4. T \in P
  <2> HIDE DEF P
  <2>1. QED
    BY <1>2, <1>3, OneByOne
<1>5. SumOver(Rows(T), S) = SumOver(c, T)
  BY <1>4
<1>6. \A x \in S : Rows(T)[x] = r[x] /\ r[x] \in Int
  <2>1. SUFFICES ASSUME NEW x \in S PROVE r[x] \in Int
    OBVIOUS
  <2>2. PICK g : g = f[x] /\ \A y \in T : g[y] \in Int
    OBVIOUS
  <2>3. SumOver(g, T) \in Int
    BY <2>2, SumRemove
  <2>4. QED
    BY <2>2, <2>3
<1> HIDE DEF Rows
<1>7. SumOver(r, S) = SumOver(Rows(T), S)
  BY <1>6, SumSame
<1>8. QED
  BY <1>5, <1>7

\* The elements of a part of S, counted.
LEMMA SumOfMembers ==
  ASSUME NEW S, IsFiniteSet(S), NEW A \in SUBSET S,
         NEW f, \A x \in S : f[x] = IF x \in A THEN 1 ELSE 0
  PROVE  IsFiniteSet(A) /\ SumOver(f, S) = Cardinality(A)
<1>1. PICK B : B = S \ A
  OBVIOUS
<1>2. IsFiniteSet(A) /\ IsFiniteSet(B) /\ A \cap B = {} /\ A \cup B = S
  BY <1>1, FS_Subset
<1>3. \A x \in A \cup B : f[x] \in Int
  BY <1>2
<1>4. SumOver(f, S) = SumOver(f, A) + SumOver(f, B)
  BY <1>2, <1>3, SumUnion
<1>5. SumOver(f, A) = 1 * Cardinality(A)
  BY <1>2, SumConstant
<1>6. \A x \in B : f[x] = 0
  BY <1>1
<1>7. SumOver(f, B) = 0 * Cardinality(B)
  BY <1>2, <1>6, SumConstant
<1>8. Cardinality(A) \in Nat /\ Cardinality(B) \in Nat
  BY <1>2, FS_CardinalityType
<1>9. QED
  BY <1>2, <1>4, <1>5, <1>7, <1>8

\* f is how many elements of D are mapped to an element of S by g.
CountsPreimages(f, g, D, S) ==
  /\ \A i \in D : g[i] \in S
  /\ \A x \in S : f[x] = Cardinality({i \in D : g[i] = x})

\* Then all of D is counted.
LEMMA SumOfPreimages ==
  ASSUME NEW D, IsFiniteSet(D), NEW S, IsFiniteSet(S),
         NEW g, NEW f, CountsPreimages(f, g, D, S)
  PROVE  SumOver(f, S) = Cardinality(D)
<1> USE DEF CountsPreimages
<1> DEFINE Over(T) == {i \in D : g[i] \in T}
           P == {T \in SUBSET S : SumOver(f, T) = Cardinality(Over(T))}
<1>1. {} \in P
  <2>1. Over({}) = {}
    OBVIOUS
  <2>2. QED
    BY <2>1, SumEmpty, FS_EmptySet
<1>2. \A T : IsFiniteSet(Over(T))
  BY FS_Subset
<1>3. \A x \in S : f[x] = Cardinality(Over({x})) /\ f[x] \in Int
  <2>1. SUFFICES ASSUME NEW x \in S
                 PROVE  f[x] = Cardinality(Over({x})) /\ f[x] \in Int
    OBVIOUS
  <2>2. {i \in D : g[i] = x} = Over({x})
    OBVIOUS
  <2> HIDE DEF Over
  <2>3. f[x] = Cardinality(Over({x}))
    BY <2>2, Zenon
  <2>4. Cardinality(Over({x})) \in Nat
    BY <1>2, FS_CardinalityType
  <2>5. QED
    BY <2>3, <2>4
<1>4. ASSUME NEW T \in SUBSET S, NEW x \in S, T \in P, x \notin T PROVE T \cup {x} \in P
  <2>1. Over(T \cup {x}) = Over(T) \cup Over({x}) /\ Over(T) \cap Over({x}) = {}
    BY <1>4
  <2>2. IsFiniteSet(T) /\ \A y \in T \cup {x} : f[y] \in Int
    BY <1>3, FS_Subset
  <2>3. SumOver(f, T \cup {x}) = SumOver(f, T) + f[x]
    BY <1>4, <2>2, SumAdd
  <2>4. SumOver(f, T) = Cardinality(Over(T)) /\ f[x] = Cardinality(Over({x}))
    BY <1>3, <1>4
  <2> HIDE DEF Over
  <2>5. /\ Cardinality(Over(T)) \in Nat /\ Cardinality(Over({x})) \in Nat
        /\ Cardinality(Over(T) \cup Over({x})) = Cardinality(Over(T)) + Cardinality(Over({x}))
    <3>1. PICK X, Y : X = Over(T) /\ Y = Over({x})
      OBVIOUS
    <3>2. IsFiniteSet(X) /\ IsFiniteSet(Y) /\ X \cap Y = {}
      BY <1>2, <2>1, <3>1
    <3>3. Cardinality(X) \in Nat /\ Cardinality(Y) \in Nat /\ Cardinality({}) = 0
      BY <3>2, FS_EmptySet, FS_CardinalityType
    <3>4. Cardinality(X \cup Y) = Cardinality(X) + Cardinality(Y)
      <4>1. Cardinality(X \cup Y)
              = Cardinality(X) + Cardinality(Y) - Cardinality(X \cap Y)
        BY <3>2, FS_Union
      <4>2. Cardinality(X \cap Y) = 0
        BY <3>2, <3>3, Zenon
      <4>3. QED
        BY <3>3, <4>1, <4>2
    <3>5. QED
      BY <3>1, <3>3, <3>4
  <2>6. QED
    BY <2>1, <2>3, <2>4, <2>5
<1>5. S \in P
  <2> HIDE DEF P
  <2>1. QED
    BY <1>1, <1>4, OneByOne
<1>6. Over(S) = D
  OBVIOUS
<1>7. QED
  BY <1>5, <1>6

\* Of natural numbers a part adds up to no more than all of them.
LEMMA SumOfPart ==
  ASSUME NEW S, IsFiniteSet(S), NEW T \in SUBSET S, NEW f, \A x \in S : f[x] \in Nat
  PROVE  /\ SumOver(f, T) \in Nat /\ SumOver(f, S) \in Nat
         /\ SumOver(f, T) <= SumOver(f, S)
<1>1. PICK R : R = S \ T
  OBVIOUS
<1>2. IsFiniteSet(T) /\ IsFiniteSet(R) /\ T \cap R = {} /\ T \cup R = S
  BY <1>1, FS_Subset
<1>3. ASSUME NEW U \in SUBSET S PROVE SumOver(f, U) \in Nat
  <2>1. IsFiniteSet(U)
    BY FS_Subset
  <2>2. PICK zero : zero = [x \in U |-> 0]
    OBVIOUS
  <2>3. \A x \in U : zero[x] = 0
    BY <2>2
  <2>4. SumOver(zero, U) = 0 * Cardinality(U) /\ Cardinality(U) \in Nat
    BY <2>1, <2>3, SumConstant, FS_CardinalityType
  <2>5. \A x \in U : zero[x] \in Int /\ f[x] \in Int /\ zero[x] <= f[x]
    BY <2>3
  <2>6. SumOver(zero, U) <= SumOver(f, U) /\ SumOver(f, U) \in Int
    BY <2>1, <2>5, SumMonotonic, SumRemove
  <2>7. QED
    BY <2>4, <2>6
<1>4. \A x \in T \cup R : f[x] \in Int
  BY <1>2
<1>5. SumOver(f, T \cup R) = SumOver(f, T) + SumOver(f, R)
  BY <1>2, <1>4, SumUnion
<1>6. SumOver(f, T \cup R) = SumOver(f, S)
  BY <1>2, Zenon
<1>7. SumOver(f, T) \in Nat /\ SumOver(f, R) \in Nat /\ SumOver(f, S) \in Nat
  BY <1>1, <1>3
<1>8. QED
  BY <1>5, <1>6, <1>7
=============================================================================
