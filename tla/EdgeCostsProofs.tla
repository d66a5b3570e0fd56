-------------------------- MODULE EdgeCostsProofs --------------------------
(***************************************************************************)
(* What TLAPS proves of EdgeCosts, for all nodes, edges and shares.        *)
(*                                                                         *)
(* Part 1 is about fractions: whatever they are reduced to, they stand for *)
(* the quotient that they were computed as.  Part 2 is about the raw costs *)
(* and their sums.  Part 3 is the invariant of the balancing, and Part 4   *)
(* what it means for the cached costs.                                     *)
(***************************************************************************)
EXTENDS EdgeCosts, FiniteSums

-----------------------------------------------------------------------------
(* Part 1: fractions. *)

\* The fraction a is n/d.
StandsFor(a, n, d) ==
  /\ IsFraction(a)
  /\ n \in Int /\ d \in Int /\ d # 0
  /\ a[1] * d = n * a[2]

\* A fraction as a pair.
LEMMA FractionParts ==
  ASSUME NEW a, IsFraction(a)
  PROVE  /\ a[1] \in Int /\ a[2] \in Nat /\ a[2] > 0
         /\ a = <<a[1], a[2]>> /\ StandsFor(a, a[1], a[2])
<1>1. a[1] \in Int /\ a[2] \in Nat /\ a[2] > 0 /\ a = <<a[1], a[2]>>
  BY DEF IsFraction
<1>2. QED
  BY <1>1 DEF StandsFor

\* What is multiplied by the same number and equal then was equal before, ...
LEMMA Cancel ==
  ASSUME NEW x \in Int, NEW y \in Int, NEW d \in Int, d # 0, x * d = y * d
  PROVE  x = y
  OBVIOUS

\* ... and likewise for what is less.
LEMMA CancelInOrder ==
  ASSUME NEW x \in Int, NEW y \in Int, NEW d \in Int, d > 0
  PROVE  x <= y <=> x * d <= y * d
<1>1. x <= y => x * d <= y * d
  OBVIOUS
<1>2. x * d <= y * d => x <= y
  OBVIOUS
<1>3. QED
  BY <1>1, <1>2

LEMMA ProductNotZero ==
  ASSUME NEW x \in Int, NEW y \in Int, x # 0, y # 0
  PROVE  x * y \in Int /\ x * y # 0
  OBVIOUS

\* Reducing a fraction divides its parts by a number that divides both.
LEMMA ReducedIs ==
  ASSUME NEW n \in Int, NEW d \in Nat, d > 0
  PROVE  StandsFor(Reduced(n, d), n, d)
<1>1. PICK S : S = {k \in 1 .. d : n % k = 0 /\ d % k = 0}
  OBVIOUS
<1>2. 1 \in S
  BY <1>1
<1>3. S \in SUBSET Nat /\ S # {} /\ \A k \in S : k <= d
  BY <1>1, <1>2
<1>4. PICK g : g = Max(S) /\ g \in S
  BY <1>3, Greatest
<1>5. g \in Nat /\ g > 0 /\ n % g = 0 /\ d % g = 0
  BY <1>1, <1>4
<1>6. PICK p, q : p = n \div g /\ q = d \div g
  OBVIOUS
<1>7. p \in Int /\ q \in Int /\ n = g * p /\ d = g * q
  <2>1. n = g * (n \div g) + (n % g) /\ n \div g \in Int
    BY <1>5
  <2>2. d = g * (d \div g) + (d % g) /\ d \div g \in Int
    BY <1>5
  <2>3. g * p \in Int /\ g * q \in Int
    BY <1>5, <1>6, <2>1, <2>2
  <2>4. QED
    BY <1>5, <1>6, <2>1, <2>2, <2>3
<1>8. q > 0
  BY <1>5, <1>7
<1>9. Reduced(n, d) = <<p, q>>
  BY <1>1, <1>4, <1>6, Zenon DEF Reduced
<1>10. p * d = n * q
  BY <1>5, <1>7
<1>11. QED
  BY <1>7, <1>8, <1>9, <1>10 DEF StandsFor, IsFraction

LEMMA FractionIs ==
  ASSUME NEW n \in Int, NEW d \in Int, d # 0
  PROVE  StandsFor(Fraction(n, d), n, d)
<1>1. CASE d > 0
  <2>1. d \in Nat
    BY <1>1
  <2>2. QED
    BY <1>1, <2>1, ReducedIs DEF Fraction
<1>2. CASE ~(d > 0)
  <2>1. PICK m, e : m = -n /\ e = -d
    OBVIOUS
  <2>2. m \in Int /\ e \in Nat /\ e > 0
    BY <1>2, <2>1
  <2>3. PICK a : a = Reduced(m, e)
    OBVIOUS
  <2>4. Fraction(n, d) = a
    BY <1>2, <2>1, <2>3 DEF Fraction
  <2>5. StandsFor(a, m, e)
    BY <2>2, <2>3, ReducedIs
  <2>6. a[1] \in Int /\ a[2] \in Int /\ a[1] * e = m * a[2] /\ IsFraction(a)
    BY <2>5 DEF StandsFor, IsFraction
  <2>7. a[1] * d = n * a[2]
    BY <2>1, <2>6
  <2>8. QED
    BY <2>4, <2>6, <2>7 DEF StandsFor
<1>3. QED
  BY <1>1, <1>2

\* Fractions are multiplied, ...
LEMMA TimesIs ==
  ASSUME NEW a, NEW n, NEW d, StandsFor(a, n, d), NEW b, NEW m, NEW e, StandsFor(b, m, e)
  PROVE  StandsFor(Times(a, b), n * m, d * e)
<1>1. /\ a[1] \in Int /\ a[2] \in Int /\ a[2] > 0 /\ n \in Int /\ d \in Int /\ d # 0
      /\ a[1] * d = n * a[2]
  BY FractionParts DEF StandsFor
<1>2. /\ b[1] \in Int /\ b[2] \in Int /\ b[2] > 0 /\ m \in Int /\ e \in Int /\ e # 0
      /\ b[1] * e = m * b[2]
  BY FractionParts DEF StandsFor
<1>3. PICK p, q, r, s : p = a[1] /\ q = a[2] /\ r = b[1] /\ s = b[2]
  OBVIOUS
<1>4. /\ p \in Int /\ q \in Int /\ r \in Int /\ s \in Int /\ q * s # 0
      /\ p * d = n * q /\ r * e = m * s
  BY <1>1, <1>2, <1>3
<1>5. PICK t : t = Times(a, b)
  OBVIOUS
<1>6. StandsFor(t, p * r, q * s)
  BY <1>3, <1>4, <1>5, FractionIs DEF Times
<1>7. PICK x, y : x = t[1] /\ y = t[2]
  OBVIOUS
<1>8. x \in Int /\ y \in Int /\ x * (q * s) = (p * r) * y
  BY <1>6, <1>7, FractionParts DEF StandsFor
<1>9. (x * (d * e)) * (q * s) = ((n * m) * y) * (q * s)
  <2>1. (x * (d * e)) * (q * s) = (x * (q * s)) * (d * e)
    BY <1>1, <1>2, <1>4, <1>8
  <2>2. ((p * r) * y) * (d * e) = ((p * d) * (r * e)) * y
    BY <1>1, <1>2, <1>4, <1>8
  <2>3. ((n * q) * (m * s)) * y = ((n * m) * y) * (q * s)
    BY <1>1, <1>2, <1>4, <1>8
  <2>4. QED
    BY <1>4, <1>8, <2>1, <2>2, <2>3
<1>10. x * (d * e) = (n * m) * y
  BY <1>1, <1>2, <1>4, <1>8, <1>9, Cancel
<1>11. n * m \in Int /\ d * e \in Int /\ d * e # 0
  BY <1>1, <1>2, ProductNotZero
<1>12. QED
  BY <1>5, <1>6, <1>7, <1>10, <1>11 DEF StandsFor

\* ... and divided.
LEMMA OverIs ==
  ASSUME NEW a, NEW n, NEW d, StandsFor(a, n, d), NEW b, NEW m, NEW e, StandsFor(b, m, e),
         m # 0
  PROVE  StandsFor(Over(a, b), n * e, d * m)
<1>1. /\ a[1] \in Int /\ a[2] \in Int /\ a[2] > 0 /\ n \in Int /\ d \in Int /\ d # 0
      /\ a[1] * d = n * a[2]
  BY FractionParts DEF StandsFor
<1>2. /\ b[1] \in Int /\ b[2] \in Int /\ b[2] > 0 /\ m \in Int /\ e \in Int /\ e # 0
      /\ b[1] * e = m * b[2]
  BY FractionParts DEF StandsFor
<1>3. PICK p, q, r, s : p = a[1] /\ q = a[2] /\ r = b[1] /\ s = b[2]
  OBVIOUS
<1>4. /\ p \in Int /\ q \in Int /\ r \in Int /\ s \in Int /\ q # 0 /\ s # 0
      /\ p * d = n * q /\ r * e = m * s
  BY <1>1, <1>2, <1>3
<1>5. r # 0
  BY <1>2, <1>4
<1>6. q * r # 0 /\ q * r \in Int
  BY <1>4, <1>5, ProductNotZero
<1>7. PICK t : t = Over(a, b)
  OBVIOUS
<1>8. StandsFor(t, p * s, q * r)
  BY <1>3, <1>4, <1>6, <1>7, FractionIs DEF Over
<1>9. PICK x, y : x = t[1] /\ y = t[2]
  OBVIOUS
<1>10. x \in Int /\ y \in Int /\ x * (q * r) = (p * s) * y
  BY <1>8, <1>9, FractionParts DEF StandsFor
<1>11. (x * (d * m)) * ((q * r) * s) = ((n * e) * y) * ((q * r) * s)
  <2>1. (x * (d * m)) * ((q * r) * s) = (x * (q * r)) * (d * (m * s))
    BY <1>1, <1>2, <1>4, <1>10
  <2>2. ((p * s) * y) * (d * (r * e)) = ((p * d) * (s * y)) * (r * e)
    BY <1>1, <1>2, <1>4, <1>10
  <2>3. ((n * q) * (s * y)) * (r * e) = ((n * e) * y) * ((q * r) * s)
    BY <1>1, <1>2, <1>4, <1>10
  <2>4. QED
    BY <1>4, <1>10, <2>1, <2>2, <2>3
<1>12. (q * r) * s \in Int /\ (q * r) * s # 0
  BY <1>4, <1>6, ProductNotZero
<1>13. x * (d * m) = (n * e) * y
  BY <1>1, <1>2, <1>4, <1>10, <1>11, <1>12, Cancel
<1>14. n * e \in Int /\ d * m \in Int /\ d * m # 0
  BY <1>1, <1>2, ProductNotZero
<1>15. QED
  BY <1>7, <1>8, <1>9, <1>13, <1>14 DEF StandsFor

\* A pair of a number and a positive number is a fraction.
LEMMA PairIsFraction ==
  ASSUME NEW n \in Int, NEW d \in Nat, d > 0
  PROVE  IsFraction(<<n, d>>) /\ StandsFor(<<n, d>>, n, d)
  BY DEF IsFraction, StandsFor

\* A quotient stays the same when both its parts are multiplied.
LEMMA Expanded ==
  ASSUME NEW a, NEW n, NEW d, StandsFor(a, n, d), NEW k \in Int, k # 0
  PROVE  StandsFor(a, n * k, d * k)
<1>1. PICK p, q : p = a[1] /\ q = a[2]
  OBVIOUS
<1>2. p \in Int /\ q \in Int /\ n \in Int /\ d \in Int /\ d # 0 /\ p * d = n * q
  BY <1>1, FractionParts DEF StandsFor
<1>3. n * k \in Int /\ d * k \in Int /\ d * k # 0
  BY <1>2, ProductNotZero
<1>4. p * (d * k) = (n * k) * q
  <2>1. p * (d * k) = (p * d) * k /\ (n * k) * q = (n * q) * k
    BY <1>2
  <2>2. QED
    BY <1>2, <2>1
<1>5. QED
  BY <1>1, <1>3, <1>4 DEF StandsFor

\* A fraction taken some number of times.
Part(a, r) == <<a[1] * r, a[2]>>

LEMMA PartIs ==
  ASSUME NEW a, NEW n, NEW d, StandsFor(a, n, d), NEW r \in Int
  PROVE  StandsFor(Part(a, r), n * r, d) /\ Part(a, r)[2] = a[2]
<1>1. PICK p, q : p = a[1] /\ q = a[2]
  OBVIOUS
<1>2. /\ p \in Int /\ q \in Nat /\ q > 0 /\ n \in Int /\ d \in Int /\ d # 0
      /\ p * d = n * q
  BY <1>1, FractionParts DEF StandsFor
<1>3. p * r \in Int /\ n * r \in Int /\ (p * r) * d = (n * r) * q
  <2>1. (p * r) * d = (p * d) * r /\ (n * r) * q = (n * q) * r
    BY <1>2
  <2>2. QED
    BY <1>2, <2>1
<1>4. Part(a, r) = <<p * r, q>>
  BY <1>1 DEF Part
<1>5. QED
  BY <1>1, <1>2, <1>3, <1>4 DEF StandsFor, IsFraction

\* The denominator that Plus arrives at.
Denominator(q, s) == IF q = s THEN q ELSE q * s

\* Quotients with the same denominator are added.
LEMMA PlusIs ==
  ASSUME NEW a, NEW n, NEW d, StandsFor(a, n, d), NEW b, NEW m, StandsFor(b, m, d)
  PROVE  /\ StandsFor(Plus(a, b), n + m, d)
         /\ Plus(a, b)[2] = Denominator(a[2], b[2])
<1>1. PICK p, q, r, s : p = a[1] /\ q = a[2] /\ r = b[1] /\ s = b[2]
  OBVIOUS
<1>2. /\ p \in Int /\ q \in Nat /\ q > 0 /\ r \in Int /\ s \in Nat /\ s > 0
      /\ n \in Int /\ m \in Int /\ d \in Int /\ d # 0
      /\ p * d = n * q /\ r * d = m * s
  BY <1>1, FractionParts DEF StandsFor
<1>3. CASE q = s
  <2>1. Plus(a, b) = <<p + r, q>>
    BY <1>1, <1>3 DEF Plus
  <2>2. (p + r) * d = (n + m) * q
    <3>1. (p + r) * d = p * d + r * d /\ (n + m) * q = n * q + m * q
      BY <1>2
    <3>2. QED
      BY <1>2, <1>3, <3>1
  <2>3. QED
    BY <1>1, <1>2, <1>3, <2>1, <2>2 DEF StandsFor, IsFraction, Denominator
<1>4. CASE q # s
  <2>1. Plus(a, b) = <<p * s + r * q, q * s>>
    BY <1>1, <1>4 DEF Plus
  <2>2. p * s + r * q \in Int /\ q * s \in Nat /\ q * s > 0
    BY <1>2
  <2>3. (p * s + r * q) * d = (n + m) * (q * s)
    <3>1. (p * s + r * q) * d = (p * d) * s + (r * d) * q
      BY <1>2
    <3>2. (n * q) * s + (m * s) * q = (n + m) * (q * s)
      BY <1>2
    <3>3. QED
      BY <1>2, <3>1, <3>2
  <2>4. QED
    BY <1>1, <1>2, <1>4, <2>1, <2>2, <2>3 DEF StandsFor, IsFraction, Denominator
<1>5. QED
  BY <1>3, <1>4

\* Fractions compare as the numerators do, once they have the same denominator.
LEMMA AtMostIs ==
  ASSUME NEW a, NEW n, NEW d, StandsFor(a, n, d), NEW b, NEW m, StandsFor(b, m, d), d > 0
  PROVE  AtMost(a, b) <=> n <= m
<1>1. PICK p, q, r, s : p = a[1] /\ q = a[2] /\ r = b[1] /\ s = b[2]
  OBVIOUS
<1>2. /\ p \in Int /\ q \in Int /\ q > 0 /\ r \in Int /\ s \in Int /\ s > 0
      /\ n \in Int /\ m \in Int /\ d \in Int /\ d # 0
      /\ p * d = n * q /\ r * d = m * s
  BY <1>1, FractionParts DEF StandsFor
<1>3. CASE q = s
  <2>1. AtMost(a, b) <=> p <= r
    BY <1>1, <1>3 DEF AtMost
  <2>2. p <= r <=> p * d <= r * d
    BY <1>2, CancelInOrder
  <2>3. n <= m <=> n * q <= m * q
    BY <1>2, CancelInOrder
  <2>4. QED
    BY <1>2, <1>3, <2>1, <2>2, <2>3
<1>4. CASE q # s
  <2>1. AtMost(a, b) <=> p * s <= r * q
    BY <1>1, <1>4 DEF AtMost
  <2>2. q * s \in Int /\ q * s > 0 /\ p * s \in Int /\ r * q \in Int
    BY <1>2
  <2>3. p * s <= r * q <=> (p * s) * d <= (r * q) * d
    BY <1>2, <2>2, CancelInOrder
  <2>4. n <= m <=> n * (q * s) <= m * (q * s)
    BY <1>2, <2>2, CancelInOrder
  <2>5. (p * s) * d = (p * d) * s /\ (r * q) * d = (r * d) * q
    BY <1>2
  <2>6. (n * q) * s = n * (q * s) /\ (m * s) * q = m * (q * s)
    BY <1>2
  <2>7. QED
    BY <1>2, <2>1, <2>3, <2>4, <2>5, <2>6
<1>5. QED
  BY <1>3, <1>4

\* Fractions are the same if and only if the cross products are equal.
LEMMA SameMeans ==
  ASSUME NEW a, IsFraction(a), NEW b, IsFraction(b)
  PROVE  Same(a, b) <=> a[1] * b[2] = b[1] * a[2]
<1>1. PICK p, q, r, s : p = a[1] /\ q = a[2] /\ r = b[1] /\ s = b[2]
  OBVIOUS
<1>2. p \in Int /\ q \in Int /\ q > 0 /\ r \in Int /\ s \in Int /\ s > 0
  BY <1>1, FractionParts
<1>3. CASE q = s
  <2>1. Same(a, b) <=> p = r
    BY <1>1, <1>2, <1>3 DEF Same, AtMost
  <2>2. p * s = r * s => p = r
    BY <1>2, Cancel
  <2>3. QED
    BY <1>1, <1>3, <2>1, <2>2
<1>4. CASE q # s
  <2>1. Same(a, b) <=> p * s <= r * q /\ r * q <= p * s
    BY <1>1, <1>4 DEF Same, AtMost
  <2>2. p * s \in Int /\ r * q \in Int
    BY <1>2
  <2>3. QED
    BY <1>1, <2>1, <2>2
<1>5. QED
  BY <1>3, <1>4

\* What stands for the same quotient is the same, ...
LEMMA SameIs ==
  ASSUME NEW a, NEW n, NEW d, StandsFor(a, n, d), NEW b, StandsFor(b, n, d)
  PROVE  Same(a, b)
<1>1. PICK p, q, r, s : p = a[1] /\ q = a[2] /\ r = b[1] /\ s = b[2]
  OBVIOUS
<1>2. /\ p \in Int /\ q \in Int /\ r \in Int /\ s \in Int
      /\ n \in Int /\ d \in Int /\ d # 0 /\ p * d = n * q /\ r * d = n * s
      /\ IsFraction(a) /\ IsFraction(b)
  BY <1>1, FractionParts DEF StandsFor
<1>3. (p * s) * d = (r * q) * d
  <2>1. (p * s) * d = (p * d) * s /\ (r * q) * d = (r * d) * q
    BY <1>2
  <2>2. (n * q) * s = (n * s) * q
    BY <1>2
  <2>3. QED
    BY <1>2, <2>1, <2>2
<1>4. p * s = r * q
  BY <1>2, <1>3, Cancel
<1>5. QED
  BY <1>1, <1>2, <1>4, SameMeans

\* ... and what is the same stands for the same quotients.
LEMMA SameMoves ==
  ASSUME NEW a, IsFraction(a), NEW b, NEW n, NEW d, StandsFor(b, n, d), Same(a, b)
  PROVE  StandsFor(a, n, d)
<1>1. PICK p, q, r, s : p = a[1] /\ q = a[2] /\ r = b[1] /\ s = b[2]
  OBVIOUS
<1>2. /\ p \in Int /\ q \in Int /\ r \in Int /\ s \in Int /\ s # 0
      /\ n \in Int /\ d \in Int /\ d # 0 /\ r * d = n * s /\ IsFraction(b)
  BY <1>1, FractionParts DEF StandsFor
<1>3. p * s = r * q
  BY <1>1, <1>2, SameMeans
<1>4. (p * d) * s = (n * q) * s
  <2>1. (p * d) * s = (p * s) * d /\ (r * q) * d = (r * d) * q
    BY <1>2
  <2>2. (n * s) * q = (n * q) * s
    BY <1>2
  <2>3. QED
    BY <1>2, <1>3, <2>1, <2>2
<1>5. p * d = n * q
  BY <1>2, <1>4, Cancel
<1>6. QED
  BY <1>1, <1>2, <1>5 DEF StandsFor

\* Any three fractions have a common denominator.
LEMMA CommonDenominator ==
  ASSUME NEW a, IsFraction(a), NEW b, IsFraction(b), NEW c, IsFraction(c)
  PROVE  \E d \in Nat, i, j, k \in Int :
           d > 0 /\ StandsFor(a, i, d) /\ StandsFor(b, j, d) /\ StandsFor(c, k, d)
<1>1. PICK p, q, r, s, t, u : /\ p = a[1] /\ q = a[2] /\ r = b[1] /\ s = b[2]
                              /\ t = c[1] /\ u = c[2]
  OBVIOUS
<1>2. /\ p \in Int /\ q \in Nat /\ q > 0 /\ StandsFor(a, p, q)
      /\ r \in Int /\ s \in Nat /\ s > 0 /\ StandsFor(b, r, s)
      /\ t \in Int /\ u \in Nat /\ u > 0 /\ StandsFor(c, t, u)
  BY <1>1, FractionParts
<1>3. PICK x, y, z, d : x = s * u /\ y = q * u /\ z = q * s /\ d = q * x
  OBVIOUS
<1>4. x \in Nat /\ x > 0 /\ y \in Nat /\ y > 0 /\ z \in Nat /\ z > 0
  BY <1>2, <1>3
<1>5. d \in Nat /\ d > 0 /\ d = s * y /\ d = u * z
  BY <1>2, <1>3, <1>4
<1>6. StandsFor(a, p * x, d) /\ StandsFor(b, r * y, d) /\ StandsFor(c, t * z, d)
  BY <1>2, <1>3, <1>4, <1>5, Expanded
<1>7. p * x \in Int /\ r * y \in Int /\ t * z \in Int
  BY <1>2, <1>4
<1>8. QED
  BY <1>5, <1>6, <1>7

-----------------------------------------------------------------------------
(* Part 2: raw costs and their sums. *)

\* What the file and the nodes hold does not change.
InputOK ==
  /\ pupils \in [PupilIds -> PupilData]
  /\ students \in [StudentIds -> StudentData]
  /\ edges \subseteq PupilIds \X StudentIds
  /\ shares \in Shares

\* There are three types.
LEMMA ThreeTypes ==
  /\ AllTypes = {CostTypes[1], CostTypes[2], CostTypes[3]}
  /\ CostTypes[1] # CostTypes[2] /\ CostTypes[1] # CostTypes[3] /\ CostTypes[2] # CostTypes[3]
  /\ IsFiniteSet(AllTypes)
<1>1. DOMAIN CostTypes = {1, 2, 3}
  BY DEF CostTypes
<1>2. AllTypes = {CostTypes[1], CostTypes[2], CostTypes[3]}
  BY <1>1 DEF AllTypes
<1>3. CostTypes[1] # CostTypes[2] /\ CostTypes[1] # CostTypes[3] /\ CostTypes[2] # CostTypes[3]
  BY DEF CostTypes
<1>4. IsFiniteSet(AllTypes)
  <2>1. PICK a, b, c : a = CostTypes[1] /\ b = CostTypes[2] /\ c = CostTypes[3]
    OBVIOUS
  <2>2. IsFiniteSet({} \cup {a}) /\ {} \cup {a} = {a}
    BY FS_EmptySet, FS_AddElement
  <2>3. IsFiniteSet({a} \cup {b}) /\ {a} \cup {b} = {a, b}
    BY <2>2, FS_AddElement
  <2>4. IsFiniteSet({a, b} \cup {c}) /\ {a, b} \cup {c} = {a, b, c}
    BY <2>3, FS_AddElement
  <2>5. QED
    BY <1>2, <2>1, <2>4
<1>5. QED
  BY <1>2, <1>3, <1>4

\* There are finitely many edges.
LEMMA EdgesAreFinite ==
  ASSUME InputOK
  PROVE  IsFiniteSet(edges)
<1>1. IsFiniteSet(PupilIds) /\ IsFiniteSet(StudentIds)
  BY SizeAssumption, FS_Interval DEF PupilIds, StudentIds
<1>2. IsFiniteSet(PupilIds \X StudentIds)
  BY <1>1, FS_Product
<1>3. QED
  BY <1>2, FS_Subset DEF InputOK

\* What is added up for the subjects is a natural number.
LEMMA SubjectsAreNatural ==
  ASSUME NEW p, p.requested \in Seq(STRING), NEW t, t.offered \in Seq(STRING)
  PROVE  SumFunction([m \in SameSubjects(p, t) |->
                        preference_value(t.offered[m[1]])
                          + preference_value(p.requested[m[2]])]) \in Nat
<1>1. PICK S : S = SameSubjects(p, t)
  OBVIOUS
<1>2. IsFiniteSet(S)
  <2>1. PICK a, b : a = t.offered /\ b = p.requested
    OBVIOUS
  <2>2. Len(a) \in Nat /\ DOMAIN a = 1 .. Len(a) /\ Len(b) \in Nat /\ DOMAIN b = 1 .. Len(b)
    BY <2>1
  <2>3. IsFiniteSet(DOMAIN a) /\ IsFiniteSet(DOMAIN b)
    BY <2>2, FS_Interval
  <2>4. IsFiniteSet((DOMAIN a) \X (DOMAIN b))
    BY <2>3, FS_Product
  <2>5. S \subseteq (DOMAIN a) \X (DOMAIN b)
    BY <1>1, <2>1 DEF SameSubjects
  <2>6. QED
    BY <2>4, <2>5, FS_Subset
<1>3. PICK f : f = [m \in S |-> preference_value(t.offered[m[1]])
                                  + preference_value(p.requested[m[2]])]
  OBVIOUS
<1>4. DOMAIN f = S /\ \A m \in S : f[m] = 2
  BY <1>3 DEF preference_value
<1>5. SumFunction(f) = SumOver(f, S)
  BY <1>4, SumOfFunction
<1>6. SumOver(f, S) = 2 * Cardinality(S) /\ Cardinality(S) \in Nat
  BY <1>2, <1>4, SumConstant, FS_CardinalityType
<1>7. SumFunction(f) \in Nat
  BY <1>5, <1>6
<1>8. QED
  BY <1>1, <1>3, <1>7

\* A raw cost is a number, and not a negative one unless waiting days are negative.
LEMMA RawIsNumber ==
  ASSUME InputOK, NEW type \in AllTypes, NEW e \in edges
  PROVE  Raw(type, e) \in Int /\ (WaitingDaysAreNatural => Raw(type, e) >= 0)
<1>1. PICK p, t : p = pupils[e[1]] /\ t = students[e[2]]
  OBVIOUS
<1>2. e[1] \in PupilIds /\ e[2] \in StudentIds
  BY DEF InputOK
<1>3. p \in PupilData /\ t \in StudentData
  BY <1>1, <1>2 DEF InputOK
<1>4. /\ p.requested \in Seq(STRING) /\ p.waiting_days \in Int
      /\ t.offered \in Seq(STRING) /\ t.waiting_days \in Int
  BY <1>3, DataAssumption
<1>5. WaitingDaysAreNatural => p.waiting_days >= 0 /\ t.waiting_days >= 0
  BY <1>1, <1>2 DEF WaitingDaysAreNatural
<1>6. Raw(type, e) = RawCost(type, p, t)
  BY <1>1 DEF Raw
<1>7. type \in {"BundeslandBonus", "FachUebereinstimmung", "WaitingTimeBonus"}
  BY ThreeTypes DEF CostTypes
<1>8. CASE type = "BundeslandBonus"
  <2>1. RawCost(type, p, t) \in {0, 1}
    BY <1>8 DEF RawCost
  <2>2. QED
    BY <1>6, <2>1
<1>9. CASE type = "FachUebereinstimmung"
  <2>1. RawCost(type, p, t)
          = SumFunction([m \in SameSubjects(p, t) |->
                           preference_value(t.offered[m[1]])
                             + preference_value(p.requested[m[2]])])
    BY <1>9 DEF RawCost
  <2>2. RawCost(type, p, t) \in Nat
    BY <1>4, <2>1, SubjectsAreNatural
  <2>3. QED
    BY <1>6, <2>2
<1>10. CASE type = "WaitingTimeBonus"
  <2>1. RawCost(type, p, t) = t.waiting_days + p.waiting_days
    BY <1>10 DEF RawCost
  <2>2. QED
    BY <1>4, <1>5, <1>6, <2>1
<1>11. QED
  BY <1>7, <1>8, <1>9, <1>10

\* The raw costs of a type, as a function on the edges.
RawOf(type) == [e \in edges |-> Raw(type, e)]

LEMMA RawTotalIs ==
  ASSUME InputOK, NEW type \in AllTypes
  PROVE  /\ RawTotal(type) = SumOver(RawOf(type), edges) /\ RawTotal(type) \in Int
         /\ \A e \in edges : RawOf(type)[e] = Raw(type, e) /\ RawOf(type)[e] \in Int
         /\ WaitingDaysAreNatural => RawTotal(type) >= 0
         /\ edges = {} => RawTotal(type) = 0
<1>1. PICK f : f = RawOf(type)
  OBVIOUS
<1>2. DOMAIN f = edges /\ \A e \in edges : f[e] = Raw(type, e) /\ f[e] \in Int
  BY <1>1, RawIsNumber DEF RawOf
<1>3. IsFiniteSet(edges)
  BY EdgesAreFinite
<1>4. RawTotal(type) = SumFunction(f) /\ SumFunction(f) = SumOver(f, edges)
  BY <1>1, <1>2, SumOfFunction DEF RawTotal, RawOf
<1>5. SumOver(f, edges) \in Int
  BY <1>2, <1>3, SumRemove
<1>6. ASSUME WaitingDaysAreNatural PROVE SumOver(f, edges) \in Nat
  <2>1. \A e \in edges : f[e] \in Nat
    BY <1>2, <1>6, RawIsNumber
  <2>2. QED
    BY <1>3, <2>1, SumOfPart
<1>7. ASSUME edges = {} PROVE SumOver(f, edges) = 0
  BY <1>7, SumEmpty
<1>8. QED
  BY <1>1, <1>2, <1>4, <1>5, <1>6, <1>7

\* The totals of all types, of which SumOfRawTotals adds up some.
TotalOf == [type \in AllTypes |-> RawTotal(type)]

LEMMA SumOfRawTotalsIs ==
  ASSUME InputOK, NEW types \in SUBSET AllTypes
  PROVE  /\ SumOfRawTotals(types) = SumOver(TotalOf, types)
         /\ SumOfRawTotals(types) \in Int
         /\ IsFiniteSet(types)
         /\ \A type \in AllTypes : TotalOf[type] = RawTotal(type) /\ TotalOf[type] \in Int
<1>1. \A type \in AllTypes : TotalOf[type] = RawTotal(type) /\ TotalOf[type] \in Int
  BY RawTotalIs DEF TotalOf
<1>2. IsFiniteSet(types)
  BY ThreeTypes, FS_Subset
<1>3. PICK f, g : f = [type \in types |-> RawTotal(type)] /\ g = TotalOf
  OBVIOUS
<1>4. DOMAIN f = types /\ \A type \in types : f[type] \in Int /\ f[type] = g[type]
  BY <1>1, <1>3
<1>5. SumOfRawTotals(types) = SumFunction(f) /\ SumFunction(f) = SumOver(f, types)
  BY <1>3, <1>4, SumOfFunction DEF SumOfRawTotals
<1>6. SumOver(f, types) = SumOver(g, types)
  BY <1>2, <1>4, SumSame
<1>7. SumOver(f, types) \in Int
  BY <1>2, <1>4, SumRemove
<1>8. QED
  BY <1>1, <1>2, <1>3, <1>5, <1>6, <1>7

\* No types cost nothing, and one more costs its own total more.
LEMMA RawTotalsAddUp ==
  ASSUME InputOK, NEW types \in SUBSET AllTypes, NEW type \in AllTypes, type \notin types
  PROVE  /\ SumOfRawTotals({}) = 0
         /\ SumOfRawTotals(types \cup {type}) = SumOfRawTotals(types) + RawTotal(type)
<1>1. PICK g : g = TotalOf
  OBVIOUS
<1>2. /\ {} \in SUBSET AllTypes /\ types \cup {type} \in SUBSET AllTypes
      /\ \A u \in types \cup {type} : u \in AllTypes
  OBVIOUS
<1>3. /\ SumOfRawTotals({}) = SumOver(g, {})
      /\ SumOfRawTotals(types) = SumOver(g, types)
      /\ SumOfRawTotals(types \cup {type}) = SumOver(g, types \cup {type})
      /\ IsFiniteSet(types) /\ \A u \in AllTypes : g[u] \in Int /\ g[u] = RawTotal(u)
  BY <1>1, <1>2, SumOfRawTotalsIs
<1>4. SumOver(g, {}) = 0
  BY SumEmpty
<1>5. SumOver(g, types \cup {type}) = SumOver(g, types) + g[type]
  BY <1>2, <1>3, SumAdd
<1>6. QED
  BY <1>3, <1>4, <1>5

\* What is added up for all types are three numbers.
LEMMA SumOverTypes ==
  ASSUME NEW f, \A type \in AllTypes : f[type] \in Int
  PROVE  SumOver(f, AllTypes) = f[CostTypes[1]] + f[CostTypes[2]] + f[CostTypes[3]]
<1>1. PICK a, b, c : a = CostTypes[1] /\ b = CostTypes[2] /\ c = CostTypes[3]
  OBVIOUS
<1>2. a # b /\ a # c /\ b # c /\ AllTypes = {a, b, c}
  BY <1>1, ThreeTypes
<1>3. f[a] \in Int /\ f[b] \in Int /\ f[c] \in Int
  BY <1>2
<1>4. SumOver(f, {}) = 0 /\ IsFiniteSet({})
  BY SumEmpty, FS_EmptySet
<1>5. SumOver(f, {a}) = 0 + f[a] /\ IsFiniteSet({a})
  <2>1. {} \cup {a} = {a} /\ a \notin {} /\ \A u \in {} \cup {a} : f[u] \in Int
    BY <1>3
  <2>2. SumOver(f, {} \cup {a}) = SumOver(f, {}) + f[a] /\ IsFiniteSet({} \cup {a})
    BY <1>4, <2>1, SumAdd, FS_AddElement
  <2>3. QED
    BY <1>4, <2>1, <2>2
<1>6. SumOver(f, {a, b}) = f[a] + f[b] /\ IsFiniteSet({a, b})
  <2>1. {a} \cup {b} = {a, b} /\ b \notin {a} /\ \A u \in {a} \cup {b} : f[u] \in Int
    BY <1>2, <1>3
  <2>2. SumOver(f, {a} \cup {b}) = SumOver(f, {a}) + f[b] /\ IsFiniteSet({a} \cup {b})
    BY <1>5, <2>1, SumAdd, FS_AddElement
  <2>3. SumOver(f, {a, b}) = SumOver(f, {a} \cup {b}) /\ IsFiniteSet({a, b})
    BY <2>1, <2>2, Zenon
  <2>4. QED
    BY <1>3, <1>5, <2>2, <2>3
<1>7. SumOver(f, {a, b, c}) = f[a] + f[b] + f[c]
  <2>1. /\ {a, b} \cup {c} = {a, b, c} /\ c \notin {a, b}
        /\ \A u \in {a, b} \cup {c} : f[u] \in Int
    BY <1>2, <1>3
  <2>2. SumOver(f, {a, b} \cup {c}) = SumOver(f, {a, b}) + f[c]
    BY <1>6, <2>1, SumAdd
  <2>3. QED
    BY <1>6, <2>1, <2>2
<1>8. QED
  BY <1>1, <1>2, <1>7

\* The edges on which a type costs something.
LEMMA EdgesWithData ==
  ASSUME InputOK, NEW type
  PROVE  /\ Cardinality(edges) \in Nat
         /\ Cardinality({e \in edges : Raw(type, e) > 0}) \in 0 .. Cardinality(edges)
<1>1. PICK E : E = {e \in edges : Raw(type, e) > 0}
  OBVIOUS
<1>2. IsFiniteSet(edges) /\ E \in SUBSET edges
  BY <1>1, EdgesAreFinite
<1>3. Cardinality(edges) \in Nat /\ Cardinality(E) \in Nat /\ Cardinality(E) <= Cardinality(edges)
  BY <1>2, FS_Subset, FS_CardinalityType
<1>4. QED
  BY <1>1, <1>3

-----------------------------------------------------------------------------
(* Part 3: the invariant of the balancing. *)

WithData(type) == {e \in edges : Raw(type, e) > 0}

\* The coefficient of a type is what the loops are to arrive at.
IsBalanced(type) ==
  IsFraction(coefficient[type]) /\ Same(coefficient[type], BalancedCoefficient(type))

\* The coefficients are 1 until they are adapted, each to what is collected.
CoefficientsOK ==
  /\ pc = "components" => coefficient = <<>>
  /\ pc # "components" => DOMAIN coefficient = AllTypes
  /\ pc = "collect" => \A type \in AllTypes : coefficient[type] = One
  /\ pc = "adapt" => /\ SumOfRawTotals(DOMAIN shares) # 0
                     /\ \A type \in AllTypes \ adapted : coefficient[type] = One
                     /\ \A type \in adapted : IsBalanced(type)
  /\ pc \in {"cache", "done"} => \A type \in AllTypes : IsBalanced(type)

\* What is collected are the raw totals of the types collected.
CollectionOK ==
  /\ pc = "components" => Collected = {}
  /\ Collected \subseteq DOMAIN shares
  /\ DOMAIN num_edges_with_type_data = Collected
  /\ \A type \in Collected :
       /\ total_edge_costs_by_type[type] = <<RawTotal(type), 1>>
       /\ num_edges_with_type_data[type] = Cardinality(WithData(type))
  /\ total_cost = <<SumOfRawTotals(Collected), 1>>
  /\ pc \in {"adapt", "cache", "done"} => Collected = DOMAIN shares

BalancingInvariant ==
  /\ InputOK
  /\ pc \in {"components", "collect", "adapt", "cache", "done"}
  /\ CoefficientsOK
  /\ CollectionOK
  /\ adapted \subseteq Collected
  /\ pc \in {"components", "collect"} => adapted = {}
  /\ cost = IF pc = "done" THEN [e \in edges |-> compute_edge_cost(e)] ELSE <<>>

\* A whole number is not reduced.
LEMMA FractionOfWhole ==
  ASSUME NEW n \in Int
  PROVE  Fraction(n, 1) = <<n, 1>>
<1>1. PICK S : S = {k \in 1 .. 1 : n % k = 0 /\ 1 % k = 0}
  OBVIOUS
<1>2. S \in SUBSET Nat /\ 1 \in S /\ \A k \in S : k <= 1 /\ k >= 1
  BY <1>1
<1>3. Max(S) \in S
  BY <1>2, Greatest
<1>4. Max(S) = 1
  <2>1. PICK g : g = Max(S)
    OBVIOUS
  <2>2. g \in Nat /\ g <= 1 /\ g >= 1
    BY <1>2, <1>3, <2>1
  <2>3. QED
    BY <2>1, <2>2
<1>5. Reduced(n, 1) = <<n \div 1, 1 \div 1>>
  BY <1>1, <1>4, Zenon DEF Reduced
<1>6. n \div 1 = n /\ 1 \div 1 = 1
  OBVIOUS
<1>7. QED
  BY <1>5, <1>6 DEF Fraction

\* 1 times a whole number is that number, and whole numbers are added as such.
LEMMA WholeNumbers ==
  ASSUME NEW n \in Int, NEW m \in Int
  PROVE  Times(One, <<n, 1>>) = <<n, 1>> /\ Plus(<<n, 1>>, <<m, 1>>) = <<n + m, 1>>
<1>1. Times(One, <<n, 1>>) = Fraction(1 * n, 1 * 1)
  BY DEF Times, One
<1>2. 1 * n = n /\ 1 * 1 = 1
  OBVIOUS
<1>3. Times(One, <<n, 1>>) = Fraction(n, 1)
  BY <1>1, <1>2, Zenon
<1>4. Plus(<<n, 1>>, <<m, 1>>) = <<n + m, 1>>
  BY DEF Plus
<1>5. QED
  BY <1>3, <1>4, FractionOfWhole

\* As the input does not change, neither does what is computed from it alone.
LEMMA RawStays ==
  ASSUME UNCHANGED input
  PROVE  /\ \A type : RawTotal(type)' = RawTotal(type) /\ WithData(type)' = WithData(type)
         /\ \A types : SumOfRawTotals(types)' = SumOfRawTotals(types)
         /\ \A type : BalancedCoefficient(type)' = BalancedCoefficient(type)
         /\ InputOK' <=> InputOK
<1>1. pupils' = pupils /\ students' = students /\ edges' = edges /\ shares' = shares
  BY DEF input
<1>2. \A type : RawTotal(type)' = RawTotal(type)
  BY <1>1 DEF RawTotal, Raw
<1>3. \A type : WithData(type)' = WithData(type)
  BY <1>1 DEF WithData, Raw
<1>4. \A types : SumOfRawTotals(types)' = SumOfRawTotals(types)
  BY <1>2 DEF SumOfRawTotals
<1>5. \A type : BalancedCoefficient(type)' = BalancedCoefficient(type)
  BY <1>1, <1>2, <1>3, <1>4 DEF BalancedCoefficient, WithData
<1>6. InputOK' <=> InputOK
  BY <1>1 DEF InputOK
<1>7. QED
  BY <1>2, <1>3, <1>4, <1>5, <1>6

\* The types that a file gives a share are types.
LEMMA SharesOfTypes ==
  ASSUME InputOK
  PROVE  /\ DOMAIN shares \in SUBSET AllTypes
         /\ \A type \in DOMAIN shares : shares[type] \in Int
  BY ShareAssumption DEF InputOK

LEMMA BalancingStarts == Init => BalancingInvariant
<1> SUFFICES ASSUME Init PROVE BalancingInvariant
  OBVIOUS
<1> USE DEF Init
<1>1. InputOK
  BY DEF InputOK
<1>2. Collected = {} /\ DOMAIN num_edges_with_type_data = {}
  BY DEF Collected
<1>3. SumOfRawTotals({}) = 0
  <2>1. {} \in SUBSET AllTypes
    OBVIOUS
  <2>2. SumOfRawTotals({}) = SumOver(TotalOf, {})
    BY <1>1, <2>1, SumOfRawTotalsIs
  <2>3. QED
    BY <2>2, SumEmpty
<1>4. CollectionOK
  BY <1>2, <1>3 DEF CollectionOK, Zero
<1>5. CoefficientsOK
  BY DEF CoefficientsOK
<1>6. QED
  BY <1>1, <1>2, <1>4, <1>5 DEF BalancingInvariant

LEMMA AddComponentsKeeps ==
  ASSUME BalancingInvariant, AddComponents
  PROVE  BalancingInvariant'
<1> USE DEF BalancingInvariant, AddComponents
<1>1. UNCHANGED input
  OBVIOUS
<1>2. InputOK' /\ pc' = "collect"
  BY <1>1, RawStays
<1>3. CoefficientsOK'
  BY DEF CoefficientsOK
<1>4. Collected' = Collected /\ shares' = shares /\ total_cost' = total_cost
  BY DEF Collected, totals, input
<1>5. CollectionOK'
  BY <1>1, <1>2, <1>4, RawStays DEF CollectionOK, totals
<1>6. QED
  BY <1>2, <1>3, <1>4, <1>5

\* What is added to a map.
LEMMA WithIs ==
  ASSUME NEW f, NEW x, NEW v, NEW g, g = With(f, x, v)
  PROVE  /\ \A y : y \in DOMAIN g <=> y \in DOMAIN f \/ y = x
         /\ g[x] = v
         /\ \A y \in DOMAIN f : y # x => g[y] = f[y]
  BY DEF With

LEMMA CollectKeeps ==
  ASSUME BalancingInvariant, NEW type \in AllTypes, Collect(type)
  PROVE  BalancingInvariant'
<1> USE DEF BalancingInvariant
<1>1. /\ pc = "collect" /\ IsNext(type, DOMAIN shares \ Collected)
      /\ UNCHANGED <<input, coefficient, adapted, cost, pc>>
  BY DEF Collect
<1>2. UNCHANGED input
  BY <1>1
<1>3. type \in DOMAIN shares /\ type \notin Collected
  BY <1>1 DEF IsNext
<1>4. PICK R : R = RawTotal(type)
  OBVIOUS
<1>5. R \in Int
  BY <1>4, RawTotalIs
<1>6. coefficient[type] = One
  BY <1>1 DEF CoefficientsOK
<1>7. Times(coefficient[type], <<R, 1>>) = <<R, 1>>
  BY <1>5, <1>6, WholeNumbers
<1>8. EdgesWithTypeData(type) = WithData(type)
  <2>1. \A e \in edges : Raw(type, e) \in Int
    BY RawIsNumber
  <2>2. \A e \in edges : IsPositive(type, e) <=> Raw(type, e) > 0
    BY <1>6, <2>1 DEF IsPositive, One
  <2>3. QED
    BY <2>2 DEF EdgesWithTypeData, WithData
<1>9. /\ total_edge_costs_by_type' = With(total_edge_costs_by_type, type, <<R, 1>>)
      /\ total_cost' = Plus(total_cost, <<R, 1>>)
      /\ num_edges_with_type_data'
           = With(num_edges_with_type_data, type, Cardinality(WithData(type)))
  BY <1>4, <1>7, <1>8, Zenon DEF Collect
<1>10. /\ Collected' = Collected \cup {type}
       /\ DOMAIN num_edges_with_type_data' = DOMAIN num_edges_with_type_data \cup {type}
       /\ total_edge_costs_by_type'[type] = <<R, 1>>
       /\ num_edges_with_type_data'[type] = Cardinality(WithData(type))
       /\ \A u \in Collected :
            u # type => total_edge_costs_by_type'[u] = total_edge_costs_by_type[u]
       /\ \A u \in DOMAIN num_edges_with_type_data :
            u # type => num_edges_with_type_data'[u] = num_edges_with_type_data[u]
  <2>1. PICK f, h : f = total_edge_costs_by_type /\ h = total_edge_costs_by_type'
    OBVIOUS
  <2>2. PICK k, l : k = num_edges_with_type_data /\ l = num_edges_with_type_data'
    OBVIOUS
  <2>3. PICK r, n : r = <<R, 1>> /\ n = Cardinality(WithData(type))
    OBVIOUS
  <2>4. h = With(f, type, r) /\ l = With(k, type, n)
    BY <1>9, <2>1, <2>2, <2>3
  <2>5. /\ (\A u : u \in DOMAIN h <=> u \in DOMAIN f \/ u = type) /\ h[type] = r
        /\ \A u \in DOMAIN f : u # type => h[u] = f[u]
    BY <2>4, WithIs
  <2>6. /\ (\A u : u \in DOMAIN l <=> u \in DOMAIN k \/ u = type) /\ l[type] = n
        /\ \A u \in DOMAIN k : u # type => l[u] = k[u]
    BY <2>4, WithIs
  <2>7. QED
    BY <2>1, <2>2, <2>3, <2>5, <2>6 DEF Collected
<1>11. total_cost' = <<SumOfRawTotals(Collected'), 1>>
  <2>1. Collected \in SUBSET AllTypes
    BY SharesOfTypes DEF CollectionOK
  <2>2. PICK S : S = SumOfRawTotals(Collected)
    OBVIOUS
  <2>3. S \in Int /\ SumOfRawTotals(Collected \cup {type}) = S + R
    BY <1>3, <1>4, <2>1, <2>2, SumOfRawTotalsIs, RawTotalsAddUp
  <2>4. total_cost = <<S, 1>>
    BY <2>2 DEF CollectionOK
  <2>5. total_cost' = <<S + R, 1>>
    BY <1>5, <1>9, <2>3, <2>4, WholeNumbers
  <2>6. QED
    BY <1>10, <2>3, <2>5, Zenon
<1>12. DOMAIN num_edges_with_type_data' = Collected'
  BY <1>10 DEF CollectionOK
<1>13. ASSUME NEW u \in Collected'
       PROVE  /\ total_edge_costs_by_type'[u] = <<RawTotal(u), 1>>
              /\ num_edges_with_type_data'[u] = Cardinality(WithData(u))
  <2>1. CASE u = type
    BY <1>4, <1>10, <2>1
  <2>2. CASE u # type
    <3>1. u \in Collected /\ u \in DOMAIN num_edges_with_type_data
      BY <1>10, <2>2 DEF CollectionOK
    <3>2. /\ total_edge_costs_by_type'[u] = total_edge_costs_by_type[u]
          /\ num_edges_with_type_data'[u] = num_edges_with_type_data[u]
      BY <1>10, <2>2, <3>1
    <3>3. QED
      BY <3>1, <3>2 DEF CollectionOK
  <2>3. QED
    BY <2>1, <2>2
<1>14. pc' = "collect" /\ shares' = shares /\ coefficient' = coefficient /\ cost' = cost
       /\ adapted' = adapted
  BY <1>1 DEF input
<1>15. SumOfRawTotals(Collected)' = SumOfRawTotals(Collected')
  BY <1>2 DEF SumOfRawTotals, RawTotal, Raw, input
<1>16. CollectionOK'
  <2>1. Collected' \subseteq DOMAIN shares'
    BY <1>3, <1>10, <1>14 DEF CollectionOK
  <2>2. \A u \in Collected' :
          RawTotal(u)' = RawTotal(u) /\ WithData(u)' = WithData(u)
    BY <1>2, RawStays
  <2>3. QED
    BY <1>11, <1>12, <1>13, <1>14, <1>15, <2>1, <2>2 DEF CollectionOK
<1>17. CoefficientsOK'
  BY <1>1, <1>14 DEF CoefficientsOK
<1>18. QED
  BY <1>1, <1>2, <1>10, <1>14, <1>16, <1>17, RawStays

\* The factor makes a quotient of one, that the adapted coefficient is to stand for.
LEMMA AdaptedIs ==
  ASSUME NEW s \in Int, NEW w \in Int, w # 0, NEW n \in Int, n # 0, NEW all \in Int, all # 0,
         NEW m \in Int, NEW c \in Int, c # 0
  PROVE  Same(Times(Times(Over(Fraction(s, w), Over(<<n, 1>>, <<all, 1>>)), Fraction(m, c)),
                    One),
              Fraction(s * all * m, w * n * c))
         /\ IsFraction(Times(Times(Over(Fraction(s, w), Over(<<n, 1>>, <<all, 1>>)),
                                   Fraction(m, c)), One))
<1>1. PICK current : current = Over(<<n, 1>>, <<all, 1>>)
  OBVIOUS
<1>2. StandsFor(<<n, 1>>, n, 1) /\ StandsFor(<<all, 1>>, all, 1) /\ StandsFor(One, 1, 1)
  BY PairIsFraction DEF One
<1>3. StandsFor(current, n * 1, 1 * all)
  BY <1>1, <1>2, OverIs
<1>4. n * 1 = n /\ 1 * all = all
  OBVIOUS
<1>5. StandsFor(current, n, all)
  BY <1>3, <1>4, Zenon
<1>6. PICK wanted : wanted = Over(Fraction(s, w), current)
  OBVIOUS
<1>7. StandsFor(Fraction(s, w), s, w) /\ StandsFor(Fraction(m, c), m, c)
  BY FractionIs
<1>8. StandsFor(wanted, s * all, w * n)
  BY <1>5, <1>6, <1>7, OverIs
<1>9. PICK factor : factor = Times(wanted, Fraction(m, c))
  OBVIOUS
<1>10. StandsFor(factor, s * all * m, w * n * c)
  BY <1>7, <1>8, <1>9, TimesIs
<1>11. StandsFor(Times(factor, One), s * all * m * 1, w * n * c * 1)
  BY <1>2, <1>10, TimesIs
<1>12. PICK x, y : x = s * all * m /\ y = w * n * c
  OBVIOUS
<1>13. w * n \in Int /\ w * n # 0
  BY ProductNotZero
<1>14. x \in Int /\ y \in Int /\ y # 0
  BY <1>12, <1>13, ProductNotZero
<1>15. x * 1 = x /\ y * 1 = y
  BY <1>14
<1>16. StandsFor(Times(factor, One), x, y)
  BY <1>11, <1>12, <1>15, Zenon
<1>17. StandsFor(Fraction(x, y), x, y)
  BY <1>14, FractionIs
<1>18. Same(Times(factor, One), Fraction(x, y)) /\ IsFraction(Times(factor, One))
  BY <1>16, <1>17, SameIs DEF StandsFor
<1>19. QED
  BY <1>1, <1>6, <1>9, <1>12, <1>18, Zenon

LEMMA OneIsFraction == IsFraction(One) /\ Same(One, One)
<1>1. IsFraction(One)
  BY PairIsFraction DEF One
<1>2. QED
  BY <1>1, SameMeans

LEMMA AdaptKeeps ==
  ASSUME BalancingInvariant, NEW type \in AllTypes, Adapt(type)
  PROVE  BalancingInvariant'
<1> USE DEF BalancingInvariant
<1>1. /\ pc = "adapt" /\ IsNext(type, Collected \ adapted)
      /\ UNCHANGED input /\ UNCHANGED totals /\ cost' = cost /\ pc' = pc
      /\ adapted' = adapted \cup {type}
  BY DEF Adapt
<1>2. type \in Collected /\ type \notin adapted /\ Collected = DOMAIN shares
  BY <1>1 DEF IsNext, CollectionOK
<1>3. PICK R, all : R = RawTotal(type) /\ all = SumOfRawTotals(DOMAIN shares)
  OBVIOUS
<1>4. R \in Int /\ all \in Int /\ all # 0
  BY <1>1, <1>3, RawTotalIs, SumOfRawTotalsIs, SharesOfTypes DEF CoefficientsOK
<1>5. /\ total_edge_costs_by_type[type] = <<R, 1>> /\ total_cost = <<all, 1>>
      /\ num_edges_with_type_data[type] = Cardinality(WithData(type))
  BY <1>2, <1>3 DEF CollectionOK
<1>6. coefficient[type] = One /\ DOMAIN coefficient = AllTypes
  BY <1>1, <1>2 DEF CoefficientsOK
<1>7. SumOfRawTotals(DOMAIN shares)' # 0
  BY <1>1, <1>3, <1>4, RawStays DEF SumOfRawTotals, RawTotal, Raw, input
<1>8. ASSUME R = 0 PROVE CoefficientsOK'
  <2>1. coefficient' = coefficient
    BY <1>5, <1>8 DEF Adapt
  <2>2. BalancedCoefficient(type) = One
    BY <1>3, <1>8 DEF BalancedCoefficient
  <2>3. IsBalanced(type)
    BY <1>6, <2>2, OneIsFraction DEF IsBalanced
  <2>4. \A u \in AllTypes : IsBalanced(u)' <=> IsBalanced(u)
    BY <1>1, <2>1, RawStays DEF IsBalanced
  <2>5. \A u \in adapted' : IsBalanced(u)'
    BY <1>1, <1>2, <2>3, <2>4, SharesOfTypes DEF CoefficientsOK
  <2>6. \A u \in AllTypes \ adapted' : coefficient'[u] = One
    BY <1>1, <2>1 DEF CoefficientsOK
  <2>7. DOMAIN coefficient' = AllTypes /\ pc' = "adapt"
    BY <1>1, <1>6, <2>1
  <2>8. QED
    BY <1>7, <2>5, <2>6, <2>7 DEF CoefficientsOK
<1>9. ASSUME R # 0 PROVE CoefficientsOK'
  <2>1. PICK E : E = WithData(type)
    OBVIOUS
  <2>2. PICK m, c : m = Cardinality(E) /\ c = Cardinality(edges)
    OBVIOUS
  <2>3. m \in Int /\ c \in Int /\ c # 0
    <3>1. edges # {}
      BY <1>3, <1>9, RawTotalIs
    <3>2. m \in Int /\ c \in Int
      BY <2>1, <2>2, EdgesWithData DEF WithData
    <3>3. c # 0
      BY <2>2, <3>1, EdgesAreFinite, FS_EmptySet
    <3>4. QED
      BY <3>2, <3>3
  <2>4. shares[type] \in Int /\ Whole \in Int /\ Whole # 0
    BY <1>2, SharesOfTypes, ShareAssumption
  <2>5. PICK value :
          value = Times(Times(Over(Fraction(shares[type], Whole), Over(<<R, 1>>, <<all, 1>>)),
                              Fraction(m, c)), One)
    OBVIOUS
  <2>6. coefficient' = [coefficient EXCEPT ![type] = value]
    <3>1. AdaptionFactor(type)
            = Times(Over(Fraction(shares[type], Whole), Over(<<R, 1>>, <<all, 1>>)),
                    Fraction(m, c))
      BY <1>5, <2>1, <2>2, Zenon DEF AdaptionFactor
    <3>2. Times(AdaptionFactor(type), coefficient[type]) = value
      BY <1>6, <2>5, <3>1, Zenon
    <3>3. total_edge_costs_by_type[type][1] # 0
      BY <1>5, <1>9
    <3>4. coefficient' = [coefficient EXCEPT
                            ![type] = Times(AdaptionFactor(type), coefficient[type])]
      BY <3>3, Zenon DEF Adapt
    <3>5. QED
      BY <3>2, <3>4, Zenon
  <2>7. /\ coefficient'[type] = value /\ DOMAIN coefficient' = AllTypes
        /\ \A u \in AllTypes : u # type => coefficient'[u] = coefficient[u]
    BY <1>6, <2>6
  <2>8. BalancedCoefficient(type) = Fraction(shares[type] * all * m, Whole * R * c)
    <3>1. ~ (type \notin DOMAIN shares \/ all = 0 \/ R = 0)
      BY <1>2, <1>4, <1>9
    <3>2. m = Cardinality({e \in edges : Raw(type, e) > 0})
      BY <2>1, <2>2 DEF WithData
    <3>3. QED
      BY <1>3, <2>2, <3>1, <3>2, Zenon DEF BalancedCoefficient
  <2>9. Same(value, BalancedCoefficient(type)) /\ IsFraction(value)
    <3>1. PICK x, w : x = shares[type] /\ w = Whole
      OBVIOUS
    <3>2. x \in Int /\ w \in Int /\ w # 0
      BY <2>4, <3>1
    <3>3. PICK b : b = Fraction(x * all * m, w * R * c)
      OBVIOUS
    <3>4. value = Times(Times(Over(Fraction(x, w), Over(<<R, 1>>, <<all, 1>>)),
                              Fraction(m, c)), One)
      BY <2>5, <3>1, Zenon
    <3>5. Same(value, b) /\ IsFraction(value)
      BY <1>4, <1>9, <2>3, <3>2, <3>3, <3>4, AdaptedIs
    <3>6. BalancedCoefficient(type) = b
      BY <2>8, <3>1, <3>3, Zenon
    <3>7. QED
      BY <3>5, <3>6, Zenon
  <2>10. BalancedCoefficient(type)' = BalancedCoefficient(type)
    BY <1>1, RawStays
  <2>11. IsBalanced(type)'
    BY <2>7, <2>9, <2>10 DEF IsBalanced
  <2>12. \A u \in adapted : u \in AllTypes /\ u # type /\ IsBalanced(u)
    BY <1>1, <1>2, SharesOfTypes DEF CoefficientsOK
  <2>13. \A u \in adapted : IsBalanced(u)'
    BY <1>1, <2>7, <2>12, RawStays DEF IsBalanced
  <2>14. \A u \in AllTypes \ adapted' : coefficient'[u] = One
    BY <1>1, <2>7 DEF CoefficientsOK
  <2>15. (\A u \in adapted' : IsBalanced(u)') /\ pc' = "adapt"
    BY <1>1, <2>11, <2>13
  <2>16. QED
    BY <1>7, <2>7, <2>14, <2>15 DEF CoefficientsOK
<1>10. CoefficientsOK'
  BY <1>8, <1>9
<1>11. /\ Collected' = Collected /\ total_edge_costs_by_type' = total_edge_costs_by_type
       /\ num_edges_with_type_data' = num_edges_with_type_data
       /\ total_cost' = total_cost /\ shares' = shares
  BY <1>1 DEF totals, input, Collected
<1>12. CollectionOK'
  BY <1>1, <1>11, RawStays DEF CollectionOK
<1>13. QED
  BY <1>1, <1>2, <1>10, <1>11, <1>12, RawStays

LEMMA EndCollectionKeeps ==
  ASSUME BalancingInvariant, EndCollection
  PROVE  BalancingInvariant'
<1> USE DEF BalancingInvariant
<1>1. /\ pc = "collect" /\ Collected = DOMAIN shares
      /\ UNCHANGED input /\ UNCHANGED totals /\ adapted' = adapted /\ cost' = cost
      /\ coefficient' = coefficient
      /\ pc' = IF total_cost[1] = 0 THEN "cache" ELSE "adapt"
  BY DEF EndCollection
<1>2. PICK all : all = SumOfRawTotals(DOMAIN shares)
  OBVIOUS
<1>3. total_cost[1] = all /\ SumOfRawTotals(DOMAIN shares)' = all
  <2>1. total_cost = <<all, 1>>
    BY <1>1, <1>2 DEF CollectionOK
  <2>2. SumOfRawTotals(DOMAIN shares)' = SumOfRawTotals(DOMAIN shares)
    BY <1>1, RawStays DEF SumOfRawTotals, RawTotal, Raw, input
  <2>3. QED
    BY <1>2, <2>1, <2>2
<1>4. \A u \in AllTypes : coefficient[u] = One
  BY <1>1 DEF CoefficientsOK
<1>5. CoefficientsOK'
  <2>1. CASE all = 0
    <3>1. pc' = "cache"
      BY <1>1, <1>3, <2>1
    <3>2. \A u \in AllTypes : BalancedCoefficient(u) = One
      BY <1>2, <2>1 DEF BalancedCoefficient
    <3>3. \A u \in AllTypes : IsBalanced(u)'
      BY <1>1, <1>4, <3>2, RawStays, OneIsFraction DEF IsBalanced
    <3>4. QED
      BY <1>1, <3>1, <3>3 DEF CoefficientsOK
  <2>2. CASE all # 0
    BY <1>1, <1>3, <1>4, <2>2 DEF CoefficientsOK
  <2>3. QED
    BY <2>1, <2>2
<1>6. /\ Collected' = Collected /\ total_edge_costs_by_type' = total_edge_costs_by_type
      /\ num_edges_with_type_data' = num_edges_with_type_data
      /\ total_cost' = total_cost /\ shares' = shares
  BY <1>1 DEF totals, input, Collected
<1>7. CollectionOK'
  BY <1>1, <1>6, RawStays DEF CollectionOK
<1>8. QED
  BY <1>1, <1>5, <1>6, <1>7, RawStays

LEMMA EndAdaptionKeeps ==
  ASSUME BalancingInvariant, EndAdaption
  PROVE  BalancingInvariant'
<1> USE DEF BalancingInvariant
<1>1. /\ pc = "adapt" /\ adapted = Collected /\ pc' = "cache"
      /\ UNCHANGED input /\ UNCHANGED totals /\ adapted' = adapted /\ cost' = cost
      /\ coefficient' = coefficient
  BY DEF EndAdaption
<1>2. \A u \in AllTypes : IsBalanced(u)
  <2>1. ASSUME NEW u \in AllTypes, u \notin adapted PROVE IsBalanced(u)
    <3>1. coefficient[u] = One /\ u \notin DOMAIN shares
      BY <1>1, <2>1 DEF CoefficientsOK, CollectionOK
    <3>2. BalancedCoefficient(u) = One
      BY <3>1 DEF BalancedCoefficient
    <3>3. QED
      BY <3>1, <3>2, OneIsFraction DEF IsBalanced
  <2>2. QED
    BY <1>1, <2>1 DEF CoefficientsOK
<1>3. \A u \in AllTypes : IsBalanced(u)'
  BY <1>1, <1>2, RawStays DEF IsBalanced
<1>4. CoefficientsOK'
  BY <1>1, <1>3 DEF CoefficientsOK
<1>5. /\ Collected' = Collected /\ total_edge_costs_by_type' = total_edge_costs_by_type
      /\ num_edges_with_type_data' = num_edges_with_type_data
      /\ total_cost' = total_cost /\ shares' = shares
  BY <1>1 DEF totals, input, Collected
<1>6. CollectionOK'
  BY <1>1, <1>5, RawStays DEF CollectionOK
<1>7. QED
  BY <1>1, <1>4, <1>5, <1>6, RawStays

LEMMA CacheCostsKeeps ==
  ASSUME BalancingInvariant, CacheCosts
  PROVE  BalancingInvariant'
<1> USE DEF BalancingInvariant
<1>1. /\ pc = "cache" /\ pc' = "done"
      /\ UNCHANGED input /\ UNCHANGED totals /\ adapted' = adapted
      /\ coefficient' = coefficient
      /\ cost' = [e \in edges |-> compute_edge_cost(e)]
  BY DEF CacheCosts
<1>2. \A u \in AllTypes : IsBalanced(u)'
  BY <1>1, RawStays DEF IsBalanced, CoefficientsOK
<1>3. CoefficientsOK'
  BY <1>1, <1>2 DEF CoefficientsOK
<1>4. /\ Collected' = Collected /\ total_edge_costs_by_type' = total_edge_costs_by_type
      /\ num_edges_with_type_data' = num_edges_with_type_data
      /\ total_cost' = total_cost /\ shares' = shares
  BY <1>1 DEF totals, input, Collected
<1>5. CollectionOK'
  BY <1>1, <1>4, RawStays DEF CollectionOK
<1>6. cost' = [e \in edges' |-> compute_edge_cost(e)']
  <2>1. \A e : compute_edge_cost(e)' = compute_edge_cost(e)
    BY <1>1 DEF compute_edge_cost, Raw, input
  <2>2. edges' = edges
    BY <1>1 DEF input
  <2>3. QED
    BY <1>1, <2>1, <2>2
<1>7. QED
  BY <1>1, <1>3, <1>4, <1>5, <1>6, RawStays

\* What BalancingInvariant says of the coefficients and the collected costs holds at
\* every step of GraphCreator::init_from_json.
THEOREM BalancingIsInvariant == Spec => []BalancingInvariant
<1>1. Init => BalancingInvariant
  BY BalancingStarts
<1>2. BalancingInvariant /\ [Next]_vars => BalancingInvariant'
  <2> SUFFICES ASSUME BalancingInvariant, [Next]_vars PROVE BalancingInvariant'
    OBVIOUS
  <2>1. CASE AddComponents
    BY <2>1, AddComponentsKeeps
  <2>2. ASSUME NEW type \in AllTypes, Collect(type) PROVE BalancingInvariant'
    BY <2>2, CollectKeeps
  <2>3. ASSUME NEW type \in AllTypes, Adapt(type) PROVE BalancingInvariant'
    BY <2>3, AdaptKeeps
  <2>4. CASE EndCollection
    BY <2>4, EndCollectionKeeps
  <2>5. CASE EndAdaption
    BY <2>5, EndAdaptionKeeps
  <2>6. CASE CacheCosts
    BY <2>6, CacheCostsKeeps
  <2>7. CASE UNCHANGED vars
    <3>1. /\ UNCHANGED input /\ UNCHANGED totals /\ coefficient' = coefficient
          /\ adapted' = adapted /\ cost' = cost /\ pc' = pc
      BY <2>7 DEF vars, input, totals
    <3>2. /\ Collected' = Collected /\ total_edge_costs_by_type' = total_edge_costs_by_type
          /\ num_edges_with_type_data' = num_edges_with_type_data
          /\ total_cost' = total_cost /\ shares' = shares /\ edges' = edges
      BY <3>1 DEF totals, input, Collected
    <3>3. SumOfRawTotals(DOMAIN shares)' = SumOfRawTotals(DOMAIN shares)
      BY <3>1, RawStays DEF SumOfRawTotals, RawTotal, Raw, input
    <3>4. \A u : IsBalanced(u)' <=> IsBalanced(u)
      BY <3>1, RawStays DEF IsBalanced
    <3>5. CoefficientsOK'
      BY <3>1, <3>3, <3>4 DEF CoefficientsOK, BalancingInvariant
    <3>6. CollectionOK'
      BY <3>1, <3>2, RawStays DEF CollectionOK, BalancingInvariant
    <3>7. \A e : compute_edge_cost(e)' = compute_edge_cost(e)
      BY <3>1 DEF compute_edge_cost, Raw, input
    <3>8. QED
      BY <3>1, <3>2, <3>5, <3>6, <3>7, RawStays DEF BalancingInvariant
  <2>8. QED
    BY <2>1, <2>2, <2>3, <2>4, <2>5, <2>6, <2>7 DEF Next
<1>3. QED
  BY <1>1, <1>2, PTL DEF Spec

-----------------------------------------------------------------------------
(* Part 4: what is cached. *)

\* Three fractions, each taken some number of times, added as compute_edge_cost does.
WeightedSum(f, g, h, x, y, z) == Plus(Plus(Part(f, x), Part(g, y)), Part(h, z))

LEMMA WeightedSumIs ==
  ASSUME NEW d, NEW f, NEW i, StandsFor(f, i, d), NEW g, NEW j, StandsFor(g, j, d),
         NEW h, NEW k, StandsFor(h, k, d), NEW x \in Int, NEW y \in Int, NEW z \in Int
  PROVE  /\ StandsFor(WeightedSum(f, g, h, x, y, z), i * x + j * y + k * z, d)
         /\ WeightedSum(f, g, h, x, y, z)[2]
              = Denominator(Denominator(f[2], g[2]), h[2])
<1>1. PICK a, b, c : a = Part(f, x) /\ b = Part(g, y) /\ c = Part(h, z)
  OBVIOUS
<1>2. /\ StandsFor(a, i * x, d) /\ a[2] = f[2] /\ StandsFor(b, j * y, d) /\ b[2] = g[2]
      /\ StandsFor(c, k * z, d) /\ c[2] = h[2]
  BY <1>1, PartIs
<1>3. PICK u : u = Plus(a, b)
  OBVIOUS
<1>4. StandsFor(u, i * x + j * y, d) /\ u[2] = Denominator(a[2], b[2])
  BY <1>2, <1>3, PlusIs
<1>5. PICK v : v = Plus(u, c)
  OBVIOUS
<1>6. StandsFor(v, i * x + j * y + k * z, d) /\ v[2] = Denominator(u[2], c[2])
  BY <1>2, <1>4, <1>5, PlusIs
<1>7. WeightedSum(f, g, h, x, y, z) = v
  BY <1>1, <1>3, <1>5 DEF WeightedSum
<1>8. QED
  BY <1>2, <1>4, <1>6, <1>7, Zenon

\* A fraction that stands for two quotients makes them equal.
LEMMA EqualQuotients ==
  ASSUME NEW a, NEW n, NEW d, StandsFor(a, n, d), NEW m, NEW e, StandsFor(a, m, e)
  PROVE  n * e = m * d
<1>1. PICK p, q : p = a[1] /\ q = a[2]
  OBVIOUS
<1>2. /\ p \in Int /\ q \in Int /\ q # 0 /\ n \in Int /\ d \in Int /\ m \in Int /\ e \in Int
      /\ p * d = n * q /\ p * e = m * q
  BY <1>1, FractionParts DEF StandsFor
<1>3. (n * e) * q = (m * d) * q
  <2>1. (n * e) * q = (n * q) * e /\ (m * d) * q = (m * q) * d
    BY <1>2
  <2>2. (p * d) * e = (p * e) * d
    BY <1>2
  <2>3. QED
    BY <1>2, <2>1, <2>2
<1>4. n * e \in Int /\ m * d \in Int
  BY <1>2
<1>5. QED
  BY <1>2, <1>3, <1>4, Cancel

\* A balanced coefficient is a fraction: nothing is divided by 0.
LEMMA BalancedIs ==
  ASSUME InputOK, NEW type \in AllTypes
  PROVE  /\ IsFraction(BalancedCoefficient(type))
         /\ \/ BalancedCoefficient(type) = One /\ (type \in DOMAIN shares =>
                 SumOfRawTotals(DOMAIN shares) = 0 \/ RawTotal(type) = 0)
            \/ /\ type \in DOMAIN shares /\ RawTotal(type) # 0
               /\ Cardinality(edges) \in Nat \ {0}
               /\ StandsFor(BalancedCoefficient(type),
                    shares[type] * SumOfRawTotals(DOMAIN shares) * Cardinality(WithData(type)),
                    Whole * RawTotal(type) * Cardinality(edges))
<1>1. PICK R, all, m, c : /\ R = RawTotal(type) /\ all = SumOfRawTotals(DOMAIN shares)
                          /\ m = Cardinality(WithData(type)) /\ c = Cardinality(edges)
  OBVIOUS
<1>2. R \in Int /\ all \in Int /\ m \in Int /\ c \in Nat
  BY <1>1, RawTotalIs, SumOfRawTotalsIs, SharesOfTypes, EdgesWithData DEF WithData
<1>3. CASE type \notin DOMAIN shares \/ all = 0 \/ R = 0
  <2>1. BalancedCoefficient(type) = One
    BY <1>1, <1>3 DEF BalancedCoefficient
  <2>2. QED
    BY <1>1, <1>3, <2>1, OneIsFraction
<1>4. CASE ~ (type \notin DOMAIN shares \/ all = 0 \/ R = 0)
  <2>1. c # 0
    <3>1. edges # {}
      BY <1>1, <1>4, RawTotalIs
    <3>2. QED
      BY <1>1, <3>1, EdgesAreFinite, FS_EmptySet
  <2>2. PICK s, w : s = shares[type] /\ w = Whole
    OBVIOUS
  <2>3. s \in Int /\ w \in Int /\ w # 0
    BY <1>4, <2>2, SharesOfTypes, ShareAssumption
  <2>4. s * all * m \in Int /\ w * R \in Int /\ w * R # 0
    BY <1>2, <1>4, <2>3, ProductNotZero
  <2>5. w * R * c \in Int /\ w * R * c # 0
    BY <1>2, <2>1, <2>4, ProductNotZero
  <2>6. PICK b : b = Fraction(s * all * m, w * R * c)
    OBVIOUS
  <2>7. StandsFor(b, s * all * m, w * R * c)
    BY <2>4, <2>5, <2>6, FractionIs
  <2>8. BalancedCoefficient(type) = b
    <3>1. m = Cardinality({e \in edges : Raw(type, e) > 0})
      BY <1>1 DEF WithData
    <3>2. QED
      BY <1>1, <1>4, <2>2, <2>6, <3>1, Zenon DEF BalancedCoefficient
  <2>9. StandsFor(BalancedCoefficient(type),
                  shares[type] * SumOfRawTotals(DOMAIN shares) * Cardinality(WithData(type)),
                  Whole * RawTotal(type) * Cardinality(edges))
    BY <1>1, <2>2, <2>7, <2>8, Zenon
  <2>10. IsFraction(BalancedCoefficient(type)) /\ type \in DOMAIN shares /\ RawTotal(type) # 0
         /\ Cardinality(edges) \in Nat \ {0}
    BY <1>1, <1>2, <1>4, <2>1, <2>9 DEF StandsFor
  <2>11. QED
    BY <2>9, <2>10
<1>5. QED
  BY <1>3, <1>4

\* The numerators of the balanced coefficients over a common denominator.
Over3(d, i, j, k) ==
  /\ d \in Nat /\ d > 0 /\ i \in Int /\ j \in Int /\ k \in Int
  /\ StandsFor(BalancedCoefficient(CostTypes[1]), i, d)
  /\ StandsFor(BalancedCoefficient(CostTypes[2]), j, d)
  /\ StandsFor(BalancedCoefficient(CostTypes[3]), k, d)

LEMMA BalancedTogether ==
  ASSUME InputOK
  PROVE  \E d, i, j, k : Over3(d, i, j, k)
<1>1. PICK a, b, c : /\ a = BalancedCoefficient(CostTypes[1])
                     /\ b = BalancedCoefficient(CostTypes[2])
                     /\ c = BalancedCoefficient(CostTypes[3])
  OBVIOUS
<1>2. IsFraction(a) /\ IsFraction(b) /\ IsFraction(c)
  BY <1>1, BalancedIs, ThreeTypes
<1>3. \E d \in Nat, i, j, k \in Int :
        d > 0 /\ StandsFor(a, i, d) /\ StandsFor(b, j, d) /\ StandsFor(c, k, d)
  BY <1>2, CommonDenominator
<1>4. QED
  BY <1>1, <1>3 DEF Over3

\* What the raw costs of an edge come to with these numerators.
Weighted(e, i, j, k) ==
  i * Raw(CostTypes[1], e) + j * Raw(CostTypes[2], e) + k * Raw(CostTypes[3], e)

\* The denominator of all cached costs.
CommonPart ==
  Denominator(Denominator(coefficient[CostTypes[1]][2], coefficient[CostTypes[2]][2]),
              coefficient[CostTypes[3]][2])

\* The cached costs are the weighted sums of the raw costs.
LEMMA CostsAre ==
  ASSUME BalancingInvariant, pc = "done", NEW d, NEW i, NEW j, NEW k, Over3(d, i, j, k)
  PROVE  /\ DOMAIN cost = edges
         /\ \A e \in edges : /\ StandsFor(cost[e], Weighted(e, i, j, k), d)
                             /\ cost[e][2] = CommonPart
<1>1. InputOK /\ cost = [e \in edges |-> compute_edge_cost(e)]
  BY DEF BalancingInvariant
<1>2. PICK f, g, h : /\ f = coefficient[CostTypes[1]] /\ g = coefficient[CostTypes[2]]
                     /\ h = coefficient[CostTypes[3]]
  OBVIOUS
<1>3. StandsFor(f, i, d) /\ StandsFor(g, j, d) /\ StandsFor(h, k, d)
  <2>1. \A type \in AllTypes : IsBalanced(type)
    BY DEF BalancingInvariant, CoefficientsOK
  <2>2. IsBalanced(CostTypes[1]) /\ IsBalanced(CostTypes[2]) /\ IsBalanced(CostTypes[3])
    BY <2>1, ThreeTypes
  <2>3. QED
    BY <1>2, <2>2, SameMoves DEF Over3, IsBalanced
<1>4. SUFFICES ASSUME NEW e \in edges
               PROVE  /\ StandsFor(cost[e], Weighted(e, i, j, k), d)
                      /\ cost[e][2] = CommonPart
  BY <1>1
<1>5. PICK x, y, z : /\ x = Raw(CostTypes[1], e) /\ y = Raw(CostTypes[2], e)
                     /\ z = Raw(CostTypes[3], e)
  OBVIOUS
<1>6. x \in Int /\ y \in Int /\ z \in Int
  BY <1>1, <1>5, RawIsNumber, ThreeTypes
<1>7. PICK s : s = WeightedSum(f, g, h, x, y, z)
  OBVIOUS
<1>8. cost[e] = s
  <2>1. cost[e] = compute_edge_cost(e)
    BY <1>1
  <2>2. compute_edge_cost(e) = WeightedSum(f, g, h, x, y, z)
    BY <1>2, <1>5, Zenon DEF compute_edge_cost, WeightedSum, Part
  <2>3. QED
    BY <1>7, <2>1, <2>2
<1>9. /\ StandsFor(s, i * x + j * y + k * z, d)
      /\ s[2] = Denominator(Denominator(f[2], g[2]), h[2])
  BY <1>3, <1>6, <1>7, WeightedSumIs
<1>10. QED
  BY <1>2, <1>5, <1>8, <1>9, Zenon DEF Weighted, CommonPart

\* The balancing keeps to its types: EdgeCosts!TypeOK.
THEOREM CostsTypeCorrect == Spec => []TypeOK
<1>1. BalancingInvariant => TypeOK
  <2> SUFFICES ASSUME BalancingInvariant PROVE TypeOK
    OBVIOUS
  <2> USE DEF BalancingInvariant
  <2>1. \A type \in DOMAIN coefficient : IsFraction(coefficient[type])
    BY OneIsFraction DEF CoefficientsOK, IsBalanced
  <2>2. DOMAIN coefficient \in {{}, AllTypes}
    BY DEF CoefficientsOK
  <2>3. \A type \in Collected : /\ num_edges_with_type_data[type] \in 0 .. Cardinality(edges)
                                /\ IsFraction(total_edge_costs_by_type[type])
    <3>1. SUFFICES ASSUME NEW type \in Collected
                   PROVE  /\ num_edges_with_type_data[type] \in 0 .. Cardinality(edges)
                          /\ IsFraction(total_edge_costs_by_type[type])
      OBVIOUS
    <3>2. /\ total_edge_costs_by_type[type] = <<RawTotal(type), 1>>
          /\ num_edges_with_type_data[type] = Cardinality(WithData(type))
      BY DEF CollectionOK
    <3>3. type \in AllTypes
      BY SharesOfTypes DEF CollectionOK
    <3>4. QED
      <4>1. PICK R : R = RawTotal(type)
        OBVIOUS
      <4>2. R \in Int
        BY <3>3, <4>1, RawTotalIs
      <4>3. IsFraction(<<R, 1>>)
        BY <4>2 DEF IsFraction
      <4>4. Cardinality(WithData(type)) \in 0 .. Cardinality(edges)
        BY EdgesWithData DEF WithData
      <4>5. QED
        BY <3>2, <4>1, <4>3, <4>4
  <2>4. IsFraction(total_cost)
    <3>1. PICK S : S = SumOfRawTotals(Collected)
      OBVIOUS
    <3>2. Collected \in SUBSET AllTypes
      BY SharesOfTypes DEF CollectionOK
    <3>3. S \in Int
      BY <3>1, <3>2, SumOfRawTotalsIs
    <3>4. IsFraction(<<S, 1>>)
      BY <3>3, PairIsFraction
    <3>5. QED
      BY <3>1, <3>4 DEF CollectionOK
  <2>5. DOMAIN cost \subseteq edges /\ \A e \in DOMAIN cost : IsFraction(cost[e])
    <3>1. CASE pc = "done"
      <4>1. PICK d, i, j, k : Over3(d, i, j, k)
        BY BalancedTogether
      <4>2. QED
        BY <3>1, <4>1, CostsAre DEF StandsFor
    <3>2. CASE pc # "done"
      BY <3>2
    <3>3. QED
      BY <3>1, <3>2
  <2>6. QED
    BY <2>1, <2>2, <2>3, <2>4, <2>5 DEF TypeOK, InputOK, CollectionOK
<1>2. QED
  BY <1>1, BalancingIsInvariant, PTL

\* The cached costs are those of the coefficients that the shares ask for:
\* EdgeCosts!CostsAreBalanced.
THEOREM CachedCostsAreBalanced == Spec => []CostsAreBalanced
<1>1. BalancingInvariant => CostsAreBalanced
  <2> SUFFICES ASSUME BalancingInvariant, pc = "done", NEW e \in edges
               PROVE  Same(cost[e],
                           WeightedSum(BalancedCoefficient(CostTypes[1]),
                                       BalancedCoefficient(CostTypes[2]),
                                       BalancedCoefficient(CostTypes[3]),
                                       Raw(CostTypes[1], e), Raw(CostTypes[2], e),
                                       Raw(CostTypes[3], e)))
    BY Zenon DEF CostsAreBalanced, WeightedSum, Part
  <2>1. InputOK
    BY DEF BalancingInvariant
  <2>2. PICK d, i, j, k : Over3(d, i, j, k)
    BY <2>1, BalancedTogether
  <2>3. PICK f, g, h : /\ f = BalancedCoefficient(CostTypes[1])
                       /\ g = BalancedCoefficient(CostTypes[2])
                       /\ h = BalancedCoefficient(CostTypes[3])
    OBVIOUS
  <2>4. PICK x, y, z : /\ x = Raw(CostTypes[1], e) /\ y = Raw(CostTypes[2], e)
                       /\ z = Raw(CostTypes[3], e)
    OBVIOUS
  <2>5. x \in Int /\ y \in Int /\ z \in Int
    BY <2>1, <2>4, RawIsNumber, ThreeTypes
  <2>6. StandsFor(f, i, d) /\ StandsFor(g, j, d) /\ StandsFor(h, k, d)
    BY <2>2, <2>3 DEF Over3
  <2>7. PICK s, t : s = WeightedSum(f, g, h, x, y, z) /\ t = i * x + j * y + k * z
    OBVIOUS
  <2>8. StandsFor(s, t, d)
    BY <2>5, <2>6, <2>7, WeightedSumIs
  <2>9. StandsFor(cost[e], t, d)
    <3>1. StandsFor(cost[e], Weighted(e, i, j, k), d)
      BY <2>2, CostsAre
    <3>2. Weighted(e, i, j, k) = t
      BY <2>4, <2>7, Zenon DEF Weighted
    <3>3. QED
      BY <3>1, <3>2, Zenon
  <2>10. Same(cost[e], s)
    BY <2>8, <2>9, SameIs
  <2>11. QED
    BY <2>3, <2>4, <2>7, <2>10, Zenon
<1>2. QED
  BY <1>1, BalancingIsInvariant, PTL

\* What adds up to less term by term, each with a weight that is not negative.
LEMMA WeightsOrder ==
  ASSUME NEW i \in Int, i >= 0, NEW x \in Int, NEW y \in Int, x <= y
  PROVE  i * x \in Int /\ i * y \in Int /\ i * x <= i * y
  OBVIOUS

\* Shares not being negative, a balanced coefficient is not positive for a turned type
\* and not negative for any other.
LEMMA SignOfBalanced ==
  ASSUME InputOK, SharesAreNatural, NEW type \in AllTypes,
         NEW d \in Int, d > 0, NEW n \in Int, StandsFor(BalancedCoefficient(type), n, d)
  PROVE  IF IsTurned(type) THEN n <= 0 ELSE n >= 0
<1>1. PICK b : b = BalancedCoefficient(type)
  OBVIOUS
<1>2. PICK R, all : R = RawTotal(type) /\ all = SumOfRawTotals(DOMAIN shares)
  OBVIOUS
<1>3. R \in Int /\ all \in Int
  BY <1>2, RawTotalIs, SharesOfTypes, SumOfRawTotalsIs
<1>4. CASE b = One /\ (type \in DOMAIN shares => all = 0 \/ R = 0)
  <2>1. ~IsTurned(type)
    <3>1. type \in DOMAIN shares => R * all = 0
      BY <1>3, <1>4
    <3>2. type \in DOMAIN shares => ~(R * all < 0)
      BY <3>1
    <3>3. QED
      BY <1>2, <3>2, Zenon DEF IsTurned
  <2>2. StandsFor(One, 1, 1)
    BY PairIsFraction DEF One
  <2>3. 1 * d = n * 1
    BY <1>1, <1>4, <2>2, EqualQuotients
  <2>4. n >= 0
    BY <2>3
  <2>5. QED
    BY <2>1, <2>4
<1>5. CASE ~(b = One /\ (type \in DOMAIN shares => all = 0 \/ R = 0))
  <2>1. PICK m, c, s, w :
          /\ m = Cardinality(WithData(type)) /\ c = Cardinality(edges)
          /\ s = shares[type] /\ w = Whole
    OBVIOUS
  <2>2. /\ type \in DOMAIN shares /\ R # 0 /\ c \in Nat \ {0}
        /\ StandsFor(b, s * all * m, w * R * c)
    BY <1>1, <1>2, <1>5, <2>1, BalancedIs, Zenon
  <2>3. s \in Int /\ s >= 0 /\ w \in Int /\ w > 0
    BY <2>1, <2>2, SharesOfTypes, ShareAssumption DEF SharesAreNatural
  <2>4. m \in Int /\ m >= 0
    BY <2>1, EdgesWithData DEF WithData
  <2>5. PICK q : q = R * all
    OBVIOUS
  <2>6. q \in Int /\ (IsTurned(type) <=> q < 0)
    <3>1. IsTurned(type) <=> R * all < 0
      BY <1>2, <2>2, Zenon DEF IsTurned
    <3>2. QED
      BY <1>3, <2>5, <3>1
  \* Both sides times R: what is left of n is q times what is not negative, over
  \* what is positive.
  <2>7. (s * q * m) * d = n * (w * (R * R) * c)
    <3>1. (s * all * m) * d = n * (w * R * c)
      BY <1>1, <2>2, EqualQuotients
    <3>2. (s * q * m) * d = R * ((s * all * m) * d)
      BY <1>3, <2>3, <2>4, <2>5
    <3>3. n * (w * (R * R) * c) = R * (n * (w * R * c))
      BY <1>3, <2>2, <2>3
    <3>4. QED
      BY <3>1, <3>2, <3>3
  <2>8. w * (R * R) * c \in Int /\ w * (R * R) * c > 0
    <3>1. R * R \in Int /\ R * R > 0
      BY <1>3, <2>2
    <3>2. w * (R * R) \in Int /\ w * (R * R) > 0
      BY <2>3, <3>1
    <3>3. QED
      BY <2>2, <3>2
  <2>9. CASE q < 0
    <3>1. s * q \in Int /\ s * q <= 0
      BY <2>3, <2>6, <2>9
    <3>2. s * q * m \in Int /\ s * q * m <= 0
      BY <2>4, <3>1
    <3>3. (s * q * m) * d <= 0
      BY <3>2
    <3>4. n <= 0
      BY <2>7, <2>8, <3>3
    <3>5. QED
      BY <2>6, <2>9, <3>4
  <2>10. CASE q >= 0
    <3>1. s * q \in Int /\ s * q >= 0
      BY <2>3, <2>6, <2>10
    <3>2. s * q * m \in Int /\ s * q * m >= 0
      BY <2>4, <3>1
    <3>3. (s * q * m) * d >= 0
      BY <3>2
    <3>4. n >= 0
      BY <2>7, <2>8, <3>3
    <3>5. QED
      BY <2>6, <2>10, <3>4
  <2>11. QED
    BY <2>6, <2>9, <2>10
<1>6. QED
  BY <1>4, <1>5

\* In each component an edge that is no worse costs no less.
LEMMA PartsOrder ==
  ASSUME InputOK, SharesAreNatural, NEW type \in AllTypes, NEW e \in edges, NEW f \in edges,
         IsNoWorse(type, e, f),
         NEW d \in Int, d > 0, NEW n \in Int, StandsFor(BalancedCoefficient(type), n, d)
  PROVE  /\ n * Raw(type, e) \in Int /\ n * Raw(type, f) \in Int
         /\ n * Raw(type, f) <= n * Raw(type, e)
<1>1. PICK x, u : x = Raw(type, e) /\ u = Raw(type, f)
  OBVIOUS
<1>2. x \in Int /\ u \in Int
  BY <1>1, RawIsNumber
<1>3. IF IsTurned(type) THEN n <= 0 /\ x <= u ELSE n >= 0 /\ x >= u
  BY <1>1, SignOfBalanced DEF IsNoWorse
<1>4. CASE IsTurned(type)
  <2>1. (-n) * x <= (-n) * u
    BY <1>2, <1>3, <1>4, WeightsOrder
  <2>2. n * x \in Int /\ n * u \in Int /\ n * u <= n * x
    BY <1>2, <2>1
  <2>3. QED
    BY <1>1, <2>2
<1>5. CASE ~IsTurned(type)
  <2>1. n * u \in Int /\ n * x \in Int /\ n * u <= n * x
    BY <1>2, <1>3, <1>5, WeightsOrder
  <2>2. QED
    BY <1>1, <2>1
<1>6. QED
  BY <1>4, <1>5

\* An edge that is no worse in any component costs at least as much:
\* EdgeCosts!BetterStaysBetter.
THEOREM BetterEdgesStayBetter == Spec => []BetterStaysBetter
<1>1. BalancingInvariant => BetterStaysBetter
  <2> SUFFICES ASSUME BalancingInvariant, pc = "done", SharesAreNatural,
                      NEW e \in edges, NEW f \in edges,
                      \A type \in AllTypes : IsNoWorse(type, e, f)
               PROVE  AtMost(cost[f], cost[e])
    BY DEF BetterStaysBetter
  <2>1. InputOK
    BY DEF BalancingInvariant
  <2>2. PICK d, i, j, k : Over3(d, i, j, k)
    BY <2>1, BalancedTogether
  <2>3. d \in Nat /\ d > 0 /\ i \in Int /\ j \in Int /\ k \in Int
    BY <2>2 DEF Over3
  <2>4. PICK n, m : n = Weighted(e, i, j, k) /\ m = Weighted(f, i, j, k)
    OBVIOUS
  <2>5. n \in Int /\ m \in Int /\ m <= n
    <3>1. /\ i * Raw(CostTypes[1], e) \in Int /\ i * Raw(CostTypes[1], f) \in Int
          /\ i * Raw(CostTypes[1], f) <= i * Raw(CostTypes[1], e)
      BY <2>1, <2>2, <2>3, PartsOrder, ThreeTypes DEF Over3
    <3>2. /\ j * Raw(CostTypes[2], e) \in Int /\ j * Raw(CostTypes[2], f) \in Int
          /\ j * Raw(CostTypes[2], f) <= j * Raw(CostTypes[2], e)
      BY <2>1, <2>2, <2>3, PartsOrder, ThreeTypes DEF Over3
    <3>3. /\ k * Raw(CostTypes[3], e) \in Int /\ k * Raw(CostTypes[3], f) \in Int
          /\ k * Raw(CostTypes[3], f) <= k * Raw(CostTypes[3], e)
      BY <2>1, <2>2, <2>3, PartsOrder, ThreeTypes DEF Over3
    <3>4. QED
      BY <2>4, <3>1, <3>2, <3>3 DEF Weighted
  <2>6. StandsFor(cost[e], n, d) /\ StandsFor(cost[f], m, d)
    BY <2>2, <2>4, CostsAre
  <2>7. QED
    BY <2>3, <2>5, <2>6, AtMostIs
<1>2. QED
  BY <1>1, BalancingIsInvariant, PTL

\* What a type costs in all, once it is balanced, is at most its share.
LEMMA ShareIsKept ==
  ASSUME InputOK, WaitingDaysAreNatural, SharesAreNatural, SharesOfAllTypes,
         NEW type \in AllTypes, NEW d \in Int, d > 0, NEW n \in Int,
         StandsFor(BalancedCoefficient(type), n, d)
  PROVE  n * RawTotal(type) * Whole <= shares[type] * SumOfRawTotals(AllTypes) * d
<1>1. PICK b : b = BalancedCoefficient(type)
  OBVIOUS
<1>2. PICK R, all, m, c, s, w :
        /\ R = RawTotal(type) /\ all = SumOfRawTotals(AllTypes)
        /\ m = Cardinality(WithData(type)) /\ c = Cardinality(edges)
        /\ s = shares[type] /\ w = Whole
  OBVIOUS
<1>3. /\ R \in Int /\ R >= 0 /\ s \in Int /\ s >= 0 /\ w \in Int /\ w > 0
      /\ m \in Int /\ c \in Int /\ 0 <= m /\ m <= c /\ DOMAIN shares = AllTypes
  <2>1. DOMAIN shares = AllTypes /\ s \in Int /\ s >= 0
    BY <1>2, SharesOfTypes DEF SharesAreNatural, SharesOfAllTypes
  <2>2. R \in Int /\ R >= 0
    BY <1>2, RawTotalIs
  <2>3. w \in Int /\ w > 0
    BY <1>2, ShareAssumption
  <2>4. c \in Nat /\ m \in 0 .. c
    BY <1>2, EdgesWithData DEF WithData
  <2>5. QED
    BY <2>1, <2>2, <2>3, <2>4
<1>4. all \in Int /\ all >= 0 /\ (all = 0 => R = 0)
  <2>1. PICK f, S : f = TotalOf /\ S = AllTypes
    OBVIOUS
  <2>2. /\ all = SumOver(f, S) /\ IsFiniteSet(S)
        /\ \A u \in S : f[u] = RawTotal(u) /\ f[u] \in Nat
    BY <1>2, <2>1, SumOfRawTotalsIs, RawTotalIs
  <2>3. SumOver(f, S) \in Nat
    BY <2>2, SumOfPart
  <2>4. SumOver(f, S) = f[type] + SumOver(f, S \ {type}) /\ f[type] = R
    <3>1. \A u \in S : f[u] \in Int
      BY <2>2
    <3>2. QED
      BY <1>2, <2>1, <2>2, <3>1, SumRemove
  <2>5. SumOver(f, S \ {type}) \in Nat
    <3>1. S \ {type} \in SUBSET S
      OBVIOUS
    <3>2. QED
      BY <2>2, <3>1, SumOfPart
  <2>6. QED
    BY <1>3, <2>2, <2>3, <2>4, <2>5
<1>5. s * all \in Int /\ s * all >= 0
  BY <1>3, <1>4
<1>6. s * all * d \in Int /\ s * all * d >= 0
  BY <1>5
<1>7. n * R * w \in Int
  BY <1>3
<1>8. CASE R = 0
  <2>1. n * R * w = 0
    BY <1>3, <1>8
  <2>2. QED
    BY <1>2, <1>6, <2>1
<1>9. CASE R # 0
  <2>1. c > 0 /\ StandsFor(b, s * all * m, w * R * c)
    <3>1. ~ (SumOfRawTotals(DOMAIN shares) = 0 \/ RawTotal(type) = 0)
      BY <1>2, <1>3, <1>4, <1>9, Zenon
    <3>2. /\ Cardinality(edges) \in Nat \ {0}
          /\ StandsFor(BalancedCoefficient(type),
               shares[type] * SumOfRawTotals(DOMAIN shares) * Cardinality(WithData(type)),
               Whole * RawTotal(type) * Cardinality(edges))
      BY <1>3, <3>1, BalancedIs, Zenon
    <3>3. StandsFor(b, s * all * m, w * R * c)
      BY <1>1, <1>2, <1>3, <3>2, Zenon
    <3>4. QED
      BY <1>2, <3>2, <3>3
  <2>2. (s * all * m) * d = n * (w * R * c)
    BY <1>1, <2>1, EqualQuotients
  <2>3. (n * R * w) * c = (s * all * d) * m
    <3>1. (n * R * w) * c = n * (w * R * c)
      BY <1>3
    <3>2. (s * all * d) * m = (s * all * m) * d
      BY <1>3, <1>4
    <3>3. QED
      BY <2>2, <3>1, <3>2
  <2>4. (s * all * d) * m <= (s * all * d) * c
    BY <1>3, <1>6, WeightsOrder
  <2>5. (n * R * w) * c <= (s * all * d) * c
    BY <2>3, <2>4
  <2>6. n * R * w <= s * all * d
    BY <1>3, <1>6, <1>7, <2>1, <2>5, CancelInOrder
  <2>7. QED
    BY <1>2, <2>6
<1>10. QED
  BY <1>8, <1>9

\* The cached costs come to the totals of the raw costs, weighted.
LEMMA SumOfCostsIs ==
  ASSUME BalancingInvariant, pc = "done", NEW d, NEW i, NEW j, NEW k, Over3(d, i, j, k)
  PROVE  StandsFor(SumOfCosts,
                   i * RawTotal(CostTypes[1]) + j * RawTotal(CostTypes[2])
                     + k * RawTotal(CostTypes[3]), d)
<1>1. InputOK /\ IsFiniteSet(edges)
  BY EdgesAreFinite DEF BalancingInvariant
<1>2. d \in Nat /\ d > 0 /\ i \in Int /\ j \in Int /\ k \in Int
  BY DEF Over3
<1>3. PICK f, g, h : /\ f = RawOf(CostTypes[1]) /\ g = RawOf(CostTypes[2])
                     /\ h = RawOf(CostTypes[3])
  OBVIOUS
<1>4. PICK R, S, T : /\ R = RawTotal(CostTypes[1]) /\ S = RawTotal(CostTypes[2])
                     /\ T = RawTotal(CostTypes[3])
  OBVIOUS
<1>5. /\ R = SumOver(f, edges) /\ S = SumOver(g, edges) /\ T = SumOver(h, edges)
      /\ R \in Int /\ S \in Int /\ T \in Int
  BY <1>1, <1>3, <1>4, RawTotalIs, ThreeTypes
<1>6. \A e \in edges : /\ f[e] \in Int /\ g[e] \in Int /\ h[e] \in Int
                       /\ Weighted(e, i, j, k) = i * f[e] + j * g[e] + k * h[e]
  <2>1. \A e \in edges : /\ f[e] = Raw(CostTypes[1], e) /\ f[e] \in Int
                         /\ g[e] = Raw(CostTypes[2], e) /\ g[e] \in Int
                         /\ h[e] = Raw(CostTypes[3], e) /\ h[e] \in Int
    BY <1>1, <1>3, RawTotalIs, ThreeTypes
  <2>2. QED
    BY <2>1 DEF Weighted
<1>7. CASE edges = {}
  <2>1. R = 0 /\ S = 0 /\ T = 0
    BY <1>1, <1>4, <1>7, RawTotalIs, ThreeTypes
  <2>2. i * R + j * S + k * T = 0
    BY <1>2, <2>1
  <2>3. SumOfCosts = <<0, 1>>
    BY <1>7 DEF SumOfCosts, Zero
  <2>4. StandsFor(<<0, 1>>, 0, d)
    BY <1>2 DEF StandsFor, IsFraction
  <2>5. QED
    BY <1>4, <2>2, <2>3, <2>4, Zenon
<1>8. CASE edges # {}
  <2>1. PICK q : q = CommonPart
    OBVIOUS
  <2>2. /\ DOMAIN cost = edges
        /\ \A e \in edges : /\ cost[e][1] \in Int /\ cost[e][2] = q /\ q \in Nat /\ q > 0
                            /\ cost[e][1] * d = Weighted(e, i, j, k) * q
    <3>1. SUFFICES ASSUME NEW e \in edges
                   PROVE  /\ cost[e][1] \in Int /\ cost[e][2] = q /\ q \in Nat /\ q > 0
                          /\ cost[e][1] * d = Weighted(e, i, j, k) * q
      BY CostsAre
    <3>2. PICK a, n : a = cost[e] /\ n = Weighted(e, i, j, k)
      OBVIOUS
    <3>3. StandsFor(a, n, d) /\ a[2] = q
      BY <2>1, <3>2, CostsAre
    <3>4. a[1] \in Int /\ a[2] \in Nat /\ a[2] > 0 /\ a[1] * d = n * a[2]
      BY <3>3, FractionParts DEF StandsFor
    <3>5. QED
      BY <3>2, <3>3, <3>4
  <2>3. q \in Nat /\ q > 0
    BY <1>8, <2>2
  <2>4. PICK p : p = [e \in edges |-> cost[e][1]]
    OBVIOUS
  <2>5. PICK P : P = SumOver(p, edges)
    OBVIOUS
  <2>6. \A e \in edges : p[e] = cost[e][1] /\ p[e] \in Int
    BY <2>2, <2>4
  <2>7. P \in Int
    BY <1>1, <2>5, <2>6, SumRemove
  <2>8. SumOfCosts = <<P, q>>
    <3>1. DOMAIN p = edges
      BY <2>4
    <3>2. SumFunction(p) = P
      BY <2>5, <3>1, SumOfFunction
    <3>3. cost[CHOOSE e \in edges : TRUE][2] = q
      BY <1>8, <2>2
    <3>4. QED
      BY <1>8, <2>4, <3>2, <3>3 DEF SumOfCosts
  <2>9. PICK u, v, w, x : /\ u = [e \in edges |-> i * f[e] + j * g[e]]
                          /\ v = [e \in edges |-> u[e] + k * h[e]]
                          /\ w = [e \in edges |-> q * v[e]]
                          /\ x = [e \in edges |-> d * p[e]]
    OBVIOUS
  <2>10. Combines(u, i, f, j, g, edges) /\ Combines(v, 1, u, k, h, edges)
    <3>1. \A e \in edges : /\ u[e] = i * f[e] + j * g[e] /\ u[e] \in Int
      BY <1>2, <1>6, <2>9
    <3>2. \A e \in edges : v[e] = 1 * u[e] + k * h[e]
      BY <1>2, <1>6, <2>9, <3>1
    <3>3. QED
      BY <1>6, <3>1, <3>2 DEF Combines
  <2>11. \A e \in edges : v[e] \in Int /\ v[e] = Weighted(e, i, j, k)
    BY <1>2, <1>6, <2>9
  <2>12. Combines(w, q, v, 0, v, edges) /\ Combines(x, d, p, 0, p, edges)
    <3>1. \A e \in edges : w[e] = q * v[e] + 0 * v[e]
      BY <2>3, <2>9, <2>11
    <3>2. \A e \in edges : x[e] = d * p[e] + 0 * p[e]
      BY <1>2, <2>6, <2>9
    <3>3. QED
      BY <2>6, <2>11, <3>1, <3>2 DEF Combines
  <2>13. \A e \in edges : x[e] \in Int /\ x[e] = w[e]
    <3>1. SUFFICES ASSUME NEW e \in edges PROVE x[e] \in Int /\ x[e] = w[e]
      OBVIOUS
    <3>2. PICK y, z : y = cost[e][1] /\ z = Weighted(e, i, j, k)
      OBVIOUS
    <3>3. y \in Int /\ z \in Int /\ y * d = z * q
      BY <2>2, <2>11, <3>2
    <3>4. x[e] = d * y /\ w[e] = q * z
      BY <2>6, <2>9, <2>11, <3>2
    <3>5. QED
      BY <1>2, <2>3, <3>3, <3>4
  <2>14. /\ SumOver(u, edges) = i * R + j * S
         /\ SumOver(v, edges) = 1 * SumOver(u, edges) + k * T
    BY <1>1, <1>2, <1>5, <2>10, SumLinear
  <2>15. PICK Q : Q = i * R + j * S + k * T
    OBVIOUS
  <2>16. SumOver(v, edges) = Q /\ Q \in Int
    BY <1>2, <1>5, <2>14, <2>15
  <2>17. SumOver(w, edges) = q * Q + 0 * Q
    BY <1>1, <2>3, <2>12, <2>16, SumLinear
  <2>18. SumOver(x, edges) = d * P + 0 * P
    BY <1>1, <1>2, <2>5, <2>12, SumLinear
  <2>19. SumOver(x, edges) = SumOver(w, edges)
    BY <1>1, <2>13, SumSame
  <2>20. P * d = Q * q
    BY <1>2, <2>3, <2>7, <2>16, <2>17, <2>18, <2>19
  <2>21. StandsFor(<<P, q>>, Q, d)
    BY <1>2, <2>3, <2>7, <2>16, <2>20 DEF StandsFor, IsFraction
  <2>22. QED
    BY <1>4, <2>8, <2>15, <2>21, Zenon
<1>9. QED
  BY <1>7, <1>8

\* Balancing makes the costs no higher in all than they were:
\* EdgeCosts!BalancingNeverInflates.
THEOREM BalancedCostsAreNotInflated == Spec => []BalancingNeverInflates
<1>1. BalancingInvariant => BalancingNeverInflates
  <2> SUFFICES ASSUME BalancingInvariant, pc = "done", WaitingDaysAreNatural,
                      SharesAreNatural, SharesOfAllTypes, SumOfShares <= Whole
               PROVE  AtMost(SumOfCosts, <<SumOfRawTotals(AllTypes), 1>>)
    BY DEF BalancingNeverInflates
  <2>1. InputOK
    BY DEF BalancingInvariant
  <2>2. PICK d, i, j, k : Over3(d, i, j, k)
    BY <2>1, BalancedTogether
  <2>3. d \in Nat /\ d > 0 /\ i \in Int /\ j \in Int /\ k \in Int
    BY <2>2 DEF Over3
  <2>4. PICK R, S, T, all, w :
          /\ R = RawTotal(CostTypes[1]) /\ S = RawTotal(CostTypes[2])
          /\ T = RawTotal(CostTypes[3]) /\ all = SumOfRawTotals(AllTypes) /\ w = Whole
    OBVIOUS
  <2>5. PICK x, y, z : /\ x = shares[CostTypes[1]] /\ y = shares[CostTypes[2]]
                       /\ z = shares[CostTypes[3]]
    OBVIOUS
  <2>6. /\ R \in Int /\ S \in Int /\ T \in Int /\ R >= 0 /\ S >= 0 /\ T >= 0
        /\ w \in Int /\ w > 0
    BY <2>1, <2>4, RawTotalIs, ThreeTypes, ShareAssumption
  <2>7. all \in Int /\ all >= 0
    <3>1. PICK f : f = TotalOf
      OBVIOUS
    <3>2. /\ all = SumOver(f, AllTypes)
          /\ \A u \in AllTypes : f[u] = RawTotal(u) /\ f[u] \in Int
      BY <2>1, <2>4, <3>1, SumOfRawTotalsIs
    <3>3. all = f[CostTypes[1]] + f[CostTypes[2]] + f[CostTypes[3]]
      BY <3>2, SumOverTypes
    <3>4. f[CostTypes[1]] = R /\ f[CostTypes[2]] = S /\ f[CostTypes[3]] = T
      BY <2>4, <3>2, ThreeTypes
    <3>5. QED
      BY <2>6, <3>3, <3>4
  <2>8. x \in Int /\ y \in Int /\ z \in Int /\ x + y + z <= w
    <3>1. DOMAIN shares = AllTypes /\ \A u \in AllTypes : shares[u] \in Int
      BY <2>1, SharesOfTypes DEF SharesOfAllTypes
    <3>2. SumFunction(shares) = SumOver(shares, AllTypes)
      BY <3>1, SumOfFunction, Zenon
    <3>3. SumOver(shares, AllTypes) = x + y + z
      BY <2>5, <3>1, SumOverTypes
    <3>4. SumOfShares = x + y + z
      BY <3>2, <3>3 DEF SumOfShares
    <3>5. x \in Int /\ y \in Int /\ z \in Int
      BY <2>5, <3>1, ThreeTypes
    <3>6. QED
      BY <2>4, <3>4, <3>5
  <2>9. /\ i * R * w <= x * all * d
        /\ j * S * w <= y * all * d
        /\ k * T * w <= z * all * d
    BY <2>1, <2>2, <2>3, <2>4, <2>5, ShareIsKept, ThreeTypes DEF Over3
  <2>10. PICK n : n = i * R + j * S + k * T
    OBVIOUS
  <2>11. n \in Int /\ all * d \in Int /\ all * d >= 0
    BY <2>3, <2>6, <2>7, <2>10
  <2>12. n * w <= (x + y + z) * (all * d)
    <3>1. n * w = i * R * w + j * S * w + k * T * w
      BY <2>3, <2>6, <2>10
    <3>2. (x + y + z) * (all * d) = x * all * d + y * all * d + z * all * d
      BY <2>3, <2>7, <2>8
    <3>3. /\ i * R * w \in Int /\ j * S * w \in Int /\ k * T * w \in Int
          /\ x * all * d \in Int /\ y * all * d \in Int /\ z * all * d \in Int
      BY <2>3, <2>6, <2>7, <2>8
    <3>4. QED
      BY <2>9, <3>1, <3>2, <3>3
  <2>13. (x + y + z) * (all * d) <= w * (all * d)
    <3>1. x + y + z \in Int
      BY <2>8
    <3>2. (all * d) * (x + y + z) <= (all * d) * w
      BY <2>6, <2>8, <2>11, <3>1, WeightsOrder
    <3>3. QED
      BY <2>6, <2>11, <3>1, <3>2
  <2>14. n <= all * d
    <3>1. n * w \in Int /\ (x + y + z) * (all * d) \in Int /\ w * (all * d) = (all * d) * w
          /\ (all * d) * w \in Int
      BY <2>6, <2>8, <2>11
    <3>2. n * w <= (all * d) * w
      BY <2>12, <2>13, <3>1
    <3>3. QED
      BY <2>6, <2>11, <3>2, CancelInOrder
  <2>15. StandsFor(SumOfCosts, n, d)
    BY <2>2, <2>4, <2>10, SumOfCostsIs, Zenon
  <2>16. StandsFor(<<all, 1>>, all * d, d)
    BY <2>3, <2>7, <2>11 DEF StandsFor, IsFraction
  <2>17. PICK a, b : a = SumOfCosts /\ b = <<all, 1>>
    OBVIOUS
  <2>18. AtMost(a, b)
    BY <2>3, <2>14, <2>15, <2>16, <2>17, AtMostIs
  <2>19. QED
    BY <2>4, <2>17, <2>18, Zenon
<1>2. QED
  BY <1>1, BalancingIsInvariant, PTL
=============================================================================
