------------------------ MODULE CycleCancelingProofs ------------------------
(***************************************************************************)
(* What TLAPS proves of CycleCanceling, for all sizes, costs and graphs.   *)
(* Part 1: in any network, what the rounds of Bellman and Ford leave       *)
(* behind leads back to a cycle of negative weight.  Part 2: flow that is  *)
(* pushed around it stays a matching of the same value.  Part 3: these,    *)
(* and that no better matching is left when there is no such cycle.        *)
(***************************************************************************)
EXTENDS CycleCanceling, FiniteSums

-----------------------------------------------------------------------------
(* Part 1: the search.  R is the set of arcs with residual capacity, w the *)
(* weight of each, d the distances, p the predecessors, n the number of    *)
(* rounds done, pos the place this round is at.                            *)

\* f is a walk of n steps from v to predecessors.
IsWalk(f, p, v, n) ==
  /\ f \in [0 .. n -> Vertices]
  /\ f[0] = v
  /\ \A i \in 1 .. n : f[i] = p[f[i - 1]]

Deep(p, v, n) == \E f : IsWalk(f, p, v, n)

\* The predecessors of S are S.
Circular(p, S) ==
  /\ S \in SUBSET Vertices
  /\ S # {}
  /\ \A v \in S : p[v] \in S
  /\ \A v \in S : \E x \in S : p[x] = v

IsNetwork(R, w) ==
  /\ R \subseteq Vertices \X Vertices
  /\ \A v \in Vertices : <<v, v>> \notin R
  /\ \A a \in R : w[a] \in Int

Better(w, d, a) == d[a[1]] + w[a] < d[a[2]]

\* A predecessor is the tail of an arc that was relaxed, and may have come
\* nearer since.
PredecessorsOK(R, w, d, p) ==
  \A v \in Vertices : p[v] # NoVertex =>
    <<p[v], v>> \in R /\ d[v] >= d[p[v]] + w[<<p[v], v>>]

\* The arc that closes a circle makes a distance smaller than the one that the
\* next arc of the circle was relaxed for.
CirclesShrink(w, d, p) ==
  \A S : Circular(p, S) => \E v \in S : d[v] > d[p[v]] + w[<<p[v], v>>]

\* An arc can be relaxed only if its tail has come nearer since the round before
\* got to it, and so for the tail's predecessor in that round.
DepthOK(R, w, d, p, n, pos) ==
  \A a \in R : Better(w, d, a) =>
    /\ Deep(p, a[1], n)
    /\ Place(a) < pos => Deep(p, a[1], n + 1)

\* A round that has relaxed nothing leaves nothing behind.
RoundOK(R, w, d, pos, one) ==
  ~one => \A a \in R : Place(a) < pos => ~Better(w, d, a)

Searched(R, w, d, p, n, pos, one) ==
  /\ IsNetwork(R, w)
  /\ d \in [Vertices -> Int]
  /\ p \in [Vertices -> Vertices \cup {NoVertex}]
  /\ n \in Nat
  /\ pos \in Nat
  /\ one \in BOOLEAN
  /\ PredecessorsOK(R, w, d, p)
  /\ CirclesShrink(w, d, p)
  /\ DepthOK(R, w, d, p, n, pos)
  /\ RoundOK(R, w, d, pos, one)

-----------------------------------------------------------------------------
\* How many vertices there are.
LEMMA HowManyVertices ==
  /\ NumVertices = NumPupils + NumStudents + 2 /\ NumVertices \in Nat /\ NumVertices >= 2
  /\ Vertices = 0 .. NumVertices - 1 /\ IsFiniteSet(Vertices)
  /\ NoVertex \notin Vertices
<1>1. t_id \in Nat /\ t_id = NumPupils + NumStudents + 1
  BY SizeAssumption DEF t_id, s_id
<1>2. IsFiniteSet(0 .. t_id) /\ Cardinality(0 .. t_id) = t_id + 1
  BY <1>1, FS_Interval
<1>3. QED
  BY <1>1, <1>2, SizeAssumption DEF NumVertices, Vertices, NoVertex

\* One step of a walk.
LEMMA DeepSteps ==
  ASSUME NEW p, NEW n \in Nat, NEW v
  PROVE  /\ Deep(p, v, 0) <=> v \in Vertices
         /\ Deep(p, v, n + 1) <=> v \in Vertices /\ Deep(p, p[v], n)
<1>1. ASSUME v \in Vertices PROVE Deep(p, v, 0)
  <2>1. IsWalk([i \in 0 .. 0 |-> v], p, v, 0)
    BY <1>1 DEF IsWalk
  <2>2. QED
    BY <2>1 DEF Deep
<1>2. ASSUME NEW m \in Nat, Deep(p, v, m) PROVE v \in Vertices
  BY <1>2 DEF Deep, IsWalk
<1>3. ASSUME Deep(p, v, n + 1) PROVE Deep(p, p[v], n)
  <2>1. PICK f : IsWalk(f, p, v, n + 1)
    BY <1>3 DEF Deep
  <2> DEFINE g == [i \in 0 .. n |-> f[i + 1]]
  <2>2. g \in [0 .. n -> Vertices] /\ g[0] = p[v]
    BY <2>1 DEF IsWalk
  <2>3. ASSUME NEW i \in 1 .. n PROVE g[i] = p[g[i - 1]]
    <3>1. i + 1 \in 1 .. n + 1 /\ i + 1 - 1 = i /\ i - 1 + 1 = i /\ i - 1 \in 0 .. n /\ i \in 0 .. n
      OBVIOUS
    <3>2. f[i + 1] = p[f[i]]
      BY <2>1, <3>1 DEF IsWalk
    <3>3. QED
      BY <3>1, <3>2
  <2> HIDE DEF g
  <2>4. IsWalk(g, p, p[v], n)
    BY <2>2, <2>3 DEF IsWalk
  <2>5. QED
    BY <2>4 DEF Deep
<1>4. ASSUME v \in Vertices, Deep(p, p[v], n) PROVE Deep(p, v, n + 1)
  <2>1. PICK f : IsWalk(f, p, p[v], n)
    BY <1>4 DEF Deep
  <2> DEFINE g == [i \in 0 .. n + 1 |-> IF i = 0 THEN v ELSE f[i - 1]]
  <2>2. g \in [0 .. n + 1 -> Vertices] /\ g[0] = v
    BY <1>4, <2>1 DEF IsWalk
  <2>3. ASSUME NEW i \in 1 .. n + 1 PROVE g[i] = p[g[i - 1]]
    <3>1. CASE i = 1
      BY <2>1, <3>1 DEF IsWalk
    <3>2. CASE i # 1
      <4>1. i - 1 \in 1 .. n /\ i - 1 \in 0 .. n + 1 /\ i \in 0 .. n + 1 /\ i - 1 # 0 /\ i # 0
        BY <3>2
      <4>2. f[i - 1] = p[f[i - 1 - 1]]
        BY <2>1, <4>1 DEF IsWalk
      <4>3. QED
        BY <4>1, <4>2
    <3>3. QED
      BY <3>1, <3>2
  <2> HIDE DEF g
  <2>4. IsWalk(g, p, v, n + 1)
    BY <2>2, <2>3 DEF IsWalk
  <2>5. QED
    BY <2>4 DEF Deep
<1>5. QED
  BY <1>1, <1>2, <1>3, <1>4

\* A walk can end earlier.
LEMMA DeepLess ==
  ASSUME NEW p, NEW n \in Nat, NEW v, Deep(p, v, n + 1)
  PROVE  Deep(p, v, n)
<1>1. PICK f : IsWalk(f, p, v, n + 1)
  BY DEF Deep
<1> DEFINE g == [i \in 0 .. n |-> f[i]]
<1>2. IsWalk(g, p, v, n)
  BY <1>1 DEF IsWalk
<1>3. QED
  BY <1>2 DEF Deep

\* A vertex u that n predecessors lead back from can become the predecessor of v:
\* walks of up to n + 1 steps are as long as before, whether they meet v or not.
LEMMA Redirected ==
  ASSUME NEW p \in [Vertices -> Vertices \cup {NoVertex}], NEW v \in Vertices,
         NEW u \in Vertices, NEW n \in Nat, Deep(p, u, n),
         NEW q, q = [p EXCEPT ![v] = u]
  PROVE  /\ \A m \in 0 .. n + 1 : \A x : Deep(p, x, m) => Deep(q, x, m)
         /\ Deep(q, v, n + 1)
<1> DEFINE P == {m \in Nat : m <= n + 1 => \A x : Deep(p, x, m) => Deep(q, x, m)}
           D == {m \in Nat : m <= n => Deep(p, u, n - m)}
<1>1. \A m \in 0 .. n : Deep(p, u, m)
  <2>1. ASSUME NEW m \in Nat, \A l \in 0 .. m - 1 : l \in D PROVE m \in D
    <3>1. SUFFICES ASSUME m <= n PROVE Deep(p, u, n - m)
      OBVIOUS
    <3>2. CASE m = 0
      BY <3>2
    <3>3. CASE m # 0
      <4>1. m - 1 \in 0 .. m - 1 /\ m - 1 \in Nat /\ n - m \in Nat /\ n - (m - 1) = n - m + 1
        BY <3>1, <3>3
      <4>2. m - 1 \in D
        BY <2>1, <4>1
      <4>3. Deep(p, u, n - m + 1)
        BY <3>1, <4>1, <4>2
      <4>4. QED
        BY <4>1, <4>3, DeepLess
    <3>4. QED
      BY <3>2, <3>3
  <2> HIDE DEF D
  <2>2. \A m \in Nat : m \in D
    BY <2>1, LeastNumber
  <2>3. ASSUME NEW m \in 0 .. n PROVE Deep(p, u, m)
    <3>1. n - m \in Nat /\ n - m <= n /\ n - (n - m) = m
      OBVIOUS
    <3>2. n - m \in D
      BY <2>2, <3>1
    <3>3. Deep(p, u, n - (n - m))
      BY <3>1, <3>2 DEF D
    <3>4. QED
      BY <3>1, <3>3
  <2>4. QED
    BY <2>3
<1>2. ASSUME NEW m \in Nat, \A l \in 0 .. m - 1 : l \in P PROVE m \in P
  <2>1. SUFFICES ASSUME m <= n + 1, NEW x, Deep(p, x, m) PROVE Deep(q, x, m)
    OBVIOUS
  <2>2. CASE m = 0
    BY <2>1, <2>2, DeepSteps
  <2>3. CASE m # 0
    <3>1. PICK l \in Nat : m = l + 1 /\ l \in 0 .. m - 1 /\ l <= n /\ l \in 0 .. n
      <4>1. m - 1 \in Nat /\ m = m - 1 + 1 /\ m - 1 \in 0 .. m - 1 /\ m - 1 <= n
            /\ m - 1 \in 0 .. n
        BY <2>1, <2>3
      <4>2. QED
        BY <4>1
    <3>2. \A y : Deep(p, y, l) => Deep(q, y, l)
      <4>1. l <= n + 1
        BY <3>1
      <4> HIDE DEF P
      <4>2. l \in P
        BY <1>2, <3>1
      <4>3. QED
        BY <4>1, <4>2 DEF P
    <3>3. x \in Vertices /\ Deep(p, p[x], l)
      BY <2>1, <3>1, DeepSteps
    <3>4. Deep(q, q[x], l)
      <4>1. CASE x = v
        BY <1>1, <3>1, <3>2, <4>1
      <4>2. CASE x # v
        BY <3>2, <3>3, <4>2
      <4>3. QED
        BY <4>1, <4>2
    <3>5. QED
      BY <3>1, <3>3, <3>4, DeepSteps
  <2>4. QED
    BY <2>2, <2>3
<1> HIDE DEF P
<1>3. \A m \in Nat : m \in P
  BY <1>2, LeastNumber
<1>4. \A m \in 0 .. n + 1 : \A x : Deep(p, x, m) => Deep(q, x, m)
  <2>1. ASSUME NEW m \in 0 .. n + 1, NEW x, Deep(p, x, m) PROVE Deep(q, x, m)
    <3>1. m \in P /\ m <= n + 1
      BY <1>3
    <3>2. QED
      BY <2>1, <3>1 DEF P
  <2>2. QED
    BY <2>1
<1>5. Deep(q, u, n) /\ q[v] = u
  <2>1. n \in 0 .. n + 1
    OBVIOUS
  <2>2. QED
    BY <1>4, <2>1
<1>6. QED
  BY <1>4, <1>5, DeepSteps

\* The arcs have different places in the list.
LEMMA Places ==
  /\ \A a \in Vertices \X Vertices : Place(a) \in Nat
  /\ \A a, b \in Vertices \X Vertices : Place(a) = Place(b) => a = b
<1>1. PICK n \in Nat : n = NumVertices /\ Vertices = 0 .. n - 1
  BY HowManyVertices
<1>2. \A x \in Nat : n * x \in Nat
  OBVIOUS
<1>3. ASSUME NEW x \in Nat, NEW y \in Nat, x < y PROVE n * x + n <= n * y
  <2>1. y = x + 1 + (y - x - 1) /\ y - x - 1 \in Nat
    BY <1>3
  <2>2. \A z \in Nat : n * (x + 1 + z) = n * x + n + n * z
    OBVIOUS
  <2>3. n * y = n * x + n + n * (y - x - 1)
    BY <2>1, <2>2
  <2>4. n * (y - x - 1) \in Nat /\ n * x \in Nat
    BY <1>2, <2>1
  <2>5. QED
    BY <2>3, <2>4
<1>4. \A a \in Vertices \X Vertices :
        a = <<a[1], a[2]>> /\ a[1] \in Nat /\ a[2] \in Nat /\ a[2] < n
  BY <1>1
<1>5. ASSUME NEW a \in Vertices \X Vertices PROVE Place(a) \in Nat
  BY <1>1, <1>2, <1>4 DEF Place
<1>6. ASSUME NEW a \in Vertices \X Vertices, NEW b \in Vertices \X Vertices,
             a[1] < b[1]
      PROVE  Place(a) < Place(b)
  <2>1. n * a[1] + n <= n * b[1] /\ n * a[1] \in Nat /\ n * b[1] \in Nat
    BY <1>2, <1>3, <1>4, <1>6
  <2>2. Place(a) = n * a[1] + a[2] /\ Place(b) = n * b[1] + b[2]
    BY <1>1 DEF Place
  <2>3. a[2] \in Nat /\ a[2] < n /\ b[2] \in Nat
    BY <1>4
  <2>4. QED
    BY <2>1, <2>2, <2>3
<1>7. ASSUME NEW a \in Vertices \X Vertices, NEW b \in Vertices \X Vertices,
             Place(a) = Place(b)
      PROVE  a = b
  <2>1. a[1] = b[1]
    BY <1>4, <1>5, <1>6, <1>7
  <2>2. n * a[1] \in Nat /\ n * a[1] + a[2] = n * b[1] + b[2]
    BY <1>1, <1>2, <1>4, <1>7 DEF Place
  <2>3. a[2] = b[2]
    BY <1>4, <2>1, <2>2
  <2>4. QED
    BY <1>4, <2>1, <2>3
<1>8. QED
  BY <1>5, <1>7

\* A search that begins.
LEMMA FreshSearch ==
  ASSUME NEW R, NEW w, IsNetwork(R, w), NEW d \in [Vertices -> Int],
         NEW p, p = [v \in Vertices |-> NoVertex]
  PROVE  Searched(R, w, d, p, 0, 0, FALSE)
<1>1. \A a \in R : a[1] \in Vertices /\ ~(Place(a) < 0)
  BY Places DEF IsNetwork
<1>2. \A S : ~Circular(p, S)
  BY HowManyVertices DEF Circular
<1>3. \A v : v \in Vertices => Deep(p, v, 0)
  BY DeepSteps
<1>4. QED
  BY <1>1, <1>2, <1>3
  DEF Searched, PredecessorsOK, CirclesShrink, DepthOK, RoundOK

\* An arc of the round that is not relaxed.
LEMMA LeftAlone ==
  ASSUME NEW R, NEW w, NEW d, NEW p, NEW n, NEW pos, NEW one,
         Searched(R, w, d, p, n, pos, one), NEW a \in R,
         \A b \in R : Place(b) >= pos => Place(a) <= Place(b), ~Better(w, d, a)
  PROVE  Searched(R, w, d, p, n, Place(a) + 1, one)
<1>1. \A b \in R : Place(b) \in Nat /\ (Place(b) = Place(a) => b = a)
  BY Places DEF Searched, IsNetwork
<1>2. \A b \in R : Place(b) < Place(a) + 1 => Place(b) < pos \/ b = a
  BY <1>1 DEF Searched
<1>3. DepthOK(R, w, d, p, n, Place(a) + 1)
  BY <1>2 DEF Searched, DepthOK
<1>4. RoundOK(R, w, d, Place(a) + 1, one)
  BY <1>2 DEF Searched, RoundOK
<1>5. QED
  BY <1>1, <1>3, <1>4 DEF Searched

\* An arc that is relaxed.
LEMMA Relaxed ==
  ASSUME NEW R, NEW w, NEW d, NEW p, NEW n, NEW pos, NEW one,
         Searched(R, w, d, p, n, pos, one), NEW u, NEW v, <<u, v>> \in R,
         \A b \in R : Place(b) >= pos => Place(<<u, v>>) <= Place(b),
         Place(<<u, v>>) >= pos, Better(w, d, <<u, v>>),
         NEW e, e = [d EXCEPT ![v] = d[u] + w[<<u, v>>]],
         NEW q, q = [p EXCEPT ![v] = u]
  PROVE  Searched(R, w, e, q, n, Place(<<u, v>>) + 1, TRUE)
<1> DEFINE a == <<u, v>>
<1>1. u \in Vertices /\ v \in Vertices /\ u # v /\ w[a] \in Int /\ n \in Nat
  BY DEF Searched, IsNetwork
<1>2. d \in [Vertices -> Int] /\ p \in [Vertices -> Vertices \cup {NoVertex}]
  BY DEF Searched
<1>3. /\ e \in [Vertices -> Int] /\ q \in [Vertices -> Vertices \cup {NoVertex}]
      /\ e[v] = d[u] + w[a] /\ e[v] < d[v] /\ e[u] = d[u] /\ q[v] = u
      /\ \A x \in Vertices \ {v} : e[x] = d[x] /\ q[x] = p[x]
      /\ \A x \in Vertices : e[x] <= d[x]
  BY <1>1, <1>2 DEF Better
<1>4. \A b \in R : b = <<b[1], b[2]>> /\ b[1] \in Vertices /\ b[2] \in Vertices
                   /\ b[1] # b[2] /\ w[b] \in Int
  BY DEF Searched, IsNetwork
<1> HIDE DEF a
<1>5. PredecessorsOK(R, w, e, q)
  <2>1. SUFFICES ASSUME NEW x \in Vertices, q[x] # NoVertex
                 PROVE  <<q[x], x>> \in R /\ e[x] >= e[q[x]] + w[<<q[x], x>>]
    BY DEF PredecessorsOK
  <2>2. CASE x = v
    BY <1>1, <1>2, <1>3, <2>2 DEF a
  <2>3. CASE x # v
    <3>1. q[x] = p[x] /\ e[x] = d[x] /\ p[x] \in Vertices
      BY <1>2, <1>3, <2>1, <2>3
    <3>2. <<p[x], x>> \in R /\ d[x] >= d[p[x]] + w[<<p[x], x>>]
      BY <2>1, <3>1 DEF Searched, PredecessorsOK
    <3>3. w[<<p[x], x>>] \in Int /\ e[p[x]] <= d[p[x]] /\ e[p[x]] \in Int /\ d[p[x]] \in Int
          /\ d[x] \in Int
      BY <1>2, <1>3, <1>4, <3>1, <3>2
    <3>4. QED
      BY <3>1, <3>2, <3>3
  <2>4. QED
    BY <2>2, <2>3
<1>6. CirclesShrink(w, e, q)
  <2>1. SUFFICES ASSUME NEW S, Circular(q, S)
                 PROVE  \E x \in S : e[x] > e[q[x]] + w[<<q[x], x>>]
    BY DEF CirclesShrink
  <2>2. CASE v \in S
    <3>1. PICK x \in S : q[x] = v
      BY <2>1, <2>2 DEF Circular
    <3>2. x \in Vertices /\ x # v /\ q[x] = p[x] /\ e[x] = d[x]
      BY <1>1, <1>3, <2>1, <3>1 DEF Circular
    <3>3. <<v, x>> \in R /\ d[x] >= d[v] + w[<<v, x>>]
      BY <1>1, <3>1, <3>2, HowManyVertices DEF Searched, PredecessorsOK
    <3>4. w[<<v, x>>] \in Int /\ d[x] \in Int /\ d[v] \in Int /\ e[v] \in Int
      BY <1>1, <1>2, <1>3, <1>4, <3>2, <3>3
    <3>5. e[x] > e[v] + w[<<v, x>>]
      BY <1>3, <3>2, <3>3, <3>4
    <3>6. QED
      BY <3>1, <3>5
  <2>3. CASE v \notin S
    <3>1. \A x \in S : x \in Vertices /\ q[x] = p[x] /\ e[x] = d[x] /\ p[x] \in S
      BY <1>3, <2>1, <2>3 DEF Circular
    <3>2. Circular(p, S)
      BY <2>1, <3>1 DEF Circular
    <3>3. PICK x \in S : d[x] > d[p[x]] + w[<<p[x], x>>]
      BY <3>2 DEF Searched, CirclesShrink
    <3>4. QED
      BY <3>1, <3>3
  <2>4. QED
    BY <2>2, <2>3
<1>7. /\ \A m \in 0 .. n + 1 : \A x : Deep(p, x, m) => Deep(q, x, m)
      /\ Better(w, d, a) /\ Deep(p, u, n) /\ Deep(q, v, n + 1)
  <2>1. Better(w, d, a) /\ Deep(p, u, n)
    BY DEF Searched, DepthOK, a
  <2>2. QED
    BY <1>1, <1>2, <2>1, Redirected
<1>8. DepthOK(R, w, e, q, n, Place(a) + 1)
  <2>1. SUFFICES ASSUME NEW b \in R, Better(w, e, b)
                 PROVE  Deep(q, b[1], n)
                        /\ (Place(b) < Place(a) + 1 => Deep(q, b[1], n + 1))
    BY DEF DepthOK
  <2>2. CASE b[1] = v
    <3>1. Deep(q, v, n)
      BY <1>1, <1>7, DeepLess
    <3>2. QED
      BY <1>7, <2>2, <3>1
  <2>3. CASE b[1] # v
    <3>1. e[b[1]] = d[b[1]] /\ e[b[2]] <= d[b[2]] /\ w[b] \in Int
          /\ e[b[2]] \in Int /\ d[b[2]] \in Int /\ d[b[1]] \in Int
      BY <1>2, <1>3, <1>4, <2>3
    <3>2. Better(w, d, b)
      BY <2>1, <3>1 DEF Better
    <3>3. b # a
      <4>1. ~Better(w, e, a)
        BY <1>2, <1>3 DEF Better, a
      <4>2. QED
        BY <2>1, <4>1
    <3>4. Place(b) < Place(a) + 1 => Place(b) < pos
      BY <3>3, Places DEF Searched, IsNetwork, a
    <3>5. n \in 0 .. n + 1 /\ n + 1 \in 0 .. n + 1
      BY <1>1
    <3>6. QED
      BY <1>7, <3>2, <3>4, <3>5 DEF Searched, DepthOK
  <2>4. QED
    BY <2>2, <2>3
<1>9. Place(a) + 1 \in Nat
  BY Places DEF Searched, IsNetwork, a
<1>10. QED
  BY <1>3, <1>5, <1>6, <1>8, <1>9 DEF Searched, RoundOK, a

AllPassed(R, pos) == \A a \in R : Place(a) < pos

\* The end of a round.
LEMMA RoundEnded ==
  ASSUME NEW R, NEW w, NEW d, NEW p, NEW n, NEW pos, NEW one,
         Searched(R, w, d, p, n, pos, one), AllPassed(R, pos)
  PROVE  Searched(R, w, d, p, n + 1, 0, FALSE)
<1> USE DEF AllPassed
<1>1. \A a \in R : ~(Place(a) < 0)
  BY Places DEF Searched, IsNetwork
<1>2. DepthOK(R, w, d, p, n + 1, 0)
  BY <1>1 DEF Searched, DepthOK
<1>3. RoundOK(R, w, d, 0, FALSE)
  BY <1>1 DEF RoundOK
<1>4. QED
  BY <1>2, <1>3 DEF Searched, RoundOK

\* A walk over more vertices than there are has met one twice.
LEMMA WalkRepeats ==
  ASSUME NEW f, NEW p, NEW u, IsWalk(f, p, u, NumVertices)
  PROVE  \E i, j \in 0 .. NumVertices : i < j /\ f[i] = f[j]
<1>1. PICK n \in Nat : n = NumVertices
  BY HowManyVertices
<1>2. /\ IsFiniteSet(0 .. n) /\ Cardinality(0 .. n) = n + 1
      /\ IsFiniteSet(Vertices) /\ Cardinality(Vertices) = n
  BY <1>1, FS_Interval, HowManyVertices DEF NumVertices
<1>3. f \in [0 .. n -> Vertices]
  BY <1>1 DEF IsWalk
<1>4. \E i, j \in 0 .. n : i # j /\ f[i] = f[j]
  BY <1>2, <1>3, FS_PigeonHole
<1>5. QED
  BY <1>1, <1>4

\* Going back as often as there are vertices, and once more, leads to a circle.
LEMMA WalkToCircle ==
  ASSUME NEW f, NEW p, NEW u, IsWalk(f, p, u, NumVertices)
  PROVE  \E S : Circular(p, S) /\ p[f[NumVertices]] \in S
<1>1. PICK n \in Nat : n = NumVertices
  BY HowManyVertices
<1>2. PICK i, j \in 0 .. n : i < j /\ f[i] = f[j]
  BY <1>1, WalkRepeats
<1>3. /\ f \in [0 .. n -> Vertices]
      /\ \A m \in 0 .. n - 1 : f[m + 1] = p[f[m]]
  <2>1. f \in [0 .. n -> Vertices]
    BY <1>1 DEF IsWalk
  <2>2. ASSUME NEW m \in 0 .. n - 1 PROVE f[m + 1] = p[f[m]]
    <3>1. m + 1 \in 1 .. n /\ m + 1 - 1 = m
      OBVIOUS
    <3>2. QED
      BY <1>1, <3>1 DEF IsWalk
  <2>3. QED
    BY <2>1, <2>2
<1> DEFINE S == {f[m] : m \in i + 1 .. j}
           P == {m \in Nat : j + m <= n => f[j + m] \in S}
<1>4. ASSUME NEW v \in S PROVE p[v] \in S
  <2>1. PICK m \in i + 1 .. j : v = f[m]
    OBVIOUS
  <2>2. CASE m < j
    <3>1. m \in 0 .. n - 1 /\ m + 1 \in i + 1 .. j
      BY <2>2
    <3>2. QED
      BY <1>3, <2>1, <3>1
  <2>3. CASE m = j
    <3>1. i \in 0 .. n - 1 /\ i + 1 \in i + 1 .. j
      BY <1>2
    <3>2. QED
      BY <1>2, <1>3, <2>1, <2>3, <3>1
  <2>4. QED
    BY <2>2, <2>3
<1>5. ASSUME NEW v \in S PROVE \E x \in S : p[x] = v
  <2>1. PICK m \in i + 1 .. j : v = f[m]
    OBVIOUS
  <2>2. m - 1 \in 0 .. n - 1 /\ m - 1 + 1 = m
    OBVIOUS
  <2>3. v = p[f[m - 1]]
    BY <1>3, <2>1, <2>2
  <2>4. CASE m = i + 1
    <3>1. j \in i + 1 .. j /\ m - 1 = i
      BY <1>2, <2>4
    <3>2. QED
      BY <1>2, <2>3, <3>1
  <2>5. CASE m # i + 1
    <3>1. m - 1 \in i + 1 .. j
      BY <2>5
    <3>2. QED
      BY <2>3, <3>1
  <2>6. QED
    BY <2>4, <2>5
<1>6. f[j] \in S
  <2>1. j \in i + 1 .. j
    BY <1>2
  <2>2. QED
    BY <2>1
<1>7. S \in SUBSET Vertices
  BY <1>3
<1> HIDE DEF S
<1>8. ASSUME NEW m \in Nat, \A l \in 0 .. m - 1 : l \in P PROVE m \in P
  <2>1. SUFFICES ASSUME j + m <= n PROVE f[j + m] \in S
    OBVIOUS
  <2>2. CASE m = 0
    BY <1>6, <2>2
  <2>3. CASE m # 0
    <3>1. /\ m - 1 \in 0 .. m - 1 /\ m - 1 \in Nat /\ j + (m - 1) <= n
          /\ j + (m - 1) \in 0 .. n - 1 /\ j + (m - 1) + 1 = j + m
      BY <2>1, <2>3
    <3>2. f[j + (m - 1)] \in S
      BY <1>8, <3>1
    <3>3. QED
      BY <1>3, <1>4, <3>1, <3>2
  <2>4. QED
    BY <2>2, <2>3
<1> HIDE DEF P
<1>9. f[n] \in S
  <2>1. n - j \in Nat /\ j + (n - j) = n
    OBVIOUS
  <2>2. n - j \in P
    BY <1>8, <2>1, LeastNumber
  <2>3. QED
    BY <2>1, <2>2 DEF P
<1>10. Circular(p, S) /\ p[f[n]] \in S
  BY <1>4, <1>5, <1>6, <1>7, <1>9 DEF Circular
<1>11. QED
  BY <1>1, <1>10

\* On a circle different vertices have different predecessors.
LEMMA CircleIsInjective ==
  ASSUME NEW p, NEW S, Circular(p, S), NEW v \in S, NEW x \in S, p[v] = p[x]
  PROVE  v = x
<1>1. IsFiniteSet(S)
  BY HowManyVertices, FS_Subset DEF Circular
<1>2. PICK f : f = [y \in S |-> p[y]]
  OBVIOUS
<1>3. f \in Surjection(S, S)
  BY <1>2 DEF Circular, Surjection
<1>4. f \in Injection(S, S)
  BY <1>1, <1>3, FS_SurjSameCardinalityImpliesInj
<1>5. QED
  BY <1>2, <1>4 DEF Injection, IsInjective

\* From a vertex of a circle, predecessors lead back to it, and what is met on the
\* way is a circle of its own.
LEMMA CircleComesRound ==
  ASSUME NEW p, NEW S, Circular(p, S), NEW c \in S
  PROVE  \E g : /\ IsWalk(g, p, c, NumVertices)
                /\ \E n \in 1 .. NumVertices : g[n] = c
                /\ Circular(p, {g[m] : m \in 0 .. NumVertices})
<1>1. PICK N \in Nat : N = NumVertices
  BY HowManyVertices
<1>2. S \subseteq Vertices /\ \A v \in S : p[v] \in S
  BY DEF Circular
<1>3. Deep(p, c, N)
  <2> DEFINE P == {m \in Nat : \A x \in S : Deep(p, x, m)}
  <2>1. ASSUME NEW m \in Nat, \A l \in 0 .. m - 1 : l \in P PROVE m \in P
    <3>1. CASE m = 0
      BY <1>2, <3>1, DeepSteps
    <3>2. CASE m # 0
      <4>1. m - 1 \in 0 .. m - 1 /\ m - 1 \in Nat /\ m - 1 + 1 = m
        BY <3>2
      <4>2. \A x \in S : Deep(p, x, m - 1)
        BY <2>1, <4>1
      <4>3. \A x \in S : Deep(p, x, m - 1 + 1)
        BY <1>2, <4>1, <4>2, DeepSteps
      <4>4. QED
        BY <4>1, <4>3
    <3>3. QED
      BY <3>1, <3>2
  <2> HIDE DEF P
  <2>2. N \in P
    BY <2>1, LeastNumber
  <2>3. QED
    BY <2>2 DEF P
<1>4. PICK g : IsWalk(g, p, c, N)
  BY <1>3 DEF Deep
<1>5. /\ g \in [0 .. N -> Vertices] /\ g[0] = c
      /\ \A m \in 0 .. N - 1 : g[m + 1] = p[g[m]]
  <2>1. g \in [0 .. N -> Vertices] /\ g[0] = c
    BY <1>4 DEF IsWalk
  <2>2. ASSUME NEW m \in 0 .. N - 1 PROVE g[m + 1] = p[g[m]]
    <3>1. m + 1 \in 1 .. N /\ m + 1 - 1 = m
      OBVIOUS
    <3>2. QED
      BY <1>4, <3>1 DEF IsWalk
  <2>3. QED
    BY <2>1, <2>2
<1>6. \A m \in 0 .. N : g[m] \in S
  <2> DEFINE P == {m \in Nat : m <= N => g[m] \in S}
  <2>1. ASSUME NEW m \in Nat, \A l \in 0 .. m - 1 : l \in P PROVE m \in P
    <3>1. CASE m = 0
      BY <1>5, <3>1
    <3>2. CASE m # 0
      <4>1. m - 1 \in 0 .. m - 1 /\ m - 1 \in Nat /\ m - 1 + 1 = m
            /\ (m <= N => m - 1 <= N /\ m - 1 \in 0 .. N - 1)
        BY <3>2
      <4>2. m <= N => g[m - 1] \in S
        BY <2>1, <4>1
      <4>3. QED
        BY <1>2, <1>5, <4>1, <4>2
    <3>3. QED
      BY <3>1, <3>2
  <2> HIDE DEF P
  <2>2. \A m \in Nat : m \in P
    BY <2>1, LeastNumber
  <2>3. QED
    BY <2>2 DEF P
<1>7. PICK i, j \in 0 .. N : i < j /\ g[i] = g[j]
  BY <1>1, <1>4, WalkRepeats
<1>8. g[0] = g[j - i]
  <2> DEFINE P == {m \in Nat : m <= i => g[i - m] = g[j - m]}
  <2>1. ASSUME NEW m \in Nat, \A l \in 0 .. m - 1 : l \in P PROVE m \in P
    <3>1. SUFFICES ASSUME m <= i PROVE g[i - m] = g[j - m]
      OBVIOUS
    <3>2. CASE m = 0
      BY <1>7, <3>2
    <3>3. CASE m # 0
      <4>1. /\ m - 1 \in 0 .. m - 1 /\ m - 1 \in Nat /\ m - 1 <= i
            /\ i - m \in 0 .. N - 1 /\ j - m \in 0 .. N - 1
            /\ i - m + 1 = i - (m - 1) /\ j - m + 1 = j - (m - 1)
            /\ i - m \in 0 .. N /\ j - m \in 0 .. N
        BY <1>7, <3>1, <3>3
      <4>2. g[i - (m - 1)] = g[j - (m - 1)]
        BY <2>1, <4>1
      <4>3. p[g[i - m]] = p[g[j - m]]
        BY <1>5, <4>1, <4>2
      <4>4. g[i - m] \in S /\ g[j - m] \in S
        BY <1>6, <4>1
      <4>5. QED
        BY <4>3, <4>4, CircleIsInjective
    <3>4. QED
      BY <3>2, <3>3
  <2> HIDE DEF P
  <2>2. i \in Nat /\ i <= i /\ i - i = 0
    OBVIOUS
  <2>3. i \in P
    BY <2>1, <2>2, LeastNumber
  <2>4. QED
    BY <2>2, <2>3 DEF P
<1>9. PICK n \in 1 .. N : n = j - i /\ g[n] = c /\ n \in Nat /\ n >= 1 /\ n <= N
  BY <1>5, <1>7, <1>8
<1>10. \A m \in 0 .. N : \E l \in 0 .. n - 1 : g[m] = g[l]
  <2> DEFINE P == {m \in Nat : m <= N => \E l \in 0 .. n - 1 : g[m] = g[l]}
  <2>1. ASSUME NEW m \in Nat, \A l \in 0 .. m - 1 : l \in P PROVE m \in P
    <3>1. SUFFICES ASSUME m <= N PROVE \E l \in 0 .. n - 1 : g[m] = g[l]
      OBVIOUS
    <3>2. 0 \in 0 .. n - 1
      BY <1>9
    <3>3. CASE m = 0
      BY <3>2, <3>3
    <3>4. CASE m # 0
      <4>1. /\ m - 1 \in 0 .. m - 1 /\ m - 1 \in Nat /\ m - 1 <= N /\ m - 1 \in 0 .. N - 1
            /\ m - 1 + 1 = m
        BY <3>1, <3>4
      <4>2. PICK l \in 0 .. n - 1 : g[m - 1] = g[l]
        BY <2>1, <4>1
      <4>3. l \in 0 .. N - 1 /\ l + 1 \in 1 .. n
        BY <1>9
      <4>4. g[m] = g[l + 1]
        BY <1>5, <4>1, <4>2, <4>3
      <4>5. CASE l + 1 = n
        BY <1>5, <1>9, <3>2, <4>4, <4>5
      <4>6. CASE l + 1 # n
        <5>1. l + 1 \in 0 .. n - 1
          BY <4>3, <4>6
        <5>2. QED
          BY <4>4, <5>1
      <4>7. QED
        BY <4>5, <4>6
    <3>5. QED
      BY <3>3, <3>4
  <2> HIDE DEF P
  <2>2. \A m \in Nat : m \in P
    BY <2>1, LeastNumber
  <2>3. QED
    BY <2>2 DEF P
<1> DEFINE C == {g[m] : m \in 0 .. N}
<1>11. ASSUME NEW v \in C PROVE p[v] \in C
  <2>1. PICK l \in 0 .. n - 1 : v = g[l]
    BY <1>10
  <2>2. l \in 0 .. N - 1 /\ l + 1 \in 0 .. N
    BY <1>9
  <2>3. QED
    BY <1>5, <2>1, <2>2
<1>12. ASSUME NEW v \in C PROVE \E x \in C : p[x] = v
  <2>1. PICK m \in 0 .. N : v = g[m]
    OBVIOUS
  <2>2. PICK l \in 0 .. N - 1 : v = g[l + 1]
    <3>1. CASE m = 0
      <4>1. n - 1 \in 0 .. N - 1 /\ n - 1 + 1 = n
        BY <1>9
      <4>2. v = g[n]
        BY <1>5, <1>9, <2>1, <3>1
      <4>3. QED
        BY <4>1, <4>2
    <3>2. CASE m # 0
      <4>1. m - 1 \in 0 .. N - 1 /\ m - 1 + 1 = m
        BY <3>2
      <4>2. QED
        BY <2>1, <4>1
    <3>3. QED
      BY <3>1, <3>2
  <2>3. l \in 0 .. N
    OBVIOUS
  <2>4. QED
    BY <1>5, <2>2, <2>3
<1>13. C \in SUBSET Vertices /\ C # {}
  <2>1. 0 \in 0 .. N
    OBVIOUS
  <2>2. QED
    BY <1>5, <2>1
<1> HIDE DEF C
<1>14. Circular(p, C)
  BY <1>11, <1>12, <1>13 DEF Circular
<1>15. QED
  BY <1>1, <1>4, <1>9, <1>14 DEF C

\* A circle that the search has left consists of arcs of the network, and weighs
\* less than nothing.
LEMMA CircleWeight ==
  ASSUME NEW R, NEW w, NEW d, NEW p, NEW n, NEW pos, NEW one,
         Searched(R, w, d, p, n, pos, one), NEW S, Circular(p, S)
  PROVE  /\ \A v \in S : <<p[v], v>> \in R
         /\ SumOver(w, {<<p[v], v>> : v \in S}) < 0
<1>1. IsFiniteSet(S) /\ S \subseteq Vertices /\ \A v \in S : p[v] \in S
  BY HowManyVertices, FS_Subset DEF Circular
<1>2. ASSUME NEW v \in S
      PROVE  /\ <<p[v], v>> \in R /\ w[<<p[v], v>>] \in Int
             /\ d[v] \in Int /\ d[p[v]] \in Int /\ d[p[v]] + w[<<p[v], v>>] <= d[v]
  <2>1. v \in Vertices /\ p[v] \in Vertices /\ p[v] # NoVertex
    BY <1>1, HowManyVertices
  <2>2. <<p[v], v>> \in R /\ d[v] >= d[p[v]] + w[<<p[v], v>>]
    BY <2>1 DEF Searched, PredecessorsOK
  <2>3. w[<<p[v], v>>] \in Int /\ d[v] \in Int /\ d[p[v]] \in Int
    BY <2>1, <2>2 DEF Searched, IsNetwork
  <2>4. QED
    BY <2>2, <2>3
<1>3. PICK C, b, q, e, x, y :
        /\ C = {<<p[v], v>> : v \in S}
        /\ b = [v \in S |-> <<p[v], v>>]
        /\ q = [v \in S |-> p[v]]
        /\ e = [v \in S |-> d[p[v]]]
        /\ x = [v \in S |-> w[<<p[v], v>>]]
        /\ y = [v \in S |-> d[p[v]] + w[<<p[v], v>>]]
  OBVIOUS
<1>4. SumOver(y, S) < SumOver(d, S)
  <2>1. \A v \in S : y[v] \in Int /\ d[v] \in Int /\ y[v] <= d[v]
    BY <1>2, <1>3
  <2>2. PICK z \in S : d[z] > d[p[z]] + w[<<p[z], z>>]
    BY DEF Searched, CirclesShrink
  <2>3. y[z] < d[z]
    BY <1>2, <1>3, <2>2
  <2>4. QED
    BY <1>1, <2>1, <2>3, SumStrict
<1>5. SumOver(y, S) = 1 * SumOver(e, S) + 1 * SumOver(x, S)
  <2>1. Combines(y, 1, e, 1, x, S)
    BY <1>2, <1>3 DEF Combines
  <2>2. QED
    BY <1>1, <2>1, SumLinear
<1>6. SumOver(d, S) = SumOver(e, S)
  <2>1. Reindexes(q, S, S, e, d)
    <3>1. \A v \in S : q[v] \in S /\ d[q[v]] \in Int /\ e[v] = d[q[v]]
      BY <1>1, <1>2, <1>3
    <3>2. \A z \in S : \E v \in S : q[v] = z
      BY <1>3 DEF Circular
    <3>3. \A u, v \in S : q[u] = q[v] => u = v
      BY <1>3, CircleIsInjective
    <3>4. QED
      BY <3>1, <3>2, <3>3 DEF Reindexes
  <2>2. QED
    BY <1>1, <2>1, SumReindexed
<1>7. SumOver(w, C) = SumOver(x, S)
  <2>1. Reindexes(b, S, C, x, w)
    BY <1>2, <1>3 DEF Reindexes
  <2>2. QED
    BY <1>1, <2>1, SumReindexed
<1>8. SumOver(e, S) \in Int /\ SumOver(x, S) \in Int
  <2>1. \A v \in S : e[v] \in Int /\ x[v] \in Int
    BY <1>2, <1>3
  <2>2. QED
    BY <1>1, <2>1, SumRemove
<1>9. SumOver(w, C) < 0
  BY <1>4, <1>5, <1>6, <1>7, <1>8
<1>10. QED
  BY <1>2, <1>3, <1>9

\* If an arc and its reverse are on a circle, together they weigh less than
\* nothing.
LEMMA CircleOfTwo ==
  ASSUME NEW R, NEW w, NEW d, NEW p, NEW n, NEW pos, NEW one,
         Searched(R, w, d, p, n, pos, one), NEW S, Circular(p, S),
         NEW u \in S, NEW v \in S, p[u] = v, p[v] = u
  PROVE  w[<<u, v>>] + w[<<v, u>>] < 0
<1>1. PICK T : T = {u, v} /\ Circular(p, T)
  <2>1. Circular(p, {u, v})
    BY DEF Circular
  <2>2. QED
    BY <2>1
<1>2. PICK x \in {u, v} : d[x] > d[p[x]] + w[<<p[x], x>>]
  <2>1. CirclesShrink(w, d, p)
    BY DEF Searched
  <2>2. \E x \in T : d[x] > d[p[x]] + w[<<p[x], x>>]
    BY <1>1, <2>1 DEF CirclesShrink
  <2>3. QED
    BY <1>1, <2>2
<1>3. u \in Vertices /\ v \in Vertices /\ u # NoVertex /\ v # NoVertex
  BY HowManyVertices DEF Circular
<1>4. /\ <<u, v>> \in R /\ d[v] >= d[u] + w[<<u, v>>]
      /\ <<v, u>> \in R /\ d[u] >= d[v] + w[<<v, u>>]
  BY <1>3 DEF Searched, PredecessorsOK
<1>5. w[<<u, v>>] \in Int /\ w[<<v, u>>] \in Int /\ d[u] \in Int /\ d[v] \in Int
  BY <1>3, <1>4 DEF Searched, IsNetwork
<1>6. QED
  BY <1>2, <1>4, <1>5

\* Back goes the walk to predecessors.
LEMMA BackIsWalk ==
  ASSUME NEW f, NEW v, NEW n \in Nat, IsWalk(f, pred, v, n)
  PROVE  \A m \in 0 .. n : Back(v, m) = f[m]
<1> SUFFICES ASSUME NEW m \in 0 .. n PROVE Back(v, m) = f[m]
  OBVIOUS
<1> DEFINE G(b) == b = [i \in 0 .. m |-> IF i = 0 THEN v ELSE pred[b[i - 1]]]
<1>1. Back(v, m) = (CHOOSE b : G(b))[m]
  BY DEF Back
<1>2. \E b : G(b)
  <2>1. PICK b : b = [i \in 0 .. m |-> f[i]]
    OBVIOUS
  <2>2. \A i \in 0 .. m : b[i] = IF i = 0 THEN v ELSE pred[b[i - 1]]
    BY <2>1 DEF IsWalk
  <2>3. G(b)
    BY <2>1, <2>2
  <2>4. QED
    BY <2>3
<1>3. PICK c : c = CHOOSE b : G(b)
  OBVIOUS
<1>4. G(c)
  BY <1>2, <1>3
<1> DEFINE P == {i \in Nat : i <= m => c[i] = f[i]}
<1>5. ASSUME NEW i \in Nat, \A l \in 0 .. i - 1 : l \in P PROVE i \in P
  <2>1. SUFFICES ASSUME i <= m PROVE c[i] = f[i]
    OBVIOUS
  <2>2. CASE i = 0
    BY <1>4, <2>2 DEF IsWalk
  <2>3. CASE i # 0
    <3>1. i - 1 \in 0 .. i - 1 /\ i - 1 <= m /\ i \in 0 .. m /\ i \in 1 .. n
      BY <2>1, <2>3
    <3>2. c[i - 1] = f[i - 1]
      BY <1>5, <3>1
    <3>3. c[i] = pred[c[i - 1]]
      BY <1>4, <2>3, <3>1
    <3>4. QED
      BY <3>1, <3>2, <3>3 DEF IsWalk
  <2>4. QED
    BY <2>2, <2>3
<1> HIDE DEF P
<1>6. m \in Nat /\ m <= m
  OBVIOUS
<1>7. m \in P
  BY <1>5, <1>6, LeastNumber
<1>8. QED
  BY <1>1, <1>3, <1>6, <1>7 DEF P

\* An arc that can still be relaxed after as many rounds as there are vertices
\* leads back to a circle.
LEMMA SearchFindsCircle ==
  ASSUME NEW R, NEW w, NEW d, NEW pos, NEW one,
         Searched(R, w, d, pred, NumVertices, pos, one),
         NEW a \in R, Better(w, d, a)
  PROVE  \E S : Circular(pred, S) /\ Back(a[1], NumVertices + 1) \in S
<1>1. PICK N \in Nat : N = NumVertices
  BY HowManyVertices
<1>2. PICK f : IsWalk(f, pred, a[1], N)
  BY <1>1 DEF Searched, DepthOK, Deep
<1>3. PICK S : Circular(pred, S) /\ pred[f[N]] \in S
  BY <1>1, <1>2, WalkToCircle
<1> DEFINE g == [i \in 0 .. N + 1 |-> IF i = N + 1 THEN pred[f[N]] ELSE f[i]]
<1>4. IsWalk(g, pred, a[1], N + 1)
  <2>1. pred[f[N]] \in Vertices
    BY <1>3 DEF Circular
  <2>2. g \in [0 .. N + 1 -> Vertices] /\ g[0] = a[1] /\ g[N + 1] = pred[f[N]]
    BY <1>2, <2>1 DEF IsWalk
  <2>3. ASSUME NEW i \in 1 .. N + 1 PROVE g[i] = pred[g[i - 1]]
    <3>1. CASE i = N + 1
      BY <3>1
    <3>2. CASE i # N + 1
      <4>1. i \in 1 .. N /\ i - 1 \in 0 .. N + 1 /\ i - 1 # N + 1
        BY <3>2
      <4>2. QED
        BY <1>2, <3>2, <4>1 DEF IsWalk
    <3>3. QED
      BY <3>1, <3>2
  <2>4. QED
    BY <2>2, <2>3 DEF IsWalk
<1>5. g[N + 1] = pred[f[N]] /\ N + 1 \in 0 .. N + 1 /\ N + 1 \in Nat
  OBVIOUS
<1> HIDE DEF g
<1>6. Back(a[1], N + 1) = pred[f[N]]
  BY <1>4, <1>5, BackIsWalk
<1>7. QED
  BY <1>1, <1>3, <1>6

-----------------------------------------------------------------------------
(* Part 2: the flow.  E are the edges of the graph and r is the residual    *)
(* capacity; an arc carries flow when it has none left.                     *)

NetArcs(E) == EdgeArcs(E) \cup SourceArcs \cup SinkArcs
BothWays(E) ==
  NetArcs(E) \cup {DirectArc} \cup {rev(a) : a \in NetArcs(E)} \cup {rev(DirectArc)}

\* All arcs have capacity 1, but the one from s to t has capacity m.
CapacitiesOK(E, r, m) ==
  /\ \A a \in NetArcs(E) : r[a] \in {0, 1} /\ r[rev(a)] = 1 - r[a]
  /\ r[DirectArc] \in Nat /\ r[rev(DirectArc)] \in Nat
  /\ r[DirectArc] + r[rev(DirectArc)] = m

\* The students that a pupil sends flow to, and the pupils a student gets it from.
Sends(E, r, q) == {v \in StudentVertices : <<q, v>> \in EdgeArcs(E) /\ r[<<q, v>>] = 0}
Gets(E, r, v) == {q \in PupilIds : <<q, v>> \in EdgeArcs(E) /\ r[<<q, v>>] = 0}

AtMostOne(K) == \A x, y \in K : x = y

\* A pupil sends the unit it gets from s, a student the unit it gets on to t.
Conserved(E, r) ==
  /\ \A q \in PupilIds : /\ AtMostOne(Sends(E, r, q))
                         /\ r[<<s_id, q>>] = 0 <=> Sends(E, r, q) # {}
  /\ \A v \in StudentVertices : /\ AtMostOne(Gets(E, r, v))
                                /\ r[<<v, t_id>>] = 0 <=> Gets(E, r, v) # {}

Served(r) == {q \in PupilIds : r[<<s_id, q>>] = 0}
FlowValue(r) == Cardinality(Served(r)) + r[rev(DirectArc)]

\* A cycle of arcs with residual capacity that does not turn on the spot.
IsFlowCycle(E, r, p, S) ==
  /\ Circular(p, S)
  /\ \A v \in S : <<p[v], v>> \in BothWays(E) /\ r[<<p[v], v>>] > 0
  /\ \A u, v \in S : ~ (p[u] = v /\ p[v] = u)

ArcsOf(p, S) == {<<p[v], v>> : v \in S}
Pushed(E, r, C, n) ==
  [a \in BothWays(E) |-> IF a \in C THEN r[a] - n
                         ELSE IF rev(a) \in C THEN r[a] + n ELSE r[a]]

\* The vertices are the pupils, the students, s and t, which all differ.
LEMMA VertexKinds ==
  /\ Vertices = PupilIds \cup StudentVertices \cup {s_id, t_id}
  /\ PupilIds \cap StudentVertices = {}
  /\ {s_id, t_id} \cap (PupilIds \cup StudentVertices) = {}
  /\ s_id # t_id
<1>1. StudentVertices = NumPupils .. (s_id - 1)
  BY SizeAssumption DEF StudentVertices, StudentVertex, StudentIds, s_id
<1>2. QED
  BY <1>1, SizeAssumption DEF Vertices, PupilIds, s_id, t_id

\* What the arcs of the network lead from and to.
LEMMA NetArcKinds ==
  ASSUME NEW E \in SUBSET (PupilIds \X StudentIds), NEW a \in NetArcs(E)
  PROVE  /\ a = <<a[1], a[2]>> /\ rev(a) = <<a[2], a[1]>>
         /\ \/ a \in EdgeArcs(E) /\ a[1] \in PupilIds /\ a[2] \in StudentVertices
            \/ a[1] = s_id /\ a[2] \in PupilIds
            \/ a[1] \in StudentVertices /\ a[2] = t_id
<1>1. CASE a \in EdgeArcs(E)
  BY <1>1 DEF EdgeArcs, EdgeArc, StudentVertices, rev
<1>2. CASE a \in SourceArcs
  BY <1>2 DEF SourceArcs, rev
<1>3. CASE a \in SinkArcs
  BY <1>3 DEF SinkArcs, StudentVertices, rev
<1>4. QED
  BY <1>1, <1>2, <1>3 DEF NetArcs

\* What an arc or reverse arc at a vertex leads from and to.
LEMMA ArcKinds ==
  ASSUME NEW E \in SUBSET (PupilIds \X StudentIds), NEW x, NEW y, <<x, y>> \in BothWays(E)
  PROVE  /\ x \in Vertices /\ y \in Vertices /\ x # y
         /\ x \in PupilIds => y = s_id \/ (y \in StudentVertices /\ <<x, y>> \in EdgeArcs(E))
         /\ y \in PupilIds => x = s_id \/ (x \in StudentVertices /\ <<y, x>> \in EdgeArcs(E))
         /\ x \in StudentVertices => y = t_id \/ (y \in PupilIds /\ <<y, x>> \in EdgeArcs(E))
         /\ y \in StudentVertices => x = t_id \/ (x \in PupilIds /\ <<x, y>> \in EdgeArcs(E))
         /\ x = s_id => y \in PupilIds \cup {t_id}
         /\ y = s_id => x \in PupilIds \cup {t_id}
         /\ x = t_id => y \in StudentVertices \cup {s_id}
         /\ y = t_id => x \in StudentVertices \cup {s_id}
<1>1. CASE <<x, y>> \in NetArcs(E)
  BY <1>1, NetArcKinds, VertexKinds
<1>2. CASE <<x, y>> \in {rev(a) : a \in NetArcs(E)}
  <2>1. PICK a \in NetArcs(E) : <<x, y>> = rev(a)
    BY <1>2
  <2>2. x = a[2] /\ y = a[1] /\ <<y, x>> = a
    BY <2>1, NetArcKinds
  <2>3. QED
    BY <2>1, <2>2, NetArcKinds, VertexKinds
<1>3. CASE <<x, y>> = DirectArc \/ <<x, y>> = rev(DirectArc)
  BY <1>3, VertexKinds DEF DirectArc, rev
<1>4. QED
  BY <1>1, <1>2, <1>3 DEF BothWays

\* The arcs at pupils, students, s and t.
LEMMA ArcsAtVertices ==
  ASSUME NEW E \in SUBSET (PupilIds \X StudentIds)
  PROVE  /\ \A q \in PupilIds : <<s_id, q>> \in NetArcs(E)
         /\ \A v \in StudentVertices : <<v, t_id>> \in NetArcs(E)
         /\ EdgeArcs(E) \subseteq NetArcs(E)
         /\ \A a \in NetArcs(E) : a \in BothWays(E) /\ rev(a) \in BothWays(E)
         /\ DirectArc \in BothWays(E) /\ rev(DirectArc) \in BothWays(E)
         /\ DirectArc = <<s_id, t_id>> /\ rev(DirectArc) = <<t_id, s_id>>
  BY DEF NetArcs, BothWays, SourceArcs, SinkArcs, StudentVertices, DirectArc, rev

\* At v there are two arcs of C: one from x and one to y.
Passes(C, v, x, y) ==
  /\ x # y
  /\ \A z : <<z, v>> \in C <=> z = x
  /\ \A z : <<v, z>> \in C <=> z = y

\* The arcs of a circle at one of its vertices are those from its predecessor and
\* to the vertex that it precedes.
LEMMA ArcsOfCircle ==
  ASSUME NEW E \in SUBSET (PupilIds \X StudentIds), NEW r, NEW p, NEW S,
         IsFlowCycle(E, r, p, S)
  PROVE  /\ \A x, y : <<x, y>> \in ArcsOf(p, S) <=> y \in S /\ p[y] = x
         /\ \A x, y : <<x, y>> \in ArcsOf(p, S) =>
              /\ x \in S /\ <<x, y>> \in BothWays(E) /\ r[<<x, y>>] > 0
              /\ <<y, x>> \notin ArcsOf(p, S)
         /\ \A v \in S : \E x, y : Passes(ArcsOf(p, S), v, x, y)
<1>1. \A x, y : <<x, y>> \in ArcsOf(p, S) <=> y \in S /\ p[y] = x
  BY DEF ArcsOf
<1>2. \A x, y : <<x, y>> \in ArcsOf(p, S) =>
        /\ x \in S /\ <<x, y>> \in BothWays(E) /\ r[<<x, y>>] > 0
        /\ <<y, x>> \notin ArcsOf(p, S)
  BY <1>1 DEF IsFlowCycle, Circular
<1>3. ASSUME NEW v \in S PROVE \E x, y : Passes(ArcsOf(p, S), v, x, y)
  <2>1. PICK y \in S : p[y] = v
    BY DEF IsFlowCycle, Circular
  <2>2. PICK x : x = p[v]
    OBVIOUS
  <2>3. x # y
    BY <2>1, <2>2 DEF IsFlowCycle
  <2>4. \A z : <<z, v>> \in ArcsOf(p, S) <=> z = x
    BY <1>1, <2>2
  <2>5. \A z \in S : p[z] = v => z = y
    BY <2>1, CircleIsInjective DEF IsFlowCycle
  <2>6. \A z : <<v, z>> \in ArcsOf(p, S) <=> z = y
    BY <1>1, <2>1, <2>5
  <2>7. Passes(ArcsOf(p, S), v, x, y)
    BY <2>3, <2>4, <2>6 DEF Passes
  <2>8. QED
    BY <2>7
<1>4. QED
  BY <1>1, <1>2, <1>3

\* What one unit around the cycle does to an arc.
LEMMA PushedArc ==
  ASSUME NEW E \in SUBSET (PupilIds \X StudentIds), NEW r, NEW m, CapacitiesOK(E, r, m),
         NEW p, NEW S, IsFlowCycle(E, r, p, S), NEW C, C = ArcsOf(p, S),
         NEW g, g = Pushed(E, r, C, 1), NEW x, NEW y, <<x, y>> \in NetArcs(E)
  PROVE  /\ <<x, y>> \in C => r[<<x, y>>] = 1
         /\ <<y, x>> \in C => r[<<x, y>>] = 0
         /\ g[<<x, y>>] = 0 <=> <<x, y>> \in C \/ (r[<<x, y>>] = 0 /\ <<y, x>> \notin C)
         /\ g[<<x, y>>] \in {0, 1} /\ g[<<y, x>>] = 1 - g[<<x, y>>]
<1>1. rev(<<x, y>>) = <<y, x>> /\ rev(<<y, x>>) = <<x, y>>
  BY DEF rev
<1>2. <<x, y>> \in BothWays(E) /\ <<y, x>> \in BothWays(E)
  BY <1>1, ArcsAtVertices
<1>3. r[<<x, y>>] \in {0, 1} /\ r[<<y, x>>] = 1 - r[<<x, y>>]
  BY <1>1 DEF CapacitiesOK
<1>4. /\ <<x, y>> \in C => r[<<x, y>>] > 0 /\ <<y, x>> \notin C
      /\ <<y, x>> \in C => r[<<y, x>>] > 0 /\ <<x, y>> \notin C
  BY ArcsOfCircle
<1>5. /\ g[<<x, y>>] = IF <<x, y>> \in C THEN r[<<x, y>>] - 1
                       ELSE IF <<y, x>> \in C THEN r[<<x, y>>] + 1 ELSE r[<<x, y>>]
      /\ g[<<y, x>>] = IF <<y, x>> \in C THEN r[<<y, x>>] - 1
                       ELSE IF <<x, y>> \in C THEN r[<<y, x>>] + 1 ELSE r[<<y, x>>]
  BY <1>1, <1>2 DEF Pushed
<1>6. QED
  BY <1>3, <1>4, <1>5

\* One end of a unit of flow is moved: from the partner l to g, from l back to z,
\* or from z to g.
Moves(K, J, g, l, z) ==
  /\ AtMostOne(K) /\ z \notin K /\ g # l
  /\ l # z => l \in K
  /\ l = z => K = {}
  /\ g = z => K # {}
  /\ \A x : x \in J <=> (x \in K /\ x # l) \/ (x = g /\ g # z)

\* There is still at most one partner, and it is known when there is one.
LEMMA Moved ==
  ASSUME NEW K, NEW J, NEW g, NEW l, NEW z, Moves(K, J, g, l, z)
  PROVE  AtMostOne(J) /\ (J # {} <=> l = z \/ (K # {} /\ g # z))
  BY DEF AtMostOne, Moves

\* g is r after one unit around the cycle.
IsPush(E, r, m, p, S, C, g) ==
  /\ CapacitiesOK(E, r, m)
  /\ IsFlowCycle(E, r, p, S)
  /\ C = ArcsOf(p, S)
  /\ g = Pushed(E, r, C, 1)

\* What the push does to the arcs, and where the cycle passes.
LEMMA PushFacts ==
  ASSUME NEW E \in SUBSET (PupilIds \X StudentIds), NEW r, NEW m, NEW p, NEW S, NEW C,
         NEW g, IsPush(E, r, m, p, S, C, g)
  PROVE  /\ \A x, y : <<x, y>> \in NetArcs(E) =>
              /\ <<x, y>> \in C => r[<<x, y>>] = 1
              /\ <<y, x>> \in C => r[<<x, y>>] = 0
              /\ g[<<x, y>>] = 0 <=>
                   <<x, y>> \in C \/ (r[<<x, y>>] = 0 /\ <<y, x>> \notin C)
         /\ \A x, y : <<x, y>> \in C => x \in S /\ y \in S /\ <<x, y>> \in BothWays(E)
         /\ \A v \in S : \E x, y : Passes(C, v, x, y)
<1>1. ASSUME NEW x, NEW y, <<x, y>> \in NetArcs(E)
      PROVE  /\ <<x, y>> \in C => r[<<x, y>>] = 1
             /\ <<y, x>> \in C => r[<<x, y>>] = 0
             /\ g[<<x, y>>] = 0 <=>
                  <<x, y>> \in C \/ (r[<<x, y>>] = 0 /\ <<y, x>> \notin C)
  BY <1>1, PushedArc DEF IsPush
<1>2. IsFlowCycle(E, r, p, S) /\ C = ArcsOf(p, S)
  BY DEF IsPush
<1>3. QED
  BY <1>1, <1>2, ArcsOfCircle

\* A pupil that the cycle passes through still passes on what it gets.
LEMMA PushAtPupil ==
  ASSUME NEW E \in SUBSET (PupilIds \X StudentIds), NEW r, NEW m, NEW p, NEW S, NEW C,
         NEW g, IsPush(E, r, m, p, S, C, g), Conserved(E, r), NEW q \in PupilIds
  PROVE  /\ AtMostOne(Sends(E, g, q))
         /\ g[<<s_id, q>>] = 0 <=> Sends(E, g, q) # {}
<1>1. <<s_id, q>> \in NetArcs(E) /\ \A v : <<q, v>> \in EdgeArcs(E) => <<q, v>> \in NetArcs(E)
  BY ArcsAtVertices
<1>2. /\ g[<<s_id, q>>] = 0 <=>
           <<s_id, q>> \in C \/ (r[<<s_id, q>>] = 0 /\ <<q, s_id>> \notin C)
      /\ <<s_id, q>> \in C => r[<<s_id, q>>] = 1
      /\ <<q, s_id>> \in C => r[<<s_id, q>>] = 0
      /\ \A z \in S : \E x, y : Passes(C, z, x, y)
  BY <1>1, PushFacts
<1>3. \A v : v \in Sends(E, g, q) <=>
        /\ v \in StudentVertices /\ <<q, v>> \in EdgeArcs(E)
        /\ <<q, v>> \in C \/ (r[<<q, v>>] = 0 /\ <<v, q>> \notin C)
  BY <1>1, PushFacts DEF Sends
<1>4. AtMostOne(Sends(E, r, q)) /\ (r[<<s_id, q>>] = 0 <=> Sends(E, r, q) # {})
  BY DEF Conserved
<1>5. CASE q \notin S
  <2>1. \A x, y : <<x, y>> \in C => x # q /\ y # q
    BY <1>5, PushFacts
  <2>2. \A v : v \in Sends(E, g, q) <=> v \in Sends(E, r, q)
    BY <1>3, <2>1 DEF Sends
  <2>3. QED
    BY <1>2, <1>4, <2>1, <2>2 DEF AtMostOne
<1>6. CASE q \in S
  <2>1. PICK x, y : Passes(C, q, x, y)
    BY <1>2, <1>6
  <2>2. <<x, q>> \in C /\ <<q, y>> \in C /\ x # y
    BY <2>1 DEF Passes
  <2>3. <<x, q>> \in BothWays(E) /\ <<q, y>> \in BothWays(E)
    BY <2>2, PushFacts
  <2>4. /\ x = s_id \/ (x \in StudentVertices /\ <<q, x>> \in EdgeArcs(E))
        /\ y = s_id \/ (y \in StudentVertices /\ <<q, y>> \in EdgeArcs(E))
    BY <2>3, ArcKinds
  <2>5. s_id \notin StudentVertices
    BY VertexKinds
  <2>6. x # s_id => x \in Sends(E, r, q)
    BY <1>1, <2>2, <2>4, PushFacts DEF Sends
  <2>7. x = s_id => Sends(E, r, q) = {}
    BY <1>2, <1>4, <2>2
  <2>8. y = s_id => Sends(E, r, q) # {}
    BY <1>2, <1>4, <2>2
  <2>9. \A v : v \in Sends(E, g, q) <=>
          (v \in Sends(E, r, q) /\ v # x) \/ (v = y /\ y # s_id)
    BY <1>3, <2>1, <2>4, <2>5 DEF Passes, Sends
  <2>10. s_id \notin Sends(E, r, q)
    BY <2>5 DEF Sends
  <2>11. /\ AtMostOne(Sends(E, g, q))
         /\ Sends(E, g, q) # {} <=> x = s_id \/ (Sends(E, r, q) # {} /\ y # s_id)
    <3>1. Moves(Sends(E, r, q), Sends(E, g, q), y, x, s_id)
      BY <1>4, <2>2, <2>6, <2>7, <2>8, <2>9, <2>10 DEF Moves
    <3>2. QED
      BY <3>1, Moved
  <2>12. <<s_id, q>> \in C <=> x = s_id
    BY <2>1 DEF Passes
  <2>13. <<q, s_id>> \in C <=> y = s_id
    BY <2>1 DEF Passes
  <2>14. QED
    BY <1>2, <1>4, <2>11, <2>12, <2>13
<1>7. QED
  BY <1>5, <1>6

\* So does a student.
LEMMA PushAtStudent ==
  ASSUME NEW E \in SUBSET (PupilIds \X StudentIds), NEW r, NEW m, NEW p, NEW S, NEW C,
         NEW g, IsPush(E, r, m, p, S, C, g), Conserved(E, r), NEW v \in StudentVertices
  PROVE  /\ AtMostOne(Gets(E, g, v))
         /\ g[<<v, t_id>>] = 0 <=> Gets(E, g, v) # {}
<1>1. <<v, t_id>> \in NetArcs(E) /\ \A q : <<q, v>> \in EdgeArcs(E) => <<q, v>> \in NetArcs(E)
  BY ArcsAtVertices
<1>2. /\ g[<<v, t_id>>] = 0 <=>
           <<v, t_id>> \in C \/ (r[<<v, t_id>>] = 0 /\ <<t_id, v>> \notin C)
      /\ <<v, t_id>> \in C => r[<<v, t_id>>] = 1
      /\ <<t_id, v>> \in C => r[<<v, t_id>>] = 0
      /\ \A z \in S : \E x, y : Passes(C, z, x, y)
  BY <1>1, PushFacts
<1>3. \A q : q \in Gets(E, g, v) <=>
        /\ q \in PupilIds /\ <<q, v>> \in EdgeArcs(E)
        /\ <<q, v>> \in C \/ (r[<<q, v>>] = 0 /\ <<v, q>> \notin C)
  BY <1>1, PushFacts DEF Gets
<1>4. AtMostOne(Gets(E, r, v)) /\ (r[<<v, t_id>>] = 0 <=> Gets(E, r, v) # {})
  BY DEF Conserved
<1>5. CASE v \notin S
  <2>1. \A x, y : <<x, y>> \in C => x # v /\ y # v
    BY <1>5, PushFacts
  <2>2. \A q : q \in Gets(E, g, v) <=> q \in Gets(E, r, v)
    BY <1>3, <2>1 DEF Gets
  <2>3. QED
    BY <1>2, <1>4, <2>1, <2>2 DEF AtMostOne
<1>6. CASE v \in S
  <2>1. PICK x, y : Passes(C, v, x, y)
    BY <1>2, <1>6
  <2>2. <<x, v>> \in C /\ <<v, y>> \in C /\ x # y
    BY <2>1 DEF Passes
  <2>3. <<x, v>> \in BothWays(E) /\ <<v, y>> \in BothWays(E)
    BY <2>2, PushFacts
  <2>4. /\ x = t_id \/ (x \in PupilIds /\ <<x, v>> \in EdgeArcs(E))
        /\ y = t_id \/ (y \in PupilIds /\ <<y, v>> \in EdgeArcs(E))
    BY <2>3, ArcKinds
  <2>5. t_id \notin PupilIds
    BY VertexKinds
  <2>6. y # t_id => y \in Gets(E, r, v)
    BY <1>1, <2>2, <2>4, PushFacts DEF Gets
  <2>7. y = t_id => Gets(E, r, v) = {}
    BY <1>2, <1>4, <2>2
  <2>8. x = t_id => Gets(E, r, v) # {}
    BY <1>2, <1>4, <2>2
  <2>9. \A q : q \in Gets(E, g, v) <=>
          (q \in Gets(E, r, v) /\ q # y) \/ (q = x /\ x # t_id)
    BY <1>3, <2>1, <2>4, <2>5 DEF Passes, Gets
  <2>10. t_id \notin Gets(E, r, v)
    BY <2>5 DEF Gets
  <2>11. /\ AtMostOne(Gets(E, g, v))
         /\ Gets(E, g, v) # {} <=> y = t_id \/ (Gets(E, r, v) # {} /\ x # t_id)
    <3>1. Moves(Gets(E, r, v), Gets(E, g, v), x, y, t_id)
      BY <1>4, <2>2, <2>6, <2>7, <2>8, <2>9, <2>10 DEF Moves
    <3>2. QED
      BY <3>1, Moved
  <2>12. <<v, t_id>> \in C <=> y = t_id
    BY <2>1 DEF Passes
  <2>13. <<t_id, v>> \in C <=> x = t_id
    BY <2>1 DEF Passes
  <2>14. QED
    BY <1>2, <1>4, <2>11, <2>12, <2>13
<1>7. QED
  BY <1>5, <1>6

\* What a pupil gains from s another one loses, or it is no longer sent to t
\* directly.
LEMMA PushKeepsValue ==
  ASSUME NEW E \in SUBSET (PupilIds \X StudentIds), NEW r, NEW m, NEW p, NEW S, NEW C,
         NEW g, IsPush(E, r, m, p, S, C, g)
  PROVE  FlowValue(g) = FlowValue(r)
<1>1. \A q \in PupilIds : <<s_id, q>> \in NetArcs(E)
  BY ArcsAtVertices
<1>2. \A q \in PupilIds :
        /\ g[<<s_id, q>>] = 0 <=>
             <<s_id, q>> \in C \/ (r[<<s_id, q>>] = 0 /\ <<q, s_id>> \notin C)
        /\ <<s_id, q>> \in C => r[<<s_id, q>>] = 1
        /\ <<q, s_id>> \in C => r[<<s_id, q>>] = 0
  BY <1>1, PushFacts
<1>0. \A z \in S : \E x, y : Passes(C, z, x, y)
  BY PushFacts
<1>3. IsFiniteSet(Served(r)) /\ Cardinality(Served(r)) \in Nat
  <2>1. IsFiniteSet(PupilIds)
    BY FS_Interval, SizeAssumption DEF PupilIds
  <2>2. QED
    BY <2>1, FS_Subset, FS_CardinalityType DEF Served
<1>4. /\ rev(DirectArc) = <<t_id, s_id>> /\ rev(rev(DirectArc)) = <<s_id, t_id>>
      /\ rev(DirectArc) \in BothWays(E)
      /\ r[<<t_id, s_id>>] \in Nat
  BY DEF BothWays, DirectArc, rev, IsPush, CapacitiesOK
<1>5. g[<<t_id, s_id>>] = IF <<t_id, s_id>> \in C THEN r[<<t_id, s_id>>] - 1
                          ELSE IF <<s_id, t_id>> \in C THEN r[<<t_id, s_id>>] + 1
                          ELSE r[<<t_id, s_id>>]
  BY <1>4 DEF IsPush, Pushed
<1>6. CASE s_id \notin S
  <2>1. \A x : <<x, s_id>> \notin C /\ <<s_id, x>> \notin C
    BY <1>6, PushFacts
  <2>2. Served(g) = Served(r)
    BY <1>2, <2>1 DEF Served
  <2>3. QED
    BY <1>4, <1>5, <2>1, <2>2 DEF FlowValue
<1>7. CASE s_id \in S
  <2>1. PICK x, y : Passes(C, s_id, x, y)
    BY <1>0, <1>7
  <2>2. <<x, s_id>> \in C /\ <<s_id, y>> \in C /\ x # y
    BY <2>1 DEF Passes
  <2>3. <<x, s_id>> \in BothWays(E) /\ <<s_id, y>> \in BothWays(E)
    BY <2>2, PushFacts
  <2>4. x \in PupilIds \cup {t_id} /\ y \in PupilIds \cup {t_id} /\ t_id \notin PupilIds
    BY <2>3, ArcKinds, VertexKinds
  <2>5. /\ \A q : <<q, s_id>> \in C <=> q = x
        /\ \A q : <<s_id, q>> \in C <=> q = y
    BY <2>1 DEF Passes
  <2>6. x # t_id => x \in Served(r)
    BY <1>2, <2>2, <2>4 DEF Served
  <2>7. y # t_id => y \in PupilIds /\ y \notin Served(r)
    <3>1. ASSUME y # t_id PROVE y \in PupilIds /\ r[<<s_id, y>>] = 1
      BY <1>2, <2>2, <2>4, <3>1
    <3>2. QED
      BY <3>1 DEF Served
  <2>8. \A q : q \in Served(g) <=> (q \in Served(r) /\ q # x) \/ (q = y /\ y # t_id)
    <3>1. /\ \A q : q \in Served(g) <=> q \in PupilIds /\ g[<<s_id, q>>] = 0
          /\ \A q : q \in Served(r) <=> q \in PupilIds /\ r[<<s_id, q>>] = 0
      BY DEF Served
    <3>2. \A q \in PupilIds : g[<<s_id, q>>] = 0 <=> q = y \/ (r[<<s_id, q>>] = 0 /\ q # x)
      BY <1>2, <2>5
    <3>3. y # t_id <=> y \in PupilIds
      BY <2>4
    <3>4. QED
      BY <3>1, <3>2, <3>3
  <2>9. CASE x = t_id
    <3>1. Served(g) = Served(r) \cup {y} /\ y \notin Served(r)
      BY <2>2, <2>4, <2>7, <2>8, <2>9 DEF Served
    <3>2. Cardinality(Served(g)) = Cardinality(Served(r)) + 1
      BY <1>3, <3>1, FS_AddElement
    <3>3. g[<<t_id, s_id>>] = r[<<t_id, s_id>>] - 1
      BY <1>5, <2>2, <2>9
    <3>4. QED
      BY <1>3, <1>4, <3>2, <3>3 DEF FlowValue
  <2>10. CASE y = t_id
    <3>1. Served(g) = Served(r) \ {x} /\ x \in Served(r)
      BY <2>2, <2>6, <2>8, <2>10
    <3>2. Cardinality(Served(g)) = Cardinality(Served(r)) - 1
      BY <1>3, <3>1, FS_RemoveElement
    <3>3. g[<<t_id, s_id>>] = r[<<t_id, s_id>>] + 1
      BY <1>5, <2>2, <2>5, <2>10
    <3>4. QED
      BY <1>3, <1>4, <3>2, <3>3 DEF FlowValue
  <2>11. CASE x # t_id /\ y # t_id
    <3>1. PICK K : K = Served(r) \ {x}
      OBVIOUS
    <3>2. Served(g) = K \cup {y} /\ y \notin K /\ x \in Served(r)
      BY <2>6, <2>7, <2>8, <2>11, <3>1
    <3>3. IsFiniteSet(K) /\ Cardinality(K) = Cardinality(Served(r)) - 1
      BY <1>3, <3>1, <3>2, FS_RemoveElement
    <3>4. Cardinality(Served(g)) = Cardinality(K) + 1
      BY <3>2, <3>3, FS_AddElement
    <3>5. g[<<t_id, s_id>>] = r[<<t_id, s_id>>]
      BY <1>5, <2>5, <2>11
    <3>6. QED
      BY <1>3, <1>4, <3>3, <3>4, <3>5 DEF FlowValue
  <2>12. QED
    BY <2>9, <2>10, <2>11
<1>8. QED
  BY <1>6, <1>7

\* No capacity is exceeded.
LEMMA PushKeepsCapacities ==
  ASSUME NEW E \in SUBSET (PupilIds \X StudentIds), NEW r, NEW m, NEW p, NEW S, NEW C,
         NEW g, IsPush(E, r, m, p, S, C, g)
  PROVE  CapacitiesOK(E, g, m)
<1>1. \A a \in NetArcs(E) : g[a] \in {0, 1} /\ g[rev(a)] = 1 - g[a]
  <2>1. ASSUME NEW a \in NetArcs(E) PROVE g[a] \in {0, 1} /\ g[rev(a)] = 1 - g[a]
    <3>1. a = <<a[1], a[2]>> /\ rev(a) = <<a[2], a[1]>>
      BY NetArcKinds
    <3>2. QED
      BY <3>1, PushedArc DEF IsPush
  <2>2. QED
    BY <2>1
<1>2. /\ rev(DirectArc) = <<t_id, s_id>> /\ DirectArc = <<s_id, t_id>>
      /\ rev(rev(DirectArc)) = DirectArc
      /\ DirectArc \in BothWays(E) /\ rev(DirectArc) \in BothWays(E)
  BY DEF BothWays, DirectArc, rev
<1>3. /\ r[DirectArc] \in Nat /\ r[rev(DirectArc)] \in Nat
      /\ r[DirectArc] + r[rev(DirectArc)] = m
  BY DEF IsPush, CapacitiesOK
<1>4. /\ DirectArc \in C => r[DirectArc] > 0 /\ rev(DirectArc) \notin C
      /\ rev(DirectArc) \in C => r[rev(DirectArc)] > 0 /\ DirectArc \notin C
  BY <1>2, ArcsOfCircle DEF IsPush
<1>5. /\ g[DirectArc] = IF DirectArc \in C THEN r[DirectArc] - 1
                        ELSE IF rev(DirectArc) \in C THEN r[DirectArc] + 1
                        ELSE r[DirectArc]
      /\ g[rev(DirectArc)] = IF rev(DirectArc) \in C THEN r[rev(DirectArc)] - 1
                             ELSE IF DirectArc \in C THEN r[rev(DirectArc)] + 1
                             ELSE r[rev(DirectArc)]
  BY <1>2 DEF IsPush, Pushed
<1>6. QED
  BY <1>1, <1>3, <1>4, <1>5 DEF CapacitiesOK

\* The least residual capacity around a cycle is 1: it cannot consist of the arc
\* from s to t and its reverse only.
LEMMA OneUnit ==
  ASSUME NEW E \in SUBSET (PupilIds \X StudentIds), NEW r, NEW m, CapacitiesOK(E, r, m),
         NEW p, NEW S, IsFlowCycle(E, r, p, S)
  PROVE  Min({r[a] : a \in ArcsOf(p, S)}) = 1
<1>1. ASSUME NEW a \in ArcsOf(p, S) PROVE r[a] \in Nat /\ r[a] >= 1
  <2>1. a \in BothWays(E) /\ r[a] > 0
    BY DEF IsFlowCycle, ArcsOf
  <2>2. r[a] \in Nat
    BY <2>1 DEF BothWays, CapacitiesOK
  <2>3. QED
    BY <2>1, <2>2
<1>2. PICK a \in ArcsOf(p, S) : a # DirectArc /\ a # rev(DirectArc)
  <2>1. SUFFICES ASSUME \A a \in ArcsOf(p, S) : a = DirectArc \/ a = rev(DirectArc)
                 PROVE  FALSE
    OBVIOUS
  <2>2. PICK v \in S : TRUE
    BY DEF IsFlowCycle, Circular
  <2>3. p[v] \in S /\ <<p[v], v>> \in ArcsOf(p, S) /\ <<p[p[v]], p[v]>> \in ArcsOf(p, S)
    BY DEF IsFlowCycle, Circular, ArcsOf
  <2>4. p[p[v]] = v
    BY <2>1, <2>3, VertexKinds DEF DirectArc, rev
  <2>5. QED
    BY <2>3, <2>4 DEF IsFlowCycle
<1>3. r[a] = 1
  <2>1. a \in BothWays(E)
    BY DEF IsFlowCycle, ArcsOf
  <2>2. r[a] \in {0, 1}
    BY <1>2, <2>1 DEF BothWays, CapacitiesOK
  <2>3. QED
    BY <1>1, <2>2
<1>4. 1 \in {r[b] : b \in ArcsOf(p, S)} /\ \A x \in {r[b] : b \in ArcsOf(p, S)} : 1 <= x
  BY <1>1, <1>3
<1>5. \A x \in {r[b] : b \in ArcsOf(p, S)} :
        (\A y \in {r[b] : b \in ArcsOf(p, S)} : x <= y) => x = 1
  BY <1>1, <1>4
<1>6. QED
  BY <1>4, <1>5 DEF Min

-----------------------------------------------------------------------------
(* Part 3: the algorithm. *)

Weights == [a \in AllArcs |-> Weight(a)]

\* Before the search nothing flows.
StartOK ==
  pc = "heuristic" =>
    /\ residual_capacity = [a \in AllArcs |-> IF a \in Arcs \ {DirectArc} THEN 1 ELSE 0]
    /\ pred = [v \in Vertices |-> NoVertex]
    /\ k = 0 /\ position = 0 /\ at_least_one_edge_relaxed = FALSE

\* Then a matching flows, and the rest of the value of a maximum flow directly.
FlowOK ==
  pc # "heuristic" =>
    /\ CapacitiesOK(edges, residual_capacity, remaining_flow_value)
    /\ Conserved(edges, residual_capacity)
    /\ FlowValue(residual_capacity) = successive_flow_value

\* The search stops after as many rounds as there are vertices, if it has not
\* found before that no arc is left to relax.
RoundsOK ==
  /\ k \in 0 .. NumVertices
  /\ pc \in {"heuristic", "relax"} => k < NumVertices
  /\ pc = "check" => k = NumVertices \/ Unminimized = {}
  /\ pc \in {"check", "augment", "done"} => position = 0 /\ at_least_one_edge_relaxed = FALSE

\* What FindCycle has found is on a circle.
CycleOK ==
  pc = "augment" => \E S : Circular(pred, S) /\ cycleStart \in S

ResultOK ==
  /\ cycleStart \in Vertices \cup {NoVertex}
  /\ matching_edges \subseteq edges
  /\ matching_cost \in Int
  /\ pc \in {"heuristic", "relax", "check", "augment", "done"}
  /\ pc = "done" => Unminimized = {} /\ matching_edges = MatchedEdges

SearchInvariant ==
  Searched(ResidualArcs, Weights, distance, pred, k, position, at_least_one_edge_relaxed)

InputOK ==
  /\ edges \subseteq CandidateEdges
  /\ cost \in [edges -> CostValues]
  /\ heuristic_edges \subseteq edges
  /\ IsMatching(heuristic_edges)

CycleInvariant ==
  /\ InputOK
  /\ residual_capacity \in [AllArcs -> Nat]
  /\ SearchInvariant
  /\ StartOK
  /\ FlowOK
  /\ RoundsOK
  /\ CycleOK
  /\ ResultOK

-----------------------------------------------------------------------------
\* There are as many pupils and students as the constants say.
LEMMA SidesAreFinite ==
  /\ IsFiniteSet(PupilIds) /\ Cardinality(PupilIds) = NumPupils
  /\ IsFiniteSet(StudentIds) /\ Cardinality(StudentIds) = NumStudents
<1>1. \A n \in Nat : IsFiniteSet(0 .. n - 1) /\ Cardinality(0 .. n - 1) = n
  <2>1. ASSUME NEW n \in Nat
        PROVE  IsFiniteSet(0 .. n - 1) /\ Cardinality(0 .. n - 1) = n
    <3>1. 0 \in Int /\ n - 1 \in Int /\ (0 > n - 1 <=> n = 0)
      OBVIOUS
    <3>2. /\ IsFiniteSet(0 .. n - 1)
          /\ Cardinality(0 .. n - 1) = IF 0 > n - 1 THEN 0 ELSE n - 1 - 0 + 1
      BY <3>1, FS_Interval
    <3>3. QED
      BY <3>1, <3>2
  <2>2. QED
    BY <2>1
<1>2. QED
  BY <1>1, SizeAssumption DEF PupilIds, StudentIds

\* A matching is no larger than the smaller side.
LEMMA MatchingSize ==
  ASSUME InputOK, NEW H \in SUBSET edges, IsMatching(H)
  PROVE  /\ IsFiniteSet(H) /\ Cardinality(H) \in 0 .. successive_flow_value
         /\ successive_flow_value \in 0 .. NumVertices
<1>1. edges \in SUBSET (PupilIds \X StudentIds)
  BY CandidateAssumption DEF InputOK
<1>2. IsFiniteSet(H)
  BY <1>1, SidesAreFinite, FS_Product, FS_Subset
<1>3. PICK f : f = [e \in H |-> e[1]]
  OBVIOUS
<1>4. PICK g : g = [e \in H |-> e[2]]
  OBVIOUS
<1>5. f \in Injection(H, PupilIds)
  BY <1>1, <1>3 DEF IsMatching, Injection, IsInjective
<1>6. g \in Injection(H, StudentIds)
  BY <1>1, <1>4 DEF IsMatching, Injection, IsInjective
<1>7. Cardinality(H) <= NumPupils /\ Cardinality(H) <= NumStudents
  BY <1>2, <1>5, <1>6, SidesAreFinite, FS_Injection
<1>8. successive_flow_value = IF NumPupils < NumStudents THEN NumPupils ELSE NumStudents
  BY SizeAssumption DEF successive_flow_value, Min
<1>9. Cardinality(H) \in Nat
  BY <1>2, FS_CardinalityType
<1>10. QED
  BY <1>2, <1>7, <1>8, <1>9, SizeAssumption, HowManyVertices

\* The edges are pairs of a pupil and a student, and there are finitely many.
LEMMA InputFacts ==
  ASSUME InputOK
  PROVE  /\ edges \in SUBSET (PupilIds \X StudentIds) /\ IsFiniteSet(edges)
         /\ cost \in [edges -> Int]
         /\ IsFiniteSet(heuristic_edges)
         /\ Cardinality(heuristic_edges) \in 0 .. successive_flow_value
         /\ successive_flow_value \in 0 .. NumVertices
         /\ remaining_flow_value \in 0 .. successive_flow_value
<1>1. edges \in SUBSET (PupilIds \X StudentIds) /\ cost \in [edges -> Int]
  BY CandidateAssumption, CostAssumption DEF InputOK
<1>2. IsFiniteSet(edges)
  BY <1>1, SidesAreFinite, FS_Product, FS_Subset
<1>3. /\ IsFiniteSet(heuristic_edges)
      /\ Cardinality(heuristic_edges) \in 0 .. successive_flow_value
      /\ successive_flow_value \in 0 .. NumVertices
  BY MatchingSize DEF InputOK
<1>4. QED
  BY <1>1, <1>2, <1>3, HowManyVertices DEF remaining_flow_value

\* The arcs of the program are those of Part 2.
LEMMA TheArcs ==
  /\ AllArcs = BothWays(edges)
  /\ Arcs \ {DirectArc} = NetArcs(edges) \ {DirectArc}
  BY DEF AllArcs, BothWays, Arcs, NetArcs

\* Rounding yields an int.
LEMMA RoundingType == \A x \in Int : ToInt(x) \in Int
  BY ScaleAssumption DEF ToInt

\* The weight of an edge is that of its arc, negated for the reverse arc; the other
\* arcs weigh nothing.
LEMMA ArcWeights ==
  ASSUME InputOK
  PROVE  /\ \A e \in edges : /\ WeightOfEdge(e) \in Int
                             /\ Weight(EdgeArc(e)) = WeightOfEdge(e)
                             /\ Weight(rev(EdgeArc(e))) = -WeightOfEdge(e)
         /\ \A a \in NetArcs(edges) \ EdgeArcs(edges) : Weight(a) = 0 /\ Weight(rev(a)) = 0
         /\ Weight(DirectArc) = 0 /\ Weight(rev(DirectArc)) = 0
<1>1. edges \in SUBSET (PupilIds \X StudentIds) /\ cost \in [edges -> Int]
  BY InputFacts
<1>2. \A e \in edges : WeightOfEdge(e) \in Int
  BY <1>1, RoundingType DEF WeightOfEdge
<1>3. \A a \in NetArcs(edges) : rev(rev(a)) = a /\ rev(a) \notin EdgeArcs(edges)
  <2>1. SUFFICES ASSUME NEW a \in NetArcs(edges)
                 PROVE  rev(rev(a)) = a /\ rev(a) \notin EdgeArcs(edges)
    OBVIOUS
  <2>2. a = <<a[1], a[2]>> /\ rev(a) = <<a[2], a[1]>>
    BY <1>1, NetArcKinds
  <2>3. a[2] \in StudentVertices \cup PupilIds \cup {t_id} /\ a[1] \in Vertices
        /\ (a[2] \in PupilIds => a[1] = s_id)
    BY <1>1, NetArcKinds, VertexKinds
  <2>4. \A b \in EdgeArcs(edges) : b[1] \in PupilIds /\ b[2] \in StudentVertices
    BY <1>1 DEF EdgeArcs, EdgeArc, StudentVertices
  <2>5. QED
    BY <2>2, <2>3, <2>4, VertexKinds DEF rev
<1>4. \A e, f \in edges : EdgeArc(e) = EdgeArc(f) => e = f
  BY <1>1, SizeAssumption DEF EdgeArc, StudentVertex, StudentIds
<1>5. ASSUME NEW e \in edges
      PROVE  /\ Weight(EdgeArc(e)) = WeightOfEdge(e)
             /\ Weight(rev(EdgeArc(e))) = -WeightOfEdge(e)
  <2>1. PICK a : a = EdgeArc(e)
    OBVIOUS
  <2>2. a \in EdgeArcs(edges) /\ a \in NetArcs(edges)
    BY <2>1 DEF EdgeArcs, NetArcs
  <2>3. (CHOOSE f \in edges : EdgeArc(f) = a) = e
    BY <1>4, <2>1
  <2>4. rev(rev(a)) = a /\ rev(a) \notin EdgeArcs(edges)
    BY <1>3, <2>2
  <2>5. QED
    BY <2>1, <2>2, <2>3, <2>4 DEF Weight
<1>6. ASSUME NEW a \in NetArcs(edges) \ EdgeArcs(edges)
      PROVE  Weight(a) = 0 /\ Weight(rev(a)) = 0
  BY <1>3 DEF Weight
<1>7. Weight(DirectArc) = 0 /\ Weight(rev(DirectArc)) = 0
  <2>1. \A b \in EdgeArcs(edges) : b[1] \in PupilIds /\ b[2] \in StudentVertices
    BY <1>1 DEF EdgeArcs, EdgeArc, StudentVertices
  <2>2. DirectArc \notin EdgeArcs(edges) /\ rev(DirectArc) \notin EdgeArcs(edges)
        /\ rev(rev(DirectArc)) = DirectArc
    BY <2>1, VertexKinds DEF DirectArc, rev
  <2>3. QED
    BY <2>2 DEF Weight
<1>8. QED
  BY <1>2, <1>5, <1>6, <1>7

\* The weight of every arc is an int.
LEMMA WeightsType ==
  ASSUME InputOK
  PROVE  Weights \in [BothWays(edges) -> Int]
<1>1. ASSUME NEW a \in NetArcs(edges) PROVE Weight(a) \in Int /\ Weight(rev(a)) \in Int
  <2>1. CASE a \in EdgeArcs(edges)
    <3>1. PICK e \in edges : a = EdgeArc(e)
      BY <2>1 DEF EdgeArcs
    <3>2. QED
      BY <3>1, ArcWeights
  <2>2. CASE a \notin EdgeArcs(edges)
    BY <2>2, ArcWeights
  <2>3. QED
    BY <2>1, <2>2
<1>2. \A a \in BothWays(edges) : Weight(a) \in Int
  BY <1>1, ArcWeights DEF BothWays
<1>3. QED
  BY <1>2, TheArcs DEF Weights

\* The weights stay as they are.
LEMMA SameWeights ==
  ASSUME edges' = edges, cost' = cost
  PROVE  Weights' = Weights /\ AllArcs' = AllArcs
<1>1. AllArcs' = AllArcs
  BY DEF AllArcs, Arcs
<1>2. \A a : Weight(a)' = Weight(a)
  BY DEF Weight, WeightOfEdge
<1>3. QED
  BY <1>1, <1>2 DEF Weights

\* The arcs with residual capacity are a network that can be searched.
LEMMA ResidualNetwork ==
  ASSUME NEW E \in SUBSET (PupilIds \X StudentIds), NEW r \in [BothWays(E) -> Nat],
         NEW w \in [BothWays(E) -> Int]
  PROVE  IsNetwork({a \in DOMAIN r : r[a] > 0}, w)
<1>1. ASSUME NEW a \in BothWays(E) PROVE a = <<a[1], a[2]>>
  <2>1. CASE a \in NetArcs(E)
    BY <2>1, NetArcKinds
  <2>2. CASE a \in {rev(b) : b \in NetArcs(E)} \/ a = rev(DirectArc) \/ a = DirectArc
    BY <2>2 DEF rev, DirectArc
  <2>3. QED
    BY <2>1, <2>2 DEF BothWays
<1>2. ASSUME NEW a \in BothWays(E) PROVE a \in Vertices \X Vertices /\ a[1] # a[2]
  <2>1. PICK x, y : a = <<x, y>>
    BY <1>1
  <2>2. x \in Vertices /\ y \in Vertices /\ x # y
    BY <2>1, ArcKinds
  <2>3. QED
    BY <2>1, <2>2
<1>3. QED
  BY <1>2 DEF IsNetwork

\* The flow that AdaptFlow sends along the edges of a matching.
IsAdapted(E, H, m, r, g, A) ==
  /\ H \in SUBSET E /\ IsFiniteSet(H) /\ IsMatching(H) /\ m \in Nat
  /\ r = [a \in BothWays(E) |-> IF a \in NetArcs(E) THEN 1 ELSE 0]
  /\ A = UNION {PathOf(e) : e \in H}
  /\ g = [a \in BothWays(E) |-> IF a \in A THEN 0
                                ELSE IF rev(a) \in A THEN 1
                                ELSE IF a = rev(DirectArc) THEN m ELSE r[a]]

LEMMA AdaptedFlow ==
  ASSUME NEW E \in SUBSET (PupilIds \X StudentIds), NEW H, NEW m, NEW r, NEW g, NEW A,
         IsAdapted(E, H, m, r, g, A)
  PROVE  /\ CapacitiesOK(E, g, m)
         /\ Conserved(E, g)
         /\ FlowValue(g) = Cardinality(H) + m
<1>0. /\ H \in SUBSET E /\ IsFiniteSet(H) /\ IsMatching(H) /\ m \in Nat
      /\ r = [a \in BothWays(E) |-> IF a \in NetArcs(E) THEN 1 ELSE 0]
      /\ A = UNION {PathOf(e) : e \in H}
      /\ g = [a \in BothWays(E) |-> IF a \in A THEN 0
                                    ELSE IF rev(a) \in A THEN 1
                                    ELSE IF a = rev(DirectArc) THEN m ELSE r[a]]
  BY DEF IsAdapted
<1> USE <1>0
<1>1. \A e \in H : /\ e[1] \in PupilIds /\ StudentVertex(e[2]) \in StudentVertices
                   /\ EdgeArc(e) = <<e[1], StudentVertex(e[2])>> /\ EdgeArc(e) \in EdgeArcs(E)
  BY DEF EdgeArc, EdgeArcs, StudentVertices
<1>2. \A a : a \in A <=> \E e \in H : \/ a = <<s_id, e[1]>>
                                      \/ a = EdgeArc(e)
                                      \/ a = <<StudentVertex(e[2]), t_id>>
  BY DEF PathOf
<1>3. A \subseteq NetArcs(E)
  <2>1. \A e \in H : /\ <<s_id, e[1]>> \in NetArcs(E) /\ EdgeArc(e) \in NetArcs(E)
                     /\ <<StudentVertex(e[2]), t_id>> \in NetArcs(E)
    BY <1>1, ArcsAtVertices
  <2>2. QED
    BY <1>2, <2>1
<1>4. ASSUME NEW a \in NetArcs(E)
      PROVE  /\ a = <<a[1], a[2]>> /\ rev(a) = <<a[2], a[1]>> /\ rev(rev(a)) = a
             /\ a \in BothWays(E) /\ rev(a) \in BothWays(E)
             /\ rev(a) \notin NetArcs(E) /\ a # rev(DirectArc) /\ rev(a) # rev(DirectArc)
  <2>1. a = <<a[1], a[2]>> /\ rev(a) = <<a[2], a[1]>> /\ rev(rev(a)) = a
    BY NetArcKinds DEF rev
  <2>2. \A b \in NetArcs(E) :
          \/ b[1] \in PupilIds /\ b[2] \in StudentVertices
          \/ b[1] = s_id /\ b[2] \in PupilIds
          \/ b[1] \in StudentVertices /\ b[2] = t_id
    BY NetArcKinds
  <2>3. rev(a) \notin NetArcs(E)
    BY <2>1, <2>2, VertexKinds
  <2>4. a # rev(DirectArc) /\ rev(a) # rev(DirectArc)
    BY <2>1, <2>2, VertexKinds DEF rev, DirectArc
  <2>5. QED
    BY <2>1, <2>3, <2>4, ArcsAtVertices
<1>5. \A a \in NetArcs(E) : /\ g[a] = IF a \in A THEN 0 ELSE 1
                            /\ g[rev(a)] = IF a \in A THEN 1 ELSE 0
  BY <1>3, <1>4
<1>6. g[DirectArc] = 0 /\ g[rev(DirectArc)] = m
  <2>1. /\ DirectArc \in BothWays(E) /\ rev(DirectArc) \in BothWays(E)
        /\ DirectArc = <<s_id, t_id>> /\ rev(DirectArc) = <<t_id, s_id>>
        /\ rev(rev(DirectArc)) = DirectArc
    BY DEF BothWays, rev, DirectArc
  <2>2. \A b \in NetArcs(E) :
          \/ b[1] \in PupilIds /\ b[2] \in StudentVertices
          \/ b[1] = s_id /\ b[2] \in PupilIds
          \/ b[1] \in StudentVertices /\ b[2] = t_id
    BY NetArcKinds
  <2>3. DirectArc \notin NetArcs(E) /\ rev(DirectArc) \notin NetArcs(E)
    BY <2>1, <2>2, VertexKinds
  <2>4. DirectArc # rev(DirectArc)
    BY <2>1, VertexKinds
  <2>5. QED
    BY <1>3, <2>1, <2>3, <2>4
<1>7. CapacitiesOK(E, g, m)
  BY <1>5, <1>6 DEF CapacitiesOK
<1>8. ASSUME NEW q \in PupilIds, NEW v \in StudentVertices
      PROVE  <<q, v>> \in EdgeArcs(E) /\ g[<<q, v>>] = 0
               <=> \E e \in H : e[1] = q /\ StudentVertex(e[2]) = v
  <2>1. <<q, v>> \in A <=> \E e \in H : EdgeArc(e) = <<q, v>>
    BY <1>1, <1>2, VertexKinds
  <2>2. \A e \in H : EdgeArc(e) = <<q, v>> <=> e[1] = q /\ StudentVertex(e[2]) = v
    BY DEF EdgeArc
  <2>3. <<q, v>> \in EdgeArcs(E) => <<q, v>> \in NetArcs(E)
    BY ArcsAtVertices
  <2>4. (\E e \in H : EdgeArc(e) = <<q, v>>) => <<q, v>> \in EdgeArcs(E)
    BY DEF EdgeArcs
  <2>5. <<q, v>> \in EdgeArcs(E) => (g[<<q, v>>] = 0 <=> <<q, v>> \in A)
    BY <1>5, <2>3
  <2>6. QED
    BY <2>1, <2>2, <2>4, <2>5
<1>9. /\ \A q \in PupilIds : g[<<s_id, q>>] = 0 <=> \E e \in H : e[1] = q
      /\ \A v \in StudentVertices :
           g[<<v, t_id>>] = 0 <=> \E e \in H : StudentVertex(e[2]) = v
  <2>1. ASSUME NEW q \in PupilIds
        PROVE  g[<<s_id, q>>] = 0 <=> \E e \in H : e[1] = q
    <3>1. <<s_id, q>> \in A <=> \E e \in H : e[1] = q
      BY <1>1, <1>2, VertexKinds
    <3>2. QED
      BY <1>5, <3>1, ArcsAtVertices
  <2>2. ASSUME NEW v \in StudentVertices
        PROVE  g[<<v, t_id>>] = 0 <=> \E e \in H : StudentVertex(e[2]) = v
    <3>1. <<v, t_id>> \in A <=> \E e \in H : StudentVertex(e[2]) = v
      BY <1>1, <1>2, VertexKinds
    <3>2. QED
      BY <1>5, <3>1, ArcsAtVertices
  <2>3. QED
    BY <2>1, <2>2
<1>10. \A e, f \in H : e[1] = f[1] \/ StudentVertex(e[2]) = StudentVertex(f[2]) => e = f
  <2>1. \A e \in H : e[2] \in Int
    BY SizeAssumption DEF StudentIds
  <2>2. QED
    BY <2>1, SizeAssumption DEF IsMatching, StudentVertex
<1>11. Conserved(E, g)
  <2>1. ASSUME NEW q \in PupilIds
        PROVE  /\ AtMostOne(Sends(E, g, q))
               /\ g[<<s_id, q>>] = 0 <=> Sends(E, g, q) # {}
    <3>1. \A v : v \in Sends(E, g, q) <=>
                   v \in StudentVertices /\ \E e \in H : e[1] = q /\ StudentVertex(e[2]) = v
      BY <1>8 DEF Sends
    <3>2. ASSUME NEW v \in Sends(E, g, q), NEW x \in Sends(E, g, q) PROVE v = x
      <4>1. PICK e \in H : e[1] = q /\ StudentVertex(e[2]) = v
        BY <3>1
      <4>2. PICK f \in H : f[1] = q /\ StudentVertex(f[2]) = x
        BY <3>1
      <4>3. e = f
        BY <1>10, <4>1, <4>2
      <4>4. QED
        BY <4>1, <4>2, <4>3
    <3>3. ASSUME NEW e \in H, e[1] = q PROVE StudentVertex(e[2]) \in Sends(E, g, q)
      BY <1>1, <3>1, <3>3
    <3>4. g[<<s_id, q>>] = 0 <=> \E e \in H : e[1] = q
      BY <1>9
    <3>5. Sends(E, g, q) # {} => \E e \in H : e[1] = q
      BY <3>1
    <3>6. QED
      BY <3>2, <3>3, <3>4, <3>5 DEF AtMostOne
  <2>2. ASSUME NEW v \in StudentVertices
        PROVE  /\ AtMostOne(Gets(E, g, v))
               /\ g[<<v, t_id>>] = 0 <=> Gets(E, g, v) # {}
    <3>1. \A q : q \in Gets(E, g, v) <=>
                   q \in PupilIds /\ \E e \in H : e[1] = q /\ StudentVertex(e[2]) = v
      BY <1>8 DEF Gets
    <3>2. ASSUME NEW q \in Gets(E, g, v), NEW x \in Gets(E, g, v) PROVE q = x
      <4>1. PICK e \in H : e[1] = q /\ StudentVertex(e[2]) = v
        BY <3>1
      <4>2. PICK f \in H : f[1] = x /\ StudentVertex(f[2]) = v
        BY <3>1
      <4>3. e = f
        BY <1>10, <4>1, <4>2
      <4>4. QED
        BY <4>1, <4>2, <4>3
    <3>3. ASSUME NEW e \in H, StudentVertex(e[2]) = v PROVE e[1] \in Gets(E, g, v)
      BY <1>1, <3>1, <3>3
    <3>4. g[<<v, t_id>>] = 0 <=> \E e \in H : StudentVertex(e[2]) = v
      BY <1>9
    <3>5. Gets(E, g, v) # {} => \E e \in H : StudentVertex(e[2]) = v
      BY <3>1
    <3>6. QED
      BY <3>2, <3>3, <3>4, <3>5 DEF AtMostOne
  <2>3. QED
    BY <2>1, <2>2 DEF Conserved
<1>12. Cardinality(Served(g)) = Cardinality(H)
  <2>1. PICK f : f = [e \in H |-> e[1]]
    OBVIOUS
  <2>2. \A q : q \in Served(g) <=> \E e \in H : e[1] = q
    BY <1>1, <1>9 DEF Served
  <2>3. f \in [H -> Served(g)]
    BY <2>1, <2>2
  <2>4. \A e, h \in H : f[e] = f[h] => e = h
    BY <1>10, <2>1
  <2>5. \A q \in Served(g) : \E e \in H : f[e] = q
    BY <2>1, <2>2
  <2>6. QED
    BY <2>3, <2>4, <2>5, PairedOff
<1>13. QED
  BY <1>6, <1>7, <1>11, <1>12 DEF FlowValue

-----------------------------------------------------------------------------
(* The sums of the program, as those of FiniteSums. *)

\* The weights of arcs add up to the same.
LEMMA SumOfWeights ==
  ASSUME NEW S \in SUBSET AllArcs, IsFiniteSet(S)
  PROVE  MapThenSumSet(Weight, S) = SumOver(Weights, S)
<1> DEFINE Is(g) == g = [s \in SUBSET S |-> IF s = {} THEN 0
                                           ELSE Weight(Pick(s)) + g[s \ {Pick(s)}]]
           G == CHOOSE g : Is(g)
<1>1. MapThenSumSet(Weight, S) = G[S]
  BY DEF MapThenSumSet, MapThenFoldSet, Pick
<1>2. \A s \in SUBSET S : s # {} => Weights[Pick(s)] = Weight(Pick(s))
  BY DEF Pick, Weights
<1>3. \A g : Is(g) <=> IsSum(g, Weights, S)
  BY <1>2 DEF IsSum
<1>4. PICK h : IsSum(h, Weights, S)
  BY SumExists
<1> HIDE DEF Is
<1>5. Is(G)
  BY <1>3, <1>4
<1> HIDE DEF G
<1>6. QED
  BY <1>1, <1>3, <1>4, <1>5, SumIs

\* So do the weights of edges ...
LEMMA FlowCostType ==
  ASSUME InputOK
  PROVE  FlowCost \in Int
<1>1. PICK M : M = MatchedEdges /\ IsFiniteSet(M) /\ M \subseteq edges
  BY InputFacts, FS_Subset DEF MatchedEdges
<1>2. PICK f : f = [e \in edges |-> WeightOfEdge(e)]
  OBVIOUS
<1> DEFINE Is(g) == g = [s \in SUBSET M |-> IF s = {} THEN 0
                                           ELSE WeightOfEdge(Pick(s)) + g[s \ {Pick(s)}]]
           G == CHOOSE g : Is(g)
<1>3. FlowCost = G[M]
  BY <1>1 DEF FlowCost, MapThenSumSet, MapThenFoldSet, Pick
<1>4. \A s \in SUBSET M : s # {} => f[Pick(s)] = WeightOfEdge(Pick(s))
  BY <1>1, <1>2 DEF Pick
<1>5. \A g : Is(g) <=> IsSum(g, f, M)
  BY <1>4 DEF IsSum
<1>6. PICK h : IsSum(h, f, M)
  BY <1>1, SumExists
<1> HIDE DEF Is
<1>7. Is(G)
  BY <1>5, <1>6
<1> HIDE DEF G
<1>8. FlowCost = SumOver(f, M)
  BY <1>1, <1>3, <1>5, <1>6, <1>7, SumIs
<1>9. \A e \in M : f[e] \in Int
  BY <1>1, <1>2, ArcWeights
<1>10. QED
  BY <1>1, <1>8, <1>9, SumRemove

\* ... and the worth of edges.
LEMMA SumOfWorths ==
  ASSUME InputOK, NEW M \in SUBSET edges,
         NEW f, f = [e \in edges |-> -ToInt(-cost[e])]
  PROVE  IsFiniteSet(M) /\ RoundedWorth(M) = SumOver(f, M)
<1>1. IsFiniteSet(M)
  BY InputFacts, FS_Subset
<1> DEFINE Is(g) == g = [s \in SUBSET M |-> IF s = {} THEN 0
                                           ELSE -ToInt(-cost[Pick(s)]) + g[s \ {Pick(s)}]]
           G == CHOOSE g : Is(g)
<1>3. RoundedWorth(M) = G[M]
  BY DEF RoundedWorth, MapThenSumSet, MapThenFoldSet, Pick
<1>4. \A s \in SUBSET M : s # {} => f[Pick(s)] = -ToInt(-cost[Pick(s)])
  BY DEF Pick
<1>5. \A g : Is(g) <=> IsSum(g, f, M)
  BY <1>4 DEF IsSum
<1>6. PICK h : IsSum(h, f, M)
  BY <1>1, SumExists
<1> HIDE DEF Is
<1>7. Is(G)
  BY <1>5, <1>6
<1> HIDE DEF G
<1>8. QED
  BY <1>1, <1>3, <1>5, <1>6, <1>7, SumIs

-----------------------------------------------------------------------------
\* An arc improves a distance in the sense of Part 1.
LEMMA ImprovesIsBetter ==
  ASSUME InputOK, residual_capacity \in [AllArcs -> Nat]
  PROVE  /\ ResidualArcs \subseteq AllArcs /\ DOMAIN residual_capacity = BothWays(edges)
         /\ IsNetwork(ResidualArcs, Weights)
         /\ \A a \in ResidualArcs : /\ Improves(a) <=> Better(Weights, distance, a)
                                    /\ Weights[a] = Weight(a)
<1>1. ResidualArcs \subseteq AllArcs /\ DOMAIN residual_capacity = BothWays(edges)
  BY TheArcs DEF ResidualArcs
<1>2. IsNetwork(ResidualArcs, Weights)
  BY InputFacts, TheArcs, WeightsType, ResidualNetwork DEF ResidualArcs
<1>3. \A a \in ResidualArcs : Weights[a] = Weight(a)
  BY <1>1 DEF Weights
<1>4. \A a \in ResidualArcs : Improves(a) <=> Better(Weights, distance, a)
  BY <1>3 DEF Improves, Better
<1>5. QED
  BY <1>1, <1>2, <1>3, <1>4

\* What the steps of the search leave as it is.
LEMMA SameNetwork ==
  ASSUME UNCHANGED <<input, heuristic_edges, residual_capacity>>
  PROVE  /\ Weights' = Weights /\ AllArcs' = AllArcs /\ ResidualArcs' = ResidualArcs
         /\ remaining_flow_value' = remaining_flow_value
         /\ InputOK' <=> InputOK
         /\ MatchedEdges' = MatchedEdges
<1>1. Weights' = Weights /\ AllArcs' = AllArcs
  BY SameWeights DEF input
<1>2. QED
  BY <1>1 DEF input, ResidualArcs, remaining_flow_value, InputOK, MatchedEdges

\* At the start all residual capacities and predecessors are fresh.
LEMMA InitInvariant ==
  ASSUME Init
  PROVE  CycleInvariant
<1>1. InputOK
  BY DEF Init, InputOK, IsMatching
<1>2. residual_capacity \in [AllArcs -> Nat]
  BY DEF Init
<1>3. SearchInvariant
  <2>1. distance \in [Vertices -> Int]
    BY DEF Init
  <2>2. IsNetwork(ResidualArcs, Weights)
    BY <1>1, <1>2, ImprovesIsBetter
  <2>3. QED
    BY <2>1, <2>2, FreshSearch DEF Init, SearchInvariant
<1>4. StartOK /\ FlowOK /\ RoundsOK /\ CycleOK /\ ResultOK
  BY HowManyVertices DEF Init, StartOK, FlowOK, RoundsOK, CycleOK, ResultOK
<1>5. QED
  BY <1>1, <1>2, <1>3, <1>4 DEF CycleInvariant

\* The heuristic takes an edge whose endpoints are not covered.
LEMMA TakeEdgeStep ==
  ASSUME CycleInvariant, NEW e \in edges, TakeEdge(e)
  PROVE  CycleInvariant'
<1>1. UNCHANGED <<edges, cost, residual_capacity, distance, pred, k, position,
                  at_least_one_edge_relaxed, cycleStart, matching_edges, matching_cost, pc>>
  BY DEF TakeEdge, input, search, result
<1>2. InputOK'
  <2>1. \A f \in heuristic_edges : e[1] # f[1] /\ e[2] # f[2]
    BY DEF TakeEdge, Eligible, IsUncovered
  <2>2. heuristic_edges' = heuristic_edges \cup {e}
    BY DEF TakeEdge
  <2>3. IsMatching(heuristic_edges')
    BY <2>1, <2>2 DEF CycleInvariant, InputOK, IsMatching
  <2>4. QED
    BY <1>1, <2>2, <2>3 DEF CycleInvariant, InputOK
<1>3. Weights' = Weights /\ AllArcs' = AllArcs /\ Arcs' = Arcs /\ ResidualArcs' = ResidualArcs
  BY <1>1, SameWeights DEF Arcs, ResidualArcs
<1>4. residual_capacity' \in [AllArcs' -> Nat] /\ SearchInvariant'
  BY <1>1, <1>3 DEF CycleInvariant, SearchInvariant
<1>5. pc = "heuristic" /\ pc' = "heuristic"
  BY DEF TakeEdge
<1>6. StartOK' /\ FlowOK' /\ RoundsOK' /\ CycleOK' /\ ResultOK'
  BY <1>1, <1>3, <1>5
  DEF CycleInvariant, StartOK, FlowOK, RoundsOK, CycleOK, ResultOK
<1>7. QED
  BY <1>2, <1>4, <1>6 DEF CycleInvariant

\* Its matching becomes the first flow.
LEMMA AdaptFlowStep ==
  ASSUME CycleInvariant, AdaptFlow
  PROVE  CycleInvariant'
<1>1. UNCHANGED <<edges, cost, heuristic_edges, distance, pred, k, position,
                  at_least_one_edge_relaxed, cycleStart, matching_edges, matching_cost>>
      /\ pc = "heuristic" /\ pc' = "relax"
  BY DEF AdaptFlow, input, search, result
<1>2. InputOK /\ InputOK'
  BY <1>1 DEF CycleInvariant, InputOK
<1>3. /\ edges \in SUBSET (PupilIds \X StudentIds)
      /\ heuristic_edges \in SUBSET edges /\ IsFiniteSet(heuristic_edges)
      /\ IsMatching(heuristic_edges)
      /\ remaining_flow_value \in Nat
      /\ successive_flow_value = Cardinality(heuristic_edges) + remaining_flow_value
  BY <1>2, InputFacts DEF InputOK, remaining_flow_value
<1>4. Weights' = Weights /\ AllArcs' = AllArcs
  BY <1>1, SameWeights
<1>50. PICK E, H, m : E = edges /\ H = heuristic_edges /\ m = remaining_flow_value
  OBVIOUS
<1>51. PICK r : r = [a \in BothWays(E) |-> IF a \in NetArcs(E) THEN 1 ELSE 0]
  OBVIOUS
<1>52. PICK A : A = UNION {PathOf(e) : e \in H}
  OBVIOUS
<1>53. PICK g : g = [a \in BothWays(E) |-> IF a \in A THEN 0
                                           ELSE IF rev(a) \in A THEN 1
                                           ELSE IF a = rev(DirectArc) THEN m ELSE r[a]]
  OBVIOUS
<1>5. IsAdapted(E, H, m, r, g, A)
  BY <1>3, <1>50, <1>51, <1>52, <1>53 DEF IsAdapted
<1>6. residual_capacity = r
  <2>1. residual_capacity = [a \in AllArcs |-> IF a \in Arcs \ {DirectArc} THEN 1 ELSE 0]
    BY <1>1 DEF CycleInvariant, StartOK
  <2>2. \A a \in AllArcs : a \in Arcs \ {DirectArc} <=> a \in NetArcs(edges)
    <3>1. DirectArc \notin NetArcs(edges)
      <4>1. \A b \in NetArcs(edges) : b[1] = s_id => b[2] \in PupilIds
        BY <1>3, NetArcKinds, VertexKinds
      <4>2. QED
        BY <4>1, VertexKinds DEF DirectArc
    <3>2. QED
      BY <3>1, TheArcs
  <2>3. QED
    BY <1>50, <1>51, <2>1, <2>2, TheArcs
<1>7. residual_capacity' = g
  BY <1>50, <1>52, <1>53, <1>6, TheArcs DEF AdaptFlow
<1>8. CapacitiesOK(E, g, m) /\ Conserved(E, g) /\ FlowValue(g) = Cardinality(H) + m
  BY <1>3, <1>5, <1>50, AdaptedFlow
<1>9. residual_capacity' \in [AllArcs' -> Nat]
  <2>1. \A a \in BothWays(E) : r[a] \in Nat
    BY <1>51
  <2>2. \A a \in BothWays(E) : g[a] \in Nat
    BY <1>3, <1>50, <1>53, <2>1
  <2>3. QED
    BY <1>4, <1>50, <1>53, <1>7, <2>2, TheArcs
<1>10. SearchInvariant'
  <2>1. Weights \in [BothWays(E) -> Int]
    BY <1>2, <1>50, WeightsType
  <2>2. residual_capacity' \in [BothWays(E) -> Nat]
    BY <1>4, <1>50, <1>9, TheArcs
  <2>3. IsNetwork(ResidualArcs', Weights')
    BY <1>3, <1>4, <1>50, <2>1, <2>2, ResidualNetwork DEF ResidualArcs
  <2>4. distance' \in [Vertices -> Int] /\ pred' = [v \in Vertices |-> NoVertex]
    BY <1>1 DEF CycleInvariant, StartOK, SearchInvariant, Searched
  <2>5. k' = 0 /\ position' = 0 /\ at_least_one_edge_relaxed' = FALSE
    BY <1>1 DEF CycleInvariant, StartOK
  <2>6. Searched(ResidualArcs', Weights', distance', pred', 0, 0, FALSE)
    BY <2>3, <2>4, FreshSearch
  <2>7. QED
    BY <2>5, <2>6 DEF SearchInvariant
<1>11. FlowOK'
  BY <1>1, <1>3, <1>50, <1>7, <1>8 DEF FlowOK, remaining_flow_value
<1>12. StartOK' /\ RoundsOK' /\ CycleOK' /\ ResultOK'
  BY <1>1 DEF CycleInvariant, StartOK, RoundsOK, CycleOK, ResultOK
<1>13. QED
  BY <1>2, <1>9, <1>10, <1>11, <1>12 DEF CycleInvariant

\* One arc of a round.
LEMMA RelaxArcStep ==
  ASSUME CycleInvariant, NEW a \in DOMAIN residual_capacity, RelaxArc(a)
  PROVE  CycleInvariant'
<1>1. UNCHANGED <<edges, cost, heuristic_edges, residual_capacity, k, cycleStart,
                  matching_edges, matching_cost, pc>>
      /\ pc = "relax" /\ position' = Place(a) + 1
  BY DEF RelaxArc, input, result
<1>2. /\ Weights' = Weights /\ AllArcs' = AllArcs /\ ResidualArcs' = ResidualArcs
      /\ InputOK' /\ remaining_flow_value' = remaining_flow_value
  BY <1>1, SameNetwork DEF CycleInvariant, input
<1>3. InputOK /\ residual_capacity \in [AllArcs -> Nat]
  BY DEF CycleInvariant
<1>4. Searched(ResidualArcs, Weights, distance, pred, k, position, at_least_one_edge_relaxed)
  BY DEF CycleInvariant, SearchInvariant
<1>5. /\ a \in ResidualArcs /\ Place(a) >= position
      /\ \A b \in ResidualArcs : Place(b) >= position => Place(a) <= Place(b)
  BY DEF RelaxArc, IsFirst, ArcsAhead
<1>6. PICK u, v : a = <<u, v>>
  BY <1>3, <1>5, ImprovesIsBetter DEF IsNetwork
<1>7. SearchInvariant'
  <2>1. CASE Improves(a)
    <3>1. /\ distance' = [distance EXCEPT ![v] = distance[u] + Weights[<<u, v>>]]
          /\ pred' = [pred EXCEPT ![v] = u]
          /\ at_least_one_edge_relaxed' = TRUE
      BY <1>3, <1>5, <1>6, <2>1, ImprovesIsBetter DEF RelaxArc
    <3>2. Better(Weights, distance, <<u, v>>)
      BY <1>3, <1>5, <1>6, <2>1, ImprovesIsBetter
    <3>3. Searched(ResidualArcs, Weights, distance', pred', k, Place(<<u, v>>) + 1, TRUE)
      BY <1>4, <1>5, <1>6, <3>1, <3>2, Relaxed
    <3>4. QED
      BY <1>1, <1>2, <1>6, <3>1, <3>3 DEF SearchInvariant
  <2>2. CASE ~Improves(a)
    <3>1. UNCHANGED <<distance, pred, at_least_one_edge_relaxed>>
      BY <2>2 DEF RelaxArc
    <3>2. ~Better(Weights, distance, a)
      BY <1>3, <1>5, <2>2, ImprovesIsBetter
    <3>3. Searched(ResidualArcs, Weights, distance, pred, k, Place(a) + 1,
                   at_least_one_edge_relaxed)
      BY <1>4, <1>5, <3>2, LeftAlone
    <3>4. QED
      BY <1>1, <1>2, <3>1, <3>3 DEF SearchInvariant
  <2>3. QED
    BY <2>1, <2>2
<1>8. /\ residual_capacity' \in [AllArcs' -> Nat]
      /\ StartOK' /\ FlowOK' /\ RoundsOK' /\ CycleOK' /\ ResultOK'
  BY <1>1, <1>2, <1>3 DEF CycleInvariant, StartOK, FlowOK, RoundsOK, CycleOK, ResultOK
<1>9. QED
  BY <1>2, <1>7, <1>8 DEF CycleInvariant

\* The end of a round.
LEMMA EndRoundStep ==
  ASSUME CycleInvariant, EndRound
  PROVE  CycleInvariant'
<1>1. UNCHANGED <<edges, cost, heuristic_edges, residual_capacity, distance, pred,
                  cycleStart, matching_edges, matching_cost>>
      /\ pc = "relax" /\ k' = k + 1 /\ position' = 0 /\ at_least_one_edge_relaxed' = FALSE
      /\ pc' = IF ~at_least_one_edge_relaxed \/ k' = NumVertices THEN "check" ELSE "relax"
  BY DEF EndRound, input, result
<1>2. /\ Weights' = Weights /\ AllArcs' = AllArcs /\ ResidualArcs' = ResidualArcs
      /\ InputOK' /\ remaining_flow_value' = remaining_flow_value
  BY <1>1, SameNetwork DEF CycleInvariant, input
<1>3. InputOK /\ residual_capacity \in [AllArcs -> Nat]
  BY DEF CycleInvariant
<1>4. Searched(ResidualArcs, Weights, distance, pred, k, position, at_least_one_edge_relaxed)
  BY DEF CycleInvariant, SearchInvariant
<1>5. \A a \in ResidualArcs : Place(a) < position
  <2>1. \A a \in ResidualArcs : Place(a) \in Nat
    BY <1>3, ImprovesIsBetter, HowManyVertices DEF IsNetwork, Place, Vertices
  <2>2. QED
    BY <1>4, <2>1 DEF EndRound, ArcsAhead, Searched
<1>6. /\ Searched(ResidualArcs, Weights, distance, pred, k + 1, 0, FALSE)
      /\ ~at_least_one_edge_relaxed => \A a \in ResidualArcs : ~Better(Weights, distance, a)
  <2>1. AllPassed(ResidualArcs, position)
    BY <1>5 DEF AllPassed
  <2>2. Searched(ResidualArcs, Weights, distance, pred, k + 1, 0, FALSE)
    BY <1>4, <2>1, RoundEnded
  <2>3. ~at_least_one_edge_relaxed => \A a \in ResidualArcs : ~Better(Weights, distance, a)
    BY <1>4, <1>5 DEF Searched, RoundOK
  <2>4. QED
    BY <2>2, <2>3
<1>7. SearchInvariant'
  BY <1>1, <1>2, <1>6 DEF SearchInvariant
<1>8. ~at_least_one_edge_relaxed => Unminimized' = {}
  <2>1. \A a \in ResidualArcs : Improves(a)' <=> Improves(a)
    BY <1>1, SameNetwork DEF Improves, Weight, WeightOfEdge
  <2>2. QED
    BY <1>2, <1>3, <1>6, <2>1, ImprovesIsBetter DEF Unminimized
<1>9. RoundsOK'
  BY <1>1, <1>8, HowManyVertices DEF CycleInvariant, RoundsOK
<1>10. /\ residual_capacity' \in [AllArcs' -> Nat]
       /\ StartOK' /\ FlowOK' /\ CycleOK' /\ ResultOK'
  BY <1>1, <1>2, <1>3 DEF CycleInvariant, StartOK, FlowOK, CycleOK, ResultOK
<1>11. QED
  BY <1>2, <1>7, <1>9, <1>10 DEF CycleInvariant

\* The walk back ends on a circle.
LEMMA FindCycleStep ==
  ASSUME CycleInvariant, FindCycle
  PROVE  CycleInvariant'
<1>1. UNCHANGED <<edges, cost, heuristic_edges, residual_capacity, distance, pred, k,
                  position, at_least_one_edge_relaxed, matching_edges, matching_cost>>
      /\ pc = "check" /\ pc' = "augment"
  BY DEF FindCycle, input, search, result
<1>2. /\ Weights' = Weights /\ AllArcs' = AllArcs /\ ResidualArcs' = ResidualArcs
      /\ InputOK' /\ remaining_flow_value' = remaining_flow_value
  BY <1>1, SameNetwork DEF CycleInvariant, input
<1>3. InputOK /\ residual_capacity \in [AllArcs -> Nat]
  BY DEF CycleInvariant
<1>4. PICK a \in Unminimized : cycleStart' = Back(a[1], NumVertices + 1)
  BY DEF FindCycle
<1>5. a \in ResidualArcs /\ Better(Weights, distance, a) /\ k = NumVertices
  BY <1>1, <1>3, ImprovesIsBetter DEF Unminimized, CycleInvariant, RoundsOK
<1>6. \E S : Circular(pred, S) /\ cycleStart' \in S
  BY <1>4, <1>5, SearchFindsCircle DEF CycleInvariant, SearchInvariant
<1>7. CycleOK'
  BY <1>1, <1>6 DEF CycleOK
<1>8. cycleStart' \in Vertices
  BY <1>6 DEF Circular
<1>9. /\ residual_capacity' \in [AllArcs' -> Nat] /\ SearchInvariant'
      /\ StartOK' /\ FlowOK' /\ RoundsOK' /\ ResultOK'
  BY <1>1, <1>2, <1>3, <1>8
  DEF CycleInvariant, SearchInvariant, StartOK, FlowOK, RoundsOK, ResultOK
<1>10. QED
  BY <1>2, <1>7, <1>9 DEF CycleInvariant

\* The matched edges are the result.
LEMMA ExtractStep ==
  ASSUME CycleInvariant, Extract
  PROVE  CycleInvariant'
<1>1. UNCHANGED <<edges, cost, heuristic_edges, residual_capacity, distance, pred, k,
                  position, at_least_one_edge_relaxed, cycleStart>>
      /\ pc = "check" /\ pc' = "done" /\ Unminimized = {}
      /\ matching_edges' = MatchedEdges /\ matching_cost' = -(Scale * FlowCost)
  BY DEF Extract, input, search
<1>2. /\ Weights' = Weights /\ AllArcs' = AllArcs /\ ResidualArcs' = ResidualArcs
      /\ InputOK' /\ remaining_flow_value' = remaining_flow_value
      /\ MatchedEdges' = MatchedEdges
  BY <1>1, SameNetwork DEF CycleInvariant, input
<1>3. Unminimized' = {}
  <2>1. \A a \in ResidualArcs : Improves(a)' <=> Improves(a)
    BY <1>1 DEF Improves, Weight, WeightOfEdge
  <2>2. QED
    BY <1>1, <1>2, <2>1 DEF Unminimized
<1>4. FlowCost \in Int
  BY <1>1, FlowCostType DEF CycleInvariant
<1>5. matching_cost' \in Int
  BY <1>1, <1>4, ScaleAssumption
<1>6. ResultOK'
  BY <1>1, <1>2, <1>3, <1>5 DEF CycleInvariant, ResultOK, MatchedEdges
<1>7. /\ residual_capacity' \in [AllArcs' -> Nat] /\ SearchInvariant'
      /\ StartOK' /\ FlowOK' /\ RoundsOK' /\ CycleOK'
  BY <1>1, <1>2
  DEF CycleInvariant, SearchInvariant, StartOK, FlowOK, RoundsOK, CycleOK
<1>8. QED
  BY <1>2, <1>6, <1>7 DEF CycleInvariant

\* The cycle that was found: a circle of arcs with residual capacity and a negative
\* weight.
LEMMA FoundCircle ==
  ASSUME CycleInvariant, pc = "augment"
  PROVE  /\ Circular(pred, CycleVertices) /\ CycleArcs = ArcsOf(pred, CycleVertices)
         /\ \E n \in 1 .. NumVertices : Back(cycleStart, n) = cycleStart
         /\ CycleArcs \subseteq ResidualArcs
         /\ SumOver(Weights, CycleArcs) < 0
<1>1. Searched(ResidualArcs, Weights, distance, pred, k, position, at_least_one_edge_relaxed)
  BY DEF CycleInvariant, SearchInvariant
<1>2. PICK S : Circular(pred, S) /\ cycleStart \in S
  BY DEF CycleInvariant, CycleOK
<1>3. PICK g : /\ IsWalk(g, pred, cycleStart, NumVertices)
               /\ \E n \in 1 .. NumVertices : g[n] = cycleStart
               /\ Circular(pred, {g[m] : m \in 0 .. NumVertices})
  BY <1>2, CircleComesRound
<1>4. \A m \in 0 .. NumVertices : Back(cycleStart, m) = g[m]
  BY <1>3, HowManyVertices, BackIsWalk
<1>5. CycleVertices = {g[m] : m \in 0 .. NumVertices}
  BY <1>4 DEF CycleVertices
<1>6. \E n \in 1 .. NumVertices : Back(cycleStart, n) = cycleStart
  BY <1>3, <1>4
<1>7. Circular(pred, CycleVertices)
  BY <1>3, <1>5
<1>8. CycleArcs = ArcsOf(pred, CycleVertices)
  BY DEF CycleArcs, ArcsOf
<1>9. /\ \A v \in CycleVertices : <<pred[v], v>> \in ResidualArcs
      /\ SumOver(Weights, {<<pred[v], v>> : v \in CycleVertices}) < 0
  BY <1>1, <1>7, CircleWeight
<1>10. QED
  BY <1>6, <1>7, <1>8, <1>9 DEF CycleArcs

\* It does not turn on the spot: an arc and its reverse together have a weight of 0.
LEMMA FoundFlowCycle ==
  ASSUME CycleInvariant, pc = "augment"
  PROVE  IsFlowCycle(edges, residual_capacity, pred, CycleVertices)
<1>1. PICK S : S = CycleVertices
  OBVIOUS
<1>2. /\ Circular(pred, S) /\ CycleArcs = ArcsOf(pred, S)
      /\ CycleArcs \subseteq ResidualArcs
  BY <1>1, FoundCircle
<1>3. InputOK /\ residual_capacity \in [AllArcs -> Nat]
      /\ CapacitiesOK(edges, residual_capacity, remaining_flow_value)
  BY DEF CycleInvariant, FlowOK
<1>4. \A v \in S : /\ <<pred[v], v>> \in ResidualArcs
                   /\ <<pred[v], v>> \in BothWays(edges)
                   /\ residual_capacity[<<pred[v], v>>] > 0
  BY <1>2, <1>3, ImprovesIsBetter DEF ArcsOf, ResidualArcs
<1>5. ASSUME NEW u \in S, NEW v \in S, pred[u] = v, pred[v] = u PROVE FALSE
  <2>0. PICK a : a = <<u, v>>
    OBVIOUS
  <2>1. a = <<u, v>> /\ rev(a) = <<v, u>> /\ rev(rev(a)) = a
    BY <2>0 DEF rev
  <2>2. /\ a \in BothWays(edges) /\ residual_capacity[a] > 0
        /\ rev(a) \in BothWays(edges) /\ residual_capacity[rev(a)] > 0
    BY <1>4, <1>5, <2>1
  <2>3. \A b \in NetArcs(edges) : ~(residual_capacity[b] > 0 /\ residual_capacity[rev(b)] > 0)
    BY <1>3 DEF CapacitiesOK
  <2>4. a \notin NetArcs(edges) /\ rev(a) \notin NetArcs(edges)
    BY <2>1, <2>2, <2>3
  <2>5. a \notin {rev(b) : b \in NetArcs(edges)}
    <3>1. ASSUME NEW b \in NetArcs(edges) PROVE rev(rev(b)) = b
      BY <1>3, InputFacts, NetArcKinds DEF rev
    <3>2. QED
      BY <2>1, <2>4, <3>1
  <2>6. a = DirectArc \/ a = rev(DirectArc)
    BY <2>2, <2>4, <2>5 DEF BothWays
  <2>7. (a = DirectArc /\ rev(a) = rev(DirectArc)) \/ (a = rev(DirectArc) /\ rev(a) = DirectArc)
    BY <2>6 DEF rev, DirectArc
  <2>8. Weights[a] = 0 /\ Weights[rev(a)] = 0
    BY <1>3, <2>2, <2>7, ArcWeights, TheArcs DEF Weights
  <2>9. Weights[<<u, v>>] + Weights[<<v, u>>] < 0
    BY <1>2, <1>5, CircleOfTwo DEF CycleInvariant, SearchInvariant
  <2>10. QED
    BY <2>1, <2>8, <2>9
<1>6. QED
  BY <1>1, <1>2, <1>4, <1>5 DEF IsFlowCycle

\* One unit of flow goes around the cycle.
LEMMA AugmentStep ==
  ASSUME CycleInvariant, Augment
  PROVE  CycleInvariant'
<1>1. UNCHANGED <<edges, cost, heuristic_edges, position, at_least_one_edge_relaxed,
                  cycleStart, matching_edges, matching_cost>>
      /\ pc = "augment" /\ pc' = "relax"
      /\ distance' = [v \in Vertices |-> 0] /\ pred' = [v \in Vertices |-> NoVertex]
      /\ k' = 0
  BY DEF Augment, input, result
<1>2. InputOK /\ InputOK' /\ edges \in SUBSET (PupilIds \X StudentIds)
      /\ remaining_flow_value' = remaining_flow_value
  BY <1>1, InputFacts DEF CycleInvariant, InputOK, remaining_flow_value
<1>3. Weights' = Weights /\ AllArcs' = AllArcs
  BY <1>1, SameWeights
<1>4. PICK S, C : S = CycleVertices /\ C = CycleArcs
  OBVIOUS
<1>5. IsFlowCycle(edges, residual_capacity, pred, S) /\ C = ArcsOf(pred, S)
  BY <1>1, <1>4, FoundFlowCycle, FoundCircle
<1>6. CapacitiesOK(edges, residual_capacity, remaining_flow_value)
      /\ Conserved(edges, residual_capacity)
      /\ FlowValue(residual_capacity) = successive_flow_value
  BY <1>1 DEF CycleInvariant, FlowOK
<1>7. delta = 1
  BY <1>2, <1>4, <1>5, <1>6, OneUnit DEF delta
<1>8. residual_capacity' = Pushed(edges, residual_capacity, C, 1)
  BY <1>4, <1>7, TheArcs DEF Augment, Pushed
<1>9. PICK r, g, m : r = residual_capacity /\ g = residual_capacity' /\ m = remaining_flow_value
  OBVIOUS
<1>10. IsPush(edges, r, m, pred, S, C, g)
  BY <1>5, <1>6, <1>8, <1>9 DEF IsPush
<1>11. CapacitiesOK(edges, g, m) /\ FlowValue(g) = FlowValue(r)
  BY <1>2, <1>10, PushKeepsCapacities, PushKeepsValue
<1>12. Conserved(edges, g)
  <2>1. Conserved(edges, r)
    BY <1>6, <1>9
  <2>2. ASSUME NEW q \in PupilIds
        PROVE  /\ AtMostOne(Sends(edges, g, q))
               /\ g[<<s_id, q>>] = 0 <=> Sends(edges, g, q) # {}
    BY <1>2, <1>10, <2>1, PushAtPupil
  <2>3. ASSUME NEW v \in StudentVertices
        PROVE  /\ AtMostOne(Gets(edges, g, v))
               /\ g[<<v, t_id>>] = 0 <=> Gets(edges, g, v) # {}
    BY <1>2, <1>10, <2>1, PushAtStudent
  <2>4. QED
    BY <2>2, <2>3 DEF Conserved
<1>13. FlowOK'
  BY <1>1, <1>2, <1>6, <1>9, <1>11, <1>12 DEF FlowOK
<1>14. residual_capacity' \in [BothWays(edges) -> Nat]
  <2>1. \A a \in BothWays(edges) : g[a] \in Nat
    BY <1>11 DEF CapacitiesOK, BothWays
  <2>2. QED
    BY <1>8, <1>9, <2>1 DEF Pushed
<1>15. SearchInvariant'
  <2>1. Weights \in [BothWays(edges) -> Int]
    BY <1>2, WeightsType
  <2>2. IsNetwork(ResidualArcs', Weights')
    BY <1>2, <1>3, <1>14, <2>1, ResidualNetwork DEF ResidualArcs
  <2>3. distance' \in [Vertices -> Int]
    BY <1>1
  <2>4. position' = 0 /\ at_least_one_edge_relaxed' = FALSE
    BY <1>1 DEF CycleInvariant, RoundsOK
  <2>5. Searched(ResidualArcs', Weights', distance', pred', 0, 0, FALSE)
    BY <1>1, <2>2, <2>3, FreshSearch
  <2>6. QED
    BY <1>1, <2>4, <2>5 DEF SearchInvariant
<1>16. StartOK' /\ RoundsOK' /\ CycleOK' /\ ResultOK'
  BY <1>1, HowManyVertices DEF CycleInvariant, StartOK, RoundsOK, CycleOK, ResultOK
<1>17. QED
  BY <1>2, <1>3, <1>13, <1>14, <1>15, <1>16, TheArcs DEF CycleInvariant

\* Every step preserves the invariant.
LEMMA NextKeepsInvariant ==
  ASSUME CycleInvariant, [Next]_vars
  PROVE  CycleInvariant'
<1>1. ASSUME NEW e \in edges, TakeEdge(e) PROVE CycleInvariant'
  BY <1>1, TakeEdgeStep
<1>2. ASSUME AdaptFlow PROVE CycleInvariant'
  BY <1>2, AdaptFlowStep
<1>3. ASSUME NEW a \in DOMAIN residual_capacity, RelaxArc(a) PROVE CycleInvariant'
  BY <1>3, RelaxArcStep
<1>4. ASSUME EndRound PROVE CycleInvariant'
  BY <1>4, EndRoundStep
<1>5. ASSUME FindCycle PROVE CycleInvariant'
  BY <1>5, FindCycleStep
<1>6. ASSUME Augment PROVE CycleInvariant'
  BY <1>6, AugmentStep
<1>7. ASSUME Extract PROVE CycleInvariant'
  BY <1>7, ExtractStep
<1>8. ASSUME UNCHANGED vars PROVE CycleInvariant'
  <2>1. UNCHANGED <<edges, cost, heuristic_edges, residual_capacity, distance, pred, k,
                    position, at_least_one_edge_relaxed, cycleStart, matching_edges,
                    matching_cost, pc>>
    BY <1>8 DEF vars
  <2>2. /\ Weights' = Weights /\ AllArcs' = AllArcs /\ ResidualArcs' = ResidualArcs
        /\ remaining_flow_value' = remaining_flow_value /\ InputOK' <=> InputOK
        /\ MatchedEdges' = MatchedEdges /\ Arcs' = Arcs
    BY <2>1, SameNetwork DEF input, Arcs
  <2>3. Unminimized' = Unminimized
    <3>1. \A a \in ResidualArcs : Improves(a)' <=> Improves(a)
      BY <2>1 DEF Improves, Weight, WeightOfEdge
    <3>2. QED
      BY <2>2, <3>1 DEF Unminimized
  <2>4. QED
    BY <2>1, <2>2, <2>3
    DEF CycleInvariant, SearchInvariant, StartOK, FlowOK, RoundsOK, CycleOK, ResultOK
<1>9. QED
  BY <1>1, <1>2, <1>3, <1>4, <1>5, <1>6, <1>7, <1>8 DEF Next

\* The search and the flow are in order in every state.
THEOREM CyclesInvariant == Spec => []CycleInvariant
<1>1. Init => CycleInvariant
  BY InitInvariant
<1>2. CycleInvariant /\ [Next]_vars => CycleInvariant'
  BY NextKeepsInvariant
<1>3. QED
  BY <1>1, <1>2, PTL DEF Spec

\* TypeOK: no residual capacity exceeds the number of vertices, no round is done
\* more than once per vertex.
THEOREM CyclesTypeCorrect == Spec => []TypeOK
<1>1. CycleInvariant => TypeOK
  <2>1. SUFFICES ASSUME CycleInvariant PROVE TypeOK
    OBVIOUS
  <2>2. InputOK /\ residual_capacity \in [AllArcs -> Nat] /\ NumVertices \in Nat \ {0}
    BY <2>1, HowManyVertices DEF CycleInvariant
  <2>3. residual_capacity \in [AllArcs -> 0 .. NumVertices]
    <3>1. CASE pc = "heuristic"
      <4>1. residual_capacity = [a \in AllArcs |-> IF a \in Arcs \ {DirectArc} THEN 1 ELSE 0]
        BY <2>1, <3>1 DEF CycleInvariant, StartOK
      <4>2. QED
        BY <2>2, <4>1
    <3>2. CASE pc # "heuristic"
      <4>1. CapacitiesOK(edges, residual_capacity, remaining_flow_value)
        BY <2>1, <3>2 DEF CycleInvariant, FlowOK
      <4>2. remaining_flow_value \in 0 .. NumVertices
        BY <2>2, InputFacts
      <4>3. ASSUME NEW a \in NetArcs(edges)
            PROVE  /\ residual_capacity[a] \in 0 .. NumVertices
                   /\ residual_capacity[rev(a)] \in 0 .. NumVertices
        BY <2>2, <4>1 DEF CapacitiesOK
      <4>4. /\ residual_capacity[DirectArc] \in 0 .. NumVertices
            /\ residual_capacity[rev(DirectArc)] \in 0 .. NumVertices
        BY <2>2, <4>1, <4>2 DEF CapacitiesOK
      <4>5. \A a \in BothWays(edges) : residual_capacity[a] \in 0 .. NumVertices
        BY <4>3, <4>4 DEF BothWays
      <4>6. QED
        BY <2>2, <4>5, TheArcs
    <3>3. QED
      BY <3>1, <3>2
  <2>4. QED
    BY <2>1, <2>2, <2>3
    DEF CycleInvariant, InputOK, SearchInvariant, Searched, RoundsOK, ResultOK, TypeOK
<1>2. QED
  BY <1>1, CyclesInvariant, PTL

\* FoundCycleIsNegative: FindCycle walks back from any arc that can still be relaxed
\* and ends on a cycle of arcs with residual capacity and negative weight, for every
\* graph and all costs.
THEOREM FoundCyclesAreNegative == Spec => []FoundCycleIsNegative
<1>1. CycleInvariant => FoundCycleIsNegative
  <2>1. SUFFICES ASSUME CycleInvariant, pc = "augment"
                 PROVE  /\ CycleVertices \subseteq Vertices
                        /\ \E n \in 1 .. NumVertices : Back(cycleStart, n) = cycleStart
                        /\ \A a \in CycleArcs : a \in AllArcs /\ residual_capacity[a] > 0
                        /\ MapThenSumSet(Weight, CycleArcs) < 0
    BY DEF FoundCycleIsNegative
  <2>2. CycleVertices \subseteq Vertices
    BY <2>1, FoundCircle DEF Circular
  <2>3. \A a \in CycleArcs : a \in AllArcs /\ residual_capacity[a] > 0
    BY <2>1, FoundCircle, ImprovesIsBetter DEF CycleInvariant, ResidualArcs
  <2>4. IsFiniteSet(CycleArcs)
    <3>1. IsFiniteSet(CycleVertices)
      BY <2>2, HowManyVertices, FS_Subset
    <3>2. PICK f : f = [v \in CycleVertices |-> <<pred[v], v>>]
      OBVIOUS
    <3>3. f \in Surjection(CycleVertices, CycleArcs)
      BY <3>2 DEF Surjection, CycleArcs
    <3>4. QED
      BY <3>1, <3>3, FS_Surjection
  <2>5. MapThenSumSet(Weight, CycleArcs) = SumOver(Weights, CycleArcs)
    BY <2>3, <2>4, SumOfWeights
  <2>6. QED
    BY <2>1, <2>2, <2>3, <2>5, FoundCircle
<1>2. QED
  BY <1>1, CyclesInvariant, PTL

\* The edges that flow goes along are a matching, of all pupils that flow goes to.
LEMMA FlowIsMatching ==
  ASSUME InputOK, Conserved(edges, residual_capacity)
  PROVE  /\ IsMatching(MatchedEdges)
         /\ Cardinality(MatchedEdges) = Cardinality(Served(residual_capacity))
<1>1. edges \in SUBSET (PupilIds \X StudentIds) /\ IsFiniteSet(edges)
  BY InputFacts
<1>0. PICK M : M = MatchedEdges
  OBVIOUS
<1>2. M = MatchedEdges /\ M \subseteq edges /\ IsFiniteSet(M)
  BY <1>0, <1>1, FS_Subset DEF MatchedEdges
<1>3. \A e \in M : /\ e = <<e[1], e[2]>> /\ e[1] \in PupilIds /\ e[2] \in StudentIds
                   /\ StudentVertex(e[2]) \in StudentVertices
                   /\ EdgeArc(e) = <<e[1], StudentVertex(e[2])>> /\ EdgeArc(e) \in EdgeArcs(edges)
                   /\ residual_capacity[EdgeArc(e)] = 0
  BY <1>1, <1>2 DEF MatchedEdges, EdgeArc, EdgeArcs, StudentVertices
<1>4. \A e \in M : /\ StudentVertex(e[2]) \in Sends(edges, residual_capacity, e[1])
                   /\ e[1] \in Gets(edges, residual_capacity, StudentVertex(e[2]))
  BY <1>3 DEF Sends, Gets
<1>5. \A i, j \in StudentIds : StudentVertex(i) = StudentVertex(j) => i = j
  BY SizeAssumption DEF StudentIds, StudentVertex
<1>6. ASSUME NEW e \in M, NEW f \in M, e[1] = f[1] PROVE e = f
  <2>1. AtMostOne(Sends(edges, residual_capacity, e[1]))
    BY <1>3 DEF Conserved
  <2>2. StudentVertex(e[2]) = StudentVertex(f[2])
    BY <1>4, <1>6, <2>1 DEF AtMostOne
  <2>3. QED
    BY <1>3, <1>5, <1>6, <2>2
<1>7. ASSUME NEW e \in M, NEW f \in M, e[2] = f[2] PROVE e = f
  <2>1. AtMostOne(Gets(edges, residual_capacity, StudentVertex(e[2])))
    BY <1>3 DEF Conserved
  <2>2. e[1] = f[1]
    BY <1>4, <1>7, <2>1 DEF AtMostOne
  <2>3. QED
    BY <1>3, <1>7, <2>2
<1>8. IsMatching(M)
  BY <1>6, <1>7 DEF IsMatching
<1>9. PICK f : f = [e \in M |-> e[1]]
  OBVIOUS
<1>10. f \in [M -> Served(residual_capacity)]
  <2>1. ASSUME NEW e \in M PROVE e[1] \in Served(residual_capacity)
    BY <1>3, <1>4 DEF Conserved, Served
  <2>2. QED
    BY <1>9, <2>1
<1>11. \A e, h \in M : f[e] = f[h] => e = h
  BY <1>6, <1>9
<1>12. ASSUME NEW q \in Served(residual_capacity) PROVE \E e \in M : f[e] = q
  <2>1. PICK v \in StudentVertices :
          <<q, v>> \in EdgeArcs(edges) /\ residual_capacity[<<q, v>>] = 0
    BY DEF Served, Conserved, Sends
  <2>2. PICK e \in edges : <<q, v>> = EdgeArc(e)
    BY <2>1 DEF EdgeArcs
  <2>3. e \in M /\ e[1] = q
    BY <1>2, <2>1, <2>2 DEF MatchedEdges, EdgeArc
  <2>4. QED
    BY <1>9, <2>3
<1>13. Cardinality(Served(residual_capacity)) = Cardinality(M)
  BY <1>2, <1>10, <1>11, <1>12, PairedOff
<1>14. QED
  BY <1>2, <1>8, <1>13

\* FlowKeepsItsValue: whatever cycles are canceled, what flows along edges is a
\* matching and what flows directly is missing to the size of the smaller side.
THEOREM FlowValueIsKept == Spec => []FlowKeepsItsValue
<1>1. CycleInvariant => FlowKeepsItsValue
  <2>1. SUFFICES ASSUME CycleInvariant, pc # "heuristic"
                 PROVE  /\ IsMatching(MatchedEdges)
                        /\ Cardinality(MatchedEdges) + residual_capacity[rev(DirectArc)]
                             = successive_flow_value
    BY DEF FlowKeepsItsValue
  <2>2. /\ InputOK /\ Conserved(edges, residual_capacity)
        /\ FlowValue(residual_capacity) = successive_flow_value
    BY <2>1 DEF CycleInvariant, FlowOK
  <2>3. QED
    BY <2>2, FlowIsMatching DEF FlowValue
<1>2. QED
  BY <1>1, CyclesInvariant, PTL

-----------------------------------------------------------------------------
(* When no arc can be relaxed, the distances prove that the flow is the     *)
(* cheapest there is.                                                       *)

\* What they say of the edges S that flow goes along and of another matching T: the
\* distances of its endpoints differ by at least the weight of an edge of S and by at
\* most that of another; flow goes to a pupil that is no nearer than s, and comes
\* from a student that is no farther than t.
IsTight(S, T, c, d) ==
  /\ \A e \in S : /\ c[e] \in Int
                  /\ c[e] <= d[StudentVertex(e[2])] - d[e[1]]
                  /\ d[e[1]] >= d[s_id]
                  /\ d[StudentVertex(e[2])] <= d[t_id]
  /\ \A e \in T : /\ c[e] \in Int
                  /\ e \in S \/ c[e] >= d[StudentVertex(e[2])] - d[e[1]]
                  /\ (\E f \in S : f[1] = e[1]) \/ d[e[1]] <= d[s_id]
                  /\ (\E f \in S : f[2] = e[2]) \/ d[StudentVertex(e[2])] >= d[t_id]

\* Then T is not cheaper, unless it trades flow from s to t the wrong way.
LEMMA NoneIsCheaper ==
  ASSUME NEW S \in SUBSET (PupilIds \X StudentIds), IsFiniteSet(S), IsMatching(S),
         NEW T \in SUBSET (PupilIds \X StudentIds), IsFiniteSet(T), IsMatching(T),
         NEW c, NEW d \in [Vertices -> Int], IsTight(S, T, c, d),
         Cardinality(S) < Cardinality(T) => d[t_id] >= d[s_id],
         Cardinality(S) > Cardinality(T) => d[t_id] <= d[s_id]
  PROVE  SumOver(c, S) <= SumOver(c, T)
<1>1. PICK K : K = d[t_id] - d[s_id]
  OBVIOUS
<1>2. \A e \in S \cup T : /\ e[1] \in PupilIds /\ e[2] \in StudentIds
                          /\ StudentVertex(e[2]) \in StudentVertices
                          /\ d[e[1]] \in Int /\ d[StudentVertex(e[2])] \in Int
  BY VertexKinds DEF StudentVertices
<1>3. d[t_id] \in Int /\ d[s_id] \in Int /\ K \in Int
  BY <1>1, VertexKinds
<1>4. PICK x : x = [e \in S \cup T |-> d[StudentVertex(e[2])] - d[t_id]]
  OBVIOUS
<1>5. PICK y : y = [e \in S \cup T |-> d[s_id] - d[e[1]]]
  OBVIOUS
<1>6. PICK z : z = [e \in S \cup T |-> c[e] - (d[StudentVertex(e[2])] - d[e[1]])]
  OBVIOUS
<1>7. PICK n : n = [e \in S \cup T |-> K]
  OBVIOUS
<1>8. \A e \in S \cup T : c[e] \in Int
  BY DEF IsTight
<1>9. \A e \in S \cup T : /\ x[e] \in Int /\ y[e] \in Int /\ z[e] \in Int /\ n[e] \in Int
                          /\ c[e] = x[e] + y[e] + z[e] + n[e]
  BY <1>1, <1>2, <1>3, <1>4, <1>5, <1>6, <1>7, <1>8
<1>10. SumOver(z, S) <= SumOver(z, T)
  <2>1. \A e \in S : z[e] \in Int /\ z[e] <= 0
    BY <1>2, <1>6, <1>8 DEF IsTight
  <2>2. \A e \in T \ S : z[e] \in Int /\ z[e] >= 0
    BY <1>2, <1>6, <1>8 DEF IsTight
  <2>3. QED
    BY <2>1, <2>2, SumOfSigns
<1>11. SumOver(x, S) <= SumOver(x, T)
  <2>1. PICK b : b = [e \in S \cup T |-> e[2]]
    OBVIOUS
  <2>2. PICK h : h = [j \in StudentIds |-> d[StudentVertex(j)] - d[t_id]]
    OBVIOUS
  <2>3. \A e \in S \cup T : b[e] = e[2] /\ x[e] = h[b[e]] /\ h[b[e]] \in Int
    BY <1>2, <1>3, <1>4, <2>1, <2>2
  <2>4. \A e \in S : h[b[e]] <= 0
    BY <1>2, <1>3, <2>1, <2>2 DEF IsTight
  <2>5. \A e \in T : (\E f \in S : b[f] = b[e]) \/ h[b[e]] >= 0
    BY <1>2, <1>3, <2>1, <2>2 DEF IsTight
  <2>6. \A e, f \in S : b[e] = b[f] => e = f
    BY <2>3 DEF IsMatching
  <2>7. \A e, f \in T : b[e] = b[f] => e = f
    BY <2>3 DEF IsMatching
  <2>8. GoesByEnds(b, h, x, S, T)
    BY <2>3, <2>4, <2>5, <2>6, <2>7 DEF GoesByEnds
  <2>9. QED
    BY <2>8, SumOfEnds
<1>12. SumOver(y, S) <= SumOver(y, T)
  <2>1. PICK b : b = [e \in S \cup T |-> e[1]]
    OBVIOUS
  <2>2. PICK h : h = [q \in PupilIds |-> d[s_id] - d[q]]
    OBVIOUS
  <2>3. \A e \in S \cup T : b[e] = e[1] /\ y[e] = h[b[e]] /\ h[b[e]] \in Int
    BY <1>2, <1>3, <1>5, <2>1, <2>2
  <2>4. \A e \in S : h[b[e]] <= 0
    BY <1>2, <1>3, <2>1, <2>2 DEF IsTight
  <2>5. \A e \in T : (\E f \in S : b[f] = b[e]) \/ h[b[e]] >= 0
    BY <1>2, <1>3, <2>1, <2>2 DEF IsTight
  <2>6. \A e, f \in S : b[e] = b[f] => e = f
    BY <2>3 DEF IsMatching
  <2>7. \A e, f \in T : b[e] = b[f] => e = f
    BY <2>3 DEF IsMatching
  <2>8. GoesByEnds(b, h, y, S, T)
    BY <2>3, <2>4, <2>5, <2>6, <2>7 DEF GoesByEnds
  <2>9. QED
    BY <2>8, SumOfEnds
<1>13. SumOver(n, S) <= SumOver(n, T)
  <2>1. /\ SumOver(n, S) = K * Cardinality(S) /\ SumOver(n, T) = K * Cardinality(T)
        /\ Cardinality(S) \in Nat /\ Cardinality(T) \in Nat
    BY <1>3, <1>7, SumConstant, FS_CardinalityType
  <2>2. \A i, j \in Nat : (i < j => K >= 0) /\ (i > j => K <= 0) => K * i <= K * j
    <3>1. SUFFICES ASSUME NEW i \in Nat, NEW j \in Nat, i < j => K >= 0, i > j => K <= 0
                   PROVE  K * i <= K * j
      OBVIOUS
    <3>2. CASE i = j
      BY <1>3, <3>2
    <3>3. CASE i # j
      <4>1. PICK l \in Int : l = j - i
        OBVIOUS
      <4>2. (l >= 0 /\ K >= 0) \/ (l <= 0 /\ K <= 0)
        BY <3>1, <3>3, <4>1
      <4>3. K * l >= 0
        BY <1>3, <4>2
      <4>4. j = i + l /\ K * (i + l) = K * i + K * l
        BY <1>3, <4>1
      <4>5. K * i \in Int /\ K * l \in Int
        BY <1>3
      <4>6. QED
        BY <4>3, <4>4, <4>5
    <3>4. QED
      BY <3>2, <3>3
  <2>3. QED
    BY <1>1, <1>3, <2>1, <2>2
<1>14. /\ SumOver(x, S) \in Int /\ SumOver(y, S) \in Int /\ SumOver(z, S) \in Int
       /\ SumOver(n, S) \in Int
       /\ SumOver(c, S) = SumOver(x, S) + SumOver(y, S) + SumOver(z, S) + SumOver(n, S)
  <2>1. AddsUp(c, x, y, z, n, S)
    BY <1>9 DEF AddsUp
  <2>2. QED
    BY <2>1, SumOfParts
<1>15. /\ SumOver(x, T) \in Int /\ SumOver(y, T) \in Int /\ SumOver(z, T) \in Int
       /\ SumOver(n, T) \in Int
       /\ SumOver(c, T) = SumOver(x, T) + SumOver(y, T) + SumOver(z, T) + SumOver(n, T)
  <2>1. AddsUp(c, x, y, z, n, T)
    BY <1>9 DEF AddsUp
  <2>2. QED
    BY <2>1, SumOfParts
<1>16. QED
  BY <1>10, <1>11, <1>12, <1>13, <1>14, <1>15

\* At the end no arc can be relaxed, so that the distances say this of the flow.
LEMMA DoneIsTight ==
  ASSUME CycleInvariant, pc = "done", NEW M \in SUBSET edges,
         NEW c, c = [e \in edges |-> WeightOfEdge(e)]
  PROVE  /\ IsTight(matching_edges, M, c, distance)
         /\ residual_capacity[DirectArc] > 0 => distance[t_id] <= distance[s_id]
         /\ residual_capacity[rev(DirectArc)] > 0 => distance[t_id] >= distance[s_id]
<1>1. /\ InputOK /\ residual_capacity \in [AllArcs -> Nat]
      /\ CapacitiesOK(edges, residual_capacity, remaining_flow_value)
      /\ Conserved(edges, residual_capacity)
      /\ Unminimized = {} /\ matching_edges = MatchedEdges
      /\ distance \in [Vertices -> Int]
  BY DEF CycleInvariant, FlowOK, ResultOK, SearchInvariant, Searched
<1>2. edges \in SUBSET (PupilIds \X StudentIds) /\ AllArcs = BothWays(edges)
  BY <1>1, InputFacts, TheArcs
<1>3. ASSUME NEW x \in Vertices, NEW y \in Vertices, <<x, y>> \in BothWays(edges),
             residual_capacity[<<x, y>>] > 0, Weight(<<x, y>>) \in Int
      PROVE  distance[x] + Weight(<<x, y>>) >= distance[y]
  <2>1. <<x, y>> \in ResidualArcs
    BY <1>1, <1>2, <1>3 DEF ResidualArcs
  <2>2. ~Improves(<<x, y>>)
    BY <1>1, <2>1 DEF Unminimized
  <2>3. distance[x] \in Int /\ distance[y] \in Int
    BY <1>1
  <2>4. QED
    BY <1>3, <2>2, <2>3 DEF Improves
<1>4. ASSUME NEW e \in edges
      PROVE  /\ e[1] \in PupilIds /\ StudentVertex(e[2]) \in StudentVertices
             /\ e[1] \in Vertices /\ StudentVertex(e[2]) \in Vertices
             /\ distance[e[1]] \in Int /\ distance[StudentVertex(e[2])] \in Int
             /\ c[e] = WeightOfEdge(e) /\ c[e] \in Int
             /\ EdgeArc(e) = <<e[1], StudentVertex(e[2])>>
             /\ rev(EdgeArc(e)) = <<StudentVertex(e[2]), e[1]>>
             /\ EdgeArc(e) \in EdgeArcs(edges) /\ EdgeArc(e) \in NetArcs(edges)
             /\ residual_capacity[EdgeArc(e)] \in {0, 1}
             /\ residual_capacity[rev(EdgeArc(e))] = 1 - residual_capacity[EdgeArc(e)]
  <2>1. e[1] \in PupilIds /\ StudentVertex(e[2]) \in StudentVertices
    BY <1>2 DEF StudentVertices
  <2>2. e[1] \in Vertices /\ StudentVertex(e[2]) \in Vertices
    BY <2>1, VertexKinds
  <2>3. distance[e[1]] \in Int /\ distance[StudentVertex(e[2])] \in Int
    BY <1>1, <2>2
  <2>4. c[e] = WeightOfEdge(e) /\ c[e] \in Int
    BY <1>1, ArcWeights
  <2>5. /\ EdgeArc(e) = <<e[1], StudentVertex(e[2])>>
        /\ rev(EdgeArc(e)) = <<StudentVertex(e[2]), e[1]>>
        /\ EdgeArc(e) \in EdgeArcs(edges)
    BY DEF EdgeArc, rev, EdgeArcs
  <2>6. EdgeArc(e) \in NetArcs(edges)
    BY <2>5 DEF NetArcs
  <2>7. QED
    BY <1>1, <2>1, <2>2, <2>3, <2>4, <2>5, <2>6 DEF CapacitiesOK
<1>5. ASSUME NEW e \in matching_edges
      PROVE  c[e] <= distance[StudentVertex(e[2])] - distance[e[1]]
  <2>1. e \in edges /\ residual_capacity[EdgeArc(e)] = 0
    BY <1>1 DEF MatchedEdges
  <2>2. /\ rev(EdgeArc(e)) \in BothWays(edges) /\ residual_capacity[rev(EdgeArc(e))] > 0
        /\ Weight(rev(EdgeArc(e))) = -c[e]
    BY <1>1, <1>4, <2>1, ArcWeights, ArcsAtVertices, InputFacts
  <2>3. distance[StudentVertex(e[2])] + Weight(rev(EdgeArc(e))) >= distance[e[1]]
    BY <1>3, <1>4, <2>1, <2>2
  <2>4. QED
    BY <1>4, <2>1, <2>2, <2>3
<1>6. ASSUME NEW e \in edges, e \notin matching_edges
      PROVE  c[e] >= distance[StudentVertex(e[2])] - distance[e[1]]
  <2>1. residual_capacity[EdgeArc(e)] = 1
    BY <1>1, <1>4, <1>6 DEF MatchedEdges
  <2>2. EdgeArc(e) \in BothWays(edges) /\ Weight(EdgeArc(e)) = c[e]
    BY <1>1, <1>4, ArcWeights, ArcsAtVertices, InputFacts
  <2>3. distance[e[1]] + Weight(EdgeArc(e)) >= distance[StudentVertex(e[2])]
    BY <1>3, <1>4, <2>1, <2>2
  <2>4. QED
    BY <1>4, <2>2, <2>3
<1>7. s_id \in Vertices /\ t_id \in Vertices /\ distance[s_id] \in Int /\ distance[t_id] \in Int
  BY <1>1, VertexKinds
<1>8. ASSUME NEW q \in PupilIds
      PROVE  /\ residual_capacity[<<s_id, q>>] = 0 => distance[q] >= distance[s_id]
             /\ residual_capacity[<<s_id, q>>] # 0 => distance[q] <= distance[s_id]
  <2>1. PICK a : a = <<s_id, q>>
    OBVIOUS
  <2>2. a \in NetArcs(edges) /\ rev(a) = <<q, s_id>> /\ a \notin EdgeArcs(edges)
    <3>1. \A b \in EdgeArcs(edges) : b[1] \in PupilIds
      BY <1>2 DEF EdgeArcs, EdgeArc
    <3>2. QED
      BY <1>2, <2>1, <3>1, ArcsAtVertices, VertexKinds DEF rev
  <2>3. /\ a \in BothWays(edges) /\ rev(a) \in BothWays(edges)
        /\ Weight(a) = 0 /\ Weight(rev(a)) = 0
        /\ residual_capacity[a] \in {0, 1}
        /\ residual_capacity[rev(a)] = 1 - residual_capacity[a]
    BY <1>1, <1>2, <2>2, ArcsAtVertices, ArcWeights DEF CapacitiesOK
  <2>4. q \in Vertices /\ distance[q] \in Int
    BY <1>1, VertexKinds
  <2>5. residual_capacity[a] = 0 => distance[q] + Weight(rev(a)) >= distance[s_id]
    BY <1>3, <1>7, <2>2, <2>3, <2>4
  <2>6. residual_capacity[a] # 0 => distance[s_id] + Weight(a) >= distance[q]
    BY <1>3, <1>7, <2>1, <2>3, <2>4
  <2>7. QED
    BY <1>7, <2>1, <2>3, <2>4, <2>5, <2>6
<1>9. ASSUME NEW v \in StudentVertices
      PROVE  /\ residual_capacity[<<v, t_id>>] = 0 => distance[v] <= distance[t_id]
             /\ residual_capacity[<<v, t_id>>] # 0 => distance[v] >= distance[t_id]
  <2>1. PICK a : a = <<v, t_id>>
    OBVIOUS
  <2>2. a \in NetArcs(edges) /\ rev(a) = <<t_id, v>> /\ a \notin EdgeArcs(edges)
    <3>1. \A b \in EdgeArcs(edges) : b[1] \in PupilIds
      BY <1>2 DEF EdgeArcs, EdgeArc
    <3>2. QED
      BY <1>2, <2>1, <3>1, ArcsAtVertices, VertexKinds DEF rev
  <2>3. /\ a \in BothWays(edges) /\ rev(a) \in BothWays(edges)
        /\ Weight(a) = 0 /\ Weight(rev(a)) = 0
        /\ residual_capacity[a] \in {0, 1}
        /\ residual_capacity[rev(a)] = 1 - residual_capacity[a]
    BY <1>1, <1>2, <2>2, ArcsAtVertices, ArcWeights DEF CapacitiesOK
  <2>4. v \in Vertices /\ distance[v] \in Int
    BY <1>1, VertexKinds
  <2>5. residual_capacity[a] = 0 => distance[t_id] + Weight(rev(a)) >= distance[v]
    BY <1>3, <1>7, <2>2, <2>3, <2>4
  <2>6. residual_capacity[a] # 0 => distance[v] + Weight(a) >= distance[t_id]
    BY <1>3, <1>7, <2>1, <2>3, <2>4
  <2>7. QED
    BY <1>7, <2>1, <2>3, <2>4, <2>5, <2>6
<1>10. /\ residual_capacity[DirectArc] > 0 => distance[t_id] <= distance[s_id]
       /\ residual_capacity[rev(DirectArc)] > 0 => distance[t_id] >= distance[s_id]
  <2>1. /\ DirectArc \in BothWays(edges) /\ rev(DirectArc) \in BothWays(edges)
        /\ DirectArc = <<s_id, t_id>> /\ rev(DirectArc) = <<t_id, s_id>>
    BY <1>2, ArcsAtVertices
  <2>2. Weight(DirectArc) = 0 /\ Weight(rev(DirectArc)) = 0
    BY <1>1, ArcWeights
  <2>3. residual_capacity[DirectArc] > 0 => distance[s_id] + Weight(DirectArc) >= distance[t_id]
    BY <1>3, <1>7, <2>1, <2>2
  <2>4. residual_capacity[rev(DirectArc)] > 0 =>
          distance[t_id] + Weight(rev(DirectArc)) >= distance[s_id]
    BY <1>3, <1>7, <2>1, <2>2
  <2>5. QED
    BY <1>7, <2>2, <2>3, <2>4
\* An end that flow goes through is the end of a matched edge.
<1>11. ASSUME NEW q \in PupilIds, residual_capacity[<<s_id, q>>] = 0
       PROVE  \E f \in matching_edges : f[1] = q
  <2>1. PICK v \in StudentVertices :
          <<q, v>> \in EdgeArcs(edges) /\ residual_capacity[<<q, v>>] = 0
    BY <1>1, <1>11 DEF Conserved, Sends
  <2>2. PICK e \in edges : <<q, v>> = EdgeArc(e)
    BY <2>1 DEF EdgeArcs
  <2>3. QED
    BY <1>1, <1>4, <2>1, <2>2 DEF MatchedEdges
<1>12. ASSUME NEW j \in StudentIds, residual_capacity[<<StudentVertex(j), t_id>>] = 0
       PROVE  \E f \in matching_edges : f[2] = j
  <2>0. StudentVertex(j) \in StudentVertices
    BY DEF StudentVertices
  <2>1. PICK q \in PupilIds : /\ <<q, StudentVertex(j)>> \in EdgeArcs(edges)
                              /\ residual_capacity[<<q, StudentVertex(j)>>] = 0
    BY <1>1, <1>12, <2>0 DEF Conserved, Gets
  <2>2. PICK e \in edges : <<q, StudentVertex(j)>> = EdgeArc(e)
    BY <2>1 DEF EdgeArcs
  <2>3. StudentVertex(e[2]) = StudentVertex(j) /\ e[2] \in StudentIds
    BY <1>2, <1>4, <2>2
  <2>4. e[2] = j
    BY <2>3, SizeAssumption DEF StudentVertex, StudentIds
  <2>5. QED
    BY <1>1, <2>1, <2>2, <2>4 DEF MatchedEdges
<1>13. ASSUME NEW e \in matching_edges
       PROVE  distance[e[1]] >= distance[s_id] /\ distance[StudentVertex(e[2])] <= distance[t_id]
  <2>1. e \in edges /\ residual_capacity[<<e[1], StudentVertex(e[2])>>] = 0
    BY <1>1, <1>4 DEF MatchedEdges
  <2>2. /\ StudentVertex(e[2]) \in Sends(edges, residual_capacity, e[1])
        /\ e[1] \in Gets(edges, residual_capacity, StudentVertex(e[2]))
    BY <1>4, <2>1 DEF Sends, Gets
  <2>3. residual_capacity[<<s_id, e[1]>>] = 0 /\ residual_capacity[<<StudentVertex(e[2]), t_id>>] = 0
    BY <1>1, <1>4, <2>1, <2>2 DEF Conserved
  <2>4. QED
    BY <1>4, <1>8, <1>9, <2>1, <2>3
<1>14. ASSUME NEW e \in M
       PROVE  /\ (\E f \in matching_edges : f[1] = e[1]) \/ distance[e[1]] <= distance[s_id]
              /\ (\E f \in matching_edges : f[2] = e[2])
                   \/ distance[StudentVertex(e[2])] >= distance[t_id]
  <2>1. e \in edges /\ e[1] \in PupilIds /\ e[2] \in StudentIds
        /\ StudentVertex(e[2]) \in StudentVertices
    BY <1>2, <1>4
  <2>2. QED
    BY <1>8, <1>9, <1>11, <1>12, <2>1
<1>15. matching_edges \subseteq edges
  BY <1>1 DEF MatchedEdges
<1>16. IsTight(matching_edges, M, c, distance)
  BY <1>4, <1>5, <1>6, <1>13, <1>14, <1>15 DEF IsTight
<1>17. QED
  BY <1>10, <1>16

\* BestFromHeuristicSize: what cycle canceling returns is worth the most, as the int
\* network sees it, of all matchings that are at least as large as that of the
\* heuristic, for every graph and all costs.
THEOREM CyclesEndWithTheBest == Spec => []BestFromHeuristicSize
<1>1. CycleInvariant => BestFromHeuristicSize
  <2>1. SUFFICES ASSUME CycleInvariant, pc = "done", NEW M \in SUBSET edges, IsMatching(M),
                        Cardinality(M) >= Cardinality(heuristic_edges)
                 PROVE  RoundedWorth(M) <= RoundedWorth(matching_edges)
    BY DEF BestFromHeuristicSize, Matchings
  <2>2. /\ InputOK /\ Conserved(edges, residual_capacity)
        /\ CapacitiesOK(edges, residual_capacity, remaining_flow_value)
        /\ FlowValue(residual_capacity) = successive_flow_value
        /\ matching_edges = MatchedEdges
        /\ distance \in [Vertices -> Int]
    BY <2>1 DEF CycleInvariant, FlowOK, ResultOK, SearchInvariant, Searched
  <2>3. PICK S : S = matching_edges
    OBVIOUS
  <2>4. /\ edges \in SUBSET (PupilIds \X StudentIds)
        /\ S \in SUBSET edges /\ IsFiniteSet(S) /\ IsMatching(S)
        /\ IsFiniteSet(M)
    BY <2>2, <2>3, InputFacts, FlowIsMatching, FS_Subset DEF MatchedEdges
  <2>5. /\ Cardinality(S) \in Nat /\ Cardinality(M) \in Nat
        /\ Cardinality(S) + residual_capacity[rev(DirectArc)] = successive_flow_value
        /\ residual_capacity[DirectArc] + residual_capacity[rev(DirectArc)]
             = successive_flow_value - Cardinality(heuristic_edges)
        /\ residual_capacity[DirectArc] \in Nat /\ residual_capacity[rev(DirectArc)] \in Nat
    BY <2>2, <2>3, <2>4, FlowIsMatching, FS_CardinalityType
    DEF FlowValue, CapacitiesOK, remaining_flow_value
  <2>6. Cardinality(M) <= successive_flow_value
    BY <2>1, <2>2, MatchingSize
  <2>7. PICK c : c = [e \in edges |-> WeightOfEdge(e)]
    OBVIOUS
  <2>8. /\ IsTight(S, M, c, distance)
        /\ residual_capacity[DirectArc] > 0 => distance[t_id] <= distance[s_id]
        /\ residual_capacity[rev(DirectArc)] > 0 => distance[t_id] >= distance[s_id]
    BY <2>1, <2>3, <2>7, DoneIsTight
  <2>9. Cardinality(heuristic_edges) \in Nat /\ successive_flow_value \in Nat
    BY <2>2, InputFacts
  <2>10. /\ Cardinality(S) < Cardinality(M) => distance[t_id] >= distance[s_id]
         /\ Cardinality(S) > Cardinality(M) => distance[t_id] <= distance[s_id]
    <3>1. PICK i, j, h, n, there, back :
            /\ i = Cardinality(S) /\ j = Cardinality(M) /\ h = Cardinality(heuristic_edges)
            /\ n = successive_flow_value
            /\ there = residual_capacity[DirectArc] /\ back = residual_capacity[rev(DirectArc)]
      OBVIOUS
    <3>2. /\ i \in Nat /\ j \in Nat /\ h \in Nat /\ n \in Nat /\ there \in Nat /\ back \in Nat
          /\ i + back = n /\ there + back = n - h /\ j >= h /\ j <= n
      BY <2>1, <2>5, <2>6, <2>9, <3>1
    <3>3. (i < j => back > 0) /\ (i > j => there > 0)
      BY <3>2
    <3>4. QED
      BY <2>8, <3>1, <3>3
  <2>11. SumOver(c, S) <= SumOver(c, M)
    BY <2>1, <2>2, <2>4, <2>8, <2>10, NoneIsCheaper
  <2>12. PICK f : f = [e \in edges |-> -ToInt(-cost[e])]
    OBVIOUS
  <2>13. RoundedWorth(M) = SumOver(f, M) /\ RoundedWorth(S) = SumOver(f, S)
    BY <2>1, <2>2, <2>4, <2>12, SumOfWorths
  <2>14. \A e \in edges : c[e] \in Int /\ f[e] = (-1) * c[e] + 0 * c[e]
    BY <2>2, <2>7, <2>12, ArcWeights DEF WeightOfEdge
  <2>15. SumOver(f, M) = (-1) * SumOver(c, M) + 0 * SumOver(c, M)
    <3>1. Combines(f, -1, c, 0, c, M)
      BY <2>14 DEF Combines
    <3>2. QED
      BY <2>4, <3>1, SumLinear
  <2>16. SumOver(f, S) = (-1) * SumOver(c, S) + 0 * SumOver(c, S)
    <3>1. Combines(f, -1, c, 0, c, S)
      BY <2>4, <2>14 DEF Combines
    <3>2. QED
      BY <2>4, <3>1, SumLinear
  <2>17. SumOver(c, S) \in Int /\ SumOver(c, M) \in Int
    BY <2>4, <2>14, SumRemove
  <2>18. QED
    BY <2>3, <2>11, <2>13, <2>15, <2>16, <2>17
<1>2. QED
  BY <1>1, CyclesInvariant, PTL
=============================================================================
