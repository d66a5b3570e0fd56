-------------------------- MODULE StatisticsProofs --------------------------
(***************************************************************************)
(* What TLAPS proves of Statistics, for all nodes, edges and matchings:    *)
(* one pass over the matching that stops at the first error, and looks     *)
(* only at what it has marked, is enough to tell whether it is valid.      *)
(***************************************************************************)
EXTENDS Statistics, FiniteSums

\* The first n edges of M are a matching of acceptable edges.
IsValidUpTo(M, n) ==
  /\ \A i \in 1 .. n : M[i] \in edges
  /\ \A i, j \in 1 .. n : i # j => M[i][1] # M[j][1] /\ M[i][2] # M[j][2]

\* While no error has been met, exactly the ends of the edges passed are marked,
\* and those edges are valid.
MarksOK ==
  pc = "verify" =>
    /\ position \in 0 .. Len(matching_edges)
    /\ error = "none"
    /\ pupil_covered = {matching_edges[i][1] : i \in 1 .. position}
    /\ student_covered = {matching_edges[i][2] : i \in 1 .. position}
    /\ IsValidUpTo(matching_edges, position)

VerificationInvariant ==
  matching_edges \in Seq(PupilIds \X StudentIds) /\ MarksOK /\ ErrorIffInvalid

\* The list as a whole, and one of its edges.
LEMMA TheMatching ==
  ASSUME NEW M \in Seq(PupilIds \X StudentIds)
  PROVE  /\ Len(M) \in Nat
         /\ DOMAIN M = 1 .. Len(M)
         /\ \A i \in 1 .. Len(M) : M[i] = <<M[i][1], M[i][2]>>
         /\ IsValid(M) <=> IsValidUpTo(M, Len(M))
<1>1. Len(M) \in Nat /\ DOMAIN M = 1 .. Len(M)
  OBVIOUS
<1>2. \A i \in 1 .. Len(M) : M[i] \in PupilIds \X StudentIds
  BY <1>1
<1>3. QED
  BY <1>1, <1>2 DEF IsValid, IsValidUpTo

\* An edge that neither is covered nor should not exist extends what is valid; any
\* other one makes the whole list invalid.
LEMMA VerifyEdgeKeeps ==
  ASSUME VerificationInvariant, VerifyEdge
  PROVE  VerificationInvariant'
<1>1. PICK n : n = position
  OBVIOUS
<1>2. PICK M : M = matching_edges
  OBVIOUS
<1>3. /\ M \in Seq(PupilIds \X StudentIds) /\ n \in Nat /\ n < Len(M)
      /\ error = "none" /\ IsValidUpTo(M, n)
      /\ pupil_covered = {M[i][1] : i \in 1 .. n}
      /\ student_covered = {M[i][2] : i \in 1 .. n}
  BY <1>1, <1>2, TheMatching DEF VerificationInvariant, MarksOK, VerifyEdge, AtEdge
<1>4. /\ Len(M) \in Nat /\ DOMAIN M = 1 .. Len(M) /\ n + 1 \in 1 .. Len(M)
      /\ M[n + 1] = <<pupil_id, college_student_id>>
      /\ M[n + 1][1] = pupil_id /\ M[n + 1][2] = college_student_id
  BY <1>1, <1>2, <1>3, TheMatching DEF pupil_id, college_student_id
<1>5. edges' = edges /\ matching_edges' = M
  BY <1>2 DEF VerifyEdge, input
<1>6. \A m : IsValidUpTo(M, m)' <=> IsValidUpTo(M, m)
  BY <1>5 DEF IsValidUpTo
<1>7. CASE IsCovered
  <2>1. error' = "covered_twice" /\ pc' = "collect"
    BY <1>7 DEF VerifyEdge
  <2>2. PICK i \in 1 .. n : M[i][1] = M[n + 1][1] \/ M[i][2] = M[n + 1][2]
    BY <1>3, <1>4, <1>7 DEF IsCovered
  <2>3. i \in DOMAIN M /\ n + 1 \in DOMAIN M /\ i # n + 1
    BY <1>3, <1>4
  <2>4. ~IsValid(M)
    BY <2>2, <2>3 DEF IsValid
  <2>5. QED
    BY <1>3, <1>5, <2>1, <2>4
    DEF VerificationInvariant, MarksOK, ErrorIffInvalid, IsValid
<1>8. CASE ~IsCovered /\ M[n + 1] \notin edges
  <2>1. error' = "should_not_exist" /\ pc' = "collect"
    BY <1>4, <1>8 DEF VerifyEdge
  <2>2. ~IsValid(M)
    BY <1>4, <1>8 DEF IsValid
  <2>3. QED
    BY <1>3, <1>5, <2>1, <2>2
    DEF VerificationInvariant, MarksOK, ErrorIffInvalid, IsValid
<1>9. CASE ~IsCovered /\ M[n + 1] \in edges
  <2>1. /\ error' = "none" /\ pc' = "verify" /\ position' = n + 1
        /\ pupil_covered' = pupil_covered \cup {M[n + 1][1]}
        /\ student_covered' = student_covered \cup {M[n + 1][2]}
    BY <1>1, <1>4, <1>9 DEF VerifyEdge
  <2>2. 1 .. (n + 1) = (1 .. n) \cup {n + 1}
    BY <1>3
  <2>3. /\ pupil_covered' = {M[i][1] : i \in 1 .. (n + 1)}
        /\ student_covered' = {M[i][2] : i \in 1 .. (n + 1)}
    BY <1>3, <2>1, <2>2
  <2>4. \A i \in 1 .. n : M[i][1] # M[n + 1][1] /\ M[i][2] # M[n + 1][2]
    BY <1>3, <1>4, <1>9 DEF IsCovered
  <2>5. IsValidUpTo(M, n + 1)
    BY <1>3, <1>9, <2>2, <2>4 DEF IsValidUpTo
  <2>6. QED
    BY <1>3, <1>4, <1>5, <1>6, <2>1, <2>3, <2>5
    DEF VerificationInvariant, MarksOK, ErrorIffInvalid
<1>10. QED
  BY <1>7, <1>8, <1>9

\* The counting that follows changes neither the matching nor the verdict.
LEMMA StepKeepsVerification ==
  ASSUME VerificationInvariant, [Next]_vars
  PROVE  VerificationInvariant'
<1>1. CASE VerifyEdge
  BY <1>1, VerifyEdgeKeeps
<1>2. CASE EndVerification
  <2>1. /\ pc = "verify" /\ pc' = "collect" /\ ~(position < Len(matching_edges))
        /\ error' = error /\ matching_edges' = matching_edges /\ edges' = edges
    BY <1>2 DEF EndVerification, AtEdge, verification, input
  <2>2. position = Len(matching_edges) /\ error = "none"
    BY <2>1, TheMatching DEF VerificationInvariant, MarksOK
  <2>3. IsValid(matching_edges)
    BY <2>1, <2>2, TheMatching DEF VerificationInvariant, MarksOK
  <2>4. QED
    BY <2>1, <2>2, <2>3 DEF VerificationInvariant, MarksOK, ErrorIffInvalid, IsValid
<1>3. CASE /\ matching_edges' = matching_edges /\ edges' = edges /\ error' = error
           /\ pc # "verify" /\ pc' # "verify"
  BY <1>3 DEF VerificationInvariant, MarksOK, ErrorIffInvalid, IsValid
<1>4. CASE UNCHANGED vars
  BY <1>4
  DEF VerificationInvariant, MarksOK, ErrorIffInvalid, IsValid, IsValidUpTo, vars, input,
      verification
<1>5. CASE CollectRequestsAndOffers \/ CountEdge \/ CountUnmatched
  BY <1>3, <1>5
  DEF CollectRequestsAndOffers, CountEdge, CountUnmatched, input, verification
<1>6. QED
  BY <1>1, <1>2, <1>4, <1>5 DEF Next

\* test_matching_valid prints an error exactly for what is no valid matching.
THEOREM VerdictIsRight == Spec => []ErrorIffInvalid
<1>1. Init => VerificationInvariant
  <2>1. SUFFICES ASSUME Init PROVE VerificationInvariant
    OBVIOUS
  <2>2. /\ matching_edges \in Seq(PupilIds \X StudentIds) /\ position = 0
        /\ error = "none" /\ pc = "verify" /\ pupil_covered = {} /\ student_covered = {}
    <3>1. matching_edges \in Matchings
      BY <2>1 DEF Init
    <3>2. matching_edges \in Seq(PupilIds \X StudentIds)
      BY <3>1, MatchingAssumption
    <3>3. QED
      BY <2>1, <3>2 DEF Init
  <2>3. 1 .. position = {} /\ position \in 0 .. Len(matching_edges)
    BY <2>2, TheMatching
  <2>4. QED
    BY <2>2, <2>3 DEF VerificationInvariant, MarksOK, ErrorIffInvalid, IsValidUpTo
<1>2. VerificationInvariant /\ [Next]_vars => VerificationInvariant'
  BY StepKeepsVerification
<1>3. VerificationInvariant => ErrorIffInvalid
  BY DEF VerificationInvariant
<1>4. QED
  BY <1>1, <1>2, <1>3, PTL DEF Spec

-----------------------------------------------------------------------------
(* An unsigned. *)

\* Of all numbers that differ by a multiple of 2^w exactly one is an unsigned.
LEMMA OneUnsigned ==
  ASSUME NEW a \in Int, NEW q \in Int, NEW r \in Counts, a = UintModulus * q + r
  PROVE  Unsigned(a) = r
  BY UintAssumption, RemainderIs DEF Unsigned, Counts

\* What Unsigned takes away is a multiple of 2^w.
LEMMA UnsignedPart ==
  ASSUME NEW a \in Int
  PROVE  /\ Unsigned(a) \in Counts
         /\ \E q \in Int : a = UintModulus * q + Unsigned(a)
<1>1. PICK W : W = UintModulus /\ W \in Nat /\ W > 0
  BY UintAssumption
<1>2. a \div W \in Int /\ a = W * (a \div W) + (a % W) /\ a % W \in 0 .. (W - 1)
  BY <1>1
<1>3. QED
  BY <1>1, <1>2 DEF Unsigned, Counts

\* It does not matter when a sum is taken modulo 2^w.
LEMMA UnsignedSum ==
  ASSUME NEW a \in Int, NEW b \in Int
  PROVE  Unsigned(Unsigned(a) + b) = Unsigned(a + b)
<1>1. PICK r : r = Unsigned(a) /\ r \in Counts
  BY UnsignedPart
<1>2. PICK q \in Int : a = UintModulus * q + r
  BY <1>1, UnsignedPart
<1>3. r \in Int /\ r + b \in Int /\ UintModulus \in Int
  BY <1>1, UintAssumption DEF Counts
<1>4. PICK t : t = Unsigned(r + b) /\ t \in Counts
  BY <1>3, UnsignedPart
<1>5. PICK p \in Int : r + b = UintModulus * p + t
  BY <1>3, <1>4, UnsignedPart
<1>6. t \in Int
  BY <1>4, UintAssumption DEF Counts
<1>7. PICK x \in Int : x = UintModulus * q
  BY <1>3
<1>8. PICK y \in Int : y = UintModulus * p
  BY <1>3
<1>9. UintModulus * (p + q) = x + y
  BY <1>3, <1>7, <1>8
<1>10. a + b = UintModulus * (p + q) + t
  BY <1>2, <1>3, <1>5, <1>6, <1>7, <1>8, <1>9
<1>11. Unsigned(a + b) = t
  BY <1>4, <1>10, OneUnsigned
<1>12. QED
  BY <1>1, <1>4, <1>11

\* What an unsigned can hold stays as it is.
LEMMA UnsignedFits ==
  ASSUME NEW a \in Counts
  PROVE  Unsigned(a) = a
<1>1. UintModulus \in Int /\ a \in Int /\ UintModulus * 0 = 0
  BY UintAssumption DEF Counts
<1>2. a = UintModulus * 0 + a
  BY <1>1
<1>3. QED
  BY <1>1, <1>2, OneUnsigned

-----------------------------------------------------------------------------
(* What is counted. *)

\* How often the edge at i offers what is requested: a subject, and all of them.
FulfilledAt(subject) ==
  [i \in DOMAIN matching_edges |->
     IF Occurrences(subject, requested_subjects[matching_edges[i][1]]) > 0
       THEN Occurrences(subject, offered_subjects[matching_edges[i][2]])
       ELSE 0]
CoveredAt ==
  [i \in DOMAIN matching_edges |->
     SumOver([subject \in Subjects |-> FulfilledAt(subject)[i]], Subjects)]

\* How many subjects a pupil requests, and what its edge leaves uncovered.
RequestedBy == [p \in PupilIds |-> Len(requested_subjects[p])]
UncoveredAt ==
  [i \in DOMAIN matching_edges |-> RequestedBy[matching_edges[i][1]] - CoveredAt[i]]

Met(n) == {matching_edges[i][1] : i \in 1 .. n}

\* The first n edges are counted, and nothing else.
CountedUpTo(n) ==
  /\ pupil_matched = Met(n)
  /\ num_subject_request_fulfilled =
       [subject \in Subjects |-> Unsigned(SumOver(FulfilledAt(subject), 1 .. n))]
  /\ num_cov_subjects = Unsigned(SumOver(CoveredAt, 1 .. n))

TablesOK ==
  /\ num_subject_offered =
       [subject \in Subjects |-> OccurrencesIn(subject, offered_subjects)]
  /\ num_subject_requested =
       [subject \in Subjects |-> OccurrencesIn(subject, requested_subjects)]

AllUncovered ==
  SumOver(UncoveredAt, 1 .. Len(matching_edges))
    + SumOver(RequestedBy, PupilIds \ Met(Len(matching_edges)))

InputOK ==
  /\ requested_subjects \in [PupilIds -> Requests]
  /\ offered_subjects \in [StudentIds -> Offers]
  /\ edges \subseteq PupilIds \X StudentIds
  /\ matching_edges \in Matchings

CountersOK ==
  /\ pc \in {"verify", "collect"} =>
       /\ CountedUpTo(0) /\ num_uncov_sub = 0
       /\ num_subject_offered = [subject \in Subjects |-> 0]
       /\ num_subject_requested = [subject \in Subjects |-> 0]
  /\ pc = "collect" => position = 0
  /\ pc = "count" =>
       /\ CountedUpTo(position) /\ TablesOK
       /\ num_uncov_sub = Unsigned(SumOver(UncoveredAt, 1 .. position))
  /\ pc = "done" =>
       /\ CountedUpTo(Len(matching_edges)) /\ TablesOK
       /\ num_uncov_sub = Unsigned(AllUncovered)

PhaseOK ==
  /\ position \in 0 .. Len(matching_edges)
  /\ pupil_covered \subseteq PupilIds
  /\ student_covered \subseteq StudentIds
  /\ error \in {"none", "covered_twice", "should_not_exist"}
  /\ pc \in {"verify", "collect", "count", "done"}

CountingInvariant == InputOK /\ PhaseOK /\ CountersOK

\* A list of subjects.
LEMMA ListOfSubjects ==
  ASSUME NEW list \in Requests \cup Offers
  PROVE  /\ Len(list) \in Nat /\ DOMAIN list = 1 .. Len(list)
         /\ \A i \in DOMAIN list : list[i] \in Subjects
         /\ \A subject : Occurrences(subject, list) \in 0 .. Len(list)
<1>1. list \in Seq(Subjects)
  BY SubjectAssumption
<1>2. Len(list) \in Nat /\ DOMAIN list = 1 .. Len(list)
  BY <1>1
<1>3. \A i \in DOMAIN list : list[i] \in Subjects
  BY <1>1, <1>2
<1>4. ASSUME NEW subject PROVE Occurrences(subject, list) \in 0 .. Len(list)
  <2>1. IsFiniteSet(1 .. Len(list)) /\ Cardinality(1 .. Len(list)) = Len(list)
    <3>1. PICK n \in Nat : n = Len(list)
      BY <1>2
    <3>2. IsFiniteSet(1 .. n) /\ Cardinality(1 .. n) = IF 1 > n THEN 0 ELSE n - 1 + 1
      BY FS_Interval
    <3>3. QED
      BY <3>1, <3>2
  <2>2. PICK S : S = {i \in DOMAIN list : list[i] = subject}
    OBVIOUS
  <2>3. S \subseteq 1 .. Len(list)
    BY <1>2, <2>2
  <2>4. IsFiniteSet(S) /\ Cardinality(S) <= Len(list) /\ Cardinality(S) \in Nat
    BY <2>1, <2>3, FS_Subset, FS_CardinalityType
  <2>5. QED
    BY <1>2, <2>2, <2>4 DEF Occurrences
<1>5. QED
  BY <1>2, <1>3, <1>4

\* The nodes of an edge of the matching.
LEMMA EndsOfEdges ==
  ASSUME InputOK
  PROVE  /\ matching_edges \in Seq(PupilIds \X StudentIds)
         /\ Len(matching_edges) \in Nat
         /\ DOMAIN matching_edges = 1 .. Len(matching_edges)
         /\ \A i \in DOMAIN matching_edges :
              /\ matching_edges[i][1] \in PupilIds
              /\ matching_edges[i][2] \in StudentIds
<1>1. matching_edges \in Seq(PupilIds \X StudentIds)
  BY MatchingAssumption DEF InputOK
<1>2. /\ Len(matching_edges) \in Nat
      /\ DOMAIN matching_edges = 1 .. Len(matching_edges)
  BY <1>1
<1>3. \A i \in DOMAIN matching_edges : matching_edges[i] \in PupilIds \X StudentIds
  BY <1>1, <1>2
<1>4. QED
  BY <1>1, <1>2, <1>3

\* The types of what is counted.
LEMMA CountTypes ==
  ASSUME InputOK
  PROVE  /\ \A p \in PupilIds : RequestedBy[p] \in Nat
         /\ \A i \in DOMAIN matching_edges :
              /\ \A subject \in Subjects : FulfilledAt(subject)[i] \in Nat
              /\ CoveredAt[i] \in Int
              /\ UncoveredAt[i] \in Int
              /\ UncoveredAt[i] = RequestedBy[matching_edges[i][1]] - CoveredAt[i]
<1>1. ASSUME NEW p \in PupilIds PROVE RequestedBy[p] \in Nat
  <2>1. requested_subjects[p] \in Requests
    BY DEF InputOK
  <2>2. QED
    BY <2>1, ListOfSubjects DEF RequestedBy
<1>2. ASSUME NEW i \in DOMAIN matching_edges, NEW subject \in Subjects
      PROVE  FulfilledAt(subject)[i] \in Nat
  <2>1. offered_subjects[matching_edges[i][2]] \in Offers
    BY EndsOfEdges DEF InputOK
  <2>2. Occurrences(subject, offered_subjects[matching_edges[i][2]]) \in Nat
    BY <2>1, ListOfSubjects
  <2>3. QED
    BY <2>2 DEF FulfilledAt
<1>3. ASSUME NEW i \in DOMAIN matching_edges PROVE CoveredAt[i] \in Int
  <2>1. PICK f : f = [subject \in Subjects |-> FulfilledAt(subject)[i]]
    OBVIOUS
  <2>2. \A subject \in Subjects : f[subject] \in Int
    BY <1>2, <2>1
  <2>3. SumOver(f, Subjects) \in Int
    BY <2>2, SubjectAssumption, SumRemove
  <2>4. QED
    BY <2>1, <2>3 DEF CoveredAt
<1>4. ASSUME NEW i \in DOMAIN matching_edges
      PROVE  /\ UncoveredAt[i] \in Int
             /\ UncoveredAt[i] = RequestedBy[matching_edges[i][1]] - CoveredAt[i]
  BY <1>1, <1>3, EndsOfEdges DEF UncoveredAt
<1>5. QED
  BY <1>1, <1>2, <1>3, <1>4

\* The sums over the first n edges, and over one more.
LEMMA OneEdgeMore ==
  ASSUME InputOK, NEW n \in Nat, n < Len(matching_edges),
         NEW f, \A i \in DOMAIN matching_edges : f[i] \in Int
  PROVE  /\ n + 1 \in DOMAIN matching_edges
         /\ SumOver(f, 1 .. n) \in Int
         /\ SumOver(f, 1 .. (n + 1)) = SumOver(f, 1 .. n) + f[n + 1]
<1>1. /\ Len(matching_edges) \in Nat /\ DOMAIN matching_edges = 1 .. Len(matching_edges)
      /\ n + 1 \in DOMAIN matching_edges
  BY EndsOfEdges
<1>2. PICK S, x : S = 1 .. n /\ x = n + 1
  OBVIOUS
<1>3. IsFiniteSet(S)
  BY <1>2, FS_Interval
<1>4. x \notin S /\ 1 .. (n + 1) = S \cup {x}
  BY <1>2
<1>5. \A i \in S \cup {x} : f[i] \in Int
  BY <1>1, <1>2
<1>6. SumOver(f, S) \in Int /\ SumOver(f, S \cup {x}) = SumOver(f, S) + f[x]
  BY <1>3, <1>4, <1>5, SumAdd
<1>7. QED
  BY <1>1, <1>2, <1>4, <1>6

\* What the counters of an edge come to.
LEMMA EdgeIsCounted ==
  ASSUME InputOK, NEW n \in Nat, n = position, n < Len(matching_edges)
  PROVE  /\ \A subject \in Subjects : SameSubjects(subject) = FulfilledAt(subject)[n + 1]
         /\ get_same_subject_number = CoveredAt[n + 1]
         /\ pupil_id = matching_edges[n + 1][1] /\ pupil_id \in PupilIds
         /\ Len(requested_subjects[pupil_id]) = RequestedBy[pupil_id]
<1>1. n + 1 \in DOMAIN matching_edges
  BY EndsOfEdges
<1>2. /\ pupil_id = matching_edges[n + 1][1]
      /\ college_student_id = matching_edges[n + 1][2]
  BY DEF pupil_id, college_student_id
<1>3. pupil_id \in PupilIds
  BY <1>1, <1>2, EndsOfEdges
<1>4. \A subject \in Subjects : SameSubjects(subject) = FulfilledAt(subject)[n + 1]
  BY <1>1, <1>2 DEF SameSubjects, FulfilledAt
<1>5. PICK f : f = [subject \in Subjects |-> SameSubjects(subject)]
  OBVIOUS
<1>6. f = [subject \in Subjects |-> FulfilledAt(subject)[n + 1]] /\ DOMAIN f = Subjects
  BY <1>4, <1>5
<1>7. get_same_subject_number = SumOver(f, Subjects)
  BY <1>5, <1>6, SumOfFunction DEF get_same_subject_number
<1>8. CoveredAt[n + 1] = SumOver(f, Subjects)
  BY <1>1, <1>6 DEF CoveredAt
<1>9. QED
  BY <1>2, <1>3, <1>4, <1>7, <1>8 DEF RequestedBy

\* With the input, what is counted stays the same.
LEMMA SameInput ==
  ASSUME UNCHANGED input
  PROVE  /\ InputOK' <=> InputOK
         /\ \A subject : FulfilledAt(subject)' = FulfilledAt(subject)
         /\ CoveredAt' = CoveredAt /\ UncoveredAt' = UncoveredAt
         /\ RequestedBy' = RequestedBy /\ AllUncovered' = AllUncovered
         /\ \A n : Met(n)' = Met(n)
         /\ matching_edges' = matching_edges
BY DEF input, InputOK, FulfilledAt, CoveredAt, UncoveredAt, RequestedBy, AllUncovered, Met

\* The edges counted so far and the next one.
LEMMA CountEdgeKeeps ==
  ASSUME CountingInvariant, CountEdge
  PROVE  CountersOK'
<1>1. PICK n : n = position
  OBVIOUS
<1>2. /\ InputOK /\ UNCHANGED input /\ pc = "count" /\ pc' = "count"
      /\ n \in Nat /\ n < Len(matching_edges) /\ position' = n + 1
      /\ CountedUpTo(n) /\ TablesOK
      /\ num_uncov_sub = Unsigned(SumOver(UncoveredAt, 1 .. n))
  <2>1. InputOK /\ PhaseOK /\ CountersOK
    BY DEF CountingInvariant
  <2>2. UNCHANGED input /\ pc = "count" /\ pc' = "count" /\ AtEdge /\ position' = n + 1
    BY <1>1 DEF CountEdge
  <2>3. n \in 0 .. Len(matching_edges) /\ Len(matching_edges) \in Nat
    BY <1>1, <2>1, EndsOfEdges DEF PhaseOK
  <2>4. QED
    BY <1>1, <2>1, <2>2, <2>3 DEF CountersOK, AtEdge
<1>3. n + 1 \in DOMAIN matching_edges
  BY <1>2, EndsOfEdges
<1>4. CountedUpTo(n + 1)'
  <2>1. pupil_matched' = Met(n + 1)
    <3>1. 1 .. (n + 1) = (1 .. n) \cup {n + 1}
      BY <1>2
    <3>2. Met(n + 1) = Met(n) \cup {matching_edges[n + 1][1]}
      BY <3>1 DEF Met
    <3>3. pupil_matched' = pupil_matched \cup {pupil_id}
      BY DEF CountEdge, MatchedPupils
    <3>4. pupil_matched = Met(n) /\ pupil_id = matching_edges[n + 1][1]
      BY <1>1, <1>2, EdgeIsCounted DEF CountedUpTo
    <3>5. QED
      BY <3>2, <3>3, <3>4
  <2>2. ASSUME NEW subject \in Subjects
        PROVE  Unsigned(num_subject_request_fulfilled[subject] + SameSubjects(subject))
                 = Unsigned(SumOver(FulfilledAt(subject), 1 .. (n + 1)))
    <3>1. PICK f : f = FulfilledAt(subject)
      OBVIOUS
    <3>2. \A i \in DOMAIN matching_edges : f[i] \in Int
      BY <1>2, <3>1, CountTypes
    <3>3. /\ SumOver(f, 1 .. n) \in Int
          /\ SumOver(f, 1 .. (n + 1)) = SumOver(f, 1 .. n) + f[n + 1]
      BY <1>2, <3>2, OneEdgeMore
    <3>4. num_subject_request_fulfilled[subject] = Unsigned(SumOver(f, 1 .. n))
      BY <1>2, <3>1 DEF CountedUpTo
    <3>5. SameSubjects(subject) = f[n + 1] /\ f[n + 1] \in Int
      BY <1>1, <1>2, <1>3, <3>1, <3>2, EdgeIsCounted
    <3>6. QED
      BY <3>1, <3>3, <3>4, <3>5, UnsignedSum
  <2>3. num_subject_request_fulfilled' =
          [subject \in Subjects |-> Unsigned(SumOver(FulfilledAt(subject), 1 .. (n + 1)))]
    BY <2>2 DEF CountEdge
  <2>4. num_cov_subjects' = Unsigned(SumOver(CoveredAt, 1 .. (n + 1)))
    <3>1. PICK f : f = CoveredAt
      OBVIOUS
    <3>2. \A i \in DOMAIN matching_edges : f[i] \in Int
      BY <1>2, <3>1, CountTypes
    <3>3. /\ SumOver(f, 1 .. n) \in Int
          /\ SumOver(f, 1 .. (n + 1)) = SumOver(f, 1 .. n) + f[n + 1]
      BY <1>2, <3>2, OneEdgeMore
    <3>4. num_cov_subjects = Unsigned(SumOver(f, 1 .. n))
      BY <1>2, <3>1 DEF CountedUpTo
    <3>5. get_same_subject_number = f[n + 1] /\ f[n + 1] \in Int
      BY <1>1, <1>2, <1>3, <3>1, <3>2, EdgeIsCounted
    <3>6. num_cov_subjects' = Unsigned(num_cov_subjects + get_same_subject_number)
      BY DEF CountEdge
    <3>7. QED
      BY <3>1, <3>3, <3>4, <3>5, <3>6, UnsignedSum
  <2>5. QED
    BY <1>2, <2>1, <2>3, <2>4, SameInput DEF CountedUpTo
<1>5. num_uncov_sub' = Unsigned(SumOver(UncoveredAt, 1 .. (n + 1)))
  <2>1. PICK f : f = UncoveredAt
    OBVIOUS
  <2>2. \A i \in DOMAIN matching_edges : f[i] \in Int
    BY <1>2, <2>1, CountTypes
  <2>3. /\ SumOver(f, 1 .. n) \in Int
        /\ SumOver(f, 1 .. (n + 1)) = SumOver(f, 1 .. n) + f[n + 1]
    BY <1>2, <2>2, OneEdgeMore
  <2>4. PICK r, c : r = Len(requested_subjects[pupil_id]) /\ c = get_same_subject_number
    OBVIOUS
  <2>5. r \in Int /\ c \in Int /\ f[n + 1] = r - c
    BY <1>1, <1>2, <1>3, <2>1, <2>4, EdgeIsCounted, CountTypes
  <2>6. PICK u : u = num_uncov_sub
    OBVIOUS
  <2>7. u = Unsigned(SumOver(f, 1 .. n)) /\ u \in Int
    <3>1. u = Unsigned(SumOver(f, 1 .. n))
      BY <1>2, <2>1, <2>6
    <3>2. u \in Counts
      BY <2>3, <3>1, UnsignedPart
    <3>3. QED
      BY <3>1, <3>2, UintAssumption DEF Counts
  <2>8. num_uncov_sub' = Unsigned(u + r - c)
    BY <2>4, <2>6 DEF CountEdge
  <2>9. u + r - c = u + f[n + 1] /\ f[n + 1] \in Int
    BY <2>5, <2>7
  <2>10. QED
    BY <2>1, <2>3, <2>7, <2>8, <2>9, UnsignedSum
<1>6. TablesOK'
  BY <1>2 DEF TablesOK, CountEdge, input, offers, OccurrencesIn
<1>7. QED
  BY <1>2, <1>4, <1>5, <1>6, SameInput DEF CountersOK

\* The pupils are finitely many.
LEMMA NodesAreFinite ==
  IsFiniteSet(PupilIds) /\ IsFiniteSet(StudentIds)
BY SizeAssumption, FS_Interval DEF PupilIds, StudentIds

\* All subjects of the pupils that no edge has met are uncovered.
LEMMA CountUnmatchedKeeps ==
  ASSUME CountingInvariant, CountUnmatched
  PROVE  CountersOK'
<1>1. /\ InputOK /\ UNCHANGED input /\ pc = "count" /\ pc' = "done"
      /\ position = Len(matching_edges)
      /\ CountedUpTo(Len(matching_edges)) /\ TablesOK
      /\ num_uncov_sub = Unsigned(SumOver(UncoveredAt, 1 .. Len(matching_edges)))
  <2>1. InputOK /\ PhaseOK /\ CountersOK
    BY DEF CountingInvariant
  <2>2. UNCHANGED input /\ pc = "count" /\ pc' = "done" /\ ~(position < Len(matching_edges))
    BY DEF CountUnmatched, AtEdge
  <2>3. position \in 0 .. Len(matching_edges) /\ Len(matching_edges) \in Nat
    BY <2>1, EndsOfEdges DEF PhaseOK
  <2>4. position = Len(matching_edges)
    BY <2>2, <2>3
  <2>5. QED
    BY <2>1, <2>2, <2>4 DEF CountersOK
<1>2. PICK D : D = PupilIds \ Met(Len(matching_edges))
  OBVIOUS
<1>3. PICK g : g = [p \in D |-> Len(requested_subjects[p])]
  OBVIOUS
<1>4. D = PupilIds \ pupil_matched /\ D \subseteq PupilIds /\ IsFiniteSet(D)
  BY <1>1, <1>2, NodesAreFinite, FS_Subset DEF CountedUpTo
<1>5. num_uncov_sub' = Unsigned(num_uncov_sub + SumFunction(g))
  BY <1>3, <1>4 DEF CountUnmatched
<1>6. \A p \in D : g[p] \in Int /\ g[p] = RequestedBy[p]
  <2>1. \A p \in D : g[p] = RequestedBy[p] /\ RequestedBy[p] \in Nat
    BY <1>1, <1>3, <1>4, CountTypes DEF RequestedBy
  <2>2. QED
    BY <2>1
<1>7. SumFunction(g) = SumOver(RequestedBy, D) /\ SumOver(g, D) \in Int
  <2>1. DOMAIN g = D
    BY <1>3
  <2>2. SumFunction(g) = SumOver(g, D)
    BY <2>1, SumOfFunction
  <2>3. SumOver(g, D) = SumOver(RequestedBy, D) /\ SumOver(g, D) \in Int
    BY <1>4, <1>6, SumSame, SumRemove
  <2>4. QED
    BY <2>2, <2>3
<1>8. PICK S : S = 1 .. Len(matching_edges)
  OBVIOUS
<1>9. SumOver(UncoveredAt, S) \in Int
  <2>1. IsFiniteSet(S) /\ S = DOMAIN matching_edges
    BY <1>1, <1>8, EndsOfEdges, FS_Interval
  <2>2. \A i \in S : UncoveredAt[i] \in Int
    BY <1>1, <2>1, CountTypes
  <2>3. QED
    BY <2>1, <2>2, SumRemove
<1>10. PICK a, b : a = SumOver(UncoveredAt, S) /\ b = SumOver(RequestedBy, D)
  OBVIOUS
<1>11. a \in Int /\ b \in Int /\ AllUncovered = a + b
  <2>1. b \in Int
    BY <1>4, <1>6, <1>7, <1>10, SumSame
  <2>2. QED
    BY <1>2, <1>8, <1>9, <1>10, <2>1 DEF AllUncovered
<1>12. num_uncov_sub' = Unsigned(a + b)
  <2>1. num_uncov_sub' = Unsigned(Unsigned(a) + b)
    BY <1>1, <1>5, <1>7, <1>8, <1>10
  <2>2. QED
    BY <1>11, <2>1, UnsignedSum
<1>13. num_uncov_sub' = Unsigned(AllUncovered)'
  <2>1. AllUncovered' = AllUncovered
    BY <1>1, SameInput
  <2>2. QED
    BY <1>11, <1>12, <2>1 DEF Unsigned
<1>14. CountedUpTo(Len(matching_edges))'
  <2>1. UNCHANGED <<num_subject_request_fulfilled, num_cov_subjects, pupil_matched>>
    BY DEF CountUnmatched
  <2>2. QED
    BY <1>1, <2>1, SameInput DEF CountedUpTo, Unsigned
<1>15. TablesOK'
  BY <1>1 DEF TablesOK, CountUnmatched, input, offers, OccurrencesIn
<1>16. QED
  BY <1>1, <1>13, <1>14, <1>15 DEF CountersOK

\* Before the counting begins there is nothing to count.
LEMMA VerifyKeepsCounters ==
  ASSUME CountingInvariant, VerifyEdge \/ EndVerification
  PROVE  CountersOK'
<1>1. /\ UNCHANGED input /\ UNCHANGED offers /\ UNCHANGED counters /\ pc = "verify"
      /\ pc' = "verify" \/ (pc' = "collect" /\ position' = 0)
  BY DEF VerifyEdge, EndVerification
<1>2. CountedUpTo(0) /\ num_uncov_sub = 0
  BY <1>1 DEF CountingInvariant, CountersOK
<1>3. CountedUpTo(0)' /\ num_uncov_sub' = 0
  BY <1>1, <1>2, SameInput DEF CountedUpTo, counters, Unsigned
<1>4. QED
  BY <1>1, <1>3 DEF CountingInvariant, CountersOK, offers

LEMMA CollectKeepsCounters ==
  ASSUME CountingInvariant, CollectRequestsAndOffers
  PROVE  CountersOK'
<1>1. /\ UNCHANGED input /\ UNCHANGED counters /\ pc = "collect" /\ pc' = "count"
      /\ position' = position
  BY DEF CollectRequestsAndOffers
<1>2. CountedUpTo(0) /\ num_uncov_sub = 0 /\ position = 0
  BY <1>1 DEF CountingInvariant, CountersOK
<1>3. CountedUpTo(0)' /\ num_uncov_sub' = 0
  BY <1>1, <1>2, SameInput DEF CountedUpTo, counters, Unsigned
<1>4. TablesOK'
  BY <1>1 DEF TablesOK, CollectRequestsAndOffers, input, OccurrencesIn, Unsigned
<1>5. num_uncov_sub' = Unsigned(SumOver(UncoveredAt, 1 .. position))'
  <2>1. 1 .. position' = {} /\ SumOver(UncoveredAt', {}) = 0
    BY <1>1, <1>2, SumEmpty
  <2>2. Unsigned(0) = 0
    BY UintAssumption, UnsignedFits DEF Counts
  <2>3. QED
    BY <1>3, <2>1, <2>2 DEF Unsigned
<1>6. QED
  BY <1>1, <1>2, <1>3, <1>4, <1>5 DEF CountersOK

\* No loop runs past the matching, and only nodes are marked.
LEMMA StepKeepsPhase ==
  ASSUME CountingInvariant, [Next]_vars
  PROVE  InputOK' /\ PhaseOK'
<1>1. UNCHANGED input
  BY DEF Next, vars, VerifyEdge, EndVerification, CollectRequestsAndOffers, CountEdge,
         CountUnmatched, input
<1>2. InputOK /\ PhaseOK /\ InputOK'
  BY <1>1, SameInput DEF CountingInvariant
<1>3. PICK n \in Nat : n = position /\ n <= Len(matching_edges)
  BY <1>2, EndsOfEdges DEF PhaseOK
<1>4. Len(matching_edges) \in Nat /\ matching_edges' = matching_edges
  BY <1>1, <1>2, EndsOfEdges, SameInput
<1>5. AtEdge => /\ n + 1 \in 0 .. Len(matching_edges)
                /\ pupil_id \in PupilIds /\ college_student_id \in StudentIds
  <2>1. SUFFICES ASSUME AtEdge
                 PROVE  /\ n + 1 \in 0 .. Len(matching_edges)
                        /\ pupil_id \in PupilIds /\ college_student_id \in StudentIds
    OBVIOUS
  <2>2. n < Len(matching_edges)
    BY <1>3, <2>1 DEF AtEdge
  <2>3. n + 1 \in 1 .. Len(matching_edges)
    BY <1>3, <1>4, <2>2
  <2>4. QED
    BY <1>2, <1>3, <1>4, <2>3, EndsOfEdges DEF pupil_id, college_student_id
<1>6. CASE VerifyEdge
  <2>1. AtEdge /\ position' \in {n + 1, 0} /\ pc' \in {"verify", "collect"}
    BY <1>3, <1>6 DEF VerifyEdge
  <2>2. /\ pupil_covered' \in {pupil_covered, pupil_covered \cup {pupil_id}}
        /\ student_covered' \in {student_covered, student_covered \cup {college_student_id}}
        /\ error' \in {"none", "covered_twice", "should_not_exist"}
    BY <1>6 DEF VerifyEdge
  <2>3. position' \in 0 .. Len(matching_edges)
    BY <1>4, <1>5, <2>1
  <2>4. QED
    BY <1>2, <1>4, <1>5, <2>1, <2>2, <2>3 DEF PhaseOK
<1>7. CASE EndVerification
  BY <1>2, <1>4, <1>7 DEF PhaseOK, EndVerification, verification
<1>8. CASE CollectRequestsAndOffers
  BY <1>2, <1>4, <1>8 DEF PhaseOK, CollectRequestsAndOffers, verification
<1>9. CASE CountEdge
  <2>1. AtEdge /\ position' = n + 1 /\ pc' = "count" /\ UNCHANGED verification
    BY <1>3, <1>9 DEF CountEdge
  <2>2. QED
    BY <1>2, <1>4, <1>5, <2>1 DEF PhaseOK, verification
<1>10. CASE CountUnmatched
  BY <1>2, <1>4, <1>10 DEF PhaseOK, CountUnmatched, verification
<1>11. CASE UNCHANGED vars
  BY <1>2, <1>4, <1>11 DEF PhaseOK, vars, verification
<1>12. QED
  BY <1>6, <1>7, <1>8, <1>9, <1>10, <1>11 DEF Next

LEMMA StepKeepsCounting ==
  ASSUME CountingInvariant, [Next]_vars
  PROVE  CountingInvariant'
<1>1. InputOK' /\ PhaseOK'
  BY StepKeepsPhase
<1>2. CASE UNCHANGED vars
  <2>1. CountersOK /\ UNCHANGED input
    BY <1>2 DEF CountingInvariant, vars
  <2>2. CountersOK'
    BY <1>2, <2>1, SameInput
    DEF CountersOK, CountedUpTo, TablesOK, OccurrencesIn, Unsigned, vars, input, offers,
        counters
  <2>3. QED
    BY <1>1, <2>2 DEF CountingInvariant
<1>3. CASE Next
  <2>1. CountersOK'
    BY <1>3, VerifyKeepsCounters, CollectKeepsCounters, CountEdgeKeeps,
       CountUnmatchedKeeps DEF Next
  <2>2. QED
    BY <1>1, <2>1 DEF CountingInvariant
<1>4. QED
  BY <1>2, <1>3

LEMMA CountingBegins ==
  ASSUME Init
  PROVE  CountingInvariant
<1>1. InputOK
  BY DEF Init, InputOK
<1>2. PhaseOK
  BY <1>1, EndsOfEdges DEF Init, PhaseOK
<1>3. Met(0) = {} /\ 1 .. 0 = {}
  BY DEF Met
<1>4. Unsigned(0) = 0
  BY UintAssumption, UnsignedFits DEF Counts
<1>5. CountedUpTo(0)
  BY <1>3, <1>4, SumEmpty DEF CountedUpTo, Init
<1>6. QED
  BY <1>1, <1>2, <1>5 DEF CountingInvariant, CountersOK, Init

\* What dump_stats counts is, at every point of its loops, the sum over the edges
\* it has gone over, modulo 2^w.
THEOREM CountersAreSums == Spec => []CountingInvariant
<1>1. Init => CountingInvariant
  BY CountingBegins
<1>2. CountingInvariant /\ [Next]_vars => CountingInvariant'
  BY StepKeepsCounting
<1>3. QED
  BY <1>1, <1>2, PTL DEF Spec

-----------------------------------------------------------------------------
(* What follows from it. *)

\* The sums are integers, so that Unsigned of them is an unsigned.
LEMMA PartialSums ==
  ASSUME InputOK, NEW n \in 0 .. Len(matching_edges)
  PROVE  /\ IsFiniteSet(1 .. n)
         /\ \A subject \in Subjects : SumOver(FulfilledAt(subject), 1 .. n) \in Int
         /\ SumOver(CoveredAt, 1 .. n) \in Int
         /\ SumOver(UncoveredAt, 1 .. n) \in Int
<1>1. PICK S : S = 1 .. n
  OBVIOUS
<1>2. IsFiniteSet(S) /\ \A i \in S : i \in DOMAIN matching_edges
  <2>1. n \in Nat /\ Len(matching_edges) \in Nat /\ n <= Len(matching_edges)
    BY EndsOfEdges
  <2>2. QED
    BY <1>1, <2>1, EndsOfEdges, FS_Interval
<1>3. ASSUME NEW subject \in Subjects PROVE SumOver(FulfilledAt(subject), S) \in Int
  <2>1. PICK f : f = FulfilledAt(subject)
    OBVIOUS
  <2>2. \A i \in S : f[i] \in Int
    BY <1>2, <2>1, CountTypes
  <2>3. QED
    BY <1>2, <2>1, <2>2, SumRemove
<1>4. SumOver(CoveredAt, S) \in Int
  <2>1. \A i \in S : CoveredAt[i] \in Int
    BY <1>2, CountTypes
  <2>2. QED
    BY <1>2, <2>1, SumRemove
<1>5. SumOver(UncoveredAt, S) \in Int
  <2>1. \A i \in S : UncoveredAt[i] \in Int
    BY <1>2, CountTypes
  <2>2. QED
    BY <1>2, <2>1, SumRemove
<1>6. QED
  BY <1>1, <1>2, <1>3, <1>4, <1>5

LEMMA SumOfRequests ==
  ASSUME InputOK, NEW P \in SUBSET PupilIds
  PROVE  IsFiniteSet(P) /\ SumOver(RequestedBy, P) \in Int
<1>1. IsFiniteSet(P)
  BY NodesAreFinite, FS_Subset
<1>2. \A p \in P : RequestedBy[p] \in Int
  <2>1. \A p \in P : RequestedBy[p] \in Nat
    BY CountTypes
  <2>2. QED
    BY <2>1
<1>3. QED
  BY <1>1, <1>2, SumRemove

LEMMA AllUncoveredIsInt ==
  ASSUME InputOK
  PROVE  AllUncovered \in Int
<1>1. Len(matching_edges) \in 0 .. Len(matching_edges)
  BY EndsOfEdges
<1>2. PICK P : P = PupilIds \ Met(Len(matching_edges)) /\ P \in SUBSET PupilIds
  OBVIOUS
<1>3. PICK a, b : /\ a = SumOver(UncoveredAt, 1 .. Len(matching_edges))
                  /\ b = SumOver(RequestedBy, P)
  OBVIOUS
<1>4. a \in Int /\ b \in Int
  BY <1>1, <1>2, <1>3, PartialSums, SumOfRequests
<1>5. QED
  BY <1>2, <1>3, <1>4 DEF AllUncovered

\* How often a subject is in the lists of all nodes.
LEMMA OccurrencesInLists ==
  ASSUME NEW N, IsFiniteSet(N), NEW L \in SUBSET (Requests \cup Offers),
         NEW lists \in [N -> L], NEW subject,
         NEW f, f = [id \in N |-> Occurrences(subject, lists[id])]
  PROVE  /\ \A id \in N : f[id] \in Nat /\ f[id] <= Len(lists[id]) /\ Len(lists[id]) \in Nat
         /\ SumOver(f, N) \in Int
         /\ OccurrencesIn(subject, lists) = Unsigned(SumOver(f, N))
<1>1. ASSUME NEW id \in N
      PROVE  f[id] \in Nat /\ f[id] <= Len(lists[id]) /\ Len(lists[id]) \in Nat
  <2>1. lists[id] \in Requests \cup Offers
    OBVIOUS
  <2>2. Occurrences(subject, lists[id]) \in 0 .. Len(lists[id]) /\ Len(lists[id]) \in Nat
    BY <2>1, ListOfSubjects
  <2>3. QED
    BY <2>2
<1>2. SumOver(f, N) \in Int
  <2>1. \A id \in N : f[id] \in Int
    BY <1>1
  <2>2. QED
    BY <2>1, SumRemove
<1>3. SumFunction(f) = SumOver(f, N)
  BY SumOfFunction
<1>4. QED
  BY <1>1, <1>2, <1>3 DEF OccurrencesIn

\* Every counter holds an unsigned, and every set and list what it should.
THEOREM StatisticsTypeCorrect == Spec => []TypeOK
<1>1. CountingInvariant => TypeOK
  <2>1. SUFFICES ASSUME CountingInvariant PROVE TypeOK
    OBVIOUS
  <2>2. InputOK /\ PhaseOK /\ CountersOK
    BY <2>1 DEF CountingInvariant
  <2>3. 0 \in 0 .. Len(matching_edges) /\ Len(matching_edges) \in 0 .. Len(matching_edges)
    BY <2>2, EndsOfEdges
  <2>4. ASSUME NEW n \in 0 .. Len(matching_edges), CountedUpTo(n)
        PROVE  /\ num_subject_request_fulfilled \in [Subjects -> Counts]
               /\ num_cov_subjects \in Counts /\ pupil_matched \subseteq PupilIds
    <3>1. \A subject \in Subjects : Unsigned(SumOver(FulfilledAt(subject), 1 .. n)) \in Counts
      BY <2>2, PartialSums, UnsignedPart
    <3>2. Unsigned(SumOver(CoveredAt, 1 .. n)) \in Counts
      BY <2>2, PartialSums, UnsignedPart
    <3>3. Met(n) \subseteq PupilIds
      <4>1. n \in Nat /\ n <= Len(matching_edges) /\ Len(matching_edges) \in Nat
        BY <2>2, EndsOfEdges
      <4>2. \A i \in 1 .. n : i \in DOMAIN matching_edges
        BY <2>2, <4>1, EndsOfEdges
      <4>3. QED
        BY <2>2, <4>2, EndsOfEdges DEF Met
    <3>4. QED
      BY <2>4, <3>1, <3>2, <3>3 DEF CountedUpTo
  <2>5. 0 \in Counts
    BY UintAssumption DEF Counts
  <2>6. TablesOK => /\ num_subject_offered \in [Subjects -> Counts]
                    /\ num_subject_requested \in [Subjects -> Counts]
    <3>1. ASSUME NEW subject \in Subjects
          PROVE  /\ OccurrencesIn(subject, offered_subjects) \in Counts
                 /\ OccurrencesIn(subject, requested_subjects) \in Counts
      <4>1. OccurrencesIn(subject, offered_subjects) \in Counts
        <5>1. PICK f : f = [id \in StudentIds |-> Occurrences(subject, offered_subjects[id])]
          OBVIOUS
        <5>2. offered_subjects \in [StudentIds -> Offers] /\ Offers \in SUBSET (Requests \cup Offers)
          BY <2>2 DEF InputOK
        <5>3. /\ SumOver(f, StudentIds) \in Int
              /\ OccurrencesIn(subject, offered_subjects) = Unsigned(SumOver(f, StudentIds))
          BY <5>1, <5>2, NodesAreFinite, OccurrencesInLists
        <5>4. QED
          BY <5>3, UnsignedPart
      <4>2. OccurrencesIn(subject, requested_subjects) \in Counts
        <5>1. PICK f : f = [id \in PupilIds |-> Occurrences(subject, requested_subjects[id])]
          OBVIOUS
        <5>2. requested_subjects \in [PupilIds -> Requests] /\ Requests \in SUBSET (Requests \cup Offers)
          BY <2>2 DEF InputOK
        <5>3. /\ SumOver(f, PupilIds) \in Int
              /\ OccurrencesIn(subject, requested_subjects) = Unsigned(SumOver(f, PupilIds))
          BY <5>1, <5>2, NodesAreFinite, OccurrencesInLists
        <5>4. QED
          BY <5>3, UnsignedPart
      <4>3. QED
        BY <4>1, <4>2
    <3>2. QED
      BY <3>1 DEF TablesOK
  <2>7. CASE pc \in {"verify", "collect"}
    BY <2>2, <2>3, <2>4, <2>5, <2>7 DEF InputOK, PhaseOK, CountersOK, TypeOK
  <2>8. CASE pc = "count"
    <3>1. CountedUpTo(position) /\ TablesOK /\ position \in 0 .. Len(matching_edges)
      BY <2>2, <2>8 DEF CountersOK, PhaseOK
    <3>2. num_uncov_sub \in Counts
      BY <2>2, <2>8, <3>1, PartialSums, UnsignedPart DEF CountersOK
    <3>3. QED
      BY <2>2, <2>4, <2>6, <3>1, <3>2 DEF InputOK, PhaseOK, TypeOK
  <2>9. CASE pc = "done"
    <3>1. CountedUpTo(Len(matching_edges)) /\ TablesOK
      BY <2>2, <2>9 DEF CountersOK
    <3>2. num_uncov_sub \in Counts
      BY <2>2, <2>9, AllUncoveredIsInt, UnsignedPart DEF CountersOK
    <3>3. QED
      BY <2>2, <2>3, <2>4, <2>6, <3>1, <3>2 DEF InputOK, PhaseOK, TypeOK
  <2>10. QED
    BY <2>2, <2>7, <2>8, <2>9 DEF PhaseOK
<1>2. QED
  BY <1>1, CountersAreSums, PTL

-----------------------------------------------------------------------------
(* The three totals. *)

\* b maps the edges to their pupils (k = 1) or their students (k = 2), who are U, and
\* g is at an edge what f is at its node.
AlongMatching(k, b, U, g, f) ==
  /\ b = [i \in DOMAIN matching_edges |-> matching_edges[i][k]]
  /\ U = {matching_edges[i][k] : i \in DOMAIN matching_edges}
  /\ \A z \in U : f[z] \in Int
  /\ \A i \in DOMAIN matching_edges : g[i] = f[b[i]]

\* No pupil or student is twice in a valid matching.
LEMMA ValidMatching ==
  ASSUME InputOK, IsValid(matching_edges), NEW k \in {1, 2},
         NEW b, NEW U, NEW g, NEW f, AlongMatching(k, b, U, g, f)
  PROVE  IsFiniteSet(U) /\ SumOver(g, DOMAIN matching_edges) = SumOver(f, U)
<1>1. PICK D : D = DOMAIN matching_edges /\ IsFiniteSet(D)
  <2>1. DOMAIN matching_edges = 1 .. Len(matching_edges) /\ Len(matching_edges) \in Int
    BY EndsOfEdges
  <2>2. IsFiniteSet(1 .. Len(matching_edges))
    BY <2>1, FS_Interval
  <2>3. QED
    BY <2>1, <2>2
<1> USE DEF AlongMatching
<1>2. IsFiniteSet(D)
  BY <1>1
<1>3. \A i, j \in D : b[i] = b[j] => i = j
  <2>1. SUFFICES ASSUME NEW i \in D, NEW j \in D, i # j PROVE b[i] # b[j]
    OBVIOUS
  <2>2. matching_edges[i][1] # matching_edges[j][1] /\ matching_edges[i][2] # matching_edges[j][2]
    BY <1>1, <2>1 DEF IsValid
  <2>3. matching_edges[i][k] # matching_edges[j][k]
    BY <2>2
  <2>4. QED
    BY <1>1, <2>3
<1>4. /\ \A i \in D : b[i] \in U
      /\ \A z \in U : \E i \in D : b[i] = z
  BY <1>1
<1>5. \A i \in D : f[b[i]] \in Int /\ g[i] = f[b[i]]
  BY <1>1, <1>4
<1>6. Reindexes(b, D, U, g, f)
  BY <1>3, <1>4, <1>5 DEF Reindexes
<1>7. QED
  BY <1>1, <1>2, <1>6, SumReindexed

\* Covered and uncovered subjects are together those requested.
LEMMA CoveredAndUncovered ==
  ASSUME InputOK, IsValid(matching_edges)
  PROVE  /\ SumOver(CoveredAt, 1 .. Len(matching_edges)) \in Int
         /\ SumOver(CoveredAt, 1 .. Len(matching_edges)) + AllUncovered = TotalRequested
<1>1. PICK D : D = DOMAIN matching_edges /\ D = 1 .. Len(matching_edges)
  BY EndsOfEdges
<1>2. IsFiniteSet(D)
  BY <1>1, EndsOfEdges, FS_Interval
<1>3. PICK g : g = [i \in D |-> RequestedBy[matching_edges[i][1]]]
  OBVIOUS
<1>4. ASSUME NEW i \in D
      PROVE  /\ CoveredAt[i] \in Int /\ UncoveredAt[i] \in Int
             /\ g[i] = 1 * CoveredAt[i] + 1 * UncoveredAt[i]
  <2>1. PICK c, u, r : c = CoveredAt[i] /\ u = UncoveredAt[i] /\ r = g[i]
    OBVIOUS
  <2>2. c \in Int /\ u \in Int /\ u = r - c /\ r \in Nat
    BY <1>1, <1>3, <2>1, CountTypes, EndsOfEdges
  <2>3. r = 1 * c + 1 * u
    BY <2>2
  <2>4. QED
    BY <2>1, <2>2, <2>3
<1>5. PICK c, u : c = SumOver(CoveredAt, D) /\ u = SumOver(UncoveredAt, D)
  OBVIOUS
<1>6. c \in Int /\ u \in Int /\ SumOver(g, D) = c + u
  <2>1. \A i \in D : CoveredAt[i] \in Int
    BY <1>4
  <2>2. \A i \in D : UncoveredAt[i] \in Int
    BY <1>4
  <2>3. c \in Int /\ u \in Int
    BY <1>2, <1>5, <2>1, <2>2, SumRemove
  <2>4. Combines(g, 1, CoveredAt, 1, UncoveredAt, D)
    BY <1>4 DEF Combines
  <2>5. SumOver(g, D) = 1 * c + 1 * u
    BY <1>2, <1>5, <2>4, SumLinear
  <2>6. QED
    BY <2>3, <2>5
<1>7. PICK P : P = Met(Len(matching_edges))
  OBVIOUS
<1>8. P = {matching_edges[i][1] : i \in DOMAIN matching_edges} /\ P \in SUBSET PupilIds
  BY <1>1, <1>7, EndsOfEdges DEF Met
<1>9. SumOver(g, D) = SumOver(RequestedBy, P)
  <2>1. PICK b : b = [i \in DOMAIN matching_edges |-> matching_edges[i][1]]
    OBVIOUS
  <2>2. \A i \in DOMAIN matching_edges : g[i] = RequestedBy[b[i]]
    BY <1>1, <1>3, <2>1
  <2>3. \A p \in P : RequestedBy[p] \in Int
    <3>1. \A p \in P : RequestedBy[p] \in Nat
      BY <1>8, CountTypes
    <3>2. QED
      BY <3>1
  <2>4. AlongMatching(1, b, P, g, RequestedBy)
    BY <1>1, <1>8, <2>1, <2>2, <2>3 DEF AlongMatching
  <2>5. QED
    BY <1>1, <2>4, ValidMatching
<1>10. PICK Q : Q = PupilIds \ P
  OBVIOUS
<1>11. /\ IsFiniteSet(P) /\ IsFiniteSet(Q) /\ P \cap Q = {} /\ P \cup Q = PupilIds
       /\ SumOver(RequestedBy, P) \in Int /\ SumOver(RequestedBy, Q) \in Int
  BY <1>8, <1>10, SumOfRequests
<1>12. SumOver(RequestedBy, PupilIds) = SumOver(RequestedBy, P) + SumOver(RequestedBy, Q)
  <2>1. \A p \in P \cup Q : RequestedBy[p] \in Int
    <3>1. \A p \in P \cup Q : RequestedBy[p] \in Nat
      BY <1>11, CountTypes
    <3>2. QED
      BY <3>1
  <2>2. SumOver(RequestedBy, P \cup Q) = SumOver(RequestedBy, P) + SumOver(RequestedBy, Q)
    BY <1>11, <2>1, SumUnion
  <2>3. QED
    BY <1>11, <2>2, Zenon
<1>13. TotalRequested = SumOver(RequestedBy, PupilIds)
  BY SumOfFunction DEF TotalRequested, RequestedBy
<1>14. AllUncovered = u + SumOver(RequestedBy, Q)
  BY <1>1, <1>5, <1>7, <1>10 DEF AllUncovered
<1>15. QED
  BY <1>1, <1>5, <1>6, <1>9, <1>11, <1>12, <1>13, <1>14

\* What holds of a matching that test_matching_valid has found no error in.
LEMMA DoneWithoutError ==
  ASSUME CountingInvariant, ErrorIffInvalid, pc = "done", error = "none"
  PROVE  /\ InputOK /\ IsValid(matching_edges)
         /\ CountedUpTo(Len(matching_edges)) /\ TablesOK
         /\ num_uncov_sub = Unsigned(AllUncovered)
BY DEF CountingInvariant, CountersOK, ErrorIffInvalid

\* Every requested subject is reported as covered or as uncovered, once, although
\* num_uncov_sub wraps around when a student offers a subject twice.
THEOREM CoveredAndUncoveredAddUp == Spec => []SubjectsAddUp
<1>1. CountingInvariant /\ ErrorIffInvalid => SubjectsAddUp
  <2>1. SUFFICES ASSUME CountingInvariant, ErrorIffInvalid, pc = "done", error = "none"
                 PROVE  Unsigned(num_cov_subjects + num_uncov_sub) = Unsigned(TotalRequested)
    BY DEF SubjectsAddUp
  <2>2. PICK c, u : c = SumOver(CoveredAt, 1 .. Len(matching_edges)) /\ u = AllUncovered
    OBVIOUS
  <2>3. c \in Int /\ u \in Int /\ c + u = TotalRequested
    BY <2>1, <2>2, DoneWithoutError, CoveredAndUncovered, AllUncoveredIsInt
  <2>4. num_cov_subjects = Unsigned(c) /\ num_uncov_sub = Unsigned(u)
    BY <2>1, <2>2, DoneWithoutError DEF CountedUpTo
  <2>5. PICK m : m = Unsigned(u)
    OBVIOUS
  <2>6. m \in Int
    BY <2>3, <2>5, UnsignedPart, UintAssumption DEF Counts
  <2>7. Unsigned(Unsigned(c) + m) = Unsigned(c + m)
    BY <2>3, <2>6, UnsignedSum
  <2>8. Unsigned(Unsigned(u) + c) = Unsigned(u + c)
    BY <2>3, UnsignedSum
  <2>9. c + m = m + c /\ u + c = c + u
    BY <2>3, <2>6
  <2>10. QED
    BY <2>3, <2>4, <2>5, <2>7, <2>8, <2>9
<1>2. QED
  BY <1>1, CountersAreSums, VerdictIsRight, PTL

\* A list that names nothing twice is as good as the set of what it names.
LEMMA ListAsSet ==
  ASSUME NEW list \in Requests \cup Offers, NamesNothingTwice(list)
  PROVE  /\ NamesAll(list) \subseteq Subjects /\ IsFiniteSet(NamesAll(list))
         /\ Cardinality(NamesAll(list)) = Len(list)
         /\ \A subject : Occurrences(subject, list) = IF subject \in NamesAll(list) THEN 1 ELSE 0
<1>1. /\ Len(list) \in Nat /\ DOMAIN list = 1 .. Len(list)
      /\ \A i \in DOMAIN list : list[i] \in Subjects
  BY ListOfSubjects
<1>2. PICK D, A : D = DOMAIN list /\ A = NamesAll(list)
  OBVIOUS
<1>3. A \subseteq Subjects /\ \A i \in D : list[i] \in A
  BY <1>1, <1>2 DEF NamesAll
<1>4. IsFiniteSet(A)
  BY <1>3, SubjectAssumption, FS_Subset
<1>5. IsFiniteSet(D) /\ Cardinality(D) = Len(list)
  <2>1. PICK n \in Nat : n = Len(list)
    BY <1>1
  <2>2. IsFiniteSet(1 .. n) /\ Cardinality(1 .. n) = IF 1 > n THEN 0 ELSE n - 1 + 1
    BY FS_Interval
  <2>3. QED
    BY <1>1, <1>2, <2>1, <2>2
<1>6. Cardinality(A) = Cardinality(D)
  <2>1. PICK f : f = [i \in D |-> list[i]]
    OBVIOUS
  <2>2. f \in [D -> A]
    BY <1>3, <2>1
  <2>3. \A i, j \in D : f[i] = f[j] => i = j
    BY <1>2, <2>1 DEF NamesNothingTwice
  <2>4. \A x \in A : \E i \in D : f[i] = x
    BY <1>2, <2>1 DEF NamesAll
  <2>5. QED
    BY <1>5, <2>2, <2>3, <2>4, PairedOff
<1>7. ASSUME NEW subject
      PROVE  Occurrences(subject, list) = IF subject \in A THEN 1 ELSE 0
  <2>1. PICK S : S = {i \in D : list[i] = subject}
    OBVIOUS
  <2>2. Occurrences(subject, list) = Cardinality(S)
    BY <1>2, <2>1 DEF Occurrences
  <2>3. CASE subject \in A
    <3>1. PICK i \in D : list[i] = subject
      BY <1>2, <2>3 DEF NamesAll
    <3>2. S = {i}
      BY <1>2, <2>1, <3>1 DEF NamesNothingTwice
    <3>3. QED
      BY <2>2, <2>3, <3>2, FS_Singleton
  <2>4. CASE subject \notin A
    <3>1. S = {}
      BY <1>2, <2>1, <2>4 DEF NamesAll
    <3>2. QED
      BY <2>2, <2>4, <3>1, FS_EmptySet
  <2>5. QED
    BY <2>3, <2>4
<1>8. QED
  BY <1>2, <1>3, <1>4, <1>5, <1>6, <1>7

NobodyRepeats ==
  /\ \A p \in PupilIds : NamesNothingTwice(requested_subjects[p])
  /\ \A t \in StudentIds : NamesNothingTwice(offered_subjects[t])

\* What remains uncovered of what a pupil requests.
RemainingOf == [p \in PupilIds |->
  Cardinality(NamesAll(requested_subjects[p]) \ PartnerSubjects(p))]

\* An edge leaves uncovered what is requested and not offered.
LEMMA UncoveredByEdge ==
  ASSUME InputOK, IsValid(matching_edges), NobodyRepeats, NEW i \in DOMAIN matching_edges
  PROVE  UncoveredAt[i] = RemainingOf[matching_edges[i][1]]
<1>1. PICK p, t : p = matching_edges[i][1] /\ t = matching_edges[i][2]
  OBVIOUS
<1>2. p \in PupilIds /\ t \in StudentIds
  BY <1>1, EndsOfEdges
<1>3. requested_subjects[p] \in Requests /\ offered_subjects[t] \in Offers
  BY <1>2 DEF InputOK
<1>4. PICK R, O : R = NamesAll(requested_subjects[p]) /\ O = NamesAll(offered_subjects[t])
  OBVIOUS
<1>5. /\ R \subseteq Subjects /\ IsFiniteSet(R) /\ Cardinality(R) = Len(requested_subjects[p])
      /\ \A subject : Occurrences(subject, requested_subjects[p]) = IF subject \in R THEN 1 ELSE 0
  BY <1>2, <1>3, <1>4, ListAsSet DEF NobodyRepeats
<1>6. \A subject : Occurrences(subject, offered_subjects[t]) = IF subject \in O THEN 1 ELSE 0
  BY <1>2, <1>3, <1>4, ListAsSet DEF NobodyRepeats
<1>7. PartnerSubjects(p) = O
  <2>1. \A j \in DOMAIN matching_edges : matching_edges[j][1] = p => j = i
    BY <1>1 DEF IsValid
  <2>2. {j \in DOMAIN matching_edges : matching_edges[j][1] = p} = {i}
    BY <1>1, <2>1
  <2>3. PartnerSubjects(p) = UNION {NamesAll(offered_subjects[matching_edges[j][2]]) : j \in {i}}
    BY <2>2, Zenon DEF PartnerSubjects
  <2>4. QED
    BY <1>1, <1>4, <2>3
<1>8. CoveredAt[i] = Cardinality(R \cap O)
  <2>1. PICK f : f = [subject \in Subjects |-> FulfilledAt(subject)[i]]
    OBVIOUS
  <2>2. CoveredAt[i] = SumOver(f, Subjects)
    BY <2>1 DEF CoveredAt
  <2>3. \A subject \in Subjects : f[subject] = IF subject \in R \cap O THEN 1 ELSE 0
    BY <1>1, <1>5, <1>6, <2>1 DEF FulfilledAt
  <2>4. PICK A : A = R \cap O
    OBVIOUS
  <2>5. A \in SUBSET Subjects
    BY <1>5, <2>4
  <2>6. \A subject \in Subjects : f[subject] = IF subject \in A THEN 1 ELSE 0
    BY <2>3, <2>4
  <2>7. SumOver(f, Subjects) = Cardinality(A)
    BY <2>5, <2>6, SubjectAssumption, SumOfMembers
  <2>8. QED
    BY <2>2, <2>4, <2>7
<1>9. UncoveredAt[i] = Cardinality(R) - Cardinality(R \cap O)
  BY <1>1, <1>2, <1>5, <1>8, CountTypes DEF RequestedBy
<1>10. Cardinality(R \ O) = Cardinality(R) - Cardinality(R \cap O)
  BY <1>5, FS_Difference
<1>11. RemainingOf[p] = Cardinality(R \ O)
  BY <1>2, <1>4, <1>7, Zenon DEF RemainingOf
<1>12. QED
  BY <1>1, <1>9, <1>10, <1>11

\* Without an edge all that is requested remains.
LEMMA UncoveredWithoutEdge ==
  ASSUME InputOK, NobodyRepeats,
         NEW p \in PupilIds \ {matching_edges[i][1] : i \in DOMAIN matching_edges}
  PROVE  RemainingOf[p] = RequestedBy[p]
<1>1. requested_subjects[p] \in Requests
  BY DEF InputOK
<1>2. Cardinality(NamesAll(requested_subjects[p])) = Len(requested_subjects[p])
  BY <1>1, ListAsSet DEF NobodyRepeats
<1>3. PartnerSubjects(p) = {}
  <2>1. {j \in DOMAIN matching_edges : matching_edges[j][1] = p} = {}
    OBVIOUS
  <2>2. PartnerSubjects(p) = UNION {NamesAll(offered_subjects[matching_edges[j][2]]) : j \in {}}
    BY <2>1, Zenon DEF PartnerSubjects
  <2>3. QED
    BY <2>2
<1>4. NamesAll(requested_subjects[p]) \ {} = NamesAll(requested_subjects[p])
  OBVIOUS
<1>5. RemainingOf[p] = Cardinality(NamesAll(requested_subjects[p]))
  BY <1>3, <1>4, Zenon DEF RemainingOf
<1>6. QED
  BY <1>2, <1>5 DEF RequestedBy

\* So the uncovered subjects are what remains of the requests of all pupils.
LEMMA UncoveredInAll ==
  ASSUME InputOK, IsValid(matching_edges), NobodyRepeats
  PROVE  AllUncovered = SumFunction(RemainingOf)
<1>1. PICK D : D = DOMAIN matching_edges /\ D = 1 .. Len(matching_edges)
  BY EndsOfEdges
<1>2. PICK P : P = Met(Len(matching_edges))
  OBVIOUS
<1>3. P = {matching_edges[i][1] : i \in DOMAIN matching_edges} /\ P \in SUBSET PupilIds
  BY <1>1, <1>2, EndsOfEdges DEF Met
<1>4. PICK Q : Q = PupilIds \ P
  OBVIOUS
<1>5. IsFiniteSet(P) /\ IsFiniteSet(Q) /\ P \cap Q = {} /\ P \cup Q = PupilIds
  BY <1>3, <1>4, NodesAreFinite, FS_Subset
<1>6. ASSUME NEW p \in PupilIds PROVE RemainingOf[p] \in Int
  <2>1. requested_subjects[p] \in Requests /\ NamesNothingTwice(requested_subjects[p])
    BY DEF InputOK, NobodyRepeats
  <2>2. IsFiniteSet(NamesAll(requested_subjects[p]))
    BY <2>1, ListAsSet
  <2>3. Cardinality(NamesAll(requested_subjects[p]) \ PartnerSubjects(p)) \in Nat
    BY <2>2, FS_Difference, FS_CardinalityType
  <2>4. QED
    BY <2>3 DEF RemainingOf
<1>7. SumOver(UncoveredAt, D) = SumOver(RemainingOf, P)
  <2>1. PICK b : b = [i \in DOMAIN matching_edges |-> matching_edges[i][1]]
    OBVIOUS
  <2>2. \A i \in DOMAIN matching_edges : UncoveredAt[i] = RemainingOf[b[i]]
    BY <2>1, UncoveredByEdge
  <2>3. \A p \in P : RemainingOf[p] \in Int
    BY <1>3, <1>6
  <2>4. AlongMatching(1, b, P, UncoveredAt, RemainingOf)
    BY <1>3, <2>1, <2>2, <2>3 DEF AlongMatching
  <2>5. QED
    BY <1>1, <2>4, ValidMatching
<1>8. SumOver(RequestedBy, Q) = SumOver(RemainingOf, Q)
  <2>1. \A p \in Q : RemainingOf[p] = RequestedBy[p] /\ RequestedBy[p] \in Int
    <3>1. ASSUME NEW p \in Q
          PROVE  RemainingOf[p] = RequestedBy[p] /\ RequestedBy[p] \in Int
      BY <1>3, <1>4, <1>6, UncoveredWithoutEdge
    <3>2. QED
      BY <3>1
  <2>2. QED
    BY <1>5, <2>1, SumSame
<1>9. SumOver(RemainingOf, P) + SumOver(RemainingOf, Q) = SumOver(RemainingOf, PupilIds)
  <2>1. \A p \in P \cup Q : RemainingOf[p] \in Int
    BY <1>5, <1>6
  <2>2. SumOver(RemainingOf, P \cup Q) = SumOver(RemainingOf, P) + SumOver(RemainingOf, Q)
    BY <1>5, <2>1, SumUnion
  <2>3. SumOver(RemainingOf, P \cup Q) = SumOver(RemainingOf, PupilIds)
    BY <1>5, Zenon
  <2>4. QED
    BY <2>2, <2>3
<1>10. SumFunction(RemainingOf) = SumOver(RemainingOf, PupilIds)
  BY SumOfFunction DEF RemainingOf
<1>11. AllUncovered = SumOver(UncoveredAt, D) + SumOver(RequestedBy, Q)
  BY <1>1, <1>2, <1>4 DEF AllUncovered
<1>12. QED
  BY <1>7, <1>8, <1>9, <1>10, <1>11

\* If nobody names a subject twice, the uncovered subjects are those requested ones
\* that the pupil's partner does not offer, or all if there is no partner.
THEOREM UncoveredSubjectsAreExact == Spec => []UncoveredIsExact
<1>1. CountingInvariant /\ ErrorIffInvalid => UncoveredIsExact
  <2>1. SUFFICES ASSUME CountingInvariant, ErrorIffInvalid, pc = "done", error = "none",
                        NobodyRepeats
                 PROVE  num_uncov_sub = Unsigned(SumFunction(RemainingOf))
    BY DEF UncoveredIsExact, NobodyRepeats, RemainingOf
  <2>2. QED
    BY <2>1, DoneWithoutError, UncoveredInAll
<1>2. QED
  BY <1>1, CountersAreSums, VerdictIsRight, PTL

\* How many subjects a student offers.
OfferedBy == [t \in StudentIds |-> Len(offered_subjects[t])]

LEMMA OfferedTypes ==
  ASSUME InputOK
  PROVE  /\ \A t \in StudentIds : OfferedBy[t] \in Nat
         /\ TotalOffered = SumOver(OfferedBy, StudentIds)
<1>1. ASSUME NEW t \in StudentIds PROVE OfferedBy[t] \in Nat
  <2>1. offered_subjects[t] \in Offers
    BY DEF InputOK
  <2>2. QED
    BY <2>1, ListOfSubjects DEF OfferedBy
<1>2. QED
  BY <1>1, SumOfFunction DEF TotalOffered, OfferedBy

\* What is counted at the edges of a valid matching, and is at most f of the student,
\* comes to at most f of all students.
LEMMA AtMostOfStudents ==
  ASSUME InputOK, IsValid(matching_edges),
         NEW f, \A t \in StudentIds : f[t] \in Nat,
         NEW g, \A i \in DOMAIN matching_edges :
                  g[i] \in Nat /\ g[i] <= f[matching_edges[i][2]]
  PROVE  /\ SumOver(g, DOMAIN matching_edges) \in Nat
         /\ SumOver(f, StudentIds) \in Nat
         /\ SumOver(g, DOMAIN matching_edges) <= SumOver(f, StudentIds)
<1>1. PICK D : D = DOMAIN matching_edges
  OBVIOUS
<1>2. IsFiniteSet(D) /\ D \in SUBSET D
  BY <1>1, EndsOfEdges, FS_Interval
<1>3. PICK T : T = {matching_edges[i][2] : i \in DOMAIN matching_edges}
  OBVIOUS
<1>4. T \in SUBSET StudentIds
  BY <1>3, EndsOfEdges
<1>5. PICK b : b = [i \in DOMAIN matching_edges |-> matching_edges[i][2]]
  OBVIOUS
<1>6. PICK h : h = [i \in DOMAIN matching_edges |-> f[b[i]]]
  OBVIOUS
<1>7. SumOver(h, D) = SumOver(f, T)
  <2>1. \A t \in T : f[t] \in Int
    BY <1>4
  <2>2. \A i \in DOMAIN matching_edges : h[i] = f[b[i]]
    BY <1>6
  <2>3. AlongMatching(2, b, T, h, f)
    BY <1>3, <1>5, <2>1, <2>2 DEF AlongMatching
  <2>4. QED
    BY <1>1, <2>3, ValidMatching
<1>8. SumOver(g, D) <= SumOver(h, D)
  <2>1. ASSUME NEW i \in D PROVE g[i] \in Int /\ h[i] \in Int /\ g[i] <= h[i]
    <3>1. h[i] = f[matching_edges[i][2]] /\ matching_edges[i][2] \in StudentIds
      BY <1>1, <1>5, <1>6, EndsOfEdges
    <3>2. h[i] \in Nat
      BY <3>1
    <3>3. QED
      BY <1>1, <3>1, <3>2
  <2>2. QED
    BY <1>2, <2>1, SumMonotonic
<1>9. SumOver(f, T) <= SumOver(f, StudentIds) /\ SumOver(f, T) \in Nat
      /\ SumOver(f, StudentIds) \in Nat
  BY <1>4, NodesAreFinite, SumOfPart
<1>10. SumOver(g, D) \in Nat
  <2>1. \A i \in D : g[i] \in Nat
    BY <1>1
  <2>2. QED
    BY <1>2, <2>1, SumOfPart
<1>11. QED
  BY <1>1, <1>7, <1>8, <1>9, <1>10

\* The offers of a subject are not more than all offers, and those fulfilled are not
\* more than those.
LEMMA FulfilledIsOffered ==
  ASSUME InputOK, IsValid(matching_edges), NEW subject \in Subjects,
         NEW o, o = [t \in StudentIds |-> Occurrences(subject, offered_subjects[t])]
  PROVE  /\ SumOver(FulfilledAt(subject), DOMAIN matching_edges) \in Nat
         /\ SumOver(o, StudentIds) \in Nat
         /\ SumOver(FulfilledAt(subject), DOMAIN matching_edges) <= SumOver(o, StudentIds)
         /\ SumOver(o, StudentIds) <= TotalOffered /\ TotalOffered \in Nat
         /\ OccurrencesIn(subject, offered_subjects) = Unsigned(SumOver(o, StudentIds))
<1>1. PICK g : g = FulfilledAt(subject)
  OBVIOUS
<1>2. offered_subjects \in [StudentIds -> Offers] /\ Offers \in SUBSET (Requests \cup Offers)
  BY DEF InputOK
<1>3. /\ \A t \in StudentIds : o[t] \in Nat /\ o[t] <= OfferedBy[t] /\ OfferedBy[t] \in Nat
      /\ OccurrencesIn(subject, offered_subjects) = Unsigned(SumOver(o, StudentIds))
  <2>1. PICK N, L, lists : N = StudentIds /\ L = Offers /\ lists = offered_subjects
    OBVIOUS
  <2>2. IsFiniteSet(N) /\ L \in SUBSET (Requests \cup Offers) /\ lists \in [N -> L]
    BY <1>2, <2>1, NodesAreFinite
  <2>3. o = [t \in N |-> Occurrences(subject, lists[t])]
    BY <2>1
  <2>4. ASSUME NEW t \in N
        PROVE  o[t] \in Nat /\ o[t] <= Len(lists[t]) /\ Len(lists[t]) \in Nat
    <3>1. lists[t] \in Requests \cup Offers
      BY <2>2
    <3>2. Occurrences(subject, lists[t]) \in 0 .. Len(lists[t]) /\ Len(lists[t]) \in Nat
      BY <3>1, ListOfSubjects
    <3>3. QED
      BY <2>3, <3>2
  <2>5. OccurrencesIn(subject, lists) = Unsigned(SumOver(o, N))
    BY <2>2, <2>3, OccurrencesInLists
  <2>6. QED
    BY <2>1, <2>4, <2>5 DEF OfferedBy
<1>4. ASSUME NEW i \in DOMAIN matching_edges
      PROVE  g[i] \in Nat /\ g[i] <= o[matching_edges[i][2]]
  <2>1. g[i] \in Nat /\ matching_edges[i][2] \in StudentIds
    BY <1>1, CountTypes, EndsOfEdges
  <2>2. g[i] \in {0, o[matching_edges[i][2]]}
    BY <1>1, <2>1 DEF FulfilledAt
  <2>3. QED
    BY <1>3, <2>1, <2>2
<1>5. /\ SumOver(g, DOMAIN matching_edges) \in Nat /\ SumOver(o, StudentIds) \in Nat
      /\ SumOver(g, DOMAIN matching_edges) <= SumOver(o, StudentIds)
  BY <1>3, <1>4, AtMostOfStudents
<1>6. SumOver(o, StudentIds) <= SumOver(OfferedBy, StudentIds)
  <2>1. \A t \in StudentIds : o[t] \in Int /\ OfferedBy[t] \in Int /\ o[t] <= OfferedBy[t]
    BY <1>3
  <2>2. QED
    BY <2>1, NodesAreFinite, SumMonotonic
<1>7. TotalOffered = SumOver(OfferedBy, StudentIds) /\ TotalOffered \in Nat
  <2>1. StudentIds \in SUBSET StudentIds
    OBVIOUS
  <2>2. QED
    BY <2>1, NodesAreFinite, OfferedTypes, SumOfPart
<1>8. QED
  BY <1>1, <1>3, <1>5, <1>6, <1>7

\* Subject by subject, a list is as long as it is.
LEMMA ListBySubjects ==
  ASSUME NEW list \in Requests \cup Offers,
         NEW o, o = [subject \in Subjects |-> Occurrences(subject, list)]
  PROVE  SumOver(o, Subjects) = Len(list)
<1>1. PICK D : D = DOMAIN list
  OBVIOUS
<1>2. IsFiniteSet(D) /\ Cardinality(D) = Len(list)
  <2>1. PICK n \in Nat : n = Len(list) /\ D = 1 .. n
    BY <1>1, ListOfSubjects
  <2>2. IsFiniteSet(1 .. n) /\ Cardinality(1 .. n) = IF 1 > n THEN 0 ELSE n - 1 + 1
    BY FS_Interval
  <2>3. QED
    BY <2>1, <2>2
<1>3. \A j \in D : list[j] \in Subjects
  BY <1>1, ListOfSubjects
<1>4. \A subject \in Subjects : o[subject] = Cardinality({j \in D : list[j] = subject})
  BY <1>1, Zenon DEF Occurrences
<1>5. CountsPreimages(o, list, D, Subjects)
  BY <1>3, <1>4 DEF CountsPreimages
<1>6. QED
  BY <1>2, <1>5, SubjectAssumption, SumOfPreimages

\* What an edge covers is at most what its student offers.
LEMMA CoveredIsOffered ==
  ASSUME InputOK, IsValid(matching_edges)
  PROVE  /\ SumOver(CoveredAt, DOMAIN matching_edges) \in Nat
         /\ SumOver(CoveredAt, DOMAIN matching_edges) <= TotalOffered
<1>1. ASSUME NEW i \in DOMAIN matching_edges
      PROVE  CoveredAt[i] \in Nat /\ CoveredAt[i] <= OfferedBy[matching_edges[i][2]]
  <2>1. PICK t : t = matching_edges[i][2] /\ t \in StudentIds
    BY EndsOfEdges
  <2>2. PICK list : list = offered_subjects[t] /\ list \in Requests \cup Offers
    BY <2>1 DEF InputOK
  <2>3. /\ Len(list) \in Nat /\ DOMAIN list = 1 .. Len(list)
        /\ \A j \in DOMAIN list : list[j] \in Subjects
        /\ \A subject : Occurrences(subject, list) \in Nat
    BY <2>2, ListOfSubjects
  <2>4. PICK f : f = [subject \in Subjects |-> FulfilledAt(subject)[i]]
    OBVIOUS
  <2>5. PICK o : o = [subject \in Subjects |-> Occurrences(subject, list)]
    OBVIOUS
  <2>6. \A subject \in Subjects : f[subject] \in Nat /\ o[subject] \in Nat
                                  /\ f[subject] <= o[subject]
    <3>1. ASSUME NEW subject \in Subjects
          PROVE  f[subject] \in {0, o[subject]} /\ o[subject] \in Nat
      BY <2>1, <2>2, <2>3, <2>4, <2>5 DEF FulfilledAt
    <3>2. QED
      BY <3>1
  <2>7. SumOver(o, Subjects) = Len(list)
    BY <2>2, <2>5, ListBySubjects
  <2>8. SumOver(f, Subjects) \in Nat /\ SumOver(f, Subjects) <= SumOver(o, Subjects)
    <3>1. Subjects \in SUBSET Subjects /\ \A subject \in Subjects : f[subject] \in Nat
      BY <2>6
    <3>2. \A subject \in Subjects : f[subject] \in Int /\ o[subject] \in Int
                                    /\ f[subject] <= o[subject]
      BY <2>6
    <3>3. QED
      BY <3>1, <3>2, SubjectAssumption, SumOfPart, SumMonotonic
  <2>9. CoveredAt[i] = SumOver(f, Subjects)
    BY <2>4 DEF CoveredAt
  <2>10. OfferedBy[t] = Len(list)
    BY <2>1, <2>2 DEF OfferedBy
  <2>11. QED
    BY <2>1, <2>7, <2>8, <2>9, <2>10
<1>2. QED
  BY <1>1, AtMostOfStudents, OfferedTypes

\* The edges by subjects and the subjects by edges come to the same.
LEMMA CoveredBySubject ==
  ASSUME InputOK, NEW r,
         \A subject \in Subjects : r[subject] = SumOver(FulfilledAt(subject), DOMAIN matching_edges)
  PROVE  SumOver(r, Subjects) = SumOver(CoveredAt, DOMAIN matching_edges)
<1>1. PICK D : D = DOMAIN matching_edges
  OBVIOUS
<1>2. IsFiniteSet(D)
  BY <1>1, EndsOfEdges, FS_Interval
<1>3. PICK f : f = [subject \in Subjects |-> FulfilledAt(subject)]
  OBVIOUS
<1>4. \A subject \in Subjects : \A i \in D : f[subject][i] \in Int
  <2>1. ASSUME NEW subject \in Subjects, NEW i \in D PROVE f[subject][i] \in Int
    <3>1. FulfilledAt(subject)[i] \in Nat
      BY <1>1, CountTypes
    <3>2. QED
      BY <1>3, <3>1
  <2>2. QED
    BY <2>1
<1>5. \A subject \in Subjects : r[subject] = SumOver(f[subject], D)
  BY <1>1, <1>3
<1>6. ASSUME NEW i \in D
      PROVE  CoveredAt[i] = SumOver([subject \in Subjects |-> f[subject][i]], Subjects)
  <2>1. [subject \in Subjects |-> f[subject][i]] = [subject \in Subjects |-> FulfilledAt(subject)[i]]
    BY <1>3
  <2>2. CoveredAt[i] = SumOver([subject \in Subjects |-> FulfilledAt(subject)[i]], Subjects)
    BY <1>1 DEF CoveredAt
  <2>3. QED
    BY <2>1, <2>2, Zenon
<1>7. IsTable(f, r, CoveredAt, Subjects, D)
  BY <1>4, <1>5, <1>6 DEF IsTable
<1>8. SumOver(r, Subjects) = SumOver(CoveredAt, D)
  BY <1>2, <1>7, SubjectAssumption, SumByColumns
<1>9. QED
  BY <1>1, <1>8

\* No subject is fulfilled more often than it is offered, and the fulfilled requests
\* of all subjects are the covered subjects of all edges.
THEOREM FulfilledSubjectsFitOffered == Spec => []FulfilledFitsOffered
<1>1. CountingInvariant /\ ErrorIffInvalid => FulfilledFitsOffered
  <2>1. SUFFICES ASSUME CountingInvariant, ErrorIffInvalid, pc = "done", error = "none",
                        TotalOffered < UintModulus
                 PROVE  /\ \A subject \in Subjects :
                             num_subject_request_fulfilled[subject] <= num_subject_offered[subject]
                        /\ num_cov_subjects = SumFunction(num_subject_request_fulfilled)
    BY DEF FulfilledFitsOffered
  <2>2. /\ InputOK /\ IsValid(matching_edges)
        /\ CountedUpTo(Len(matching_edges)) /\ TablesOK
    BY <2>1, DoneWithoutError
  <2>3. PICK D : D = DOMAIN matching_edges /\ D = 1 .. Len(matching_edges)
    BY <2>2, EndsOfEdges
  <2>4. ASSUME NEW subject \in Subjects
        PROVE  /\ num_subject_request_fulfilled[subject] = SumOver(FulfilledAt(subject), D)
               /\ SumOver(FulfilledAt(subject), D) \in Nat
               /\ num_subject_request_fulfilled[subject] <= num_subject_offered[subject]
    <3>1. PICK o : o = [t \in StudentIds |-> Occurrences(subject, offered_subjects[t])]
      OBVIOUS
    <3>2. PICK a, b : a = SumOver(FulfilledAt(subject), D) /\ b = SumOver(o, StudentIds)
      OBVIOUS
    <3>3. a \in Nat /\ b \in Nat /\ a <= b /\ b <= TotalOffered /\ TotalOffered \in Nat
          /\ OccurrencesIn(subject, offered_subjects) = Unsigned(b)
      BY <2>2, <2>3, <3>1, <3>2, FulfilledIsOffered
    <3>4. a \in Counts /\ b \in Counts
      BY <2>1, <3>3, UintAssumption DEF Counts
    <3>5. num_subject_request_fulfilled[subject] = Unsigned(a)
      BY <2>2, <2>3, <3>2 DEF CountedUpTo
    <3>6. num_subject_offered[subject] = Unsigned(b)
      BY <2>2, <3>3 DEF TablesOK
    <3>7. QED
      BY <3>2, <3>3, <3>4, <3>5, <3>6, UnsignedFits
  <2>5. num_cov_subjects = SumOver(CoveredAt, D)
    <3>1. PICK c : c = SumOver(CoveredAt, D)
      OBVIOUS
    <3>2. c \in Nat /\ c <= TotalOffered
      BY <2>2, <2>3, <3>1, CoveredIsOffered
    <3>3. TotalOffered \in Nat
      <4>1. StudentIds \in SUBSET StudentIds
        OBVIOUS
      <4>2. QED
        BY <2>2, <4>1, NodesAreFinite, OfferedTypes, SumOfPart
    <3>4. c \in Counts
      BY <2>1, <3>2, <3>3, UintAssumption DEF Counts
    <3>5. num_cov_subjects = Unsigned(c)
      BY <2>2, <2>3, <3>1 DEF CountedUpTo
    <3>6. QED
      BY <3>1, <3>4, <3>5, UnsignedFits
  <2>6. SumFunction(num_subject_request_fulfilled) = SumOver(num_subject_request_fulfilled, Subjects)
    <3>1. DOMAIN num_subject_request_fulfilled = Subjects
      BY <2>2 DEF CountedUpTo
    <3>2. QED
      BY <3>1, SumOfFunction
  <2>7. SumOver(num_subject_request_fulfilled, Subjects) = SumOver(CoveredAt, D)
    BY <2>2, <2>3, <2>4, CoveredBySubject
  <2>8. QED
    BY <2>4, <2>5, <2>6, <2>7
<1>2. QED
  BY <1>1, CountersAreSums, VerdictIsRight, PTL

\* The student of an edge offers no subject more often than the pupil requests it, if
\* the pupil does request it.
NobodyOutruns ==
  \A i \in DOMAIN matching_edges, subject \in Subjects :
    ~OutrunsRequests(matching_edges[i], subject)

\* Then no edge covers more than its pupil requests, and as a sum of what is left of
\* requests the uncovered subjects are not negative.
LEMMA CoveredIsRequested ==
  ASSUME InputOK, NobodyOutruns
  PROVE  AllUncovered >= 0
<1>1. PICK D : D = DOMAIN matching_edges /\ D = 1 .. Len(matching_edges)
  BY EndsOfEdges
<1>2. ASSUME NEW i \in D PROVE UncoveredAt[i] \in Nat
  <2>1. PICK p, t : /\ p = matching_edges[i][1] /\ p \in PupilIds
                    /\ t = matching_edges[i][2] /\ t \in StudentIds
    BY <1>1, EndsOfEdges
  <2>2. PICK list, offer : /\ list = requested_subjects[p] /\ list \in Requests \cup Offers
                           /\ offer = offered_subjects[t] /\ offer \in Requests \cup Offers
    BY <2>1 DEF InputOK
  <2>3. PICK f : f = [subject \in Subjects |-> FulfilledAt(subject)[i]]
    OBVIOUS
  <2>4. PICK r : r = [subject \in Subjects |-> Occurrences(subject, list)]
    OBVIOUS
  <2>5. ASSUME NEW subject \in Subjects
        PROVE  f[subject] \in Int /\ r[subject] \in Int /\ f[subject] <= r[subject]
    <3>1. PICK a, b : a = Occurrences(subject, list) /\ b = Occurrences(subject, offer)
      OBVIOUS
    <3>2. a \in Nat /\ b \in Nat
      BY <2>2, <3>1, ListOfSubjects
    <3>3. ~(0 < a /\ a < b)
      BY <1>1, <2>1, <2>2, <3>1 DEF NobodyOutruns, OutrunsRequests
    <3>4. f[subject] = IF a > 0 THEN b ELSE 0
      BY <1>1, <2>1, <2>2, <2>3, <3>1 DEF FulfilledAt
    <3>5. r[subject] = a
      BY <2>4, <3>1
    <3>6. QED
      BY <3>2, <3>3, <3>4, <3>5
  <2>6. SumOver(f, Subjects) <= SumOver(r, Subjects)
    BY <2>5, SubjectAssumption, SumMonotonic
  <2>7. SumOver(r, Subjects) = RequestedBy[p] /\ CoveredAt[i] = SumOver(f, Subjects)
    <3>1. SumOver(r, Subjects) = Len(list)
      BY <2>2, <2>4, ListBySubjects
    <3>2. CoveredAt[i] = SumOver(f, Subjects)
      BY <1>1, <2>3 DEF CoveredAt
    <3>3. QED
      BY <2>1, <2>2, <3>1, <3>2 DEF RequestedBy
  <2>8. /\ RequestedBy[p] \in Nat /\ CoveredAt[i] \in Int
        /\ UncoveredAt[i] = RequestedBy[p] - CoveredAt[i]
    BY <1>1, <2>1, CountTypes
  <2>9. QED
    BY <2>6, <2>7, <2>8
<1>3. SumOver(UncoveredAt, D) \in Nat
  <2>1. IsFiniteSet(D) /\ D \in SUBSET D
    BY <1>1, EndsOfEdges, FS_Interval
  <2>2. \A i \in D : UncoveredAt[i] \in Nat
    BY <1>2
  <2>3. QED
    BY <2>1, <2>2, SumOfPart
<1>4. SumOver(RequestedBy, PupilIds \ Met(Len(matching_edges))) \in Nat
  <2>1. PICK Q : Q = PupilIds \ Met(Len(matching_edges))
    OBVIOUS
  <2>2. Q \in SUBSET PupilIds /\ \A p \in PupilIds : RequestedBy[p] \in Nat
    BY <2>1, CountTypes
  <2>3. SumOver(RequestedBy, Q) \in Nat
    BY <2>2, NodesAreFinite, SumOfPart
  <2>4. QED
    BY <2>1, <2>3
<1>5. QED
  BY <1>1, <1>3, <1>4 DEF AllUncovered

\* What the file holds as uncovered is what is left of the requests, or has wrapped
\* around because more is covered than requested, by a student who offers a subject
\* more often than the pupil requests it.
THEOREM UncoveredWrapsOnlyByRepetition == Spec => []WrapsOnlyByRepeatedOffers
<1>1. CountingInvariant /\ ErrorIffInvalid => WrapsOnlyByRepeatedOffers
  <2> DEFINE Outrun == \E i \in DOMAIN matching_edges, subject \in Subjects :
                         OutrunsRequests(matching_edges[i], subject)
  <2>1. SUFFICES ASSUME CountingInvariant, ErrorIffInvalid, pc = "done", error = "none",
                        TotalRequested < UintModulus, TotalOffered < UintModulus
                 PROVE  \/ num_cov_subjects + num_uncov_sub = TotalRequested
                        \/ /\ num_cov_subjects > TotalRequested
                           /\ num_cov_subjects + num_uncov_sub = TotalRequested + UintModulus
                           /\ Outrun
    BY DEF WrapsOnlyByRepeatedOffers
  <2>2. PICK c, u, all : /\ c = SumOver(CoveredAt, 1 .. Len(matching_edges))
                         /\ u = AllUncovered /\ all = TotalRequested
    OBVIOUS
  <2>3. c \in Nat /\ c <= TotalOffered
    BY <2>1, <2>2, DoneWithoutError, EndsOfEdges, CoveredIsOffered
  <2>4. u \in Int /\ c + u = all
    BY <2>1, <2>2, DoneWithoutError, CoveredAndUncovered, AllUncoveredIsInt
  <2>5. all \in Nat
    <3>1. all = SumOver(RequestedBy, PupilIds)
      BY <2>2, SumOfFunction DEF TotalRequested, RequestedBy
    <3>2. PupilIds \in SUBSET PupilIds /\ \A p \in PupilIds : RequestedBy[p] \in Nat
      BY <2>1, DoneWithoutError, CountTypes
    <3>3. QED
      BY <3>1, <3>2, NodesAreFinite, SumOfPart
  <2>6. TotalOffered \in Int
    <3>1. StudentIds \in SUBSET StudentIds
      OBVIOUS
    <3>2. TotalOffered \in Nat
      BY <2>1, <3>1, DoneWithoutError, NodesAreFinite, OfferedTypes, SumOfPart
    <3>3. QED
      BY <3>2
  <2>7. UintModulus \in Nat /\ all < UintModulus /\ c < UintModulus
    BY <2>1, <2>2, <2>3, <2>6, UintAssumption
  <2>8. num_cov_subjects = c
    <3>1. c \in Counts
      BY <2>3, <2>7 DEF Counts
    <3>2. QED
      BY <2>1, <2>2, <3>1, DoneWithoutError, UnsignedFits DEF CountedUpTo
  <2>9. num_uncov_sub = Unsigned(u)
    BY <2>1, <2>2, DoneWithoutError
  <2>10. CASE u >= 0
    <3>1. u \in Counts
      BY <2>3, <2>4, <2>5, <2>7, <2>10 DEF Counts
    <3>2. num_uncov_sub = u
      BY <2>9, <3>1, UnsignedFits
    <3>3. QED
      BY <2>2, <2>4, <2>8, <3>2
  <2>11. CASE u < 0
    <3>1. PICK r : r = u + UintModulus
      OBVIOUS
    <3>2. r \in Counts /\ u = UintModulus * (-1) + r
      BY <2>3, <2>4, <2>5, <2>7, <2>11, <3>1 DEF Counts
    <3>3. num_uncov_sub = r
      BY <2>4, <2>9, <3>2, OneUnsigned
    <3>4. Outrun
      <4>1. ~(AllUncovered >= 0)
        BY <2>2, <2>4, <2>11
      <4>2. QED
        BY <2>1, <4>1, DoneWithoutError, CoveredIsRequested DEF NobodyOutruns
    <3>5. c > all /\ c + r = all + UintModulus
      BY <2>3, <2>4, <2>5, <2>7, <2>11, <3>1
    <3>6. QED
      BY <2>2, <2>8, <3>3, <3>4, <3>5
  <2>12. QED
    BY <2>4, <2>10, <2>11
<1>2. QED
  BY <1>1, CountersAreSums, VerdictIsRight, PTL
=============================================================================
