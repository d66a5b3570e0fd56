----------------------------- MODULE Statistics -----------------------------
(***************************************************************************)
(* stats.h: test_matching_valid, which goes over the matching and stops at *)
(* the first edge that is wrong, and dump_stats, which goes over it again  *)
(* whatever the first has found and counts.  An unsigned is a number       *)
(* modulo UintModulus.  What dump_stats sums up besides the subjects (the  *)
(* waiting days, the edges within a bundesland, the costs by type) goes    *)
(* into the file as it is and is left out.                                 *)
(*                                                                         *)
(* A definition whose name no action uses (NotWrapped, ...) is a           *)
(* deliberately wrong form of the one after it.  PROJECT.json pairs each   *)
(* with the property that detects it.                                      *)
(***************************************************************************)
EXTENDS Integers, Sequences, FiniteSets, Functions

CONSTANTS
  NumPupils,    \* how many pupils ...
  NumStudents,  \* ... and how many students there are
  Subjects,     \* the enum Subject
  Requests,     \* the sequences of subjects a pupil may request
  Offers,       \* the sequences of subjects a student may offer
  Matchings,    \* the sequences of edges that may have to be reported
  UintModulus   \* 2^w for the w bits of unsigned

PupilIds == 0 .. (NumPupils - 1)
StudentIds == 0 .. (NumStudents - 1)

ASSUME SizeAssumption == NumPupils \in Nat /\ NumStudents \in Nat
ASSUME SubjectAssumption ==
  IsFiniteSet(Subjects) /\ Requests \cup Offers \subseteq Seq(Subjects)
ASSUME MatchingAssumption == Matchings \subseteq Seq(PupilIds \X StudentIds)
ASSUME UintAssumption == UintModulus \in Nat \ {0}

VARIABLES
  requested_subjects,                \* the data of every pupil ...
  offered_subjects,                  \* ... and of every student
  edges,                             \* gc.edges(): the pairs that accept each other
  matching_edges,                    \* the matching, in the order it was extracted
  position,                          \* how many of its edges the loop has gone over
  pupil_covered, student_covered,    \* test_matching_valid: who has been met
  error,                             \* what it has printed
  num_subject_offered,               \* dump_stats: how often a subject is offered ...
  num_subject_requested,             \* ... and requested ...
  num_subject_request_fulfilled,     \* ... and offered to one who requested it
  num_cov_subjects, num_uncov_sub,   \* the same over all subjects
  pupil_matched,                     \* who has one
  pc

input == <<requested_subjects, offered_subjects, edges, matching_edges>>
verification == <<pupil_covered, student_covered, error>>
offers == <<num_subject_offered, num_subject_requested>>
counters == <<num_subject_request_fulfilled, num_cov_subjects, num_uncov_sub,
              pupil_matched>>
vars == <<input, position, verification, offers, counters, pc>>

-----------------------------------------------------------------------------
Occurrences(subject, list) == Cardinality({i \in DOMAIN list : list[i] = subject})
HaveCommonSubject(p, t) ==
  \E subject \in Subjects : /\ Occurrences(subject, requested_subjects[p]) > 0
                            /\ Occurrences(subject, offered_subjects[t]) > 0

Init ==
  /\ requested_subjects \in [PupilIds -> Requests]
  /\ offered_subjects \in [StudentIds -> Offers]
  /\ edges \in SUBSET {e \in PupilIds \X StudentIds : HaveCommonSubject(e[1], e[2])}
  /\ matching_edges \in Matchings
  /\ position = 0
  /\ pupil_covered = {}
  /\ student_covered = {}
  /\ error = "none"
  /\ num_subject_offered = [subject \in Subjects |-> 0]
  /\ num_subject_requested = [subject \in Subjects |-> 0]
  /\ num_subject_request_fulfilled = [subject \in Subjects |-> 0]
  /\ num_cov_subjects = 0
  /\ num_uncov_sub = 0
  /\ pupil_matched = {}
  /\ pc = "verify"

AtEdge == position < Len(matching_edges)
pupil_id == matching_edges[position + 1][1]
college_student_id == matching_edges[position + 1][2]

-----------------------------------------------------------------------------
(* test_matching_valid. *)

OnlyPupilIsCovered == pupil_id \in pupil_covered
IsCovered == pupil_id \in pupil_covered \/ college_student_id \in student_covered

\* A break leaves the loop at the first edge that is wrong.
VerifyEdge ==
  /\ pc = "verify" /\ AtEdge
  /\ IF IsCovered
       THEN error' = "covered_twice" /\ UNCHANGED <<pupil_covered, student_covered>>
       ELSE /\ pupil_covered' = pupil_covered \cup {pupil_id}
            /\ student_covered' = student_covered \cup {college_student_id}
            /\ error' = IF <<pupil_id, college_student_id>> \in edges
                          THEN "none" ELSE "should_not_exist"
  /\ IF error' = "none" THEN position' = position + 1 /\ pc' = "verify"
                        ELSE position' = 0 /\ pc' = "collect"
  /\ UNCHANGED <<input, offers, counters>>

EndVerification ==
  /\ pc = "verify" /\ ~AtEdge
  /\ position' = 0
  /\ pc' = "collect"
  /\ UNCHANGED <<input, verification, offers, counters>>

-----------------------------------------------------------------------------
(* dump_stats. *)

NotWrapped(n) == n
Unsigned(n) == n % UintModulus

OccurrencesIn(subject, lists) ==
  Unsigned(SumFunction([id \in DOMAIN lists |-> Occurrences(subject, lists[id])]))

CollectRequestsAndOffers ==
  /\ pc = "collect"
  /\ num_subject_offered' =
       [subject \in Subjects |-> OccurrencesIn(subject, offered_subjects)]
  /\ num_subject_requested' =
       [subject \in Subjects |-> OccurrencesIn(subject, requested_subjects)]
  /\ pc' = "count"
  /\ UNCHANGED <<input, position, verification, counters>>

\* get_same_subject_number: the break in its inner loop makes every offer count
\* at most once.
SameSubjectsWithoutBreak(subject) ==
  Occurrences(subject, offered_subjects[college_student_id])
    * Occurrences(subject, requested_subjects[pupil_id])

SameSubjects(subject) ==
  IF Occurrences(subject, requested_subjects[pupil_id]) > 0
    THEN Occurrences(subject, offered_subjects[college_student_id])
    ELSE 0

get_same_subject_number == SumFunction([subject \in Subjects |-> SameSubjects(subject)])

OnlyFirstPupilMatched == pupil_matched \cup {matching_edges[1][1]}
MatchedPupils == pupil_matched \cup {pupil_id}

CountEdge ==
  /\ pc = "count" /\ AtEdge
  /\ pupil_matched' = MatchedPupils
  /\ num_subject_request_fulfilled' =
       [subject \in Subjects |->
          Unsigned(num_subject_request_fulfilled[subject] + SameSubjects(subject))]
  /\ num_cov_subjects' = Unsigned(num_cov_subjects + get_same_subject_number)
  /\ num_uncov_sub' = Unsigned(num_uncov_sub + Len(requested_subjects[pupil_id])
                                 - get_same_subject_number)
  /\ position' = position + 1
  /\ UNCHANGED <<input, verification, offers, pc>>

CountUnmatched ==
  /\ pc = "count" /\ ~AtEdge
  /\ num_uncov_sub' =
       Unsigned(num_uncov_sub + SumFunction([p \in PupilIds \ pupil_matched |->
                                               Len(requested_subjects[p])]))
  /\ pc' = "done"
  /\ UNCHANGED <<input, position, verification, offers, num_subject_request_fulfilled,
                 num_cov_subjects, pupil_matched>>

Next ==
  \/ VerifyEdge
  \/ EndVerification
  \/ CollectRequestsAndOffers
  \/ CountEdge
  \/ CountUnmatched

Spec == Init /\ [][Next]_vars

-----------------------------------------------------------------------------
Counts == 0 .. (UintModulus - 1)

TypeOK ==
  /\ requested_subjects \in [PupilIds -> Requests]
  /\ offered_subjects \in [StudentIds -> Offers]
  /\ edges \subseteq PupilIds \X StudentIds
  /\ matching_edges \in Matchings
  /\ position \in 0 .. Len(matching_edges)
  /\ pupil_covered \subseteq PupilIds
  /\ student_covered \subseteq StudentIds
  /\ error \in {"none", "covered_twice", "should_not_exist"}
  /\ num_subject_offered \in [Subjects -> Counts]
  /\ num_subject_requested \in [Subjects -> Counts]
  /\ num_subject_request_fulfilled \in [Subjects -> Counts]
  /\ num_cov_subjects \in Counts
  /\ num_uncov_sub \in Counts
  /\ pupil_matched \subseteq PupilIds
  /\ pc \in {"verify", "collect", "count", "done"}

\* A matching: acceptable edges, no two of which share a pupil or a student.
IsValid(M) ==
  /\ \A i \in DOMAIN M : M[i] \in edges
  /\ \A i, j \in DOMAIN M : i # j => M[i][1] # M[j][1] /\ M[i][2] # M[j][2]

\* test_matching_valid prints an error exactly for what is no valid matching,
\* although it stops at the first error and although it marks as covered the two
\* ends of an edge that should not exist.
ErrorIffInvalid ==
  pc # "verify" => (error # "none" <=> ~IsValid(matching_edges))

TotalRequested == SumFunction([p \in PupilIds |-> Len(requested_subjects[p])])

\* Every requested subject is reported as covered or as uncovered, once, whether
\* its pupil is matched or not.  It holds modulo 2^w only: a student who offers a
\* subject twice covers more than is requested, and num_uncov_sub wraps around.
SubjectsAddUp ==
  pc = "done" /\ error = "none" =>
    Unsigned(num_cov_subjects + num_uncov_sub) = Unsigned(TotalRequested)

NamesNothingTwice(list) == \A i, j \in DOMAIN list : list[i] = list[j] => i = j
NamesAll(list) == {list[i] : i \in DOMAIN list}

PartnerSubjects(p) ==
  UNION {NamesAll(offered_subjects[matching_edges[i][2]]) :
           i \in {j \in DOMAIN matching_edges : matching_edges[j][1] = p}}

\* If nobody names a subject twice, the uncovered subjects are those requested
\* ones that the pupil's partner does not offer, or all if there is no partner.
UncoveredIsExact ==
  /\ pc = "done" /\ error = "none"
  /\ \A p \in PupilIds : NamesNothingTwice(requested_subjects[p])
  /\ \A t \in StudentIds : NamesNothingTwice(offered_subjects[t])
  => num_uncov_sub =
       Unsigned(SumFunction([p \in PupilIds |->
                               Cardinality(NamesAll(requested_subjects[p])
                                             \ PartnerSubjects(p))]))

TotalOffered == SumFunction([t \in StudentIds |-> Len(offered_subjects[t])])

\* No subject is fulfilled more often than it is offered, and the fulfilled
\* requests of all subjects are the covered subjects of all edges, unless more is
\* offered than an unsigned can count.
FulfilledFitsOffered ==
  pc = "done" /\ error = "none" /\ TotalOffered < UintModulus =>
    /\ \A subject \in Subjects :
         num_subject_request_fulfilled[subject] <= num_subject_offered[subject]
    /\ num_cov_subjects = SumFunction(num_subject_request_fulfilled)

\* The student of an edge offers a subject more often than the pupil requests it.
OutrunsRequests(e, subject) ==
  LET requested == Occurrences(subject, requested_subjects[e[1]])
  IN  0 < requested /\ requested < Occurrences(subject, offered_subjects[e[2]])

\* What the file holds as uncovered is what is left of the requests, or has wrapped
\* around: just when more is covered than is requested, and then one of the matched
\* students offers a subject more often than the pupil requests it (as for grades with
\* a gap).  No other way leads to the wrap of stats.h:140 in the file.
WrapsOnlyByRepeatedOffers ==
  pc = "done" /\ error = "none" /\ TotalRequested < UintModulus /\ TotalOffered < UintModulus =>
    \/ num_cov_subjects + num_uncov_sub = TotalRequested
    \/ /\ num_cov_subjects > TotalRequested
       /\ num_cov_subjects + num_uncov_sub = TotalRequested + UintModulus
       /\ \E i \in DOMAIN matching_edges, subject \in Subjects :
            OutrunsRequests(matching_edges[i], subject)
=============================================================================
