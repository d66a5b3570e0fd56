---------------------------- MODULE MCNodeLoader ----------------------------
(* Values of the constants of NodeLoader for TLC. *)
EXTENDS NodeLoader, SequencesExt

\* "Sport" and "Tanz" are subjects that parse_subject does not know.
MCSubjects == {"Mathematik", "Deutsch"}

\* A grade that does not fit in four bits, which are all that Grade has here.
MCPupils ==
  { [uuid |-> "anna",  grade |-> 5,  requested |-> {"Mathematik"}],
    [uuid |-> "ben",   grade |-> 9,  requested |-> {"Mathematik", "Deutsch"}],
    [uuid |-> "clara", grade |-> 21, requested |-> {"Sport", "Deutsch"}] }

Offer(name, from, to) == [name |-> name, grade |-> {[min |-> from, max |-> to]}]

MCStudents ==
  { [uuid |-> "dora",  offered |-> {Offer("Mathematik", 5, 8), [name |-> "Tanz", grade |-> {}]}],
    [uuid |-> "emil",  offered |-> {Offer("Mathematik", 6, 9), Offer("Deutsch", 5, 5)}],
    [uuid |-> "frida", offered |-> {[name |-> "Deutsch", grade |-> {}], [name |-> "Tanz", grade |-> {}]}],
    [uuid |-> "greta", offered |-> {Offer("Mathematik", 1, -1)}] }

\* A file lists nobody twice.
MCFiles(entries) ==
  {f \in BoundedSeq(entries, 3) : \A i, j \in DOMAIN f : i # j => f[i] # f[j]}

MCPupilFiles == MCFiles(MCPupils)
MCStudentFiles == MCFiles(MCStudents)

MCFilters == {{}, {"anna", "clara", "dora"}, {"ben", "emil", "frida"}}

\* Some subject, or a number that is no subject.
MCUnknownOutcomes == {"Mathematik", "no subject"}
=============================================================================
