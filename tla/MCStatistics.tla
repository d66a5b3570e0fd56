---------------------------- MODULE MCStatistics ----------------------------
(* Values of the constants of Statistics for TLC. *)
EXTENDS Statistics, SequencesExt

\* A subject is requested or offered twice when the file lists it twice; grades
\* with a gap can be offered in no other way.
MCRequests == {<<"Deutsch">>, <<"Mathematik", "Deutsch">>, <<"Deutsch", "Deutsch">>}
MCOffers == {<<"Mathematik">>, <<"Deutsch", "Deutsch">>, <<"Deutsch", "Mathematik">>}

\* Any two edges, valid or not, and none.
MCMatchings == BoundedSeq(PupilIds \X StudentIds, 2)
=============================================================================
