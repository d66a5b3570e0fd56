---------------------------- MODULE MCEdgeCosts ----------------------------
(* Values of the constants of EdgeCosts for TLC. *)
EXTENDS EdgeCosts

MCPupilData ==
  { [bundesland |-> "Bayern",  requested |-> <<"Deutsch">>,               waiting_days |-> 0],
    [bundesland |-> "Invalid", requested |-> <<"Deutsch", "Mathematik">>, waiting_days |-> 2],
    [bundesland |-> "Berlin",  requested |-> <<"Mathematik">>,            waiting_days |-> 1] }

\* A subject is offered twice when the grades have a gap.  A waiting time is
\* negative when createdAt lies in the future.
MCStudentData ==
  { [bundesland |-> "Bayern",  offered |-> <<"Deutsch", "Deutsch">>,    waiting_days |-> 1],
    [bundesland |-> "Berlin",  offered |-> <<"Mathematik", "Deutsch">>, waiting_days |-> 0],
    [bundesland |-> "Invalid", offered |-> <<"Mathematik">>,            waiting_days |-> -4] }

MCSharesOf(fach, bundesland, wartezeit) ==
  [type \in AllTypes |-> CASE type = "FachUebereinstimmung" -> fach
                           [] type = "BundeslandBonus" -> bundesland
                           [] type = "WaitingTimeBonus" -> wartezeit]

\* Quarters.  The last three files leave a type out.
MCShares ==
  { MCSharesOf(2, 1, 1), MCSharesOf(3, 0, 1), MCSharesOf(1, 1, 0),
    [type \in {"FachUebereinstimmung", "WaitingTimeBonus"} |-> 2],
    [type \in {"BundeslandBonus", "WaitingTimeBonus"} |-> 2],
    [type \in {"BundeslandBonus"} |-> 4] }
=============================================================================
