-------------------------- MODULE MCHaraWorkflow --------------------------
(* Small instances of HaraWorkflow with a database of three scenarios, one   *)
(* with a level get_exposure_value does not know.                            *)
EXTENDS HaraWorkflow, TLC

TurnSymmetry == Permutations(Turns)

Levels3 == [i \in Scenarios |-> CASE i = "urban" -> "E4" [] i = "rain" -> "E2" [] i = "new" -> "E9"]

\* The facts about the risk tables, evaluated for this database.
ASSUME RiskFacts == AsilMonotone /\ CombinedIsRarest
=============================================================================
