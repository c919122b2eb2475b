----------------------------- MODULE RiskTables -----------------------------
(***************************************************************************)
(* The pure risk arithmetic of AI_Agent-HARA_Assistant: the ASIL matrix of *)
(* ASIL_Calculator.py and the combination of exposures of                  *)
(* operational_situation_tool.py, as operators.                            *)
(***************************************************************************)
EXTENDS Integers, FiniteSets, FiniteSetsExt, Sequences

CONSTANTS
    Scenarios,    \* ids of the operational situations database
    Unknown,      \* ids a caller may name that are not in the database
    Exposure      \* Exposure[i]: the level the database gives scenario i

ASSUME RiskAssumption ==
    /\ IsFiniteSet(Scenarios) /\ Scenarios \intersect Unknown = {}
    /\ DOMAIN Exposure = Scenarios

-----------------------------------------------------------------------------
(* ASIL_Calculator.py.  ASIL_MATRIX is a list of four S lists of four E      *)
(* lists of four C lists of four strings.                                    *)

Q == <<"QM", "QM", "QM", "QM">>
Row(a, b, c) == <<"QM", a, b, c>>

ASIL_MATRIX ==
    LET S1 == << <<Q, Row("A","A","A"), Row("A","A","A"), Row("A","A","A")>>,
                 <<Q, Row("A","A","A"), Row("A","B","B"), Row("A","B","B")>>,
                 <<Q, Row("A","B","B"), Row("B","B","C"), Row("B","C","C")>>,
                 <<Q, Row("A","B","C"), Row("B","C","C"), Row("C","C","D")>> >>
        S2 == << <<Q, Row("A","B","B"), Row("B","B","C"), Row("B","C","C")>>,
                 <<Q, Row("A","B","C"), Row("B","C","C"), Row("C","C","D")>>,
                 <<Q, Row("B","C","C"), Row("C","C","D"), Row("C","D","D")>>,
                 <<Q, Row("B","C","D"), Row("C","D","D"), Row("D","D","D")>> >>
        S3 == << <<Q, Row("B","C","C"), Row("C","C","D"), Row("C","D","D")>>,
                 <<Q, Row("B","C","D"), Row("C","D","D"), Row("D","D","D")>>,
                 <<Q, Row("C","D","D"), Row("D","D","D"), Row("D","D","D")>>,
                 <<Q, Row("C","D","D"), Row("D","D","D"), Row("D","D","D")>> >>
    IN  [s \in 0 .. 3 |-> [e \in 0 .. 3 |-> [c \in 0 .. 3 |->
            CASE s = 0 -> Q
              [] s = 1 -> S1[e + 1][c + 1]
              [] s = 2 -> S2[e + 1][c + 1]
              [] s = 3 -> S3[e + 1][c + 1]]]]

\* Three indices into a list of depth four: the result is a list of four.
\* Every result is given as a list here; the string "Invalid" is <<"Invalid">>.
calculate_asil(s, e, c) ==
    IF {s, e, c} \subseteq 0 .. 3 THEN ASIL_MATRIX[s][e][c] ELSE <<"Invalid">>

-----------------------------------------------------------------------------
(* operational_situation_tool.py *)

Levels == <<"E0", "E1", "E2", "E3", "E4">>

\* A level the map does not know counts as 0.
get_exposure_value(level) ==
    LET known == {n \in 0 .. 4 : Levels[n + 1] = level}
    IN  IF known = {} THEN 0 ELSE CHOOSE n \in known : TRUE

get_exposure_level(n) == IF n \in 0 .. 4 THEN Levels[n + 1] ELSE "E0"

\* Ids the database does not have are skipped; with none left the result is E0.
calculate_combined_exposure(scenario_ids) ==
    LET exposures == {get_exposure_value(Exposure[i]) : i \in scenario_ids \intersect Scenarios}
    IN  IF exposures = {} THEN "E0" ELSE get_exposure_level(Min(exposures))

-----------------------------------------------------------------------------
Rank(asil) == CHOOSE n \in 0 .. 4 : <<"QM", "A", "B", "C", "D">>[n + 1] = asil

\* Arguments in and around the range of calculate_asil.
Args == -1 .. 4

\* A hazard that is more severe, more often exposed or harder to control never
\* gets a lower rating, in any column of the matrix: a fact about ASIL_MATRIX.
AsilMonotone ==
    \A arg \in Args \X Args \X Args : \A n \in 1 .. 3 :
        LET up == [arg EXCEPT ![n] = arg[n] + 1]
            low == calculate_asil(arg[1], arg[2], arg[3])
            high == calculate_asil(up[1], up[2], up[3])
        IN  (low # <<"Invalid">> /\ high # <<"Invalid">>) =>
                \A k \in 1 .. 4 : Rank(low[k]) <= Rank(high[k])

\* A combination is exactly as frequent as its rarest scenario ("Uses minimum
\* exposure as per ISO 26262 guidance"), whatever unknown ids are named with them
\* and whatever level the database gives.
CombinedIsRarest ==
    \A ids \in SUBSET (Scenarios \union Unknown) :
        LET combined == get_exposure_value(calculate_combined_exposure(ids))
            exposures == {get_exposure_value(Exposure[i]) : i \in ids \intersect Scenarios}
        IN  exposures # {} => combined \in exposures /\ \A e \in exposures : combined <= e
=============================================================================
