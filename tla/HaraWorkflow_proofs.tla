------------------------ MODULE HaraWorkflow_proofs ------------------------
(***************************************************************************)
(* Proofs about HaraWorkflow for any items, files and number of turns, and *)
(* about the combination of exposures for any database of situations.      *)
(***************************************************************************)
EXTENDS HaraWorkflow, TLAPS

\* A call that waits for the LLM: what the tool has read.
Calls ==
    [tool : {"extract_functions"}, item : Items, def : Items]
    \union [tool : {"apply_hazop_analysis"}, functions : Nat]
    \union [tool : {"assess_exposure_for_all_hazards"}, hazop : Nat]
    \union [tool : {"generate_hara_table"}, hazop : Nat, exposure : Nat]
    \union [tool : {"derive_safety_goals"}, table : Nat]

TypeOK ==
    /\ hara_item_name \in Items \union {NotSet}
    /\ item_definition_content \in Items \union {NotSet}
    /\ item_functions \in [run : Nat, text : Answers, item : Items, def : Items] \union {NotSet}
    /\ hazop_analysis \in [run : Nat, text : Answers, functions : Nat] \union {NotSet}
    /\ exposure_assessments \in [run : Nat, text : Answers, hazop : Nat] \union {NotSet}
    /\ hara_table \in [run : Nat, text : Answers, hazop : Nat, exposure : Nat] \union {NotSet}
    /\ safety_goals \in [run : Nat, text : Answers, table : Nat] \union {NotSet}
    /\ hara_stage \in Stages
    /\ turn \in [Turns -> Calls \union {NotSet}]
    /\ runs \in Nat /\ raced \in BOOLEAN

\* Before the first overlap of two turns, what a waiting call has read is what
\* the working memory holds.
ReadsCurrent(t) ==
    /\ Pending(t, "apply_hazop_analysis") =>
           NonEmpty(item_functions) /\ turn[t].functions = item_functions.run
    /\ Pending(t, "assess_exposure_for_all_hazards") =>
           hazop_analysis.text = "rows" /\ turn[t].hazop = hazop_analysis.run
    /\ Pending(t, "generate_hara_table") =>
           /\ NonEmpty(exposure_assessments)
           /\ turn[t].exposure = exposure_assessments.run
           /\ turn[t].hazop = hazop_analysis.run
    /\ Pending(t, "derive_safety_goals") =>
           hara_table.text = "rows" /\ turn[t].table = hara_table.run

Alone == \A t, u \in Turns : (turn[t] # NotSet /\ turn[u] # NotSet) => t = u

\* The inductive invariant.
IInv == TypeOK /\ StageBacked /\ (~raced => Alone /\ \A t \in Turns : ReadsCurrent(t))

-----------------------------------------------------------------------------

\* A tool that reads keeps the memory and notes in raced whether it overlaps.
LEMMA BeginStep ==
    ASSUME IInv, NEW t \in Turns, NEW call \in Calls, Begin(t, call),
           \* what the call has read, for each tool
           call.tool = "apply_hazop_analysis" =>
               NonEmpty(item_functions) /\ call.functions = item_functions.run,
           call.tool = "assess_exposure_for_all_hazards" =>
               hazop_analysis.text = "rows" /\ call.hazop = hazop_analysis.run,
           call.tool = "generate_hara_table" =>
               /\ NonEmpty(exposure_assessments)
               /\ call.exposure = exposure_assessments.run
               /\ call.hazop = hazop_analysis.run,
           call.tool = "derive_safety_goals" =>
               hara_table.text = "rows" /\ call.table = hara_table.run
    PROVE  IInv'
<1>1. /\ UNCHANGED memory /\ runs' = runs
      /\ turn' = [turn EXCEPT ![t] = call]
      /\ raced' = (raced \/ \E u \in Turns \ {t} : turn[u] # NotSet)
  BY DEF Begin, NoteRace
<1>2. TypeOK'
  BY <1>1 DEF IInv, TypeOK, memory
<1>3. StageBacked'
  BY <1>1 DEF IInv, StageBacked, memory, NonEmpty
<1>4. ASSUME ~raced'
      PROVE  (Alone /\ \A u \in Turns : ReadsCurrent(u))'
  <2>1. \A u \in Turns \ {t} : turn'[u] = NotSet
    BY <1>1, <1>4 DEF IInv, TypeOK
  <2>2. turn'[t] = call
    BY <1>1 DEF IInv, TypeOK
  <2>3. ReadsCurrent(t)'
    BY <1>1, <2>2 DEF ReadsCurrent, Pending, NonEmpty, memory
  <2>4. \A u \in Turns \ {t} : ReadsCurrent(u)'
    BY <2>1 DEF ReadsCurrent, Pending
  <2> QED BY <2>1, <2>3, <2>4 DEF Alone
<1> QED BY <1>2, <1>3, <1>4 DEF IInv

\* A tool that ends leaves no turn that has read anything, before a race.
LEMMA EndStep ==
    ASSUME IInv, NEW t \in Turns, turn[t] # NotSet,
           turn' = [turn EXCEPT ![t] = NotSet], raced' = raced, TypeOK', StageBacked'
    PROVE  IInv'
<1>1. ASSUME ~raced'
      PROVE  \A u \in Turns : turn'[u] = NotSet
  BY <1>1 DEF IInv, Alone, TypeOK
<1> QED BY <1>1 DEF IInv, Alone, ReadsCurrent, Pending

LEMMA InvStep == IInv /\ [Next]_vars => IInv'
<1> SUFFICES ASSUME IInv, [Next]_vars PROVE IInv'
  OBVIOUS
<1>0. TypeOK
  BY DEF IInv
<1>1. ASSUME UNCHANGED <<memory, turn, runs, raced>>
      PROVE  IInv'
  <2>1. TypeOK'
    BY <1>0, <1>1 DEF memory, TypeOK
  <2>2. StageBacked'
    BY <1>1 DEF memory, IInv, StageBacked, NonEmpty
  <2>3. Alone => Alone'
    BY <1>1 DEF Alone
  <2>4. \A u \in Turns : ReadsCurrent(u) => ReadsCurrent(u)'
    BY <1>1 DEF memory, ReadsCurrent, Pending, NonEmpty
  <2> QED BY <1>1, <2>1, <2>2, <2>3, <2>4 DEF IInv
<1>2. ASSUME NEW t \in Turns, NEW ids \in SUBSET (Scenarios \union Unknown),
             create_custom_operational_situation(t, ids)
      PROVE  IInv'
  BY <1>1, <1>2 DEF create_custom_operational_situation
<1>3. ASSUME NEW t \in Turns, Tool(t)
      PROVE  IInv'
  <2>1. CASE extract_functions(t)
    <3>0. PICK item \in Items : \E def \in find_item_definition(item) :
              Begin(t, [tool |-> "extract_functions", item |-> item, def |-> def])
      BY <2>1 DEF extract_functions
    <3>1. PICK def \in find_item_definition(item) :
              Begin(t, [tool |-> "extract_functions", item |-> item, def |-> def])
      BY <3>0
    <3>2. def \in Items
      BY <1>0, HaraAssumption DEF find_item_definition, TypeOK
    <3> DEFINE call == [tool |-> "extract_functions", item |-> item, def |-> def]
    <3>3. call \in Calls /\ call.tool = "extract_functions"
      BY <3>2 DEF Calls
    <3> HIDE DEF call
    <3> QED BY <3>1, <3>3, BeginStep DEF call
  <2>2. CASE apply_hazop_analysis(t)
    <3> DEFINE call == [tool |-> "apply_hazop_analysis", functions |-> item_functions.run]
    <3>1. NonEmpty(item_functions) /\ Begin(t, call)
      BY <2>2 DEF apply_hazop_analysis
    <3>2. item_functions.run \in Nat
      BY <1>0, <3>1 DEF TypeOK, NonEmpty
    <3>3. call \in Calls /\ call.tool = "apply_hazop_analysis" /\ call.functions = item_functions.run
      BY <3>2 DEF Calls
    <3> HIDE DEF call
    <3> QED BY <3>1, <3>3, BeginStep
  <2>3. CASE assess_exposure_for_all_hazards(t)
    <3> DEFINE call == [tool |-> "assess_exposure_for_all_hazards", hazop |-> hazop_analysis.run]
    <3>1. NonEmpty(hazop_analysis) /\ hazop_analysis.text = "rows" /\ Begin(t, call)
      BY <2>3 DEF assess_exposure_for_all_hazards
    <3>2. hazop_analysis.run \in Nat
      BY <1>0, <3>1 DEF TypeOK, NonEmpty
    <3>3. call \in Calls /\ call.tool = "assess_exposure_for_all_hazards" /\ call.hazop = hazop_analysis.run
      BY <3>2 DEF Calls
    <3> HIDE DEF call
    <3> QED BY <3>1, <3>3, BeginStep
  <2>4. CASE generate_hara_table(t)
    <3> DEFINE call == [tool     |-> "generate_hara_table",
                        hazop    |-> hazop_analysis.run,
                        exposure |-> exposure_assessments.run]
    <3>1. NonEmpty(hazop_analysis) /\ NonEmpty(exposure_assessments) /\ Begin(t, call)
      BY <2>4 DEF generate_hara_table
    <3>2. hazop_analysis.run \in Nat /\ exposure_assessments.run \in Nat
      BY <1>0, <3>1 DEF TypeOK, NonEmpty
    <3>3. /\ call \in Calls /\ call.tool = "generate_hara_table" /\ call.hazop = hazop_analysis.run
          /\ call.exposure = exposure_assessments.run
      BY <3>2 DEF Calls
    <3> HIDE DEF call
    <3> QED BY <3>1, <3>3, BeginStep
  <2>5. CASE derive_safety_goals(t)
    <3> DEFINE call == [tool |-> "derive_safety_goals", table |-> hara_table.run]
    <3>1. NonEmpty(hara_table) /\ hara_table.text = "rows" /\ Begin(t, call)
      BY <2>5 DEF derive_safety_goals
    <3>2. hara_table.run \in Nat
      BY <1>0, <3>1 DEF TypeOK, NonEmpty
    <3>3. call \in Calls /\ call.tool = "derive_safety_goals" /\ call.table = hara_table.run
      BY <3>2 DEF Calls
    <3> HIDE DEF call
    <3> QED BY <3>1, <3>3, BeginStep
  <2>6. CASE StoreFunctions(t)
    <3>1. turn[t] # NotSet /\ turn[t].item \in Items /\ turn[t].def \in Items
      BY <1>0, <2>6 DEF StoreFunctions, Pending, TypeOK, Calls
    <3>2. PICK text \in Answers :
              item_functions' = [run |-> runs + 1, text |-> text,
                                 item |-> turn[t].item, def |-> turn[t].def]
      BY <2>6 DEF StoreFunctions
    <3>3. TypeOK'
      BY <1>0, <2>6, <3>1, <3>2 DEF StoreFunctions, End, TypeOK, Stages
    <3>4. StageBacked'
      BY <2>6, <3>2 DEF StoreFunctions, StageBacked
    <3> QED BY <2>6, <3>1, <3>3, <3>4, EndStep DEF StoreFunctions, End
  <2>7. CASE StoreHazop(t)
    <3>0. runs + 1 \in Nat
      BY <1>0 DEF TypeOK
    <3>1. turn[t] # NotSet /\ turn[t].functions \in Nat
      BY <1>0, <2>7 DEF StoreHazop, Pending, TypeOK, Calls
    <3>2. PICK text \in Answers \ {""} :
              hazop_analysis' = [run |-> runs + 1, text |-> text, functions |-> turn[t].functions]
      BY <2>7 DEF StoreHazop
    <3>3. TypeOK'
      <4>1. text \in Answers
        BY Zenon
      <4>2. hazop_analysis' \in [run : Nat, text : Answers, functions : Nat]
        BY <3>0, <3>1, <3>2, <4>1
      <4>3. turn' \in [Turns -> Calls \union {NotSet}] /\ runs' \in Nat
        BY <1>0, <2>7, <3>0 DEF StoreHazop, End, TypeOK
      <4> QED BY <1>0, <2>7, <4>2, <4>3 DEF StoreHazop, End, TypeOK, Stages
    <3>4. StageBacked'
      BY <2>7, <3>2 DEF StoreHazop, End, StageBacked, IInv, ReadsCurrent, NonEmpty
    <3> QED BY <2>7, <3>1, <3>3, <3>4, EndStep DEF StoreHazop, End
  <2>8. CASE StoreExposure(t)
    <3>1. turn[t] # NotSet /\ turn[t].hazop \in Nat
      BY <1>0, <2>8 DEF StoreExposure, Pending, TypeOK, Calls
    <3>2. PICK text \in Answers :
              exposure_assessments' = [run |-> runs + 1, text |-> text, hazop |-> turn[t].hazop]
      BY <2>8 DEF StoreExposure
    <3>3. TypeOK'
      BY <1>0, <2>8, <3>1, <3>2 DEF StoreExposure, End, TypeOK, Stages
    <3>4. StageBacked'
      BY <2>8, <3>2 DEF StoreExposure, End, StageBacked, IInv, ReadsCurrent, NonEmpty
    <3> QED BY <2>8, <3>1, <3>3, <3>4, EndStep DEF StoreExposure, End
  <2>9. CASE StoreTable(t)
    <3>1. turn[t] # NotSet /\ turn[t].hazop \in Nat /\ turn[t].exposure \in Nat
      BY <1>0, <2>9 DEF StoreTable, Pending, TypeOK, Calls
    <3>2. PICK text \in Answers :
              hara_table' = [run |-> runs + 1, text |-> text,
                             hazop |-> turn[t].hazop, exposure |-> turn[t].exposure]
      BY <2>9 DEF StoreTable
    <3>3. TypeOK'
      BY <1>0, <2>9, <3>1, <3>2 DEF StoreTable, End, TypeOK, Stages
    <3>4. StageBacked'
      BY <2>9, <3>2 DEF StoreTable, End, StageBacked, IInv, ReadsCurrent, NonEmpty
    <3> QED BY <2>9, <3>1, <3>3, <3>4, EndStep DEF StoreTable, End
  <2>10. CASE StoreGoals(t)
    <3>1. turn[t] # NotSet /\ turn[t].table \in Nat
      BY <1>0, <2>10 DEF StoreGoals, Pending, TypeOK, Calls
    <3>2. PICK text \in Answers :
              safety_goals' = [run |-> runs + 1, text |-> text, table |-> turn[t].table]
      BY <2>10 DEF StoreGoals
    <3>3. TypeOK'
      BY <1>0, <2>10, <3>1, <3>2 DEF StoreGoals, End, TypeOK, Stages
    <3>4. StageBacked'
      BY <2>10, <3>2 DEF StoreGoals, End, StageBacked, IInv, ReadsCurrent, NonEmpty
    <3> QED BY <2>10, <3>1, <3>3, <3>4, EndStep DEF StoreGoals, End
  <2>11. CASE LlmFails(t)
    <3>1. TypeOK' /\ StageBacked'
      BY <1>0, <2>11 DEF LlmFails, memory, IInv, TypeOK, StageBacked, NonEmpty
    <3> QED BY <2>11, <3>1, EndStep DEF LlmFails
  <2> QED BY <1>3, <2>1, <2>2, <2>3, <2>4, <2>5, <2>6, <2>7, <2>8, <2>9, <2>10, <2>11 DEF Tool
<1> QED BY <1>1, <1>2, <1>3 DEF Next, vars

\* Until two chat turns of the user overlap, the stage that
\* explain_hara_workflow shows was computed from what the step before it left
\* in the working memory, for every order of calls and re-runs of earlier steps.
THEOREM StageBackedHolds == Spec => []StageBacked
<1>1. Init => IInv
  <2> SUFFICES ASSUME Init PROVE IInv
    OBVIOUS
  <2>1. TypeOK
    BY DEF Init, TypeOK, Stages
  <2>2. StageBacked
    BY DEF Init, StageBacked
  <2>3. \A t \in Turns : turn[t] = NotSet
    BY DEF Init
  <2> QED BY <2>1, <2>2, <2>3 DEF IInv, Alone, ReadsCurrent, Pending
<1>2. IInv => StageBacked
  BY DEF IInv
<1> QED BY <1>1, <1>2, InvStep, PTL DEF Spec

-----------------------------------------------------------------------------
(* The risk tables *)

LEMMA ValueRange == \A level : get_exposure_value(level) \in 0 .. 4
BY DEF get_exposure_value

LEMMA LevelRoundTrip == \A n \in 0 .. 4 : get_exposure_value(get_exposure_level(n)) = n
<1> SUFFICES ASSUME NEW n \in 0 .. 4
             PROVE  get_exposure_value(Levels[n + 1]) = n
  BY DEF get_exposure_level
<1>1. \A m \in 0 .. 4 : Levels[m + 1] = Levels[n + 1] <=> m = n
  BY DEF Levels
<1>2. {m \in 0 .. 4 : Levels[m + 1] = Levels[n + 1]} = {n}
  BY <1>1
<1> QED BY <1>2 DEF get_exposure_value

LEMMA MinOfLevels ==
    ASSUME NEW S \in SUBSET (0 .. 4), S # {}
    PROVE  Min(S) \in S /\ \A e \in S : Min(S) <= e
<1> DEFINE Least(x) == x \in S /\ \A y \in S : x <= y
<1>1. CASE 0 \in S
  <2>1. Least(0)
    BY <1>1
  <2> QED BY <2>1 DEF Min
<1>2. CASE 0 \notin S /\ 1 \in S
  <2>1. Least(1)
    BY <1>2
  <2> QED BY <2>1 DEF Min
<1>3. CASE 0 \notin S /\ 1 \notin S /\ 2 \in S
  <2>1. Least(2)
    BY <1>3
  <2> QED BY <2>1 DEF Min
<1>4. CASE 0 \notin S /\ 1 \notin S /\ 2 \notin S /\ 3 \in S
  <2>1. Least(3)
    BY <1>4
  <2> QED BY <2>1 DEF Min
<1>5. CASE 0 \notin S /\ 1 \notin S /\ 2 \notin S /\ 3 \notin S
  <2>0. \A y \in 0 .. 4 : y = 0 \/ y = 1 \/ y = 2 \/ y = 3 \/ y = 4
    OBVIOUS
  <2>1. \A y \in S : y = 4
    <3> TAKE y \in S
    <3>1. y \in 0 .. 4
      OBVIOUS
    <3> QED BY <1>5, <2>0, <3>1
  <2>2. PICK z : z \in S
    OBVIOUS
  <2>3. Least(4)
    BY <2>1, <2>2
  <2> QED BY <2>3 DEF Min
<1> QED BY <1>1, <1>2, <1>3, <1>4, <1>5

\* operational_situation_tool.py: whatever the database says and whatever ids
\* are named, a combination of situations is as frequent as its rarest one.
THEOREM CombinedIsRarestHolds == CombinedIsRarest
<1> SUFFICES ASSUME NEW ids \in SUBSET (Scenarios \union Unknown),
                    {get_exposure_value(Exposure[i]) : i \in ids \intersect Scenarios} # {}
             PROVE  LET combined == get_exposure_value(calculate_combined_exposure(ids))
                        exposures == {get_exposure_value(Exposure[i]) : i \in ids \intersect Scenarios}
                    IN  combined \in exposures /\ \A e \in exposures : combined <= e
  BY DEF CombinedIsRarest
<1> DEFINE S == {get_exposure_value(Exposure[i]) : i \in ids \intersect Scenarios}
<1>1. S \in SUBSET (0 .. 4) /\ S # {}
  BY ValueRange
<1>2. calculate_combined_exposure(ids) = get_exposure_level(Min(S))
  BY <1>1 DEF calculate_combined_exposure
<1> HIDE DEF S
<1>3. Min(S) \in S /\ Min(S) \in 0 .. 4 /\ \A e \in S : Min(S) <= e
  BY <1>1, MinOfLevels
<1>4. get_exposure_value(calculate_combined_exposure(ids)) = Min(S)
  BY <1>2, <1>3, LevelRoundTrip
<1> QED BY <1>3, <1>4 DEF S
=============================================================================
