---------------------------- MODULE HaraWorkflow ----------------------------
(***************************************************************************)
(* The five-step HARA workflow of AI_Agent-HARA_Assistant.                 *)
(*                                                                         *)
(* The steps keep their results in the working memory of the user.  Each   *)
(* tool reads its inputs there, asks the LLM, and stores the answer, so a  *)
(* tool is a step that reads and a step that stores; two chat turns of one *)
(* user share the working memory.                                          *)
(*                                                                         *)
(* A result is abstracted to the run that made it, the runs its inputs     *)
(* came from, and what later steps look for in its text: "" (empty),       *)
(* "text" (no row the next step would pick up) or "rows".                  *)
(***************************************************************************)
EXTENDS Naturals, RiskTables

CONSTANTS
    Items,       \* names of items under analysis
    TextFiles,   \* items with a .txt or .md item definition on disk
    PdfFiles,    \* items with a .pdf item definition on disk
    Turns,       \* chat turns of the user that may run at the same time
    MaxRuns,     \* bound on the number of stored LLM answers
    MaxCustom,   \* bound on the custom situations
    NotSet       \* a working memory key that is absent

ASSUME HaraAssumption ==
    /\ TextFiles \subseteq Items /\ PdfFiles \subseteq Items
    /\ MaxRuns \in Nat /\ MaxCustom \in Nat

VARIABLES
    hara_item_name, item_definition_content, item_functions, hazop_analysis,
    exposure_assessments, hara_table, safety_goals, hara_stage,
    custom_operational_situations,
    turn,        \* turn[t]: the tool call waiting for the LLM, or NotSet
    runs,        \* number of answers stored so far
    raced        \* history: two turns have overlapped

memory == <<hara_item_name, item_definition_content, item_functions, hazop_analysis,
            exposure_assessments, hara_table, safety_goals, hara_stage>>

vars == <<memory, custom_operational_situations, turn, runs, raced>>

Stages == {"not_started", "functions_extracted", "hazop_completed",
           "exposure_assessed", "table_generated", "safety_goals_derived"}

Answers == {"", "text", "rows"}

\* working_memory.get(key, "") is truthy
NonEmpty(d) == d # NotSet /\ d.text # ""

-----------------------------------------------------------------------------
(* Reading the inputs *)

\* The working memory wins; otherwise the first text file in listing order,
\* whatever item it describes, or a PDF that names the item.
find_item_definition(item) ==
    IF item_definition_content # NotSet THEN {item_definition_content}
    ELSE TextFiles \union (PdfFiles \intersect {item})

NoteRace(t) == raced' = (raced \/ \E u \in Turns \ {t} : turn[u] # NotSet)

Begin(t, call) ==
    /\ turn[t] = NotSet
    /\ turn' = [turn EXCEPT ![t] = call]
    /\ NoteRace(t)
    /\ UNCHANGED <<memory, runs>>

extract_functions(t) ==
    \E item \in Items : \E def \in find_item_definition(item) :
        Begin(t, [tool |-> "extract_functions", item |-> item, def |-> def])

apply_hazop_analysis(t) ==
    /\ NonEmpty(item_functions)
    /\ Begin(t, [tool |-> "apply_hazop_analysis", functions |-> item_functions.run])

assess_exposure_for_all_hazards(t) ==
    /\ NonEmpty(hazop_analysis)
    /\ hazop_analysis.text = "rows"
    /\ Begin(t, [tool |-> "assess_exposure_for_all_hazards", hazop |-> hazop_analysis.run])

\* Mutant of generate_hara_table: the HAZOP check guards both inputs.
TableWithoutExposureCheck(t) ==
    /\ NonEmpty(hazop_analysis)
    /\ exposure_assessments # NotSet
    /\ Begin(t, [tool     |-> "generate_hara_table",
                 hazop    |-> hazop_analysis.run,
                 exposure |-> exposure_assessments.run])

generate_hara_table(t) ==
    /\ NonEmpty(hazop_analysis)
    /\ NonEmpty(exposure_assessments)
    /\ Begin(t, [tool     |-> "generate_hara_table",
                 hazop    |-> hazop_analysis.run,
                 exposure |-> exposure_assessments.run])

derive_safety_goals(t) ==
    /\ NonEmpty(hara_table)
    /\ hara_table.text = "rows"
    /\ Begin(t, [tool |-> "derive_safety_goals", table |-> hara_table.run])

-----------------------------------------------------------------------------
(* Storing the answer *)

Pending(t, tool) == turn[t] # NotSet /\ turn[t].tool = tool

End(t) ==
    /\ runs < MaxRuns
    /\ turn' = [turn EXCEPT ![t] = NotSet]
    /\ runs' = runs + 1
    /\ UNCHANGED raced

StoreFunctions(t) ==
    /\ Pending(t, "extract_functions")
    /\ \E text \in Answers :
           item_functions' = [run |-> runs + 1, text |-> text,
                              item |-> turn[t].item, def |-> turn[t].def]
    /\ hara_item_name' = turn[t].item
    /\ item_definition_content' = turn[t].def
    /\ hara_stage' = "functions_extracted"
    /\ End(t)
    /\ UNCHANGED <<hazop_analysis, exposure_assessments, hara_table, safety_goals>>

\* The stored table has at least its header.
StoreHazop(t) ==
    /\ Pending(t, "apply_hazop_analysis")
    /\ \E text \in Answers \ {""} :
           hazop_analysis' = [run |-> runs + 1, text |-> text, functions |-> turn[t].functions]
    /\ hara_stage' = "hazop_completed"
    /\ End(t)
    /\ UNCHANGED <<hara_item_name, item_definition_content, item_functions,
                   exposure_assessments, hara_table, safety_goals>>

StoreExposure(t) ==
    /\ Pending(t, "assess_exposure_for_all_hazards")
    /\ \E text \in Answers :
           exposure_assessments' = [run |-> runs + 1, text |-> text, hazop |-> turn[t].hazop]
    /\ hara_stage' = "exposure_assessed"
    /\ End(t)
    /\ UNCHANGED <<hara_item_name, item_definition_content, item_functions, hazop_analysis,
                   hara_table, safety_goals>>

StoreTable(t) ==
    /\ Pending(t, "generate_hara_table")
    /\ \E text \in Answers :
           hara_table' = [run |-> runs + 1, text |-> text,
                          hazop |-> turn[t].hazop, exposure |-> turn[t].exposure]
    /\ hara_stage' = "table_generated"
    /\ End(t)
    /\ UNCHANGED <<hara_item_name, item_definition_content, item_functions, hazop_analysis,
                   exposure_assessments, safety_goals>>

StoreGoals(t) ==
    /\ Pending(t, "derive_safety_goals")
    /\ \E text \in Answers :
           safety_goals' = [run |-> runs + 1, text |-> text, table |-> turn[t].table]
    /\ hara_stage' = "safety_goals_derived"
    /\ End(t)
    /\ UNCHANGED <<hara_item_name, item_definition_content, item_functions, hazop_analysis,
                   exposure_assessments, hara_table>>

\* The LLM raises, or the HAZOP of every function came back without a row.
LlmFails(t) ==
    /\ turn[t] # NotSet
    /\ turn' = [turn EXCEPT ![t] = NotSet]
    /\ UNCHANGED <<memory, runs, raced>>

\* A tool without an LLM call, in a turn of its own.  Ids the database does not
\* have are ignored; with no other the tool returns an error.
create_custom_operational_situation(t, scenario_ids) ==
    /\ turn[t] = NotSet
    /\ scenario_ids \intersect Scenarios # {}
    /\ Len(custom_operational_situations) < MaxCustom
    /\ custom_operational_situations' =
           Append(custom_operational_situations,
                  [component_scenarios |-> scenario_ids \intersect Scenarios,
                   combined_exposure   |-> calculate_combined_exposure(scenario_ids)])
    /\ UNCHANGED <<memory, turn, runs, raced>>

-----------------------------------------------------------------------------

Init ==
    /\ custom_operational_situations = <<>>
    /\ hara_item_name = NotSet /\ item_definition_content = NotSet
    /\ item_functions = NotSet /\ hazop_analysis = NotSet
    /\ exposure_assessments = NotSet /\ hara_table = NotSet /\ safety_goals = NotSet
    /\ hara_stage = "not_started"
    /\ turn = [t \in Turns |-> NotSet]
    /\ runs = 0 /\ raced = FALSE

Tool(t) ==
    \/ extract_functions(t) \/ StoreFunctions(t)
    \/ apply_hazop_analysis(t) \/ StoreHazop(t)
    \/ assess_exposure_for_all_hazards(t) \/ StoreExposure(t)
    \/ generate_hara_table(t) \/ StoreTable(t)
    \/ derive_safety_goals(t) \/ StoreGoals(t)
    \/ LlmFails(t)

Next ==
    \/ \E t \in Turns : Tool(t) /\ UNCHANGED custom_operational_situations
    \/ \E t \in Turns, scenario_ids \in SUBSET (Scenarios \union Unknown) :
          create_custom_operational_situation(t, scenario_ids)

Spec == Init /\ [][Next]_vars
-----------------------------------------------------------------------------
(* Properties *)

\* Until two chat turns of the user overlap, the step the stage names was
\* computed from what the step before it left in memory, and from something:
\* re-running an earlier step always takes the stage back, so
\* explain_hara_workflow never shows a step as the last one done when its input
\* has been replaced since.
StageBacked ==
    ~raced =>
        /\ hara_stage = "functions_extracted" =>
               /\ hara_item_name = item_functions.item
               /\ item_definition_content = item_functions.def
        /\ hara_stage = "hazop_completed" =>
               /\ NonEmpty(item_functions)
               /\ hazop_analysis.functions = item_functions.run
        /\ hara_stage = "exposure_assessed" =>
               /\ hazop_analysis.text = "rows"
               /\ exposure_assessments.hazop = hazop_analysis.run
        /\ hara_stage = "table_generated" =>
               /\ NonEmpty(exposure_assessments)
               /\ hara_table.exposure = exposure_assessments.run
               /\ hara_table.hazop = hazop_analysis.run
        /\ hara_stage = "safety_goals_derived" =>
               /\ hara_table.text = "rows"
               /\ safety_goals.table = hara_table.run
=============================================================================
