------------------------ MODULE MCSafetyLifecycle ------------------------
(* Every work product once and two competing safety concepts. *)
EXTENDS SafetyLifecycle, TLC

WpOf == [a \in {"plan", "hara", "fsc", "fsc2", "tsc", "hw", "sw", "manual", "case"} |->
            CASE a = "plan"   -> "WP-SAFETYPLAN"
              [] a = "hara"   -> "WP-HARA"
              [] a = "tsc"    -> "WP-TSC"
              [] a = "hw"     -> "WP-HW-SRS"
              [] a = "sw"     -> "WP-SW-SRS"
              [] a = "manual" -> "WP-SAFETYMANUAL"
              [] a = "case"   -> "WP-SAFETYCASE"
              [] OTHER        -> "WP-FSC"]

ProjectSymmetry == Permutations(Projects)
=============================================================================
