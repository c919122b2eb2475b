----------------------------- MODULE MCHookRace -----------------------------
(***************************************************************************)
(* Instance of HookRace: the event loop and one thread of the pool, and two     *)
(* plugins.                                                                    *)
(***************************************************************************)
EXTENDS HookRace

Priorities == [p \in {"core", "a"} |-> IF p = "core" THEN 0 ELSE 1]

\* The turn is over: nothing more is claimed of it.
Turning == stage \notin {"done", "not_present", "aborted"}
=============================================================================
