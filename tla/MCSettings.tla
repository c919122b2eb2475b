----------------------------- MODULE MCSettings -----------------------------
(***************************************************************************)
(* Instance of Settings: two threads.  Behaviours are followed up to the first  *)
(* crossing or failure: nothing is claimed of what comes after.               *)
(***************************************************************************)
EXTENDS Settings, TLC

Uncrossed == ~crossed /\ ~failed

Symmetry == Permutations(Threads)

PluginLists == {{"plugin"}, {"core_plugin"}}
=============================================================================
