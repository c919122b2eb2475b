---------------------------- MODULE MCReviewRace ----------------------------
(* Small instances of ReviewRace. *)
EXTENDS ReviewRace, TLC

ThreadSymmetry == Permutations(Threads)
=============================================================================
