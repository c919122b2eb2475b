----------------------------- MODULE MCCatForm ------------------------------
(* Two turns of one user. *)
EXTENDS CatForm
=============================================================================
