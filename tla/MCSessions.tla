----------------------------- MODULE MCSessions -----------------------------
(* Small instances of Sessions. *)
EXTENDS Sessions, TLC

ActorSymmetry == Permutations(Sockets) \union Permutations(Requests)
=============================================================================
