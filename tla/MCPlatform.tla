----------------------------- MODULE MCPlatform ------------------------------
(* Platform on a small instance. *)
EXTENDS Platform, TLC

AllStatuses == Statuses

Symmetry == Permutations(Users) \cup Permutations(Workers) \cup Permutations(EventIds)
=============================================================================
