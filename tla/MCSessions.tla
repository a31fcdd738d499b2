----------------------------- MODULE MCSessions -----------------------------
(* Sessions on small instances. *)
EXTENDS Sessions, TLC

\* Workers, users and access tokens have no identity of their own.
Symmetry == Permutations(Workers) \cup Permutations(Users) \cup Permutations(Jtis)
=============================================================================
