----------------------------- MODULE MCPasskeys -----------------------------
(* Passkeys on a small instance. *)
EXTENDS Passkeys, TLC

\* Requests and challenges have no identity of their own.
Symmetry == Permutations(Workers) \cup Permutations(SessionIds) \cup Permutations(Users)
=============================================================================
