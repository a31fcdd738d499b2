--------------------------- MODULE MCSubmissions ----------------------------
(* The instances of Submissions that TLC checks. *)
EXTENDS Submissions, TLC

\* Requests, submissions and their texts have no identity of their own.
Symmetry == Permutations(Workers) \cup Permutations(SubIds) \cup Permutations(Texts)
=============================================================================
