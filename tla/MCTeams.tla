------------------------------- MODULE MCTeams -------------------------------
(* Teams on small instances. *)
EXTENDS Teams, TLC

\* Users are told apart by their requests alone, workers by nothing.
Symmetry == Permutations(Workers) \cup Permutations(Users) \cup Permutations(TeamIds)
            \cup Permutations(Names) \cup Permutations(Codes)
=============================================================================
