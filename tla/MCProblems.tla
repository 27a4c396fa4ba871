----------------------------- MODULE MCProblems -----------------------------
(* Symmetry for TLC's runs of module Problems, which have no temporal       *)
(* property: users start alike, and requests and session ids are but names. *)
EXTENDS ProblemsInvariant, TLC

ProblemSymmetry ==
  Permutations(Users) \cup Permutations(Logins) \cup Permutations(Ids) \cup Permutations(Creations)
=============================================================================
