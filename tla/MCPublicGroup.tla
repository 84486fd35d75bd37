--------------------------- MODULE MCPublicGroup ---------------------------
(***************************************************************************)
(* PublicGroup and its refinement for TLC.                                 *)
(***************************************************************************)
EXTENDS PublicGroupRefinement, TLC

\* Usernames are only compared for equality.
Symmetry == Permutations(Usernames)
=============================================================================
