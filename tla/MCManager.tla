----------------------------- MODULE MCManager -----------------------------
(***************************************************************************)
(* Manager for TLC.                                                        *)
(***************************************************************************)
EXTENDS Manager

\* Sockets are only compared for equality.
Symmetry == Permutations(Sockets)
=============================================================================
