------------------------------ MODULE MCUsers ------------------------------
(***************************************************************************)
(* Users for TLC.                                                          *)
(***************************************************************************)
EXTENDS Users, TLC

\* Sockets and names are only compared for equality.
Symmetry == Permutations(Sockets) \cup Permutations(Names)
=============================================================================
