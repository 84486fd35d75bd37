------------------------------ MODULE MCServer ------------------------------
(***************************************************************************)
(* Server for TLC.  No symmetry: a liveness property is checked.           *)
(***************************************************************************)
EXTENDS Server
=============================================================================
