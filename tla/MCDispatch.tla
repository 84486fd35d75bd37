----------------------------- MODULE MCDispatch -----------------------------
(***************************************************************************)
(* Dispatch for TLC.  Packets and slots are ordered, so there is no        *)
(* symmetry.                                                               *)
(***************************************************************************)
EXTENDS Dispatch
=============================================================================
