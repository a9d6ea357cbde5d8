---------------------------- MODULE MCWorldStart ----------------------------
(***************************************************************************)
(* Instances of WorldStart for TLC.                                        *)
(***************************************************************************)
EXTENDS WorldStart
=============================================================================
