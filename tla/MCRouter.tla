------------------------------ MODULE MCRouter ------------------------------
(***************************************************************************)
(* Instances of Router for TLC.                                            *)
(***************************************************************************)
EXTENDS Router

CONSTANTS r1, r2, s1, s2, w1, w2
=============================================================================
