------------------------------ MODULE MCFleet -------------------------------
(***************************************************************************)
(* Instances of Fleet for TLC.                                             *)
(***************************************************************************)
EXTENDS Fleet, TLC

CONSTANTS r1, r2, r3, s1, w1

FleetSymmetry == Permutations(Requests) \cup Permutations(Worlds)
=============================================================================
