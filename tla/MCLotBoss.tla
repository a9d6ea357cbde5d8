----------------------------- MODULE MCLotBoss ------------------------------
(***************************************************************************)
(* Instances of LotBoss for TLC.  World ids are interchangeable.           *)
(***************************************************************************)
EXTENDS LotBoss, TLC

CONSTANTS w1, w2, w3, e1

WorldSymmetry == Permutations(Worlds)
=============================================================================
