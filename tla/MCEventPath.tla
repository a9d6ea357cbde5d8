---------------------------- MODULE MCEventPath -----------------------------
(***************************************************************************)
(* Instances of EventPath for TLC.                                         *)
(***************************************************************************)
EXTENDS EventPath, TLC

CONSTANTS e1, e2, e3

(* Execs are interchangeable until one of them begins. *)
Alike == Permutations(Execs)
=============================================================================
