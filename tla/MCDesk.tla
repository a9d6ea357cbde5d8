------------------------------- MODULE MCDesk -------------------------------
(***************************************************************************)
(* Instances of Desk for TLC.  World ids a and b have files of their own;  *)
(* a and c are two ids that sanitizeID maps to one name, as x/y and x_y.   *)
(***************************************************************************)
EXTENDS Desk, TLC

CONSTANTS a, b, c, fa, fb

ThreeWorlds == {a, b, c}
TwoFiles == {fa, fb}

SharedFile == (a :> fa) @@ (b :> fb) @@ (c :> fa)

\* a and c may be exchanged: they have the same file
Twins == Permutations({a, c})
=============================================================================
