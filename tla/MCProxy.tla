------------------------------ MODULE MCProxy -------------------------------
(***************************************************************************)
(* Instances of Proxy for TLC: two names, one of them allowed, and an      *)
(* address.                                                                *)
(***************************************************************************)
EXTENDS Proxy

CONSTANTS a, b, v6
=============================================================================
