------------------------------ MODULE MCBreaker ------------------------------
(***************************************************************************)
(* Instances of Breaker for TLC.                                           *)
(***************************************************************************)
EXTENDS Breaker

CONSTANTS g1, g2, g3
=============================================================================
