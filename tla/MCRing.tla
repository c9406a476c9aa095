------------------------------- MODULE MCRing -------------------------------
(***************************************************************************)
(* TLC instance of Ring: three slots, two values, and every policy at once. *)
(***************************************************************************)
EXTENDS Ring

CONSTANTS v1, v2

MCValue == {v1, v2}
=============================================================================
