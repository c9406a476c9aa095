----------------------------- MODULE MCRingSpsc -----------------------------
(***************************************************************************)
(* TLC instance of RingSpsc: four slots, the size the tests use, and twice *)
(* as many pushes as slots, so that front_ and back_ both wrap and the     *)
(* ring rolls over at every position.                                      *)
(***************************************************************************)
EXTENDS RingSpsc

MCN       == 4
MCMaxPush == 9
=============================================================================
