------------------------------ MODULE MCClock ------------------------------
(* Clock with a 4-bit counter.                                             *)
EXTENDS Clock
=============================================================================
