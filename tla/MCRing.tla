------------------------------- MODULE MCRing -------------------------------
(***************************************************************************)
(* Instances of Ring for TLC: two cells are enough for one to be slower,   *)
(* to halt, or to probe while the other is in flight.                      *)
(***************************************************************************)
EXTENDS Ring
=============================================================================
