------------------------------- MODULE MCBoot -------------------------------
(***************************************************************************)
(* Instances of Boot for TLC: two processes, so that one can wait while the *)
(* other leads and take over from it, and a fan-out of two rounds.          *)
(***************************************************************************)
EXTENDS Boot
=============================================================================
