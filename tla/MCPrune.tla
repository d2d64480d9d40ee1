------------------------------- MODULE MCPrune -------------------------------
(***************************************************************************)
(* Instances of Prune for TLC.                                             *)
(***************************************************************************)
EXTENDS Prune

CONSTANTS c1, c2

=============================================================================
