---------------------------- MODULE MCCellEngine ----------------------------
(***************************************************************************)
(* Instances of CellEngine for TLC.  A configuration chooses the bounds    *)
(* and the set of events; every other definition is CellEngine's.          *)
(***************************************************************************)
EXTENDS CellEngine
=============================================================================
