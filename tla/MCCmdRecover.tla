---------------------------- MODULE MCCmdRecover ----------------------------
(***************************************************************************)
(* The instance of CmdRecover TLC checks.                                  *)
(***************************************************************************)
EXTENDS CmdRecover
=============================================================================
