------------------------------- MODULE MCFeed -------------------------------
(***************************************************************************)
(* Instances of Feed for TLC.  Browsers share nothing but what is          *)
(* published, so one is enough.                                            *)
(***************************************************************************)
EXTENDS Feed
=============================================================================
