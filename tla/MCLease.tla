------------------------------- MODULE MCLease -------------------------------
(***************************************************************************)
(* Instances of Lease for TLC: two engines and one tool whose clocks are   *)
(* one unit apart.                                                         *)
(***************************************************************************)
EXTENDS Lease

CONSTANTS e1, e2, t1

MCSkew == [p \in Procs |-> IF p = e2 THEN 1 ELSE 0]
=============================================================================
