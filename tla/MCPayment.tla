------------------------------ MODULE MCPayment ------------------------------
(***************************************************************************)
(* Instances of Payment for TLC: an ordinary payment, one of another       *)
(* chain, one already mined and one below the minimum, and a process with  *)
(* two requests under way.                                                 *)
(***************************************************************************)
EXTENDS Payment

CONSTANTS p1, p2, p3, p4, s1, h1, h2

MCSatoshis == [p \in Payments |-> IF p = p4 THEN 1 ELSE 2]
MCServerOf == [h \in Handlers |-> s1]
=============================================================================
