------------------------------ MODULE CellChain ------------------------------
(***************************************************************************)
(* What the program promises of one cell, said without a store, a lease, a *)
(* worker or a crash: the cell is a chain of transactions that grows at    *)
(* its end, one transaction at a time; the network takes it from the       *)
(* front; and nothing but a refusal shortens it, from the refused          *)
(* transaction to the end, never into what the network has taken.          *)
(***************************************************************************)
EXTENDS Integers

CONSTANTS
  Tx,       \* the transactions a cell may sign
  MaxGen    \* bound: the highest generation a cell may reach

VARIABLES
  at,       \* what stands: each generation with the transaction that stands there
  taken     \* the newest generation the network has taken

vars == <<at, taken>>

End == LET gens == {p[1] : p \in at}
       IN  CHOOSE g \in gens : \A h \in gens : h <= g

Init ==
  /\ taken = 0
  /\ \E genesis \in Tx : at = {<<0, genesis>>}

Extend(t) ==
  /\ End < MaxGen
  /\ \A p \in at : p[2] # t
  /\ at' = at \cup {<<End + 1, t>>}
  /\ UNCHANGED taken

Take ==
  /\ taken < End
  /\ taken' = taken + 1
  /\ UNCHANGED at

Refuse(g) ==
  /\ g \in taken + 1 .. End
  /\ at' = {p \in at : p[1] < g}
  /\ UNCHANGED taken

Next == (\E t \in Tx : Extend(t)) \/ Take \/ (\E g \in 0 .. MaxGen : Refuse(g))

Spec == Init /\ [][Next]_vars
=============================================================================
