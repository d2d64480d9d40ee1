----------------------------- MODULE MCAudit -----------------------------
(***************************************************************************)
(* Instances of Audit for TLC: a ring of four cells in two bytes, so that  *)
(* a cell's neighbourhood crosses a byte boundary and the ring's end, and  *)
(* one cell of the ring lies outside it.                                   *)
(***************************************************************************)
EXTENDS Audit

MCSeeds == {{0}, {1, 3}}
MCFaults == Harmless \cup
  {"minted_row", "minted_cell", "strayed_far", "strayed_near", "wrong_bit",
   "wrong_output", "unlinked", "unbound", "row", "crossed", "disguised"}

===========================================================================
