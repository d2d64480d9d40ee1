------------------------------- MODULE Derive -------------------------------
(***************************************************************************)
(* Tip derivation (internal/engine/derive.go): where a cell is, computed    *)
(* from the store alone.  It runs when the process starts, when the lease  *)
(* is gained, at every pass of a repair and in the operator's tool, and it *)
(* is the only thing that decides, after a crash, which output is spent    *)
(* next.  The bytes it fetches to rebuild the tip are the transaction      *)
(* itself here, so a tip is just the transaction derivation settles on.    *)
(***************************************************************************)
EXTENDS History

CONSTANTS
  TipDepth,     \* rows of one cell derivation reads (8 in the code)
  MaxWreckage   \* rejections above the tip recovery may examine (3)

\* The compile-time assertion  const _ = uint(tipDepth - maxWreckage - 1).
ASSUME WreckageFitsWindow ==
  TipDepth \in Nat /\ MaxWreckage \in Nat /\ TipDepth > MaxWreckage

\* A position that says nothing but where the tip is.
At(tip) ==
  [tip |-> tip, halted |-> FALSE, unknown |-> FALSE, attempted |-> 0,
   rejected |-> FALSE, rejectedAt |-> 0, rejection |-> NoRow]

\* Mutant: a cascade is offered to recovery like any other pile.
NoteRejectionAnyPile(p, rows, failures) ==
  IF failures = {} THEN p
  ELSE LET at == Oldest(failures)
       IN  [p EXCEPT !.halted = TRUE, !.rejected = TRUE,
                     !.rejectedAt = at, !.rejection = rows[at]]

\* A cascade offers nothing to recovery; ordinary wreckage offers its oldest
\* failure, "at", as a possible verdict about the tip.
NoteRejection(p, rows, failures) ==
  IF failures = {} THEN p
  ELSE IF Cardinality(failures) > MaxWreckage THEN [p EXCEPT !.halted = TRUE]
  ELSE LET at == Oldest(failures)
       IN  [p EXCEPT !.halted = TRUE, !.rejected = TRUE,
                     !.rejectedAt = at, !.rejection = rows[at]]

\* Mutant: a write-ahead row is taken for a transition that never happened.
NoteAttemptIgnored(p, gen) == [p EXCEPT !.attempted = gen + 1]

NoteAttempt(p, gen) ==
  [p EXCEPT !.halted = TRUE, !.unknown = TRUE, !.attempted = gen + 1]

\* Nothing settled in the window: either the cell is buried, or it has an
\* attempt on top of an old tip, or no tip can be derived for it at all.
DeriveDeep(rows) ==
  LET deep == DeepTip(rows)
      p    == At(rows[deep.settled].txid)
  IN  IF ~deep.hasSettled THEN [At(NoTx) EXCEPT !.halted = TRUE]
      ELSE IF deep.hasFailed THEN [p EXCEPT !.halted = TRUE]
      ELSE IF deep.hasAttempt THEN NoteAttempt(p, deep.settled)
      ELSE p

DeriveWindow(rows, window) ==
  LET base     == Newest(SettledIn(rows, window))
      above    == {g \in window : g > base}
      failures == WithStatus(rows, above, "failed")
      attempts == WithStatus(rows, above, "attempting")
      p        == NoteRejection(At(rows[base].txid), rows, failures)
  IN  IF attempts # {} /\ Cardinality(failures) <= MaxWreckage
        THEN NoteAttempt(p, base)
        ELSE p

DeriveTip(rows) ==
  LET window == CellTips(rows, TipDepth)
  IN  IF window = {} THEN At(Genesis)
      ELSE IF SettledIn(rows, window) = {} THEN DeriveDeep(rows)
      ELSE DeriveWindow(rows, window)
=============================================================================
