------------------------------ MODULE Recovery ------------------------------
(***************************************************************************)
(* The decision recovery makes about one derived position, and what it     *)
(* writes (internal/chain/recover.go, internal/engine/recovery.go).  The    *)
(* evidence is the wallet's list of actions for the cell and what the      *)
(* network says; both are read off "tx", the table of every transaction    *)
(* the wallet has created for the cell.                                    *)
(***************************************************************************)
EXTENDS Derive

CONSTANT
  MaxTx  \* bound: the number of actions the wallet may create for the cell

ASSUME MaxTxAssumption == MaxTx \in Nat

TxIds == 0 .. MaxTx

\* "created" is an action the wallet holds with no txid; "sent" is signed and
\* therefore offered to the network; the rest is the network's answer.
TxState == {"none", "created", "sent", "seen", "mined", "refused"}

\* What is known of one transaction: the generation it proves, the transaction
\* whose output it spends, and the spender its refusal named.
Action == [gen : Gens, parent : TxIds \cup {NoTx}, st : TxState,
           by : TxIds \cup {NoTx}]

CellTx == [status : Status, txid : TxIds \cup {NoTx}, err : Reason,
           by : TxIds \cup {NoTx}]

CellPosition ==
  [tip : TxIds \cup {NoTx}, halted : BOOLEAN, unknown : BOOLEAN,
   attempted : 0 .. MaxGen + 1, rejected : BOOLEAN, rejectedAt : Gens,
   rejection : CellTx]

\* Transactions that spend their parent, or may.
Live(tx) == {t \in TxIds : tx[t].st \in {"sent", "seen", "mined"}}

Signed(tx) == Live(tx) \cup {t \in TxIds : tx[t].st = "refused"}

Accepted(tx) == {t \in TxIds : tx[t].st \in {"seen", "mined"}}

\* CellActions: the newest n actions of the cell, in the wallet's order.
CellActions(tx, n) ==
  {t \in TxIds \ {Genesis} : /\ tx[t].st # "none"
                             /\ t + n \in TxIds => tx[t + n].st = "none"}

Verdict(v, tip, steps) == [verdict |-> v, tip |-> tip, steps |-> steps]
Halt(p) == Verdict("halt", p.tip, {})
Resume(p) == Verdict("resume", p.tip, {})

(***************************************************************************)
(* walkForward.  byGen keeps the last action listed for a generation, and  *)
(* wf is the set of refused transactions the wallet has marked failed.     *)
(* The walk stops at the first generation whose action is not a verified   *)
(* successor of the one before it; an unsigned action ends the chain, and  *)
(* anything else halts the cell.                                           *)
(***************************************************************************)
WalkForward(p, tx, page, newestGen, wf) ==
  LET from      == tx[p.tip].gen + 1
      at(g)     == {t \in page : tx[t].gen = g}
      byGen(g)  == Newest(at(g))
      before(g) == IF g = from THEN p.tip ELSE byGen(g - 1)
      linked(g) == /\ at(g) # {}
                   /\ byGen(g) \in Signed(tx) \ wf
                   /\ g > from => at(g - 1) # {}
                   /\ tx[byGen(g)].parent = before(g)
      broken    == {g \in from .. newestGen : ~linked(g)}
      steps(to) == {byGen(g) : g \in from .. to}
      stop      == Oldest(broken)
  IN  IF broken = {} THEN Verdict("adopt", byGen(newestGen), steps(newestGen))
      ELSE IF at(stop) = {} \/ byGen(stop) \in Signed(tx) THEN Halt(p)
      ELSE IF stop = from THEN Resume(p)
      ELSE Verdict("adopt", byGen(stop - 1), steps(stop - 1))

\* RecoverCell.  newestCellAction keeps the FIRST action listed at the highest
\* generation, where byGen keeps the last.
RecoverCell(p, tx, wf) ==
  LET page      == CellActions(tx, TipDepth)
      newestGen == Newest({tx[t].gen : t \in page})
      newest    == Oldest({t \in page : tx[t].gen = newestGen})
      tipGen    == tx[p.tip].gen
  IN  IF p.attempted # tipGen + 1 THEN Halt(p)
      ELSE IF page = {} THEN IF tipGen > 0 THEN Halt(p) ELSE Resume(p)
      ELSE IF newestGen < p.attempted THEN Resume(p)
      ELSE IF newestGen = p.attempted /\ newest \notin Signed(tx) THEN Resume(p)
      ELSE WalkForward(p, tx, page, newestGen, wf)

\* Mutant: any accepted transaction the store does not know is adopted.
RecoverAnySpender(p, rows, tx) ==
  LET s == p.rejection.by
  IN  IF s \in Accepted(tx) /\ ~HasTxID(rows, s) THEN Verdict("adopt", s, {s}) ELSE Halt(p)

\* The refusal names a spender of the tip: adopt it if it is a lost transition
\* of ours that the network took.
RecoverSpentTip(p, rows, tx) ==
  LET s == p.rejection.by
  IN  IF /\ s \in Accepted(tx)
         /\ ~HasTxID(rows, s)
         /\ tx[s].parent = p.tip
        THEN Verdict("adopt", s, {s})
        ELSE Halt(p)

SpendsTip(p, tx) == tx[p.rejection.txid].parent = p.tip

\* The refused transaction was built on another parent, so it says nothing
\* about the tip.
RecoverStaleRejection(p, tx) ==
  IF /\ p.rejectedAt > tx[p.tip].gen
     /\ p.rejection.txid # NoTx
     /\ ~SpendsTip(p, tx)
    THEN Resume(p) ELSE Halt(p)

RecoverNotBroadcast(p, tx) ==
  IF p.rejectedAt > tx[p.tip].gen /\ p.rejection.txid = NoTx THEN Resume(p) ELSE Halt(p)

RetryRefusal(p, tx) ==
  IF /\ p.rejectedAt = tx[p.tip].gen + 1
     /\ p.rejection.err # "spent"
     /\ p.rejection.txid # NoTx
     /\ SpendsTip(p, tx)
    THEN Resume(p) ELSE Halt(p)

RecoverRejected(p, rows, tx, retryRefused) ==
  LET stale     == RecoverStaleRejection(p, tx)
      spent     == RecoverSpentTip(p, rows, tx)
      explained == IF p.rejection.err = "spent" /\ spent.verdict = "adopt"
                     THEN spent ELSE stale
  IN  IF p.rejection.err = "unsigned" THEN RecoverNotBroadcast(p, tx)
      ELSE IF explained.verdict = "halt" /\ retryRefused THEN RetryRefusal(p, tx)
      ELSE explained

Considered(p) == p.unknown \/ p.rejected

DecideCell(p, rows, tx, retryRefused, wf) ==
  IF p.unknown THEN RecoverCell(p, tx, wf)
  ELSE RecoverRejected(p, rows, tx, retryRefused)

\* Only a failure recorded before anything was signed is decided without
\* looking anything up.
NeedsEvidence(p) == p.unknown \/ p.rejection.err # "unsigned"

\* A lookup may fail, which is no evidence of anything and so a halt.
Decisions(p, rows, tx, retryRefused, wf) ==
  {DecideCell(p, rows, tx, retryRefused, wf)} \cup {v \in {Halt(p)} : NeedsEvidence(p)}

(***************************************************************************)
(* applyRecovery: an adoption records every step, oldest first, and a      *)
(* resume retracts exactly the row the position was halted by.  "done" is  *)
(* the last generation recorded before a write failed.                     *)
(***************************************************************************)
\* Mutant: the newest step is recorded first.
AdoptNewestFirst(rec, rows, tx, done) ==
  [g \in Gens |->
     IF g + done >= MaxGen /\ \E t \in rec.steps : tx[t].gen = g
       THEN Row("broadcast", CHOOSE t \in rec.steps : tx[t].gen = g, "none", NoTx)
       ELSE rows[g]]

AdoptUpTo(rec, rows, tx, done) ==
  [g \in Gens |->
     IF g <= done /\ \E t \in rec.steps : tx[t].gen = g
       THEN Row("broadcast", CHOOSE t \in rec.steps : tx[t].gen = g, "none", NoTx)
       ELSE rows[g]]

\* Mutant: the retraction is aimed one above the tip, wherever the row was.
RetractAboveTip(p, rows) ==
  LET above == CHOOSE g \in Gens : rows[g].txid = p.tip
  IN  IF p.unknown THEN DeleteAttempt(rows, p.attempted)
      ELSE DeleteRejection(rows, above + 1, p.rejection.txid)

Retract(p, rows) ==
  IF p.unknown THEN DeleteAttempt(rows, p.attempted)
  ELSE IF p.rejection.txid = NoTx THEN DeleteUnsignedRejection(rows, p.rejectedAt)
  ELSE DeleteRejection(rows, p.rejectedAt, p.rejection.txid)

ApplyRecovery(p, rec, rows, tx) ==
  CASE rec.verdict = "adopt"  -> AdoptUpTo(rec, rows, tx, MaxGen)
    [] rec.verdict = "resume" -> Retract(p, rows)
    [] rec.verdict = "halt"   -> rows

\* What may be left when a write of it failed: what was written before, and
\* the failing write too, which may have been carried out all the same.
CutShort(p, rec, rows, tx) ==
  {AdoptUpTo(rec, rows, tx, done) : done \in Gens} \cup {ApplyRecovery(p, rec, rows, tx)}

\* The position recovery leaves behind.
Recovered(p, rec) == IF rec.verdict = "halt" THEN p ELSE At(rec.tip)
=============================================================================
