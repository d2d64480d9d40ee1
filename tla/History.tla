------------------------------ MODULE History ------------------------------
(***************************************************************************)
(* One cell's column of the durable store (internal/history): the table    *)
(* cell_txs restricted to one cell, as a function from generations to      *)
(* rows.  The store's statements are operators from a table to a table, so *)
(* that the engine, its recovery and the operator's tool all share them.   *)
(* Cells are keyed independently in the table, which is why one column is  *)
(* enough for every question asked about one cell.                         *)
(***************************************************************************)
EXTENDS Integers, FiniteSets

CONSTANT
  MaxGen  \* bound: the highest generation a cell may reach

ASSUME MaxGenAssumption == MaxGen \in Nat

Gens == 0 .. MaxGen

\* A transaction is a number in order of creation; 0 is the genesis
\* transaction and NoTx the empty txid.
Genesis == 0
NoTx == -1

Status == {"none", "attempting", "broadcast", "seen", "mined", "failed"}

\* Mutant: only what the network has reported counts as settled.
SettledOnceSeen == {"seen", "mined"}

Settled == {"broadcast", "seen", "mined"}

\* The statuses no later report replaces.
Terminal == {"mined", "failed"}

\* What the err column can say that recovery tells apart: nothing, a refusal
\* by the network, a UTXO_SPENT refusal, the ErrNotBroadcast sentinel, or an
\* error returned by SignAction, after which nothing is certain.
Reason == {"none", "refused", "spent", "unsigned", "unclear"}

\* status "none" is the absence of a row; "by" is the spender that a
\* UTXO_SPENT message names.
NoRow == [status |-> "none", txid |-> NoTx, err |-> "none", by |-> NoTx]

Row(status, txid, err, by) ==
  [status |-> status, txid |-> txid, err |-> err, by |-> by]

Recorded(rows) == {g \in Gens : rows[g].status # "none"}

(***************************************************************************)
(* Statements that write.                                                  *)
(***************************************************************************)
RecordTx(rows, g, row) == [rows EXCEPT ![g] = row]

\* UPDATE ... WHERE txid = ?: it touches the row that carries the txid, and
\* nothing at all if no row does.
UpdateStatus(rows, u) ==
  [g \in Gens |->
     IF rows[g].txid = u.txid
       THEN Row(u.status, u.txid, u.err, u.by)
       ELSE rows[g]]

\* Mutant: the statement is keyed by the generation alone.
DeleteAnyRow(rows, g) == [rows EXCEPT ![g] = NoRow]

DeleteAttempt(rows, g) ==
  [h \in Gens |-> IF h = g /\ rows[h].status = "attempting" THEN NoRow ELSE rows[h]]

DeleteRejection(rows, g, txid) ==
  [h \in Gens |->
     IF h = g /\ rows[h].status = "failed" /\ rows[h].txid = txid THEN NoRow ELSE rows[h]]

DeleteUnsignedRejection(rows, g) == DeleteRejection(rows, g, NoTx)

(***************************************************************************)
(* Statements that read.                                                   *)
(***************************************************************************)
\* Mutant: ORDER BY generation, without DESC.
OldestRows(rows, depth) ==
  {g \in Recorded(rows) : Cardinality({h \in Recorded(rows) : h < g}) < depth}

\* The generations of the newest "depth" rows.
CellTips(rows, depth) ==
  {g \in Recorded(rows) : Cardinality({h \in Recorded(rows) : h > g}) < depth}

HasTxID(rows, txid) == txid # NoTx /\ \E g \in Gens : rows[g].txid = txid

\* Transactions the store still waits to hear about; rows with no txid are
\* dropped by every caller.
Unsettled(rows) ==
  {rows[g].txid : g \in {h \in Recorded(rows) :
     rows[h].status \notin Terminal /\ rows[h].txid # NoTx}}

Newest(S) == CHOOSE g \in S : \A h \in S : h <= g
Oldest(S) == CHOOSE g \in S : \A h \in S : g <= h

\* Generations whose row names a transaction the network accepted.
SettledIn(rows, S) == {g \in S : rows[g].status \in Settled /\ rows[g].txid # NoTx}

WithStatus(rows, S, status) == {g \in S : rows[g].status = status}

\* The search past the window: the newest settled row of the whole column and
\* whether an unresolved row of each kind lies above it.
DeepTip(rows) ==
  LET settled == SettledIn(rows, Gens)
      above(status) == {g \in WithStatus(rows, Gens, status) :
                          \A s \in settled : g > s}
  IN  [hasSettled |-> settled # {},
       settled    |-> IF settled = {} THEN 0 ELSE Newest(settled),
       hasFailed  |-> above("failed") # {},
       hasAttempt |-> above("attempting") # {}]
=============================================================================
