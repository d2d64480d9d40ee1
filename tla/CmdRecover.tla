----------------------------- MODULE CmdRecover -----------------------------
(***************************************************************************)
(* "rule110 recover -apply" run again and again over one cell              *)
(* (cmd/rule110/tips.go, engine.Recover).  The tool holds the engine's     *)
(* lease, so nothing else writes; what varies is the record it finds.  The *)
(* initial states are every record and every wallet an engine can leave    *)
(* within the bounds: attempts that were never resolved, failures that     *)
(* were recorded before anything was signed (which earlier builds did),    *)
(* refusals of transactions on this tip or another, and signed             *)
(* transactions that no row names.  No name here is one of CellEngine's,   *)
(* so that one module can prove about both from the same lemmas.           *)
(***************************************************************************)
EXTENDS Recovery

VARIABLES
  record,        \* the cell's rows
  wallet,        \* every action the wallet has created for the cell
  failedKnown,   \* refused transactions the wallet has marked failed
  retryRefused,  \* the -retry-refused flag
  outcome        \* what the last run said of the cell

toolVars == <<record, wallet, failedKnown, retryRefused, outcome>>

Refused == {t \in TxIds : wallet[t].st = "refused"}

Created == TxIds \ {Genesis}

\* A wallet: actions are created in order, each on an earlier signed one; the
\* network takes at most one of two siblings, and only on a parent it took; a
\* refusal may name the sibling that was taken.
Generation(parent) ==
  LET gen[t \in TxIds] == IF t = Genesis \/ parent[t] = NoTx THEN 0 ELSE gen[parent[t]] + 1
  IN  gen

Wallet(parent, st, named) ==
  LET gen == Generation(parent)
      taken(t) == {s \in Created : /\ s # t /\ parent[s] = parent[t]
                                   /\ st[s] \in {"seen", "mined"}}
  IN  [t \in TxIds |->
         IF t = Genesis
           THEN [gen |-> 0, parent |-> NoTx, st |-> "mined", by |-> NoTx]
           ELSE [gen |-> gen[t], parent |-> parent[t], st |-> st[t],
                 by |-> IF named[t] /\ st[t] = "refused" /\ taken(t) # {}
                          THEN CHOOSE s \in taken(t) : TRUE ELSE NoTx]]

Possible(w) ==
  \A t \in Created :
    IF w[t].st = "none" THEN \A n \in Created : n > t => w[n].st = "none"
    ELSE /\ w[t].parent \in Signed(w)
         /\ w[t].gen \in Gens
         /\ t \in Accepted(w) =>
              /\ w[t].parent \in Accepted(w)
              /\ \A s \in Accepted(w) \ {t} : w[s].parent # w[t].parent

\* What the store may hold for a generation.
Choices(g) ==
  {NoRow, Row("attempting", NoTx, "none", NoTx),
   Row("failed", NoTx, "unsigned", NoTx), Row("failed", NoTx, "unclear", NoTx)}
  \cup {Row("broadcast", t, "none", NoTx) : t \in {s \in Signed(wallet) : wallet[s].gen = g}}
  \cup {Row("failed", t, IF wallet[t].by = NoTx THEN "refused" ELSE "spent", wallet[t].by) :
          t \in {s \in Refused : wallet[s].gen = g}}

GenesisRow == Row("seen", Genesis, "none", NoTx)

ToolInit ==
  /\ \E parent \in [Created -> TxIds \cup {NoTx}],
       st \in [Created -> {"none", "created", "sent", "seen", "refused"}],
       named \in [Created -> BOOLEAN] :
       /\ \A t \in Created : parent[t] < t /\ (parent[t] = NoTx <=> st[t] = "none")
       /\ wallet = Wallet(parent, st, named)
  /\ Possible(wallet)
  /\ record \in [Gens -> {GenesisRow} \cup UNION {Choices(g) : g \in Gens \ {0}}]
  /\ \A g \in Gens : IF g = 0 THEN record[g] = GenesisRow ELSE record[g] \in Choices(g)
  /\ failedKnown \in SUBSET Refused
  /\ retryRefused \in BOOLEAN
  /\ outcome = "none"

\* One run of the tool.  A lookup may fail, which halts the cell, and so may a
\* write, which ends the run.
Run ==
  LET p == DeriveTip(record)
  IN  /\ \/ ~Considered(p) /\ UNCHANGED record /\ outcome' = "nothing"
         \/ /\ Considered(p)
            /\ \E rec \in Decisions(p, record, wallet, retryRefused, failedKnown) :
                 \/ record' = ApplyRecovery(p, rec, record, wallet) /\ outcome' = rec.verdict
                 \/ rec.verdict # "halt" /\ record' \in CutShort(p, rec, record, wallet)
                                         /\ outcome' = "failed"
      /\ UNCHANGED <<wallet, failedKnown, retryRefused>>

ToolSpec == ToolInit /\ [][Run]_toolVars

-----------------------------------------------------------------------------
Wrecked(p) ==
  \E base \in Gens :
    /\ record[base].status \in Settled /\ record[base].txid = p.tip
    /\ Cardinality({g \in Gens : g > base /\ record[g].status = "failed"}) > MaxWreckage

TipGen(r) == wallet[DeriveTip(r).tip].gen

Unresolved(r) == Cardinality({g \in Gens : r[g].status \in {"attempting", "failed"}})

\* Running the tool again and again comes to an end: a run that changes the
\* record, and every run that says it has settled a failure, moves the tip
\* forward or leaves it where it is with less wreckage above it.  The tip
\* never goes back and no row a repair was decided from survives it.
EveryRepairIsProgress ==
  [][(record' # record \/ (outcome' \in {"resume", "adopt"} /\ ~DeriveTip(record).unknown))
       => \/ TipGen(record') > TipGen(record)
          \/ TipGen(record') = TipGen(record) /\ Unresolved(record') < Unresolved(record)]_toolVars

\* A cascade is a human's: not one of its record is touched.
CascadeUntouched == [][Wrecked(DeriveTip(record)) => record' = record]_toolVars

\* A row recovery adopts names a transaction that spends the one below it.
AdoptedRowsLink ==
  [][\A g \in Gens \ {0} :
       record'[g].status = "broadcast" /\ record'[g] # record[g]
         => wallet[record'[g].txid].parent = record'[g - 1].txid]_toolVars
=============================================================================
