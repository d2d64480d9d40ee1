------------------------------ MODULE Audit ------------------------------
(***************************************************************************)
(* The command audit (internal/audit, cmd/rule110/audit.go) beside the     *)
(* engine it observes.  The engine advances each cell's chain of           *)
(* transactions and records them; the auditor reads the record one         *)
(* generation at a time, without the lease and while the record grows, and *)
(* compares it with the transactions themselves.                           *)
(*                                                                         *)
(* A transaction is a record of what it says, so two are equal exactly     *)
(* when their txids are.  A write-ahead row has no txid, which the auditor *)
(* treats as no row; it is left out.  Transactions are immutable once      *)
(* fetched under their txid, so the auditor's cache of them is left out    *)
(* too, and auditing one generation from its loaded record is one step.    *)
(***************************************************************************)
EXTENDS Automaton, FiniteSetsExt

CONSTANTS
  MaxGen,       \* bound: the last generation a cell advances to
  Seeds,        \* the rows a deployment may be created with
  Faults,       \* what may be wrong with the deployment, "none" among them
  Victim,       \* the cell a fault befalls
  Refusable,    \* the cells whose transactions the network may refuse
  MaxFailures   \* the auditor's failure budget; 0 is no limit

ASSUME AuditAssumption ==
  /\ MaxGen \in Nat \ {0}
  /\ Seeds \subseteq Rows
  /\ Victim \in Cells
  /\ Refusable \subseteq Cells
  /\ MaxFailures \in Nat

Gens == 0 .. MaxGen

VARIABLES
  seed,      \* the row the deployment's own file says it was created with
  fault,     \* [kind, gen]: what is wrong with this deployment, and where
  tip,       \* tip[c]: the transaction holding the cell's live output
  reached,   \* reached[c]: its generation
  refused,   \* the cells whose tip the network refused
  rowOf,     \* table generations: the rows recorded, by generation
  rec,       \* table cell_txs: [status, tx] by generation and cell
  auditor,   \* [pc, first, final, at, held]: how far an audit has got
  seen,      \* seen[g]: what the auditor last loaded of generation g
  failures,  \* the report's failures
  gaps       \* the report's gaps

world == <<seed, fault>>
engine == <<tip, reached, refused, rowOf, rec>>
report == <<failures, gaps>>
vars == <<world, engine, auditor, seen, report>>

(***************************************************************************)
(* Transactions: the output spent, the outputs made, the row the unlocking *)
(* script presents, and the script its sighash preimage commits to.        *)
(***************************************************************************)

\* A table with one more row, or another in its place.
Put(table, key, row) ==
  [k \in DOMAIN table \cup {key} |-> IF k = key THEN row ELSE table[k]]

\* What is no cell's transaction.
Coin == [try |-> 0]
NoRecord == [status |-> "none", tx |-> Coin]

LockingScript(c, row) == [cell |-> c, row |-> row]

\* The faults a deployment is created with, and those of one generation.
AtGenesis == {"none", "unseeded", "minted_row", "minted_cell"}

Befalls(kind, g) == fault.kind = kind /\ fault.gen = g
BefallsCell(kind, g, c) == Befalls(kind, g) /\ c = Victim

\* A bit outside the neighbourhood of c when the ring has four cells or more.
Across(c) == (c + N \div 2) % N

\* Genesis mints one output for each cell, in cell order.
GenesisOutput(row, c, f) ==
  CASE f.kind = "minted_row" /\ c = Victim -> LockingScript(c, Flip(row, Across(c)))
    [] f.kind = "minted_cell" /\ c = Victim -> LockingScript(LeftIndex(c), row)
    [] OTHER -> LockingScript(c, row)

GenesisTx(row, f) ==
  [spends |-> Coin, vout |-> 0, outs |-> [c \in Cells |-> GenesisOutput(row, c, f)],
   presented |-> row, commits |-> Coin, try |-> 0]

\* A continuation is always output 0; genesis made one output per cell.
ParentVout(g, c) == IF g = 0 THEN c ELSE 0

\* The row a transition presents: the step of the row its own output
\* carries, unless the fault is here.
Presented(g, c, row) ==
  LET honest == Step(row)
  IN CASE BefallsCell("strayed_far", g, c) -> Flip(honest, Across(c))
       [] BefallsCell("strayed_near", g, c) -> Flip(honest, LeftIndex(c))
       [] BefallsCell("wrong_bit", g, c) -> Flip(honest, c)
       [] BefallsCell("disguised", g, c) -> Flip(honest, c)
       [] OTHER -> honest

Transition(g, c, presented, try) ==
  LET vout == ParentVout(g - 1, c)
      out == tip[c].outs[vout]
      carried == IF BefallsCell("wrong_output", g, c)
                   THEN Flip(presented, Across(c)) ELSE presented
  IN [spends |-> IF BefallsCell("unlinked", g, c) THEN Coin ELSE tip[c],
      vout |-> vout,
      outs |-> [v \in {0} |-> LockingScript(out.cell, carried)],
      presented |-> presented,
      commits |-> IF BefallsCell("unbound", g, c)
                    THEN LockingScript(c, Flip(out.row, Across(c))) ELSE out,
      try |-> try]

(***************************************************************************)
(* The engine.                                                             *)
(***************************************************************************)

\* Bound: nothing is asked of the engine once the audit is over.
Observed == auditor.pc # "done"

\* RecordGeneration: ON CONFLICT DO NOTHING.  A write that fails is logged
\* and not tried again.
RecordGeneration(g, row) ==
  CASE g \in DOMAIN rowOf \/ Befalls("hole", g) -> rowOf
    [] Befalls("row", g) -> Put(rowOf, g, Flip(row, Victim))
    [] OTHER -> Put(rowOf, g, row)

RecordTx(g, c, t) ==
  [rec EXCEPT ![g][c] =
     [status |-> "broadcast",
      tx |-> IF BefallsCell("crossed", g, c) THEN tip[LeftIndex(c)] ELSE t]]

\* AdvanceCell, then ensureGeneration and recordCell.
Advance(c) ==
  /\ Observed
  /\ c \notin refused
  /\ reached[c] < MaxGen
  /\ LET g == reached[c] + 1
         row == tip[c].outs[ParentVout(reached[c], c)].row
         t == Transition(g, c, Presented(g, c, row), 1)
     IN /\ tip' = [tip EXCEPT ![c] = t]
        /\ reached' = [reached EXCEPT ![c] = g]
        /\ rowOf' = RecordGeneration(g, t.presented)
        /\ rec' = RecordTx(g, c, t)
  /\ UNCHANGED <<world, refused, auditor, seen, report>>

\* A refusal arrives for the tip: its row says failed and the cell halts.
Refuse(c) ==
  /\ Observed
  /\ c \in Refusable \ refused
  /\ reached[c] > 0
  /\ tip[c].try = 1
  /\ refused' = refused \cup {c}
  /\ rec' = [rec EXCEPT ![reached[c]][c].status = "failed"]
  /\ UNCHANGED <<world, tip, reached, rowOf, auditor, seen, report>>

\* The repair makes the transition again from the same output: the same
\* row in another transaction, recorded over the refused one.
Rebuild(c) ==
  /\ Observed
  /\ c \in refused
  /\ LET again == [tip[c] EXCEPT !.try = 2]
     IN /\ tip' = [tip EXCEPT ![c] = again]
        /\ rec' = RecordTx(reached[c], c, again)
  /\ refused' = refused \ {c}
  /\ UNCHANGED <<world, reached, rowOf, auditor, seen, report>>

(***************************************************************************)
(* What the auditor makes of one cell of one generation.                   *)
(***************************************************************************)

NoBytes == [try |-> -1]

\* RawTx: the bytes the wallet's database offers for the transaction that
\* the record names.  Pruned bytes are gone; disguised ones are those of
\* the transition that should have been.
RawTx(g, c, t) ==
  CASE BefallsCell("pruned", g, c) -> NoBytes
    [] BefallsCell("disguised", g, c) ->
         LET honest == Flip(t.presented, c)
         IN [t EXCEPT !.presented = honest, !.outs[0].row = honest]
    [] OTHER -> t

\* Mutant: bytes that could not be had are held against the deployment.
UnavailableFails == "identity"

\* report: what could not be fetched is a gap, never a failure.
Unavailable == "gap"

\* Mutant: the bytes are taken for the transaction that was asked for.
IdentifiedUnread(t, raw) == TRUE

\* The bytes hash to the txid the record holds.
Identified(t, raw) == raw = t

\* Mutant: a row that strays outside the neighbourhood is let pass.
CarriesNearOnly(c, out, row) == \A i \in Near(c) : Bit(out.row, i) = Bit(row, i)

Carries(c, out, row) == out.row = row

\* The checks of a genesis output.
GenesisVerdict(c, cur) ==
  LET t == cur.rec[c].tx
      raw == RawTx(0, c, t)
  IN IF raw = NoBytes THEN Unavailable
     ELSE IF ~Identified(t, raw) THEN "identity"
     ELSE IF raw.outs[c] # LockingScript(c, cur.row) THEN "binding"
     ELSE "pass"

\* The checks of a transition once its bytes and its parent's are in hand.
SpendVerdict(g, c, cur, prev, raw, parent) ==
  LET vout == ParentVout(g - 1, c)
  IN IF raw.spends # prev.rec[c].tx \/ raw.vout # vout \/ vout \notin DOMAIN parent.outs
       THEN "linkage"
     ELSE LET out == parent.outs[vout]
              next == raw.outs[0]
          IN IF out.cell # c THEN "binding"
             ELSE IF raw.commits # out THEN "covenant"
             ELSE IF \E i \in Near(c) : Bit(out.row, i) # Bit(prev.row, i)
                    THEN "neighbourhood"
             ELSE IF ~Carries(c, out, prev.row) THEN "carried row"
             ELSE IF \/ next.cell # c
                     \/ next.row # raw.presented
                     \/ Bit(next.row, c) # Bit(cur.row, c) THEN "successor"
             ELSE IF Bit(next.row, c) # NextBit(out.row, c) THEN "rule"
             ELSE "pass"

TransitionVerdict(g, c, cur, prev) ==
  LET t == cur.rec[c].tx
      p == prev.rec[c].tx
      raw == RawTx(g, c, t)
      parent == RawTx(g - 1, c, p)
  IN IF prev.rec[c].status = "none" THEN "gap"
     ELSE IF raw = NoBytes THEN Unavailable
     ELSE IF ~Identified(t, raw) THEN "identity"
     ELSE IF parent = NoBytes THEN Unavailable
     ELSE IF ~Identified(p, parent) THEN "identity"
     ELSE SpendVerdict(g, c, cur, prev, raw, parent)

Verdict(g, c, cur) ==
  IF cur.rec[c].status \in {"none", "failed"} THEN "gap"
  ELSE IF g = 0 THEN GenesisVerdict(c, cur)
  ELSE TransitionVerdict(g, c, cur, seen[g - 1])

(***************************************************************************)
(* The audit: a range, then one generation after another.                  *)
(***************************************************************************)

Failure(g, c, check) == [gen |-> g, cell |-> c, check |-> check]
Gap(g, c) == [gen |-> g, cell |-> c]
Whole == -1  \* the cell of a finding about a whole generation

Spent(found) == MaxFailures > 0 /\ Cardinality(found) >= MaxFailures

\* auditRange: the newest generations up to a number of them.
Begin(last) ==
  /\ auditor.pc = "idle"
  /\ LET final == Max(DOMAIN rowOf)
         first == IF final + 1 > last THEN final + 1 - last ELSE 0
     IN auditor' = [pc |-> "reading", first |-> first, final |-> final,
                    at |-> first, held |-> FALSE]
  /\ UNCHANGED <<world, engine, seen, report>>

\* The row of a generation is written once, so that it does not matter that it
\* is read a statement before the cells.
Loaded(g) == Put(seen, g, [row |-> rowOf[g], rec |-> rec[g]])

\* The predecessor is loaded outright when the walk does not hold it.
LoadPrevious ==
  /\ auditor.pc = "reading"
  /\ ~auditor.held
  /\ auditor.at > 0
  /\ LET g == auditor.at - 1
     IN IF g \in DOMAIN rowOf
          THEN seen' = Loaded(g) /\ auditor' = [auditor EXCEPT !.held = TRUE]
          ELSE UNCHANGED seen /\ auditor' = [auditor EXCEPT !.pc = "orphan"]
  /\ UNCHANGED <<world, engine, report>>

\* The row a generation should have: the seed's, or the step of the last.
Expected(g) == IF g = 0 THEN seed ELSE Step(seen[g - 1].row)

\* The findings of auditGeneration; cells are taken in order until the
\* failure budget is spent.
Findings(g, cur) ==
  LET rowFails == IF cur.row = Expected(g) THEN {} ELSE {Failure(g, Whole, "continuity")}
      verdict == [c \in Cells |-> Verdict(g, c, cur)]
      cellFails(C) == {Failure(g, c, verdict[c]) :
                         c \in {d \in C : verdict[d] \notin {"pass", "gap"}}}
      found(c) == failures \cup rowFails \cup cellFails(0 .. c - 1)
      reachedCells == {c \in Cells : ~Spent(found(c))}
  IN [failures |-> rowFails \cup cellFails(reachedCells),
      gaps |-> {Gap(g, c) : c \in {d \in reachedCells : verdict[d] = "gap"}}]

\* The walk goes on, or ends at the last generation or at the budget.
MoveOn(held, found) ==
  auditor' = IF Spent(found) \/ auditor.at = auditor.final
               THEN [auditor EXCEPT !.pc = "done"]
               ELSE [auditor EXCEPT !.pc = "reading", !.at = @ + 1, !.held = held]

\* One turn of the walk: load a generation and audit it against the last.
AuditGeneration ==
  LET g == auditor.at
  IN /\ \/ auditor.pc = "orphan"
        \/ auditor.pc = "reading" /\ (auditor.held \/ g = 0)
     /\ IF g \notin DOMAIN rowOf \/ auditor.pc = "orphan"
          THEN /\ gaps' = gaps \cup {Gap(g, Whole)}
               /\ UNCHANGED failures
          ELSE LET f == Findings(g, [row |-> rowOf[g], rec |-> rec[g]])
               IN /\ failures' = failures \cup f.failures
                  /\ gaps' = gaps \cup f.gaps
     /\ seen' = IF g \in DOMAIN rowOf THEN Loaded(g) ELSE seen
     /\ MoveOn(g \in DOMAIN rowOf, failures')
     /\ UNCHANGED <<world, engine>>

(***************************************************************************)
(* The specification.                                                      *)
(***************************************************************************)

Init ==
  /\ seed \in Seeds
  /\ fault \in [kind : Faults \cap AtGenesis, gen : {0}]
             \cup [kind : Faults \ AtGenesis, gen : Gens \ {0}]
  /\ tip = [c \in Cells |-> GenesisTx(seed, fault)]
  /\ reached = [c \in Cells |-> 0]
  /\ refused = {}
  /\ rowOf = [g \in {0} |-> seed]
  /\ rec = [g \in Gens |-> [c \in Cells |->
              IF g = 0 /\ ~(fault.kind = "unseeded" /\ c = Victim)
                THEN [status |-> "seen", tx |-> tip[c]] ELSE NoRecord]]
  /\ auditor = [pc |-> "idle", first |-> 0, final |-> 0, at |-> 0, held |-> FALSE]
  /\ seen = [g \in {} |-> NoRecord]
  /\ failures = {}
  /\ gaps = {}

Next ==
  \/ \E c \in Cells : Advance(c) \/ Refuse(c) \/ Rebuild(c)
  \/ \E last \in 1 .. MaxGen + 1 : Begin(last)
  \/ LoadPrevious
  \/ AuditGeneration

Spec == Init /\ [][Next]_vars

(***************************************************************************)
(* Properties.                                                             *)
(***************************************************************************)

Clean == auditor.pc = "done" /\ failures = {} /\ gaps = {}

\* The generation the audited range rests on.
Base == IF auditor.first = 0 THEN 0 ELSE auditor.first - 1

\* What should have run: Rule 110 from the seed, or from the recorded row
\* the range rests on.
Run ==
  LET row[g \in Base .. auditor.final] ==
        IF g > Base THEN Step(row[g - 1])
        ELSE IF auditor.first = 0 THEN seed ELSE seen[g].row
  IN row

\* The transactions behind the newest one of a cell, each the one whose
\* output the next really spends.
Lineage(c) ==
  LET behind[g \in Base .. auditor.final] ==
        IF g = auditor.final THEN seen[g].rec[c].tx
        ELSE IF behind[g + 1] = Coin THEN Coin
        ELSE behind[g + 1].spends
  IN behind

\* A clean report means the automaton ran: behind every cell's newest
\* transaction lies one unbroken chain of that cell's covenant, every output
\* of which carries the row that Rule 110 gives from the seed, and every
\* spend of which the covenant accepts (README: the headline claim; the
\* unqualified PASS of cmd/rule110/audit.go printAudit).
CleanMeansRun ==
  Clean =>
    \A c \in Cells :
      LET chain == Lineage(c)
      IN \A g \in Base + 1 .. auditor.final :
           LET vout == ParentVout(g - 1, c)
           IN /\ Coin \notin {chain[g], chain[g - 1]}
              /\ chain[g].vout = vout
              /\ vout \in DOMAIN chain[g - 1].outs
              /\ chain[g - 1].outs[vout] = LockingScript(c, Run[g - 1])
              /\ CellStep(CtorArgs(c), Run[g - 1], chain[g].presented)
              /\ Bit(chain[g].outs[0].row, c) = Bit(Run[g], c)

\* Faults that take evidence away and falsify none.
Harmless == {"none", "pruned", "hole", "unseeded"}

\* The record of a cell has changed hands since the auditor loaded it.
Overtaken(g, c) == seen[g].rec[c].tx # rec[g][c].tx

\* No false alarm: beside an engine that keeps advancing, refusals, repairs
\* and missing evidence included, an audit of an honest deployment reports
\* no failure, whatever it finds half written (internal/audit: gaps and
\* failures mean opposite things).  The one exception is a link from a
\* transaction that a repair replaced while the auditor held it.
NoFalseAlarm ==
  fault.kind \in Harmless =>
    \A f \in failures :
      f.check = "linkage" /\ f.gen > 0 /\ Overtaken(f.gen - 1, f.cell)

\* The same with no exception, which the live record does not grant
\* (README: audit is meant to be run while the automaton is running).
NoFalseAlarmEver == fault.kind \in Harmless => failures = {}

\* The contract and the reference agree: for the row any live output
\* carries, a stray one included, the script of that cell accepts the row
\* internal/ca computes and refuses it with the cell's own bit turned
\* (contracts/Cell.runar.go must agree with internal/ca exactly).
CovenantAgrees ==
  \A c \in Cells :
    LET row == tip[c].outs[ParentVout(reached[c], c)].row
    IN /\ CellStep(CtorArgs(c), row, Step(row))
       /\ ~CellStep(CtorArgs(c), row, Flip(Step(row), c))

============================================================================
