----------------------------- MODULE CellEngine -----------------------------
(***************************************************************************)
(* One cell of the automaton and everything that acts on it: its worker,   *)
(* the status pipeline, the lease and re-derivation, the wallet and the    *)
(* network, crashes and restarts, the operator's recovery tool, and a      *)
(* second instance that does not hold the lease.  Cells share no state     *)
(* that any of the properties here reads, so one cell is the unit; what    *)
(* the ring adds (the clock) only decides when a cell is asked to move.    *)
(*                                                                         *)
(* A transition is the worker's; every step of it that another goroutine   *)
(* or a crash can come between is an action of its own:                    *)
(*                                                                         *)
(*   Look -> TakeTurn -> Intent -> CreateAction -> SignAction -> Record    *)
(*        -> Persist                                                       *)
(***************************************************************************)
EXTENDS Recovery, Sequences

CONSTANTS
  MaxUnseen,   \* Config.MaxUnseenDepth; 0 means unbounded
  MaxDeep,     \* Config.MaxUnconfirmedDepth; 0 means unbounded
  WordSize,    \* generations are unsigned words of this many values
  MaxRetries,  \* refusals of one generation before a halt is considered
  QueueCap,    \* capacity of the status write queue
  Events       \* what may go wrong, or be configured, in this instance

\* crash        the process dies, anywhere
\* store        a store statement fails, after persist's own retries
\* refuse       the network refuses a transaction although its parent is good
\* sign         SignAction returns an error
\* local        a transition fails locally after CreateAction
\* funds        CreateAction finds no coin, past the grace period
\* mine         blocks are mined
\* lose         the lease is lost
\* reacquire    ... and gained again by the same process
\* auto         Options.AutoRecover is set
\* operator     an operator runs "rule110 recover -apply" while it is down
\* standby      a second instance, without the lease, repairs the same cell
EventNames == {"crash", "store", "refuse", "sign", "local", "funds", "mine",
               "lose", "reacquire", "auto", "operator", "standby"}

ASSUME EngineAssumption ==
  /\ {MaxUnseen, MaxDeep, MaxRetries, QueueCap} \subseteq Nat
  /\ WordSize \in Nat /\ WordSize > MaxGen
  /\ Events \subseteq EventNames

VARIABLES
  \* durable: the store's rows for the cell, and the wallet and network
  rows, tx,
  \* the cell's worker: where it is, the tip it read, the action it is
  \* signing, the position it is repairing from and the pass it is on
  pc, base, cur, pos, pass,
  \* Engine.tips, .halted, .needsRepair, .retries, and mode = ModeStarved
  tip, halted, needsRepair, retries, starved,
  \* Engine.lastSeen, .lastMined, .history's entry of each generation for
  \* this cell, .txIndex and .statusWrites
  lastSeen, lastMined, slot, idx, writes,
  \* Engine.leader, .needsRederive, and rederiveIfNeeded's positions
  leader, needsRederive, rederiving, derived

workerVars == <<pc, base, cur, pos, pass>>
memVars    == <<tip, halted, needsRepair, retries, starved>>
statusVars == <<lastSeen, lastMined, slot, idx, writes>>
leaseVars  == <<leader, needsRederive, rederiving, derived>>
durable    == <<rows, tx>>
vars == <<rows, tx, pc, base, cur, pos, pass, tip, halted, needsRepair, retries,
          starved, lastSeen, lastMined, slot, idx, writes,
          leader, needsRederive, rederiving, derived>>

\* The zero CellChain of an underivable tip is at generation 0.
Gen(t) == IF t = NoTx THEN 0 ELSE tx[t].gen

\* The worker's place in a transition, after its write-ahead row is down and
\* before anything has replaced or retracted it.
InFlight == {"create", "sign", "record", "persist", "unclear", "retract"}

PCs == {"down", "idle", "gate", "turn", "repair", "decide", "parked"} \cup InFlight

SlotStates == {"pending", "broadcast", "seen", "mined", "failed"}

NoRetries == [gen |-> 0, n |-> 0]

\* The state is of the shape the code's types give it; in particular a repair
\* makes at most MaxWreckage + 1 passes, no generation passes MaxGen, and the
\* status queue never holds more than its capacity.
TypeOK ==
  /\ rows \in [Gens -> CellTx]
  /\ tx \in [TxIds -> Action]
  /\ pc \in PCs /\ base \in TxIds \cup {NoTx} /\ cur \in TxIds \cup {NoTx}
  /\ pos \in CellPosition /\ pass \in 0 .. MaxWreckage
  /\ tip \in TxIds \cup {NoTx}
  /\ halted \in BOOLEAN /\ needsRepair \in BOOLEAN /\ starved \in BOOLEAN
  /\ retries \in [gen : Gens, n : 0 .. MaxRetries + 1]
  /\ lastSeen \in Gens /\ lastMined \in Gens
  /\ slot \in [Gens -> SlotStates]
  /\ idx \subseteq TxIds
  /\ writes \in Seq(CellTx) /\ Len(writes) <= QueueCap
  /\ leader \in BOOLEAN /\ needsRederive \in BOOLEAN /\ rederiving \in BOOLEAN
  /\ derived \in CellPosition

-----------------------------------------------------------------------------
(***************************************************************************)
(* The process: New derives the tip from the store, loads the display      *)
(* window and indexes what is unsettled.  It starts without the lease and  *)
(* with a derivation owing.  A crash forgets everything that is not        *)
(* durable.                                                                *)
(***************************************************************************)
DownMemory ==
  /\ base' = NoTx /\ cur' = NoTx /\ pos' = At(Genesis) /\ pass' = 0
  /\ tip' = Genesis /\ halted' = FALSE /\ needsRepair' = FALSE
  /\ retries' = NoRetries /\ starved' = FALSE
  /\ lastSeen' = 0 /\ lastMined' = 0 /\ slot' = [g \in Gens |-> "pending"]
  /\ idx' = {} /\ writes' = << >>
  /\ leader' = FALSE /\ needsRederive' = TRUE
  /\ rederiving' = FALSE /\ derived' = At(Genesis)

Init ==
  /\ rows = [g \in Gens |->
               IF g = 0 THEN Row("seen", Genesis, "none", NoTx) ELSE NoRow]
  /\ tx = [t \in TxIds |->
             [gen |-> 0, parent |-> NoTx,
              st |-> IF t = Genesis THEN "mined" ELSE "none", by |-> NoTx]]
  /\ pc = "down"
  /\ base = NoTx /\ cur = NoTx /\ pos = At(Genesis) /\ pass = 0
  /\ tip = Genesis /\ halted = FALSE /\ needsRepair = FALSE
  /\ retries = NoRetries /\ starved = FALSE
  /\ lastSeen = 0 /\ lastMined = 0 /\ slot = [g \in Gens |-> "pending"]
  /\ idx = {} /\ writes = << >>
  /\ leader = FALSE /\ needsRederive = TRUE
  /\ rederiving = FALSE /\ derived = At(Genesis)

\* What applyPositions does with this cell's position, apart from the tip:
\* nothing a derived tip rests on is waited for.
ApplyPosition(p) ==
  /\ tip' = p.tip
  /\ halted' = p.halted
  /\ lastSeen' = Gen(p.tip)
  /\ lastMined' = Gen(p.tip)

LoadedSlot(row) ==
  IF row.status \in {"none", "attempting"} THEN "pending" ELSE row.status

New ==
  /\ pc = "down"
  /\ pc' = "idle"
  /\ ApplyPosition(DeriveTip(rows))
  /\ slot' = [g \in Gens |-> LoadedSlot(rows[g])]
  /\ idx' = Unsettled(rows)
  /\ UNCHANGED <<durable, base, cur, pos, pass, needsRepair, retries, starved,
                 writes, leaseVars>>

Crash ==
  /\ "crash" \in Events
  /\ pc # "down"
  /\ pc' = "down"
  /\ DownMemory
  /\ UNCHANGED durable

-----------------------------------------------------------------------------
(***************************************************************************)
(* The lease (holdLease, setLeader, rederiveIfNeeded).  One goroutine      *)
(* renews and re-derives, so a renewal waits for a derivation under way;   *)
(* the derivation's read of the store and its effect are two steps.        *)
(***************************************************************************)
AcquireLease ==
  /\ pc # "down" /\ ~leader /\ ~rederiving
  /\ needsRederive \/ "reacquire" \in Events
  /\ leader' = TRUE
  /\ needsRederive' = TRUE
  /\ UNCHANGED <<durable, workerVars, memVars, statusVars, rederiving, derived>>

LoseLease ==
  /\ "lose" \in Events
  /\ leader /\ ~rederiving
  /\ leader' = FALSE
  /\ UNCHANGED <<durable, workerVars, memVars, statusVars,
                 needsRederive, rederiving, derived>>

\* Mutant: every renewal derives the tips again.
RederiveEveryRenewal ==
  /\ leader /\ ~rederiving
  /\ rederiving' = TRUE
  /\ derived' = DeriveTip(rows)
  /\ UNCHANGED <<durable, workerVars, memVars, statusVars, leader, needsRederive>>

RederiveRead ==
  /\ leader /\ needsRederive /\ ~rederiving
  /\ rederiving' = TRUE
  /\ derived' = DeriveTip(rows)
  /\ UNCHANGED <<durable, workerVars, memVars, statusVars, leader, needsRederive>>

\* recoverUnknown keeps the positions it was given when a write fails, with
\* whatever was written before the failure left written.
RederiveApply ==
  /\ rederiving
  /\ rederiving' = FALSE /\ needsRederive' = FALSE /\ derived' = At(Genesis)
  /\ IF "auto" \in Events /\ Considered(derived)
       THEN \E wf \in SUBSET {t \in TxIds : tx[t].st = "refused"} :
              \E rec \in Decisions(derived, rows, tx, FALSE, wf) :
                \/ /\ rows' = ApplyRecovery(derived, rec, rows, tx)
                   /\ ApplyPosition(Recovered(derived, rec))
                \/ /\ "store" \in Events /\ rec.verdict # "halt"
                   /\ rows' \in CutShort(derived, rec, rows, tx)
                   /\ ApplyPosition(derived)
       ELSE /\ ApplyPosition(derived)
            /\ UNCHANGED rows
  /\ UNCHANGED <<tx, workerVars, needsRepair, retries, starved,
                 slot, idx, writes, leader>>

-----------------------------------------------------------------------------
(***************************************************************************)
(* Taking a turn (awaitTurn, turnReady).                                   *)
(***************************************************************************)
\* A worker that finds its cell halted waits for the process to end.
Park ==
  /\ pc = "idle" /\ halted
  /\ pc' = "parked"
  /\ UNCHANGED <<durable, base, cur, pos, pass, memVars, statusVars, leaseVars>>

\* Mutants: each gate lets one transaction too many through.
UnseenGateOpenLate ==
  MaxUnseen = 0 \/ Gen(tip) <= lastSeen \/ Gen(tip) - lastSeen <= MaxUnseen

DepthGateOpenLate ==
  MaxDeep = 0 \/ (Gen(tip) - lastMined) % WordSize <= MaxDeep

UnseenGateOpen ==
  MaxUnseen = 0 \/ Gen(tip) <= lastSeen \/ Gen(tip) - lastSeen < MaxUnseen

DepthGateOpen ==
  MaxDeep = 0 \/ (Gen(tip) - lastMined) % WordSize < MaxDeep

\* A starved automaton probes one cell at a time, before any gate.
TurnReady == /\ leader /\ ~needsRederive
             /\ starved \/ (UnseenGateOpen /\ DepthGateOpen)

\* Nothing stops the cell; whether it may move is asked under another lock,
\* and what stops it may have happened by then.
Look ==
  /\ pc = "idle" /\ ~halted /\ ~needsRepair
  /\ pc' = "gate"
  /\ UNCHANGED <<durable, base, cur, pos, pass, memVars, statusVars, leaseVars>>

\* The target gate is the clock's: a cell below MaxGen may be asked to move.
TakeTurn ==
  /\ pc = "gate"
  /\ TurnReady
  /\ Gen(tip) < MaxGen
  /\ pc' = "turn"
  /\ UNCHANGED <<durable, base, cur, pos, pass, memVars, statusVars, leaseVars>>

\* A gate is closed, or the probe is another cell's.
Wait ==
  /\ pc = "gate"
  /\ starved \/ ~TurnReady \/ Gen(tip) = MaxGen
  /\ pc' = "idle"
  /\ UNCHANGED <<durable, base, cur, pos, pass, memVars, statusVars, leaseVars>>

-----------------------------------------------------------------------------
(***************************************************************************)
(* One transition (advanceCell, Chain.AdvanceCell, recordCell).            *)
(***************************************************************************)
\* The transition being worked on is to this generation.
Next1 == Gen(base) + 1

\* Mutant: a transition goes on although its write-ahead row was not written;
\* the halt only stops the next turn.
IntentAnyway ==
  /\ pc = "turn"
  /\ Gen(tip) < MaxGen
  /\ base' = tip /\ pc' = "create"
  /\ \/ /\ rows' = RecordTx(rows, Gen(tip) + 1, Row("attempting", NoTx, "none", NoTx))
        /\ UNCHANGED halted
     \/ /\ "store" \in Events
        /\ halted' = TRUE
        /\ UNCHANGED rows
  /\ UNCHANGED <<tx, cur, pos, pass, tip, needsRepair, retries, starved,
                 statusVars, leaseVars>>

\* The write-ahead row.  If it cannot be written nothing is broadcast and
\* the cell halts.  A write that failed may have been carried out.
Intent ==
  /\ pc = "turn"
  /\ Gen(tip) < MaxGen
  /\ \/ /\ rows' = RecordTx(rows, Gen(tip) + 1, Row("attempting", NoTx, "none", NoTx))
        /\ base' = tip /\ pc' = "create"
        /\ UNCHANGED halted
     \/ /\ "store" \in Events
        /\ rows' \in {rows, RecordTx(rows, Gen(tip) + 1, Row("attempting", NoTx, "none", NoTx))}
        /\ halted' = TRUE /\ pc' = "idle"
        /\ UNCHANGED base
  /\ UNCHANGED <<tx, cur, pos, pass, tip, needsRepair, retries, starved,
                 statusVars, leaseVars>>

Unused(n) == tx[n].st = "none" /\ \A m \in TxIds : m < n => tx[m].st # "none"

\* The wallet assembles an action over the tip the worker read.
CreateAction ==
  /\ pc = "create"
  /\ \E n \in TxIds :
       /\ Unused(n)
       /\ tx' = [tx EXCEPT ![n] = [gen |-> Next1, parent |-> base,
                                   st |-> "created", by |-> NoTx]]
       /\ cur' = n
  /\ pc' = "sign"
  /\ UNCHANGED <<rows, base, pos, pass, memVars, statusVars, leaseVars>>

\* CreateAction fails, for want of coin or for any other reason.
CreateActionFails ==
  /\ pc = "create"
  /\ pc' = "retract"
  /\ UNCHANGED <<durable, base, cur, pos, pass, memVars, statusVars, leaseVars>>

\* The action exists, and building or verifying the covenant's unlocking
\* script fails before anything is signed.
FailBeforeSigning ==
  /\ "local" \in Events
  /\ pc = "sign"
  /\ pc' = "retract"
  /\ UNCHANGED <<durable, base, cur, pos, pass, memVars, statusVars, leaseVars>>

\* Signing broadcasts.
SignAction ==
  /\ pc = "sign"
  /\ tx' = [tx EXCEPT ![cur].st = "sent"]
  /\ pc' = "record"
  /\ UNCHANGED <<rows, base, cur, pos, pass, memVars, statusVars, leaseVars>>

\* The turn is over.
Done == pc' = "idle" /\ base' = NoTx /\ cur' = NoTx

\* SignAction returns an error: the transaction was never signed, was
\* broadcast all the same, or was refused at once.  An error that reads as a
\* shortfall is waited out, and leaves the write-ahead row as it is.
SignActionFails ==
  /\ "sign" \in Events
  /\ pc = "sign"
  /\ \E st \in {"created", "sent", "refused"} : tx' = [tx EXCEPT ![cur].st = st]
  /\ \/ pc' = "unclear" /\ UNCHANGED <<base, cur, starved>>
     \/ Done /\ starved' \in {starved, starved \/ "funds" \in Events}
  /\ UNCHANGED <<rows, pos, pass, tip, halted, needsRepair, retries,
                 statusVars, leaseVars>>

ClearRetries(g) == IF g > retries.gen THEN NoRetries ELSE retries

\* clearStarvation and the part of recordCell under the lock.
Record ==
  /\ pc = "record"
  /\ tip' = cur
  /\ idx' = idx \cup {cur}
  /\ slot' = [slot EXCEPT ![Gen(cur)] = "broadcast"]
  /\ retries' = ClearRetries(Gen(cur))
  /\ starved' = FALSE
  /\ pc' = "persist"
  /\ UNCHANGED <<durable, base, cur, pos, pass, halted, needsRepair,
                 lastSeen, lastMined, writes, leaseVars>>

Persist ==
  /\ pc = "persist"
  /\ \/ /\ rows' = RecordTx(rows, Gen(cur), Row("broadcast", cur, "none", NoTx))
        /\ UNCHANGED halted
     \/ /\ "store" \in Events
        /\ rows' \in {rows, RecordTx(rows, Gen(cur), Row("broadcast", cur, "none", NoTx))}
        /\ halted' = TRUE
  /\ Done
  /\ UNCHANGED <<tx, pos, pass, tip, needsRepair, retries, starved,
                 statusVars, leaseVars>>

(***************************************************************************)
(* transitionFailed.                                                       *)
(***************************************************************************)
\* Nothing was signed: the write-ahead row is retracted (or the deletion
\* fails and is only logged).  Want of coin may start a starvation; any
\* other failure is shown in the display window.
NotBroadcast ==
  /\ pc = "retract"
  /\ \/ rows' = DeleteAttempt(rows, Next1)
     \/ "store" \in Events /\ UNCHANGED rows
  /\ \/ /\ "funds" \in Events /\ cur = NoTx
        /\ starved' \in {starved, TRUE}
        /\ UNCHANGED slot
     \/ /\ slot' = [slot EXCEPT ![Next1] = "failed"]
        /\ UNCHANGED starved
  /\ Done
  /\ UNCHANGED <<tx, pos, pass, tip, halted, needsRepair, retries,
                 lastSeen, lastMined, idx, writes, leaseVars>>

\* Mutant: the failed row names the transaction the wallet was signing.
SigningFailedNamed ==
  /\ pc = "unclear"
  /\ slot' = [slot EXCEPT ![Next1] = "failed"]
  /\ rows' = RecordTx(rows, Next1, Row("failed", cur, "unclear", NoTx))
  /\ Done
  /\ UNCHANGED <<tx, pos, pass, tip, halted, needsRepair, retries, starved,
                 lastSeen, lastMined, idx, writes, leaseVars>>

\* Past signing, the failure is recorded, naming no transaction.
SigningFailed ==
  /\ pc = "unclear"
  /\ slot' = [slot EXCEPT ![Next1] = "failed"]
  /\ \/ /\ rows' = RecordTx(rows, Next1, Row("failed", NoTx, "unclear", NoTx))
        /\ UNCHANGED halted
     \/ /\ "store" \in Events
        /\ rows' \in {rows, RecordTx(rows, Next1, Row("failed", NoTx, "unclear", NoTx))}
        /\ halted' = TRUE
  /\ Done
  /\ UNCHANGED <<tx, pos, pass, tip, needsRepair, retries, starved,
                 lastSeen, lastMined, idx, writes, leaseVars>>

-----------------------------------------------------------------------------
(***************************************************************************)
(* Repair of a refused cell (repairCell), by the cell's own worker: derive, *)
(* decide, apply, and again, at most MaxWreckage + 1 times.                *)
(***************************************************************************)
HaltRepair == halted' = TRUE /\ needsRepair' = FALSE

RepairDone == pc' = "idle" /\ pass' = 0 /\ pos' = At(Genesis)

StartRepair ==
  /\ pc = "idle" /\ ~halted /\ needsRepair
  /\ needsRepair' = FALSE
  /\ pc' = "repair"
  /\ UNCHANGED <<durable, base, cur, pos, pass, tip, halted, retries, starved,
                 statusVars, leaseVars>>

RepairDerive ==
  /\ pc = "repair"
  /\ \/ /\ pos' = DeriveTip(rows)
        /\ pc' = "decide"
        /\ UNCHANGED <<pass, halted, needsRepair>>
     \/ /\ "store" \in Events
        /\ HaltRepair /\ RepairDone
  /\ UNCHANGED <<durable, base, cur, tip, retries, starved, statusVars, leaseVars>>

\* There is nothing to recover: the position is adopted as it stands.
AdoptDerived ==
  /\ pc = "decide" /\ ~Considered(pos)
  /\ tip' = pos.tip /\ halted' = pos.halted
  /\ RepairDone
  /\ UNCHANGED <<durable, base, cur, needsRepair, retries, starved,
                 statusVars, leaseVars>>

\* Mutant: one pass too many.
AdoptRepairedOnceMore(rec) ==
  /\ rows' = ApplyRecovery(pos, rec, rows, tx)
  /\ tip' = rec.tip
  /\ IF pass > MaxWreckage
       THEN HaltRepair /\ RepairDone
       ELSE /\ halted' = FALSE
            /\ pc' = "repair" /\ pass' = pass + 1
            /\ UNCHANGED <<pos, needsRepair>>

AdoptRepaired(rec) ==
  /\ rows' = ApplyRecovery(pos, rec, rows, tx)
  /\ tip' = rec.tip
  /\ IF pass = MaxWreckage
       THEN HaltRepair /\ RepairDone
       ELSE /\ halted' = FALSE
            /\ pc' = "repair" /\ pass' = pass + 1
            /\ UNCHANGED <<pos, needsRepair>>

RepairDecide ==
  /\ pc = "decide" /\ Considered(pos)
  /\ \E wf \in SUBSET {t \in TxIds : tx[t].st = "refused"} :
       \E rec \in Decisions(pos, rows, tx, TRUE, wf) :
         \/ /\ rec.verdict = "halt"
            /\ HaltRepair /\ RepairDone
            /\ UNCHANGED <<rows, tip>>
         \/ rec.verdict # "halt" /\ AdoptRepaired(rec)
         \/ /\ rec.verdict # "halt" /\ "store" \in Events
            /\ rows' \in CutShort(pos, rec, rows, tx)
            /\ HaltRepair /\ RepairDone
            /\ UNCHANGED tip
  /\ UNCHANGED <<tx, base, cur, retries, starved, statusVars, leaseVars>>

-----------------------------------------------------------------------------
(***************************************************************************)
(* The network (external).  A transaction is taken when its parent has     *)
(* been and nothing else that spends the parent has; it is refused when    *)
(* its parent was, when a sibling was taken first, which the refusal then  *)
(* names, when its parent has not arrived yet, or for a reason of its own. *)
(***************************************************************************)
Siblings(t) == {s \in TxIds : s # t /\ tx[s].parent = tx[t].parent}

Accept(t) ==
  /\ tx[t].st = "sent"
  /\ tx[t].parent \in Accepted(tx)
  /\ Siblings(t) \cap Accepted(tx) = {}
  /\ tx' = [tx EXCEPT ![t].st = "seen"]
  /\ UNCHANGED <<rows, workerVars, memVars, statusVars, leaseVars>>

Mine(t) ==
  /\ "mine" \in Events
  /\ tx[t].st = "seen"
  /\ tx[tx[t].parent].st = "mined"
  /\ tx' = [tx EXCEPT ![t].st = "mined"]
  /\ UNCHANGED <<rows, workerVars, memVars, statusVars, leaseVars>>

Refuse(t) ==
  /\ tx[t].st = "sent"
  /\ \/ /\ \/ "refuse" \in Events
           \/ tx[tx[t].parent].st = "refused"
        /\ tx' = [tx EXCEPT ![t].st = "refused"]
     \/ \E s \in Siblings(t) \cap Accepted(tx) :
          tx' = [tx EXCEPT ![t].st = "refused", ![t].by = s]
  /\ UNCHANGED <<rows, workerVars, memVars, statusVars, leaseVars>>

-----------------------------------------------------------------------------
(***************************************************************************)
(* The status pipeline (applyStatusBatch, noteRefusalLocked, the batching  *)
(* writer and the reconciler).                                             *)
(***************************************************************************)
Rank(s) == CASE s = "pending" -> 0 [] s = "broadcast" -> 1 [] s = "seen" -> 2
             [] s = "mined" -> 3   [] s = "failed" -> 4

\* What arcade may report of a transaction: where it is, or where it was.
Reports(t) ==
  CASE tx[t].st = "seen"    -> {"seen"}
    [] tx[t].st = "mined"   -> {"seen", "mined"}
    [] tx[t].st = "refused" -> {"failed"}
    [] OTHER                -> {}

\* The queue with u before its i-th entry.
Overtaking(u, i) ==
  [j \in 1 .. Len(writes) + 1 |->
     IF j < i THEN writes[j] ELSE IF j = i THEN u ELSE writes[j - 1]]

\* A full queue drops the write.  The lock is given up before the write is
\* queued, so it may overtake one applied earlier by the other goroutine.
Enqueue(u) ==
  IF Len(writes) < QueueCap
    THEN \E i \in 1 .. Len(writes) + 1 : writes' = Overtaking(u, i)
    ELSE UNCHANGED writes

\* A refusal the stream pushes is bare; asked for, it says why.
StatusUpdate(t, report, bare) ==
  IF report # "failed" THEN Row(report, t, "none", NoTx)
  ELSE IF bare \/ tx[t].by = NoTx THEN Row("failed", t, "refused", NoTx)
  ELSE Row("failed", t, "spent", tx[t].by)

\* Mutant: a retryable refusal is not evidence, so nothing is done about it.
NoteRefusalIgnored(g) ==
  \/ UNCHANGED <<needsRepair, retries, halted>>
  \/ LET seenBefore == IF retries.gen = g THEN retries.n ELSE 0
         n == IF seenBefore > MaxRetries THEN seenBefore ELSE seenBefore + 1
     IN  /\ retries' = [gen |-> g, n |-> n]
         /\ \/ needsRepair' = TRUE /\ UNCHANGED halted
            \/ n > MaxRetries /\ halted' = TRUE /\ needsRepair' = FALSE

\* A retryable refusal asks for a rebuild and costs nothing; any other is
\* counted against its generation.  The budget is spent when the count is
\* past MaxRetries and the minute of minHaltWindow has gone by.
NoteRefusal(g) ==
  \/ needsRepair' = TRUE /\ UNCHANGED <<retries, halted>>
  \/ LET seenBefore == IF retries.gen = g THEN retries.n ELSE 0
         n == IF seenBefore > MaxRetries THEN seenBefore ELSE seenBefore + 1
     IN  /\ retries' = [gen |-> g, n |-> n]
         /\ \/ needsRepair' = TRUE /\ UNCHANGED halted
            \/ n > MaxRetries /\ halted' = TRUE /\ needsRepair' = FALSE

Larger(a, b) == IF a > b THEN a ELSE b

ApplyStatus(t, report, bare) ==
  LET g == Gen(t)
  IN  /\ t \in idx
      /\ lastMined' = IF report = "mined" THEN Larger(lastMined, g) ELSE lastMined
      /\ lastSeen' = IF report \in {"seen", "mined"} THEN Larger(lastSeen, g) ELSE lastSeen
      /\ IF Rank(report) <= Rank(slot[g])
           THEN UNCHANGED <<slot, idx, writes, needsRepair, retries, halted>>
           ELSE /\ slot' = [slot EXCEPT ![g] = report]
                /\ idx' = IF report \in Terminal THEN idx \ {t} ELSE idx
                /\ Enqueue(StatusUpdate(t, report, bare))
                /\ IF report = "failed" THEN NoteRefusal(g)
                   ELSE UNCHANGED <<needsRepair, retries, halted>>
      /\ UNCHANGED <<durable, workerVars, tip, starved, leaseVars>>

\* The stream's callback, for a transaction whose status it has.
OnStatus(t) == pc # "down" /\ \E report \in Reports(t) : ApplyStatus(t, report, TRUE)

\* The reconciler asks about transactions the store still waits for.
Reconcile(t) ==
  /\ pc # "down"
  /\ t \in Unsettled(rows)
  /\ \E report \in Reports(t) : ApplyStatus(t, report, FALSE)

\* The reason of a bare refusal is fetched, which may fail, and is written past
\* the queue, however late.
FetchReason(t) ==
  /\ pc # "down"
  /\ t \notin idx /\ tx[t].st = "refused"
  /\ rows' = UpdateStatus(rows, StatusUpdate(t, "failed", FALSE))
  /\ UNCHANGED <<tx, workerVars, memVars, statusVars, leaseVars>>

WriteStatus ==
  /\ writes # << >>
  /\ writes' = Tail(writes)
  /\ \/ rows' = UpdateStatus(rows, Head(writes))
     \/ "store" \in Events /\ UNCHANGED rows
  /\ UNCHANGED <<tx, workerVars, memVars, lastSeen, lastMined, slot, idx, leaseVars>>

-----------------------------------------------------------------------------
(***************************************************************************)
(* Other writers of the same rows: the operator's tool, which takes the    *)
(* engine's lease, and a second instance serving read-only.                *)
(***************************************************************************)
RecoverOnce(retryRefused) ==
  LET p == DeriveTip(rows)
  IN  /\ Considered(p)
      /\ \E wf \in SUBSET {t \in TxIds : tx[t].st = "refused"} :
           \E rec \in Decisions(p, rows, tx, retryRefused, wf) :
             \/ rows' = ApplyRecovery(p, rec, rows, tx)
             \/ "store" \in Events /\ rows' \in CutShort(p, rec, rows, tx)
      /\ UNCHANGED <<tx, workerVars, memVars, statusVars, leaseVars>>

OperatorRecover ==
  /\ "operator" \in Events
  /\ pc = "down"
  /\ \E retryRefused \in BOOLEAN : RecoverOnce(retryRefused)

\* The other instance indexed a transaction when it started and has heard it
\* refused; its worker repairs before it asks who holds the lease.
StandbyRepair ==
  /\ "standby" \in Events
  /\ \E t \in TxIds : tx[t].st = "refused"
  /\ RecoverOnce(TRUE)

\* Starvation is the ring's: another cell's shortfall declares it, and any
\* cell's success ends it.
RingStarvation ==
  /\ "funds" \in Events
  /\ pc # "down"
  /\ starved' = ~starved
  /\ UNCHANGED <<durable, workerVars, tip, halted, needsRepair, retries,
                 statusVars, leaseVars>>

-----------------------------------------------------------------------------
Worker ==
  \/ Park \/ Look \/ TakeTurn \/ Wait \/ Intent \/ CreateAction \/ CreateActionFails
  \/ FailBeforeSigning \/ SignAction \/ SignActionFails \/ Record \/ Persist
  \/ NotBroadcast \/ SigningFailed
  \/ StartRepair \/ RepairDerive \/ AdoptDerived \/ RepairDecide

Lease == AcquireLease \/ LoseLease \/ RederiveRead \/ RederiveApply

Network == \E t \in TxIds : Accept(t) \/ Mine(t) \/ Refuse(t)

StatusPipeline == WriteStatus \/ \E t \in TxIds : OnStatus(t) \/ Reconcile(t) \/ FetchReason(t)

Next ==
  \/ New \/ Crash \/ Lease \/ Worker \/ Network \/ StatusPipeline
  \/ OperatorRecover \/ StandbyRepair \/ RingStarvation

Spec == Init /\ [][Next]_vars

(***************************************************************************)
(* The goroutines are scheduled: the worker, the lease holder, the status  *)
(* writer and the reconciler each take a step they can go on taking.  The  *)
(* network answers every transaction offered to it, and a wallet that is   *)
(* asked for ever is funded in the end.                                    *)
(***************************************************************************)
Fairness ==
  /\ WF_vars(New) /\ WF_vars(AcquireLease)
  /\ WF_vars(RederiveRead) /\ WF_vars(RederiveApply)
  /\ WF_vars(Worker) /\ SF_vars(CreateAction)
  /\ WF_vars(WriteStatus)
  /\ \A t \in TxIds : WF_vars(Reconcile(t)) /\ WF_vars(Accept(t) \/ Refuse(t))
                   /\ WF_vars(Mine(t))

FairSpec == Spec /\ Fairness

-----------------------------------------------------------------------------
(***************************************************************************)
(* Properties.                                                             *)
(***************************************************************************)
\* No two transactions that spend one output are both before the network:
\* the cell never signs over a tip it has already spent, whatever the
\* interleaving of worker, statuses, repair, restart and recovery.
NoDoubleSpend ==
  \A s, t \in Live(tx) : s # t /\ s # Genesis => tx[s].parent # tx[t].parent

\* What stands: the live transactions whose ancestors are all live.
Standing(x) ==
  UNION {S \in SUBSET Live(x) : \A t \in S : x[t].parent \in S \cup {NoTx}}

standing == {<<tx[t].gen, t>> : t \in Standing(tx)}

\* The newest generation the network has taken.
takenTo == Newest({tx[t].gen : t \in Accepted(tx)})

Chain == INSTANCE CellChain WITH Tx <- TxIds, at <- standing, taken <- takenTo

\* The worker, the status pipeline, the lease, the repairs and the crashes
\* together implement the chain of CellChain: a transaction is only ever signed
\* on the end of what stands, and only a refusal takes anything away.
ImplementsChain == Chain!Spec

\* What the store says at any instant is enough to restart from: if a
\* process started now would run the cell on some tip, nothing live spends
\* that tip.
CrashSafe ==
  LET p == DeriveTip(rows)
  IN  ~p.halted => \A t \in Live(tx) : tx[t].parent # p.tip

\* While a transition may reach the network and has not been recorded, its
\* generation carries the row that says so.
WriteAhead ==
  pc \in InFlight => rows[Next1].status = "attempting"

\* A row that names a live transaction keeps naming it: neither repair,
\* retraction, recovery nor the next attempt takes it away.
LiveRowKept ==
  [][\A g \in Gens : rows[g].txid \in Live(tx) /\ rows'[g].txid # rows[g].txid
       => rows[g].txid \notin Live(tx')]_vars

\* No statement deletes a row that names a live transaction, whoever issues
\* it and however stale the position it was decided from.
LiveRowNotDeleted ==
  [][\A g \in Gens : rows[g].txid \in Live(tx) => rows'[g].status # "none"]_vars

\* A row speaks of the transaction it names: a failed row of a refused one, a
\* settled row of a signed one of its own generation, although statuses come
\* late, out of order and after the generation has been rebuilt.
RowsTellTheTruth ==
  \A g \in Gens :
    /\ rows[g].status = "failed" /\ rows[g].txid # NoTx => tx[rows[g].txid].st = "refused"
    /\ rows[g].status \in Settled => rows[g].txid \in Signed(tx) /\ Gen(rows[g].txid) = g

\* A worker waits for the process to end only while its cell is halted.
ParkedIsHalted == pc = "parked" => halted

\* The store does not go on calling a refused transaction unsettled once
\* nothing is left that would correct it.
RefusalReachesStore ==
  pc \notin {"down", "persist"} =>
    \A t \in Unsettled(rows) :
       \/ tx[t].st # "refused"
       \/ t \in idx
       \/ \E i \in DOMAIN writes : writes[i].txid = t

\* A cell never builds more than MaxUnseen transactions past the last one
\* the network has taken.
UnseenBounded == MaxUnseen > 0 => Gen(tip) - lastSeen <= MaxUnseen

\* A cell never builds more than MaxDeep transactions past the last one of its
\* own that was mined.
UnconfirmedBounded == MaxDeep > 0 => Gen(tip) - lastMined <= MaxDeep

\* The timing a repair relies on: the pause before it outlasts the linger of
\* the status writer, and what the writer wrote was not overtaken.
RepairsAreTimely ==
  /\ [](pc = "repair" => writes = << >>)
  /\ []RefusalReachesStore
  /\ []ParkedIsHalted

\* What may bring a cell to rest: a halt that says why, the end of the run, or
\* the end of the wallet's bound.
Stopped == halted \/ Gen(tip) = MaxGen \/ \A t \in TxIds : tx[t].st # "none"

\* A leader's cell advances or halts with a reason: no order of refusals,
\* late statuses and rebuilds leaves it waiting for ever with no halt to show,
\* given the timing its repairs rely on.
NoSilentStall == RepairsAreTimely /\ <>[](pc # "down" /\ leader) => <>[]Stopped
=============================================================================
