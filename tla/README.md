# Verification of rule-110-arcade

The program runs an elementary cellular automaton on chain. Every cell is an
unbroken chain of transactions: generation *n+1* of a cell spends the output
of generation *n* under a covenant that allows nothing else. A cell that spends
one output twice, or builds on an output the network never produced, is lost, so
almost everything that is hard in the code serves one promise: **no cell ever
offers the network two spends of one output, and every cell either advances or
says why it does not.** These modules state that promise and its parts, check
them with TLC on small instances, and prove the parts that have been proved for
every instance.

## The system

| Part | State | Operations | Interacts with |
|---|---|---|---|
| History store (`internal/history`) | table `cell_txs`, keyed by generation and cell; the lease row | `RecordTx`, `UpdateStatusBatch`, three guarded deletes, `CellTips`, `DeepTip`, `HasTxID`, `Unsettled` | every other part; it is the only durable record of where a cell is |
| Derivation (`engine/derive.go`) | none | `DeriveTips` | reads the store, the wallet and arcade; runs at start, at lease gain, in every repair pass, in the tool |
| Recovery (`chain/recover.go`, `engine/recovery.go`) | none | one decision per position, and what it writes | the store, the wallet's list of actions, arcade |
| Cell worker (`engine/worker.go`, `chain/step.go`) | where the worker is; tip, halt, repair and retry state of its cell | one transition, its failures, repair | wallet (signing broadcasts), store, status pipeline |
| Status pipeline (`engine/status.go`) | index of transactions, display window, last seen and mined, write queue | apply a status, note a refusal, write, reconcile | arcade's stream, the store, the worker through `needsRepair` |
| Lease (`worker.go`, `history.go`) | the lease row; leader, needsRederive | acquire, renew, lose, release, re-derive | gates every worker; held by the tools too |
| Ring clock, starvation, controls (`worker.go`, `engine.go`) | target, mode, shortfall, probe | clock round, `SetMode`, `Step`, shortfall, probe | gates every worker |
| Operator tool (`cmd/rule110/tips.go`) | none | `recover -apply` | the same lease and the same store |
| Cold start (`internal/boot`), genesis (`chain/genesis.go`) | phase, deployment record (`state.json`) | wait for funds, fan out, broadcast genesis, record it | the lease, the wallet; hands the deployment to the engine |
| Pruner (`chain/prune.go`) | a cursor | sweep: tip, floor, batches of candidates, check, clear | deletes payloads in the wallet's database while the wallet runs |
| Publication (`engine.go`), event stream (`web/server.go`), page (`app.js`) | the change channel, the published tail, what was last sent, what is shown | notify, publish, stream, control, apply | reads the engine; the controls go back to the clock |
| Rule and covenant (`internal/ca`, `internal/cellscript`, `contracts/Cell.runar.go`) | none | a step of the ring; the script that verifies one bit of it | computed by the worker, verified by the network |
| Audit (`internal/audit`) | what it has loaded, failures, gaps | walk the record, check each cell of each generation | reads record and transactions beside the running engine, writes nothing |
| Public funding (`web/fund.go`, `chain/payment.go`) | the slot and bucket of a process; what the wallet has been credited | post: refuse a duplicate, broadcast, credit | arcade, the wallet, any payer's wallet |
| Archive, command line | - | - | read the above |

What makes it hard: the worker of a cell, the status applier, the status writer,
the lease holder and the reconciler are five goroutines that touch one cell's
state and rows, each reading under one lock and acting after another; signing
broadcasts before anything is recorded; statuses come late, twice, out of order
or not at all; the process may die anywhere; and a second process, or an
operator, may write the same rows.

What makes each part correct:

- *store*: a statement touches only rows that are what its caller decided about;
- *derivation*: whatever the rows say, a running cell's tip is unspent;
- *recovery*: it adopts only real successors, resumes only on evidence that
  nothing live is in the way, never unwinds a cascade, and comes to an end;
- *worker*: nothing is signed without a durable row that says so, or over a tip
  already spent;
- *status pipeline*: rows are true of the transactions they name, the gates
  bound what is built on unconfirmed ground, refusals end in progress or a halt;
- *lease*: one writer at a time, that knows of every other writer's spends, and always one in the end;
- *ring*: the lag is bounded, no halt or shortage stops the others for ever;
- *cold start*: one genesis, one record of it, and an engine on no other; it gets
  there with the money it asked for;
- *pruner*: nothing the wallet needs is removed, and what nobody needs is;
- *public funding*: a payment is credited once, after the network has it, and the payer is told the truth;
- *publication*: the last state is published, and shown;
- *covenant*: it accepts exactly the bit the automaton computes;
- *audit*: a clean report means the automaton ran, and an honest deployment raises no alarm.

## The modules

    History    one cell's column of cell_txs; the statements as operators
      Derive      DeriveTips for one cell
        Recovery    wallet and network state of a transaction; each recovery
                    decision; applyRecovery
          CellEngine   one cell with everything that acts on it (MCCellEngine)
          CmdRecover   the operator's tool over every record an engine may
                       leave (MCCmdRecover)
          CellChain    what is promised of a cell; CellEngine implements it
    Ring       what cells share: clock, mode, starvation, controls (MCRing)
    Lease      engines and tools over one lease row with its expiry (MCLease)
    Boot       the cold start of several processes on one data directory
               (MCBoot)
    Payment    a public payment from the post to the credit (MCPayment)
    Prune      the pruner beside a wallet that goes on (MCPrune)
    Feed       from a change of the engine to a browser (MCFeed)
    Automaton  the rule, the ring, the constants of a script, the contract
      Audit      the auditor beside a running engine (MCAudit)

    CellEngine_proofs (CellEngine and CmdRecover) -> Chain_proofs
    Ring_proofs, Lease_proofs, Boot_proofs, Prune_proofs, Payment_proofs, Audit_proofs

**History, Derive, Recovery** are pure operators shared by everything that uses
the store. A row is `[status, txid, err, by]`; `err` keeps what recovery tells
apart in a message (a refusal, a `UTXO_SPENT` refusal with the spender it names,
the `ErrNotBroadcast` sentinel, anything else) and a transaction is a number in
the order the wallet created it. `tx` records of each its generation, the
transaction it spends and how far it got: `created` (no txid), `sent` (signed,
hence broadcast), `seen`, `mined`, `refused`.

**CellEngine** splits a transition wherever another goroutine or a crash can
come between two effects:

    Look -> TakeTurn -> Intent -> CreateAction -> SignAction -> Record -> Persist
     |                                |               |
     v                                v               v
    Wait             CreateActionFails / Fail-   SignActionFails -> SigningFailed
                     BeforeSigning -> NotBroadcast

`Look` is the lock under which the worker finds its cell neither halted nor in need of
repair, `TakeTurn` the later one of `turnReady`, and `Wait` a gate that is shut. An
error out of `SignAction` may instead be a shortfall, which ends the turn and leaves the
attempt's row. A write to the store that fails may have been carried out.

`Record` is the part of `recordCell` under the lock and `Persist` the write after
it. A repair is `StartRepair`, then `RepairDerive` and `RepairDecide` (or
`AdoptDerived`) for each pass. A re-derivation is `RederiveRead` and
`RederiveApply`. A status is applied to memory (`OnStatus`, `Reconcile`) and to
the store (`WriteStatus`) in two steps with the bounded queue between them; it is queued
after the lock is released, so a later one may overtake it (`Enqueue`). `FetchReason`
writes, past the queue, the reason fetched for a refusal that came without one, and may
turn `refused` into `spent` there. A lookup of evidence may fail, which halts the cell
(`Decisions`), and an adoption may be cut short between two rows (`CutShort`). The
`Events` constant says what may go wrong in an instance: crashes, failing writes,
refusals, errors out of signing, local failures, shortage, mining, lease loss,
`AutoRecover`, an operator, a standby instance.

**CmdRecover** makes one run of `recover -apply` a step, from every record an engine may
leave. A run in which a lookup or a write fails stops there (`outcome` "failed"), with
what it wrote before kept.

**Ring** keeps of a cell its generation and its halt. Every lock the clock, a
probe or a shortfall takes is a step of its own, and so is each of a turn's three: the
halt (`Look`), the gate (`TakeTurn`, `Wait`) and the tip (`ReadTip`). Without `leader` (which here is
"leads and has re-derived") no turn is taken.

**Boot** follows one attempt through the stages in which another process, the
monitor or a crash can come between two calls:

    Start -> Lead -> Funds -> FanOut (a step per round) -> Genesis -> Create
                                                             -> Verify -> SaveDeployment

Every one of them may send the process back to polling (`FanOutShort`,
`FanOutFails`, `CreateShort`, `Fail`, `CreateFails`, `Unrecorded`) or end it (`Crash`). `record` is
`state.json`, `genesis` counts what was broadcast and `lost` what was broadcast
by a process that failed before recording it. Amounts are integers: a round of the
fan-out costs its coins and `RoundFee`. `applied` is false from any movement of coin
until the wallet's monitor has run, and nothing can be claimed meanwhile.

**CellChain** says what is promised of a cell without a store, a lease, a worker
or a crash: transactions stand at generations, the chain is extended at its end
by one, taken by the network from its front, and cut by a refusal from the
refused transaction to the end. `CellEngine!standing` is the refinement mapping:
what stands are the signed transactions that were not refused and whose ancestors
were not, each paired with its generation. That at most one stands anywhere, and that
nothing is extended but the end, is what the store, the derivation, the recovery and
the worker achieve together.

**Lease** splits `AcquireLease` at the store: the client reads its clock (`Ask`), the
statement runs (`AcquireLease`), the result comes back (`Hear`, or `HearNothing`
for an error, whether or not the statement ran). Gaining the lease owes a
derivation (`DeriveRead`, `DeriveApply`), which is made in the same goroutine and so
delays the next renewal. Time is counted from the last call, from the start of a
transition and to the expiry of the row, so no clock needs a bound; every process
reads expiry with a clock of its own (`Skew`). The chains are one, and what the
write-ahead row adds when writers meet is left to CellEngine. Events: `crash`,
`fail`, `deaf` (a tool's renewal fails and it goes on), `undrained` (an engine releases the
row while its workers are in transitions).

**Prune** has one action per statement of a sweep (`Sweep`, `ReadFloor`, `Candidates`,
`Check`, `Clear`), with the wallet's spends, proofs, refusals and the network's blocks and
reorganisations between any two; the wallet is external. A row has a change coin
besides the cell's continuation, spent by any later transition of any cell.

**Payment** has one action per call the handler of a post makes out of its process
(`KnowsTx`, `Broadcast`, `Credit`), which may fail with or without its effect
(`BroadcastFails`, `CreditFails`), with a crash between any two. The slot and the
bucket are `Post`'s guards; the mutex inside them adds nothing in one process. A
credit is a row, counted, as the wallet takes the same transaction twice. Events:
`sends` (a payer's wallet broadcasts by itself), `recall` (arcade returns the bytes of what it
holds), `read` (the wallet cannot be asked).

**Feed** keeps of a snapshot the number of changes before it, and of a channel that
`Changed` returned whether it has been closed. `Subscribe`, `SnapshotTail`,
`PublishTail`, `PublisherWakes` are the publisher, `Connect`, `Load`, `Write`,
`HandlerWakes` the event handler, `Reply` and `ReplyArrives` a request of the page.

**Automaton** defines the ring twice, as `internal/ca` steps it and as the
contract reads bits by byte and divisor. **Audit** runs an engine that advances,
is refused and repairs (`Advance`, `Refuse`, `Rebuild`) beside an auditor that loads one
generation at a time (`Begin`, `LoadPrevious`, `AuditGeneration`). A transaction
is the record of what it says, so its identity is its content. `fault` chooses one
thing that is wrong with the deployment, or `none`; four of them (`Harmless`) only
take evidence away.

Definitions headed *Mutant* are plausible mistakes kept beside the definition
they would replace; nothing in the specifications uses them. They record which
mistake each property is there to catch.

## The runs

| Run | Bounds | What it shows |
|---|---|---|
| `cell_safe` | 2 generations, 3 transactions, window 2, wreckage 1 | `NoDoubleSpend`, `CrashSafe`, `WriteAhead`, `LiveRowKept` under crashes, failing writes, refusals, local failures and shortage; and that CellEngine implements CellChain (`ImplementsChain`) |
| `cell_everything` | 1 generation, 2 transactions | `TypeOK`, `RowsTellTheTruth`, `LiveRowNotDeleted` under every fault of the store, the lease, signing, the tool and a standby |
| `cell_progress` | 3 generations, 4 transactions | `UnseenBounded`, `UnconfirmedBounded`, `ParkedIsHalted`, and that nothing stalls in silence (`NoSilentStall`), with fairness |
| `cmd_recover` | 3 generations, 3 transactions, every initial record | `EveryRepairIsProgress`, `CascadeUntouched`, `AdoptedRowsLink` |
| `ring_safe` | 2 cells, 3 generations, lag 2 | `LagBounded` whatever moves between the clock's two locks |
| `ring_moves` | 2 cells, 2 generations, lag 1 | `RingMoves`, `StarvedRecovers`, with fairness |
| `cold_start` | 2 processes, a fan-out of two rounds, 2 failures, payments up to 27 | `MintsAccounted`, `EnginesRunTheRecord`, `RecordKept`, and with fairness `ColdStartEnds` |
| `lease_held` | 2 engines, 1 tool, clocks 1 apart, TTL 4, renewal 1, calls and transitions up to 1, 1 generation | `OneWriter`, `NoForeignSpend` under crashes and failing calls, and with fairness `LeaderInTheEnd` |
| `prune` | 1 cell, 4 actions, 4 blocks, reorganisations of 1, batches of 1, 2 batches a pass, 1 error or restart | `NeededKept`, and with fairness `DeadIsPruned` |
| `feed` | 1 browser, 3 changes, 2 restarts or dropped connections | with fairness `PublishedCatchesUp`, `ShownWhileNotified` |
| `audit` | 4 cells in 2 bytes, 2 generations, 2 seeds, 15 faults, 1 cell refused, a failure budget of 2 | `CleanMeansRun`, `NoFalseAlarm`, `CovenantAgrees` |
| `payment` | 4 payments (good, of another chain, mined, too small), 2 requests under way, a bucket of 2, 2 failures or crashes | `CreditedOnce`, `NoPhantom`, `AnswersAreTrue`, and with fairness `PaymentSettles` |

Why the bounds are enough for what is asked. A double spend needs one output
and two transactions; three transactions allow a lost one, a retry and its
child, and four a refusal, its retry and a child of each. The window
(`TipDepth`, 8 in the code) is 2 or 3 and `MaxWreckage` (3) is 1: the code's own compile-time assertion `tipDepth > maxWreckage` is the
assumption `WreckageFitsWindow`, and both sides of every comparison with them
occur. In `cmd_recover` one row lies beyond the window. A queue of one message is
full after one; that queued writes overtake each other is then met by the theorems alone,
which hold for every `QueueCap`. A retry budget of 0 or 1 is spent within the run. Two cells are
enough for one to be slower, to halt, or to probe while the other is in flight.
Two processes are enough for one to lead while the other waits and takes over; two
failures allow a lost genesis and a crash, or two partial fan-outs; payments
of every size up to 27 straddle the minimum (13) and twice it.
In `lease_held` the timing is the tightest `Timely` allows (renewal, call,
transition and skew add up to the TTL), so every boundary is met; the second
generation is the one a foreign spend would show at, and the tool's other timing
differs only by constants. In `prune` four actions are a genesis, a coin, a
transition and its successor or retry; four blocks allow a proof, its burial and a reorganisation;
a batch of one and a limit of two stop a pass in the middle. In `feed` three
changes allow one before, one during and one after a publication. In `audit` a
neighbourhood of the ring of four crosses a byte and the ring's end and leaves one
cell outside, two generations give a genesis output, a first and a second spend; all
nine checks fail in some behaviour, and clean reports are reached. In `payment` two failures
leave a payment broadcast, not credited, and fail its first retry. `WordSize` keeps the generations' subtraction unsigned: any wrap shows as a
number no gate or clock accepts.

`CHECK_DEADLOCK FALSE` stands in the configurations of the cell, the tool, the ring,
the cold start and the audit, because a cell that is halted, a ring at its last
generation, a tool or audit that is done and a deployment nobody pays for really stop.

### Fairness

In `CellEngine` the worker, the lease holder, the status writer and the
reconciler are goroutines in loops with timers, so each takes a step it can go
on taking (WF). The network answers what was offered to it (WF), and a wallet
asked again and again creates an action in the end (SF: funding comes and
goes). The lease may be lost for ever; `NoSilentStall` speaks of behaviours in
which it is held. It also names the timing a repair relies on (`RepairsAreTimely`):
the pause before a repair (at least 500 ms) outlasts the status writer's linger
(10 ms), so the refusal is in the store when the repair derives. The code does
not enforce it; a writer that is slower than that makes a repair derive a refused
tip. In `Ring` the clock, each worker and the lease holder are scheduled, time
passes for the probe, and a transition retried with coin at hand is not failed
locally for ever (SF). In `Boot` every process runs and is restarted, the monitor's
timer fires and an abandoned lease lapses; nobody has to pay, and failures are
bounded. In `Lease` time passes, timers fire, calls and derivations return and
a tool ends some day; `LeaderInTheEnd` speaks of behaviours in which faults end
and an engine stays up. In `Prune` the pruner keeps running; the wallet owes
nothing. In `Feed` the goroutines are scheduled and replies arrive; nothing has
to change, and `ShownWhileNotified` speaks of behaviours in which notifications go
on. In `Payment` calls return and the
bucket refills; nobody has to pay, and `PaymentSettles` speaks of payers who post again whenever
they are let. `audit` needs no fairness. `RingMoves` and `StarvedRecovers` assume that repairs
stop moving tips, and that no worker is orphaned (below).

### Disagreements between the code and what it says

Each is a property of the module named, which TLC refutes in the instance
described; none keeps a run of its own, so that the runs are of what holds.
The configuration of `cell_safe` with the given `Events` and only that property serves
for all of CellEngine's.

1. `NoDoubleSpend` (CellEngine, `Events = {"sign"}`): an error out of `SignAction` is recorded as failed and "the
   cell halts", but nothing in the running process halts it; the next turn signs
   over the same output, which may be spent.
2. `NoDoubleSpend` (CellEngine, `Events = {"lose", "reacquire"}`, `MaxRetries = 1`): a turn
   is granted under one lock and taken under another. With a
   lease that is lost and regained around a transition in flight, a re-derivation
   read before the transition was recorded moves the tip back after it.
3. `CrashSafe` (CellEngine, `{"crash", "operator"}`): of two wallet actions of one
   generation recovery looks
   at the older; if that one was never signed it concludes that nothing was, and
   retracts the only trace of the newer.
4. `WriteAhead` (CellEngine, `{"refuse", "standby"}`): a repair comes before the question
   who leads, so a second instance may retract the leader's write-ahead row.
5. `MinimumSuffices` (Boot, `cold_start` with `MaxDeposit = 13`, `MaxFaults = 0`): the
   minimum is compared again with what is left after part of
   it has been spent, so a deposit of exactly the advertised minimum is stranded
   by the first interruption after a round of fuel is minted.
6. `OneWriter`, `NoForeignSpend` (Lease, `lease_held` with `MaxDerive = 5`): a derivation runs between two
   renewals and may outlast the row; when it ends the process takes turns until its next
   call, while another holds the row.
7. `OneWriter`, `NoForeignSpend` (Lease, `lease_held` with the event `undrained`): on
   shutdown the row is released at once, while the workers' transitions, for which
   the process waits up to 20 s, are still in flight.
8. `RetainedUntouched` (Prune, the constants of `prune`): the retained generations are
   counted in rows of the basket, refused attempts included, so retries or a
   cell that lags let the pruner into generations it says it never touches. What
   it deletes there is still safe (`NeededKept`).
9. `LastChangeShown` (Feed, `feed` with `MaxChanges = 1`, `MaxFaults = 0`): the event handler is woken with the
   publisher, may look before the new tail is stored, and is not woken again; the
   last frame then stays unseen until some other change.
10. `NoFalseAlarmEver` (Audit, the constants of `audit`): a repair replaces a transaction the auditor
    has loaded, the next generation spends the replacement, and the audit reports a
    broken link on an honest deployment.
11. `AnswersAreTrue`, `PaymentSettles` (Payment, `payment` with `recall` besides `sends`): whether a
    payment is a duplicate is asked of the wallet and, when it has no bytes, of
    arcade. When arcade returns them, a payment that was broadcast and not credited is refused
    as "already credited" for ever.
12. `CreditedOnce` (Payment, `payment` with the event `read`, or with a server for each handler): an
    error of the wallet counts as "not a duplicate", and the mutex that makes check and
    credit one step is of one process, while two may serve over one wallet.

Also: a refusal dropped by the full queue,
or written before its row exists, is not re-applied by the reconciler, because a
terminal status has taken the transaction out of the index (TLC refutes
`RefusalReachesStore` in an instance whose only event is `refuse`); a paused ring
that starves, and is funded, comes back running (it refutes `PauseHolds` with `funds`,
`pause` and `step`); a failure between the broadcast of genesis and its record makes
the next attempt broadcast another, again and again if the cause stays (`lost` counts
them); a worker that parked on a halt stays
parked when re-derivation lifts it, and then holds the frontier, and so the
whole clock, where its cell is (`ParkedIsHalted` fails in an
instance whose events are `crash` and `auto`, or `crash` and `refuse`: the derivation
at the start of a process lifts a halt noted while it was under way); with `crash` and
`refuse` such a derivation may also set the frontier of what is seen below a tip that a
repair adopts (`UnseenBounded` fails, and the gate stays shut until the network has
caught up); a starved probe skips both gates; the depth gate's
subtraction is not guarded as the acceptance gate's is; the comment on
`ModeStarved` credits the balance poller with what a probe does; the archive serves a
window as immutable that a repair after a long halt will still change
(`archive.go:129`).

An attempt recorded elsewhere than just above the tip makes a recovery pass that
changes nothing and reports success. The source documents this, and
`EveryRepairIsProgress` leaves it out of its last clause; a run that changes rows has to make progress whatever it reports.

## What is proved

All proofs are for every value of the constants that satisfies the assumptions
(`MaxGenAssumption`, `WreckageFitsWindow`, `MaxTxAssumption`, `EngineAssumption`, `RingAssumption`,
`BootAssumption`, `LeaseAssumption`, `PruneAssumption`, `PaymentAssumption`,
`AuditAssumption`) and, unless an item says otherwise, any `Events`. Every safety property a run checks is stated by a theorem.

One cell and the store:

- **`TypeCorrect`** (`CellEngine_proofs`): `Spec => []TypeOK`. `TypeOK` is not
  inductive: a repair records whatever the wallet's actions and the refusal
  messages name, and the pass counter stays within `MaxWreckage` only if a
  repair that is deriving has passes left. The strengthening `TypeInv` adds that
  every reference points at a transaction the wallet has made, and what each
  program counter implies. The first part of the
  module holds the lemmas it rests on: the type of what each store statement, derivation,
  decision and application of a decision returns.
- **`WriteAheadCorrect`** (`CellEngine_proofs`): with one writer
  (`SoleWriter`: no `standby`, and not `auto` together with `reacquire`), `Spec => []WriteAhead`. The
  invariant adds that no attempting row names a transaction and that every queued
  status write names one, so an update by txid can never hit the row in flight,
  and that no transition is in flight while a process that will not re-derive again
  still has a derivation to make.
  Disagreement 4 shows that the assumption is needed.
- **`RowsTrue`** (`CellEngine_proofs`): `Spec => []RowsTellTheTruth`, with no
  assumption on the events. The invariant adds that rows, queued updates and the
  worker's own transaction are of the generation they stand at, that queued
  failures are of refused transactions, and that what is refused stays so.
- **`LiveRowsStay`** (`CellEngine_proofs`): `Spec => LiveRowNotDeleted`, with no assumption on
  the events. What any step deletes was an attempt or a failed row; the two
  invariants above say that the first names no transaction and the second a refused one.
- **`SpentOnce`, `RestartSafe`, `LiveRowsKept`, `EngineImplementsChain`** (`Chain_proofs`):
  `Spec => []NoDoubleSpend`, `Spec => []CrashSafe`, `Spec => LiveRowKept` and
  `Spec => ImplementsChain`, for every bound, window and amount of wreckage, under crashes,
  refusals, failing writes, local failures, shortages, mining and a lease that is lost
  (`Undisturbed`). The five events it excludes are each needed: alone beside the
  others, `sign` breaks `NoDoubleSpend`, `auto` and `operator` break `CrashSafe`,
  `standby` breaks `WriteAhead` and `reacquire` breaks `LiveRowKept` (disagreements 1 to 4).
  None of the four is inductive. `IInv` says that the wallet's transactions are a tree
  over the genesis (`WalletInv`); that no two live ones are of one generation, that the store
  names each or has an attempt open at its generation, and that attempts stand above all that is settled
  (`RecordInv`); and, for each place where a decision is taken on what was read earlier (a derivation under way,
  a repair between its passes, a worker between its look, its gate and its write), that no live transaction and
  no settled row is above the tip decided from. `Owed` adds that a process which still owes
  a derivation has left no attempt of its own standing. The step that matters is a repair's:
  what it retracts or adopts is decided from a position the refusals since may have outdated,
  and the invariant says in which direction only. For the refinement every step maps to
  `Extend`, `Take`, `Refuse` or a stutter; a refusal cuts what stands from its generation
  because everything live above descends from the refused one.
- **`BuiltWithinUnseen`, `BuiltWithinDepth`** (`Chain_proofs`): `Spec => []UnseenBounded`
  and `Spec => []UnconfirmedBounded` for every limit and word size, without `funds` (a
  starved probe skips the gates) and for a process that keeps its memory (`Uninterrupted`) or one that dies
  but is refused nothing (`Unrefused`); with `crash` and `refuse` the first is false (above). The
  invariants differ. The first kind of process derives its tips once, over the genesis, and
  every transaction its wallet ever made is within the limits, so whichever of them a repair adopts is too.
  In the second nothing is taken out of the chain, no repair runs, and whatever a derivation finds
  is the tip there was. In both, the depth gate's unsigned subtraction is the
  difference whenever the worker gets past it.
- **`ParkedStaysHalted`** (`Chain_proofs`): `Spec => []ParkedIsHalted`, again for
  `Uninterrupted` or `Unrefused`. Only a derivation lifts a halt while a worker is parked on it; the
  invariant says that none is owed once a cell can have halted or, without refusals,
  that the attempt which halted it is still open.
- **`CascadeLeftAlone`, `AdoptionsLink`, `RepairsProgress`** (`CellEngine_proofs`, part two):
  `ToolSpec => CascadeUntouched`, `ToolSpec => AdoptedRowsLink`, `ToolSpec => EveryRepairIsProgress`,
  for every depth of the window, amount of wreckage, wallet and record `ToolInit` admits. The invariant,
  `ToolInv`, is that a settled row names a signed transaction of its own generation, the genesis is
  one, and every action extends an earlier one by a generation. Derivation then finds the newest settled row
  whether or not it is in the window (`DeriveTipReads`), an adoption, whole or cut short, is a chain from that row up
  (`ToolAdopts`), and a retraction takes away one attempt or failure above it (`ToolRetracts`). So each run
  that does something raises the tip or leaves one unresolved row less; neither can go on for ever.

What surrounds it:

- **`LagAlwaysBounded`** (`Ring_proofs`): `Spec => []LagBounded`, for any number of cells, any lag and any
  word size. The clock raises the target by a frontier it read a lock earlier; the invariant is
  that while nothing took the frontier back or stepped, what it read is not above the frontier there is.
- **`OneWriterAlways`, `NoForeignSpendEver`** (`Lease_proofs`): `OneWriter` and `NoForeignSpend` always, for any number of
  engines and tools and any clocks, when `Timely` (a round of renewal, call, derivation and transition is shorter than
  the row lives, skews included) and `Orderly` (no tool deaf to its renewals, no engine that releases the
  lease over a transition in flight). The invariant measures how old each belief can be
  (`Punctual`), says that its row has at least the rest of its life left (`Held`), and that a leader has derived since the
  last transition of anybody else (`Knows`).
- **`GenesisAccounted`, `EnginesAgree`, `RecordIsKept`** (`Boot_proofs`): `MintsAccounted`,
  `EnginesRunTheRecord` and `RecordKept` for any number of processes. Whoever is in an attempt
  owns a live row, so nobody records a genesis behind a process that found none.
- **`NothingNeededIsPruned`** (`Prune_proofs`): `Spec => []NeededKept`, for any retention and limits, and at least
  as many confirmations as a reorganisation replaces blocks (`PruneAssumption`): an output found
  spent so deep stays spent until the batch is cleared.
- **`CreditedOnceOnly`, `NoPhantomEver`, `AnswersTrue`** (`Payment_proofs`): `NoPhantom` with no assumption;
  `CreditedOnce` for one process (`OneServer`) over a wallet that answers (`WalletAnswers`; disagreement 12 is the rest);
  `AnswersAreTrue` unless arcade hands back the bytes of what the wallet has not (`NoRecall`).

The automaton and its audit (`Audit_proofs`), for a ring of any number of cells and bytes, any
rule, seeds, faults and failure budget:

- **`ContractAgrees`**: `Spec => []CovenantAgrees`. For every row and cell the bit the contract
  accepts is the bit the automaton computes. Both rest on two facts of arithmetic (`BitRead`, `RuleRead`): a byte
  that is the sum of its bits' powers gives each of them back by a division and a
  remainder, and so does the rule number.
- **`HonestNoAlarm`**: `Spec => []NoFalseAlarm`. The invariant, `HonestInv`, says that there is one run of
  the automaton with which every recorded row, every tip, every recorded transaction and all
  the auditor has loaded agree; that each recorded transaction spends the one recorded for the generation below, unless that has
  been replaced since; and that what was reported is excused by such a replacement.
  That a run exists to any length is shown by a least counterexample.
- **`CleanReportMeansRun`**: `Spec => []CleanMeansRun`, whatever is wrong with the deployment. The invariant
  (`CleanInv`) is that while the walk has reported nothing, every generation behind it passed each of its checks
  against what is loaded of the generation before; from that, `Run` and `Lineage` follow by induction along the walk
  (`RunLoaded`, `LineageLoaded`).

All share one shape: the invariant holds initially, each action keeps it
(a lemma for each group of actions, a named step for each conjunct an action can
disturb), and one temporal step closes the argument.

Model-checked only: liveness (`NoSilentStall`, `RingMoves`, `StarvedRecovers`,
`ColdStartEnds`, `LeaderInTheEnd`, `DeadIsPruned`, `PublishedCatchesUp`,
`ShownWhileNotified`, `PaymentSettles`), which the prover does not do. Where a disagreement above breaks a
property, its theorem excludes, as a hypothesis on `Events`, what breaks it.

## What the models leave out, and why

- *Bytes.* Fetching, decoding and verifying a transaction is the fact `parent`;
  the covenant is "a successor carries the next generation". A failed fetch is a
  failed derivation: a halt in a repair, another try in a re-derivation.
- *Messages and display.* Halt reasons, snapshots, the list of cells waiting for
  coin. The display window never trims here. For a generation outside it the code
  writes a status to the store all the same, but does not note a refusal
  (`status.go:237`).
- *`RederiveApply`* takes the positions and clears `needsRederive` at once; the code
  does so under two locks, between which every turn is still refused.
- *Time.* `minHaltWindow` and the starvation grace are choices; the probe interval
  is a flag that comes up.
- *Batches.* A batch of statuses is the sequence of its records.
- *Graceful shutdown* is a crash at a convenient moment.
- *The migration floor* and the legacy state file.
- *Two writers on one cell's rows.* Lease has several processes and one chain without
  rows; CellEngine has the rows and one writer (`lose` and `reacquire` are one process's
  view of the lease, `standby` an instance that knows it does not lead).
- *In Prune*: dry runs, the report, reclaiming of space by
  the database, a retention too large for the floor's lookback (`floorWindowCap`: the
  sweep ends in an error before it has done anything); a block is a number. Where the code cuts the newest rows at a limit, the
  model keeps all rows of the generation at the cut, which come of one action.
- *In Audit*: arcade as a second source of bytes; the auditor's cache (a
  transaction never changes under its txid); refusals that cascade over several generations
  (only the tip is refused); the moment between the reading of a generation's row and of
  its cells (the row is written once, before the cells change); signatures and script execution, which
  are what a sighash commits to.
- *In Payment*: the bytes of a BEEF and its ancestry, key derivation, the statuses of the HTTP answers,
  the end of the payer's request (it ends the call under way, which fails). The command `fund`, for the operator,
  asks for a merkle proof and does not look for a duplicate.
- *In Feed*: what a snapshot contains, the bytes on the wire, a slow reader.
- *The cold start's surroundings*: an attempt that outlives its lease because the
  process stalls or the store is unreachable for 30 s, the command `genesis`, which
  takes no lease, a second data directory, a `state.json` torn by a power cut (nothing
  is synced) or one that does not parse when read after a refused write, the phase and frame shown meanwhile.
- *A refusal after acceptance* (a reorganisation that drops a transaction).
- *The wallet's* `failed` mark is an arbitrary part of what was refused.

Not modelled: the archive, which only reads; the fuel keeper,
whose coin management is the wallet library's (a transition meets it as a shortfall);
the command line, configuration and the depth probe, which are wiring (their limits are
constants here); the command `genesis`, which would break `MintsAccounted` by
construction; scripts and manifests.

## Plan

Done: the core (History, Derive, Recovery, CellEngine, CmdRecover), the ring,
the cold start, the lease, the pruner, public funding, publication, the automaton and the audit,
CellChain and its refinement, and a theorem for every safety property. What may follow:

1. A refinement of the public funding or the cold start, whose promises are now stated one by one.
2. Properties for the hazards that have none (see `PROJECT.json`), first of them a holder that
   goes on spending after its lease has passed to another.
