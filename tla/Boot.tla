-------------------------------- MODULE Boot --------------------------------
(***************************************************************************)
(* The cold start (internal/boot/boot.go, chain/genesis.go, chain/fuel.go): *)
(* processes on one data directory and one wallet wait for money, mint the  *)
(* first fuel and broadcast generation 0, and then write the file that is   *)
(* the only record of it.  The lease is held as its timings intend: it     *)
(* outlives its owner's hiccups and lapses only once its owner is gone.     *)
(***************************************************************************)
EXTENDS Integers, FiniteSets

CONSTANTS
  Procs,
  Nobody,
  FirstFuelCoins,  \* Config.FirstFuelCoins
  Denomination,    \* Config.FuelDenomination
  FanoutPerTx,     \* fanoutPerTx
  RoundFee,        \* what one round of the fan-out pays
  GenesisCost,     \* Config.GenesisCost
  Throughput,      \* Config.Throughput: there is a pool, and it pays for genesis
  MaxDeposit,      \* bound: what is ever paid in
  MaxFaults        \* bound: crashes and failures

ASSUME BootAssumption ==
  /\ Nobody \notin Procs
  /\ FirstFuelCoins \in Nat \ {0} /\ FanoutPerTx \in Nat \ {0}
  /\ Denomination \in Nat \ {0} /\ RoundFee \in Nat
  /\ GenesisCost \in Nat \ {0}
  /\ Throughput \in BOOLEAN
  /\ MaxDeposit \in Nat /\ MaxFaults \in Nat

VARIABLES
  pc,        \* where each process is: in Run, attempt, FanOutFuel or Genesis
  minting,   \* coins minted so far by the fan-out a process is in
  tx,        \* the genesis transaction a process has broadcast, 0 for none
  ring,      \* the genesis transaction of the ring a process's engine runs
  owner,     \* the owner of the lease row
  lapsed,    \* the lease row has expired
  record,    \* state.json: 0 when absent, otherwise Deployment.GenesisTxID
  change,    \* what the change basket holds
  pool,      \* coins in the fuel pool
  applied,   \* the monitor has applied every status: coins can be claimed
  deposited, \* history: what was ever paid in
  genesis,   \* history: genesis transactions broadcast so far
  lost,      \* history: those whose process failed before recording them
  faults     \* history: crashes and failures so far

memory == <<minting, tx, ring>>
lease  == <<owner, lapsed>>
wallet == <<change, pool, applied, deposited>>
past   == <<genesis, lost, faults>>

vars == <<pc, memory, lease, record, wallet, past>>

Stages == {"down", "poll", "funds", "fuel", "genesis", "create", "verify",
           "save", "ready"}

Min2(a, b) == IF a < b THEN a ELSE b

CoinsFor(amount) == (amount + Denomination - 1) \div Denomination

FanOutCost(coins) ==
  LET rounds == (coins + FanoutPerTx - 1) \div FanoutPerTx
  IN  coins * Denomination + rounds * RoundFee

\* The measured cost of both halves, with a quarter on top.
BootstrapMinimum == ((FanOutCost(FirstFuelCoins) + GenesisCost) * 125) \div 100

Init ==
  /\ pc = [p \in Procs |-> "down"] /\ minting = [p \in Procs |-> 0]
  /\ tx = [p \in Procs |-> 0] /\ ring = [p \in Procs |-> 0]
  /\ owner = Nobody /\ lapsed = FALSE
  /\ record = 0
  /\ change = 0 /\ pool = 0 /\ applied = TRUE /\ deposited = 0
  /\ genesis = 0 /\ lost = 0 /\ faults = 0

At(p, stage) == pc[p] = stage
Goes(p, stage) == pc' = [pc EXCEPT ![p] = stage]
Fault == faults < MaxFaults /\ faults' = faults + 1

-----------------------------------------------------------------------------
\* Mutant: an expired row is anybody's, and so is a live one.
MayAcquireAny(p) == TRUE

\* What the WHERE of the upsert lets through: a free row, one's own, or one
\* that has expired.
MayAcquire(p) == owner = Nobody \/ owner = p \/ lapsed

\* Every process renews in the background, and so takes a lease that lapses.
Renew(p) ==
  /\ ~At(p, "down")
  /\ MayAcquire(p) /\ (owner # p \/ lapsed)
  /\ owner' = p /\ lapsed' = FALSE
  /\ UNCHANGED <<pc, memory, record, wallet, past>>

\* Mutant: the row expires between two renewals of a process that is up.
LapseEarly ==
  /\ owner \in Procs /\ ~lapsed
  /\ lapsed' = TRUE
  /\ UNCHANGED <<pc, memory, owner, record, wallet, past>>

\* The row outlives three renewals, and so lapses only under a process that is
\* gone.
Lapse ==
  /\ owner \in Procs /\ pc[owner] = "down" /\ ~lapsed
  /\ lapsed' = TRUE
  /\ UNCHANGED <<pc, memory, owner, record, wallet, past>>

\* Run: a deployment that exists is loaded and nothing is spent.
Start(p) ==
  /\ At(p, "down")
  /\ IF record # 0
       THEN Goes(p, "ready") /\ ring' = [ring EXCEPT ![p] = record]
       ELSE Goes(p, "poll") /\ UNCHANGED ring
  /\ UNCHANGED <<minting, tx, lease, record, wallet, past>>

\* An attempt begins with the lease; without it the process goes on waiting.
Lead(p) ==
  /\ At(p, "poll")
  /\ MayAcquire(p)
  /\ owner' = p /\ lapsed' = FALSE
  /\ Goes(p, "funds")
  /\ UNCHANGED <<memory, record, wallet, past>>

\* Nothing is spent before the minimum has arrived; then fuel, if the pool is
\* short of it, and otherwise genesis.
NeedsFuel == Throughput /\ pool < FirstFuelCoins

Spendable == IF Throughput THEN pool * Denomination ELSE change
Reserve == IF Throughput THEN change ELSE 0
Enough == Spendable + Reserve >= BootstrapMinimum

Funds(p) ==
  /\ At(p, "funds")
  /\ \/ ~Enough /\ Goes(p, "poll")
     \/ Enough /\ NeedsFuel /\ Goes(p, "fuel")
     \/ Enough /\ ~NeedsFuel /\ Goes(p, "genesis")
  /\ UNCHANGED <<memory, lease, record, wallet, past>>

-----------------------------------------------------------------------------
(***************************************************************************)
(* The fan-out: rounds of at most FanoutPerTx coins.                       *)
(***************************************************************************)
\* Mutant: the rounds draw on the reserve basket, which only the keeper fills.
FuelSourceReserve == 0

FuelSource == change

Batch(p) == Min2(FirstFuelCoins - minting[p], FanoutPerTx)
RoundCost(p) == Batch(p) * Denomination + RoundFee
CanMint(p) == applied /\ RoundCost(p) <= FuelSource

\* A round is signed and broadcast.
Mint(p) ==
  /\ change' = change - RoundCost(p) /\ pool' = pool + Batch(p)
  /\ applied' = FALSE
  /\ UNCHANGED deposited

FanOut(p) ==
  /\ At(p, "fuel") /\ CanMint(p)
  /\ Mint(p)
  /\ IF minting[p] + Batch(p) >= FirstFuelCoins
       THEN Goes(p, "genesis") /\ minting' = [minting EXCEPT ![p] = 0]
       ELSE UNCHANGED pc /\ minting' = [minting EXCEPT ![p] = @ + Batch(p)]
  /\ UNCHANGED <<tx, ring, lease, record, past>>

\* The wait for claimable coins runs out: back to asking, with the rounds
\* already minted kept.
FanOutShort(p) ==
  /\ At(p, "fuel") /\ ~CanMint(p)
  /\ Goes(p, "poll") /\ minting' = [minting EXCEPT ![p] = 0]
  /\ UNCHANGED <<tx, ring, lease, record, wallet, past>>

\* An error of a round that was broadcast all the same.
FanOutFails(p) ==
  /\ At(p, "fuel") /\ CanMint(p)
  /\ Fault
  /\ Mint(p)
  /\ Goes(p, "poll") /\ minting' = [minting EXCEPT ![p] = 0]
  /\ UNCHANGED <<tx, ring, lease, record, genesis, lost>>

-----------------------------------------------------------------------------
(***************************************************************************)
(* Genesis.                                                                *)
(***************************************************************************)
\* Mutant: genesis does not look for the record of an earlier one.
RefusedNever == FALSE

Refused == record # 0

\* A genesis that already exists is loaded.
Genesis(p) ==
  /\ At(p, "genesis")
  /\ IF Refused
       THEN Goes(p, "ready") /\ ring' = [ring EXCEPT ![p] = record]
       ELSE Goes(p, "create") /\ UNCHANGED ring
  /\ UNCHANGED <<minting, tx, lease, record, wallet, past>>

CanCreate == applied /\ GenesisCost <= Spendable

\* The transaction is signed and broadcast.  Under the throughput strategy it
\* spends whole coins of the pool, and what is over returns as change.
Broadcast ==
  /\ LET coins == IF Throughput THEN CoinsFor(GenesisCost) ELSE 0
     IN  /\ pool' = pool - coins
         /\ change' = change + coins * Denomination - GenesisCost
  /\ applied' = FALSE
  /\ genesis' = genesis + 1
  /\ UNCHANGED deposited

Create(p) ==
  /\ At(p, "create") /\ CanCreate
  /\ Broadcast
  /\ Goes(p, "verify") /\ tx' = [tx EXCEPT ![p] = genesis + 1]
  /\ UNCHANGED <<minting, ring, lease, record, lost, faults>>

CreateShort(p) ==
  /\ At(p, "create") /\ ~CanCreate
  /\ Goes(p, "poll")
  /\ UNCHANGED <<memory, lease, record, wallet, past>>

\* An error after the broadcast: attempt waits, and tries again.
CreateFails(p) ==
  /\ At(p, "create") /\ CanCreate
  /\ Fault
  /\ Broadcast
  /\ lost' = lost + 1
  /\ Goes(p, "poll")
  /\ UNCHANGED <<memory, lease, record>>

\* verifyGenesisLayout
Verify(p) ==
  /\ At(p, "verify")
  /\ Goes(p, "save")
  /\ UNCHANGED <<memory, lease, record, wallet, past>>

\* Written beside and renamed: the record appears whole.
SaveDeployment(p) ==
  /\ At(p, "save")
  /\ record' = tx[p]
  /\ Goes(p, "ready") /\ ring' = [ring EXCEPT ![p] = tx[p]]
  /\ tx' = [tx EXCEPT ![p] = 0]
  /\ UNCHANGED <<minting, lease, wallet, past>>

\* The layout is not what was asked for, or the file cannot be written.
Unrecorded(p) ==
  /\ pc[p] \in {"verify", "save"}
  /\ Fault
  /\ lost' = lost + 1
  /\ Goes(p, "poll") /\ tx' = [tx EXCEPT ![p] = 0]
  /\ UNCHANGED <<minting, ring, lease, record, wallet, genesis>>

\* Anything before the broadcast that fails for another reason than coin: a
\* read of the funds, a round of the fan-out, the look for a record,
\* CreateAction.
Fail(p) ==
  /\ pc[p] \in {"funds", "fuel", "genesis", "create"}
  /\ Fault
  /\ Goes(p, "poll") /\ minting' = [minting EXCEPT ![p] = 0]
  /\ UNCHANGED <<tx, ring, lease, record, wallet, genesis, lost>>

Crash(p) ==
  /\ ~At(p, "down")
  /\ Fault
  /\ lost' = IF pc[p] \in {"verify", "save"} THEN lost + 1 ELSE lost
  /\ Goes(p, "down")
  /\ minting' = [minting EXCEPT ![p] = 0]
  /\ tx' = [tx EXCEPT ![p] = 0] /\ ring' = [ring EXCEPT ![p] = 0]
  /\ UNCHANGED <<lease, record, wallet, genesis>>

-----------------------------------------------------------------------------
\* The wallet: a payment arrives; the monitor applies what it has seen.
Deposit ==
  /\ \E n \in 1 .. MaxDeposit - deposited :
       change' = change + n /\ deposited' = deposited + n
  /\ applied' = FALSE
  /\ UNCHANGED <<pc, memory, lease, record, pool, past>>

Monitor ==
  /\ ~applied
  /\ applied' = TRUE
  /\ UNCHANGED <<pc, memory, lease, record, change, pool, deposited, past>>

Run(p) ==
  \/ Start(p) \/ Lead(p) \/ Funds(p) \/ FanOut(p) \/ FanOutShort(p)
  \/ Genesis(p) \/ Create(p) \/ CreateShort(p) \/ Verify(p) \/ SaveDeployment(p)

Disturb(p) == FanOutFails(p) \/ CreateFails(p) \/ Unrecorded(p) \/ Fail(p) \/ Crash(p)

Next ==
  \/ Lapse \/ Deposit \/ Monitor
  \/ \E p \in Procs : Renew(p) \/ Run(p) \/ Disturb(p)

Spec == Init /\ [][Next]_vars

(***************************************************************************)
(* Processes run and are restarted, the monitor's tasks run, and a lease   *)
(* whose owner is gone lapses.  Nobody has to pay.                         *)
(***************************************************************************)
FairSpec ==
  /\ Spec
  /\ WF_vars(Monitor) /\ WF_vars(Lapse)
  /\ \A p \in Procs : WF_vars(Run(p))
-----------------------------------------------------------------------------
\* A genesis once recorded is never replaced by another, whoever leads after
\* whom and whatever an attempt had decided before: Genesis refuses.
RecordKept == [][record # 0 => record' = record]_vars

\* Every genesis broadcast is on record, on its way there in the one process
\* that leads, or lost to a failure between the two: no attempt mints a second
\* ring for any other reason.
Pending == {p \in Procs : pc[p] \in {"verify", "save"}}
MintsAccounted ==
  genesis = lost + (IF record # 0 THEN 1 ELSE 0) + (IF Pending # {} THEN 1 ELSE 0)

\* No engine runs a ring that is not the one on record.
EnginesRunTheRecord == \A p \in Procs : At(p, "ready") => ring[p] = record

\* What has been paid brings a ring up, or has bought one that was lost.
Suffices(amount) == (deposited >= amount) ~> (record # 0 \/ lost > 0)

\* Once twice the minimum has arrived a ring comes up and is on record without
\* a further payment, whichever round of the fan-out failed, whichever leader
\* died and however late coins become claimable.
ColdStartEnds == Suffices(2 * BootstrapMinimum)

\* The same of the minimum itself, which cost.go calls the smallest payment
\* that turns a cold deployment into a running one rather than a stuck one.
MinimumSuffices == Suffices(BootstrapMinimum)
=============================================================================
