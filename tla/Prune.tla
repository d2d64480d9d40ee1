-------------------------------- MODULE Prune --------------------------------
(***************************************************************************)
(* The action pruner: what it deletes from a wallet that goes on spending, *)
(* mining, failing and being reorganised between its statements.           *)
(*                                                                         *)
(* A row is an action of the wallet: a transition of one cell, with the    *)
(* cell's continuation and a change coin as outputs, or the genesis or a   *)
(* fuel transaction the cells start from.  raw is whether its bytes are    *)
(* still there; the wallet needs them to spend one of its outputs and to   *)
(* send it again while it is not mined.                                    *)
(*                                                                         *)
(* The wallet and the network are external: coins are selected among what  *)
(* is unspent, proofs arrive late and in any order, a refused action gives *)
(* its inputs back, a reorganisation replaces at most MaxReorg blocks.     *)
(***************************************************************************)
EXTENDS Integers, FiniteSets, FiniteSetsExt

CONSTANTS
  Cells, Coin,
  RetainGenerations, MinConfirmations, BatchSize, MaxBatches,  \* PruneOptions
  MaxReorg,        \* the blocks a reorganisation replaces at most
  MaxTx, MaxHeight, MaxFaults

ASSUME PruneAssumption ==
  /\ IsFiniteSet(Cells) /\ Cells # {} /\ Coin \notin Cells
  /\ {RetainGenerations, MinConfirmations, MaxBatches, MaxReorg, MaxHeight, MaxFaults} \subseteq Nat
  /\ BatchSize \in Nat \ {0} /\ MaxTx \in Nat /\ MaxTx >= 2
  /\ MaxReorg <= MinConfirmations

VARIABLES
  \* transactions, outputs and known_txs: how many rows; the generation, the
  \* outputs, the block and the bytes of each; which of them have failed; who
  \* spends an output
  n, gen, outs, height, raw, failed, spender,
  best,                                \* the network's height
  \* Pruner: where Sweep is, what it read, how many batches, and cursor
  pc, tip, floorTx, batch, batches, cursor,
  faults                               \* errors and restarts so far

actions == <<n, gen, outs, failed>>
wallet == <<actions, height, raw, spender, best>>
pruner == <<pc, tip, floorTx, batch, batches, cursor, faults>>
vars == <<n, gen, outs, height, raw, failed, spender, best, pc, tip, floorTx, batch, batches, cursor, faults>>

Tx == 1 .. MaxTx
Kinds == Cells \cup {Coin}
Outputs == Tx \X Kinds
Heights == 0 .. MaxHeight   \* 0: no proof

TypeOK ==
  /\ n \in Tx /\ gen \in [Tx -> 0 .. MaxTx] /\ outs \in [Tx -> SUBSET Kinds]
  /\ height \in [Tx -> Heights] /\ raw \in [Tx -> BOOLEAN] /\ failed \subseteq Tx
  /\ spender \in [Outputs -> 0 .. MaxTx] /\ best \in Heights
  /\ pc \in {"idle", "floor", "batch", "check", "clear"}
  /\ tip \in Heights /\ floorTx \in 0 .. MaxTx /\ batch \subseteq Tx
  /\ batches \in Nat /\ cursor \in 0 .. MaxTx /\ faults \in 0 .. MaxFaults

\* The genesis and one more coin, mined.
Init ==
  /\ n = 2 /\ gen = [i \in Tx |-> 0]
  /\ outs = [i \in Tx |-> IF i = 1 THEN Kinds ELSE IF i = 2 THEN {Coin} ELSE {}]
  /\ height = [i \in Tx |-> IF i <= 2 /\ MaxHeight > 0 THEN 1 ELSE 0]
  /\ raw = [i \in Tx |-> TRUE] /\ failed = {}
  /\ spender = [x \in Outputs |-> 0]
  /\ best = IF MaxHeight > 0 THEN 1 ELSE 0
  /\ pc = "idle" /\ tip = 0 /\ floorTx = 0 /\ batch = {} /\ batches = 0 /\ cursor = 0
  /\ faults = 0

-----------------------------------------------------------------------------
(***************************************************************************)
(* The wallet and the network.                                             *)
(***************************************************************************)
Spendable(i, o) == o \in outs[i] /\ i \notin failed /\ spender[<<i, o>>] = 0

Inputs(k) == {x \in Outputs : spender[x] = k}

\* A transition of a cell spends its tip and any coin.
CreateAction(c) ==
  \E i, j \in 1 .. n :
    /\ Spendable(i, c) /\ Spendable(j, Coin)
    /\ n < MaxTx
    /\ n' = n + 1
    /\ gen' = [gen EXCEPT ![n + 1] = gen[i] + 1]
    /\ outs' = [outs EXCEPT ![n + 1] = {c, Coin}]
    /\ spender' = [x \in Outputs |-> IF x \in {<<i, c>>, <<j, Coin>>} THEN n + 1 ELSE spender[x]]
    /\ UNCHANGED <<height, raw, failed, best, pruner>>

\* A refusal gives the inputs back; what was built on it is refused first.
Refuse(k) ==
  /\ k \in 1 .. n /\ k \notin failed /\ height[k] = 0
  /\ \A o \in outs[k] : spender[<<k, o>>] = 0
  /\ failed' = failed \cup {k}
  /\ spender' = [x \in Outputs |-> IF spender[x] = k THEN 0 ELSE spender[x]]
  /\ UNCHANGED <<n, gen, outs, height, raw, best, pruner>>

\* A proof: no action is in an earlier block than one it spends.
Prove(k, h) ==
  /\ k \in 1 .. n /\ k \notin failed /\ height[k] = 0 /\ h \in 1 .. best
  /\ \A x \in Inputs(k) : height[x[1]] <= h
  /\ \A o \in outs[k] : LET s == spender[<<k, o>>]
                        IN  s # 0 => height[s] = 0 \/ h <= height[s]
  /\ height' = [height EXCEPT ![k] = h]
  /\ UNCHANGED <<actions, raw, spender, best, pruner>>

NewBlock ==
  /\ best < MaxHeight /\ best' = best + 1
  /\ UNCHANGED <<actions, height, raw, spender, pruner>>

\* A longer chain replaces the last d blocks.
Reorganise(d) ==
  /\ d \in 1 .. MaxReorg /\ d < best /\ best < MaxHeight
  /\ best' = best + 1
  /\ height' = [k \in Tx |-> IF height[k] > best - d THEN 0 ELSE height[k]]
  /\ UNCHANGED <<actions, raw, spender, pruner>>

-----------------------------------------------------------------------------
(***************************************************************************)
(* Sweep.  Each read and each write is a statement of its own.             *)
(***************************************************************************)
\* tipHeight: the highest block the wallet has a proof for.
IsTipHeight(t) == (\E k \in Tx : height[k] = t) /\ \A k \in Tx : height[k] <= t

Sweep ==
  /\ pc = "idle"
  /\ \E t \in Heights :
       /\ IsTipHeight(t)
       /\ tip' = t
       /\ pc' = IF t < MinConfirmations THEN "idle" ELSE "floor"
  /\ UNCHANGED <<wallet, floorTx, batch, batches, cursor, faults>>

\* floor: the newest rows of the basket, whatever became of their action.  The
\* rows of one action carry one generation, so that it does not matter at which
\* of them the limit falls.
CellOutputs == {x \in Outputs : x[1] <= n /\ x[2] \in Cells /\ x[2] \in outs[x[1]]}

Window == Cardinality(Cells) * (RetainGenerations + 1)

Newest ==
  {x \in CellOutputs : Cardinality({y \in CellOutputs : y[1] > x[1]}) < Window}

Retained ==
  LET newest == Max({0} \cup {gen[x[1]] : x \in Newest})
  IN  {x[1] : x \in {y \in Newest : gen[y[1]] > newest - RetainGenerations}}

Floor ==
  IF \/ Cardinality(CellOutputs) < Window
     \/ \A x \in Newest : gen[x[1]] < RetainGenerations
     \/ Retained = {}
    THEN 0 ELSE Min(Retained)

ReadFloor ==
  /\ pc = "floor"
  /\ floorTx' = Floor /\ batches' = 0
  /\ pc' = IF Floor = 0 THEN "idle" ELSE "batch"
  /\ UNCHANGED <<wallet, tip, batch, cursor, faults>>

\* candidates: mined, with bytes, beyond the cursor and below the floor.
Eligible == {k \in 1 .. n : k > cursor /\ k < floorTx /\ height[k] > 0 /\ raw[k]}

Oldest == {k \in Eligible : Cardinality({j \in Eligible : j < k}) < BatchSize}

\* Mutant: an exhausted cursor is not rewound.
CandidatesOnce ==
  /\ pc = "batch"
  /\ IF (MaxBatches > 0 /\ batches >= MaxBatches) \/ Eligible = {}
       THEN pc' = "idle" /\ batch' = {} /\ cursor' = cursor
       ELSE pc' = "check" /\ batch' = Oldest /\ cursor' = Max(Oldest)
  /\ UNCHANGED <<wallet, tip, floorTx, batches, faults>>

Candidates ==
  /\ pc = "batch"
  /\ \/ /\ MaxBatches > 0 /\ batches >= MaxBatches
        /\ pc' = "idle" /\ batch' = {} /\ cursor' = cursor
     \/ /\ MaxBatches = 0 \/ batches < MaxBatches
        /\ Eligible = {}
        /\ pc' = "idle" /\ batch' = {} /\ cursor' = 0
     \/ /\ MaxBatches = 0 \/ batches < MaxBatches
        /\ Eligible # {}
        /\ pc' = "check" /\ batch' = Oldest /\ cursor' = Max(Oldest)
  /\ UNCHANGED <<wallet, tip, floorTx, batches, faults>>

\* Mutant: the change coin is not looked at.
PrunableContinuation(k) ==
  \A o \in outs[k] \ {Coin} :
    LET s == spender[<<k, o>>]
    IN  s # 0 /\ height[s] > 0 /\ height[s] + MinConfirmations <= tip

\* prunable: every output spent, every spender mined and buried.
Prunable(k) ==
  /\ outs[k] # {}
  /\ \A o \in outs[k] :
       LET s == spender[<<k, o>>]
       IN  s # 0 /\ height[s] > 0 /\ height[s] + MinConfirmations <= tip

Check ==
  /\ pc = "check"
  /\ batch' = {k \in batch : Prunable(k)}
  /\ pc' = IF batch' = {} THEN "batch" ELSE "clear"
  /\ batches' = IF batch' = {} THEN batches + 1 ELSE batches
  /\ UNCHANGED <<wallet, tip, floorTx, cursor, faults>>

\* clear: the row must still be mined; its spenders are not asked again.
Clear ==
  /\ pc = "clear"
  /\ raw' = [k \in Tx |-> raw[k] /\ ~(k \in batch /\ height[k] > 0)]
  /\ pc' = "batch" /\ batch' = {} /\ batches' = batches + 1
  /\ UNCHANGED <<actions, height, spender, best, tip, floorTx, cursor, faults>>

\* An error ends the pass; Run starts another with the cursor where it was.
SweepFails ==
  /\ pc # "idle" /\ faults < MaxFaults
  /\ pc' = "idle" /\ batch' = {} /\ faults' = faults + 1
  /\ UNCHANGED <<wallet, tip, floorTx, batches, cursor>>

Restart ==
  /\ faults < MaxFaults
  /\ pc' = "idle" /\ batch' = {} /\ cursor' = 0 /\ faults' = faults + 1
  /\ UNCHANGED <<wallet, tip, floorTx, batches>>

-----------------------------------------------------------------------------
Wallet ==
  \/ \E c \in Cells : CreateAction(c)
  \/ \E k \in Tx : Refuse(k) \/ \E h \in Heights : Prove(k, h)
  \/ NewBlock
  \/ \E d \in Heights : Reorganise(d)

Pass == Sweep \/ ReadFloor \/ Candidates \/ Check \/ Clear

Next == Wallet \/ Pass \/ SweepFails \/ Restart

Spec == Init /\ [][Next]_vars

\* A pruner that keeps running.
FairSpec == Spec /\ WF_vars(Pass)

-----------------------------------------------------------------------------
(***************************************************************************)
(* Properties.                                                             *)
(***************************************************************************)
\* The wallet still needs the bytes of an action that has an output to spend,
\* and of one that is not mined and may have to be sent again.
Needed(k) ==
  /\ k <= n /\ k \notin failed
  /\ height[k] = 0 \/ \E o \in outs[k] : spender[<<k, o>>] = 0

\* Nothing the wallet needs, or will need again after a reorganisation and a
\* refusal, has been pruned, whatever happens between the statements of a pass.
NeededKept == \A k \in Tx : Needed(k) => raw[k]

\* What is out of reach of every reorganisation and below the floor is pruned
\* once wallet and errors give the pruner time for it: no row is forgotten that
\* the cursor has passed, and passes that stop at their limit get to the end.
Dead(k) ==
  /\ k <= n /\ height[k] > 0 /\ outs[k] # {}
  /\ \A o \in outs[k] :
       LET s == spender[<<k, o>>]
       IN  s # 0 /\ height[s] > 0 /\ \E j \in Tx : height[s] + MinConfirmations <= height[j]

DeadIsPruned == []<>(LET dead == {k \in Tx : raw[k] /\ Dead(k)}
                     IN  dead = {} \/ \A k \in dead : Floor <= k)

\* What prune.go says of RetainGenerations: the newest generations are never
\* touched, whatever the safety check says.
Frontier == Max({0} \cup {gen[k] : k \in Tx \ failed})

RetainedUntouched ==
  [][\A k \in Tx : raw[k] /\ ~raw'[k] => gen[k] + RetainGenerations <= Frontier]_vars
=============================================================================
