---------------------------- MODULE Prune_proofs ----------------------------
(***************************************************************************)
(* The pruner deletes nothing the wallet still needs.  A spender that is   *)
(* buried as deep as a reorganisation reaches stays mined, so an output    *)
(* found spent stays spent through every statement that follows.           *)
(***************************************************************************)
EXTENDS Prune, TLAPS

LEMMA Bounds ==
  /\ MaxReorg \in Nat /\ MinConfirmations \in Nat /\ MaxReorg <= MinConfirmations
  /\ MaxTx \in Nat /\ MaxTx >= 2 /\ MaxHeight \in Nat
BY PruneAssumption

(***************************************************************************)
(* The strengthening.                                                      *)
(***************************************************************************)
Typed ==
  /\ n \in Tx /\ outs \in [Tx -> SUBSET Kinds]
  /\ height \in [Tx -> Nat] /\ raw \in [Tx -> BOOLEAN] /\ failed \subseteq 1 .. n
  /\ spender \in [Outputs -> 0 .. MaxTx] /\ best \in Nat /\ tip \in Nat
  /\ batch \subseteq Tx /\ gen \in [Tx -> Int]
  /\ pc \in {"idle", "floor", "batch", "check", "clear"}

\* Nothing is mined above the network's height or before it exists, and the
\* tip a sweep works with was reached.
Bounded ==
  /\ tip <= best
  /\ \A k \in Tx : height[k] <= best /\ (k > n => height[k] = 0 /\ raw[k])

\* A spender exists, has not failed, and is in no earlier block.
Ordered ==
  \A i \in Tx, o \in Kinds :
    LET k == spender[<<i, o>>]
    IN  k # 0 => /\ k \in 1 .. n /\ k \notin failed
                 /\ i \in 1 .. n /\ i \notin failed /\ o \in outs[i]
                 /\ height[i] > 0 /\ height[k] > 0 => height[i] <= height[k]

\* Every output is spent out of the reach of a reorganisation.
Final(k) == k \in Tx /\ height[k] > 0 /\ height[k] + MaxReorg <= best
Spent(i) == outs[i] # {} /\ \A o \in outs[i] : Final(spender[<<i, o>>])

Reached ==
  /\ \A i \in Tx : ~raw[i] => height[i] > 0 /\ Spent(i)
  /\ pc = "clear" => \A i \in batch : Spent(i)

IInv == Typed /\ Bounded /\ Ordered /\ Reached

LEMMA IInvNeededKept == ASSUME IInv PROVE NeededKept
<1> SUFFICES ASSUME NEW k \in Tx, Needed(k), ~raw[k] PROVE FALSE
  BY DEF NeededKept, IInv, Typed
<1>1. height[k] > 0 /\ Spent(k) /\ height[k] \in Nat
  BY DEF IInv, Reached, Typed
<1>2. \A o \in outs[k] : spender[<<k, o>>] # 0
  BY <1>1 DEF Spent, Final, Tx
<1>3. height[k] # 0
  BY <1>1
<1>4. height[k] = 0 \/ \E o \in outs[k] : spender[<<k, o>>] = 0
  BY DEF Needed
<1> QED BY <1>2, <1>3, <1>4

LEMMA InitIInv == ASSUME Init PROVE IInv
<1> USE Bounds
<1>1. Typed
  BY DEF Init, Typed, Tx, Outputs, Kinds
<1>2. Bounded
  BY DEF Init, Bounded, Tx
<1>3. Ordered
  BY DEF Init, Ordered, Outputs, Kinds
<1>4. Reached
  BY DEF Init, Reached
<1> QED BY <1>1, <1>2, <1>3, <1>4 DEF IInv

\* What is out of reach stays so while no block is unmade below it.
LEMMA FinalStays ==
  ASSUME IInv, best' \in Nat, best <= best',
         \A k \in Tx : Final(k) => height'[k] = height[k]
  PROVE  \A k \in Tx : Final(k) => Final(k)'
<1> SUFFICES ASSUME NEW k \in Tx, Final(k) PROVE Final(k)'
  OBVIOUS
<1>1. height[k] \in Nat /\ best \in Nat /\ MaxReorg \in Nat
  BY Bounds DEF IInv, Typed
<1> QED BY <1>1 DEF Final

\* The pruned and the batch keep their spenders.
LEMMA SpentStays ==
  ASSUME IInv, NEW i \in Tx, Spent(i), outs'[i] = outs[i],
         \A k \in Tx : Final(k) => Final(k)',
         \A o \in outs[i] : spender'[<<i, o>>] = spender[<<i, o>>]
  PROVE  Spent(i)'
<1>1. \A o \in outs[i] : spender[<<i, o>>] \in Tx /\ Final(spender[<<i, o>>])
  BY DEF Spent, Final
<1> QED BY <1>1 DEF Spent

LEMMA SpentBorn == ASSUME IInv, NEW a \in Tx, Spent(a) PROVE a <= n
<1>1. PICK o \in outs[a] : spender[<<a, o>>] \in Tx
  BY DEF Spent, Final
<1>2. o \in Kinds /\ spender[<<a, o>>] # 0
  BY <1>1 DEF IInv, Typed, Tx
<1> QED BY <1>2 DEF IInv, Ordered

(***************************************************************************)
(* The steps of the wallet and the network.                                *)
(***************************************************************************)
LEMMA CreateStep == ASSUME IInv, NEW c \in Cells, CreateAction(c) PROVE IInv'
<1>0. Typed /\ Bounded /\ Ordered /\ Reached
  BY DEF IInv
<1>1. PICK i \in 1 .. n, j \in 1 .. n :
        /\ Spendable(i, c) /\ Spendable(j, Coin) /\ n < MaxTx /\ n' = n + 1
        /\ gen' = [gen EXCEPT ![n + 1] = gen[i] + 1]
        /\ outs' = [outs EXCEPT ![n + 1] = {c, Coin}]
        /\ spender' = [x \in Outputs |-> IF x \in {<<i, c>>, <<j, Coin>>} THEN n + 1 ELSE spender[x]]
        /\ UNCHANGED <<height, raw, failed, best, pruner>>
  BY DEF CreateAction
<1>2. n \in Nat /\ n + 1 \in Tx /\ n + 1 > n /\ i \in Tx /\ j \in Tx /\ i <= n /\ j <= n
  BY <1>0, <1>1, Bounds DEF Typed, Tx
<1>3. Typed'
  <2>1. spender' \in [Outputs -> 0 .. MaxTx]
    BY <1>0, <1>1, <1>2, Bounds DEF Typed, Tx
  <2>2. outs' \in [Tx -> SUBSET Kinds] /\ gen' \in [Tx -> Int] /\ n' \in Tx
    BY <1>0, <1>1, <1>2 DEF Typed, Kinds
  <2> QED BY <1>0, <1>1, <2>1, <2>2 DEF Typed, pruner
<1>4. Bounded'
  BY <1>0, <1>1, <1>2, Bounds DEF Bounded, Typed, Tx, pruner
<1>5. Ordered'
  <2> SUFFICES ASSUME NEW a \in Tx, NEW o \in Kinds, spender'[<<a, o>>] # 0
      PROVE  LET k == spender'[<<a, o>>]
             IN  /\ k \in 1 .. n' /\ k \notin failed
                 /\ a \in 1 .. n' /\ a \notin failed /\ o \in outs'[a]
                 /\ height[a] > 0 /\ height[k] > 0 => height[a] <= height[k]
    BY <1>1 DEF Ordered
  <2>1. CASE <<a, o>> \in {<<i, c>>, <<j, Coin>>}
    <3>1. spender'[<<a, o>>] = n + 1
      BY <1>1, <2>1 DEF Outputs
    <3>2. a \in {i, j} /\ a \notin failed /\ a # n + 1 /\ o \in outs[a]
      BY <1>1, <1>2, <2>1 DEF Spendable
    <3>3. height[n + 1] = 0 /\ n + 1 \notin failed
      BY <1>0, <1>2, <1>1 DEF Bounded, Typed
    <3>4. outs'[a] = outs[a]
      BY <1>0, <1>1, <3>2 DEF Typed
    <3> QED BY <1>1, <1>2, <3>1, <3>2, <3>3, <3>4
  <2>2. CASE <<a, o>> \notin {<<i, c>>, <<j, Coin>>}
    <3>1. spender'[<<a, o>>] = spender[<<a, o>>]
      BY <1>1, <2>2 DEF Outputs
    <3>2. a \in 1 .. n /\ outs'[a] = outs[a]
      BY <1>0, <1>1, <1>2, <3>1 DEF Ordered, Typed
    <3> QED BY <1>0, <1>1, <1>2, <3>1, <3>2 DEF Ordered, Typed
  <2> QED BY <2>1, <2>2
<1>6. Reached'
  <2>1. \A k \in Tx : Final(k) => Final(k)'
    BY <1>0, <1>1, FinalStays DEF Typed
  <2>2. ASSUME NEW a \in Tx, Spent(a) PROVE Spent(a)'
    <3>1. a # n + 1
      BY <1>0, <1>2, <2>2, SpentBorn
    <3>2. outs'[a] = outs[a]
      BY <1>0, <1>1, <3>1 DEF Typed
    <3>3. \A o \in outs[a] : spender'[<<a, o>>] = spender[<<a, o>>]
      <4> SUFFICES ASSUME NEW o \in outs[a], <<a, o>> \in {<<i, c>>, <<j, Coin>>} PROVE FALSE
        BY <1>0, <1>1 DEF Outputs, Typed
      <4>1. spender[<<a, o>>] = 0
        BY <1>1 DEF Spendable
      <4> QED BY <2>2, <4>1 DEF Spent, Final, Tx
    <3> QED BY <2>1, <2>2, <3>2, <3>3, SpentStays
  <2> QED BY <1>0, <1>1, <2>2 DEF Reached, Typed, pruner
<1> QED BY <1>3, <1>4, <1>5, <1>6 DEF IInv

LEMMA RefuseStep == ASSUME IInv, NEW k \in Tx, Refuse(k) PROVE IInv'
<1>0. Typed /\ Bounded /\ Ordered /\ Reached
  BY DEF IInv
<1>1. Typed'
  BY <1>0, Bounds DEF Refuse, Typed, pruner
<1>2. Bounded'
  BY <1>0 DEF Refuse, Bounded, pruner
<1>3. Ordered'
  <2> SUFFICES ASSUME NEW a \in Tx, NEW o \in Kinds, spender'[<<a, o>>] # 0
      PROVE  LET s == spender'[<<a, o>>]
             IN  /\ s \in 1 .. n /\ s \notin failed'
                 /\ a \in 1 .. n /\ a \notin failed' /\ o \in outs[a]
                 /\ height[a] > 0 /\ height[s] > 0 => height[a] <= height[s]
    BY DEF Refuse, Ordered
  <2>1. <<a, o>> \in Outputs
    BY DEF Outputs
  <2>2. spender'[<<a, o>>] = spender[<<a, o>>] /\ spender[<<a, o>>] # k
    BY <2>1 DEF Refuse
  <2>3. a # k
    BY <1>0, <2>2 DEF Refuse, Ordered
  <2> QED BY <1>0, <2>2, <2>3 DEF Ordered, Refuse
<1>4. Reached'
  <2>1. \A a \in Tx : Final(a) => Final(a)'
    BY <1>0, FinalStays DEF Refuse, Typed
  <2>2. ASSUME NEW a \in Tx, Spent(a) PROVE Spent(a)'
    <3>1. \A o \in outs[a] : spender[<<a, o>>] # k
      BY <1>0, <2>2 DEF Spent, Final, Refuse, Typed
    <3>2. \A o \in outs[a] : spender'[<<a, o>>] = spender[<<a, o>>]
      BY <1>0, <3>1 DEF Refuse, Outputs, Typed
    <3> QED BY <2>1, <2>2, <3>2, SpentStays DEF Refuse
  <2> QED BY <1>0, <2>2 DEF Reached, Typed, Refuse, pruner
<1> QED BY <1>1, <1>2, <1>3, <1>4 DEF IInv

LEMMA ProveStep == ASSUME IInv, NEW k \in Tx, NEW h \in Heights, Prove(k, h) PROVE IInv'
<1>0. Typed /\ Bounded /\ Ordered /\ Reached
  BY DEF IInv
<1>1. h \in Nat /\ h > 0 /\ h <= best /\ height' = [height EXCEPT ![k] = h] /\ height[k] = 0
  BY <1>0 DEF Prove, Typed
<1>2. Typed'
  BY <1>0, <1>1 DEF Prove, Typed, actions, pruner
<1>3. Bounded'
  BY <1>0, <1>1 DEF Prove, Bounded, Typed, actions, pruner
<1>4. Ordered'
  <2> SUFFICES ASSUME NEW a \in Tx, NEW o \in Kinds, spender[<<a, o>>] # 0
      PROVE  LET s == spender[<<a, o>>]
             IN  height'[a] > 0 /\ height'[s] > 0 => height'[a] <= height'[s]
    BY <1>0 DEF Prove, Ordered, actions
  <2> DEFINE s == spender[<<a, o>>]
  <2>1. s \in Tx /\ o \in outs[a] /\ <<a, o>> \in Outputs
    BY <1>0 DEF Ordered, Typed, Tx, Outputs
  <2>2. CASE a = k
    <3>1. height[s] = 0 \/ h <= height[s]
      BY <2>1, <2>2 DEF Prove
    <3> QED BY <1>0, <1>1, <2>1, <2>2, <3>1 DEF Typed
  <2>3. CASE a # k /\ s = k
    <3>1. height[a] <= h
      BY <2>1, <2>3 DEF Prove, Inputs
    <3> QED BY <1>0, <1>1, <2>1, <2>3, <3>1 DEF Typed
  <2>4. CASE a # k /\ s # k
    BY <1>0, <1>1, <2>1, <2>4 DEF Ordered, Typed
  <2> QED BY <2>2, <2>3, <2>4
<1>5. Reached'
  <2>1. \A a \in Tx : Final(a) => Final(a)'
    <3>1. \A a \in Tx : Final(a) => height'[a] = height[a]
      BY <1>0, <1>1 DEF Final, Typed
    <3> QED BY <1>0, <3>1, FinalStays DEF Prove, Typed
  <2>2. ASSUME NEW a \in Tx, Spent(a) PROVE Spent(a)'
    BY <2>1, <2>2, SpentStays DEF Prove, actions
  <2> QED BY <1>0, <1>1, <2>2 DEF Reached, Typed, Prove, actions, pruner
<1> QED BY <1>2, <1>3, <1>4, <1>5 DEF IInv

LEMMA BlockStep == ASSUME IInv, NewBlock PROVE IInv'
<1>0. Typed /\ Bounded /\ Ordered /\ Reached
  BY DEF IInv
<1>1. best' = best + 1 /\ best \in Nat /\ UNCHANGED <<actions, height, raw, spender, pruner>>
  BY <1>0 DEF NewBlock, Typed
<1>2. Typed' /\ Ordered'
  BY <1>0, <1>1 DEF Typed, Ordered, actions, pruner
<1>3. Bounded'
  BY <1>0, <1>1 DEF Bounded, Typed, actions, pruner
<1>4. Reached'
  <2>1. \A a \in Tx : Final(a) => Final(a)'
    BY <1>1, FinalStays
  <2>2. ASSUME NEW a \in Tx, Spent(a) PROVE Spent(a)'
    BY <1>1, <2>1, <2>2, SpentStays DEF actions
  <2> QED BY <1>0, <1>1, <2>2 DEF Reached, Typed, actions, pruner
<1> QED BY <1>2, <1>3, <1>4 DEF IInv

LEMMA ReorganiseStep == ASSUME IInv, NEW d \in Heights, Reorganise(d) PROVE IInv'
<1>0. Typed /\ Bounded /\ Ordered /\ Reached
  BY DEF IInv
<1>1. /\ best' = best + 1 /\ best \in Nat /\ UNCHANGED <<actions, raw, spender, pruner>>
      /\ d \in Nat /\ d <= MaxReorg /\ MaxReorg \in Nat
      /\ height' = [k \in Tx |-> IF height[k] > best - d THEN 0 ELSE height[k]]
  BY <1>0, Bounds DEF Reorganise, Typed
<1>2. \A k \in Tx : height[k] \in Nat /\ height'[k] \in {0, height[k]}
                    /\ (height'[k] = 0 => height[k] = 0 \/ height[k] > best - d)
                    /\ (height[k] > best - d => height'[k] = 0)
  BY <1>0, <1>1 DEF Typed
<1>3. Typed'
  BY <1>0, <1>1 DEF Typed, actions, pruner
<1>4. Bounded'
  BY <1>0, <1>1, <1>2 DEF Bounded, Typed, actions, pruner
<1>5. Ordered'
  <2>1. \A k \in 1 .. n : k \in Tx
    BY <1>0, Bounds DEF Typed, Tx
  <2> QED BY <1>0, <1>1, <1>2, <2>1 DEF Ordered, actions
<1>6. \A a \in Tx : Final(a) => height'[a] = height[a]
  BY <1>1, <1>2 DEF Final
<1>7. \A a \in Tx : Final(a) => Final(a)'
  BY <1>1, <1>6, FinalStays
<1>8. Reached'
  <2>1. ASSUME NEW a \in Tx, Spent(a) PROVE Spent(a)'
    BY <1>1, <1>7, <2>1, SpentStays DEF actions
  <2>2. ASSUME NEW a \in Tx, Spent(a), height[a] > 0 PROVE height'[a] > 0
    <3>1. PICK o \in outs[a] : Final(spender[<<a, o>>])
      BY <2>2 DEF Spent
    <3> DEFINE s == spender[<<a, o>>]
    <3>2. s \in Tx /\ s # 0 /\ height[s] + MaxReorg <= best /\ height[s] > 0
      BY <3>1 DEF Final, Tx
    <3>3. height[a] <= height[s]
      BY <1>0, <2>2, <3>2 DEF Ordered, Typed
    <3> QED BY <1>1, <1>2, <2>2, <3>2, <3>3
  <2> QED BY <1>0, <1>1, <2>1, <2>2 DEF Reached, Typed, actions, pruner
<1> QED BY <1>3, <1>4, <1>5, <1>8 DEF IInv

(***************************************************************************)
(* The steps of a pass.                                                    *)
(***************************************************************************)
\* A step that leaves the wallet alone and clears nothing.
LEMMA PassKeeps ==
  ASSUME IInv, UNCHANGED wallet, tip' \in Nat, tip' <= best, batch' \subseteq Tx,
         pc' \in {"idle", "floor", "batch", "check", "clear"},
         pc' = "clear" => \A i \in batch' : Spent(i)
  PROVE  IInv'
<1>0. Typed /\ Bounded /\ Ordered /\ Reached
  BY DEF IInv
<1>1. Typed' /\ Bounded' /\ Ordered'
  BY <1>0 DEF Typed, Bounded, Ordered, wallet, actions
<1>2. ASSUME NEW a \in Tx, Spent(a) PROVE Spent(a)'
  BY <1>2 DEF Spent, Final, wallet, actions
<1>3. Reached'
  BY <1>0, <1>2 DEF Reached, Typed, wallet, actions
<1> QED BY <1>1, <1>3 DEF IInv

LEMMA SweepStep == ASSUME IInv, Sweep PROVE IInv'
<1>0. Typed /\ Bounded
  BY DEF IInv
<1>1. tip' \in Nat /\ tip' <= best /\ pc' \in {"idle", "floor"}
  BY <1>0 DEF Sweep, IsTipHeight, Typed, Bounded, Heights
<1>2. UNCHANGED wallet /\ batch' = batch
  BY DEF Sweep
<1> QED BY <1>0, <1>1, <1>2, PassKeeps DEF Typed

LEMMA ReadFloorStep == ASSUME IInv, ReadFloor PROVE IInv'
<1>0. Typed /\ Bounded
  BY DEF IInv
<1>1. UNCHANGED wallet /\ batch' = batch /\ tip' = tip /\ pc' \in {"idle", "batch"}
  BY DEF ReadFloor
<1> QED BY <1>0, <1>1, PassKeeps DEF Typed, Bounded

LEMMA CandidatesStep == ASSUME IInv, Candidates PROVE IInv'
<1>0. Typed /\ Bounded
  BY DEF IInv
<1>1. Oldest \subseteq Tx
  BY <1>0, Bounds DEF Oldest, Eligible, Typed, Tx
<1>2. UNCHANGED wallet /\ batch' \in {{}, Oldest} /\ tip' = tip /\ pc' \in {"idle", "check"}
  BY DEF Candidates
<1> QED BY <1>0, <1>1, <1>2, PassKeeps DEF Typed, Bounded

LEMMA CheckStep == ASSUME IInv, Check PROVE IInv'
<1>0. Typed /\ Bounded
  BY DEF IInv
<1>1. ASSUME NEW i \in batch, Prunable(i) PROVE Spent(i)
  <2>1. i \in Tx /\ outs[i] \subseteq Kinds /\ outs[i] # {}
    BY <1>0, <1>1 DEF Typed, Prunable
  <2>2. ASSUME NEW o \in outs[i] PROVE Final(spender[<<i, o>>])
    <3> DEFINE s == spender[<<i, o>>]
    <3>1. s # 0 /\ height[s] > 0 /\ height[s] + MinConfirmations <= tip
      BY <1>1, <2>2 DEF Prunable
    <3>2. s \in Tx
      BY <1>0, <2>1, <2>2, <3>1 DEF Typed, Outputs, Tx
    <3>3. height[s] \in Nat /\ tip \in Nat /\ best \in Nat /\ tip <= best
      BY <1>0, <3>2 DEF Typed, Bounded
    <3> QED BY <3>1, <3>2, <3>3, Bounds DEF Final
  <2> QED BY <2>1, <2>2 DEF Spent
<1>2. UNCHANGED wallet /\ tip' = tip /\ pc' \in {"batch", "clear"}
      /\ batch' = {k \in batch : Prunable(k)}
  BY DEF Check
<1> QED BY <1>0, <1>1, <1>2, PassKeeps DEF Typed, Bounded

LEMMA EndStep == ASSUME IInv, SweepFails \/ Restart PROVE IInv'
<1>0. Typed /\ Bounded
  BY DEF IInv
<1>1. UNCHANGED wallet /\ tip' = tip /\ pc' = "idle" /\ batch' = {}
  BY DEF SweepFails, Restart
<1> QED BY <1>0, <1>1, PassKeeps DEF Typed, Bounded

LEMMA ClearStep == ASSUME IInv, Clear PROVE IInv'
<1>0. Typed /\ Bounded /\ Ordered /\ Reached
  BY DEF IInv
<1>1. /\ UNCHANGED <<actions, height, spender, best, tip>> /\ pc = "clear" /\ pc' = "batch"
      /\ batch' = {} /\ raw' = [k \in Tx |-> raw[k] /\ ~(k \in batch /\ height[k] > 0)]
  BY DEF Clear
<1>2. Typed' /\ Ordered'
  BY <1>0, <1>1 DEF Typed, Ordered, actions
<1>3. Bounded'
  <2>1. ASSUME NEW k \in Tx, k > n PROVE raw'[k]
    <3>1. raw[k] /\ height[k] = 0
      BY <1>0, <2>1 DEF Bounded
    <3>2. ~(height[k] > 0)
      BY <3>1
    <3>3. raw'[k] = (raw[k] /\ ~(k \in batch /\ height[k] > 0))
      BY <1>1, Zenon
    <3> QED BY <3>1, <3>2, <3>3, Zenon
  <2> QED BY <1>0, <1>1, <2>1 DEF Bounded, actions
<1>4. Reached'
  <2>1. ASSUME NEW i \in Tx, ~raw'[i] PROVE height[i] > 0 /\ Spent(i)
    <3>1. raw'[i] = (raw[i] /\ ~(i \in batch /\ height[i] > 0))
      BY <1>1, Zenon
    <3>2. ~raw[i] \/ (i \in batch /\ height[i] > 0)
      BY <2>1, <3>1, Zenon
    <3> QED BY <1>0, <1>1, <3>2, Zenon DEF Reached
  <2>2. ASSUME NEW i \in Tx, Spent(i) PROVE Spent(i)'
    BY <1>1, <2>2 DEF Spent, Final, actions
  <2> QED BY <1>1, <2>1, <2>2 DEF Reached
<1> QED BY <1>2, <1>3, <1>4 DEF IInv

-----------------------------------------------------------------------------
(***************************************************************************)
(* The theorem.                                                            *)
(***************************************************************************)
LEMMA NextIInv == ASSUME IInv, [Next]_vars PROVE IInv'
<1>1. CASE Wallet
  BY <1>1, CreateStep, RefuseStep, ProveStep, BlockStep, ReorganiseStep DEF Wallet
<1>2. CASE Pass
  BY <1>2, SweepStep, ReadFloorStep, CandidatesStep, CheckStep, ClearStep DEF Pass
<1>3. CASE SweepFails \/ Restart
  BY <1>3, EndStep
<1>4. CASE UNCHANGED vars
  BY <1>4, PassKeeps DEF vars, wallet, actions, IInv, Typed, Bounded, Reached
<1> QED BY <1>1, <1>2, <1>3, <1>4 DEF Next

\* For any ring, limits, batch and number of actions, and reorganisations up to
\* the confirmations that are asked for: no action the wallet still needs loses
\* its bytes.
THEOREM NothingNeededIsPruned == Spec => []NeededKept
<1>1. Init => IInv
  BY InitIInv
<1>2. IInv /\ [Next]_vars => IInv'
  BY NextIInv
<1>3. IInv => NeededKept
  BY IInvNeededKept
<1> QED BY <1>1, <1>2, <1>3, PTL DEF Spec
=============================================================================
