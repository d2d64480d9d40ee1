---------------------------- MODULE Chain_proofs ----------------------------
(***************************************************************************)
(* The chain of a cell: one output is spent once, a restart runs the cell  *)
(* on an unspent tip, and the engine implements CellChain.  Then how far   *)
(* ahead of the network a cell is built, and that a worker which has       *)
(* stopped is the worker of a halted cell.                                 *)
(***************************************************************************)
EXTENDS CellEngine_proofs

\* What the theorems about the chain exclude: each of these events breaks one
\* of them.
Undisturbed == Events \cap {"sign", "auto", "operator", "standby", "reacquire"} = {}

Attempts == {g \in Gens : rows[g].status = "attempting"}

\* Every live transaction, or every settled row, is of generation n or below.
Below(x, n)   == \A t \in Live(x) : x[t].gen <= n
Topmost(r, n) == \A g \in SettledIn(r, Gens) : g <= n

\* The wallet's transactions form a tree over the genesis.
GenesisInv ==
  /\ tx[Genesis].gen = 0 /\ tx[Genesis].parent = NoTx /\ tx[Genesis].st = "mined"

Linked ==
  \A t \in Made(tx) \ {Genesis} :
    tx[t].parent \in Made(tx) /\ tx[t].gen = tx[tx[t].parent].gen + 1

\* No two live transactions are of one generation.
Unique == \A s, t \in Live(tx) : tx[s].gen = tx[t].gen => s = t

\* The store knows of every live transaction: by name, or as an attempt.
Traced ==
  \A t \in Live(tx) : \/ rows[tx[t].gen].txid = t
                      \/ t # Genesis /\ tx[t].gen \in Attempts

AttemptsOnTop == \A a \in Attempts, g \in SettledIn(rows, Gens) : g < a

QueueAccepted ==
  \A i \in 1 .. Len(writes) : writes[i].status \in Settled => writes[i].txid \in Accepted(tx)

\* The network has taken the parent of whatever it has taken.
Rooted == \A t \in Accepted(tx) \ {Genesis} : tx[t].parent \in Accepted(tx)

WalletInv == GenesisInv /\ Linked /\ Rooted

RecordInv == WalletInv /\ Unique /\ Traced /\ AttemptsOnTop

\* A derivation under way that is about to run the cell, or to be run under a
\* worker that has seen nothing stop it, is still right about it.
DerivedClear ==
  rederiving /\ (~derived.halted \/ Attempts = {}) =>
    /\ derived.tip # NoTx
    /\ Below(tx, Gen(derived.tip)) /\ Topmost(rows, Gen(derived.tip)) /\ Attempts = {}

\* While a repair is under way no attempt stands for a live transaction.
RepairClear ==
  pc \in {"repair", "decide"} => \A t \in Live(tx) : tx[t].gen \notin Attempts

PosClear ==
  pc = "decide" =>
    /\ pos.tip # NoTx
    /\ Below(tx, Gen(pos.tip)) /\ Topmost(rows, Gen(pos.tip))
    /\ \A a \in Attempts : Gen(pos.tip) < a
    /\ pos.unknown => Attempts # {}
    /\ ~pos.halted => Attempts = {}

\* While the process owes a derivation no attempt of its own stands, and one it
\* found keeps its worker still.
Owed ==
  needsRederive /\ (pc \in {"gate", "repair", "decide"} \/ (pc = "idle" /\ ~halted)) =>
    Attempts = {}

\* A cell that may take a turn stands on the end of its chain, although what
\* halts it may have come after its worker looked.
Ready ==
  pc \in {"gate", "turn"} \/ (pc \in {"idle", "parked"} /\ ~halted) =>
    /\ tip # NoTx
    /\ Below(tx, Gen(tip)) /\ Topmost(rows, Gen(tip)) /\ Attempts \subseteq {Gen(tip) + 1}

\* A transition in flight is the only thing above the tip it was built on.
Flight ==
  pc \in InFlight =>
    /\ pc # "unclear" /\ base # NoTx
    /\ \A t \in Live(tx) : tx[t].gen <= Gen(base) \/ (t = cur /\ pc \in {"record", "persist"})
    /\ Topmost(rows, Gen(base)) /\ Attempts = {Next1}
    /\ pc \in {"sign", "record", "persist"} => tx[cur].parent = base
    /\ tip = IF pc = "persist" THEN cur ELSE base

ControlInv == DerivedClear /\ Owed /\ RepairClear /\ PosClear /\ Ready /\ Flight

ChainInv == RecordInv /\ QueueAccepted /\ ControlInv

IInv == TruthInv /\ WriteAheadInv /\ ChainInv

-----------------------------------------------------------------------------
(***************************************************************************)
(* The state.                                                              *)
(***************************************************************************)
\* A transaction the state refers to has the generation the wallet gives it.
LEMMA GenIs ==
  ASSUME NEW t \in TxIds
  PROVE  Gen(t) = tx[t].gen /\ t # NoTx
BY MaxTxAssumption DEF Gen, TxIds, NoTx

\* A live transaction is one the wallet has made, of a generation.
LEMMA LiveMade ==
  ASSUME TypeInv, NEW t \in Live(tx)
  PROVE  t \in Made(tx) /\ t \in TxIds /\ tx[t].gen \in Gens /\ t # NoTx
BY GenIs DEF Live, Made, TypeInv, StoreInv, Action

\* A row that names a live transaction is settled, at the transaction's generation.
LEMMA LiveSettled ==
  ASSUME TruthInv, NamedInv, NEW g \in Gens, rows[g].txid \in Live(tx)
  PROVE  g \in SettledIn(rows, Gens) /\ tx[rows[g].txid].gen = g
<1>1. rows[g].txid # NoTx /\ tx[rows[g].txid].st # "refused"
  BY LiveMade DEF TruthInv, Live
<1>2. rows[g].status \in Status
  BY DEF TruthInv, TypeInv, StoreInv, CellTx
<1>3. rows[g].status \notin {"none", "attempting", "failed"}
  BY <1>1 DEF TruthInv, RowsReported, NamedInv, AttemptsUnnamed
<1>4. rows[g].status \in Settled
  BY <1>2, <1>3 DEF Status, Settled
<1> QED BY <1>1, <1>4 DEF TruthInv, RowsSigned, SettledIn

\* Where no attempt stands for a live transaction, nothing live is above the
\* settled rows.
LEMMA BelowSettled ==
  ASSUME TruthInv, NamedInv, Traced, \A t \in Live(tx) : tx[t].gen \notin Attempts,
         NEW n, Topmost(rows, n)
  PROVE  Below(tx, n)
<1> SUFFICES ASSUME NEW t \in Live(tx)
             PROVE  tx[t].gen <= n
  BY DEF Below
<1>1. tx[t].gen \in Gens
  BY LiveMade DEF TruthInv
<1>2. rows[tx[t].gen].txid = t
  BY DEF Traced
<1>3. tx[t].gen \in SettledIn(rows, Gens)
  BY <1>1, <1>2, LiveSettled
<1> QED BY <1>3 DEF Topmost

\* The genesis is a settled row.
LEMMA GenesisSettled ==
  ASSUME TruthInv, NamedInv, RecordInv
  PROVE  SettledIn(rows, Gens) # {}
<1>1. Genesis \in TxIds /\ Genesis \in Live(tx)
  BY MaxTxAssumption DEF TxIds, Genesis, RecordInv, WalletInv, GenesisInv, Live
<1>2. rows[0].txid = Genesis /\ 0 \in Gens
  BY <1>1, MaxGenAssumption DEF RecordInv, WalletInv, GenesisInv, Traced, Gens
<1> QED BY <1>1, <1>2, LiveSettled

\* What derivation finds in the store of such a cell.
LEMMA DeriveClear ==
  ASSUME TruthInv, NamedInv, RecordInv
  PROVE  LET p == DeriveTip(rows)
         IN  /\ p.tip # NoTx /\ Gen(p.tip) \in Gens /\ p.tip \in Signed(tx)
             /\ Topmost(rows, Gen(p.tip))
             /\ \A a \in Attempts : Gen(p.tip) < a
             /\ p.unknown => Attempts # {}
             /\ ~p.halted => Attempts = {} /\ Below(tx, Gen(p.tip))
             /\ (\A t \in Live(tx) : tx[t].gen \notin Attempts) => Below(tx, Gen(p.tip))
<1> DEFINE p == DeriveTip(rows)
           b == TipRow(rows)
<1>1. SettledIn(rows, Gens) # {}
  BY GenesisSettled
<1>2. Reads(p, rows)
  BY <1>1, DeriveTipReads
<1>3. b \in SettledIn(rows, Gens) /\ b \in Gens /\ \A g \in SettledIn(rows, Gens) : g <= b
  BY <1>1, TipRowIn
<1>4. p.tip = rows[b].txid /\ p.tip # NoTx
  BY <1>2, <1>3 DEF Reads, SettledIn
<1>5. p.tip \in Signed(tx) /\ tx[p.tip].gen = b
  BY <1>3, <1>4 DEF TruthInv, RowsSigned
<1>6. Gen(p.tip) = b
  BY <1>5, GenIs DEF Signed, Live
<1>7. Topmost(rows, b)
  BY <1>3 DEF Topmost
<1>8. \A a \in Attempts : b < a
  BY <1>3 DEF RecordInv, AttemptsOnTop
<1>9. Over(rows, "attempting") = Attempts
  <2>1. b \in Nat /\ Gens \subseteq Nat
    BY <1>3, MaxGenAssumption DEF Gens
  <2> QED BY <2>1, <1>8 DEF Over, Attempts
<1>10. (\A t \in Live(tx) : tx[t].gen \notin Attempts) => Below(tx, b)
  BY <1>7, BelowSettled DEF RecordInv
<1>11. /\ p.unknown => Attempts # {}
       /\ ~p.halted => Attempts = {}
  BY <1>2, <1>9 DEF Reads
<1> HIDE DEF p, b
<1> QED BY <1>3, <1>4, <1>5, <1>6, <1>7, <1>8, <1>10, <1>11 DEF p

-----------------------------------------------------------------------------
(***************************************************************************)
(* Steps that take no transaction up and write no row anew.                *)
(***************************************************************************)
\* The wallet keeps what it has made.
Keeps ==
  \A t \in Made(tx) : /\ t \in Made(tx')
                      /\ tx'[t].gen = tx[t].gen /\ tx'[t].parent = tx[t].parent

Still ==
  /\ Keeps /\ Live(tx') \subseteq Live(tx)
  /\ \A g \in Gens : rows[g].txid \in Live(tx) => rows'[g].txid = rows[g].txid
  /\ Attempts' = Attempts
  /\ SettledIn(rows', Gens) \subseteq SettledIn(rows, Gens)

\* A bound that held still holds.
LEMMA StillBounds ==
  ASSUME TypeInv, Still
  PROVE  \A n : (Below(tx, n) => Below(tx', n)) /\ (Topmost(rows, n) => Topmost(rows', n))
<1> SUFFICES ASSUME NEW n
             PROVE  (Below(tx, n) => Below(tx', n)) /\ (Topmost(rows, n) => Topmost(rows', n))
  OBVIOUS
<1>1. \A t \in Live(tx') : t \in Live(tx) /\ tx'[t].gen = tx[t].gen
  BY LiveMade DEF Still, Keeps
<1>2. Below(tx, n) => Below(tx', n)
  BY <1>1 DEF Below
<1>3. Topmost(rows, n) => Topmost(rows', n)
  BY DEF Topmost, Still
<1> QED BY <1>2, <1>3

\* The record of the chain is kept by such a step, but for what it adds to the
\* wallet.
LEMMA StillRecord ==
  ASSUME TypeInv, RecordInv, Still
  PROVE  Unique' /\ Traced' /\ AttemptsOnTop'
<1>1. \A t \in Live(tx') : t \in Live(tx) /\ tx'[t].gen = tx[t].gen /\ tx[t].gen \in Gens
  BY LiveMade DEF Still, Keeps
<1>2. Unique'
  BY <1>1 DEF Unique, RecordInv
<1>3. Traced'
  BY <1>1 DEF Traced, RecordInv, Still
<1>4. AttemptsOnTop'
  BY DEF AttemptsOnTop, RecordInv, Still
<1> QED BY <1>2, <1>3, <1>4

\* Each part of the invariant is kept by such a step if it leaves the part's
\* own variables alone.
LEMMA StillControl ==
  ASSUME TypeInv, Grows, RecordInv, Still
  PROVE  /\ DerivedClear /\ UNCHANGED <<rederiving, derived>> => DerivedClear'
         /\ /\ Owed /\ UNCHANGED pc
            /\ (~halted' => ~halted) /\ (needsRederive' => needsRederive)
            => Owed'
         /\ RepairClear /\ UNCHANGED pc => RepairClear'
         /\ PosClear /\ UNCHANGED <<pc, pos>> => PosClear'
         /\ Ready /\ UNCHANGED <<pc, tip>> /\ (~halted' => ~halted) => Ready'
         /\ Flight /\ UNCHANGED <<pc, base, cur, tip>> => Flight'
<1>1. \A t \in Refs : Gen(t)' = Gen(t)
  BY DEF Grows, Refs, Gen
<1>2. \A n : (Below(tx, n) => Below(tx', n)) /\ (Topmost(rows, n) => Topmost(rows', n))
  BY StillBounds
<1>3. \A t \in Live(tx') : t \in Live(tx) /\ tx'[t].gen = tx[t].gen
  BY LiveMade DEF Still, Keeps
<1>4. Attempts' = Attempts
  BY DEF Still
<1>5. DerivedClear /\ UNCHANGED <<rederiving, derived>> => DerivedClear'
  <2>1. Gen(derived.tip)' = Gen(derived.tip) \/ derived' # derived
    BY <1>1 DEF TypeInv, LeaseInv, Derivable
  <2> QED BY <1>2, <1>4, <2>1 DEF DerivedClear
<1>6. RepairClear /\ UNCHANGED pc => RepairClear'
  BY <1>3, <1>4 DEF RepairClear
<1>7. PosClear /\ UNCHANGED <<pc, pos>> => PosClear'
  <2>1. Gen(pos.tip)' = Gen(pos.tip) \/ pos' # pos
    BY <1>1 DEF TypeInv, WorkerInv, Derivable
  <2> QED BY <1>2, <1>4, <2>1 DEF PosClear
<1>8. Ready /\ UNCHANGED <<pc, tip>> /\ (~halted' => ~halted) => Ready'
  <2>1. Gen(tip)' = Gen(tip) \/ tip' # tip
    BY <1>1 DEF TypeInv, MemInv
  <2> QED BY <1>2, <1>4, <2>1 DEF Ready
<1>9. Flight /\ UNCHANGED <<pc, base, cur, tip>> => Flight'
  <2>1. Gen(base)' = Gen(base) \/ base' # base
    BY <1>1 DEF TypeInv, WorkerInv
  <2>2. pc \in {"sign", "record", "persist"} => cur \in Made(tx)
    BY GenIs DEF TypeInv, WorkerInv, Refs
  <2>3. cur \in Made(tx) => tx'[cur].parent = tx[cur].parent
    BY DEF Still, Keeps
  <2> QED BY <1>2, <1>3, <1>4, <2>1, <2>2, <2>3 DEF Flight, Next1
<1>10. /\ Owed /\ UNCHANGED pc
       /\ (~halted' => ~halted) /\ (needsRederive' => needsRederive)
       => Owed'
  BY <1>4 DEF Owed
<1> QED BY <1>5, <1>6, <1>7, <1>8, <1>9, <1>10

-----------------------------------------------------------------------------
(***************************************************************************)
(* The wallet.                                                             *)
(***************************************************************************)
\* One action of the wallet is given another state.
LEMMA StateKeeps ==
  ASSUME TypeInv, NEW t \in Made(tx), NEW s \in TxState \ {"none"},
         \/ tx' = [tx EXCEPT ![t].st = s]
         \/ \E b \in TxIds : tx' = [tx EXCEPT ![t].st = s, ![t].by = b]
  PROVE  /\ Keeps /\ Made(tx') = Made(tx)
         /\ \A u \in TxIds : tx'[u].gen = tx[u].gen /\ tx'[u].parent = tx[u].parent
         /\ tx'[t].st = s /\ \A u \in TxIds \ {t} : tx'[u] = tx[u]
<1>1. t \in TxIds /\ tx \in [TxIds -> Action]
  BY DEF Made, TypeInv, StoreInv
<1>2. /\ \A u \in TxIds : tx'[u].gen = tx[u].gen /\ tx'[u].parent = tx[u].parent
      /\ tx'[t].st = s /\ \A u \in TxIds \ {t} : tx'[u] = tx[u]
  BY <1>1 DEF Action
<1>3. Made(tx') = Made(tx)
  BY <1>1, <1>2 DEF Made
<1>4. Keeps
  BY <1>2, <1>3 DEF Keeps, Made
<1> QED BY <1>2, <1>3, <1>4

\* The states a transaction may be given, and what each step asks of it.
LEMMA StateChanges ==
  ASSUME TruthInv, SignAction \/ SignActionFails \/ Network
  PROVE  \E t \in Made(tx), s \in TxState \ {"none"} :
           /\ \/ tx' = [tx EXCEPT ![t].st = s]
              \/ \E b \in TxIds : tx' = [tx EXCEPT ![t].st = s, ![t].by = b]
           /\ \/ (SignAction \/ SignActionFails) /\ t = cur /\ tx[t].st = "created"
                 /\ s \in {"created", "sent", "refused"}
              \/ Network /\ tx[t].st = "sent" /\ s = "refused"
              \/ /\ Network /\ tx[t].st = "sent" /\ s = "seen"
                 /\ tx[t].parent \in Accepted(tx)
              \/ Network /\ tx[t].st = "seen" /\ s = "mined"
<1> USE DEF TruthInv, TypeInv
<1>1. CASE SignAction \/ SignActionFails
  <2>1. cur \in Made(tx) /\ tx[cur].st = "created"
    BY <1>1, GenIs DEF SignAction, SignActionFails, Done, WorkerInv, SigningPlace, Refs
  <2>2. \E s \in {"created", "sent", "refused"} : tx' = [tx EXCEPT ![cur].st = s]
    BY <1>1 DEF SignAction, SignActionFails, Done
  <2> QED BY <1>1, <2>1, <2>2 DEF TxState
<1>2. CASE Network
  <2>1. PICK t \in TxIds : Accept(t) \/ Mine(t) \/ Refuse(t)
    BY <1>2 DEF Network
  <2>2. t \in Made(tx)
    BY <2>1 DEF Accept, Mine, Refuse, Made
  <2>3. CASE Accept(t)
    BY <1>2, <2>2, <2>3 DEF Accept, TxState
  <2>4. CASE Mine(t)
    BY <1>2, <2>2, <2>4 DEF Mine, TxState
  <2>5. CASE Refuse(t)
    <3>1. \/ tx' = [tx EXCEPT ![t].st = "refused"]
          \/ \E b \in TxIds : tx' = [tx EXCEPT ![t].st = "refused", ![t].by = b]
      BY <2>5 DEF Refuse, Siblings
    <3> QED BY <1>2, <2>2, <2>5, <3>1 DEF Refuse, TxState
  <2> QED BY <2>1, <2>3, <2>4, <2>5
<1> QED BY <1>1, <1>2

\* CreateAction adds one action over the tip the worker read.
LEMMA CreateAdds ==
  ASSUME TruthInv, ChainInv, CreateAction
  PROVE  /\ Keeps /\ cur' \in TxIds /\ tx[cur'].st = "none" /\ base \in Made(tx)
         /\ tx'[cur'] = [gen |-> Next1, parent |-> base, st |-> "created", by |-> NoTx]
         /\ \A u \in TxIds \ {cur'} : tx'[u] = tx[u]
         /\ Live(tx') = Live(tx) /\ Accepted(tx') = Accepted(tx)
<1> USE DEF TruthInv, TypeInv
<1>1. PICK n \in TxIds :
        /\ Unused(n)
        /\ tx' = [tx EXCEPT ![n] = [gen |-> Next1, parent |-> base,
                                    st |-> "created", by |-> NoTx]]
        /\ cur' = n
  BY DEF CreateAction
<1>2. /\ tx[n].st = "none"
      /\ tx'[n] = [gen |-> Next1, parent |-> base, st |-> "created", by |-> NoTx]
      /\ \A u \in TxIds \ {n} : tx'[u] = tx[u]
  BY <1>1 DEF Unused, StoreInv
<1>3. Live(tx') = Live(tx) /\ Accepted(tx') = Accepted(tx) /\ Keeps
  BY <1>2 DEF Live, Accepted, Keeps, Made
<1>4. base \in Made(tx)
  BY DEF CreateAction, ChainInv, ControlInv, Flight, InFlight, WorkerInv, Refs
<1> QED BY <1>1, <1>2, <1>3, <1>4

\* The wallet's transactions stay a tree over the genesis, and what is said of
\* one stays said.
LEMMA WalletNext ==
  ASSUME TruthInv, ChainInv, Next
  PROVE  WalletInv' /\ Keeps /\ Accepted(tx) \subseteq Accepted(tx')
<1> USE DEF ChainInv, RecordInv, WalletInv
<1>1. CASE UNCHANGED tx
  BY <1>1 DEF GenesisInv, Linked, Rooted, Keeps
<1>2. CASE CreateAction
  <2>1. /\ Keeps /\ cur' \in TxIds /\ tx[cur'].st = "none" /\ base \in Made(tx)
        /\ tx'[cur'] = [gen |-> Next1, parent |-> base, st |-> "created", by |-> NoTx]
        /\ \A u \in TxIds \ {cur'} : tx'[u] = tx[u]
        /\ Live(tx') = Live(tx) /\ Accepted(tx') = Accepted(tx)
    BY <1>2, CreateAdds
  <2>2. GenesisInv'
    BY <2>1, MaxTxAssumption DEF GenesisInv, TxIds, Genesis
  <2>3. Linked'
    <3>1. Made(tx') = Made(tx) \cup {cur'}
      BY <2>1 DEF Made
    <3>2. Next1 = tx[base].gen + 1
      BY <2>1, GenIs DEF Next1, Made
    <3>3. cur' \notin Made(tx)
      BY <2>1 DEF Made
    <3>4. \A t \in Made(tx) \ {Genesis} :
            tx'[t].parent \in Made(tx') /\ tx'[t].gen = tx'[tx'[t].parent].gen + 1
      BY <2>1, <3>1 DEF Linked, Keeps
    <3>5. tx'[cur'].parent \in Made(tx') /\ tx'[cur'].gen = tx'[tx'[cur'].parent].gen + 1
      BY <2>1, <3>1, <3>2 DEF Keeps
    <3> QED BY <3>1, <3>4, <3>5 DEF Linked
  <2>4. Rooted'
    BY <2>1 DEF Rooted, Accepted
  <2> QED BY <2>1, <2>2, <2>3, <2>4
<1>3. CASE SignAction \/ SignActionFails \/ Network
  <2>1. PICK t \in Made(tx), s \in TxState \ {"none"} :
           /\ \/ tx' = [tx EXCEPT ![t].st = s]
              \/ \E b \in TxIds : tx' = [tx EXCEPT ![t].st = s, ![t].by = b]
           /\ \/ tx[t].st \in {"created", "sent"} /\ s \in {"created", "sent", "refused"}
              \/ tx[t].st = "sent" /\ s = "seen" /\ tx[t].parent \in Accepted(tx)
              \/ tx[t].st = "seen" /\ s = "mined"
    BY <1>3, StateChanges
  <2>2. /\ Keeps /\ Made(tx') = Made(tx)
        /\ \A u \in TxIds : tx'[u].gen = tx[u].gen /\ tx'[u].parent = tx[u].parent
        /\ tx'[t].st = s /\ \A u \in TxIds \ {t} : tx'[u] = tx[u]
    <3>1. TypeInv
      BY DEF TruthInv
    <3> QED BY <2>1, <3>1, StateKeeps
  <2>3. GenesisInv'
    <3>1. Genesis # t /\ Genesis \in TxIds
      BY <2>1, MaxTxAssumption DEF GenesisInv, TxIds, Genesis
    <3> QED BY <2>2, <3>1 DEF GenesisInv
  <2>4. Linked'
    BY <2>2 DEF Linked, Made
  <2>5. Accepted(tx) \subseteq Accepted(tx') /\ Accepted(tx') \subseteq Accepted(tx) \cup {t}
    BY <2>1, <2>2 DEF Accepted
  <2>6. t \in Accepted(tx') /\ t # Genesis => tx[t].parent \in Accepted(tx)
    <3>1. t \in Accepted(tx') => \/ t \in Accepted(tx)
                               \/ tx[t].parent \in Accepted(tx)
      BY <2>1, <2>2 DEF Accepted
    <3> QED BY <3>1 DEF Rooted
  <2>7. Rooted'
    BY <2>2, <2>5, <2>6 DEF Rooted, Accepted
  <2> QED BY <2>2, <2>3, <2>4, <2>5, <2>7
<1> QED BY <1>1, <1>2, <1>3, TxChanges

-----------------------------------------------------------------------------
(***************************************************************************)
(* Which steps are still.                                                  *)
(***************************************************************************)
\* Steps that touch neither the rows nor the wallet.
LEMMA CalmStill ==
  ASSUME UNCHANGED <<rows, tx>>
  PROVE  Still
BY DEF Still, Keeps, Attempts

\* The network's answers: nothing comes to be live that was not.
LEMMA NetworkStill ==
  ASSUME TruthInv, ChainInv, Network
  PROVE  Still
<1>1. PICK t \in Made(tx), s \in TxState \ {"none"} :
         /\ \/ tx' = [tx EXCEPT ![t].st = s]
            \/ \E b \in TxIds : tx' = [tx EXCEPT ![t].st = s, ![t].by = b]
         /\ \/ (SignAction \/ SignActionFails) /\ t = cur /\ tx[t].st = "created"
               /\ s \in {"created", "sent", "refused"}
            \/ Network /\ tx[t].st = "sent" /\ s = "refused"
            \/ /\ Network /\ tx[t].st = "sent" /\ s = "seen"
               /\ tx[t].parent \in Accepted(tx)
            \/ Network /\ tx[t].st = "seen" /\ s = "mined"
  BY StateChanges
<1>2. UNCHANGED <<rows, pc>>
  BY DEF Network, Accept, Mine, Refuse, workerVars
<1>3. ~(SignAction \/ SignActionFails)
  BY <1>2 DEF SignAction, SignActionFails, Done
<1>4. /\ Keeps
      /\ \A u \in TxIds \ {t} : tx'[u] = tx[u]
  <2>1. TypeInv
    BY DEF TruthInv
  <2> QED BY <1>1, <2>1, StateKeeps
<1>5. Live(tx') \subseteq Live(tx)
  BY <1>1, <1>3, <1>4 DEF Live
<1> QED BY <1>2, <1>4, <1>5 DEF Still, Attempts

\* The wallet assembling an action.
LEMMA CreateStill ==
  ASSUME TruthInv, ChainInv, CreateAction
  PROVE  Still
BY CreateAdds DEF Still, Attempts, CreateAction

\* A status write: what it makes settled was settled, because a row that names
\* an accepted transaction is.
LEMMA WriteStatusStill ==
  ASSUME TruthInv, NamedInv, ChainInv, WriteStatus
  PROVE  Still
<1> DEFINE u == Head(writes)
<1>1. UNCHANGED tx /\ (rows' = rows \/ rows' = UpdateStatus(rows, u))
  BY DEF WriteStatus
<1>2. /\ ReportTrue(u)
      /\ u.status \in Settled => u.txid \in Accepted(tx)
  <2>1. writes \in Seq(CellTx) /\ writes # << >>
    BY DEF WriteStatus, TruthInv, TypeInv, StatusInv
  <2>2. 1 \in 1 .. Len(writes) /\ u = writes[1]
    BY <2>1
  <2> QED BY <2>2 DEF TruthInv, QueueTrue, ChainInv, QueueAccepted
<1>3. CASE rows' = rows
  BY <1>1, <1>3, CalmStill
<1>4. CASE rows' = UpdateStatus(rows, u)
  <2> HIDE DEF u
  <2>1. \A g \in Gens : rows'[g].txid = rows[g].txid
    BY <1>4 DEF UpdateStatus, Row
  <2>2. Attempts' = Attempts
    <3>1. NoTx # u.txid
      BY <1>2, GenIs DEF ReportTrue
    <3>2. \A g \in Gens : rows[g].status = "attempting" => rows'[g] = rows[g]
      BY <1>4, <3>1 DEF NamedInv, AttemptsUnnamed, UpdateStatus
    <3>3. \A g \in Gens : rows'[g].status = "attempting" => rows'[g] = rows[g]
      BY <1>2, <1>4 DEF UpdateStatus, Row, ReportTrue
    <3> QED BY <3>2, <3>3 DEF Attempts
  <2>3. SettledIn(rows', Gens) \subseteq SettledIn(rows, Gens)
    <3> SUFFICES ASSUME NEW g \in SettledIn(rows', Gens)
                 PROVE  g \in SettledIn(rows, Gens)
      OBVIOUS
    <3>1. g \in Gens /\ rows'[g].status \in Settled /\ rows'[g].txid # NoTx
      BY DEF SettledIn
    <3>2. CASE rows[g].txid = u.txid
      <4>1. u.status \in Settled
        BY <1>4, <3>1, <3>2 DEF UpdateStatus, Row
      <4>2. rows[g].txid \in Live(tx)
        BY <1>2, <3>2, <4>1 DEF Accepted, Live
      <4> QED BY <3>1, <4>2, LiveSettled
    <3>3. CASE rows[g].txid # u.txid
      BY <1>4, <3>1, <3>3 DEF UpdateStatus, SettledIn
    <3> QED BY <3>2, <3>3
  <2>4. Keeps
    BY <1>1 DEF Keeps
  <2> QED BY <1>1, <2>1, <2>2, <2>3, <2>4 DEF Still
<1> QED BY <1>1, <1>3, <1>4

\* A refusal's reason: the row that names a refused transaction fails.
LEMMA FetchReasonStill ==
  ASSUME TruthInv, NamedInv, NEW t \in TxIds, FetchReason(t)
  PROVE  Still
<1> DEFINE u == StatusUpdate(t, "failed", FALSE)
<1>1. UNCHANGED tx /\ rows' = UpdateStatus(rows, u) /\ t \notin Live(tx) /\ t # NoTx
  BY GenIs DEF FetchReason, Live
<1>2. u.status = "failed" /\ u.txid = t
  BY DEF StatusUpdate, Row
<1> HIDE DEF u
<1>3. \A g \in Gens : /\ rows'[g].txid = rows[g].txid
                      /\ \/ rows'[g] = rows[g]
                         \/ rows[g].txid = t /\ rows'[g].status = "failed"
  BY <1>1, <1>2 DEF UpdateStatus, Row
<1>4. \A g \in Gens : rows[g].status = "attempting" => rows[g].txid # t
  BY <1>1 DEF NamedInv, AttemptsUnnamed
<1>5. Attempts' = Attempts
  BY <1>3, <1>4 DEF Attempts
<1>6. SettledIn(rows', Gens) \subseteq SettledIn(rows, Gens)
  BY <1>3 DEF SettledIn, Settled
<1>7. Keeps
  BY <1>1 DEF Keeps
<1> QED BY <1>1, <1>3, <1>5, <1>6, <1>7 DEF Still

\* The record is kept by a still step.
LEMMA StillRecordNext ==
  ASSUME TruthInv, ChainInv, Next, Still
  PROVE  RecordInv'
<1>1. Unique' /\ Traced' /\ AttemptsOnTop'
  BY StillRecord DEF TruthInv, ChainInv
<1> QED BY <1>1, WalletNext DEF RecordInv

\* A report that a transaction is settled waits only for one the network took.
LEMMA QueueAcceptedNext ==
  ASSUME TruthInv, ChainInv, Next
  PROVE  QueueAccepted'
<1> USE DEF TruthInv, TypeInv, StatusInv, QueueAccepted
<1>0. Accepted(tx) \subseteq Accepted(tx') /\ QueueAccepted
  BY WalletNext DEF ChainInv
<1>1. CASE UNCHANGED writes \/ writes' = << >>
  BY <1>0, <1>1
<1>2. CASE WriteStatus
  <2>1. writes' = Tail(writes) /\ writes # << >> /\ writes \in Seq(CellTx)
    BY <1>2 DEF WriteStatus
  <2>2. \A i \in 1 .. Len(writes') : i + 1 \in 1 .. Len(writes) /\ writes'[i] = writes[i + 1]
    BY <2>1
  <2> QED BY <1>0, <2>2
<1>3. CASE \E t \in TxIds : OnStatus(t) \/ Reconcile(t)
  <2>1. PICK t \in TxIds : \E report \in Reports(t), bare \in BOOLEAN : ApplyStatus(t, report, bare)
    BY <1>3 DEF OnStatus, Reconcile
  <2>2. PICK report \in Reports(t), bare \in BOOLEAN : ApplyStatus(t, report, bare)
    BY <2>1
  <2> DEFINE u == StatusUpdate(t, report, bare)
  <2>3. u.status \in Settled => u.txid \in Accepted(tx)
    BY <2>2 DEF StatusUpdate, Row, Reports, Settled, Accepted
  <2>4. writes' = writes \/ \E i \in 1 .. Len(writes) + 1 : writes' = Overtaking(u, i)
    BY <2>2, Enqueued
  <2> HIDE DEF u
  <2>6. \A j \in 1 .. Len(writes') :
          writes'[j] = u \/ \E k \in 1 .. Len(writes) : writes'[j] = writes[k]
    <3>1. CASE \E i \in 1 .. Len(writes) + 1 : writes' = Overtaking(u, i)
      <4>1. PICK i \in 1 .. Len(writes) + 1 : writes' = Overtaking(u, i)
        BY <3>1
      <4> QED BY <4>1, OvertakingIs
    <3> QED BY <2>4, <3>1
  <2> QED BY <1>0, <2>3, <2>6
<1> QED BY <1>1, <1>2, <1>3, QueueChanges

-----------------------------------------------------------------------------
(***************************************************************************)
(* The control part, action by action.                                     *)
(***************************************************************************)
\* Where the process acquires the lease once, no derivation is under way when
\* a turn is taken or a transition is in flight.
LEMMA NoDerivation ==
  ASSUME Undisturbed, IInv
  PROVE  /\ pc \in InFlight \cup {"turn"} => ~rederiving /\ ~needsRederive
         /\ rederiving => needsRederive
BY DEF Undisturbed, IInv, WriteAheadInv, Quiet

\* Steps that leave the worker, the tip and the derivation alone.
LEMMA ControlBystander ==
  ASSUME Undisturbed, IInv,
         \/ AcquireLease \/ LoseLease \/ Network \/ StatusPipeline \/ RingStarvation
  PROVE  ControlInv' /\ Still
<1> USE DEF IInv, TruthInv
<1>1. Next
  BY DEF Next, Lease
<1>2. Grows
  BY <1>1, NextGrows
<1>3. Still
  <2>1. CASE Network
    BY <2>1, NetworkStill
  <2>2. CASE WriteStatus
    BY <2>2, WriteStatusStill DEF WriteAheadInv
  <2>3. CASE \E t \in TxIds : OnStatus(t) \/ Reconcile(t)
    <3>1. UNCHANGED <<rows, tx>>
      BY <2>3 DEF OnStatus, Reconcile, ApplyStatus, durable
    <3> QED BY <3>1, CalmStill
  <2>4. CASE AcquireLease \/ LoseLease \/ RingStarvation
    <3>1. UNCHANGED <<rows, tx>>
      BY <2>4 DEF AcquireLease, LoseLease, RingStarvation, durable
    <3> QED BY <3>1, CalmStill
  <2>5. CASE \E t \in TxIds : FetchReason(t)
    BY <2>5, FetchReasonStill DEF WriteAheadInv
  <2> QED BY <2>1, <2>2, <2>3, <2>4, <2>5 DEF StatusPipeline
<1>4. /\ UNCHANGED <<pc, base, cur, pos, tip, rederiving, derived>>
      /\ ~halted' => ~halted
      /\ needsRederive' => needsRederive
  <2>1. CASE Network \/ WriteStatus \/ \E t \in TxIds : FetchReason(t)
    <3>1. UNCHANGED <<workerVars, memVars, leaseVars>>
      BY <2>1 DEF Network, Accept, Mine, Refuse, WriteStatus, FetchReason
    <3> QED BY <3>1 DEF workerVars, memVars, leaseVars
  <2>2. CASE \E t \in TxIds : OnStatus(t) \/ Reconcile(t)
    <3>0. PICK t \in TxIds : \E report \in Reports(t), bare \in BOOLEAN : ApplyStatus(t, report, bare)
      BY <2>2 DEF OnStatus, Reconcile
    <3>1. PICK report \in Reports(t), bare \in BOOLEAN : ApplyStatus(t, report, bare)
      BY <3>0
    <3>2. ~halted' => ~halted
      BY <3>1 DEF ApplyStatus, NoteRefusal
    <3> QED BY <3>1, <3>2 DEF ApplyStatus, workerVars, leaseVars
  <2>3. CASE AcquireLease \/ LoseLease \/ RingStarvation
    BY <2>3 DEF AcquireLease, LoseLease, RingStarvation, workerVars, memVars, leaseVars, Undisturbed
  <2> QED BY <2>1, <2>2, <2>3 DEF StatusPipeline
<1> QED BY <1>2, <1>3, <1>4, StillControl DEF ChainInv, ControlInv

\* The process starts, derives, or dies.
LEMMA ControlProcess ==
  ASSUME Undisturbed, IInv, New \/ Crash \/ RederiveRead
  PROVE  ControlInv' /\ Still
<1> USE DEF IInv, TruthInv
<1>1. Next
  BY DEF Next, Lease
<1>2. Grows /\ UNCHANGED <<rows, tx>>
  BY <1>1, NextGrows DEF New, Crash, RederiveRead, durable
<1>3. Still
  BY <1>2, CalmStill
<1>4. Attempts' = Attempts
  BY <1>3 DEF Still
<1> DEFINE p == DeriveTip(rows)
<1>5. /\ p.tip # NoTx
      /\ Topmost(rows, Gen(p.tip))
      /\ ~p.halted => Attempts = {} /\ Below(tx, Gen(p.tip))
      /\ Attempts = {} => Below(tx, Gen(p.tip))
  BY DeriveClear DEF WriteAheadInv, ChainInv
<1> HIDE DEF p
<1>6. CASE New
  <2>1. /\ pc' = "idle" /\ tip' = p.tip /\ halted' = p.halted
        /\ UNCHANGED <<rederiving, derived>>
    BY <1>6 DEF New, ApplyPosition, leaseVars, p
  <2>2. Gen(tip)' = Gen(p.tip)
    BY <1>2, <2>1 DEF Gen
  <2>3. Ready'
    BY <1>2, <1>4, <1>5, <2>1, <2>2 DEF Ready
  <2>4. DerivedClear'
    BY <1>2, <1>3, <2>1, StillControl DEF ChainInv, ControlInv
  <2>5. Owed'
    BY <1>4, <1>5, <2>1 DEF Owed
  <2> QED BY <1>3, <2>1, <2>3, <2>4, <2>5 DEF ControlInv, RepairClear, PosClear, Flight, InFlight
<1>7. CASE Crash
  BY <1>3, <1>7 DEF Crash, DownMemory, ControlInv, DerivedClear, Owed, RepairClear, PosClear, Ready,
     Flight, InFlight
<1>8. CASE RederiveRead
  <2>1. derived' = p /\ UNCHANGED <<pc, base, cur, pos, tip, halted, needsRederive>>
    BY <1>8 DEF RederiveRead, workerVars, memVars, p
  <2>2. Gen(derived.tip)' = Gen(p.tip)
    BY <1>2, <2>1 DEF Gen
  <2>3. DerivedClear'
    BY <1>2, <1>4, <1>5, <2>1, <2>2 DEF DerivedClear
  <2> QED BY <1>2, <1>3, <2>1, <2>3, StillControl DEF ChainInv, ControlInv
<1> QED BY <1>6, <1>7, <1>8

\* The derivation takes effect: only on a cell that is not moving.
LEMMA ControlRederiveApply ==
  ASSUME Undisturbed, IInv, RederiveApply
  PROVE  ControlInv' /\ Still
<1> USE DEF IInv, TruthInv
<1>1. Grows
  BY NextGrows DEF Next, Lease
<1>2. /\ rederiving /\ ~rederiving' /\ UNCHANGED <<rows, tx, pc, base, cur, pos>>
      /\ tip' = derived.tip /\ halted' = derived.halted /\ ~needsRederive'
  BY DEF RederiveApply, ApplyPosition, Undisturbed, workerVars
<1>3. Still
  BY <1>2, CalmStill
<1>4. pc \notin InFlight \cup {"turn"}
  BY <1>2, NoDerivation
<1>5. DerivedClear' /\ Owed' /\ Flight'
  BY <1>2, <1>4 DEF DerivedClear, Owed, Flight
<1>6. RepairClear' /\ PosClear'
  BY <1>1, <1>2, <1>3, StillControl DEF ChainInv, ControlInv
<1>7. Ready'
  <2>1. Gen(tip)' = Gen(derived.tip) /\ Attempts' = Attempts
    BY <1>2 DEF Gen, Attempts
  <2>2. pc = "gate" => Attempts = {}
    BY <1>2, NoDerivation DEF ChainInv, ControlInv, Owed
  <2> QED BY <1>2, <1>4, <2>1, <2>2 DEF ChainInv, ControlInv, DerivedClear, Ready
<1> QED BY <1>3, <1>5, <1>6, <1>7 DEF ControlInv

\* Steps of the worker that move only the worker.
LEMMA ControlWorker ==
  ASSUME Undisturbed, IInv,
         \/ Park \/ Look \/ TakeTurn \/ Wait \/ CreateActionFails \/ FailBeforeSigning \/ Record
         \/ StartRepair \/ RepairDerive \/ AdoptDerived
  PROVE  ControlInv' /\ Still
<1> USE DEF IInv, TruthInv
<1>1. Next
  BY DEF Next, Worker
<1>2. Grows /\ UNCHANGED <<rows, tx, rederiving, derived, needsRederive>>
  BY <1>1, NextGrows DEF Park, Look, TakeTurn, Wait, CreateActionFails, FailBeforeSigning, Record,
     StartRepair, RepairDerive, AdoptDerived, durable, leaseVars
<1>3. Still /\ Attempts' = Attempts
  BY <1>2, CalmStill DEF Still
<1>4. DerivedClear'
  BY <1>2, <1>3, StillControl DEF ChainInv, ControlInv
<1>6. Ready /\ Owed /\ Flight /\ PosClear /\ RepairClear
  BY DEF ChainInv, ControlInv
<1>7. CASE Park
  <2>1. pc' = "parked" /\ halted'
    BY <1>7 DEF Park, memVars
  <2> QED BY <1>3, <1>4, <2>1 DEF ControlInv, Owed, RepairClear, PosClear, Ready, Flight, InFlight
<1>8. CASE Look \/ TakeTurn \/ Wait
  <2>1. /\ \/ pc = "idle" /\ ~halted /\ pc' = "gate"
           \/ pc = "gate" /\ pc' \in {"turn", "idle"}
        /\ UNCHANGED <<tip, halted>>
    BY <1>8 DEF Look, TakeTurn, Wait, memVars
  <2>2. Ready' /\ Owed'
    BY <1>2, <1>3, <1>6, <2>1 DEF Ready, Owed, Gen
  <2> QED BY <1>3, <1>4, <2>1, <2>2 DEF ControlInv, RepairClear, PosClear, Flight, InFlight
<1>9. CASE CreateActionFails \/ FailBeforeSigning
  <2>1. pc \in {"create", "sign"} /\ pc' = "retract" /\ UNCHANGED <<base, cur, tip>>
    BY <1>9 DEF CreateActionFails, FailBeforeSigning, memVars
  <2>2. Flight'
    BY <1>2, <1>3, <1>6, <2>1 DEF Flight, InFlight, Gen, Next1
  <2> QED BY <1>3, <1>4, <2>1, <2>2 DEF ControlInv, Owed, RepairClear, PosClear, Ready, InFlight
<1>10. CASE Record
  <2>1. pc = "record" /\ pc' = "persist" /\ UNCHANGED <<base, cur>> /\ tip' = cur
    BY <1>10 DEF Record
  <2>2. Flight'
    BY <1>2, <1>3, <1>6, <2>1 DEF Flight, InFlight, Gen, Next1
  <2> QED BY <1>3, <1>4, <2>1, <2>2 DEF ControlInv, Owed, RepairClear, PosClear, Ready, InFlight
<1>11. CASE StartRepair
  <2>1. pc = "idle" /\ ~halted /\ pc' = "repair"
    BY <1>11 DEF StartRepair
  <2>2. \A t \in Live(tx) : tx[t].gen \notin Attempts
    <3>1. Gen(tip) \in Nat
      BY GenType, MaxGenAssumption DEF TypeInv, MemInv, Gens
    <3>2. \A t \in Live(tx) : tx[t].gen \in Nat /\ tx[t].gen <= Gen(tip)
      BY <1>6, <2>1, LiveMade, MaxGenAssumption DEF Ready, Below, Gens
    <3>3. Attempts \subseteq {Gen(tip) + 1}
      BY <1>6, <2>1 DEF Ready
    <3> QED BY <3>1, <3>2, <3>3
  <2>3. RepairClear'
    BY <1>2, <1>3, <2>2 DEF RepairClear
  <2>4. Owed'
    BY <1>2, <1>3, <1>6, <2>1 DEF Owed
  <2> QED BY <1>3, <1>4, <2>1, <2>3, <2>4 DEF ControlInv, PosClear, Ready, Flight, InFlight
<1>12. CASE RepairDerive
  <2>1. CASE pc' = "idle"
    <3>1. halted'
      BY <1>12, <2>1 DEF RepairDerive, HaltRepair
    <3> QED BY <1>3, <1>4, <2>1, <3>1 DEF ControlInv, Owed, RepairClear, PosClear, Ready, Flight, InFlight
  <2>2. CASE pc' # "idle"
    <3> DEFINE p == DeriveTip(rows)
    <3>1. pc = "repair" /\ pc' = "decide" /\ pos' = p
      BY <1>12, <2>2 DEF RepairDerive, RepairDone
    <3>2. /\ p.tip # NoTx
          /\ Topmost(rows, Gen(p.tip)) /\ Below(tx, Gen(p.tip))
          /\ \A a \in Attempts : Gen(p.tip) < a
          /\ p.unknown => Attempts # {}
          /\ ~p.halted => Attempts = {}
      BY <1>6, <3>1, DeriveClear DEF WriteAheadInv, ChainInv, RepairClear
    <3> HIDE DEF p
    <3>3. PosClear'
      <4>1. Gen(pos.tip)' = Gen(p.tip)
        BY <1>2, <3>1 DEF Gen
      <4> QED BY <1>2, <1>3, <3>1, <3>2, <4>1 DEF PosClear
    <3>4. RepairClear'
      BY <1>2, <1>3, <1>6, <3>1 DEF RepairClear
    <3>5. Owed'
      BY <1>2, <1>3, <1>6, <3>1 DEF Owed
    <3> QED BY <1>3, <1>4, <3>1, <3>3, <3>4, <3>5 DEF ControlInv, Ready, Flight, InFlight
  <2> QED BY <2>1, <2>2
<1>13. CASE AdoptDerived
  <2>1. pc = "decide" /\ pc' = "idle" /\ tip' = pos.tip /\ halted' = pos.halted
    BY <1>13 DEF AdoptDerived, RepairDone
  <2>2. Gen(tip)' = Gen(pos.tip)
    BY <1>2, <2>1 DEF Gen
  <2>3. Ready'
    BY <1>2, <1>3, <1>6, <2>1, <2>2 DEF Ready, PosClear
  <2>4. Owed'
    BY <1>2, <1>3, <1>6, <2>1 DEF Owed
  <2> QED BY <1>3, <1>4, <2>1, <2>3, <2>4 DEF ControlInv, RepairClear, PosClear, Flight, InFlight
<1> QED BY <1>7, <1>8, <1>9, <1>10, <1>11, <1>12, <1>13

\* The wallet assembles the action.
LEMMA ControlCreate ==
  ASSUME Undisturbed, IInv, CreateAction
  PROVE  ControlInv' /\ Still
<1> USE DEF IInv, TruthInv
<1>1. Grows /\ Still
  BY NextGrows, CreateStill DEF Next, Worker
<1>2. /\ pc = "create" /\ pc' = "sign"
      /\ UNCHANGED <<rows, base, pos, tip, halted, rederiving, derived>>
  BY DEF CreateAction, memVars, leaseVars
<1>3. DerivedClear'
  BY <1>1, <1>2, StillControl DEF ChainInv, ControlInv
<1>4. Flight'
  <2>1. tx'[cur'].parent = base /\ Live(tx') = Live(tx) /\ Keeps
    BY CreateAdds
  <2>2. Gen(base)' = Gen(base) /\ Next1' = Next1
    BY <1>1, <1>2 DEF Grows, Refs, TypeInv, WorkerInv, Gen, Next1
  <2>3. \A t \in Live(tx) : tx'[t].gen = tx[t].gen
    BY <2>1, LiveMade DEF Keeps
  <2>4. Attempts' = Attempts
    BY <1>1 DEF Still
  <2> QED BY <1>2, <2>1, <2>2, <2>3, <2>4 DEF ChainInv, ControlInv, Flight, InFlight
<1> QED BY <1>1, <1>2, <1>3, <1>4 DEF ControlInv, Owed, RepairClear, PosClear, Ready

-----------------------------------------------------------------------------
(***************************************************************************)
(* The steps of a transition that are not still.                           *)
(***************************************************************************)
\* The write-ahead row: the generation above the tip is nobody's.
LEMMA ChainIntent ==
  ASSUME Undisturbed, IInv, Intent
  PROVE  RecordInv' /\ ControlInv'
<1> USE DEF IInv, TruthInv
<1>1. Next
  BY DEF Next, Worker
<1>2. Grows /\ UNCHANGED <<tx, tip, rederiving, derived, cur, needsRederive>> /\ pc = "turn"
  BY <1>1, NextGrows DEF Intent, leaseVars
<1>3. tip # NoTx /\ Below(tx, Gen(tip)) /\ Topmost(rows, Gen(tip)) /\ Attempts \subseteq {Gen(tip) + 1}
  BY <1>2 DEF ChainInv, ControlInv, Ready
<1>4. ~rederiving /\ ~needsRederive
  BY <1>2, NoDerivation
<1>5. CASE rows' = rows /\ halted' /\ pc' = "idle"
  <2>1. Still
    BY <1>2, <1>5, CalmStill
  <2>2. RecordInv'
    BY <1>1, <2>1, StillRecordNext
  <2> QED BY <1>2, <1>4, <1>5, <2>2
          DEF ControlInv, DerivedClear, Owed, RepairClear, PosClear, Ready, Flight, InFlight
<1>6. CASE ~(rows' = rows /\ halted' /\ pc' = "idle")
  <2> DEFINE n == Gen(tip) + 1
             row == Row("attempting", NoTx, "none", NoTx)
  <2>1. /\ rows' = RecordTx(rows, n, row)
        /\ (base' = tip /\ pc' = "create") \/ (halted' /\ pc' = "idle")
    BY <1>6 DEF Intent
  <2>2. Gen(tip) \in Nat /\ n \in Gens /\ Gens \subseteq Nat
    <3>1. Gen(tip) \in Gens /\ Gen(tip) < MaxGen
      BY GenType DEF Intent, TypeInv, MemInv
    <3> QED BY <3>1, MaxGenAssumption DEF Gens
  <2>3. rows'[n] = row /\ \A g \in Gens \ {n} : rows'[g] = rows[g]
    BY <2>1, <2>2 DEF RecordTx, TypeInv, StoreInv
  <2>4. Attempts' = {n}
    <3>1. row.status = "attempting"
      BY DEF Row
    <3>2. \A g \in Gens \ {n} : rows[g].status # "attempting"
      BY <1>3 DEF Attempts
    <3> HIDE DEF n, row
    <3> QED BY <2>2, <2>3, <3>1, <3>2 DEF Attempts
  <2>5. SettledIn(rows', Gens) = SettledIn(rows, Gens)
    <3>1. n \notin SettledIn(rows, Gens)
      BY <1>3, <2>2 DEF Topmost
    <3>2. n \notin SettledIn(rows', Gens)
      BY <2>3 DEF SettledIn, Row, Settled
    <3> QED BY <2>3, <3>1, <3>2 DEF SettledIn
  <2>6. \A t \in Live(tx) : tx[t].gen \in Gens /\ tx[t].gen <= Gen(tip) /\ tx[t].gen # n
    BY <1>3, <2>2, LiveMade DEF Below
  <2>7. pc' = "create" => base' = tip /\ Gen(base)' = Gen(tip)
    BY <1>2, <2>1 DEF Gen
  <2> HIDE DEF n, row
  <2>8. Traced'
    <3>1. \A t \in Live(tx) : tx[t].gen \in Attempts => FALSE
      BY <1>3, <2>6 DEF n
    <3> QED BY <1>2, <2>3, <2>6, <3>1 DEF Traced, ChainInv, RecordInv
  <2>9. AttemptsOnTop'
    <3>1. \A g \in SettledIn(rows, Gens) : g \in Nat /\ g <= Gen(tip)
      BY <1>3, <2>2 DEF Topmost, SettledIn
    <3>2. \A g \in SettledIn(rows, Gens) : g < n
      BY <2>2, <3>1 DEF n
    <3> QED BY <2>4, <2>5, <3>2 DEF AttemptsOnTop
  <2>10. Unique' /\ WalletInv'
    BY <1>1, <1>2, WalletNext DEF ChainInv, RecordInv, Unique
  <2>11. Flight'
    BY <1>2, <1>3, <2>1, <2>4, <2>5, <2>6, <2>7 DEF Flight, InFlight, Next1, Topmost, n
  <2> QED BY <1>2, <1>4, <2>1, <2>8, <2>9, <2>10, <2>11
          DEF RecordInv, ControlInv, DerivedClear, Owed, RepairClear, PosClear, Ready
<1> QED BY <1>5, <1>6

\* Signing takes up the generation the write-ahead row stands for, and nothing
\* live is there.
LEMMA ChainSign ==
  ASSUME Undisturbed, IInv, SignAction
  PROVE  RecordInv' /\ ControlInv'
<1> USE DEF IInv, TruthInv
<1>1. Next
  BY DEF Next, Worker
<1>2. /\ pc = "sign" /\ pc' = "record" /\ UNCHANGED <<rows, base, cur, tip, rederiving, derived, needsRederive>>
      /\ tx' = [tx EXCEPT ![cur].st = "sent"]
  BY DEF SignAction, memVars, leaseVars
<1>3. Grows /\ ~rederiving /\ ~needsRederive
  BY <1>1, <1>2, NextGrows, NoDerivation DEF InFlight
<1>4. /\ base # NoTx /\ \A t \in Live(tx) : tx[t].gen <= Gen(base)
      /\ Topmost(rows, Gen(base)) /\ Attempts = {Next1} /\ tx[cur].parent = base /\ tip = base
  BY <1>2 DEF ChainInv, ControlInv, Flight, InFlight
<1>5. cur \in TxIds /\ cur # Genesis /\ tx[cur].gen = Next1 /\ Gen(base) \in Nat
  <2>1. cur \in TxIds /\ tx[cur].gen = Next1 /\ tx[cur].st = "created"
    BY <1>2 DEF SigningPlace, TypeInv, WorkerInv
  <2>2. Gen(base) \in Nat
    BY GenType, MaxGenAssumption DEF TypeInv, WorkerInv, Gens
  <2> QED BY <2>1, <2>2 DEF ChainInv, RecordInv, WalletInv, GenesisInv
<1>6. /\ \A u \in TxIds : tx'[u].gen = tx[u].gen /\ tx'[u].parent = tx[u].parent
      /\ \A u \in TxIds \ {cur} : tx'[u] = tx[u]
  BY <1>2, <1>5 DEF TypeInv, StoreInv, Action
<1>7. \A t \in Live(tx') : t = cur \/ (t \in Live(tx) /\ tx[t].gen <= Gen(base) /\ tx[t].gen # Next1)
  <2>1. \A t \in Live(tx') : t = cur \/ t \in Live(tx)
    BY <1>6 DEF Live
  <2>2. \A t \in Live(tx) : tx[t].gen \in Nat
    BY LiveMade, MaxGenAssumption DEF Gens
  <2> QED BY <1>4, <1>5, <2>1, <2>2 DEF Next1
<1>8. \A t \in Live(tx') : t \in TxIds /\ tx'[t].gen = tx[t].gen
  BY <1>6 DEF Live
<1>9. Unique'
  BY <1>5, <1>7, <1>8 DEF Unique, ChainInv, RecordInv
<1>10. Attempts' = Attempts /\ AttemptsOnTop'
  BY <1>2 DEF Attempts, AttemptsOnTop, ChainInv, RecordInv
<1>11. Traced'
  BY <1>2, <1>4, <1>5, <1>7, <1>8, <1>10 DEF Traced, ChainInv, RecordInv
<1>12. Gen(base)' = Gen(base) /\ Next1' = Next1
  BY <1>2, <1>3 DEF Grows, Refs, TypeInv, WorkerInv, Gen, Next1
<1>13. Flight'
  BY <1>2, <1>4, <1>5, <1>6, <1>7, <1>8, <1>10, <1>12 DEF Flight, InFlight
<1> QED BY <1>1, <1>2, <1>3, <1>9, <1>10, <1>11, <1>13, WalletNext
        DEF RecordInv, ControlInv, DerivedClear, Owed, RepairClear, PosClear, Ready

\* The transition recorded: the write-ahead row becomes the transaction's.
LEMMA ChainPersist ==
  ASSUME Undisturbed, IInv, Persist
  PROVE  RecordInv' /\ ControlInv'
<1> USE DEF IInv, TruthInv
<1>1. Next
  BY DEF Next, Worker
<1>2. pc = "persist" /\ pc' = "idle" /\ UNCHANGED <<tx, tip, rederiving, derived, needsRederive>>
  BY DEF Persist, Done, leaseVars
<1>3. Grows /\ ~rederiving /\ ~needsRederive
  BY <1>1, <1>2, NextGrows, NoDerivation DEF InFlight
<1>4. CASE rows' = rows /\ halted'
  <2>1. RecordInv'
    BY <1>1, <1>2, <1>4, CalmStill, StillRecordNext
  <2> QED BY <1>2, <1>3, <1>4, <2>1
          DEF ControlInv, DerivedClear, Owed, RepairClear, PosClear, Ready, Flight, InFlight
<1>5. CASE ~(rows' = rows /\ halted')
  <2> DEFINE row == Row("broadcast", cur, "none", NoTx)
  <2>1. rows' = RecordTx(rows, Gen(cur), row)
    BY <1>5 DEF Persist
  <2>2. /\ \A t \in Live(tx) : tx[t].gen <= Gen(base) \/ t = cur
        /\ Topmost(rows, Gen(base)) /\ Attempts = {Next1} /\ tip = cur
    BY <1>2 DEF ChainInv, ControlInv, Flight, InFlight
  <2>3. /\ cur \in TxIds /\ cur # NoTx /\ Gen(cur) = Next1 /\ tx[cur].gen = Next1
        /\ Gen(base) \in Nat /\ Next1 \in Gens /\ Gens \subseteq Nat
    <3>1. cur \in TxIds /\ tx[cur].gen = Next1 /\ Gen(base) < MaxGen
      BY <1>2 DEF SigningPlace, TypeInv, WorkerInv, InFlight
    <3>2. Gen(base) \in Gens
      BY GenType DEF TypeInv, WorkerInv
    <3> QED BY <3>1, <3>2, GenIs, MaxGenAssumption DEF Gens, Next1
  <2>4. rows'[Next1] = row /\ \A g \in Gens \ {Next1} : rows'[g] = rows[g]
    BY <2>1, <2>3 DEF RecordTx, TypeInv, StoreInv
  <2>5. Attempts' = {}
    BY <2>2, <2>4 DEF Attempts, Row
  <2>6. \A g \in SettledIn(rows', Gens) : g \in Nat /\ (g = Next1 \/ g <= Gen(base))
    BY <2>2, <2>3, <2>4 DEF SettledIn, Topmost
  <2>7. Topmost(rows', Next1)
    BY <2>3, <2>6 DEF Topmost, Next1
  <2>8. Below(tx, Next1) /\ \A t \in Live(tx) : t = cur \/ tx[t].gen # Next1
    <3>1. \A t \in Live(tx) : tx[t].gen \in Nat
      BY <2>3, LiveMade
    <3> QED BY <2>2, <2>3, <3>1 DEF Below, Next1
  <2>9. Traced'
    <3>1. \A t \in Live(tx) : tx[t].gen \in Gens
      BY LiveMade
    <3>2. rows'[Next1].txid = cur
      BY <2>4 DEF Row
    <3> HIDE DEF row
    <3>3. \A t \in Live(tx) : t # cur => rows'[tx[t].gen].txid = t
      BY <2>2, <2>4, <2>8, <3>1 DEF Traced, ChainInv, RecordInv
    <3> QED BY <1>2, <2>3, <3>2, <3>3 DEF Traced
  <2>10. AttemptsOnTop'
    BY <2>5 DEF AttemptsOnTop
  <2>11. Ready'
    <3>1. Gen(tip)' = Next1
      BY <1>2, <2>2, <2>3 DEF Gen
    <3> QED BY <1>2, <2>2, <2>3, <2>5, <2>7, <2>8, <3>1 DEF Ready
  <2>12. Unique' /\ WalletInv'
    BY <1>1, <1>2, WalletNext DEF ChainInv, RecordInv, Unique
  <2> QED BY <1>2, <1>3, <2>9, <2>10, <2>11, <2>12
          DEF RecordInv, ControlInv, DerivedClear, Owed, RepairClear, PosClear, Flight, InFlight
<1> QED BY <1>4, <1>5

\* The transition abandoned: its write-ahead row stands for nothing.
LEMMA ChainNotBroadcast ==
  ASSUME Undisturbed, IInv, NotBroadcast
  PROVE  RecordInv' /\ ControlInv'
<1> USE DEF IInv, TruthInv
<1>1. Next
  BY DEF Next, Worker
<1>2. /\ pc = "retract" /\ pc' = "idle" /\ UNCHANGED <<tx, tip, rederiving, derived, needsRederive>>
      /\ rows' \in {rows, DeleteAttempt(rows, Next1)}
  BY DEF NotBroadcast, Done, leaseVars
<1>3. Grows /\ ~rederiving /\ ~needsRederive
  BY <1>1, <1>2, NextGrows, NoDerivation DEF InFlight
<1>4. /\ base # NoTx /\ tip = base /\ Below(tx, Gen(base))
      /\ Topmost(rows, Gen(base)) /\ Attempts = {Next1}
  BY <1>2 DEF ChainInv, ControlInv, Flight, InFlight, Below
<1>5. /\ \A g \in Gens : rows'[g] = rows[g] \/ (g \in Attempts /\ rows'[g] = NoRow)
  BY <1>2 DEF DeleteAttempt, Attempts
<1>6. Attempts' \subseteq Attempts /\ SettledIn(rows', Gens) \subseteq SettledIn(rows, Gens)
  BY <1>5 DEF Attempts, SettledIn, NoRow, Settled
<1>7. \A t \in Live(tx) : tx[t].gen \in Gens /\ tx[t].gen \notin Attempts
  <2>1. Gen(base) \in Nat
    BY GenType, MaxGenAssumption DEF TypeInv, WorkerInv, Gens
  <2>2. \A t \in Live(tx) : tx[t].gen \in Gens /\ tx[t].gen \in Nat
    BY LiveMade, MaxGenAssumption DEF Gens
  <2> QED BY <1>4, <2>1, <2>2 DEF Below, Next1
<1>8. Traced'
  BY <1>2, <1>5, <1>7 DEF Traced, ChainInv, RecordInv
<1>9. AttemptsOnTop'
  BY <1>6 DEF AttemptsOnTop, ChainInv, RecordInv
<1>10. Ready'
  <2>1. Gen(tip)' = Gen(base)
    BY <1>2, <1>4 DEF Gen
  <2> QED BY <1>2, <1>4, <1>6, <2>1 DEF Ready, Topmost, Next1
<1>11. Unique' /\ WalletInv'
  BY <1>1, <1>2, WalletNext DEF ChainInv, RecordInv, Unique
<1> QED BY <1>2, <1>3, <1>8, <1>9, <1>10, <1>11
        DEF RecordInv, ControlInv, DerivedClear, Owed, RepairClear, PosClear, Flight, InFlight

-----------------------------------------------------------------------------
(***************************************************************************)
(* A repair.                                                               *)
(***************************************************************************)
\* What one pass of a repair may do to the rows.
RepairKeeps ==
  /\ \A t \in Live(tx) : rows'[tx[t].gen].txid = t
  /\ Attempts' \subseteq Attempts
  /\ AttemptsOnTop'
  /\ ~pos.unknown => Attempts' = Attempts /\ SettledIn(rows', Gens) \subseteq SettledIn(rows, Gens)

\* The row of every live transaction names it while a repair is under way.
LEMMA RepairNamed ==
  ASSUME IInv, pc = "decide"
  PROVE  \A t \in Live(tx) : /\ tx[t].gen \in Gens /\ rows[tx[t].gen].txid = t
                             /\ tx[t].gen \in SettledIn(rows, Gens)
<1> SUFFICES ASSUME NEW t \in Live(tx)
             PROVE  /\ tx[t].gen \in Gens /\ rows[tx[t].gen].txid = t
                    /\ tx[t].gen \in SettledIn(rows, Gens)
  OBVIOUS
<1>1. tx[t].gen \in Gens
  BY LiveMade DEF IInv, TruthInv
<1>2. rows[tx[t].gen].txid = t
  BY DEF IInv, ChainInv, ControlInv, RepairClear, RecordInv, Traced
<1> QED BY <1>1, <1>2, LiveSettled DEF IInv, WriteAheadInv

\* A retraction takes away a row that is an attempt or a failure.
LEMMA RetractKeeps ==
  ASSUME IInv, pc = "decide", rows' = rows \/ rows' = Retract(pos, rows)
  PROVE  RepairKeeps
<1>1. \A g \in Gens : \/ rows'[g] = rows[g]
                      \/ /\ rows'[g] = NoRow
                         /\ rows[g].status = IF pos.unknown THEN "attempting" ELSE "failed"
  BY DEF Retract, DeleteAttempt, DeleteRejection, DeleteUnsignedRejection
<1>2. \A t \in Live(tx) : rows'[tx[t].gen].txid = t
  <2>1. \A t \in Live(tx) : /\ tx[t].gen \in Gens /\ rows[tx[t].gen].txid = t
                             /\ tx[t].gen \in SettledIn(rows, Gens)
    BY RepairNamed
  <2>2. \A t \in Live(tx) : rows'[tx[t].gen] = rows[tx[t].gen]
    BY <1>1, <2>1 DEF SettledIn, Settled
  <2> QED BY <2>1, <2>2
<1>3. Attempts' \subseteq Attempts /\ (~pos.unknown => Attempts' = Attempts)
  BY <1>1 DEF Attempts, NoRow
<1>4. SettledIn(rows', Gens) \subseteq SettledIn(rows, Gens)
  BY <1>1 DEF SettledIn, NoRow, Settled
<1>5. AttemptsOnTop'
  BY <1>3, <1>4 DEF AttemptsOnTop, IInv, ChainInv, RecordInv
<1> QED BY <1>2, <1>3, <1>4, <1>5 DEF RepairKeeps

\* An adoption writes above everything live and below every attempt it leaves.
LEMMA AdoptKeeps ==
  ASSUME IInv, pc = "decide", pos.unknown, NEW rec, Adopts(rec, pos, tx),
         NEW done \in Gens, rows' = AdoptUpTo(rec, rows, tx, done)
  PROVE  RepairKeeps
<1> USE DEF IInv, TruthInv
<1>1. /\ pos.tip \in Made(tx) /\ pos.tip \in TxIds /\ Gen(pos.tip) = tx[pos.tip].gen
      /\ tx \in [TxIds -> Action] /\ Below(tx, Gen(pos.tip)) /\ \A a \in Attempts : Gen(pos.tip) < a
  <2>1. /\ pos.tip \in Made(tx) /\ Below(tx, Gen(pos.tip))
        /\ \A a \in Attempts : Gen(pos.tip) < a
    BY DEF ChainInv, ControlInv, PosClear, TypeInv, WorkerInv, Derivable, Refs
  <2> QED BY <2>1, GenIs DEF Made, TypeInv, StoreInv
<1> DEFINE from == tx[pos.tip].gen + 1
<1>2. PICK n, f : /\ ChainFrom(pos, tx, n, f)
                  /\ rec.steps = {f[g] : g \in from .. n}
  BY DEF Adopts
<1>3. \A g \in Gens : rows'[g] = IF g <= done /\ g \in from .. n
                                 THEN Row("broadcast", f[g], "none", NoTx) ELSE rows[g]
  <2> SUFFICES ASSUME NEW g \in Gens
               PROVE  AdoptUpTo(rec, rows, tx, done)[g] =
                        IF g <= done /\ g \in from .. n
                          THEN Row("broadcast", f[g], "none", NoTx) ELSE rows[g]
    OBVIOUS
  <2>1. Along(rec, pos, tx, n, f)
    BY <1>2 DEF Along
  <2> HIDE DEF IInv, TruthInv
  <2>2. AdoptUpTo(rec, rows, tx, done)[g] = AdoptedRow(rows, f, tx[pos.tip].gen + 1, n, done, g)
    BY <2>1, AdoptUpToRows
  <2> QED BY <2>2 DEF AdoptedRow
<1>4. Gens \subseteq Nat /\ from \in Nat /\ n \in Nat /\ tx[pos.tip].gen \in Nat
  <2>1. tx[pos.tip].gen \in Gens
    BY <1>1 DEF Action
  <2> QED BY <1>2, <2>1, MaxGenAssumption DEF ChainFrom, Gens
<1>5. \A t \in Live(tx) : rows'[tx[t].gen].txid = t
  <2>1. \A t \in Live(tx) : tx[t].gen \in Gens /\ rows[tx[t].gen].txid = t
    BY RepairNamed
  <2>2. \A t \in Live(tx) : tx[t].gen \notin from .. n
    BY <1>1, <1>4, <2>1 DEF Below
  <2> QED BY <1>3, <2>1, <2>2
<1>6. \A a \in Attempts' : a \in Attempts /\ ~(a <= done /\ a \in from .. n)
  <2> SUFFICES ASSUME NEW a \in Attempts'
               PROVE  a \in Attempts /\ ~(a <= done /\ a \in from .. n)
    OBVIOUS
  <2>1. a \in Gens /\ rows'[a].status = "attempting"
    BY DEF Attempts
  <2>2. Row("broadcast", f[a], "none", NoTx).status # "attempting"
    BY DEF Row
  <2>3. rows'[a] = rows[a] /\ ~(a <= done /\ a \in from .. n)
    BY <1>3, <2>1, <2>2
  <2> QED BY <2>1, <2>3 DEF Attempts
<1>7. \A g \in SettledIn(rows', Gens) : \/ g \in SettledIn(rows, Gens)
                                        \/ g <= done /\ g \in from .. n
  BY <1>3 DEF SettledIn
<1>8. AttemptsOnTop'
  <2> SUFFICES ASSUME NEW a \in Attempts', NEW g \in SettledIn(rows', Gens)
               PROVE  g < a
    BY DEF AttemptsOnTop
  <2>1. CASE g \in SettledIn(rows, Gens)
    BY <1>6, <2>1 DEF ChainInv, RecordInv, AttemptsOnTop
  <2>2. CASE g <= done /\ g \in from .. n
    <3>1. a \in Nat /\ from <= a /\ ~(a <= done /\ a \in from .. n) /\ done \in Nat
      <4>1. a \in Attempts /\ a \in Nat
        BY <1>4, <1>6 DEF Attempts
      <4>2. tx[pos.tip].gen < a
        BY <1>1, <4>1
      <4> QED BY <1>4, <1>6, <4>1, <4>2
    <3> QED BY <1>4, <2>2, <3>1
  <2> QED BY <1>7, <2>1, <2>2
<1> QED BY <1>5, <1>6, <1>8 DEF RepairKeeps

\* One pass of a repair, whatever it decides and however far it gets.  It never
\* adopts the spender a refusal names: nothing live spends the tip of a cell
\* whose repair is under way.
LEMMA RepairWrites ==
  ASSUME IInv, pc = "decide", Considered(pos), NEW wf, NEW rec,
         rec \in Decisions(pos, rows, tx, TRUE, wf), rec.verdict # "halt",
         \/ rows' = ApplyRecovery(pos, rec, rows, tx)
         \/ rows' \in CutShort(pos, rec, rows, tx)
  PROVE  RepairKeeps
<1> USE DEF IInv, TruthInv
<1>1. /\ pos.tip \in Made(tx) /\ pos.tip \in TxIds /\ pos.tip # NoTx
      /\ Gen(pos.tip) = tx[pos.tip].gen
      /\ tx \in [TxIds -> Action] /\ Below(tx, Gen(pos.tip))
  <2>1. pos.tip \in Made(tx) /\ Below(tx, Gen(pos.tip))
    BY DEF ChainInv, ControlInv, PosClear, TypeInv, WorkerInv, Derivable, Refs
  <2> QED BY <2>1, GenIs DEF Made, TypeInv, StoreInv
<1>2. Decision(rec, tx) /\ rec = DecideCell(pos, rows, tx, TRUE, wf)
  <2>1. tx \in [TxIds -> Action] /\ pos.tip \in Made(tx)
    BY <1>1
  <2> QED BY <2>1, DecisionsType, ZenonT(30)
<1>5. \/ rows' = ApplyRecovery(pos, rec, rows, tx)
      \/ \E done \in Gens : rows' = AdoptUpTo(rec, rows, tx, done)
  <2>1. rec.verdict \in {"halt", "resume", "adopt"}
    BY <1>2 DEF Decision
  <2>2. \/ rows' = ApplyRecovery(pos, rec, rows, tx)
        \/ rows' \in CutShort(pos, rec, rows, tx)
    OBVIOUS
  <2> QED BY <2>1, <2>2, Leaves
<1>3. CASE rec.verdict = "resume"
  <2>1. rec = Resume(pos)
    BY <1>2, <1>3, DecideResumes
  <2>2. ApplyRecovery(pos, rec, rows, tx) = Retract(pos, rows)
    BY <1>3 DEF ApplyRecovery
  <2>3. \A done : AdoptUpTo(rec, rows, tx, done) = rows
    <3>1. rows = [g \in Gens |-> rows[g]]
      BY DEF TypeInv, StoreInv
    <3> QED BY <2>1, <3>1, ResumesWhole
  <2> QED BY <1>5, <2>2, <2>3, RetractKeeps
<1>4. CASE rec.verdict = "adopt"
  <2>1. pos.unknown
    <3> SUFFICES ASSUME ~pos.unknown PROVE FALSE
      OBVIOUS
    <3> DEFINE s == pos.rejection.by
    <3>1. rec = RecoverRejected(pos, rows, tx, TRUE)
      BY <1>2 DEF DecideCell
    <3>2. s \in Accepted(tx) /\ tx[s].parent = pos.tip
      BY <1>4, <3>1, RecoverRejectedAdopts
    <3>3. s \in Live(tx) /\ s \in Made(tx) /\ s # Genesis
      BY <1>1, <3>2 DEF Accepted, Live, Made, ChainInv, RecordInv, WalletInv, GenesisInv
    <3>4. tx[s].gen = tx[pos.tip].gen + 1
      BY <3>2, <3>3 DEF ChainInv, RecordInv, WalletInv, Linked
    <3>5. tx[s].gen <= tx[pos.tip].gen /\ tx[pos.tip].gen \in Nat
      BY <1>1, <3>3, MaxGenAssumption DEF Below, Action, Gens
    <3> QED BY <3>4, <3>5
  <2>2. rec = RecoverCell(pos, tx, wf)
    BY <1>2, <2>1 DEF DecideCell
  <2>3. Adopts(rec, pos, tx)
    BY <1>1, <1>4, <2>2, RecoverCellAdopts
  <2>4. MaxGen \in Gens
    BY MaxGenAssumption DEF Gens
  <2>5. PICK done \in Gens : rows' = AdoptUpTo(rec, rows, tx, done)
    BY <1>4, <1>5, <2>4 DEF ApplyRecovery
  <2> QED BY <2>1, <2>3, <2>5, AdoptKeeps
<1> QED BY <1>2, <1>3, <1>4 DEF Decision

\* RepairDecide.
LEMMA ChainRepairDecide ==
  ASSUME Undisturbed, IInv, RepairDecide
  PROVE  RecordInv' /\ ControlInv'
<1> USE DEF IInv, TruthInv
<1>1. Next
  BY DEF Next, Worker
<1>2. /\ pc = "decide" /\ Considered(pos) /\ UNCHANGED <<tx, rederiving, derived, needsRederive>>
      /\ pc' = "repair" \/ (pc' = "idle" /\ halted')
  BY DEF RepairDecide, AdoptRepaired, RepairDone, HaltRepair, leaseVars
<1>3. Grows
  BY <1>1, NextGrows
<1>4. RepairKeeps
  <2>1. CASE rows' = rows
    BY <1>2, <2>1, RetractKeeps
  <2>2. CASE rows' # rows
    <3>1. PICK wf : \E rec \in Decisions(pos, rows, tx, TRUE, wf) :
                      /\ rec.verdict # "halt"
                      /\ \/ rows' = ApplyRecovery(pos, rec, rows, tx)
                         \/ rows' \in CutShort(pos, rec, rows, tx)
      BY <2>2 DEF RepairDecide, AdoptRepaired
    <3>2. PICK rec \in Decisions(pos, rows, tx, TRUE, wf) :
            /\ rec.verdict # "halt"
            /\ \/ rows' = ApplyRecovery(pos, rec, rows, tx)
               \/ rows' \in CutShort(pos, rec, rows, tx)
      BY <3>1
    <3> QED BY <1>2, <3>2, RepairWrites
  <2> QED BY <2>1, <2>2
<1>5. Traced' /\ AttemptsOnTop' /\ Unique' /\ WalletInv'
  <2>1. WalletInv'
    BY <1>1, WalletNext
  <2>2. Unique'
    BY <1>2 DEF ChainInv, RecordInv, Unique
  <2> QED BY <1>2, <1>4, <2>1, <2>2 DEF RepairKeeps, Traced
<1>6. RepairClear'
  BY <1>2, <1>4 DEF RepairKeeps, ChainInv, ControlInv, RepairClear
<1>7. DerivedClear'
  <2> SUFFICES ASSUME rederiving PROVE DerivedClear'
    BY <1>2 DEF DerivedClear
  <2>1. DerivedClear /\ Attempts = {}
    BY <1>2, NoDerivation DEF ChainInv, ControlInv, Owed
  <2>2. ~pos.unknown
    BY <1>2, <2>1 DEF ChainInv, ControlInv, PosClear
  <2>3. Still
    <3>1. \A g \in Gens : rows[g].txid \in Live(tx) => rows'[g].txid = rows[g].txid
      BY <1>4, LiveSettled DEF RepairKeeps, WriteAheadInv
    <3> QED BY <1>2, <1>4, <2>2, <3>1 DEF RepairKeeps, Still, Keeps
  <2> QED BY <1>2, <1>3, <2>1, <2>3, StillControl DEF ChainInv
<1>8. Owed'
  BY <1>2, <1>4 DEF RepairKeeps, ChainInv, ControlInv, Owed
<1> QED BY <1>2, <1>5, <1>6, <1>7, <1>8 DEF RecordInv, ControlInv, PosClear, Ready, Flight, InFlight

-----------------------------------------------------------------------------
(***************************************************************************)
(* The invariant.                                                          *)
(***************************************************************************)
\* It holds at the start: the genesis is taken and recorded, and nothing else
\* has been made.
LEMMA IInit == Init => IInv
<1> SUFFICES ASSUME Init PROVE IInv
  OBVIOUS
<1>1. TypeInv /\ TruthInv /\ WriteAheadInv
  BY TruthInit, WriteAheadInit DEF TruthInv
<1>2. /\ Made(tx) = {Genesis} /\ Live(tx) = {Genesis} /\ Accepted(tx) = {Genesis}
      /\ tx[Genesis] = [gen |-> 0, parent |-> NoTx, st |-> "mined", by |-> NoTx]
  BY MaxTxAssumption DEF Init, Made, Live, Accepted, TxIds, Genesis, NoTx
<1>3. 0 \in Gens /\ rows[0].txid = Genesis /\ Attempts = {} /\ SettledIn(rows, Gens) \subseteq {0}
  BY MaxGenAssumption DEF Init, Gens, Attempts, SettledIn, Row, NoRow, Settled
<1>4. WalletInv
  BY <1>2 DEF WalletInv, GenesisInv, Linked, Rooted
<1>5. RecordInv
  BY <1>2, <1>3, <1>4 DEF RecordInv, Unique, Traced, AttemptsOnTop
<1>6. QueueAccepted
  BY DEF Init, QueueAccepted
<1>7. ControlInv
  BY DEF Init, ControlInv, DerivedClear, Owed, RepairClear, PosClear, Ready, Flight, InFlight
<1> QED BY <1>1, <1>5, <1>6, <1>7 DEF IInv, ChainInv

\* No transition is signed into the dark, and nobody else repairs the cell.
LEMMA NotTaken ==
  ASSUME Undisturbed, IInv, Next
  PROVE  ~SignActionFails /\ ~SigningFailed /\ ~OperatorRecover /\ ~StandbyRepair
<1>1. ~SigningFailed
  BY DEF IInv, ChainInv, ControlInv, Flight, SigningFailed, InFlight
<1> QED BY <1>1 DEF Undisturbed, SignActionFails, OperatorRecover, StandbyRepair

\* A step either is still or is one of five that write the chain.
LEMMA StillOr ==
  ASSUME Undisturbed, IInv, Next
  PROVE  \/ ControlInv' /\ Still
         \/ Intent \/ SignAction \/ Persist \/ NotBroadcast \/ RepairDecide
BY NotTaken, ControlBystander, ControlProcess, ControlRederiveApply, ControlWorker,
   ControlCreate DEF Next, Worker, Lease

\* Every step keeps it.
LEMMA INext ==
  ASSUME Undisturbed
  PROVE  IInv /\ [Next]_vars => IInv'
<1>0. SoleWriter
  BY DEF Undisturbed, SoleWriter
<1>1. ASSUME IInv, Next PROVE ChainInv'
  <2>1. TruthInv /\ ChainInv
    BY <1>1 DEF IInv
  <2>2. QueueAccepted'
    BY <1>1, <2>1, QueueAcceptedNext
  <2>3. RecordInv' /\ ControlInv'
    <3>1. CASE ControlInv' /\ Still
      BY <1>1, <2>1, <3>1, StillRecordNext
    <3>2. CASE ~(ControlInv' /\ Still)
      BY <1>1, <3>2, StillOr, ChainIntent, ChainSign, ChainPersist, ChainNotBroadcast,
         ChainRepairDecide
    <3> QED BY <3>1, <3>2
  <2> QED BY <2>2, <2>3 DEF ChainInv
<1>2. ASSUME IInv, UNCHANGED vars PROVE ChainInv'
  <2>1. RecordInv' /\ QueueAccepted'
    BY <1>2 DEF IInv, ChainInv, vars, RecordInv, WalletInv, GenesisInv, Linked, Rooted, Unique,
       Traced, AttemptsOnTop, Attempts, QueueAccepted
  <2>2. ControlInv'
    BY <1>2 DEF IInv, ChainInv, vars, ControlInv, DerivedClear, Owed, RepairClear, PosClear, Ready,
       Flight, Attempts, Gen, Next1, InFlight
  <2> QED BY <2>1, <2>2 DEF ChainInv
<1>3. IInv /\ [Next]_vars => TruthInv' /\ WriteAheadInv'
  BY <1>0, TruthNext, WriteAheadInvNext DEF IInv
<1> QED BY <1>1, <1>2, <1>3 DEF IInv

-----------------------------------------------------------------------------
(***************************************************************************)
(* The theorems.                                                           *)
(***************************************************************************)
\* No output of the chain is spent by two transactions that are both before the
\* network: whatever the interleaving of worker, statuses, repairs, refusals,
\* restarts and changes of leader, for any bounds.
THEOREM SpentOnce ==
  ASSUME Undisturbed
  PROVE  Spec => []NoDoubleSpend
<1>1. IInv => NoDoubleSpend
  <2> SUFFICES ASSUME IInv, NEW s \in Live(tx), NEW t \in Live(tx), s # t, s # Genesis,
                      tx[s].parent = tx[t].parent
               PROVE  FALSE
    BY DEF NoDoubleSpend
  <2>1. RecordInv /\ TypeInv
    BY DEF IInv, ChainInv, TruthInv
  <2>2. s \in Made(tx) /\ t \in Made(tx) /\ NoTx \notin Made(tx)
    BY <2>1, LiveMade, MaxTxAssumption DEF Made, TxIds, NoTx
  <2>3. t # Genesis
    BY <2>1, <2>2 DEF RecordInv, WalletInv, GenesisInv, Linked
  <2>4. tx[s].gen = tx[t].gen
    BY <2>1, <2>2, <2>3 DEF RecordInv, WalletInv, Linked
  <2> QED BY <2>1, <2>4 DEF RecordInv, Unique
<1> QED BY <1>1, IInit, INext, PTL DEF Spec

\* A process started on what the store says runs the cell on no tip that is
\* spent, at whatever instant the last one died.
THEOREM RestartSafe ==
  ASSUME Undisturbed
  PROVE  Spec => []CrashSafe
<1>1. IInv => CrashSafe
  <2> SUFFICES ASSUME IInv PROVE CrashSafe
    OBVIOUS
  <2>1. RecordInv /\ TypeInv /\ TruthInv /\ NamedInv
    BY DEF IInv, ChainInv, TruthInv, WriteAheadInv
  <2> DEFINE p == DeriveTip(rows)
  <2>2. /\ p.tip # NoTx /\ p.tip \in Signed(tx)
        /\ ~p.halted => Below(tx, Gen(p.tip))
    BY <2>1, DeriveClear
  <2>3. p.tip \in TxIds /\ Gen(p.tip) = tx[p.tip].gen /\ tx[p.tip].gen \in Nat
    <3>1. p.tip \in TxIds
      BY <2>2 DEF Signed, Live
    <3> QED BY <2>1, <3>1, GenIs, MaxGenAssumption DEF TypeInv, StoreInv, Action, Gens
  <2>4. SUFFICES ASSUME ~p.halted, NEW t \in Live(tx), tx[t].parent = p.tip
                 PROVE  FALSE
    BY DEF CrashSafe
  <2> HIDE DEF p
  <2>5. t # Genesis /\ t \in Made(tx)
    BY <2>1, <2>2, <2>4, LiveMade DEF RecordInv, WalletInv, GenesisInv
  <2>6. tx[t].gen = tx[p.tip].gen + 1
    BY <2>1, <2>4, <2>5 DEF RecordInv, WalletInv, Linked
  <2>7. tx[t].gen <= tx[p.tip].gen
    BY <2>2, <2>3, <2>4 DEF Below
  <2> QED BY <2>3, <2>6, <2>7
<1> QED BY <1>1, IInit, INext, PTL DEF Spec

\* The row of a live transaction goes on naming it, step after step: neither
\* repair, retraction, recovery nor the next attempt takes it away.
THEOREM LiveRowsKept ==
  ASSUME Undisturbed
  PROVE  Spec => LiveRowKept
<1>1. IInv /\ IInv' /\ [Next]_vars =>
        [\A g \in Gens : rows[g].txid \in Live(tx) /\ rows'[g].txid # rows[g].txid
           => rows[g].txid \notin Live(tx')]_vars
  <2> SUFFICES ASSUME IInv, IInv', Next, NEW g \in Gens, rows[g].txid \in Live(tx),
                      rows'[g].txid # rows[g].txid, rows[g].txid \in Live(tx')
               PROVE  FALSE
    BY DEF vars
  <2> DEFINE t == rows[g].txid
  <2>1. NamedInv /\ TruthInv /\ ChainInv /\ Traced'
    BY DEF IInv, WriteAheadInv, ChainInv, RecordInv
  <2>2. g \in SettledIn(rows, Gens) /\ tx[t].gen = g
    BY <2>1, LiveSettled
  <2>3. t \in Made(tx) /\ tx'[t].gen = g
    BY <2>1, <2>2, WalletNext, LiveMade DEF TruthInv, Keeps
  <2>4. g \in Attempts'
    BY <2>1, <2>3 DEF Traced
  <2>5. Intent /\ g = Gen(tip) + 1
    <3>1. rows[g].status # "attempting"
      BY <2>2 DEF SettledIn, Settled
    <3> QED BY <2>1, <2>4, <3>1, AttemptRows DEF Attempts
  <2>6. g <= Gen(tip) /\ Gen(tip) \in Nat
    <3>1. pc = "turn"
      BY <2>5 DEF Intent
    <3>2. Gen(tip) \in Gens
      BY <2>1, GenType DEF TruthInv, TypeInv, MemInv
    <3> QED BY <2>1, <2>2, <3>1, <3>2, MaxGenAssumption
            DEF ChainInv, ControlInv, Ready, Topmost, Gens
  <2> QED BY <2>5, <2>6
<1> QED BY <1>1, IInit, INext, PTL DEF Spec, LiveRowKept

-----------------------------------------------------------------------------
(***************************************************************************)
(* The engine implements the chain.                                        *)
(***************************************************************************)
Closed(x, S) == \A t \in S : x[t].parent \in S \cup {NoTx}

\* What stands is the largest set of live transactions closed under parents.
LEMMA StandingIs ==
  ASSUME NEW x
  PROVE  /\ Standing(x) \subseteq Live(x) /\ Closed(x, Standing(x))
         /\ \A S \in SUBSET Live(x) : Closed(x, S) => S \subseteq Standing(x)
BY DEF Standing, Closed

\* What the abstract chain sees of it.
LEMMA StandingPairs ==
  /\ \A t \in Standing(tx) : <<tx[t].gen, t>> \in standing
  /\ \A p \in standing : \E t \in Standing(tx) : p = <<tx[t].gen, t>>
  /\ \A t \in Standing(tx') : <<tx'[t].gen, t>> \in standing'
  /\ \A p \in standing' : \E t \in Standing(tx') : p = <<tx'[t].gen, t>>
BY DEF standing

\* What stands depends on nothing but what is live and whose child it is.
LEMMA StandingSame ==
  ASSUME Standing(tx') = Standing(tx), \A t \in Standing(tx) : tx'[t].gen = tx[t].gen
  PROVE  standing' = standing
BY StandingPairs

\* The wallet's tree over the genesis, in any state of it.
Tree(x) ==
  /\ x \in [TxIds -> Action]
  /\ x[Genesis].gen = 0 /\ x[Genesis].parent = NoTx /\ Genesis \in Accepted(x)
  /\ \A t \in Made(x) \ {Genesis} :
       x[t].parent \in Made(x) /\ x[t].gen = x[x[t].parent].gen + 1
  /\ Closed(x, Accepted(x))
  /\ \A s, t \in Live(x) : x[s].gen = x[t].gen => s = t

\* The invariant says that the wallet's transactions are a tree.
LEMMA TreeIs ==
  /\ IInv => Tree(tx)
  /\ IInv' => Tree(tx')
BY MaxTxAssumption DEF IInv, TruthInv, TypeInv, StoreInv, ChainInv, RecordInv, WalletInv, GenesisInv, Linked, Rooted,
   Unique, Tree, Closed, Accepted, Genesis, TxIds

\* Kinds of transactions.
LEMMA Kinds ==
  ASSUME NEW x, Tree(x)
  PROVE  /\ Accepted(x) \subseteq Live(x) /\ Live(x) \subseteq Made(x) /\ Made(x) \subseteq TxIds
         /\ NoTx \notin TxIds /\ Gens \subseteq Nat /\ \A t \in TxIds : x[t].gen \in Gens
         /\ Accepted(x) \subseteq Standing(x)
<1>1. /\ Accepted(x) \subseteq Live(x) /\ Live(x) \subseteq Made(x) /\ Made(x) \subseteq TxIds
  BY DEF Accepted, Live, Made
<1>2. /\ NoTx \notin TxIds /\ Gens \subseteq Nat /\ \A t \in TxIds : x[t].gen \in Gens
  BY MaxTxAssumption, MaxGenAssumption DEF NoTx, TxIds, Gens, Tree, Action
<1>3. Accepted(x) \subseteq Standing(x)
  BY <1>1, StandingIs DEF Tree
<1> QED BY <1>1, <1>2, <1>3

\* A closed set of transactions leaves no generation out.
LEMMA Contiguous ==
  ASSUME NEW x, Tree(x), NEW S, S \subseteq Made(x), Closed(x, S), NEW t \in S,
         NEW g \in Nat, g <= x[t].gen
  PROVE  \E u \in S : x[u].gen = g
<1>1. \A u \in S : x[u].gen \in Nat
  BY Kinds
<1>2. \A u \in S : x[u].gen # 0 => /\ x[u].parent \in S
                                   /\ x[u].gen = x[x[u].parent].gen + 1
  BY Kinds DEF Tree, Closed
<1> DEFINE D == {d \in Nat : d <= x[t].gen /\ \A u \in S : x[u].gen # x[t].gen - d}
<1>3. SUFFICES ASSUME \A u \in S : x[u].gen # g
               PROVE  FALSE
  OBVIOUS
<1>4. x[t].gen - g \in D
  BY <1>1, <1>3
<1>5. PICK d \in D : \A e \in D : d <= e
  <2> HIDE DEF D
  <2>1. D \subseteq Nat
    BY DEF D
  <2> QED BY <1>4, <2>1, LeastExists
<1>6. d # 0 /\ d \in Nat /\ d - 1 \in Nat /\ d - 1 \notin D
  BY <1>1, <1>5
<1>7. PICK u \in S : x[u].gen = x[t].gen - (d - 1)
  BY <1>1, <1>5, <1>6
<1>8. x[u].gen # 0 /\ x[x[u].parent].gen = x[t].gen - d
  <2>1. x[u].gen # 0
    BY <1>1, <1>5, <1>6, <1>7
  <2>2. x[u].parent \in S /\ x[u].gen = x[x[u].parent].gen + 1
    BY <1>2, <2>1
  <2> QED BY <1>1, <1>6, <1>7, <2>1, <2>2
<1> QED BY <1>2, <1>5, <1>8

\* The end of the chain is the greatest generation at which something stands.
LEMMA EndIs ==
  ASSUME Tree(tx)
  PROVE  /\ \E t \in Standing(tx) : tx[t].gen = Chain!End
         /\ \A t \in Standing(tx) : tx[t].gen <= Chain!End
<1> DEFINE gens == {p[1] : p \in standing}
<1>1. Chain!End = Newest(gens)
  BY DEF Chain!End, Newest
<1>2. /\ \A t \in Standing(tx) : tx[t].gen \in gens
      /\ \A g \in gens : \E t \in Standing(tx) : g = tx[t].gen
  <2>1. \A t \in Standing(tx) : <<tx[t].gen, t>>[1] = tx[t].gen
    OBVIOUS
  <2>2. \A p \in standing : p[1] \in gens
    OBVIOUS
  <2>3. \A t \in Standing(tx) : tx[t].gen \in gens
    BY <2>1, <2>2, StandingPairs
  <2>4. \A g \in gens : \E t \in Standing(tx) : g = tx[t].gen
    BY <2>1, StandingPairs
  <2> QED BY <2>3, <2>4
<1> HIDE DEF gens
<1>3. Genesis \in Standing(tx) /\ gens \subseteq Gens /\ Standing(tx) \subseteq TxIds
  BY <1>2, Kinds, StandingIs DEF Tree
<1>4. Newest(gens) \in gens /\ \A h \in gens : h <= Newest(gens)
  <2>1. gens # {} /\ gens \subseteq 0 .. MaxGen /\ MaxGen \in Nat
    BY <1>2, <1>3, MaxGenAssumption DEF Gens
  <2> QED BY <2>1, NewestIn
<1> QED BY <1>1, <1>2, <1>4

\* The network has taken one transaction of each generation up to the newest.
LEMMA TakenIs ==
  ASSUME NEW x, Tree(x)
  PROVE  /\ \E t \in Accepted(x) : x[t].gen = Newest({x[u].gen : u \in Accepted(x)})
         /\ \A t \in Accepted(x) : x[t].gen <= Newest({x[u].gen : u \in Accepted(x)})
<1> DEFINE gens == {x[u].gen : u \in Accepted(x)}
<1>1. /\ \A t \in Accepted(x) : x[t].gen \in gens
      /\ \A g \in gens : \E t \in Accepted(x) : g = x[t].gen
  OBVIOUS
<1> HIDE DEF gens
<1>2. gens # {} /\ gens \subseteq 0 .. MaxGen /\ MaxGen \in Nat
  BY <1>1, Kinds, MaxGenAssumption DEF Gens, Tree
<1>3. Newest(gens) \in gens /\ \A h \in gens : h <= Newest(gens)
  BY <1>2, NewestIn
<1>4. /\ \E t \in Accepted(x) : x[t].gen = Newest(gens)
      /\ \A t \in Accepted(x) : x[t].gen <= Newest(gens)
  BY <1>1, <1>3
<1> QED BY <1>4 DEF gens

\* The wallet assembles an action: nothing is signed, so the chain is as it was.
LEMMA CreateRefines ==
  ASSUME IInv, CreateAction
  PROVE  standing' = standing /\ takenTo' = takenTo
<1>1. /\ tx[cur'].st = "none" /\ \A u \in TxIds \ {cur'} : tx'[u] = tx[u]
      /\ Live(tx') = Live(tx) /\ Accepted(tx') = Accepted(tx)
  BY CreateAdds DEF IInv
<1>2. \A u \in Live(tx) : tx'[u] = tx[u]
  BY <1>1 DEF Live
<1>3. Standing(tx') = Standing(tx)
  BY <1>1, <1>2 DEF Standing
<1>4. Accepted(tx) \subseteq Live(tx) /\ Standing(tx) \subseteq Live(tx)
  BY StandingIs DEF Accepted, Live
<1>5. {tx'[t].gen : t \in Accepted(tx')} = {tx[t].gen : t \in Accepted(tx)}
  BY <1>1, <1>2, <1>4
<1> QED BY <1>2, <1>3, <1>4, <1>5, StandingSame DEF takenTo

\* What the network says changes the state of one transaction.
LEMMA NetworkChanges ==
  ASSUME IInv, Network
  PROVE  \E t \in Made(tx) :
           /\ \A u \in TxIds : tx'[u].gen = tx[u].gen /\ tx'[u].parent = tx[u].parent
           /\ \/ /\ tx[t].st = "sent" /\ Live(tx') = Live(tx) \ {t}
                 /\ Accepted(tx') = Accepted(tx)
              \/ /\ tx[t].st = "sent" /\ tx[t].parent \in Accepted(tx)
                 /\ Live(tx') = Live(tx) /\ Accepted(tx') = Accepted(tx) \cup {t}
              \/ Live(tx') = Live(tx) /\ Accepted(tx') = Accepted(tx)
<1>1. TruthInv /\ TypeInv
  BY DEF IInv, TruthInv
<1>2. ~SignAction /\ ~SignActionFails
  <2>1. UNCHANGED <<pc, rows, starved>>
    BY DEF Network, Accept, Mine, Refuse, workerVars, memVars
  <2>2. (SignAction \/ SignActionFails) => pc = "sign" /\ pc' # "sign"
    BY DEF SignAction, SignActionFails, Done
  <2> QED BY <2>1, <2>2
<1>3. PICK t \in Made(tx), s \in TxState \ {"none"} :
        /\ \/ tx' = [tx EXCEPT ![t].st = s]
           \/ \E b \in TxIds : tx' = [tx EXCEPT ![t].st = s, ![t].by = b]
        /\ \/ tx[t].st = "sent" /\ s = "refused"
           \/ tx[t].st = "sent" /\ s = "seen" /\ tx[t].parent \in Accepted(tx)
           \/ tx[t].st = "seen" /\ s = "mined"
  BY <1>1, <1>2, StateChanges
<1>4. /\ \A u \in TxIds : tx'[u].gen = tx[u].gen /\ tx'[u].parent = tx[u].parent
      /\ tx'[t].st = s /\ \A u \in TxIds \ {t} : tx'[u] = tx[u]
  BY <1>1, <1>3, StateKeeps
<1>5. t \in TxIds
  BY DEF Made
<1>6. CASE s = "refused"
  BY <1>3, <1>4, <1>5, <1>6 DEF Live, Accepted
<1>7. CASE s = "seen"
  BY <1>3, <1>4, <1>5, <1>7 DEF Live, Accepted
<1>8. CASE s = "mined"
  BY <1>3, <1>4, <1>5, <1>8 DEF Live, Accepted
<1> QED BY <1>3, <1>4, <1>6, <1>7, <1>8

\* Where only generations and parents are as they were, what stands and what is
\* taken depend on the states alone.
LEMMA SameTree ==
  ASSUME \A u \in TxIds : tx'[u].gen = tx[u].gen /\ tx'[u].parent = tx[u].parent
  PROVE  /\ \A S \in SUBSET TxIds : Closed(tx', S) <=> Closed(tx, S)
         /\ Live(tx') = Live(tx) => standing' = standing
         /\ Accepted(tx') = Accepted(tx) => takenTo' = takenTo
<1>1. \A S \in SUBSET TxIds : Closed(tx', S) <=> Closed(tx, S)
  BY DEF Closed
<1>2. Live(tx) \subseteq TxIds /\ Accepted(tx) \subseteq TxIds /\ Live(tx') \subseteq TxIds
  BY DEF Live, Accepted
<1>3. ASSUME Live(tx') = Live(tx) PROVE standing' = standing
  <2>1. /\ Standing(tx) \subseteq TxIds /\ Standing(tx') \subseteq TxIds
        /\ Standing(tx) \subseteq Live(tx) /\ Standing(tx') \subseteq Live(tx')
        /\ Closed(tx, Standing(tx)) /\ Closed(tx', Standing(tx'))
    BY <1>2, StandingIs
  <2>2. Standing(tx) \subseteq Standing(tx')
    BY <1>1, <1>3, <2>1, StandingIs
  <2>3. Standing(tx') \subseteq Standing(tx)
    BY <1>1, <1>3, <2>1, StandingIs
  <2> QED BY <2>1, <2>2, <2>3, StandingSame
<1>4. ASSUME Accepted(tx') = Accepted(tx) PROVE takenTo' = takenTo
  <2>1. {tx'[t].gen : t \in Accepted(tx')} = {tx[t].gen : t \in Accepted(tx)}
    BY <1>2, <1>4
  <2> QED BY <2>1 DEF takenTo
<1> QED BY <1>1, <1>3, <1>4

\* The network takes the transaction after the last it took.
LEMMA TakeRefines ==
  ASSUME Tree(tx), Tree(tx'),
         \A u \in TxIds : tx'[u].gen = tx[u].gen /\ tx'[u].parent = tx[u].parent,
         NEW t \in Made(tx), tx[t].parent \in Accepted(tx),
         Live(tx') = Live(tx), Accepted(tx') = Accepted(tx) \cup {t}
  PROVE  Chain!Next \/ UNCHANGED Chain!vars
<1>1. standing' = standing
  BY SameTree
<1>2. /\ \A a \in Accepted(tx) : tx[a].gen <= takenTo
      /\ \E a \in Accepted(tx) : tx[a].gen = takenTo
  BY TakenIs DEF takenTo
<1>3. /\ \A a \in Accepted(tx') : tx[a].gen <= takenTo'
      /\ \E a \in Accepted(tx') : tx[a].gen = takenTo'
  <2>1. /\ \A a \in Accepted(tx') : tx'[a].gen <= takenTo'
        /\ \E a \in Accepted(tx') : tx'[a].gen = takenTo'
    BY TakenIs DEF takenTo
  <2> QED BY <2>1 DEF Accepted
<1>4. /\ t \in TxIds /\ Accepted(tx) \subseteq TxIds /\ \A u \in TxIds : tx[u].gen \in Nat
      /\ tx[t].parent # NoTx
  BY Kinds
<1>5. tx[t].gen <= takenTo + 1 /\ takenTo \in Nat
  <2>1. tx[t].gen = tx[tx[t].parent].gen + 1
    BY <1>4 DEF Tree
  <2> QED BY <1>2, <1>4, <2>1
<1>6. takenTo' = takenTo \/ (takenTo' = takenTo + 1 /\ tx[t].gen = takenTo + 1)
  BY <1>2, <1>3, <1>4, <1>5
<1>7. CASE takenTo' = takenTo
  BY <1>1, <1>7 DEF Chain!vars
<1>8. CASE takenTo' = takenTo + 1 /\ tx[t].gen = takenTo + 1
  <2>1. t \in Standing(tx)
    <3>1. t \in Standing(tx')
      BY Kinds
    <3>2. Standing(tx') \in SUBSET Live(tx) /\ Closed(tx, Standing(tx'))
      BY SameTree, StandingIs DEF Live
    <3> QED BY <3>1, <3>2, StandingIs
  <2>2. tx[t].gen <= Chain!End /\ Chain!End \in Nat
    BY <1>4, <2>1, EndIs, StandingIs DEF Live
  <2>3. Chain!Take
    BY <1>1, <1>5, <1>8, <2>2 DEF Chain!Take
  <2> QED BY <2>3 DEF Chain!Next
<1> QED BY <1>6, <1>7, <1>8

\* A refusal takes away the transaction and what stands on it.
LEMMA RefuseRefines ==
  ASSUME Tree(tx), Tree(tx'),
         \A u \in TxIds : tx'[u].gen = tx[u].gen /\ tx'[u].parent = tx[u].parent,
         NEW t \in Made(tx), tx[t].st = "sent",
         Live(tx') = Live(tx) \ {t}, Accepted(tx') = Accepted(tx)
  PROVE  Chain!Next \/ UNCHANGED Chain!vars
<1> DEFINE S == Standing(tx)
           T == Standing(tx')
<1>1. takenTo' = takenTo
  BY SameTree
<1>2. /\ t \in Live(tx) /\ t \notin Accepted(tx) /\ S \subseteq TxIds /\ T \subseteq TxIds
      /\ \A u \in TxIds : tx[u].gen \in Nat /\ tx'[u].gen = tx[u].gen
      /\ S \subseteq Live(tx) /\ T \subseteq Live(tx') /\ Live(tx) \subseteq Made(tx)
      /\ Closed(tx, S) /\ Closed(tx, T)
  <2>1. t \in Live(tx) /\ t \notin Accepted(tx)
    BY DEF Made, Live, Accepted
  <2>2. S \subseteq TxIds /\ T \subseteq TxIds /\ S \subseteq Live(tx) /\ T \subseteq Live(tx')
    BY StandingIs DEF Live
  <2>3. Closed(tx, S) /\ Closed(tx, T)
    BY <2>2, SameTree, StandingIs
  <2> QED BY <2>1, <2>2, <2>3, Kinds
<1> HIDE DEF S, T
<1>3. T \subseteq S
  BY <1>2, StandingIs DEF S
<1>4. CASE t \notin S
  <2>1. S \subseteq Live(tx') /\ Closed(tx', S)
    BY <1>2, <1>4, SameTree
  <2>2. S = T
    BY <1>3, <2>1, StandingIs DEF T
  <2> QED BY <1>1, <1>2, <2>2, StandingSame DEF Chain!vars, S, T
<1>5. CASE t \in S
  <2> DEFINE g == tx[t].gen
             B == {u \in S : tx[u].gen < g}
  <2>1. g \in Nat /\ \A u \in S : tx[u].gen = g => u = t
    BY <1>2, <1>5 DEF Tree
  <2>2. takenTo < g /\ takenTo \in Nat
    <3>1. SUFFICES ASSUME NEW a \in Accepted(tx), g <= tx[a].gen PROVE FALSE
      BY <1>2, <2>1, TakenIs, Kinds DEF takenTo
    <3>2. Accepted(tx) \subseteq Made(tx) /\ Closed(tx, Accepted(tx))
      BY Kinds DEF Tree
    <3>3. PICK u \in Accepted(tx) : tx[u].gen = g
      BY <2>1, <3>1, <3>2, Contiguous
    <3> QED BY <1>2, <3>3, Kinds DEF Tree
  <2>3. g <= Chain!End /\ Chain!End \in Nat
    BY <1>2, <1>5, EndIs DEF S
  <2>4. B \subseteq T
    <3>1. B \subseteq Live(tx')
      BY <1>2, <2>1
    <3>2. Closed(tx', B)
      <4> SUFFICES ASSUME NEW u \in B, tx[u].parent # NoTx PROVE tx[u].parent \in B
        BY <1>2 DEF Closed
      <4>1. u # Genesis /\ tx[u].parent \in S
        BY <1>2 DEF Closed, Tree
      <4>2. tx[u].gen = tx[tx[u].parent].gen + 1
        BY <1>2, <4>1 DEF Tree
      <4> QED BY <1>2, <2>1, <4>1, <4>2
    <3> HIDE DEF B
    <3> QED BY <3>1, <3>2, StandingIs DEF T
  <2>5. T \subseteq B
    <3> SUFFICES ASSUME NEW u \in T, g <= tx[u].gen PROVE FALSE
      BY <1>2, <1>3, <2>1
    <3>1. T \subseteq Made(tx)
      BY <1>2
    <3>2. PICK v \in T : tx[v].gen = g
      BY <1>2, <2>1, <3>1, Contiguous
    <3> QED BY <1>2, <1>3, <2>1, <3>2
  <2>6. standing' = {p \in standing : p[1] < g}
    <3> HIDE DEF g
    <3>1. \A u \in TxIds : <<tx[u].gen, u>>[1] = tx[u].gen
      OBVIOUS
    <3>2. \A p \in standing' : p \in standing /\ p[1] < g
      <4> SUFFICES ASSUME NEW p \in standing' PROVE p \in standing /\ p[1] < g
        OBVIOUS
      <4>1. PICK u \in T : p = <<tx'[u].gen, u>>
        BY StandingPairs DEF T
      <4>2. u \in S /\ tx[u].gen < g /\ p = <<tx[u].gen, u>>
        BY <1>2, <2>5, <4>1
      <4> QED BY <4>2, StandingPairs DEF S
    <3>3. \A p \in standing : p[1] < g => p \in standing'
      <4> SUFFICES ASSUME NEW p \in standing, p[1] < g PROVE p \in standing'
        OBVIOUS
      <4>1. PICK u \in S : p = <<tx[u].gen, u>>
        BY StandingPairs DEF S
      <4>2. u \in T /\ p = <<tx'[u].gen, u>>
        BY <1>2, <2>4, <4>1
      <4> QED BY <4>2, StandingPairs DEF T
    <3> QED BY <3>2, <3>3
  <2>7. Chain!Refuse(g)
    BY <1>1, <2>1, <2>2, <2>3, <2>6 DEF Chain!Refuse
  <2>8. g \in 0 .. MaxGen
    BY <1>2, Kinds DEF Gens
  <2> QED BY <2>7, <2>8 DEF Chain!Next
<1> QED BY <1>4, <1>5

\* Each answer of the network is a step of the chain, or none.
LEMMA NetworkRefines ==
  ASSUME Tree(tx), Tree(tx'), IInv, Network
  PROVE  Chain!Next \/ UNCHANGED Chain!vars
<1>1. PICK t \in Made(tx) :
        /\ \A u \in TxIds : tx'[u].gen = tx[u].gen /\ tx'[u].parent = tx[u].parent
        /\ \/ /\ tx[t].st = "sent" /\ Live(tx') = Live(tx) \ {t}
              /\ Accepted(tx') = Accepted(tx)
           \/ /\ tx[t].st = "sent" /\ tx[t].parent \in Accepted(tx)
              /\ Live(tx') = Live(tx) /\ Accepted(tx') = Accepted(tx) \cup {t}
           \/ Live(tx') = Live(tx) /\ Accepted(tx') = Accepted(tx)
  BY NetworkChanges
<1>2. CASE Live(tx') = Live(tx) /\ Accepted(tx') = Accepted(tx)
  BY <1>1, <1>2, SameTree DEF Chain!vars
<1> QED BY <1>1, <1>2, TakeRefines, RefuseRefines

\* Signing extends the chain, if what it was built on still stands: otherwise
\* nothing comes to stand.
LEMMA SignRefines ==
  ASSUME Tree(tx), IInv, SignAction
  PROVE  Chain!Next \/ UNCHANGED Chain!vars
<1> DEFINE S == Standing(tx)
           T == Standing(tx')
<1>1. TypeInv /\ SigningPlace /\ pc = "sign" /\ Flight
  BY DEF IInv, TruthInv, SignAction, ChainInv, ControlInv
<1>2. /\ cur \in TxIds /\ tx[cur].st = "created" /\ tx[cur].gen = Next1 /\ tx[cur].parent = base
      /\ Gen(base) < MaxGen /\ base # NoTx /\ \A t \in Live(tx) : tx[t].gen <= Gen(base)
  BY <1>1 DEF SigningPlace, Flight, InFlight, TypeInv, WorkerInv
<1>3. /\ \A u \in TxIds : tx'[u].gen = tx[u].gen /\ tx'[u].parent = tx[u].parent
      /\ tx'[cur].st = "sent" /\ \A u \in TxIds \ {cur} : tx'[u] = tx[u]
  <2>1. cur \in Made(tx)
    BY <1>2 DEF Made
  <2>2. "sent" \in TxState \ {"none"} /\ tx' = [tx EXCEPT ![cur].st = "sent"]
    BY DEF SignAction, TxState
  <2> QED BY <1>1, <2>1, <2>2, StateKeeps
<1>4. /\ Live(tx') = Live(tx) \cup {cur} /\ Accepted(tx') = Accepted(tx) /\ cur \notin Live(tx)
  BY <1>2, <1>3 DEF Live, Accepted
<1>5. takenTo' = takenTo
  BY <1>3, <1>4, SameTree
<1>6. /\ base \in Made(tx) /\ base \in TxIds /\ Gen(base) = tx[base].gen
      /\ tx[cur].gen = tx[base].gen + 1
      /\ \A u \in TxIds : tx[u].gen \in Nat /\ tx'[u].gen = tx[u].gen
  <2>1. cur \in Made(tx) \ {Genesis}
    BY <1>1, <1>2 DEF Made, Tree, Accepted
  <2>2. base \in Made(tx) /\ tx[cur].gen = tx[base].gen + 1
    BY <1>2, <2>1 DEF Tree
  <2> QED BY <1>3, <2>2, GenIs, Kinds
<1>7. /\ S \subseteq TxIds /\ T \subseteq TxIds /\ S \subseteq Live(tx) /\ T \subseteq Live(tx')
      /\ Closed(tx, S) /\ Closed(tx, T)
  <2>1. S \subseteq TxIds /\ T \subseteq TxIds /\ S \subseteq Live(tx) /\ T \subseteq Live(tx')
    BY StandingIs DEF Live
  <2> QED BY <1>3, <2>1, SameTree, StandingIs
<1> HIDE DEF S, T
<1>8. S \subseteq T
  <2>1. Closed(tx', S)
    BY <1>3, <1>7, SameTree
  <2> QED BY <1>4, <1>7, <2>1, StandingIs DEF T
<1>9. T \ {cur} \subseteq S
  <2>1. Closed(tx, T \ {cur})
    <3> SUFFICES ASSUME NEW u \in T \ {cur}, tx[u].parent = cur PROVE FALSE
      BY <1>7 DEF Closed
    <3>1. u \in Live(tx) /\ u \in Made(tx) /\ u # Genesis
      BY <1>2, <1>4, <1>7, Kinds DEF Tree
    <3>2. tx[u].gen = tx[cur].gen + 1
      BY <3>1 DEF Tree
    <3> QED BY <1>2, <1>6, <3>1, <3>2, Kinds
  <2> QED BY <1>4, <1>7, <2>1, StandingIs DEF S
<1>10. CASE base \notin S
  <2>1. cur \notin T
    <3>1. base # cur /\ tx[cur].parent = base /\ base # NoTx
      BY <1>2, <1>6
    <3> QED BY <1>7, <1>9, <1>10, <3>1 DEF Closed
  <2>2. S = T
    BY <1>8, <1>9, <2>1
  <2> QED BY <1>3, <1>5, <1>7, <2>2, StandingSame DEF Chain!vars, S, T
<1>11. CASE base \in S
  <2>1. T = S \cup {cur}
    <3>1. Closed(tx', S \cup {cur})
      BY <1>2, <1>3, <1>7, <1>11 DEF Closed
    <3>2. cur \in T
      BY <1>4, <1>7, <3>1, StandingIs DEF T
    <3> QED BY <1>8, <1>9, <3>2
  <2>2. Chain!End = tx[base].gen /\ tx[base].gen \in Nat
    <3>1. /\ \E t \in S : tx[t].gen = Chain!End
          /\ \A t \in S : tx[t].gen <= Chain!End
      BY EndIs DEF S
    <3>2. \A t \in S : tx[t].gen <= tx[base].gen /\ tx[t].gen \in Nat
      BY <1>2, <1>6, <1>7
    <3> QED BY <1>6, <1>11, <3>1, <3>2
  <2>3. standing' = standing \cup {<<Chain!End + 1, cur>>}
    <3>1. \A p \in standing' : p \in standing \/ p = <<Chain!End + 1, cur>>
      <4> SUFFICES ASSUME NEW p \in standing' PROVE p \in standing \/ p = <<Chain!End + 1, cur>>
        OBVIOUS
      <4>1. PICK u \in T : p = <<tx'[u].gen, u>>
        BY StandingPairs DEF T
      <4>2. p = <<tx[u].gen, u>> /\ (u \in S \/ u = cur)
        BY <1>6, <1>7, <2>1, <4>1
      <4> QED BY <1>6, <2>2, <4>2, StandingPairs DEF S
    <3>2. \A p \in standing : p \in standing'
      <4> SUFFICES ASSUME NEW p \in standing PROVE p \in standing'
        OBVIOUS
      <4>1. PICK u \in S : p = <<tx[u].gen, u>>
        BY StandingPairs DEF S
      <4>2. u \in T /\ p = <<tx'[u].gen, u>>
        BY <1>6, <1>7, <1>8, <4>1
      <4> QED BY <4>2, StandingPairs DEF T
    <3>3. <<Chain!End + 1, cur>> \in standing'
      <4>1. cur \in T /\ tx'[cur].gen = Chain!End + 1
        BY <1>2, <1>6, <2>1, <2>2
      <4> QED BY <4>1, StandingPairs DEF T
    <3> QED BY <3>1, <3>2, <3>3
  <2>4. \A p \in standing : p[2] # cur
    <3>1. \A u \in TxIds : <<tx[u].gen, u>>[2] = u
      OBVIOUS
    <3> QED BY <1>4, <1>7, <3>1, StandingPairs DEF S
  <2>5. Chain!Extend(cur)
    BY <1>2, <1>5, <1>6, <2>2, <2>3, <2>4 DEF Chain!Extend
  <2> QED BY <1>2, <2>5 DEF Chain!Next
<1> QED BY <1>10, <1>11

\* The worker, the status pipeline, the lease, the repairs and the crashes
\* together implement the chain: every step signs one transaction on the end of
\* what stands, takes or refuses one, or leaves what stands as it is.
THEOREM EngineImplementsChain ==
  ASSUME Undisturbed
  PROVE  Spec => ImplementsChain
<1>1. Init => Chain!Init
  <2> SUFFICES ASSUME Init PROVE Chain!Init
    OBVIOUS
  <2>1. Tree(tx)
    BY IInit, TreeIs
  <2>2. /\ Live(tx) = {Genesis} /\ Accepted(tx) = {Genesis} /\ Genesis \in TxIds
        /\ tx[Genesis].gen = 0
    BY MaxTxAssumption DEF Init, Live, Accepted, TxIds, Genesis
  <2>3. Standing(tx) = {Genesis}
    BY <2>1, <2>2, Kinds, StandingIs
  <2>4. standing = {<<0, Genesis>>}
    BY <2>2, <2>3 DEF standing
  <2>5. takenTo = 0
    BY <2>1, <2>2, TakenIs DEF takenTo
  <2> QED BY <2>2, <2>4, <2>5 DEF Chain!Init
<1>2. IInv /\ IInv' /\ [Next]_vars => [Chain!Next]_(Chain!vars)
  <2> SUFFICES ASSUME IInv, IInv', [Next]_vars PROVE Chain!Next \/ UNCHANGED Chain!vars
    OBVIOUS
  <2>1. Tree(tx) /\ Tree(tx')
    BY TreeIs
  <2>2. CASE UNCHANGED tx
    BY <2>2 DEF Chain!vars, standing, takenTo, Standing, Live, Accepted
  <2>3. CASE CreateAction
    BY <2>3, CreateRefines DEF Chain!vars
  <2>4. CASE Network
    BY <2>1, <2>4, NetworkRefines
  <2>5. CASE SignAction
    BY <2>1, <2>5, SignRefines
  <2>6. CASE UNCHANGED vars
    BY <2>2, <2>6 DEF vars
  <2> QED BY <2>2, <2>3, <2>4, <2>5, <2>6, NotTaken, TxChanges
<1> QED BY <1>1, <1>2, IInit, INext, PTL DEF Spec, ImplementsChain, Chain!Spec

-----------------------------------------------------------------------------
(***************************************************************************)
(* How far a cell builds ahead of the network, and what a halt keeps.      *)
(*                                                                         *)
(* The frontier a cell is measured against is kept in memory, and starts   *)
(* again wherever a derivation puts it.  The bounds therefore hold of a    *)
(* process that derives its tips once, over a chain that is the genesis    *)
(* (Uninterrupted), and of one that derives them at any time over a chain  *)
(* nothing is ever taken out of (Unrefused).                               *)
(***************************************************************************)
Uninterrupted == Events \cap {"crash", "reacquire"} = {}

\* Until its tips have been derived, such a process has nothing but the genesis.
Fresh ==
  needsRederive =>
    /\ pc \in {"down", "idle", "gate"} /\ tip = Genesis /\ ~halted /\ ~needsRepair
    /\ Made(tx) = {Genesis} /\ tx[Genesis].gen = 0 /\ tx[Genesis].st = "mined"
    /\ rows[0].txid = Genesis /\ rows[0].status \in Settled
    /\ \A g \in Gens \ {0} : rows[g] = NoRow
    /\ rederiving => derived.tip = Genesis /\ ~derived.halted /\ ~Considered(derived)

Once ==
  /\ leader \/ rederiving => pc # "down"
  /\ ~needsRederive => ~rederiving /\ pc # "down"

FreshInv == Fresh /\ Once

\* What derivation finds over the genesis.
LEMMA DeriveFresh ==
  ASSUME rows[0].txid = Genesis, rows[0].status \in Settled,
         \A g \in Gens \ {0} : rows[g] = NoRow
  PROVE  LET p == DeriveTip(rows) IN p.tip = Genesis /\ ~p.halted /\ ~Considered(p)
<1>1. 0 \in Gens /\ NoRow.status = "none" /\ NoTx # Genesis /\ Gens \subseteq Nat
  BY MaxGenAssumption, MaxTxAssumption DEF Gens, NoRow, NoTx, Genesis
<1>2. SettledIn(rows, Gens) = {0}
  BY <1>1 DEF SettledIn, Settled
<1>3. TipRow(rows) = 0
  BY <1>2, TipRowIn
<1>4. Over(rows, "attempting") = {} /\ Over(rows, "failed") = {}
  <2>1. \A g \in Gens : g > 0 => rows[g].status = "none"
    <3>1. \A g \in Gens : g > 0 => g \in Gens \ {0}
      BY <1>1
    <3> QED BY <1>1, <3>1
  <2> QED BY <1>3, <2>1 DEF Over
<1> QED BY <1>2, <1>3, <1>4, DeriveTipReads DEF Reads, Considered

\* At the start the wallet has the genesis and nothing else, and the process is down.
LEMMA FreshInit == Init => FreshInv
<1> SUFFICES ASSUME Init PROVE FreshInv
  OBVIOUS
<1>1. Genesis \in TxIds /\ 0 \in Gens
  BY MaxTxAssumption, MaxGenAssumption DEF TxIds, Genesis, Gens
<1>2. Made(tx) = {Genesis}
  BY <1>1 DEF Init, Made
<1> QED BY <1>1, <1>2 DEF Init, FreshInv, Fresh, Once, Row, NoRow, Settled

\* Only the lease's goroutine, and a crash, touch what the lease is known by.
LEMMA LeaseChanges ==
  ASSUME Next
  PROVE  Crash \/ Lease \/ UNCHANGED leaseVars
BY DEF Next, New, Worker, Park, Look, TakeTurn, Wait, Intent, CreateAction, CreateActionFails,
       FailBeforeSigning, SignAction, SignActionFails, Done, Record, Persist, NotBroadcast,
       SigningFailed, StartRepair, RepairDerive, AdoptDerived, RepairDecide,
       Network, Accept, Mine, Refuse, StatusPipeline, WriteStatus, OnStatus, Reconcile,
       ApplyStatus, FetchReason, OperatorRecover, StandbyRepair, RecoverOnce, RingStarvation

\* Until the derivation is done no step builds, repairs or is refused anything.
LEMMA FreshNext ==
  ASSUME Uninterrupted, TruthInv, FreshInv, Next
  PROVE  FreshInv'
<1> USE DEF FreshInv
<1>1. CASE ~needsRederive
  <2>1. ~rederiving /\ pc # "down"
    BY <1>1 DEF Once
  <2>2. ~needsRederive' /\ ~rederiving'
    <3>1. (~Crash /\ ~Lease) \/ UNCHANGED <<needsRederive, rederiving>>
      BY <1>1, <2>1 DEF Uninterrupted, Crash, Lease, AcquireLease, LoseLease, RederiveRead,
         RederiveApply
    <3> QED BY <1>1, <2>1, <3>1, LeaseChanges DEF leaseVars
  <2>3. pc' # "down"
    BY <2>1 DEF Uninterrupted, Next, New, Crash, Lease, AcquireLease, LoseLease,
       RederiveRead, RederiveApply, Worker, Park, Look, TakeTurn, Wait, Intent, CreateAction,
       CreateActionFails, FailBeforeSigning, SignAction, SignActionFails, Done, Record, Persist,
       NotBroadcast, SigningFailed, StartRepair, RepairDerive, AdoptDerived, RepairDecide,
       AdoptRepaired, RepairDone,
       Network, Accept, Mine, Refuse, StatusPipeline, WriteStatus, OnStatus, Reconcile,
       ApplyStatus, FetchReason, OperatorRecover, StandbyRepair, RecoverOnce, RingStarvation, workerVars
  <2> QED BY <2>2, <2>3 DEF Fresh, Once
<1>2. CASE needsRederive
  <2> USE <1>2 DEF Fresh
  <2>0. LET p == DeriveTip(rows) IN p.tip = Genesis /\ ~p.halted /\ ~Considered(p)
    BY DeriveFresh
  <2>1. /\ Worker => Look \/ Wait
        /\ ~OperatorRecover /\ ~StandbyRepair /\ ~Crash
    BY <2>0 DEF Uninterrupted, Crash, Worker, Park, TakeTurn, TurnReady, Intent, CreateAction,
       CreateActionFails, FailBeforeSigning, SignAction, SignActionFails, Record, Persist,
       NotBroadcast, SigningFailed, StartRepair, RepairDerive, AdoptDerived, RepairDecide,
       OperatorRecover, StandbyRepair, RecoverOnce
  <2>2. \A t \in TxIds : tx[t].st \in {"sent", "seen", "mined", "refused"} =>
                           t = Genesis /\ tx[t].st = "mined"
    BY DEF Made
  <2>3. ~Network /\ \A t \in TxIds : ~FetchReason(t)
    BY <2>2 DEF Network, Accept, Mine, Refuse, FetchReason
  <2>10. CASE Look \/ Wait
    <3>1. /\ pc # "down" /\ pc' \in {"idle", "gate"}
          /\ UNCHANGED <<durable, memVars, leaseVars>>
      BY <2>10 DEF Look, Wait
    <3> QED BY <3>1 DEF Once, durable, memVars, leaseVars
  <2>4. CASE New
    BY <2>0, <2>4 DEF New, ApplyPosition, Once, leaseVars, durable
  <2>5. CASE AcquireLease \/ LoseLease \/ RederiveRead
    <3>1. UNCHANGED <<rows, tx, pc, tip, halted, needsRepair>> /\ needsRederive'
      BY <2>5 DEF AcquireLease, LoseLease, RederiveRead, durable, workerVars, memVars
    <3>2. \/ UNCHANGED <<rederiving, derived>>
          \/ derived' = DeriveTip(rows) /\ pc # "down"
      BY <2>5 DEF AcquireLease, LoseLease, RederiveRead, Once
    <3>3. leader' => leader \/ pc # "down"
      BY <2>5 DEF AcquireLease, LoseLease, RederiveRead
    <3>4. Fresh'
      BY <2>0, <3>1, <3>2
    <3> QED BY <3>1, <3>2, <3>3, <3>4 DEF Once
  <2>6. CASE RederiveApply
    BY <2>6 DEF RederiveApply, Once, workerVars
  <2>7. CASE \E t \in TxIds : OnStatus(t) \/ Reconcile(t)
    <3>1. PICK t \in TxIds : OnStatus(t) \/ Reconcile(t)
      BY <2>7
    <3>2. PICK report \in Reports(t), bare \in BOOLEAN : ApplyStatus(t, report, bare)
      BY <3>1 DEF OnStatus, Reconcile
    <3>3. tx[t].st \in {"seen", "mined", "refused"}
      BY <3>2 DEF Reports
    <3>4. report # "failed"
      BY <2>2, <3>2, <3>3 DEF Reports
    <3> QED BY <3>2, <3>4 DEF ApplyStatus, Once, leaseVars, durable, workerVars
  <2>8. CASE WriteStatus
    <3> DEFINE u == Head(writes)
    <3>1. u.txid \in TxIds /\ u.status \in {"seen", "mined"}
      <4>1. writes \in Seq(CellTx) /\ writes # << >>
        BY <2>8 DEF WriteStatus, TruthInv, TypeInv, StatusInv
      <4>2. 1 \in 1 .. Len(writes) /\ u = writes[1]
        BY <4>1
      <4>3. ReportTrue(u)
        BY <4>2 DEF TruthInv, QueueTrue
      <4> HIDE DEF u
      <4> QED BY <2>2, <4>3 DEF ReportTrue
    <3>2. UNCHANGED rows \/ rows' = UpdateStatus(rows, u)
      BY <2>8 DEF WriteStatus
    <3> HIDE DEF u
    <3>3. 0 \in Gens /\ NoTx \notin TxIds /\ NoRow.txid = NoTx
      BY MaxGenAssumption, MaxTxAssumption DEF Gens, TxIds, NoTx, NoRow
    <3>4. /\ rows'[0].txid = Genesis /\ rows'[0].status \in Settled
          /\ \A g \in Gens \ {0} : rows'[g] = NoRow
      <4>1. \A g \in Gens \ {0} : rows[g].txid # u.txid
        BY <3>1, <3>3
      <4> QED BY <3>1, <3>2, <3>3, <4>1 DEF UpdateStatus, Settled, Row
    <3> QED BY <2>8, <3>4 DEF WriteStatus, Once, workerVars, memVars, leaseVars
  <2>9. CASE RingStarvation
    BY <2>9 DEF RingStarvation, Once, durable, workerVars, leaseVars
  <2> QED BY <2>1, <2>3, <2>4, <2>5, <2>6, <2>7, <2>8, <2>9, <2>10
       DEF Next, Lease, StatusPipeline
<1> QED BY <1>1, <1>2

-----------------------------------------------------------------------------
\* A transition on its way was let through by a gate: the frontier l was less
\* than m behind the tip it is built on.
Ahead(m, l) ==
  m > 0 => /\ pc = "turn" => Gen(tip) - l < m
           /\ pc \in {"create", "sign", "record"} => Gen(base) - l < m

AheadInv == ~starved /\ Ahead(MaxUnseen, lastSeen) /\ Ahead(MaxDeep, lastMined)

\* A depth below the word size is its own remainder, where it is not negative.
LEMMA Remainder ==
  ASSUME NEW d \in Int, NEW w \in Nat, d < w, w > 0
  PROVE  d >= 0 => d % w = d
OBVIOUS

\* The gates let a turn through only that far ahead, although the subtraction
\* of the depth gate wraps around.
LEMMA GatesOpen ==
  ASSUME TypeInv, TurnReady, ~starved
  PROVE  /\ MaxUnseen > 0 => Gen(tip) - lastSeen < MaxUnseen
         /\ MaxDeep > 0 => Gen(tip) - lastMined < MaxDeep
<1>1. /\ Gen(tip) \in Gens /\ lastSeen \in Gens /\ lastMined \in Gens
      /\ MaxUnseen \in Nat /\ MaxDeep \in Nat /\ WordSize \in Nat /\ WordSize > MaxGen
      /\ MaxGen \in Nat
  BY GenType, EngineAssumption, MaxGenAssumption DEF TypeInv, MemInv, StatusInv
<1>2. MaxUnseen > 0 => Gen(tip) - lastSeen < MaxUnseen
  BY <1>1 DEF TurnReady, UnseenGateOpen, Gens
<1>3. ASSUME MaxDeep > 0 PROVE Gen(tip) - lastMined < MaxDeep
  <2> DEFINE d == Gen(tip) - lastMined
  <2>1. d \in Int /\ d < WordSize /\ WordSize > 0
    BY <1>1 DEF Gens
  <2>2. d % WordSize < MaxDeep
    BY <1>3 DEF TurnReady, DepthGateOpen
  <2>3. d >= 0 => d % WordSize = d
    BY <1>1, <2>1, Remainder
  <2> QED BY <1>1, <1>3, <2>1, <2>2, <2>3
<1> QED BY <1>2, <1>3

\* Only a derivation moves a frontier back.
LEMMA FrontierKept ==
  ASSUME TypeInv, Next
  PROVE  \/ New \/ Crash \/ RederiveApply
         \/ lastSeen' >= lastSeen /\ lastMined' >= lastMined
<1>1. lastSeen \in Nat /\ lastMined \in Nat
  BY MaxGenAssumption DEF TypeInv, StatusInv, Gens
<1>2. CASE \E t \in TxIds : OnStatus(t) \/ Reconcile(t)
  <2>1. PICK t \in TxIds : OnStatus(t) \/ Reconcile(t)
    BY <1>2
  <2>2. PICK report \in Reports(t), bare \in BOOLEAN : ApplyStatus(t, report, bare)
    BY <2>1 DEF OnStatus, Reconcile
  <2>3. tx[t].gen \in Nat /\ Gen(t) = tx[t].gen
    BY GenIs, MaxGenAssumption DEF TypeInv, StoreInv, Action, Gens
  <2> QED BY <1>1, <2>2, <2>3 DEF ApplyStatus, Larger
<1>3. \/ New \/ Crash \/ RederiveApply \/ \E t \in TxIds : OnStatus(t) \/ Reconcile(t)
      \/ UNCHANGED <<lastSeen, lastMined>>
  BY DEF Next, Lease, AcquireLease, LoseLease, RederiveRead, Worker, Park, Look, TakeTurn, Wait, Intent,
     CreateAction, CreateActionFails, FailBeforeSigning, SignAction, SignActionFails, Done, Record,
     Persist, NotBroadcast, SigningFailed, StartRepair, RepairDerive, AdoptDerived,
     RepairDecide, Network, Accept, Mine, Refuse, StatusPipeline, WriteStatus, FetchReason,
     OperatorRecover, StandbyRepair, RecoverOnce, RingStarvation, statusVars
<1> QED BY <1>1, <1>2, <1>3

\* Where the worker is in a transition, and what over.
LEMMA PlaceKept ==
  ASSUME Next
  PROVE  \/ New \/ Crash \/ RederiveApply \/ TakeTurn \/ Intent
         \/ pc' \notin {"turn", "create", "sign", "record"}
         \/ /\ {pc, pc'} \subseteq {"create", "sign", "record"}
            /\ UNCHANGED base
         \/ UNCHANGED <<pc, base, tip>>
BY DEF Next, Lease, AcquireLease, LoseLease, RederiveRead, Worker, Park, Look, Wait,
     CreateAction, CreateActionFails, FailBeforeSigning, SignAction, SignActionFails, Done, Record,
     Persist, NotBroadcast, SigningFailed, StartRepair, RepairDerive, AdoptDerived,
     RepairDecide, AdoptRepaired, RepairDone,
     Network, Accept, Mine, Refuse, StatusPipeline, WriteStatus,
     OnStatus, Reconcile, ApplyStatus, FetchReason,
     OperatorRecover, StandbyRepair, RecoverOnce, RingStarvation, workerVars, memVars

\* Without a shortage of coin no cell is starved.
LEMMA FedNext ==
  ASSUME "funds" \notin Events, ~starved, Next
  PROVE  ~starved'
BY DEF Next, New, Crash, DownMemory, Lease, AcquireLease, LoseLease, RederiveRead,
     RederiveApply, Worker, Park, Look, TakeTurn, Wait, Intent,
     CreateAction, CreateActionFails, FailBeforeSigning, SignAction, SignActionFails, Done, Record,
     Persist, NotBroadcast, SigningFailed, StartRepair, RepairDerive, AdoptDerived,
     RepairDecide, Network, Accept, Mine, Refuse, StatusPipeline, WriteStatus,
     OnStatus, Reconcile, ApplyStatus, FetchReason,
     OperatorRecover, StandbyRepair, RecoverOnce, RingStarvation, workerVars, memVars

\* What a gate let through stays let through: a frontier only moves up, except
\* where a derivation puts it, and then no transition is on its way.
LEMMA AheadNext ==
  ASSUME TypeInv, TypeInv', AheadInv, "funds" \notin Events, Next,
         pc \in InFlight \cup {"turn"} => ~rederiving
  PROVE  AheadInv'
<1>1. ~starved'
  BY FedNext DEF AheadInv
<1>2. Grows
  BY NextGrows
<1>3. /\ tip \in Refs /\ base \in Refs /\ Gen(tip)' \in Int /\ Gen(base)' \in Int
      /\ lastSeen \in Nat /\ lastMined \in Nat /\ lastSeen' \in Nat /\ lastMined' \in Nat
      /\ MaxUnseen \in Nat /\ MaxDeep \in Nat /\ Gen(tip) \in Int /\ Gen(base) \in Int
  <2>1. Gens \subseteq Nat
    BY MaxGenAssumption DEF Gens
  <2>2. /\ Gen(tip) \in Gens /\ Gen(base) \in Gens
    BY GenType DEF TypeInv, MemInv, WorkerInv
  <2>3. Gen(tip)' \in Gens /\ Gen(base)' \in Gens
    BY MaxGenAssumption DEF TypeInv, MemInv, WorkerInv, StoreInv, Refs, Made, Gen, Gens, Action
  <2>4. tip \in Refs /\ base \in Refs
    BY DEF TypeInv, MemInv, WorkerInv
  <2>5. lastSeen \in Gens /\ lastMined \in Gens /\ lastSeen' \in Gens /\ lastMined' \in Gens
    BY DEF TypeInv, StatusInv
  <2>6. MaxUnseen \in Nat /\ MaxDeep \in Nat
    BY EngineAssumption
  <2>7. \A n \in Gens : n \in Nat /\ n \in Int
    BY <2>1
  <2>8. Gen(tip) \in Int /\ Gen(base) \in Int
    BY <2>2, <2>7
  <2>9. Gen(tip)' \in Int /\ Gen(base)' \in Int
    BY <2>3, <2>7
  <2>10. lastSeen \in Nat /\ lastMined \in Nat /\ lastSeen' \in Nat /\ lastMined' \in Nat
    BY <2>5, <2>7
  <2> QED BY <2>4, <2>6, <2>8, <2>9, <2>10
<1>4. /\ UNCHANGED tip => Gen(tip)' = Gen(tip)
      /\ UNCHANGED base => Gen(base)' = Gen(base)
      /\ base' = tip => Gen(base)' = Gen(tip)
  BY <1>2, <1>3 DEF Grows, Refs, Gen, Made
<1>5. CASE New \/ Crash \/ pc' \notin {"turn", "create", "sign", "record"}
  BY <1>1, <1>5 DEF New, Crash, AheadInv, Ahead
<1>6. CASE RederiveApply
  BY <1>1, <1>6 DEF RederiveApply, workerVars, AheadInv, Ahead, InFlight
<1>7. CASE lastSeen' >= lastSeen /\ lastMined' >= lastMined
  <2>1. CASE TakeTurn
    <3>1. pc' = "turn" /\ UNCHANGED tip
      BY <2>1 DEF TakeTurn, memVars
    <3>2. /\ MaxUnseen > 0 => Gen(tip) - lastSeen < MaxUnseen
          /\ MaxDeep > 0 => Gen(tip) - lastMined < MaxDeep
      BY <2>1, GatesOpen DEF TakeTurn, AheadInv
    <3> QED BY <1>1, <1>3, <1>4, <1>7, <3>1, <3>2 DEF AheadInv, Ahead
  <2>2. CASE Intent /\ pc' # "idle"
    <3>1. pc = "turn" /\ pc' = "create" /\ base' = tip
      BY <2>2 DEF Intent
    <3> QED BY <1>1, <1>3, <1>4, <1>7, <3>1 DEF AheadInv, Ahead
  <2>3. CASE {pc, pc'} \subseteq {"create", "sign", "record"} /\ UNCHANGED base
    BY <1>1, <1>3, <1>4, <1>7, <2>3 DEF AheadInv, Ahead
  <2>4. CASE UNCHANGED <<pc, base, tip>>
    BY <1>1, <1>3, <1>4, <1>7, <2>4 DEF AheadInv, Ahead
  <2> QED BY <1>5, <1>6, <2>1, <2>2, <2>3, <2>4, PlaceKept
<1> QED BY <1>5, <1>6, <1>7, FrontierKept

-----------------------------------------------------------------------------
(***************************************************************************)
(* A process that derives its tips once: every transaction the wallet has  *)
(* made is within the bounds of the frontiers, whichever of them is the    *)
(* tip.                                                                    *)
(***************************************************************************)
Near(x, m, l) == m > 0 => \A t \in Made(x) : x[t].gen - l <= m

BuiltInv ==
  /\ TruthInv /\ FreshInv /\ AheadInv
  /\ Near(tx, MaxUnseen, lastSeen) /\ Near(tx, MaxDeep, lastMined)

\* What a step adds to the wallet, if anything, is one past a transition's base.
LEMMA MadeNext ==
  ASSUME TruthInv, Next
  PROVE  \A t \in Made(tx') : \/ t \in Made(tx) /\ tx'[t].gen = tx[t].gen
                              \/ pc = "create" /\ tx'[t].gen = Gen(base) + 1
<1>1. CASE UNCHANGED tx
  BY <1>1
<1>2. CASE CreateAction
  <2>1. PICK n \in TxIds :
          tx' = [tx EXCEPT ![n] = [gen |-> Next1, parent |-> base,
                                   st |-> "created", by |-> NoTx]]
    BY <1>2 DEF CreateAction
  <2>2. tx'[n].gen = Next1 /\ \A u \in TxIds \ {n} : tx'[u] = tx[u]
    BY <2>1 DEF TruthInv, TypeInv, StoreInv
  <2> QED BY <1>2, <2>2 DEF CreateAction, Made, Next1, statusVars
<1>3. CASE SignAction \/ SignActionFails \/ Network
  <2>1. PICK t \in Made(tx), s \in TxState \ {"none"} :
          \/ tx' = [tx EXCEPT ![t].st = s]
          \/ \E b \in TxIds : tx' = [tx EXCEPT ![t].st = s, ![t].by = b]
    BY <1>3, StateChanges
  <2>2. Made(tx') = Made(tx) /\ \A u \in TxIds : tx'[u].gen = tx[u].gen
    BY <2>1, StateKeeps DEF TruthInv
  <2> QED BY <2>2 DEF Made
<1> QED BY <1>1, <1>2, <1>3, TxChanges

\* The bound of one frontier.
LEMMA NearNext ==
  ASSUME TruthInv, Next, NEW m \in Nat, NEW l \in Nat, NEW n \in Nat,
         n >= l, Near(tx, m, l), m > 0 /\ pc = "create" => Gen(base) - l < m
  PROVE  Near(tx', m, n)
<1> SUFFICES ASSUME m > 0, NEW t \in Made(tx')
             PROVE  tx'[t].gen - n <= m
  BY DEF Near
<1>1. CASE t \in Made(tx) /\ tx'[t].gen = tx[t].gen
  <2>1. tx[t].gen - l <= m /\ tx[t].gen \in Nat
    BY <1>1, MaxGenAssumption DEF Near, TruthInv, TypeInv, StoreInv, Action, Gens, Made
  <2> QED BY <1>1, <2>1
<1>2. CASE pc = "create" /\ tx'[t].gen = Gen(base) + 1
  <2>1. Gen(base) \in Nat
    BY GenType, MaxGenAssumption DEF TruthInv, TypeInv, WorkerInv, Gens
  <2> QED BY <1>2, <2>1
<1> QED BY <1>1, <1>2, MadeNext

\* Every step keeps the bounds of everything made.
LEMMA BuiltNext ==
  ASSUME Uninterrupted, "funds" \notin Events
  PROVE  BuiltInv /\ [Next]_vars => BuiltInv'
<1>1. ASSUME BuiltInv, UNCHANGED vars PROVE BuiltInv'
  <2>1. TruthInv'
    BY <1>1, TruthNext DEF BuiltInv
  <2> QED BY <1>1, <2>1 DEF BuiltInv, vars, FreshInv, Fresh, Once, AheadInv, Ahead, Gen
<1>2. ASSUME BuiltInv, Next PROVE BuiltInv'
  <2>1. TruthInv' /\ FreshInv'
    BY <1>2, TruthNext, FreshNext DEF BuiltInv
  <2>2. pc \in InFlight \cup {"turn"} => ~rederiving
    BY <1>2 DEF BuiltInv, FreshInv, Fresh, Once, InFlight
  <2>3. AheadInv'
    BY <1>2, <2>1, <2>2, AheadNext DEF BuiltInv, TruthInv
  <2>4. /\ lastSeen \in Nat /\ lastMined \in Nat /\ lastSeen' \in Nat /\ lastMined' \in Nat
        /\ MaxUnseen \in Nat /\ MaxDeep \in Nat
    <3>1. /\ lastSeen \in Gens /\ lastMined \in Gens
          /\ lastSeen' \in Gens /\ lastMined' \in Gens
      BY <1>2, <2>1 DEF BuiltInv, TruthInv, TypeInv, StatusInv
    <3> QED BY <3>1, MaxGenAssumption, EngineAssumption DEF Gens
  <2>5. CASE lastSeen' >= lastSeen /\ lastMined' >= lastMined
    BY <1>2, <2>1, <2>3, <2>4, <2>5, NearNext DEF BuiltInv, AheadInv, Ahead
  <2>6. CASE New \/ Crash \/ RederiveApply
    <3>1. ~Crash /\ UNCHANGED tx
      BY <2>6 DEF Uninterrupted, New, Crash, RederiveApply, durable
    <3>2. needsRederive
      BY <1>2, <2>6, <3>1 DEF BuiltInv, FreshInv, Once, New, RederiveApply
    <3>3. \A t \in Made(tx') : tx'[t].gen = 0
      BY <1>2, <3>1, <3>2 DEF BuiltInv, FreshInv, Fresh
    <3>4. Near(tx', MaxUnseen, lastSeen') /\ Near(tx', MaxDeep, lastMined')
      BY <2>4, <3>3 DEF Near
    <3> QED BY <2>1, <2>3, <3>4 DEF BuiltInv
  <2> QED BY <1>2, <2>5, <2>6, FrontierKept DEF BuiltInv, TruthInv
<1> QED BY <1>1, <1>2

\* At the start there is the genesis, at the frontiers.
LEMMA BuiltInit == Init => BuiltInv
<1> SUFFICES ASSUME Init PROVE BuiltInv
  OBVIOUS
<1>1. TruthInv /\ FreshInv
  BY TruthInit, FreshInit
<1>2. AheadInv
  BY DEF Init, AheadInv, Ahead
<1>3. lastSeen = 0 /\ lastMined = 0 /\ \A t \in Made(tx) : tx[t].gen = 0
  BY DEF Init, Made
<1>4. Near(tx, MaxUnseen, lastSeen) /\ Near(tx, MaxDeep, lastMined)
  BY <1>3, EngineAssumption DEF Near
<1> QED BY <1>1, <1>2, <1>4 DEF BuiltInv

\* The tip is one of them.
LEMMA BuiltBounds ==
  ASSUME BuiltInv
  PROVE  UnseenBounded /\ UnconfirmedBounded
<1>1. tip \in Refs /\ NoTx \notin TxIds /\ lastSeen \in Nat /\ lastMined \in Nat
  BY MaxGenAssumption, MaxTxAssumption
     DEF BuiltInv, TruthInv, TypeInv, MemInv, StatusInv, Gens, NoTx, TxIds
<1>2. CASE tip = NoTx
  BY <1>1, <1>2, EngineAssumption DEF UnseenBounded, UnconfirmedBounded, Gen
<1>3. CASE tip \in Made(tx)
  <2>1. Gen(tip) = tx[tip].gen
    BY <1>1, <1>3 DEF Gen, Made
  <2> QED BY <1>3, <2>1 DEF BuiltInv, Near, UnseenBounded, UnconfirmedBounded
<1> QED BY <1>1, <1>2, <1>3 DEF Refs

-----------------------------------------------------------------------------
(***************************************************************************)
(* A network that refuses nothing but what spends a spent output or a      *)
(* refused one: over a chain that is spent once it refuses nothing, so no  *)
(* row is ever marked failed and no repair ever runs.                      *)
(***************************************************************************)
Unrefused == Undisturbed /\ "refuse" \notin Events

Smooth ==
  /\ \A t \in TxIds : tx[t].st # "refused"
  /\ \A g \in Gens : rows[g].status # "failed"
  /\ pc \notin {"repair", "decide"} /\ ~needsRepair

\* A halt that a derivation owing finds was put down by an attempt.
HaltKnown == needsRederive /\ halted /\ pc # "down" => Attempts # {}

Behind(m, l) == m > 0 => Gen(tip) - l <= m

SmoothInv ==
  /\ IInv /\ Smooth /\ HaltKnown /\ ParkedIsHalted

\* The network has no ground for a refusal.
LEMMA NoRefusal ==
  ASSUME Unrefused, IInv, Smooth, NEW t \in TxIds
  PROVE  ~Refuse(t)
<1> SUFFICES ASSUME Refuse(t) PROVE FALSE
  OBVIOUS
<1>1. WalletInv /\ Unique /\ TypeInv
  BY DEF IInv, ChainInv, RecordInv, TruthInv
<1>2. tx[t].st = "sent" /\ t \in Made(tx) /\ t \in Live(tx) /\ t # Genesis
  BY <1>1 DEF Refuse, Made, Live, WalletInv, GenesisInv
<1>3. tx[t].parent \in Made(tx) /\ tx[t].gen = tx[tx[t].parent].gen + 1
  BY <1>1, <1>2 DEF WalletInv, Linked
<1>4. tx[tx[t].parent].st # "refused"
  BY <1>3 DEF Smooth, Made
<1>5. PICK s \in Siblings(t) : s \in Accepted(tx)
  BY <1>4 DEF Refuse, Unrefused
<1>6. s \in Live(tx) /\ s \in Made(tx) /\ s # t /\ tx[s].parent = tx[t].parent
  BY <1>5 DEF Siblings, Accepted, Live, Made
<1>7. NoTx \notin TxIds
  BY MaxTxAssumption DEF NoTx, TxIds
<1>8. s # Genesis
  BY <1>1, <1>3, <1>6, <1>7 DEF WalletInv, GenesisInv, Made
<1>9. tx[s].gen = tx[t].gen
  BY <1>1, <1>3, <1>6, <1>8 DEF WalletInv, Linked
<1> QED BY <1>1, <1>2, <1>6, <1>9 DEF Unique

\* Nothing was refused, so there is no reason to ask for.
LEMMA NoReason ==
  ASSUME Smooth
  PROVE  \A t \in TxIds : ~FetchReason(t)
BY DEF Smooth, FetchReason

\* No transaction becomes refused.
LEMMA SmoothStates ==
  ASSUME Unrefused, IInv, Smooth, Next
  PROVE  \A t \in TxIds : tx'[t].st # "refused"
<1>0. TruthInv /\ ChainInv /\ Undisturbed
  BY DEF IInv, Unrefused
<1>1. CASE UNCHANGED tx
  BY <1>1 DEF Smooth
<1>2. CASE CreateAction
  <2>1. /\ cur' \in TxIds /\ tx'[cur'].st = "created"
        /\ \A u \in TxIds \ {cur'} : tx'[u] = tx[u]
    BY <1>0, <1>2, CreateAdds
  <2> QED BY <2>1 DEF Smooth
<1>3. CASE SignAction \/ Network
  <2>1. \A t \in TxIds : ~Refuse(t)
    BY NoRefusal
  <2>2. CASE SignAction
    BY <2>2, <1>0 DEF SignAction, Smooth, TruthInv, TypeInv, StoreInv, WorkerInv
  <2>3. CASE Network
    <3>1. PICK t \in TxIds : Accept(t) \/ Mine(t)
      BY <2>1, <2>3 DEF Network
    <3>2. \E s \in {"seen", "mined"} : tx' = [tx EXCEPT ![t].st = s]
      BY <3>1 DEF Accept, Mine
    <3> QED BY <1>0, <3>1, <3>2 DEF Smooth, TruthInv, TypeInv, StoreInv
  <2> QED BY <1>3, <2>2, <2>3
<1> QED BY <1>0, <1>1, <1>2, <1>3, TxChanges, NotTaken

\* No row becomes failed: no signing fails, and no refusal is queued.
LEMMA SmoothRows ==
  ASSUME Unrefused, IInv, Smooth, Next
  PROVE  \A g \in Gens : rows'[g].status # "failed"
<1>0. TruthInv /\ Undisturbed /\ rows \in [Gens -> CellTx]
  BY DEF IInv, Unrefused, TruthInv, TypeInv, StoreInv
<1>1. CASE UNCHANGED rows
  BY <1>1 DEF Smooth
<1>2. CASE Intent \/ Persist
  <2>1. \/ UNCHANGED rows
        \/ \E g \in Gens : \E row : row.status # "failed" /\ rows' = RecordTx(rows, g, row)
    <3>1. Intent => Gen(tip) + 1 \in Gens
      BY GenType, MaxGenAssumption DEF Intent, IInv, TruthInv, TypeInv, MemInv, Gens
    <3>2. Persist => Gen(cur) \in Gens
      BY <1>0, GenType DEF Persist, TruthInv, TypeInv, WorkerInv
    <3> QED BY <1>2, <3>1, <3>2 DEF Intent, Persist, Row
  <2> QED BY <1>0, <2>1 DEF RecordTx, Smooth
<1>3. CASE NotBroadcast
  <2>1. UNCHANGED rows \/ \E g : rows' = DeleteAttempt(rows, g)
    BY <1>3 DEF NotBroadcast
  <2> QED BY <2>1 DEF DeleteAttempt, Smooth, NoRow
<1>4. CASE WriteStatus
  <2> DEFINE u == Head(writes)
  <2>1. ReportTrue(u)
    <3>1. writes \in Seq(CellTx) /\ writes # << >>
      BY <1>0, <1>4 DEF WriteStatus, TruthInv, TypeInv, StatusInv
    <3>2. 1 \in 1 .. Len(writes) /\ u = writes[1]
      BY <3>1
    <3> HIDE DEF u
    <3> QED BY <1>0, <3>2 DEF TruthInv, QueueTrue
  <2>2. UNCHANGED rows \/ rows' = UpdateStatus(rows, u)
    BY <1>4 DEF WriteStatus
  <2> HIDE DEF u
  <2>3. u.status # "failed"
    BY <2>1 DEF ReportTrue, Smooth
  <2>4. \A g \in Gens : rows[g].status # "failed"
    BY DEF Smooth
  <2> QED BY <2>2, <2>3, <2>4 DEF UpdateStatus, Row
<1>5. CASE RederiveApply
  BY <1>0, <1>5 DEF RederiveApply, Undisturbed, Smooth
<1>6. ~RepairDecide
  BY DEF RepairDecide, Smooth
<1> QED BY <1>0, <1>1, <1>2, <1>3, <1>4, <1>5, <1>6, RowChanges, NotTaken, NoReason

\* No status says that a cell must be repaired.
LEMMA SmoothWorker ==
  ASSUME Unrefused, IInv, Smooth, Next
  PROVE  pc' \notin {"repair", "decide"} /\ ~needsRepair'
<1>0. pc \notin {"repair", "decide"} /\ ~needsRepair
  BY DEF Smooth
<1>1. CASE \E t \in TxIds : OnStatus(t) \/ Reconcile(t)
  <2>1. PICK t \in TxIds : OnStatus(t) \/ Reconcile(t)
    BY <1>1
  <2>2. PICK report \in Reports(t), bare \in BOOLEAN : ApplyStatus(t, report, bare)
    BY <2>1 DEF OnStatus, Reconcile
  <2>3. report # "failed"
    BY <1>0, <2>2 DEF Reports, Smooth
  <2> QED BY <1>0, <2>2, <2>3 DEF ApplyStatus, workerVars
<1>2. ASSUME ~\E t \in TxIds : OnStatus(t) \/ Reconcile(t)
      PROVE  /\ pc' \notin {"repair", "decide"}
             /\ needsRepair' = needsRepair \/ needsRepair' = FALSE
  <2>1. ~StartRepair /\ ~RepairDerive /\ ~AdoptDerived /\ ~RepairDecide
    BY <1>0 DEF StartRepair, RepairDerive, AdoptDerived, RepairDecide
  <2>2. CASE New \/ Crash \/ Lease
    BY <1>0, <2>2 DEF New, Crash, DownMemory, Lease, AcquireLease, LoseLease, RederiveRead,
       RederiveApply, workerVars, memVars
  <2>3. CASE Worker
    BY <1>0, <2>1, <2>3 DEF Worker, Park, Look, TakeTurn, Wait, Intent, CreateAction, CreateActionFails,
       FailBeforeSigning, SignAction, SignActionFails, Done, Record, Persist, NotBroadcast,
       SigningFailed, Done, memVars
  <2>4. CASE \/ Network \/ WriteStatus \/ OperatorRecover \/ StandbyRepair \/ RingStarvation
    BY <1>0, <2>4 DEF Network, Accept, Mine, Refuse, WriteStatus, OperatorRecover, StandbyRepair,
       RecoverOnce, RingStarvation, workerVars, memVars
  <2> QED BY <1>2, <2>2, <2>3, <2>4, NoReason DEF Next, StatusPipeline
<1>3. CASE ~\E t \in TxIds : OnStatus(t) \/ Reconcile(t)
  <2>1. needsRepair = FALSE
    BY <1>0 DEF IInv, TruthInv, TypeInv, MemInv
  <2>2. needsRepair' = FALSE
    BY <1>2, <1>3, <2>1
  <2>3. pc' \notin {"repair", "decide"}
    BY <1>2, <1>3
  <2> QED BY <2>2, <2>3
<1> QED BY <1>1, <1>3


\* A derivation that is owed finds the reason of any halt in the store.
LEMMA HaltKnownNext ==
  ASSUME Unrefused, IInv, Smooth, HaltKnown, Next
  PROVE  HaltKnown'
<1>0. Undisturbed /\ Quiet /\ RecordInv /\ TruthInv /\ NamedInv
  BY DEF Unrefused, IInv, WriteAheadInv, ChainInv
<1>1. CASE New
  <2>1. /\ halted' = DeriveTip(rows).halted /\ rows' = rows
    BY <1>1 DEF New, ApplyPosition, durable
  <2>2. DeriveTip(rows).halted => Attempts # {}
    <3>1. LET p == DeriveTip(rows) IN Reads(p, rows)
      BY <1>0, GenesisSettled, DeriveTipReads
    <3>2. Over(rows, "failed") = {}
      BY DEF Over, Smooth
    <3> QED BY <3>1, <3>2 DEF Reads, Over, Attempts
  <2> QED BY <2>1, <2>2 DEF HaltKnown, Attempts
<1>2. CASE ~needsRederive' \/ pc' = "down"
  BY <1>2 DEF HaltKnown
<1>3. CASE ~New /\ needsRederive' /\ pc' # "down"
  <2>1. needsRederive /\ ~Crash /\ ~RederiveApply
    BY <1>0, <1>3, LeaseChanges
       DEF Crash, Lease, AcquireLease, LoseLease, RederiveRead, RederiveApply, Undisturbed,
           leaseVars
  <2>2. pc \notin InFlight \cup {"turn"}
    BY <1>0, <2>1 DEF Undisturbed, Quiet
  <2>3. ~RepairDecide /\ ~RepairDerive /\ ~AdoptDerived
    BY DEF RepairDecide, RepairDerive, AdoptDerived, Smooth
  <2>4. ~Intent /\ ~SignAction /\ ~Persist /\ ~NotBroadcast /\ ~TakeTurn
    BY <2>1, <2>2 DEF Intent, SignAction, Persist, NotBroadcast, TakeTurn, TurnReady, InFlight
  <2>5. Attempts' = Attempts
    BY <1>0, <2>3, <2>4, StillOr DEF Still
  <2>6. pc # "down"
    BY <1>3, <2>1 DEF Next, Lease, AcquireLease, LoseLease, RederiveRead,
     Worker, Park, Look, TakeTurn, Wait, Intent,
     CreateAction, CreateActionFails, FailBeforeSigning, SignAction, SignActionFails, Done, Record,
     Persist, NotBroadcast, SigningFailed, StartRepair, RepairDerive, AdoptDerived, RepairDecide,
     Network, Accept, Mine, Refuse, StatusPipeline, WriteStatus, OnStatus, Reconcile,
     ApplyStatus, FetchReason, OperatorRecover, StandbyRepair, RecoverOnce, RingStarvation, workerVars
  <2>7. halted' => halted
    <3>1. CASE \E t \in TxIds : OnStatus(t) \/ Reconcile(t)
      <4>1. PICK t \in TxIds : OnStatus(t) \/ Reconcile(t)
        BY <3>1
      <4>2. PICK report \in Reports(t), bare \in BOOLEAN : ApplyStatus(t, report, bare)
        BY <4>1 DEF OnStatus, Reconcile
      <4>3. report # "failed"
        BY <4>2 DEF Reports, Smooth
      <4> QED BY <4>2, <4>3 DEF ApplyStatus
    <3>2. CASE ~\E t \in TxIds : OnStatus(t) \/ Reconcile(t)
      BY <1>0, <1>3, <2>1, <2>3, <2>4, <3>2, NotTaken, NoReason
         DEF Next, Lease, AcquireLease, LoseLease, RederiveRead,
             Worker, Park, Look, Wait, CreateAction, CreateActionFails, FailBeforeSigning, Record, StartRepair,
             Network, Accept, Mine, Refuse, StatusPipeline, WriteStatus, RingStarvation,
             memVars
    <3> QED BY <3>1, <3>2
  <2> QED BY <2>1, <2>5, <2>6, <2>7 DEF HaltKnown
<1> QED BY <1>1, <1>2, <1>3

\* What waits for the process to end is lifted by nothing but a derivation.
LEMMA ParkedNext ==
  ASSUME ParkedIsHalted, TypeInv, Next
  PROVE  ParkedIsHalted' \/ (RederiveApply /\ pc = "parked")
<1> SUFFICES ASSUME pc' = "parked", ~halted', ~(RederiveApply /\ pc = "parked")
             PROVE  FALSE
  BY DEF ParkedIsHalted
<1>1. ~Crash /\ ~New /\ ~RederiveApply /\ ~AdoptDerived /\ ~RepairDecide
  BY DEF Crash, New, RederiveApply, workerVars, AdoptDerived, RepairDone, RepairDecide,
         AdoptRepaired
<1>2. halted' = halted \/ halted' = TRUE
  <2>1. CASE \E t \in TxIds : OnStatus(t) \/ Reconcile(t)
    BY <2>1 DEF OnStatus, Reconcile, ApplyStatus, NoteRefusal
  <2>2. CASE ~\E t \in TxIds : OnStatus(t) \/ Reconcile(t)
    BY <1>1, <2>2 DEF Next, Lease, AcquireLease, LoseLease, RederiveRead,
       Worker, Park, Look, TakeTurn, Wait, Intent, CreateAction, CreateActionFails, FailBeforeSigning,
       SignAction, SignActionFails, Done, Record, Persist, NotBroadcast, SigningFailed,
       StartRepair, RepairDerive, HaltRepair, Network, Accept, Mine, Refuse,
       StatusPipeline, WriteStatus, FetchReason, OperatorRecover, StandbyRepair, RecoverOnce,
       RingStarvation, memVars
  <2> QED BY <2>1, <2>2
<1>3. halted = FALSE
  BY <1>2 DEF TypeInv, MemInv
<1>4. pc = "parked" \/ halted
  <2>1. Park \/ pc' = pc \/ pc' # "parked"
    BY DEF Next, New, Crash, Lease, AcquireLease, LoseLease, RederiveRead, RederiveApply,
       Worker, Look, TakeTurn, Wait, Intent, CreateAction, CreateActionFails, FailBeforeSigning,
       SignAction, SignActionFails, Done, Record, Persist, NotBroadcast, SigningFailed,
       StartRepair, RepairDerive, RepairDone, AdoptDerived, RepairDecide, AdoptRepaired,
       Network, Accept, Mine, Refuse, StatusPipeline, WriteStatus, OnStatus, Reconcile,
       ApplyStatus, FetchReason, OperatorRecover, StandbyRepair, RecoverOnce, RingStarvation, workerVars
  <2> QED BY <2>1 DEF Park
<1> QED BY <1>3, <1>4 DEF ParkedIsHalted

\* Every step keeps it: the one that could run a halted cell again is a
\* derivation, and that one has seen the attempt the halt was put down by.
LEMMA SmoothNext ==
  ASSUME Unrefused
  PROVE  SmoothInv /\ [Next]_vars => SmoothInv'
<1>0. Undisturbed
  BY DEF Unrefused
<1>1. ASSUME SmoothInv, UNCHANGED vars PROVE SmoothInv'
  <2>1. IInv'
    BY <1>0, <1>1, INext DEF SmoothInv
  <2> QED BY <1>1, <2>1 DEF SmoothInv, vars, Smooth, HaltKnown, Attempts, ParkedIsHalted
<1>2. ASSUME SmoothInv, Next PROVE SmoothInv'
  <2>1. IInv'
    BY <1>0, <1>2, INext DEF SmoothInv
  <2>2. Smooth'
    BY <1>2, SmoothStates, SmoothRows, SmoothWorker DEF SmoothInv, Smooth
  <2>3. HaltKnown'
    BY <1>2, HaltKnownNext DEF SmoothInv
  <2>4. ParkedIsHalted'
    <3>1. CASE RederiveApply /\ pc = "parked"
      <4>1. halted /\ needsRederive /\ rederiving
        BY <1>0, <1>2, <3>1
           DEF SmoothInv, ParkedIsHalted, RederiveApply, IInv, WriteAheadInv, Quiet, Undisturbed
      <4>2. Attempts # {}
        BY <1>2, <3>1, <4>1 DEF SmoothInv, HaltKnown
      <4>3. derived.halted
        BY <1>2, <4>1, <4>2 DEF SmoothInv, IInv, ChainInv, ControlInv, DerivedClear
      <4>4. halted' = derived.halted
        BY <1>0, <3>1 DEF RederiveApply, Undisturbed, ApplyPosition
      <4> QED BY <4>3, <4>4 DEF ParkedIsHalted
    <3>2. CASE ~(RederiveApply /\ pc = "parked")
      BY <1>2, <3>2, ParkedNext DEF SmoothInv, IInv, TruthInv
    <3> QED BY <3>1, <3>2
  <2> QED BY <2>1, <2>2, <2>3, <2>4 DEF SmoothInv
<1> QED BY <1>1, <1>2

\* Nothing is refused, halted or owed a repair at the start.
LEMMA SmoothInit == Init => SmoothInv
<1> SUFFICES ASSUME Init PROVE SmoothInv
  OBVIOUS
<1>1. IInv
  BY IInit
<1>2. Smooth
  BY DEF Init, Smooth, Row, NoRow
<1> QED BY <1>1, <1>2 DEF SmoothInv, Init, HaltKnown, ParkedIsHalted

-----------------------------------------------------------------------------
(***************************************************************************)
(* Of such a process, crashes and all, the tip itself is within the bounds *)
(* of the frontiers; what an attempt left unrecorded above it may not be.  *)
(***************************************************************************)
TipInv ==
  /\ SmoothInv /\ AheadInv
  /\ Behind(MaxUnseen, lastSeen) /\ Behind(MaxDeep, lastMined)

\* What the tip becomes.
LEMMA TipChanges ==
  ASSUME Unrefused, SmoothInv, Next
  PROVE  \/ New \/ Crash \/ RederiveApply
         \/ UNCHANGED tip
         \/ Record
<1>1. ~AdoptDerived /\ ~RepairDecide /\ ~OperatorRecover /\ ~StandbyRepair
  BY NotTaken DEF Unrefused, SmoothInv, Smooth, AdoptDerived, RepairDecide
<1> QED BY <1>1 DEF Next, Lease, AcquireLease, LoseLease, RederiveRead,
     Worker, Park, Look, TakeTurn, Wait, Intent, CreateAction, CreateActionFails, FailBeforeSigning,
     SignAction, SignActionFails, Done, Persist, NotBroadcast, SigningFailed,
     StartRepair, RepairDerive, Network, Accept, Mine, Refuse,
     StatusPipeline, WriteStatus, OnStatus, Reconcile, ApplyStatus, FetchReason, RingStarvation, memVars

\* Every step keeps the tip within the bounds: a new tip was let through by
\* the gates, and a derivation puts the frontiers where it puts the tip.
LEMMA TipNext ==
  ASSUME Unrefused, "funds" \notin Events
  PROVE  TipInv /\ [Next]_vars => TipInv'
<1>1. ASSUME TipInv, UNCHANGED vars PROVE TipInv'
  <2>1. SmoothInv'
    BY <1>1, SmoothNext DEF TipInv
  <2> QED BY <1>1, <2>1 DEF TipInv, vars, AheadInv, Ahead, Behind, Gen
<1>2. ASSUME TipInv, Next PROVE TipInv'
  <2>0. SmoothInv /\ IInv /\ TruthInv /\ TypeInv /\ Undisturbed /\ ChainInv
    BY <1>2 DEF TipInv, SmoothInv, IInv, TruthInv, Unrefused
  <2>1. SmoothInv' /\ TypeInv'
    BY <1>2, SmoothNext DEF TipInv, SmoothInv, IInv, TruthInv
  <2>2. AheadInv'
    BY <1>2, <2>0, <2>1, AheadNext, NoDerivation DEF TipInv
  <2>3. /\ lastSeen \in Nat /\ lastMined \in Nat /\ lastSeen' \in Nat /\ lastMined' \in Nat
        /\ MaxUnseen \in Nat /\ MaxDeep \in Nat
    <3>1. /\ lastSeen \in Gens /\ lastMined \in Gens
          /\ lastSeen' \in Gens /\ lastMined' \in Gens
      BY <2>0, <2>1 DEF TypeInv, StatusInv
    <3> QED BY <3>1, MaxGenAssumption, EngineAssumption DEF Gens
  <2>4. Grows
    BY <1>2, <2>0, NextGrows
  <2>5. CASE New \/ Crash \/ RederiveApply
    <3>1. lastSeen' = Gen(tip)' /\ lastMined' = Gen(tip)'
      <4>1. CASE Crash
        BY <2>0, <4>1 DEF Crash, DownMemory, durable, ChainInv, RecordInv, WalletInv, GenesisInv,
           Gen, Genesis, NoTx
      <4>2. CASE New
        BY <4>2 DEF New, ApplyPosition, durable, Gen
      <4>3. CASE RederiveApply
        BY <2>0, <4>3 DEF RederiveApply, ApplyPosition, Undisturbed, Gen
      <4> QED BY <2>5, <4>1, <4>2, <4>3
    <3>2. Behind(MaxUnseen, lastSeen)' /\ Behind(MaxDeep, lastMined)'
      BY <2>3, <3>1 DEF Behind
    <3> QED BY <2>1, <2>2, <3>2 DEF TipInv
  <2>6. CASE lastSeen' >= lastSeen /\ lastMined' >= lastMined
    <3>1. CASE UNCHANGED tip
      <4>1. Gen(tip)' = Gen(tip) /\ Gen(tip) \in Nat
        BY <2>0, <2>4, <3>1, GenType, MaxGenAssumption
           DEF Grows, TypeInv, MemInv, Refs, Gen, Made, Gens
      <4>2. Behind(MaxUnseen, lastSeen)' /\ Behind(MaxDeep, lastMined)'
        BY <1>2, <2>3, <2>6, <4>1 DEF Behind, TipInv
      <4> QED BY <2>1, <2>2, <4>2 DEF TipInv
    <3>2. CASE Record
      <4>1. /\ pc = "record" /\ tip' = cur /\ cur \in TxIds /\ tx' = tx
            /\ lastSeen' = lastSeen /\ lastMined' = lastMined
        BY <2>0, <3>2 DEF Record, durable, TypeInv, WorkerInv
      <4>2. tx[cur].gen = Gen(base) + 1 /\ Gen(cur) = tx[cur].gen
        BY <2>0, <4>1, GenIs DEF TruthInv, SigningPlace, Next1
      <4>3. Gen(tip)' = Gen(base) + 1
        BY <4>1, <4>2 DEF Gen
      <4>4. Gen(base) \in Nat
        BY <2>0, GenType, MaxGenAssumption DEF TypeInv, WorkerInv, Gens
      <4>5. Behind(MaxUnseen, lastSeen)' /\ Behind(MaxDeep, lastMined)'
        BY <1>2, <2>3, <4>1, <4>3, <4>4 DEF Behind, TipInv, AheadInv, Ahead
      <4> QED BY <2>1, <2>2, <4>5 DEF TipInv
    <3> QED BY <2>0, <2>5, <3>1, <3>2, <1>2, TipChanges
  <2> QED BY <1>2, <2>0, <2>5, <2>6, FrontierKept
<1> QED BY <1>1, <1>2

\* At the start the tip is the genesis, at the frontiers.
LEMMA TipInit == Init => TipInv
<1> SUFFICES ASSUME Init PROVE TipInv
  OBVIOUS
<1>1. SmoothInv
  BY SmoothInit
<1>2. AheadInv
  BY DEF Init, AheadInv, Ahead
<1>3. tip = Genesis /\ lastSeen = 0 /\ lastMined = 0 /\ Gen(tip) = 0
  BY <1>1 DEF Init, SmoothInv, IInv, ChainInv, RecordInv, WalletInv, GenesisInv, Gen
<1>4. Behind(MaxUnseen, lastSeen) /\ Behind(MaxDeep, lastMined)
  BY <1>3, EngineAssumption DEF Behind
<1> QED BY <1>1, <1>2, <1>4 DEF TipInv

-----------------------------------------------------------------------------
(***************************************************************************)
(* The theorems.  With funds a starved automaton probes past its gates;    *)
(* with a refusal and a crash, or two derivations, a repair under way may  *)
(* adopt a tip that the frontier of the derivation is behind, or have its  *)
(* halt lifted.                                                            *)
(***************************************************************************)
\* A cell is never built more than MaxUnseen transactions past the last one of
\* its own known to be seen.
THEOREM BuiltWithinUnseen ==
  ASSUME Uninterrupted \/ Unrefused, "funds" \notin Events
  PROVE  Spec => []UnseenBounded
<1>1. ASSUME Uninterrupted PROVE Spec => []UnseenBounded
  <2>1. BuiltInv /\ [Next]_vars => BuiltInv'
    BY <1>1, BuiltNext
  <2>2. BuiltInv => UnseenBounded
    BY BuiltBounds
  <2> QED BY <2>1, <2>2, BuiltInit, PTL DEF Spec
<1>2. ASSUME Unrefused PROVE Spec => []UnseenBounded
  <2>1. TipInv /\ [Next]_vars => TipInv'
    BY <1>2, TipNext
  <2>2. TipInv => UnseenBounded
    BY DEF TipInv, Behind, UnseenBounded
  <2> QED BY <2>1, <2>2, TipInit, PTL DEF Spec
<1> QED BY <1>1, <1>2

\* ... nor more than MaxDeep past the last one that was mined, although the
\* gate subtracts unsigned words.
THEOREM BuiltWithinDepth ==
  ASSUME Uninterrupted \/ Unrefused, "funds" \notin Events
  PROVE  Spec => []UnconfirmedBounded
<1>1. ASSUME Uninterrupted PROVE Spec => []UnconfirmedBounded
  <2>1. BuiltInv /\ [Next]_vars => BuiltInv'
    BY <1>1, BuiltNext
  <2>2. BuiltInv => UnconfirmedBounded
    BY BuiltBounds
  <2> QED BY <2>1, <2>2, BuiltInit, PTL DEF Spec
<1>2. ASSUME Unrefused PROVE Spec => []UnconfirmedBounded
  <2>1. TipInv /\ [Next]_vars => TipInv'
    BY <1>2, TipNext
  <2>2. TipInv => UnconfirmedBounded
    BY DEF TipInv, Behind, UnconfirmedBounded
  <2> QED BY <2>1, <2>2, TipInit, PTL DEF Spec
<1> QED BY <1>1, <1>2

\* A worker that has stopped for good is the worker of a halted cell: no
\* derivation, repair or refusal runs the cell again behind its back.
THEOREM ParkedStaysHalted ==
  ASSUME Uninterrupted \/ Unrefused
  PROVE  Spec => []ParkedIsHalted
<1>1. ASSUME Uninterrupted PROVE Spec => []ParkedIsHalted
  <2> DEFINE Inv == TruthInv /\ FreshInv /\ ParkedIsHalted
  <2>1. Init => Inv
    BY TruthInit, FreshInit DEF Init, ParkedIsHalted
  <2>2. ASSUME Inv, Next PROVE Inv'
    <3>1. TruthInv' /\ FreshInv'
      BY <1>1, <2>2, TruthNext, FreshNext
    <3>2. ~(RederiveApply /\ pc = "parked")
      BY <2>2 DEF RederiveApply, FreshInv, Fresh, Once
    <3> QED BY <2>2, <3>1, <3>2, ParkedNext DEF TruthInv
  <2>3. ASSUME Inv, UNCHANGED vars PROVE Inv'
    <3>1. TruthInv'
      BY <2>3, TruthNext
    <3> QED BY <2>3, <3>1 DEF vars, FreshInv, Fresh, Once, ParkedIsHalted
  <2>4. Inv /\ [Next]_vars => Inv'
    BY <2>2, <2>3
  <2> QED BY <2>1, <2>4, PTL DEF Spec
<1>2. ASSUME Unrefused PROVE Spec => []ParkedIsHalted
  <2>1. SmoothInv /\ [Next]_vars => SmoothInv'
    BY <1>2, SmoothNext
  <2>2. SmoothInv => ParkedIsHalted
    BY DEF SmoothInv
  <2> QED BY <2>1, <2>2, SmoothInit, PTL DEF Spec
<1> QED BY <1>1, <1>2
=============================================================================
