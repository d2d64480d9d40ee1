---------------------------- MODULE Audit_proofs ----------------------------
(***************************************************************************)
(* The covenant and the audit for a ring of any size, bytes of any width   *)
(* up to eight, any rule.                                                  *)
(***************************************************************************)
EXTENDS Audit, WellFoundedInduction, FiniteSetTheorems, TLAPS

\* A set of natural numbers has a least element.
LEMMA LeastExists ==
  ASSUME NEW S, S \subseteq Nat, S # {}
  PROVE  \E x \in S : \A y \in S : x <= y
<1> DEFINE R == OpToRel(<, Nat)
<1>1. PICK x \in S : \A y \in S : <<y, x>> \notin R
  <2>1. IsWellFoundedOn(R, Nat)
    BY NatLessThanWellFounded
  <2> HIDE DEF R
  <2> QED BY <2>1, WFMin
<1>2. \A y \in S : x <= y
  <2> TAKE y \in S
  <2>1. ~ (y < x)
    BY <1>1 DEF OpToRel
  <2> QED BY <2>1
<1> QED BY <1>2

-----------------------------------------------------------------------------
(***************************************************************************)
(* The contract and the reference.                                         *)
(***************************************************************************)
\* A cell's neighbours are cells.
LEMMA Neighbours ==
  ASSUME NEW i \in Cells
  PROVE  LeftIndex(i) \in Cells /\ RightIndex(i) \in Cells
<1>1. N \in Nat /\ N > 0 /\ i \in Int
  BY RingAssumption DEF Cells
<1>2. \A d \in Int : d % N \in 0 .. N - 1
  BY <1>1
<1>3. LeftIndex(i) \in Cells
  BY <1>1, <1>2 DEF LeftIndex, Cells
<1>4. ((i - 1) % N) + N \in Int
  BY <1>1
<1>5. RightIndex(i) \in Cells
  BY <1>2, <1>4 DEF RightIndex, Cells
<1> QED BY <1>3, <1>5

\* The bit that byte and divisor of cell i address is the bit of cell i.
LEMMA BitRead ==
  ASSUME NEW row, NEW i \in Cells
  PROVE  BitAt(row, ByteOf(i), DivOf(i)) = Bit(row, i)
<1> DEFINE b == i \div ByteBits
           k == i % ByteBits
           bit(n) == IF n < ByteBits THEN Bit(row, b * ByteBits + n) ELSE 0
<1>1. ByteBits \in 1 .. 8 /\ i \in Nat
  BY RingAssumption DEF Cells
<1>2. k \in 0 .. ByteBits - 1 /\ b \in Nat /\ i = b * ByteBits + k
  BY <1>1
<1>3. k \in 0 .. 7 /\ k < ByteBits
  BY <1>1, <1>2
<1>4. bit(k) = Bit(row, i)
  BY <1>2, <1>3
<1>5. \A n \in 0 .. 7 : bit(n) \in {0, 1}
  BY DEF Bit
<1>6. (ByteAt(row, b) \div 2^k) % 2 = bit(k)
  <2> DEFINE val == bit(0) + 2 * (bit(1) + 2 * (bit(2) + 2 * (bit(3) + 2 *
                      (bit(4) + 2 * (bit(5) + 2 * (bit(6) + 2 * bit(7)))))))
  <2>1. ByteAt(row, b) = val
    BY DEF ByteAt
  <2>2. /\ bit(0) \in {0, 1} /\ bit(1) \in {0, 1} /\ bit(2) \in {0, 1} /\ bit(3) \in {0, 1}
        /\ bit(4) \in {0, 1} /\ bit(5) \in {0, 1} /\ bit(6) \in {0, 1} /\ bit(7) \in {0, 1}
    BY <1>5
  <2> HIDE DEF bit, k, b
  <2>3. (val \div 2^k) % 2 = bit(k)
    <3>0. CASE k = 0 BY <2>2, <3>0
    <3>1. CASE k = 1 BY <2>2, <3>1
    <3>2. CASE k = 2 BY <2>2, <3>2
    <3>3. CASE k = 3 BY <2>2, <3>3
    <3>4. CASE k = 4 BY <2>2, <3>4
    <3>5. CASE k = 5 BY <2>2, <3>5
    <3>6. CASE k = 6 BY <2>2, <3>6
    <3>7. CASE k = 7 BY <2>2, <3>7
    <3> QED BY <1>3, <3>0, <3>1, <3>2, <3>3, <3>4, <3>5, <3>6, <3>7
  <2> QED BY <2>1, <2>3
<1> QED BY <1>4, <1>6 DEF BitAt, ByteOf, DivOf

\* The power the contract multiplies together is the one the rule is shifted by.
LEMMA RuleRead ==
  ASSUME NEW l \in {0, 1}, NEW c \in {0, 1}, NEW r \in {0, 1}
  PROVE  /\ (Rule \div ((1 + 15 * l) * (1 + 3 * c) * (1 + r))) % 2 = RuleNext(l, c, r)
         /\ RuleNext(l, c, r) \in {0, 1}
<1>1. Rule \in Nat
  BY RingAssumption
<1>2. (1 + 15 * l) * (1 + 3 * c) * (1 + r) = 2^(4 * l + 2 * c + r)
  <2>1. CASE l = 0 /\ c = 0 /\ r = 0 BY <2>1
  <2>2. CASE l = 0 /\ c = 0 /\ r = 1 BY <2>2
  <2>3. CASE l = 0 /\ c = 1 /\ r = 0 BY <2>3
  <2>4. CASE l = 0 /\ c = 1 /\ r = 1 BY <2>4
  <2>5. CASE l = 1 /\ c = 0 /\ r = 0 BY <2>5
  <2>6. CASE l = 1 /\ c = 0 /\ r = 1 BY <2>6
  <2>7. CASE l = 1 /\ c = 1 /\ r = 0 BY <2>7
  <2>8. CASE l = 1 /\ c = 1 /\ r = 1 BY <2>8
  <2> QED BY <2>1, <2>2, <2>3, <2>4, <2>5, <2>6, <2>7, <2>8
<1>3. (1 + 15 * l) * (1 + 3 * c) * (1 + r) \in Nat \ {0}
  OBVIOUS
<1>4. \A d \in Nat \ {0} : (Rule \div d) % 2 \in {0, 1}
  BY <1>1
<1> QED BY <1>2, <1>3, <1>4 DEF RuleNext

\* The step has the bits the rule gives.
LEMMA StepBit ==
  ASSUME NEW row, NEW i \in Cells
  PROVE  NextBit(row, i) \in {0, 1} /\ Bit(Step(row), i) = NextBit(row, i)
<1>1. NextBit(row, i) \in {0, 1}
  BY RuleRead DEF NextBit, Bit
<1> QED BY <1>1 DEF Step, Bit

\* What the contract asserts: the bit the successor presents at its own cell
\* is the one internal/ca computes, and nothing else of what it presents.
LEMMA ContractAsserts ==
  ASSUME NEW row, NEW next, NEW i \in Cells
  PROVE  CellStep(CtorArgs(i), row, next) <=> Bit(next, i) = NextBit(row, i)
<1> DEFINE l == Bit(row, LeftIndex(i))
           c == Bit(row, i)
           r == Bit(row, RightIndex(i))
<1>1. l \in {0, 1} /\ c \in {0, 1} /\ r \in {0, 1}
  BY DEF Bit
<1>2. /\ BitAt(row, CtorArgs(i).byteL, CtorArgs(i).divL) = l
      /\ BitAt(row, CtorArgs(i).byteC, CtorArgs(i).divC) = c
      /\ BitAt(row, CtorArgs(i).byteR, CtorArgs(i).divR) = r
      /\ BitAt(next, CtorArgs(i).byteC, CtorArgs(i).divC) = Bit(next, i)
  BY Neighbours, BitRead DEF CtorArgs
<1>3. NextBit(row, i) = RuleNext(l, c, r)
  BY DEF NextBit
<1> HIDE DEF l, c, r
<1>4. (Rule \div ((1 + 15 * l) * (1 + 3 * c) * (1 + r))) % 2 = RuleNext(l, c, r)
  BY <1>1, RuleRead
<1> QED BY <1>2, <1>3, <1>4 DEF CellStep

\* Of a ring of any size, in bytes of any width, under any rule, the script of a
\* cell accepts the row internal/ca computes and refuses it with that cell's bit
\* turned, whatever row the spent output carries.
THEOREM ContractAgrees == Spec => []CovenantAgrees
<1>1. CovenantAgrees
  <2> SUFFICES ASSUME NEW c \in Cells, NEW row
               PROVE  /\ CellStep(CtorArgs(c), row, Step(row))
                      /\ ~CellStep(CtorArgs(c), row, Flip(Step(row), c))
    BY DEF CovenantAgrees
  <2>1. Bit(Step(row), c) = NextBit(row, c)
    BY StepBit
  <2>2. Bit(Flip(Step(row), c), c) # Bit(Step(row), c)
    BY DEF Flip, Bit
  <2> QED BY <2>1, <2>2, ContractAsserts
<1> QED BY <1>1, PTL

-----------------------------------------------------------------------------
(***************************************************************************)
(* The tables and the walk: what every state keeps, whatever is wrong with *)
(* the deployment.                                                         *)
(***************************************************************************)
Fields == {"spends", "vout", "outs", "presented", "commits", "try"}

\* A transaction, which Coin is not; its outputs carry a cell's script each.
Shaped(t) ==
  /\ DOMAIN t = Fields
  /\ \A v \in DOMAIN t.outs : t.outs[v] = LockingScript(t.outs[v].cell, t.outs[v].row)

Entry(e) == /\ DOMAIN e = {"status", "tx"}
            /\ e.status # "none" => Shaped(e.tx)

Table(r) == DOMAIN r = Gens /\ \A g \in Gens : DOMAIN r[g] = Cells

TableInv ==
  /\ DOMAIN tip = Cells /\ \A c \in Cells : Shaped(tip[c])
  /\ reached \in [Cells -> Gens]
  /\ refused \subseteq {c \in Cells : reached[c] > 0}
  /\ Table(rec) /\ \A g \in Gens, c \in Cells : Entry(rec[g][c])
  /\ \A c \in Cells : \A g \in 1 .. reached[c] : rec[g][c].status # "none"
  /\ 0 \in DOMAIN rowOf /\ DOMAIN rowOf \subseteq Gens

WalkInv ==
  /\ auditor \in [pc : {"idle", "reading", "orphan", "done"},
                  first : Nat, final : Gens, at : Nat, held : BOOLEAN]
  /\ auditor.pc # "idle" => auditor.at \in auditor.first .. auditor.final
  /\ auditor.pc = "orphan" => auditor.at > 0
  /\ auditor.held => auditor.at > 0 /\ auditor.at - 1 \in DOMAIN seen
  /\ DOMAIN seen \subseteq Gens
  /\ \A g \in DOMAIN seen, c \in Cells : Entry(seen[g].rec[c])

EngineMoves == \E c \in Cells : Advance(c) \/ Refuse(c) \/ Rebuild(c)

\* A set of generations has a newest one.
LEMMA NewestExists ==
  ASSUME NEW S \in SUBSET Gens, S # {}
  PROVE  Max(S) \in S /\ \A g \in S : g <= Max(S)
<1>1. MaxGen \in Nat
  BY AuditAssumption
<1> DEFINE B == {n \in Nat : \A g \in S : g <= n}
<1>2. MaxGen \in B /\ B \subseteq Nat
  BY <1>1 DEF Gens
<1>3. PICK n \in B : \A m \in B : n <= m
  BY <1>2, LeastExists
<1>4. n \in S
  <2> SUFFICES ASSUME n \notin S PROVE FALSE
    OBVIOUS
  <2>1. PICK g \in S : TRUE
    OBVIOUS
  <2>2. n > 0 /\ \A h \in S : h <= n - 1
    BY <1>1, <1>3, <2>1 DEF Gens
  <2>3. n - 1 \in B
    BY <1>3, <2>2
  <2> QED BY <1>3, <2>3
<1>5. \E x \in S : \A y \in S : x >= y
  BY <1>1, <1>3, <1>4 DEF Gens
<1>6. Max(S) \in S /\ \A y \in S : Max(S) >= y
  BY <1>5 DEF Max
<1> QED BY <1>1, <1>6 DEF Gens

\* The tables and the walk at the start.
LEMMA TablesInit ==
  ASSUME Init
  PROVE  TableInv /\ WalkInv
<1>1. MaxGen \in Nat /\ 0 \in Gens
  BY AuditAssumption DEF Gens
<1>2. \A c \in Cells : tip[c] = GenesisTx(seed, fault)
  BY DEF Init
<1>3. Shaped(GenesisTx(seed, fault))
  <2>1. \A c \in Cells : GenesisOutput(seed, c, fault)
          = LockingScript(GenesisOutput(seed, c, fault).cell, GenesisOutput(seed, c, fault).row)
    BY DEF GenesisOutput, LockingScript
  <2> QED BY <2>1 DEF GenesisTx, Shaped, Fields
<1>4. \A g \in Gens, c \in Cells : Entry(rec[g][c])
  BY <1>2, <1>3 DEF Init, Entry, NoRecord
<1>5. TableInv
  BY <1>1, <1>2, <1>3, <1>4 DEF Init, TableInv, Table
<1>6. WalkInv
  BY <1>1 DEF Init, WalkInv
<1> QED BY <1>5, <1>6

\* The table of transactions with one entry in another's place.
RecWith(g, c, e) == [rec EXCEPT ![g][c] = e]

\* One entry is replaced, the others stay.
LEMMA RecPut ==
  ASSUME TableInv, NEW g \in Gens, NEW c \in Cells, NEW e
  PROVE  /\ Table(RecWith(g, c, e))
         /\ RecWith(g, c, e)[g][c] = e
         /\ \A h \in Gens, d \in Cells : h # g \/ d # c => RecWith(g, c, e)[h][d] = rec[h][d]
<1>1. DOMAIN rec = Gens /\ \A h \in Gens : DOMAIN rec[h] = Cells
  BY DEF TableInv, Table
<1> DEFINE column == [rec[g] EXCEPT ![c] = e]
           r == RecWith(g, c, e)
<1>2. r = [rec EXCEPT ![g] = column]
  BY DEF RecWith
<1>3. DOMAIN column = Cells /\ column[c] = e /\ \A d \in Cells \ {c} : column[d] = rec[g][d]
  BY <1>1
<1> HIDE DEF column, r
<1>4. DOMAIN r = Gens /\ r[g] = column /\ \A h \in Gens \ {g} : r[h] = rec[h]
  BY <1>1, <1>2
<1>5. Table(r)
  BY <1>1, <1>3, <1>4 DEF Table
<1>6. \A h \in Gens, d \in Cells : h # g \/ d # c => r[h][d] = rec[h][d]
  BY <1>3, <1>4
<1> QED BY <1>3, <1>4, <1>5, <1>6 DEF r

\* What a transition is recorded as: itself, but for the one fault that
\* crosses two cells.
LEMMA Recorded ==
  ASSUME TableInv, NEW g \in Gens, NEW c \in Cells, NEW t, Shaped(t),
         NEW r, r = RecordTx(g, c, t)
  PROVE  /\ Table(r)
         /\ r[g][c].status = "broadcast"
         /\ Entry(r[g][c])
         /\ fault.kind # "crossed" => r[g][c].tx = t
         /\ \A h \in Gens, d \in Cells : h # g \/ d # c => r[h][d] = rec[h][d]
<1> DEFINE u == IF BefallsCell("crossed", g, c) THEN tip[LeftIndex(c)] ELSE t
           e == [status |-> "broadcast", tx |-> u]
<1>1. r = RecWith(g, c, e)
  BY DEF RecordTx, RecWith
<1>2. Shaped(u)
  BY Neighbours DEF TableInv
<1>3. fault.kind # "crossed" => u = t
  BY DEF BefallsCell, Befalls
<1>4. e.status = "broadcast" /\ e.tx = u /\ Entry(e)
  BY <1>2 DEF Entry
<1> HIDE DEF u, e
<1> QED BY <1>1, <1>3, <1>4, RecPut

\* A refusal marks one entry and leaves its transaction.
LEMMA Marked ==
  ASSUME TableInv, NEW c \in Cells, Refuse(c)
  PROVE  /\ Table(rec')
         /\ rec'[reached[c]][c].status = "failed"
         /\ Entry(rec'[reached[c]][c])
         /\ rec'[reached[c]][c].tx = rec[reached[c]][c].tx
         /\ \A h \in Gens, d \in Cells :
              h # reached[c] \/ d # c => rec'[h][d] = rec[h][d]
<1> DEFINE e == [rec[reached[c]][c] EXCEPT !.status = "failed"]
<1>1. reached[c] \in Gens /\ reached[c] \in 1 .. reached[c]
  BY DEF TableInv, Gens, Refuse
<1>2. rec' = RecWith(reached[c], c, e)
  BY DEF Refuse, RecWith
<1>3. Entry(rec[reached[c]][c]) /\ rec[reached[c]][c].status # "none"
  BY <1>1 DEF TableInv
<1>4. e.status = "failed" /\ Entry(e) /\ e.tx = rec[reached[c]][c].tx
  BY <1>3 DEF Entry
<1> HIDE DEF e
<1> QED BY <1>1, <1>2, <1>4, RecPut

\* Every transition of a cell has the shape of a transaction.
LEMMA TransitionShaped ==
  ASSUME NEW g, NEW c, NEW presented, NEW try
  PROVE  Shaped(Transition(g, c, presented, try))
<1> DEFINE t == Transition(g, c, presented, try)
<1>1. DOMAIN t = Fields
  BY DEF Transition, Fields
<1>2. \A v \in DOMAIN t.outs : t.outs[v] = LockingScript(t.outs[v].cell, t.outs[v].row)
  BY DEF Transition, LockingScript
<1> QED BY <1>1, <1>2 DEF Shaped

\* The engine's steps keep the tables.
LEMMA TablesEngine ==
  ASSUME TableInv, EngineMoves
  PROVE  TableInv'
<1> PICK c \in Cells : Advance(c) \/ Refuse(c) \/ Rebuild(c)
  BY DEF EngineMoves
<1>0. MaxGen \in Nat
  BY AuditAssumption
<1>1. reached[c] \in Gens /\ reached[c] \in Nat
  BY DEF TableInv, Gens
<1>2. \A d \in Cells : Shaped(tip[d])
  BY DEF TableInv
<1>3. CASE Advance(c)
  <2> DEFINE g == reached[c] + 1
             t == Transition(g, c, Presented(g, c, tip[c].outs[ParentVout(reached[c], c)].row), 1)
  <2>1. g \in Gens /\ g > 0
    BY <1>0, <1>1, <1>3 DEF Advance, Gens
  <2>2. /\ tip' = [tip EXCEPT ![c] = t] /\ reached' = [reached EXCEPT ![c] = g]
        /\ rowOf' = RecordGeneration(g, t.presented) /\ rec' = RecordTx(g, c, t)
        /\ refused' = refused /\ c \notin refused
    BY <1>3 DEF Advance
  <2>3. Shaped(t)
    BY TransitionShaped
  <2> HIDE DEF t
  <2>4. DOMAIN tip' = Cells /\ \A d \in Cells : Shaped(tip'[d])
    BY <2>2, <2>3 DEF TableInv
  <2>7. \A e \in Gens, f \in Cells : e # g \/ f # c => rec'[e][f] = rec[e][f]
    BY <2>1, <2>2, <2>3, Recorded
  <2>8. Table(rec')
    BY <2>1, <2>2, <2>3, Recorded
  <2>9. \A e \in Gens, f \in Cells : Entry(rec'[e][f])
    <3> TAKE e \in Gens, f \in Cells
    <3>1. CASE e = g /\ f = c
      BY <2>1, <2>2, <2>3, <3>1, Recorded
    <3>2. CASE e # g \/ f # c
      <4>1. rec'[e][f] = rec[e][f]
        BY <2>1, <2>2, <2>3, <3>2, Recorded
      <4> QED BY <4>1 DEF TableInv
    <3> QED BY <3>1, <3>2
  <2>10. DOMAIN rowOf' \in {DOMAIN rowOf, DOMAIN rowOf \cup {g}}
    BY <2>2 DEF RecordGeneration, Put
  <2>11. \A d \in Cells : \A e \in 1 .. reached'[d] : rec'[e][d].status # "none"
    <3> TAKE d \in Cells
    <3> TAKE e \in 1 .. reached'[d]
    <3>1. reached'[d] \in Gens /\ e \in Gens
      BY <1>0, <2>1, <2>2 DEF TableInv, Gens
    <3>2. CASE e = g /\ d = c
      BY <2>1, <2>2, <2>3, <3>2, Recorded
    <3>3. CASE e # g \/ d # c
      <4>1. rec'[e][d] = rec[e][d]
        BY <2>7, <3>1, <3>3
      <4>2. e \in 1 .. reached[d]
        BY <1>1, <2>2, <3>1, <3>3 DEF TableInv, Gens
      <4> QED BY <4>1, <4>2 DEF TableInv
    <3> QED BY <3>2, <3>3
  <2>12. reached' \in [Cells -> Gens] /\ refused' \subseteq {d \in Cells : reached'[d] > 0}
    BY <2>1, <2>2 DEF TableInv
  <2>13. 0 \in DOMAIN rowOf' /\ DOMAIN rowOf' \subseteq Gens
    BY <2>1, <2>10 DEF TableInv
  <2> QED BY <2>4, <2>8, <2>9, <2>11, <2>12, <2>13 DEF TableInv
<1>4. CASE Refuse(c)
  <2>1. /\ tip' = tip /\ reached' = reached /\ rowOf' = rowOf
        /\ refused' = refused \cup {c} /\ reached[c] > 0
    BY <1>4 DEF Refuse
  <2>2. \A e \in Gens, f \in Cells : Entry(rec'[e][f])
    <3> TAKE e \in Gens, f \in Cells
    <3>2. CASE e = reached[c] /\ f = c
      BY <1>4, <3>2, Marked
    <3>3. CASE e # reached[c] \/ f # c
      <4>1. rec'[e][f] = rec[e][f]
        BY <1>4, <3>3, Marked
      <4> QED BY <4>1 DEF TableInv
    <3> QED BY <3>2, <3>3
  <2>3. \A f \in Cells : \A e \in 1 .. reached[f] : rec'[e][f].status # "none"
    <3> TAKE f \in Cells
    <3> TAKE e \in 1 .. reached[f]
    <3>1. e \in Gens
      BY <1>0 DEF TableInv, Gens
    <3>2. CASE e = reached[c] /\ f = c
      BY <1>4, <3>2, Marked
    <3>3. CASE e # reached[c] \/ f # c
      <4>1. rec'[e][f] = rec[e][f]
        BY <1>4, <3>1, <3>3, Marked
      <4> QED BY <4>1 DEF TableInv
    <3> QED BY <3>2, <3>3
  <2>4. Table(rec')
    BY <1>4, Marked
  <2> QED BY <2>1, <2>2, <2>3, <2>4 DEF TableInv
<1>5. CASE Rebuild(c)
  <2> DEFINE g == reached[c]
             t == [tip[c] EXCEPT !.try = 2]
  <2>1. /\ tip' = [tip EXCEPT ![c] = t] /\ reached' = reached /\ rowOf' = rowOf
        /\ rec' = RecordTx(g, c, t) /\ refused' = refused \ {c}
    BY <1>5 DEF Rebuild
  <2>2. Shaped(t)
    BY <1>2 DEF Shaped, Fields
  <2> HIDE DEF t
  <2>4. DOMAIN tip' = Cells /\ \A d \in Cells : Shaped(tip'[d])
    BY <2>1, <2>2 DEF TableInv
  <2>8. Table(rec')
    BY <1>1, <2>1, <2>2, Recorded
  <2>9. \A e \in Gens, f \in Cells : Entry(rec'[e][f])
    <3> TAKE e \in Gens, f \in Cells
    <3>1. CASE e = g /\ f = c
      BY <1>1, <2>1, <2>2, <3>1, Recorded
    <3>2. CASE e # g \/ f # c
      <4>1. rec'[e][f] = rec[e][f]
        BY <1>1, <2>1, <2>2, <3>2, Recorded
      <4> QED BY <4>1 DEF TableInv
    <3> QED BY <3>1, <3>2
  <2>10. \A f \in Cells : \A e \in 1 .. reached[f] : rec'[e][f].status # "none"
    <3> TAKE f \in Cells
    <3> TAKE e \in 1 .. reached[f]
    <3>1. e \in Gens
      BY <1>0 DEF TableInv, Gens
    <3>2. CASE e = g /\ f = c
      BY <1>1, <2>1, <2>2, <3>2, Recorded
    <3>3. CASE e # g \/ f # c
      <4>1. rec'[e][f] = rec[e][f]
        BY <1>1, <2>1, <2>2, <3>1, <3>3, Recorded
      <4> QED BY <4>1 DEF TableInv
    <3> QED BY <3>2, <3>3
  <2> QED BY <2>1, <2>4, <2>8, <2>9, <2>10 DEF TableInv
<1> QED BY <1>3, <1>4, <1>5

\* What the auditor loads is a generation as the tables have it.
LEMMA LoadedEntries ==
  ASSUME TableInv, WalkInv, NEW g \in DOMAIN rowOf
  PROVE  /\ DOMAIN Loaded(g) = DOMAIN seen \cup {g}
         /\ DOMAIN Loaded(g) \subseteq Gens
         /\ Loaded(g)[g].row = rowOf[g] /\ Loaded(g)[g].rec = rec[g]
         /\ \A h \in DOMAIN seen : h # g => Loaded(g)[h] = seen[h]
         /\ \A h \in DOMAIN Loaded(g), c \in Cells : Entry(Loaded(g)[h].rec[c])
<1>1. g \in Gens
  BY DEF TableInv
<1>2. /\ DOMAIN Loaded(g) = DOMAIN seen \cup {g}
      /\ Loaded(g)[g] = [row |-> rowOf[g], rec |-> rec[g]]
      /\ \A h \in DOMAIN seen : h # g => Loaded(g)[h] = seen[h]
  BY DEF Loaded, Put
<1> QED BY <1>1, <1>2 DEF TableInv, WalkInv

\* The auditor's steps keep the walk.
LEMMA WalkNext ==
  ASSUME TableInv, WalkInv, Next
  PROVE  WalkInv'
<1>0. MaxGen \in Nat
  BY AuditAssumption
<1>1. CASE EngineMoves
  <2>1. UNCHANGED <<auditor, seen>>
    BY <1>1 DEF EngineMoves, Advance, Refuse, Rebuild
  <2> QED BY <2>1 DEF WalkInv
<1>2. ASSUME NEW last \in 1 .. MaxGen + 1, Begin(last) PROVE WalkInv'
  <2> DEFINE final == Max(DOMAIN rowOf)
             first == IF final + 1 > last THEN final + 1 - last ELSE 0
  <2>1. final \in Gens
    BY NewestExists DEF TableInv
  <2>2. first \in Nat /\ first <= final
    BY <1>0, <2>1 DEF Gens
  <2>3. /\ auditor' = [pc |-> "reading", first |-> first, final |-> final,
                        at |-> first, held |-> FALSE]
        /\ seen' = seen
    BY <1>2 DEF Begin
  <2> HIDE DEF first, final
  <2>4. final \in Nat
    BY <2>1 DEF Gens
  <2> QED BY <2>1, <2>2, <2>3, <2>4 DEF WalkInv
<1>3. CASE LoadPrevious
  <2> DEFINE g == auditor.at - 1
  <2>1. CASE g \in DOMAIN rowOf
    <3>1. seen' = Loaded(g) /\ auditor' = [auditor EXCEPT !.held = TRUE] /\ auditor.at > 0
      BY <1>3, <2>1 DEF LoadPrevious
    <3>2. /\ DOMAIN seen' \subseteq Gens /\ g \in DOMAIN seen'
          /\ \A h \in DOMAIN seen', c \in Cells : Entry(seen'[h].rec[c])
      BY <2>1, <3>1, LoadedEntries
    <3> QED BY <3>1, <3>2 DEF WalkInv
  <2>2. CASE g \notin DOMAIN rowOf
    <3>1. /\ seen' = seen /\ auditor' = [auditor EXCEPT !.pc = "orphan"]
          /\ auditor.at > 0 /\ auditor.pc = "reading"
      BY <1>3, <2>2 DEF LoadPrevious
    <3> QED BY <3>1 DEF WalkInv
  <2> QED BY <2>1, <2>2
<1>4. CASE AuditGeneration
  <2> DEFINE g == auditor.at
             held == g \in DOMAIN rowOf
  <2>1. /\ seen' = IF held THEN Loaded(g) ELSE seen
        /\ MoveOn(held, failures') /\ auditor.pc # "idle"
    BY <1>4 DEF AuditGeneration
  <2>2. /\ DOMAIN seen \subseteq DOMAIN seen' /\ DOMAIN seen' \subseteq Gens
        /\ held => g \in DOMAIN seen'
        /\ \A h \in DOMAIN seen', c \in Cells : Entry(seen'[h].rec[c])
    <3>1. CASE held
      <4>1. seen' = Loaded(g)
        BY <2>1, <3>1
      <4> QED BY <3>1, <4>1, LoadedEntries
    <3>2. CASE ~held
      <4>1. seen' = seen
        BY <2>1, <3>2
      <4> QED BY <3>2, <4>1 DEF WalkInv
    <3> QED BY <3>1, <3>2
  <2>3. held \in BOOLEAN /\ g \in Nat /\ auditor.final \in Nat /\ auditor.first \in Nat
    BY DEF WalkInv, Gens
  <2>4. CASE auditor' = [auditor EXCEPT !.pc = "done"]
    BY <2>1, <2>2, <2>4 DEF WalkInv
  <2>5. CASE /\ auditor.at # auditor.final
             /\ auditor' = [auditor EXCEPT !.pc = "reading", !.at = @ + 1, !.held = held]
    <3>1. /\ auditor'.pc = "reading" /\ auditor'.first = auditor.first
          /\ auditor'.final = auditor.final /\ auditor'.at = g + 1 /\ auditor'.held = held
      BY <2>5 DEF WalkInv
    <3>2. auditor' \in [pc : {"idle", "reading", "orphan", "done"},
                        first : Nat, final : Gens, at : Nat, held : BOOLEAN]
      <4>1. auditor \in [pc : {"idle", "reading", "orphan", "done"},
                         first : Nat, final : Gens, at : Nat, held : BOOLEAN]
        BY DEF WalkInv
      <4>2. auditor.at + 1 \in Nat /\ held \in BOOLEAN
        BY <2>3
      <4> HIDE DEF held
      <4> QED BY <2>5, <4>1, <4>2
    <3>3. g + 1 \in auditor.first .. auditor.final
      BY <2>1, <2>3, <2>5 DEF WalkInv
    <3>4. held => g + 1 > 0 /\ (g + 1) - 1 \in DOMAIN seen'
      BY <2>2, <2>3
    <3> QED BY <2>2, <3>1, <3>2, <3>3, <3>4 DEF WalkInv
  <2> QED BY <2>1, <2>4, <2>5 DEF MoveOn
<1> QED BY <1>1, <1>2, <1>3, <1>4 DEF Next, EngineMoves

\* The tables and the walk, step by step.
LEMMA TablesNext ==
  ASSUME TableInv, WalkInv, [Next]_vars
  PROVE  TableInv' /\ WalkInv'
<1>1. CASE Next
  <2>1. CASE EngineMoves
    BY <1>1, <2>1, TablesEngine, WalkNext
  <2>2. CASE ~EngineMoves
    <3>1. UNCHANGED engine
      BY <1>1, <2>2 DEF Next, EngineMoves, Begin, LoadPrevious, AuditGeneration
    <3>2. TableInv'
      BY <3>1 DEF TableInv, engine
    <3> QED BY <1>1, <3>2, WalkNext
  <2> QED BY <2>1, <2>2
<1>2. CASE UNCHANGED vars
  BY <1>2 DEF vars, engine, TableInv, WalkInv
<1> QED BY <1>1, <1>2

-----------------------------------------------------------------------------
(***************************************************************************)
(* An honest deployment: at each generation every cell, row and record     *)
(* agrees with one run of the automaton.                                   *)
(***************************************************************************)
IsRun(R) == R[0] = seed /\ \A g \in Gens \ {0} : R[g] = Step(R[g - 1])

\* What transaction t of cell c at generation g says in the run R.
Genuine(t, g, c, R) ==
  /\ ParentVout(g, c) \in DOMAIN t.outs
  /\ t.outs[ParentVout(g, c)] = LockingScript(c, R[g])
  /\ g > 0 => /\ t.vout = ParentVout(g - 1, c)
              /\ t.presented = R[g]
              /\ t.commits = LockingScript(c, R[g - 1])

\* What is recorded of a cell: the transactions it made, each the parent of the next.
EntryHonest(g, c, R) ==
  /\ g > reached[c] => rec[g][c].status = "none"
  /\ rec[g][c].status # "none" =>
       /\ Genuine(rec[g][c].tx, g, c, R)
       /\ g = reached[c] => rec[g][c].tx = tip[c]
       /\ g > 0 /\ rec[g - 1][c].status # "none" => rec[g][c].tx.spends = rec[g - 1][c].tx

RecordHonest(R) ==
  /\ \A g \in DOMAIN rowOf : rowOf[g] = R[g]
  /\ \A c \in Cells : Genuine(tip[c], reached[c], c, R)
  /\ \A g \in Gens, c \in Cells : EntryHonest(g, c, R)

SeenHonest(R) ==
  \A g \in DOMAIN seen :
    /\ seen[g].row = R[g]
    /\ \A c \in Cells : seen[g].rec[c].status # "none" => rec[g][c].status # "none"

\* The one alarm there may be: a link from a transaction that is no longer the
\* record's, of a generation the walk has left behind.
Excused(f) ==
  /\ f.check = "linkage" /\ f.gen \in Nat /\ f.gen > 0 /\ f.cell \in Cells
  /\ f.gen <= reached[f.cell]
  /\ auditor.pc # "idle" /\ (auditor.pc = "done" \/ f.gen < auditor.at)
  /\ f.gen - 1 \in DOMAIN seen
  /\ Overtaken(f.gen - 1, f.cell)

HonestInv ==
  fault.kind \in Harmless =>
    /\ \E R : IsRun(R) /\ RecordHonest(R) /\ SeenHonest(R)
    /\ \A f \in failures : Excused(f)

\* From any seed the automaton runs as far as the bound.
LEMMA RunExists == \E R : IsRun(R)
<1>1. MaxGen \in Nat
  BY AuditAssumption
<1> DEFINE Reaches(n, R) == R[0] = seed /\ \A g \in 1 .. n : R[g] = Step(R[g - 1])
           Short == {n \in Nat : ~ \E R : Reaches(n, R)}
<1>2. Short = {}
  <2> SUFFICES ASSUME Short # {} PROVE FALSE
    OBVIOUS
  <2>1. PICK n \in Short : \A m \in Short : n <= m
    BY LeastExists
  <2>2. Reaches(0, [g \in {0} |-> seed])
    OBVIOUS
  <2>3. n # 0
    BY <2>1, <2>2
  <2>4. n \in Nat /\ n - 1 \in Nat /\ n - 1 \notin Short
    BY <2>1, <2>3
  <2>5. PICK R : Reaches(n - 1, R)
    BY <2>4
  <2> DEFINE S == [g \in 0 .. n |-> IF g = n THEN Step(R[n - 1]) ELSE R[g]]
  <2>6. S[0] = seed
    BY <2>3, <2>4, <2>5
  <2>7. \A g \in 1 .. n : S[g] = Step(S[g - 1])
    <3> TAKE g \in 1 .. n
    <3>1. g \in 0 .. n /\ g - 1 \in 0 .. n /\ g - 1 # n
      BY <2>4
    <3>2. S[g - 1] = R[g - 1]
      BY <3>1
    <3>3. CASE g = n
      BY <3>1, <3>2, <3>3
    <3>4. CASE g # n
      <4>1. S[g] = R[g] /\ g \in 1 .. n - 1
        BY <2>4, <3>1, <3>4
      <4> QED BY <2>5, <3>2, <4>1
    <3> QED BY <3>3, <3>4
  <2>8. Reaches(n, S)
    BY <2>6, <2>7
  <2> QED BY <2>1, <2>8
<1>3. \E R : Reaches(MaxGen, R)
  BY <1>1, <1>2
<1> QED BY <1>1, <1>3 DEF IsRun, Gens

\* The transition an honest engine makes, and the row it records.
LEMMA AdvanceHonest ==
  ASSUME fault.kind \in Harmless, TableInv, NEW R, IsRun(R), RecordHonest(R),
         NEW c \in Cells, Advance(c)
  PROVE  LET g == reached[c] + 1
             t == Transition(g, c, R[g], 1)
         IN /\ g \in Gens /\ g > 0
            /\ tip' = [tip EXCEPT ![c] = t] /\ reached' = [reached EXCEPT ![c] = g]
            /\ rec' = RecordTx(g, c, t) /\ rowOf' = RecordGeneration(g, R[g])
            /\ Genuine(t, g, c, R) /\ t.spends = tip[c]
<1> DEFINE g == reached[c] + 1
           row == tip[c].outs[ParentVout(reached[c], c)].row
           t == Transition(g, c, R[g], 1)
<1>1. MaxGen \in Nat /\ reached[c] \in Nat /\ reached[c] < MaxGen
  BY AuditAssumption DEF TableInv, Gens, Advance
<1>2. g \in Gens /\ g > 0 /\ g - 1 = reached[c]
  BY <1>1 DEF Gens
<1>3. /\ ParentVout(g - 1, c) \in DOMAIN tip[c].outs
      /\ tip[c].outs[ParentVout(g - 1, c)] = LockingScript(c, R[g - 1])
  BY <1>2 DEF RecordHonest, Genuine
<1>4. row = R[g - 1]
  BY <1>2, <1>3 DEF LockingScript
<1>5. R[g] = Step(R[g - 1])
  BY <1>2 DEF IsRun
<1>6. /\ ~BefallsCell("strayed_far", g, c) /\ ~BefallsCell("strayed_near", g, c)
      /\ ~BefallsCell("wrong_bit", g, c) /\ ~BefallsCell("disguised", g, c)
      /\ ~BefallsCell("wrong_output", g, c) /\ ~BefallsCell("unlinked", g, c)
      /\ ~BefallsCell("unbound", g, c)
  BY DEF Harmless, BefallsCell, Befalls
<1>7. Presented(g, c, row) = R[g]
  BY <1>4, <1>5, <1>6 DEF Presented
<1>8. /\ t.spends = tip[c] /\ t.vout = ParentVout(g - 1, c) /\ t.presented = R[g]
      /\ t.outs = [v \in {0} |-> LockingScript(tip[c].outs[ParentVout(g - 1, c)].cell, R[g])]
      /\ t.commits = tip[c].outs[ParentVout(g - 1, c)]
  BY <1>6 DEF Transition
<1>9. tip[c].outs[ParentVout(g - 1, c)].cell = c
  BY <1>3 DEF LockingScript
<1>10. Genuine(t, g, c, R)
  BY <1>2, <1>3, <1>8, <1>9 DEF Genuine, ParentVout
<1>11. t.presented = R[g]
  BY <1>8
<1>12. /\ tip' = [tip EXCEPT ![c] = t] /\ reached' = [reached EXCEPT ![c] = g]
       /\ rec' = RecordTx(g, c, t) /\ rowOf' = RecordGeneration(g, t.presented)
  BY <1>7 DEF Advance
<1> QED BY <1>2, <1>8, <1>10, <1>11, <1>12

\* The engine of an honest deployment keeps its record in the run.
LEMMA HonestEngine ==
  ASSUME fault.kind \in Harmless, TableInv, NEW R, IsRun(R), RecordHonest(R), EngineMoves
  PROVE  /\ RecordHonest(R)'
         /\ \A g \in Gens, c \in Cells : rec[g][c].status # "none" => rec'[g][c].status # "none"
         /\ \A g \in Gens, c \in Cells : g < reached[c] => rec'[g][c] = rec[g][c]
         /\ \A c \in Cells : reached[c] <= reached'[c]
<1> PICK c \in Cells : Advance(c) \/ Refuse(c) \/ Rebuild(c)
  BY DEF EngineMoves
<1>0. /\ MaxGen \in Nat /\ DOMAIN tip = Cells /\ DOMAIN reached = Cells
      /\ \A d \in Cells : reached[d] \in Gens /\ reached[d] \in Nat
  BY AuditAssumption DEF TableInv, Gens
<1>1. \A g \in Gens, d \in Cells : EntryHonest(g, d, R)
  BY DEF RecordHonest
<1>2. fault.kind # "crossed"
  BY DEF Harmless
<1>3. CASE Advance(c)
  <2> DEFINE g == reached[c] + 1
             t == Transition(g, c, R[g], 1)
  <2>1. /\ g \in Gens /\ g > 0
        /\ tip' = [tip EXCEPT ![c] = t] /\ reached' = [reached EXCEPT ![c] = g]
        /\ rec' = RecordTx(g, c, t) /\ rowOf' = RecordGeneration(g, R[g])
        /\ Genuine(t, g, c, R) /\ t.spends = tip[c] /\ Shaped(t)
    BY <1>3, AdvanceHonest, TransitionShaped
  <2> HIDE DEF t
  <2>2. /\ rec'[g][c].status = "broadcast" /\ rec'[g][c].tx = t
        /\ \A h \in Gens, d \in Cells : h # g \/ d # c => rec'[h][d] = rec[h][d]
    BY <1>2, <2>1, Recorded
  <2>3. /\ tip'[c] = t /\ reached'[c] = g
        /\ \A d \in Cells \ {c} : tip'[d] = tip[d] /\ reached'[d] = reached[d]
    BY <1>0, <2>1
  <2>4. \A h \in DOMAIN rowOf' : rowOf'[h] = R[h]
    <3>1. ~Befalls("row", g)
      BY DEF Harmless, Befalls
    <3>2. rowOf' \in {rowOf, Put(rowOf, g, R[g])}
      BY <2>1, <3>1 DEF RecordGeneration
    <3> QED BY <3>2 DEF Put, RecordHonest
  <2>5. \A h \in Gens, d \in Cells : EntryHonest(h, d, R)'
    <3> TAKE h \in Gens, d \in Cells
    <3>1. h \in Nat /\ g - 1 = reached[c] /\ reached[c] \in Gens
      BY <1>0 DEF Gens
    <3>2. CASE d # c
      <4>1. rec'[h][d] = rec[h][d] /\ (h > 0 => rec'[h - 1][d] = rec[h - 1][d])
        BY <1>0, <2>2, <3>1, <3>2 DEF Gens
      <4> QED BY <1>1, <2>3, <3>2, <4>1 DEF EntryHonest
    <3>3. CASE d = c /\ h > g
      BY <1>0, <1>1, <2>2, <2>3, <3>1, <3>3 DEF EntryHonest
    <3>4. CASE d = c /\ h = g
      <4>1. rec'[g - 1][c] = rec[g - 1][c]
        BY <1>0, <2>2, <3>1
      <4>2. rec[g - 1][c].status # "none" => rec[g - 1][c].tx = tip[c]
        BY <1>1, <3>1 DEF EntryHonest
      <4> QED BY <1>0, <2>1, <2>2, <2>3, <3>1, <3>4, <4>1, <4>2 DEF EntryHonest
    <3>5. CASE d = c /\ h < g
      <4>1. rec'[h][d] = rec[h][d] /\ (h > 0 => rec'[h - 1][d] = rec[h - 1][d])
        BY <1>0, <2>2, <3>1, <3>5 DEF Gens
      <4>2. ~(h > reached'[d]) /\ h # reached'[d]
        BY <1>0, <2>3, <3>1, <3>5
      <4> QED BY <1>1, <4>1, <4>2 DEF EntryHonest
    <3> QED BY <1>0, <3>1, <3>2, <3>3, <3>4, <3>5
  <2>6. \A d \in Cells : Genuine(tip'[d], reached'[d], d, R)
    BY <2>1, <2>3 DEF RecordHonest
  <2>7. \A h \in Gens, d \in Cells : rec[h][d].status # "none" => rec'[h][d].status # "none"
    BY <2>2
  <2>8. \A h \in Gens, d \in Cells : h < reached[d] => rec'[h][d] = rec[h][d]
    BY <1>0, <2>2
  <2>9. \A d \in Cells : reached[d] <= reached'[d]
    BY <1>0, <2>3
  <2> QED BY <2>4, <2>5, <2>6, <2>7, <2>8, <2>9 DEF RecordHonest
<1>4. CASE Refuse(c)
  <2>1. tip' = tip /\ reached' = reached /\ rowOf' = rowOf
    BY <1>4 DEF Refuse
  <2>2. /\ rec'[reached[c]][c].status = "failed"
        /\ rec'[reached[c]][c].tx = rec[reached[c]][c].tx
        /\ \A h \in Gens, d \in Cells : h # reached[c] \/ d # c => rec'[h][d] = rec[h][d]
    BY <1>4, Marked
  <2>3. rec[reached[c]][c].status # "none"
    BY <1>0, <1>4 DEF TableInv, Refuse
  <2>4. \A h \in Gens, d \in Cells :
          /\ rec'[h][d].tx = rec[h][d].tx
          /\ rec'[h][d].status # "none" <=> rec[h][d].status # "none"
    BY <2>2, <2>3
  <2>5. \A h \in Gens, d \in Cells : EntryHonest(h, d, R)'
    <3> TAKE h \in Gens, d \in Cells
    <3>1. h > 0 => h - 1 \in Gens
      BY <1>0 DEF Gens
    <3> QED BY <1>1, <2>1, <2>4, <3>1 DEF EntryHonest
  <2>6. \A h \in Gens, d \in Cells : h < reached[d] => rec'[h][d] = rec[h][d]
    BY <1>0, <2>2
  <2> QED BY <1>0, <2>1, <2>4, <2>5, <2>6 DEF RecordHonest
<1>5. CASE Rebuild(c)
  <2> DEFINE g == reached[c]
             t == [tip[c] EXCEPT !.try = 2]
  <2>1. /\ tip' = [tip EXCEPT ![c] = t] /\ reached' = reached /\ rowOf' = rowOf
        /\ rec' = RecordTx(g, c, t) /\ g > 0 /\ g \in Gens
    BY <1>0, <1>5 DEF Rebuild, TableInv
  <2>2. Shaped(tip[c])
    BY DEF TableInv
  <2>3. /\ Shaped(t) /\ t.spends = tip[c].spends /\ t.vout = tip[c].vout
        /\ t.outs = tip[c].outs /\ t.presented = tip[c].presented /\ t.commits = tip[c].commits
    BY <2>2 DEF Shaped, Fields
  <2> HIDE DEF t
  <2>4. /\ rec'[g][c].status = "broadcast" /\ rec'[g][c].tx = t
        /\ \A h \in Gens, d \in Cells : h # g \/ d # c => rec'[h][d] = rec[h][d]
    BY <1>2, <2>1, <2>3, Recorded
  <2>5. tip'[c] = t /\ \A d \in Cells \ {c} : tip'[d] = tip[d]
    BY <1>0, <2>1
  <2>6. Genuine(t, g, c, R)
    BY <2>3 DEF RecordHonest, Genuine
  <2>7. rec[g][c].status # "none" /\ rec[g][c].tx = tip[c]
    <3>1. rec[g][c].status # "none"
      BY <1>0, <2>1 DEF TableInv
    <3> QED BY <1>1, <2>1, <3>1 DEF EntryHonest
  <2>8. \A h \in Gens, d \in Cells : EntryHonest(h, d, R)'
    <3> TAKE h \in Gens, d \in Cells
    <3>1. h \in Nat /\ (h > 0 => h - 1 \in Gens)
      BY <1>0 DEF Gens
    <3>2. CASE d # c
      <4>1. rec'[h][d] = rec[h][d] /\ (h > 0 => rec'[h - 1][d] = rec[h - 1][d])
        BY <2>4, <3>1, <3>2
      <4> QED BY <1>1, <2>1, <2>5, <3>2, <4>1 DEF EntryHonest
    <3>3. CASE d = c /\ h > g
      <4>1. rec'[h][d] = rec[h][d] /\ rec[h][d].status = "none"
        BY <1>0, <1>1, <2>4, <3>1, <3>3 DEF EntryHonest
      <4> QED BY <4>1 DEF EntryHonest
    <3>4. CASE d = c /\ h = g
      <4>1. rec'[g - 1][c] = rec[g - 1][c]
        BY <1>0, <2>1, <2>4, <3>1, <3>4
      <4>2. rec[g - 1][c].status # "none" => t.spends = rec[g - 1][c].tx
        BY <1>1, <2>1, <2>3, <2>7 DEF EntryHonest
      <4> QED BY <1>0, <2>1, <2>4, <2>5, <2>6, <3>4, <4>1, <4>2 DEF EntryHonest
    <3>5. CASE d = c /\ h < g
      <4>1. rec'[h][d] = rec[h][d] /\ (h > 0 => rec'[h - 1][d] = rec[h - 1][d])
        BY <1>0, <2>4, <3>1, <3>5
      <4>2. ~(h > g) /\ h # g
        BY <1>0, <3>1, <3>5
      <4> QED BY <1>1, <2>1, <3>5, <4>1, <4>2 DEF EntryHonest
    <3> QED BY <1>0, <3>1, <3>2, <3>3, <3>4, <3>5
  <2>9. \A d \in Cells : Genuine(tip'[d], reached'[d], d, R)
    BY <2>1, <2>5, <2>6 DEF RecordHonest
  <2>10. \A h \in Gens, d \in Cells : rec[h][d].status # "none" => rec'[h][d].status # "none"
    BY <2>4
  <2>11. \A h \in Gens, d \in Cells : h < reached[d] => rec'[h][d] = rec[h][d]
    BY <1>0, <2>4
  <2> QED BY <1>0, <2>1, <2>8, <2>9, <2>10, <2>11 DEF RecordHonest
<1> QED BY <1>3, <1>4, <1>5

\* The record of an honest deployment at its start.
LEMMA HonestInit ==
  ASSUME Init
  PROVE  HonestInv
<1> SUFFICES ASSUME fault.kind \in Harmless
             PROVE  \E R : IsRun(R) /\ RecordHonest(R) /\ SeenHonest(R)
  BY DEF Init, HonestInv
<1> PICK R : IsRun(R)
  BY RunExists
<1>1. R[0] = seed /\ 0 \in Gens /\ \A g \in Gens : g \in Nat
  BY AuditAssumption DEF IsRun, Gens
<1> DEFINE t == GenesisTx(seed, fault)
<1>2. \A c \in Cells : tip[c] = t /\ reached[c] = 0
  BY DEF Init
<1>3. \A c \in Cells : GenesisOutput(seed, c, fault) = LockingScript(c, seed)
  BY DEF GenesisOutput, Harmless
<1>4. \A c \in Cells : Genuine(t, 0, c, R)
  BY <1>1, <1>3 DEF GenesisTx, Genuine, ParentVout
<1>5. RecordHonest(R)
  <2>1. \A g \in DOMAIN rowOf : rowOf[g] = R[g]
    BY <1>1 DEF Init
  <2>2. \A c \in Cells : Genuine(tip[c], reached[c], c, R)
    BY <1>2, <1>4
  <2> HIDE DEF t
  <2>3. \A g \in Gens, c \in Cells : EntryHonest(g, c, R)
    <3> TAKE g \in Gens, c \in Cells
    <3>1. CASE g = 0
      <4>1. rec[g][c].status # "none" => rec[g][c].tx = t
        BY <1>2, <3>1 DEF Init, NoRecord
      <4> QED BY <1>2, <1>4, <3>1, <4>1 DEF EntryHonest
    <3>2. CASE g # 0
      <4>1. rec[g][c].status = "none"
        BY <3>2 DEF Init, NoRecord
      <4> QED BY <4>1 DEF EntryHonest
    <3> QED BY <3>1, <3>2
  <2> QED BY <2>1, <2>2, <2>3 DEF RecordHonest
<1>6. SeenHonest(R)
  BY DEF Init, SeenHonest
<1> QED BY <1>5, <1>6

\* What the auditor makes of a cell of an honest deployment: it passes, its
\* evidence is missing, or the transaction before it has been replaced.
LEMMA VerdictHonest ==
  ASSUME fault.kind \in Harmless, TableInv, WalkInv, NEW R, IsRun(R), RecordHonest(R),
         SeenHonest(R), NEW g \in DOMAIN rowOf, g > 0 => g - 1 \in DOMAIN seen,
         NEW c \in Cells, NEW cur, cur = [row |-> rowOf[g], rec |-> rec[g]]
  PROVE  \/ Verdict(g, c, cur) \in {"pass", "gap"}
         \/ /\ Verdict(g, c, cur) = "linkage"
            /\ g > 0 /\ g <= reached[c] /\ Overtaken(g - 1, c)
<1>1. /\ MaxGen \in Nat /\ g \in Gens /\ g \in Nat /\ reached[c] \in Nat
      /\ g > 0 => g - 1 \in Gens
  BY AuditAssumption DEF TableInv, Gens
<1>2. cur.row = R[g] /\ cur.rec = rec[g]
  BY DEF RecordHonest
<1> SUFFICES ASSUME Verdict(g, c, cur) # "gap"
             PROVE  \/ Verdict(g, c, cur) = "pass"
                    \/ /\ Verdict(g, c, cur) = "linkage"
                       /\ g > 0 /\ g <= reached[c] /\ Overtaken(g - 1, c)
  OBVIOUS
<1> DEFINE t == rec[g][c].tx
<1>3. rec[g][c].status # "none"
  BY <1>2 DEF Verdict
<1>4. EntryHonest(g, c, R)
  BY <1>1 DEF RecordHonest
<1>5. g <= reached[c] /\ Genuine(t, g, c, R)
  BY <1>1, <1>3, <1>4 DEF EntryHonest
<1>6. \A h, u : RawTx(h, c, u) \in {NoBytes, u}
  BY DEF RawTx, BefallsCell, Befalls, Harmless
<1>7. CASE g = 0
  <2>1. Verdict(g, c, cur) = GenesisVerdict(c, cur)
    BY <1>7 DEF Verdict
  <2>2. RawTx(0, c, t) \in {NoBytes, t}
    BY <1>6
  <2>3. t.outs[c] = LockingScript(c, R[0])
    BY <1>5, <1>7 DEF Genuine, ParentVout
  <2> HIDE DEF t
  <2>4. cur.rec[c].tx = t /\ cur.row = R[0]
    BY <1>2, <1>7 DEF t
  <2>5. RawTx(0, c, t) # NoBytes
    BY <2>1, <2>4 DEF GenesisVerdict, Unavailable
  <2>6. RawTx(0, c, t) = t
    BY <2>2, <2>5
  <2>7. Verdict(g, c, cur) = "pass"
    BY <2>1, <2>3, <2>4, <2>5, <2>6 DEF GenesisVerdict, Identified
  <2> QED BY <2>7
<1>8. CASE g # 0
  <2> DEFINE prev == seen[g - 1]
             p == prev.rec[c].tx
             vout == ParentVout(g - 1, c)
  <2>1. Verdict(g, c, cur) = TransitionVerdict(g, c, cur, prev) /\ g > 0
    BY <1>1, <1>8 DEF Verdict
  <2>2. g - 1 \in DOMAIN seen /\ prev.row = R[g - 1]
    BY <2>1 DEF SeenHonest
  <2> HIDE DEF t, p, prev
  <2>3. cur.rec[c].tx = t
    BY <1>2 DEF t
  <2>4. prev.rec[c].status # "none"
    BY <2>1 DEF TransitionVerdict
  <2>5. RawTx(g, c, t) # NoBytes
    BY <2>1, <2>3, <2>4 DEF TransitionVerdict, Unavailable
  <2>6. RawTx(g, c, t) = t
    BY <1>6, <2>5
  <2>7. RawTx(g - 1, c, p) # NoBytes
    BY <2>1, <2>3, <2>4, <2>5, <2>6 DEF TransitionVerdict, Unavailable, Identified, p
  <2>8. RawTx(g - 1, c, p) = p
    BY <1>6, <2>7
  <2>9. Verdict(g, c, cur) = SpendVerdict(g, c, cur, prev, t, p)
    BY <2>1, <2>3, <2>4, <2>5, <2>6, <2>7, <2>8 DEF TransitionVerdict, Identified, p
  <2>10. rec[g - 1][c].status # "none" /\ EntryHonest(g - 1, c, R)
    BY <1>1, <2>1, <2>2, <2>4 DEF SeenHonest, RecordHonest, prev
  <2>11. t.spends = rec[g - 1][c].tx
    BY <1>3, <1>4, <2>1, <2>10 DEF EntryHonest, t
  <2>12. CASE t.spends # p
    <3>1. Verdict(g, c, cur) = "linkage"
      BY <2>9, <2>12 DEF SpendVerdict, p
    <3>2. Overtaken(g - 1, c)
      BY <2>11, <2>12 DEF Overtaken, p, prev
    <3> QED BY <1>5, <2>1, <3>1, <3>2
  <2>13. CASE t.spends = p
    <3>1. Genuine(p, g - 1, c, R)
      BY <2>10, <2>11, <2>13 DEF EntryHonest
    <3>2. /\ t.vout = vout /\ vout \in DOMAIN p.outs
          /\ p.outs[vout] = LockingScript(c, R[g - 1])
          /\ t.commits = LockingScript(c, R[g - 1]) /\ t.presented = R[g]
          /\ t.outs[0] = LockingScript(c, R[g])
      BY <1>5, <2>1, <3>1 DEF Genuine, ParentVout
    <3>3. Bit(R[g], c) = NextBit(R[g - 1], c)
      BY <1>1, <2>1, StepBit DEF IsRun
    <3>4. p.outs[vout].cell = c /\ p.outs[vout].row = R[g - 1]
      BY <3>2 DEF LockingScript
    <3>5. t.outs[0].cell = c /\ t.outs[0].row = R[g]
      BY <3>2 DEF LockingScript
    <3>6. Carries(c, p.outs[vout], prev.row)
      BY <2>2, <3>4 DEF Carries
    <3>7. SpendVerdict(g, c, cur, prev, t, p) = "pass"
      <4> HIDE DEF vout
      <4> QED BY <1>2, <2>2, <2>13, <3>2, <3>3, <3>4, <3>5, <3>6 DEF SpendVerdict, vout, p
    <3> QED BY <2>9, <3>7
  <2> QED BY <2>12, <2>13
<1> QED BY <1>7, <1>8

\* What is loaded from an honest record is in the run.
LEMMA LoadHonest ==
  ASSUME TableInv, WalkInv, NEW R, RecordHonest(R), SeenHonest(R), NEW g \in DOMAIN rowOf
  PROVE  \A h \in DOMAIN Loaded(g) :
           /\ Loaded(g)[h].row = R[h]
           /\ \A c \in Cells : Loaded(g)[h].rec[c].status # "none" => rec[h][c].status # "none"
<1> TAKE h \in DOMAIN Loaded(g)
<1>1. CASE h = g
  BY <1>1, LoadedEntries DEF RecordHonest
<1>2. CASE h # g
  <2>1. h \in DOMAIN seen /\ Loaded(g)[h] = seen[h]
    BY <1>2, LoadedEntries
  <2> QED BY <2>1 DEF SeenHonest
<1> QED BY <1>1, <1>2

\* An alarm that was excused stays so: the record does not change below the tip,
\* and the walk does not go back.
LEMMA StaysExcused ==
  ASSUME TableInv, WalkInv, WalkInv', NEW f, Excused(f), Next,
         fault.kind \in Harmless, NEW R, IsRun(R), RecordHonest(R)
  PROVE  Excused(f)'
<1> DEFINE g == f.gen - 1
<1>1. /\ f.gen \in Nat /\ f.gen > 0 /\ f.cell \in Cells /\ f.gen <= reached[f.cell]
      /\ auditor.pc # "idle" /\ (auditor.pc = "done" \/ f.gen < auditor.at)
      /\ g \in DOMAIN seen /\ g \in Gens /\ g \in Nat /\ Overtaken(g, f.cell)
      /\ reached[f.cell] \in Nat /\ auditor.at \in Nat
  BY DEF Excused, WalkInv, TableInv, Gens
<1>2. CASE EngineMoves
  <2>1. UNCHANGED <<auditor, seen>>
    BY <1>2 DEF EngineMoves, Advance, Refuse, Rebuild
  <2>2. rec'[g][f.cell] = rec[g][f.cell] /\ reached[f.cell] <= reached'[f.cell]
    BY <1>1, <1>2, HonestEngine
  <2>3. reached'[f.cell] \in Nat
    BY <1>1, <1>2, TablesEngine DEF TableInv, Gens
  <2>4. f.gen <= reached'[f.cell]
    BY <1>1, <2>2, <2>3
  <2>5. Overtaken(g, f.cell)'
    BY <1>1, <2>1, <2>2 DEF Overtaken
  <2> QED BY <1>1, <2>1, <2>4, <2>5 DEF Excused
<1>3. ASSUME NEW last \in 1 .. MaxGen + 1, Begin(last) PROVE Excused(f)'
  BY <1>1, <1>3 DEF Begin
<1>4. ASSUME LoadPrevious \/ AuditGeneration PROVE Excused(f)'
  <2>1. rec' = rec /\ reached' = reached
    BY <1>4 DEF LoadPrevious, AuditGeneration, engine
  <2>2. PICK h \in Nat : /\ h >= f.gen
                         /\ \/ seen' = seen
                            \/ h \in DOMAIN rowOf /\ seen' = Loaded(h)
    <3>1. CASE LoadPrevious
      <4>1. auditor.pc = "reading" /\ auditor.at > 0
        BY <3>1 DEF LoadPrevious
      <4>2. auditor.at - 1 \in Nat /\ auditor.at - 1 >= f.gen
        BY <1>1, <4>1
      <4>3. \/ seen' = seen
            \/ auditor.at - 1 \in DOMAIN rowOf /\ seen' = Loaded(auditor.at - 1)
        BY <3>1 DEF LoadPrevious
      <4> QED BY <4>2, <4>3
    <3>2. CASE AuditGeneration
      <4>1. auditor.at >= f.gen
        BY <1>1, <3>2 DEF AuditGeneration
      <4>2. \/ seen' = seen
            \/ auditor.at \in DOMAIN rowOf /\ seen' = Loaded(auditor.at)
        BY <3>2 DEF AuditGeneration
      <4> QED BY <1>1, <4>1, <4>2
    <3> QED BY <1>4, <3>1, <3>2
  <2>3. g \in DOMAIN seen' /\ seen'[g] = seen[g]
    <3>1. g # h
      BY <1>1, <2>2
    <3> QED BY <1>1, <2>2, <3>1, LoadedEntries
  <2>4. Overtaken(g, f.cell)'
    BY <1>1, <2>1, <2>3 DEF Overtaken
  <2>5. auditor'.pc # "idle" /\ (auditor'.pc = "done" \/ f.gen < auditor'.at)
    <3>1. CASE LoadPrevious
      <4>1. auditor.pc = "reading" /\ f.gen < auditor.at
        BY <1>1, <3>1 DEF LoadPrevious
      <4>2. \/ auditor' = [auditor EXCEPT !.held = TRUE]
            \/ auditor' = [auditor EXCEPT !.pc = "orphan"]
        BY <3>1 DEF LoadPrevious
      <4> QED BY <4>1, <4>2 DEF WalkInv
    <3>2. CASE AuditGeneration
      <4>1. f.gen < auditor.at
        BY <1>1, <3>2 DEF AuditGeneration
      <4>2. \E held : \/ auditor' = [auditor EXCEPT !.pc = "done"]
                      \/ auditor' = [auditor EXCEPT !.pc = "reading", !.at = @ + 1, !.held = held]
        BY <3>2 DEF AuditGeneration, MoveOn
      <4>3. \/ auditor'.pc = "done"
            \/ auditor'.pc = "reading" /\ auditor'.at = auditor.at + 1
        BY <4>2 DEF WalkInv
      <4> QED BY <1>1, <4>1, <4>3
    <3> QED BY <1>4, <3>1, <3>2
  <2> QED BY <1>1, <2>1, <2>3, <2>4, <2>5 DEF Excused
<1> QED BY <1>2, <1>3, <1>4 DEF Next, EngineMoves

\* What a turn of the walk reports of an honest deployment is excused.
LEMMA FoundExcused ==
  ASSUME TableInv, WalkInv, fault.kind \in Harmless, NEW R, IsRun(R), RecordHonest(R),
         SeenHonest(R), AuditGeneration, NEW f \in failures', f \notin failures
  PROVE  Excused(f)'
<1> PICK g : g = auditor.at
  OBVIOUS
<1> DEFINE cur == [row |-> rowOf[g], rec |-> rec[g]]
           verdict(c) == Verdict(g, c, cur)
<1>1. /\ g \in DOMAIN rowOf /\ auditor.pc = "reading" /\ (auditor.held \/ g = 0)
      /\ failures' = failures \cup Findings(g, cur).failures
      /\ seen' = Loaded(g) /\ MoveOn(TRUE, failures')
      /\ rec' = rec /\ reached' = reached
  BY DEF AuditGeneration, engine
<1>2. g \in Nat /\ g \in Gens /\ (g > 0 => g - 1 \in DOMAIN seen)
  BY <1>1 DEF WalkInv, TableInv
<1> HIDE DEF cur
<1>3. cur.row = R[g]
  BY <1>1 DEF cur, RecordHonest
<1>4. cur.row = Expected(g)
  <2>1. CASE g = 0
    BY <1>3, <2>1 DEF Expected, IsRun
  <2>2. CASE g # 0
    <3>1. seen[g - 1].row = R[g - 1]
      BY <1>2, <2>2 DEF SeenHonest
    <3> QED BY <1>2, <1>3, <2>2, <3>1 DEF Expected, IsRun
  <2> QED BY <2>1, <2>2
<1>5. PICK c \in Cells : f = Failure(g, c, verdict(c)) /\ verdict(c) \notin {"pass", "gap"}
  <2>1. f \in Findings(g, cur).failures
    BY <1>1
  <2> QED BY <1>4, <2>1 DEF Findings
<1>6. verdict(c) = "linkage" /\ g > 0 /\ g <= reached[c] /\ Overtaken(g - 1, c)
  BY <1>1, <1>2, <1>5, VerdictHonest DEF cur
<1>7. f.gen = g /\ f.cell = c /\ f.check = "linkage"
  BY <1>5, <1>6 DEF Failure
<1>8. g - 1 # g /\ g - 1 \in DOMAIN seen' /\ seen'[g - 1] = seen[g - 1]
  <2>1. g - 1 # g /\ g - 1 \in DOMAIN seen
    BY <1>2, <1>6
  <2>2. /\ DOMAIN Loaded(g) = DOMAIN seen \cup {g}
        /\ \A h \in DOMAIN seen : h # g => Loaded(g)[h] = seen[h]
    BY <1>1, LoadedEntries
  <2> QED BY <1>1, <2>1, <2>2
<1>9. Overtaken(g - 1, c)'
  BY <1>1, <1>6, <1>8 DEF Overtaken
<1>10. \/ auditor'.pc = "done"
       \/ auditor'.pc = "reading" /\ auditor'.at = g + 1
  BY <1>1 DEF MoveOn, WalkInv
<1>11. g < g + 1
  BY <1>2
<1> QED BY <1>1, <1>2, <1>6, <1>7, <1>8, <1>9, <1>10, <1>11 DEF Excused

\* The invariant of an honest deployment, step by step.
LEMMA HonestNext ==
  ASSUME TableInv, WalkInv, WalkInv', HonestInv, [Next]_vars
  PROVE  HonestInv'
<1> SUFFICES ASSUME fault.kind \in Harmless, fault' = fault, seed' = seed
             PROVE  /\ \E R : IsRun(R)' /\ RecordHonest(R)' /\ SeenHonest(R)'
                    /\ \A f \in failures' : Excused(f)'
  BY DEF HonestInv, Next, Advance, Refuse, Rebuild, Begin, LoadPrevious, AuditGeneration, world, vars
<1> PICK R : IsRun(R) /\ RecordHonest(R) /\ SeenHonest(R)
  BY DEF HonestInv
<1>1. \A f \in failures : Excused(f)
  BY DEF HonestInv
<1>2. IsRun(R)'
  BY DEF IsRun
<1>3. CASE UNCHANGED vars
  BY <1>1, <1>2, <1>3 DEF vars, world, engine, report, RecordHonest, SeenHonest, Excused, Overtaken,
                          EntryHonest
<1>4. CASE Next
  <2>1. RecordHonest(R)'
    <3>1. CASE EngineMoves
      BY <3>1, HonestEngine
    <3>2. CASE ~EngineMoves
      <4>1. UNCHANGED engine
        BY <1>4, <3>2 DEF Next, EngineMoves, Begin, LoadPrevious, AuditGeneration
      <4> QED BY <4>1 DEF engine, RecordHonest, EntryHonest
    <3> QED BY <3>1, <3>2
  <2>2. SeenHonest(R)'
    <3>1. CASE EngineMoves
      <4>1. seen' = seen
        BY <3>1 DEF EngineMoves, Advance, Refuse, Rebuild
      <4>2. \A g \in Gens, c \in Cells : rec[g][c].status # "none" => rec'[g][c].status # "none"
        BY <3>1, HonestEngine
      <4> QED BY <4>1, <4>2 DEF SeenHonest, WalkInv
    <3>2. CASE ~EngineMoves
      <4>1. rec' = rec /\ (seen' = seen \/ \E g \in DOMAIN rowOf : seen' = Loaded(g))
        BY <1>4, <3>2 DEF Next, EngineMoves, Begin, LoadPrevious, AuditGeneration, engine
      <4> QED BY <4>1, LoadHonest DEF SeenHonest
    <3> QED BY <3>1, <3>2
  <2>3. ASSUME NEW f \in failures' PROVE Excused(f)'
    <3>1. CASE f \in failures
      BY <1>1, <1>4, <3>1, StaysExcused
    <3>2. CASE f \notin failures
      <4>1. AuditGeneration
        BY <1>4, <2>3, <3>2 DEF Next, Advance, Refuse, Rebuild, Begin, LoadPrevious, report
      <4> QED BY <2>3, <3>2, <4>1, FoundExcused
    <3> QED BY <3>1, <3>2
  <2> QED BY <1>2, <2>1, <2>2, <2>3
<1> QED BY <1>3, <1>4

\* Beside an engine that advances, is refused and repairs, on a ring of any size
\* under any rule, missing evidence included: an audit of an honest deployment
\* reports nothing but links from a transaction a repair has replaced meanwhile.
THEOREM HonestNoAlarm == Spec => []NoFalseAlarm
<1> DEFINE Inv == TableInv /\ WalkInv /\ HonestInv
<1>1. Init => Inv
  BY TablesInit, HonestInit
<1>2. Inv /\ [Next]_vars => Inv'
  BY TablesNext, HonestNext
<1>3. Inv => NoFalseAlarm
  BY DEF HonestInv, Excused, NoFalseAlarm
<1> QED BY <1>1, <1>2, <1>3, PTL DEF Spec

-----------------------------------------------------------------------------
(***************************************************************************)
(* A clean report, whatever is wrong with the deployment: what the auditor *)
(* has loaded is a chain for every cell.                                   *)
(***************************************************************************)
\* What a transition that passed says, against what was loaded before it.
Spends(g, c) ==
  LET t == seen[g].rec[c].tx
      p == seen[g - 1].rec[c].tx
      vout == ParentVout(g - 1, c)
  IN /\ seen[g - 1].rec[c].status # "none"
     /\ t.spends = p /\ t.vout = vout /\ vout \in DOMAIN p.outs
     /\ p.outs[vout].cell = c /\ p.outs[vout].row = seen[g - 1].row
     /\ t.outs[0].row = t.presented
     /\ Bit(t.outs[0].row, c) = Bit(seen[g].row, c)
     /\ Bit(t.outs[0].row, c) = NextBit(p.outs[vout].row, c)

Passed(g) ==
  /\ g \in DOMAIN seen /\ seen[g].row = Expected(g)
  /\ \A c \in Cells : seen[g].rec[c].status # "none"
  /\ g > 0 => g - 1 \in DOMAIN seen /\ \A c \in Cells : Spends(g, c)

\* The newest generation whose audit is behind the walk.
Audited == IF auditor.pc = "done" THEN auditor.final ELSE auditor.at - 1

CleanInv ==
  auditor.pc # "idle" /\ failures = {} /\ gaps = {} =>
    /\ auditor.at > auditor.first => auditor.held
    /\ \A g \in auditor.first .. Audited : Passed(g)

\* What it takes for a transition to pass.
LEMMA PassMeans ==
  ASSUME NEW g \in Nat, g > 0, NEW c, NEW cur, Verdict(g, c, cur) = "pass"
  PROVE  LET t == cur.rec[c].tx
             p == seen[g - 1].rec[c].tx
             vout == ParentVout(g - 1, c)
         IN /\ cur.rec[c].status # "none" /\ seen[g - 1].rec[c].status # "none"
            /\ t.spends = p /\ t.vout = vout /\ vout \in DOMAIN p.outs
            /\ p.outs[vout].cell = c /\ p.outs[vout].row = seen[g - 1].row
            /\ t.outs[0].row = t.presented
            /\ Bit(t.outs[0].row, c) = Bit(cur.row, c)
            /\ Bit(t.outs[0].row, c) = NextBit(p.outs[vout].row, c)
<1> DEFINE prev == seen[g - 1]
           t == cur.rec[c].tx
           p == prev.rec[c].tx
           vout == ParentVout(g - 1, c)
<1> HIDE DEF prev
<1>1. /\ TransitionVerdict(g, c, cur, prev) = "pass"
      /\ cur.rec[c].status # "none"
  BY DEF Verdict, prev
<1>2. prev.rec[c].status # "none"
  BY <1>1 DEF TransitionVerdict
<1>3. RawTx(g, c, t) = t
  BY <1>1 DEF TransitionVerdict, Identified, Unavailable
<1>4. RawTx(g - 1, c, p) = p
  BY <1>1 DEF TransitionVerdict, Identified, Unavailable
<1> HIDE DEF t, p
<1>5. SpendVerdict(g, c, cur, prev, t, p) = "pass"
  BY <1>1, <1>3, <1>4 DEF TransitionVerdict, Unavailable, t, p
<1> HIDE DEF vout
<1>6. t.spends = p /\ t.vout = vout /\ vout \in DOMAIN p.outs
  BY <1>5 DEF SpendVerdict, p, vout
<1>7. p.outs[vout].cell = c /\ Carries(c, p.outs[vout], prev.row)
  BY <1>5 DEF SpendVerdict, p, vout
<1>8. /\ t.outs[0].row = t.presented
      /\ Bit(t.outs[0].row, c) = Bit(cur.row, c)
      /\ Bit(t.outs[0].row, c) = NextBit(p.outs[vout].row, c)
  BY <1>5 DEF SpendVerdict, p, vout
<1> QED BY <1>1, <1>2, <1>6, <1>7, <1>8 DEF Carries, t, p, vout, prev

\* Nothing found means that every cell was reached and passed.
LEMMA NothingFound ==
  ASSUME NEW g, NEW cur, failures = {}, Findings(g, cur).failures = {},
         Findings(g, cur).gaps = {}
  PROVE  cur.row = Expected(g) /\ \A c \in Cells : Verdict(g, c, cur) = "pass"
<1> DEFINE rowFails == IF cur.row = Expected(g) THEN {} ELSE {Failure(g, Whole, "continuity")}
           verdict == [c \in Cells |-> Verdict(g, c, cur)]
           cellFails(C) == {Failure(g, c, verdict[c]) :
                              c \in {d \in C : verdict[d] \notin {"pass", "gap"}}}
           found(c) == failures \cup rowFails \cup cellFails(0 .. c - 1)
           reachedCells == {c \in Cells : ~Spent(found(c))}
<1>1. /\ Findings(g, cur).failures = rowFails \cup cellFails(reachedCells)
      /\ Findings(g, cur).gaps = {Gap(g, c) : c \in {d \in reachedCells : verdict[d] = "gap"}}
  BY DEF Findings
<1>2. rowFails = {} /\ cellFails(reachedCells) = {}
  BY <1>1
<1>3. cur.row = Expected(g)
  BY <1>2
<1>4. ~Spent({})
  BY FS_EmptySet, AuditAssumption DEF Spent
<1> HIDE DEF rowFails, verdict
<1>5. \A c \in Cells : verdict[c] \in {"pass", "gap"}
  <2> DEFINE Bad == {c \in Cells : verdict[c] \notin {"pass", "gap"}}
  <2> SUFFICES ASSUME Bad # {} PROVE FALSE
    OBVIOUS
  <2>1. Bad \subseteq Nat
    BY DEF Cells
  <2>2. PICK c \in Bad : \A d \in Bad : c <= d
    BY <2>1, LeastExists
  <2>3. \A d \in 0 .. c - 1 : verdict[d] \in {"pass", "gap"}
    BY <2>1, <2>2, RingAssumption DEF Cells
  <2>4. found(c) = {}
    BY <1>2, <2>3
  <2>5. c \in reachedCells
    BY <1>4, <2>2, <2>4
  <2>6. Failure(g, c, verdict[c]) \in cellFails(reachedCells)
    BY <2>2, <2>5
  <2> QED BY <1>2, <2>6
<1>6. \A c \in Cells : c \in reachedCells
  <2> TAKE c \in Cells
  <2>1. 0 .. c - 1 \subseteq Cells
    BY RingAssumption DEF Cells
  <2>2. found(c) = {}
    BY <1>2, <1>5, <2>1
  <2> QED BY <1>4, <2>2
<1>7. \A c \in Cells : verdict[c] # "gap"
  <2> SUFFICES ASSUME NEW c \in Cells, verdict[c] = "gap" PROVE FALSE
    OBVIOUS
  <2>1. c \in {d \in reachedCells : verdict[d] = "gap"}
    BY <1>6
  <2> HIDE DEF reachedCells
  <2>2. Gap(g, c) \in Findings(g, cur).gaps
    BY <1>1, <2>1
  <2> QED BY <2>2
<1>8. \A c \in Cells : verdict[c] = Verdict(g, c, cur)
  BY DEF verdict
<1> QED BY <1>3, <1>5, <1>7, <1>8

\* What has passed stays so while neither of the two generations is loaded again.
LEMMA StaysPassed ==
  ASSUME NEW g \in Nat, Passed(g), seed' = seed, g \in DOMAIN seen', seen'[g] = seen[g],
         g > 0 => g - 1 \in DOMAIN seen' /\ seen'[g - 1] = seen[g - 1]
  PROVE  Passed(g)'
<1>1. Expected(g)' = Expected(g)
  BY DEF Expected, Passed
<1>2. g > 0 => \A c \in Cells : Spends(g, c)'
  BY DEF Passed, Spends
<1> QED BY <1>1, <1>2 DEF Passed

\* A clean walk, step by step.
LEMMA CleanNext ==
  ASSUME TableInv, WalkInv, WalkInv', CleanInv, [Next]_vars
  PROVE  CleanInv'
<1> SUFFICES ASSUME auditor'.pc # "idle", failures' = {}, gaps' = {}
             PROVE  /\ auditor'.at > auditor'.first => auditor'.held
                    /\ \A g \in auditor'.first .. Audited' : Passed(g)'
  BY DEF CleanInv
<1>0. /\ auditor \in [pc : {"idle", "reading", "orphan", "done"},
                      first : Nat, final : Gens, at : Nat, held : BOOLEAN]
      /\ auditor.final \in Nat /\ auditor.at \in Nat /\ auditor.first \in Nat
  BY DEF WalkInv, Gens
<1>1. seed' = seed
  BY DEF Next, Advance, Refuse, Rebuild, Begin, LoadPrevious, AuditGeneration, world, vars
<1>2. CASE UNCHANGED <<auditor, seen, report>>
  <2>1. \A g : Passed(g) => Passed(g)'
    BY <1>1, <1>2 DEF Passed, Expected, Spends
  <2> QED BY <1>2, <2>1 DEF CleanInv, Audited, report
<1>3. ASSUME NEW last \in 1 .. MaxGen + 1, Begin(last)
      PROVE  /\ auditor'.at = auditor'.first /\ auditor'.pc = "reading"
             /\ auditor'.first \in Nat
  BY <1>3 DEF Begin, WalkInv
<1>4. CASE LoadPrevious
  <2>1. /\ auditor.pc = "reading" /\ failures = {} /\ gaps = {} /\ ~auditor.held
        /\ auditor'.at = auditor.at /\ auditor'.first = auditor.first
        /\ auditor'.pc \in {"reading", "orphan"}
    BY <1>0, <1>4 DEF LoadPrevious, report
  <2>2. ~(auditor.at > auditor.first)
    BY <2>1 DEF CleanInv
  <2> QED BY <1>0, <2>1, <2>2 DEF Audited
<1>5. CASE AuditGeneration
  <2> PICK g : g = auditor.at
    OBVIOUS
  <2> DEFINE cur == [row |-> rowOf[g], rec |-> rec[g]]
  <2>1. gaps = {} /\ failures = {} /\ g \in DOMAIN rowOf /\ auditor.pc = "reading"
    BY <1>5 DEF AuditGeneration
  <2>2. /\ Findings(g, cur).failures = {} /\ Findings(g, cur).gaps = {}
        /\ seen' = Loaded(g) /\ MoveOn(TRUE, {}) /\ (auditor.held \/ g = 0)
    BY <1>5, <2>1 DEF AuditGeneration
  <2>3. /\ cur.row = rowOf[g] /\ cur.rec = rec[g]
        /\ DOMAIN seen' = DOMAIN seen \cup {g}
        /\ seen'[g].row = rowOf[g] /\ seen'[g].rec = rec[g]
        /\ \A h \in DOMAIN seen : h # g => seen'[h] = seen[h]
    BY <2>1, <2>2, LoadedEntries
  <2> HIDE DEF cur
  <2>4. cur.row = Expected(g) /\ \A c \in Cells : Verdict(g, c, cur) = "pass"
    BY <2>1, <2>2, NothingFound
  <2>5. g \in Nat /\ (g > 0 => g - 1 \in DOMAIN seen /\ g - 1 # g /\ seen'[g - 1] = seen[g - 1])
    BY <1>0, <2>2, <2>3 DEF WalkInv
  <2>6. Passed(g)'
    <3>1. Expected(g)' = Expected(g)
      BY <1>1, <2>5 DEF Expected
    <3>2. \A c \in Cells : seen'[g].rec[c].status # "none"
      BY <2>3, <2>4 DEF Verdict
    <3>3. ASSUME g > 0 PROVE \A c \in Cells : Spends(g, c)'
      <4> TAKE c \in Cells
      <4>1. Verdict(g, c, cur) = "pass"
        BY <2>4
      <4>2. seen'[g - 1] = seen[g - 1] /\ seen'[g].rec = cur.rec /\ seen'[g].row = cur.row
        BY <2>3, <2>5, <3>3
      <4> QED BY <2>5, <3>3, <4>1, <4>2, PassMeans DEF Spends
    <3> QED BY <2>3, <2>4, <2>5, <3>1, <3>2, <3>3 DEF Passed
  <2>7. \A h \in auditor.first .. g - 1 : Passed(h)'
    <3> TAKE h \in auditor.first .. g - 1
    <3>1. h \in Nat /\ h # g /\ h - 1 # g
      BY <1>0, <2>5
    <3>2. Passed(h)
      BY <2>1 DEF CleanInv, Audited
    <3> QED BY <1>1, <2>3, <3>1, <3>2, StaysPassed DEF Passed
  <2>8. ~Spent({})
    BY FS_EmptySet, AuditAssumption DEF Spent
  <2>9. CASE auditor.at = auditor.final
    <3>1. /\ auditor'.pc = "done" /\ auditor'.final = g /\ auditor'.at = g
          /\ auditor'.first = auditor.first /\ auditor'.held = auditor.held
      BY <1>0, <2>2, <2>9 DEF MoveOn
    <3>2. Audited' = g
      BY <3>1 DEF Audited
    <3>3. auditor.at > auditor.first => auditor.held
      BY <2>1 DEF CleanInv
    <3>4. \A h \in auditor.first .. g : Passed(h)'
      BY <1>0, <2>5, <2>6, <2>7
    <3> QED BY <3>1, <3>2, <3>3, <3>4
  <2>10. CASE auditor.at # auditor.final
    <3>1. /\ auditor'.pc = "reading" /\ auditor'.at = g + 1
          /\ auditor'.first = auditor.first /\ auditor'.held = TRUE
      BY <1>0, <2>2, <2>8, <2>10 DEF MoveOn
    <3>2. Audited' = g
      BY <2>5, <3>1 DEF Audited
    <3>4. \A h \in auditor.first .. g : Passed(h)'
      BY <1>0, <2>5, <2>6, <2>7
    <3> QED BY <3>1, <3>2, <3>4
  <2> QED BY <2>9, <2>10
<1>6. CASE \E last \in 1 .. MaxGen + 1 : Begin(last)
  BY <1>3, <1>6 DEF Audited
<1>7. CASE EngineMoves
  BY <1>2, <1>7 DEF EngineMoves, Advance, Refuse, Rebuild
<1> QED BY <1>2, <1>4, <1>5, <1>6, <1>7 DEF Next, EngineMoves, vars, report

\* The run a clean report rests on is the run of rows that were loaded.
LEMMA RunLoaded ==
  ASSUME WalkInv, auditor.pc = "done", \A g \in auditor.first .. auditor.final : Passed(g)
  PROVE  \A g \in Base .. auditor.final : Run[g] = seen[g].row
<1> DEFINE lo == Base
           hi == auditor.final
           start == IF auditor.first = 0 THEN seed ELSE seen[lo].row
           rows == [g \in lo .. hi |-> seen[g].row]
<1>1. /\ lo \in Nat /\ hi \in Nat /\ auditor.first \in Nat /\ lo <= auditor.first
      /\ auditor.first <= hi /\ (auditor.first = 0 => lo = 0)
      /\ (auditor.first # 0 => lo = auditor.first - 1)
  BY DEF WalkInv, Gens, Base
<1>2. \A g \in lo + 1 .. hi : g \in auditor.first .. hi /\ g - 1 \in lo .. hi
  BY <1>1
<1>3. \A g \in lo + 1 .. hi : seen[g].row = Step(seen[g - 1].row)
  BY <1>1, <1>2 DEF Passed, Expected
<1>4. seen[lo].row = start
  <2>1. CASE auditor.first = 0
    BY <1>1, <2>1 DEF Passed, Expected
  <2>2. CASE auditor.first # 0
    BY <2>2
  <2> QED BY <2>1, <2>2
<1>5. rows = [g \in lo .. hi |-> IF g > lo THEN Step(rows[g - 1])
                                 ELSE IF auditor.first = 0 THEN seed ELSE seen[g].row]
  <2> SUFFICES ASSUME NEW g \in lo .. hi
               PROVE  seen[g].row = IF g > lo THEN Step(rows[g - 1])
                                    ELSE IF auditor.first = 0 THEN seed ELSE seen[g].row
    BY Zenon
  <2>1. CASE g > lo
    <3>1. g \in lo + 1 .. hi /\ g - 1 \in lo .. hi
      BY <1>1, <2>1
    <3> QED BY <1>3, <2>1, <3>1
  <2>2. CASE ~(g > lo)
    <3>1. g = lo
      BY <1>1, <2>2
    <3> QED BY <1>4, <2>2, <3>1
  <2> QED BY <2>1, <2>2
<1>6. Run = [g \in lo .. hi |-> IF g > lo THEN Step(Run[g - 1])
                                ELSE IF auditor.first = 0 THEN seed ELSE seen[g].row]
  <2> HIDE DEF rows
  <2> QED BY <1>5 DEF Run
<1> DEFINE Off == {g \in Base .. auditor.final : Run[g] # seen[g].row}
<1>7. Off = {}
  <2> SUFFICES ASSUME Off # {} PROVE FALSE
    OBVIOUS
  <2>1. Off \subseteq Nat
    BY <1>1
  <2>2. PICK g \in Off : \A h \in Off : g <= h
    BY <2>1, LeastExists
  <2>3. CASE g > lo
    <3>1. g \in lo + 1 .. hi /\ g - 1 \in lo .. hi /\ ~(g <= g - 1)
      BY <1>1, <2>3
    <3>2. Run[g - 1] = seen[g - 1].row
      BY <2>2, <3>1
    <3>3. Run[g] = Step(Run[g - 1])
      BY <1>6, <2>3
    <3> QED BY <1>3, <3>1, <3>2, <3>3
  <2>4. CASE ~(g > lo)
    <3>1. g = lo
      BY <1>1, <2>4
    <3> QED BY <1>4, <1>6, <2>4, <3>1
  <2> QED BY <2>3, <2>4
<1> QED BY <1>7

\* The lineage of a cell's newest transaction is what was loaded of that cell.
LEMMA LineageLoaded ==
  ASSUME TableInv, WalkInv, auditor.pc = "done",
         \A g \in auditor.first .. auditor.final : Passed(g), NEW c \in Cells
  PROVE  \A g \in Base .. auditor.final :
           Lineage(c)[g] = seen[g].rec[c].tx /\ Lineage(c)[g] # Coin
<1> DEFINE lo == Base
           hi == auditor.final
           tx(g) == seen[g].rec[c].tx
           chain == [g \in lo .. hi |-> tx(g)]
<1>1. /\ lo \in Nat /\ hi \in Nat /\ auditor.first \in Nat /\ lo <= auditor.first
      /\ auditor.first <= hi /\ (auditor.first = 0 => lo = 0)
      /\ (auditor.first # 0 => lo = auditor.first - 1)
  BY DEF WalkInv, Gens, Base
<1>2. \A g \in lo + 1 .. hi : g \in auditor.first .. hi /\ g \in Nat /\ g > 0
  BY <1>1
<1>3. \A g \in lo + 1 .. hi : tx(g).spends = tx(g - 1)
  BY <1>2 DEF Passed, Spends
<1>4. \A g \in lo .. hi : tx(g) # Coin
  <2> TAKE g \in lo .. hi
  <2>1. g \in DOMAIN seen /\ seen[g].rec[c].status # "none"
    <3>1. CASE g \in auditor.first .. hi
      BY <3>1 DEF Passed
    <3>2. CASE g \notin auditor.first .. hi
      <4>1. g = lo /\ auditor.first # 0 /\ g = auditor.first - 1
        BY <1>1, <3>2
      <4>2. auditor.first \in auditor.first .. hi /\ auditor.first > 0
        BY <1>1, <4>1
      <4> QED BY <4>1, <4>2 DEF Passed, Spends
    <3> QED BY <3>1, <3>2
  <2>2. Shaped(tx(g))
    BY <2>1 DEF WalkInv, Entry
  <2>3. DOMAIN Coin = {"try"}
    BY DEF Coin
  <2> QED BY <2>2, <2>3 DEF Shaped, Fields
<1>5. chain = [g \in lo .. hi |-> IF g = hi THEN seen[g].rec[c].tx
                                  ELSE IF chain[g + 1] = Coin THEN Coin
                                  ELSE chain[g + 1].spends]
  <2> SUFFICES ASSUME NEW g \in lo .. hi
               PROVE  tx(g) = IF g = hi THEN seen[g].rec[c].tx
                              ELSE IF chain[g + 1] = Coin THEN Coin
                              ELSE chain[g + 1].spends
    BY Zenon
  <2>1. CASE g = hi
    BY <2>1
  <2>2. CASE g # hi
    <3>1. g + 1 \in lo .. hi /\ g + 1 \in lo + 1 .. hi /\ (g + 1) - 1 = g
      BY <1>1, <2>2
    <3>2. chain[g + 1] = tx(g + 1) /\ tx(g + 1) # Coin /\ tx(g + 1).spends = tx(g)
      <4> HIDE DEF tx
      <4> QED BY <1>3, <1>4, <3>1
    <3> QED BY <2>2, <3>2
  <2> QED BY <2>1, <2>2
<1>6. Lineage(c) = [g \in lo .. hi |-> IF g = hi THEN seen[g].rec[c].tx
                                       ELSE IF Lineage(c)[g + 1] = Coin THEN Coin
                                       ELSE Lineage(c)[g + 1].spends]
  <2> HIDE DEF chain
  <2> QED BY <1>5 DEF Lineage
<1> DEFINE Off == {k \in 0 .. hi - lo : Lineage(c)[hi - k] # tx(hi - k)}
<1> HIDE DEF tx
<1>7. Off = {}
  <2> SUFFICES ASSUME Off # {} PROVE FALSE
    OBVIOUS
  <2>1. Off \subseteq Nat
    OBVIOUS
  <2>2. PICK k \in Off : \A j \in Off : k <= j
    BY <2>1, LeastExists
  <2>3. k \in Nat /\ hi - k \in lo .. hi
    BY <1>1, <2>2
  <2>4. k # 0
    <3>1. hi \in lo .. hi /\ hi - 0 = hi
      BY <1>1
    <3>2. Lineage(c)[hi] = tx(hi)
      BY <1>6, <3>1 DEF tx
    <3> QED BY <2>2, <3>1, <3>2
  <2>5. /\ k - 1 \in 0 .. hi - lo /\ ~(k <= k - 1) /\ hi - (k - 1) = (hi - k) + 1
        /\ hi - k # hi
    BY <1>1, <2>2, <2>3, <2>4
  <2>6. Lineage(c)[(hi - k) + 1] = tx((hi - k) + 1)
    BY <2>2, <2>5
  <2>7. (hi - k) + 1 \in lo + 1 .. hi /\ (hi - k) + 1 \in lo .. hi /\ ((hi - k) + 1) - 1 = hi - k
    BY <1>1, <2>2, <2>3, <2>4
  <2>8. Lineage(c)[hi - k] = tx(hi - k)
    BY <1>3, <1>4, <1>6, <2>3, <2>5, <2>6, <2>7
  <2> QED BY <2>2, <2>8
<1>8. \A g \in lo .. hi : Lineage(c)[g] = tx(g)
  <2> TAKE g \in lo .. hi
  <2>1. hi - g \in 0 .. hi - lo /\ hi - (hi - g) = g
    BY <1>1
  <2> QED BY <1>7, <2>1
<1> QED BY <1>4, <1>8 DEF tx

\* A clean report means the automaton ran, on a ring of any size, under any rule,
\* whatever of fifteen things is wrong with the deployment and however the engine
\* moved meanwhile: behind every cell's newest transaction lies an unbroken chain
\* that carries Rule 110's own rows and that the covenant accepts.
THEOREM CleanReportMeansRun == Spec => []CleanMeansRun
<1> DEFINE Inv == TableInv /\ WalkInv /\ CleanInv
<1>1. Init => Inv
  <2>1. Init => CleanInv
    BY DEF Init, CleanInv
  <2> QED BY <2>1, TablesInit
<1>2. Inv /\ [Next]_vars => Inv'
  BY TablesNext, CleanNext
<1>3. Inv => CleanMeansRun
  <2> SUFFICES ASSUME Inv, Clean, NEW c \in Cells, NEW g \in Base + 1 .. auditor.final
               PROVE  LET chain == Lineage(c)
                          vout == ParentVout(g - 1, c)
                      IN /\ Coin \notin {chain[g], chain[g - 1]}
                         /\ chain[g].vout = vout
                         /\ vout \in DOMAIN chain[g - 1].outs
                         /\ chain[g - 1].outs[vout] = LockingScript(c, Run[g - 1])
                         /\ CellStep(CtorArgs(c), Run[g - 1], chain[g].presented)
                         /\ Bit(chain[g].outs[0].row, c) = Bit(Run[g], c)
    BY DEF CleanMeansRun
  <2>1. auditor.pc = "done" /\ \A h \in auditor.first .. auditor.final : Passed(h)
    BY DEF Clean, CleanInv, Audited
  <2>2. /\ g \in Base .. auditor.final /\ g - 1 \in Base .. auditor.final
        /\ g \in auditor.first .. auditor.final /\ g > 0 /\ g \in Nat
    BY DEF Base, WalkInv, Gens
  <2> DEFINE t == seen[g].rec[c].tx
             p == seen[g - 1].rec[c].tx
             vout == ParentVout(g - 1, c)
  <2>3. /\ Lineage(c)[g] = t /\ t # Coin
        /\ Lineage(c)[g - 1] = p /\ p # Coin
    BY <2>1, <2>2, LineageLoaded
  <2>4. Run[g] = seen[g].row /\ Run[g - 1] = seen[g - 1].row
    BY <2>1, <2>2, RunLoaded
  <2>5. Spends(g, c) /\ g - 1 \in DOMAIN seen
    BY <2>1, <2>2 DEF Passed
  <2>6. p.outs[vout] = LockingScript(c, seen[g - 1].row)
    <3>1. Shaped(p)
      BY <2>5 DEF Spends, WalkInv, Entry
    <3>2. p.outs[vout] = LockingScript(p.outs[vout].cell, p.outs[vout].row)
      BY <2>5, <3>1 DEF Spends, Shaped
    <3> QED BY <2>5, <3>2 DEF Spends
  <2>7. CellStep(CtorArgs(c), seen[g - 1].row, t.presented)
    <3>1. Bit(t.presented, c) = NextBit(seen[g - 1].row, c)
      BY <2>5 DEF Spends
    <3> QED BY <3>1, ContractAsserts
  <2> QED BY <2>3, <2>4, <2>5, <2>6, <2>7 DEF Spends
<1> QED BY <1>1, <1>2, <1>3, PTL DEF Spec

=============================================================================
