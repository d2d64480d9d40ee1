------------------------- MODULE CellEngine_proofs -------------------------
(***************************************************************************)
(* Part one: facts about the operators of History, Derive and Recovery,    *)
(* for every table of rows and every wallet: what derivation returns and   *)
(* what a decision may adopt; and, of a table that speaks the truth, what  *)
(* derivation can be relied on for and which chain an adoption writes.     *)
(* Part two: what repeated runs of the operator's tool do to a record.     *)
(* Part three: the type invariant of CellEngine, for every instance, and   *)
(* what holds of its rows.  Chain_proofs rests on parts one and three.     *)
(***************************************************************************)
EXTENDS CellEngine, CmdRecover, WellFoundedInduction, FiniteSetTheorems,
        SequenceTheorems, TLAPS

\* The transactions a table knows of.
Made(x) == {t \in TxIds : x[t].st # "none"}

-----------------------------------------------------------------------------
\* A set of naturals that is not empty has a least element.
LEMMA LeastExists ==
  ASSUME NEW S, S \subseteq Nat, S # {}
  PROVE  \E x \in S : \A y \in S : x <= y
<1> DEFINE R == OpToRel(<, Nat)
<1>1. PICK x \in S : \A y \in S : <<y, x>> \notin R
  <2>1. IsWellFoundedOn(R, Nat)
    BY NatLessThanWellFounded
  <2> HIDE DEF R
  <2> QED BY <2>1, WFMin
<1>2. \A y \in S : x <= y
  <2> TAKE y \in S
  <2>1. ~ (y < x)
    BY <1>1 DEF OpToRel
  <2> QED BY <2>1
<1> QED BY <1>2

\* Oldest returns the least element.
LEMMA OldestIn ==
  ASSUME NEW S, S \subseteq Nat, S # {}
  PROVE  Oldest(S) \in S /\ \A h \in S : Oldest(S) <= h
<1>1. \E x \in S : \A y \in S : x <= y
  BY LeastExists
<1> QED BY <1>1 DEF Oldest

\* Newest returns the greatest element of a bounded set.
LEMMA NewestIn ==
  ASSUME NEW n \in Nat, NEW S, S \subseteq 0 .. n, S # {}
  PROVE  Newest(S) \in S /\ \A h \in S : h <= Newest(S)
<1> DEFINE T == {k \in Nat : \E x \in S : k = n - x}
<1>1. T \subseteq Nat /\ T # {}
  <2>1. PICK x \in S : TRUE
    OBVIOUS
  <2>2. n - x \in T
    BY <2>1
  <2> QED BY <2>2
<1>2. PICK k \in T : \A j \in T : k <= j
  <2> HIDE DEF T
  <2> QED BY <1>1, LeastExists
<1>3. PICK x \in S : k = n - x
  BY <1>2
<1>4. \A h \in S : h <= x
  <2> TAKE h \in S
  <2>1. n - h \in T
    OBVIOUS
  <2>2. n - x <= n - h
    BY <2>1, <1>2, <1>3
  <2> QED BY <2>2
<1>5. \E y \in S : \A h \in S : h <= y
  BY <1>4
<1> QED BY <1>5 DEF Newest

-----------------------------------------------------------------------------
\* A row built from its parts has the type of a row.
LEMMA RowType ==
  ASSUME NEW s \in Status, NEW t \in TxIds \cup {NoTx}, NEW e \in Reason,
         NEW b \in TxIds \cup {NoTx}
  PROVE  Row(s, t, e, b) \in CellTx
BY DEF Row, CellTx

\* So has the absence of a row.
LEMMA NoRowType == NoRow \in CellTx
BY DEF NoRow, CellTx, Status, Reason

\* Every statement of the store keeps the table's type.
LEMMA StoreTypes ==
  ASSUME NEW r \in [Gens -> CellTx], NEW g
  PROVE  /\ \A u \in CellTx : UpdateStatus(r, u) \in [Gens -> CellTx]
         /\ \A row \in CellTx : RecordTx(r, g, row) \in [Gens -> CellTx]
         /\ DeleteAttempt(r, g) \in [Gens -> CellTx]
         /\ \A t : DeleteRejection(r, g, t) \in [Gens -> CellTx]
         /\ DeleteUnsignedRejection(r, g) \in [Gens -> CellTx]
<1>1. \A u \in CellTx : UpdateStatus(r, u) \in [Gens -> CellTx]
  BY DEF UpdateStatus, Row, CellTx
<1>2. \A row \in CellTx : RecordTx(r, g, row) \in [Gens -> CellTx]
  BY DEF RecordTx
<1>3. DeleteAttempt(r, g) \in [Gens -> CellTx]
  BY NoRowType DEF DeleteAttempt
<1>4. \A t : DeleteRejection(r, g, t) \in [Gens -> CellTx]
  BY NoRowType DEF DeleteRejection
<1>5. DeleteUnsignedRejection(r, g) \in [Gens -> CellTx]
  BY <1>4 DEF DeleteUnsignedRejection
<1> QED BY <1>1, <1>2, <1>3, <1>4, <1>5

-----------------------------------------------------------------------------
(***************************************************************************)
(* Derivation.                                                             *)
(***************************************************************************)
\* What a derived position says of a table: its tip is named by a row of the
\* table, or is the genesis of an empty one, or cannot be told; and a position
\* offered to recovery always has a tip.
Derived(p, r) ==
  /\ p \in CellPosition
  /\ p.tip \in {NoTx, Genesis} \cup {r[g].txid : g \in Gens}
  /\ Considered(p) => p.tip # NoTx

\* A position that is nothing but a tip.
LEMMA AtType ==
  ASSUME NEW t \in TxIds \cup {NoTx}
  PROVE  At(t) \in CellPosition /\ At(t).tip = t /\ ~Considered(At(t))
BY NoRowType, MaxGenAssumption DEF At, CellPosition, Considered, Gens

\* A position halted by an attempt.
LEMMA NoteAttemptType ==
  ASSUME NEW p \in CellPosition, NEW g \in Gens
  PROVE  NoteAttempt(p, g) \in CellPosition /\ NoteAttempt(p, g).tip = p.tip
<1> DEFINE n == g + 1
<1>1. n \in 0 .. MaxGen + 1
  BY MaxGenAssumption DEF Gens
<1>2. NoteAttempt(p, g) = [p EXCEPT !.halted = TRUE, !.unknown = TRUE, !.attempted = n]
  BY DEF NoteAttempt
<1> HIDE DEF n
<1> QED BY <1>1, <1>2 DEF CellPosition

\* A position halted by the failures above its tip, of which it offers the oldest.
LEMMA NoteRejectionType ==
  ASSUME NEW r \in [Gens -> CellTx], NEW p \in CellPosition, NEW S, S \subseteq Gens
  PROVE  /\ NoteRejection(p, r, S) \in CellPosition
         /\ NoteRejection(p, r, S).tip = p.tip
<1>1. CASE S = {}
  BY <1>1 DEF NoteRejection
<1>2. CASE S # {} /\ Cardinality(S) > MaxWreckage
  BY <1>2 DEF NoteRejection, CellPosition
<1>3. CASE S # {} /\ ~(Cardinality(S) > MaxWreckage)
  <2>1. S \subseteq Nat
    BY MaxGenAssumption DEF Gens
  <2>2. Oldest(S) \in Gens
    BY <2>1, <1>3, OldestIn
  <2> DEFINE at == Oldest(S)
             q  == [p EXCEPT !.halted = TRUE, !.rejected = TRUE,
                             !.rejectedAt = at, !.rejection = r[at]]
  <2>3. NoteRejection(p, r, S) = q
    BY <1>3 DEF NoteRejection
  <2>4. at \in Gens /\ r[at] \in CellTx
    BY <2>2
  <2> HIDE DEF at
  <2>5. q \in CellPosition /\ q.tip = p.tip
    BY <2>4 DEF CellPosition
  <2> QED BY <2>3, <2>5
<1> QED BY <1>1, <1>2, <1>3

\* DeriveTips: where it starts from is a row of the table, and where it ends is
\* a position.
LEMMA DeriveTipType ==
  ASSUME NEW r \in [Gens -> CellTx]
  PROVE  Derived(DeriveTip(r), r)
<1> DEFINE window == CellTips(r, TipDepth)
<1>0. Genesis \in TxIds
  BY MaxTxAssumption DEF Genesis, TxIds
<1>1. CASE window = {}
  BY <1>0, <1>1, AtType DEF DeriveTip, Derived
<1>2. CASE window # {} /\ SettledIn(r, window) = {}
  <2> DEFINE settled == SettledIn(r, Gens)
             deep    == DeepTip(r)
             p       == At(r[deep.settled].txid)
  <2>1. DeriveTip(r) = DeriveDeep(r)
    BY <1>2 DEF DeriveTip
  <2>2. CASE settled = {}
    <3>1. ~deep.hasSettled
      BY <2>2 DEF DeepTip
    <3>2. DeriveDeep(r) = [At(NoTx) EXCEPT !.halted = TRUE]
      BY <3>1 DEF DeriveDeep
    <3>3. At(NoTx) \in CellPosition
      BY AtType
    <3>4. [At(NoTx) EXCEPT !.halted = TRUE] \in CellPosition
      BY <3>3 DEF CellPosition
    <3> QED BY <2>1, <3>2, <3>4 DEF Derived, At, Considered
  <2>3. CASE settled # {}
    <3>1. deep.hasSettled /\ deep.settled = Newest(settled)
      BY <2>3 DEF DeepTip
    <3>2. deep.settled \in settled
      BY <3>1, <2>3, NewestIn, MaxGenAssumption DEF SettledIn, Gens
    <3>3. deep.settled \in Gens /\ r[deep.settled].txid # NoTx
      BY <3>2 DEF SettledIn
    <3>4. r[deep.settled].txid \in TxIds \cup {NoTx}
      BY <3>3 DEF CellTx
    <3>5. p \in CellPosition /\ p.tip = r[deep.settled].txid
      BY <3>4, AtType
    <3>6. [p EXCEPT !.halted = TRUE] \in CellPosition
          /\ [p EXCEPT !.halted = TRUE].tip = p.tip
      BY <3>5 DEF CellPosition
    <3>7. NoteAttempt(p, deep.settled) \in CellPosition
          /\ NoteAttempt(p, deep.settled).tip = p.tip
      BY <3>3, <3>5, NoteAttemptType
    <3>8. DeriveDeep(r) \in {p, [p EXCEPT !.halted = TRUE], NoteAttempt(p, deep.settled)}
      BY <3>1 DEF DeriveDeep
    <3> HIDE DEF p, deep
    <3> QED BY <2>1, <3>3, <3>5, <3>6, <3>7, <3>8 DEF Derived
  <2> QED BY <2>2, <2>3
<1>3. CASE window # {} /\ SettledIn(r, window) # {}
  <2> DEFINE b        == Newest(SettledIn(r, window))
             above    == {g \in window : g > b}
             failures == WithStatus(r, above, "failed")
             p        == At(r[b].txid)
             q        == NoteRejection(p, r, failures)
  <2>1. SettledIn(r, window) \subseteq Gens
    BY DEF SettledIn, CellTips, Recorded
  <2>2. b \in SettledIn(r, window)
    BY <1>3, <2>1, NewestIn, MaxGenAssumption DEF Gens
  <2>3. b \in Gens /\ r[b].txid # NoTx /\ r[b].txid \in TxIds \cup {NoTx}
    BY <2>1, <2>2 DEF SettledIn, CellTx
  <2>4. p \in CellPosition /\ p.tip = r[b].txid
    BY <2>3, AtType
  <2>5. failures \subseteq Gens
    BY DEF WithStatus, CellTips, Recorded
  <2>6. q \in CellPosition /\ q.tip = p.tip
    <3> HIDE DEF p, failures
    <3> QED BY <2>4, <2>5, NoteRejectionType
  <2>7. NoteAttempt(q, b) \in CellPosition /\ NoteAttempt(q, b).tip = q.tip
    <3> HIDE DEF q, b
    <3> QED BY <2>3, <2>6, NoteAttemptType
  <2>8. DeriveTip(r) = DeriveWindow(r, window)
    BY <1>3 DEF DeriveTip
  <2>9. DeriveWindow(r, window) \in {q, NoteAttempt(q, b)}
    BY DEF DeriveWindow
  <2> HIDE DEF p, q, b
  <2> QED BY <2>3, <2>4, <2>6, <2>7, <2>8, <2>9 DEF Derived
<1> QED BY <1>1, <1>2, <1>3

-----------------------------------------------------------------------------
(***************************************************************************)
(* Decisions.                                                              *)
(***************************************************************************)
\* A decision leaves the cell on a transaction the wallet made, and adopts
\* only transactions it signed.
Decision(rec, x) ==
  /\ rec.verdict \in {"halt", "resume", "adopt"}
  /\ rec.tip \in Made(x)
  /\ rec.steps \subseteq Signed(x)

\* A decision made of signed actions.
LEMMA VerdictType ==
  ASSUME NEW x, NEW v \in {"halt", "resume", "adopt"}, NEW t \in Made(x),
         NEW S \in SUBSET Signed(x)
  PROVE  Decision(Verdict(v, t, S), x)
BY DEF Verdict, Decision

\* Halting and resuming adopt nothing.
LEMMA HaltResumeType ==
  ASSUME NEW x, NEW p, p.tip \in Made(x)
  PROVE  Decision(Halt(p), x) /\ Decision(Resume(p), x)
BY DEF Halt, Resume, Verdict, Decision

\* walkForward: every step of the walk is an action of the page it was given.
LEMMA WalkForwardType ==
  ASSUME NEW x \in [TxIds -> Action], NEW p, p.tip \in Made(x), NEW wf,
         NEW page \in SUBSET Made(x), NEW newestGen \in Gens,
         x[p.tip].gen < newestGen
  PROVE  Decision(WalkForward(p, x, page, newestGen, wf), x)
<1> DEFINE from      == x[p.tip].gen + 1
           at(g)     == {t \in page : x[t].gen = g}
           byGen(g)  == Newest(at(g))
           before(g) == IF g = from THEN p.tip ELSE byGen(g - 1)
           linked(g) == /\ at(g) # {}
                        /\ byGen(g) \in Signed(x) \ wf
                        /\ g > from => at(g - 1) # {}
                        /\ x[byGen(g)].parent = before(g)
           broken    == {g \in from .. newestGen : ~linked(g)}
           steps(to) == {byGen(g) : g \in from .. to}
           stop      == Oldest(broken)
<1>1. from \in Nat /\ newestGen \in Nat /\ from <= newestGen
  <2>1. x[p.tip].gen \in Gens
    BY DEF Made, Action
  <2> QED BY <2>1, MaxGenAssumption DEF Gens
<1>2. \A g : at(g) # {} => byGen(g) \in Made(x)
  <2> SUFFICES ASSUME NEW g, at(g) # {}
               PROVE  byGen(g) \in Made(x)
    OBVIOUS
  <2>1. at(g) \subseteq 0 .. MaxTx /\ at(g) \subseteq Made(x)
    BY DEF Made, TxIds
  <2>2. Newest(at(g)) \in at(g)
    <3> HIDE DEF at
    <3> QED BY <2>1, NewestIn, MaxTxAssumption
  <2> QED BY <2>1, <2>2
<1>3. \A g \in from .. newestGen :
        g \notin broken => byGen(g) \in Made(x) /\ byGen(g) \in Signed(x)
  <2> SUFFICES ASSUME NEW g \in from .. newestGen, g \notin broken
               PROVE  byGen(g) \in Made(x) /\ byGen(g) \in Signed(x)
    OBVIOUS
  <2>1. at(g) # {} /\ byGen(g) \in Signed(x)
    OBVIOUS
  <2> QED BY <2>1, <1>2
<1>4. WalkForward(p, x, page, newestGen, wf) =
        IF broken = {} THEN Verdict("adopt", byGen(newestGen), steps(newestGen))
        ELSE IF at(stop) = {} \/ byGen(stop) \in Signed(x) THEN Halt(p)
        ELSE IF stop = from THEN Resume(p)
        ELSE Verdict("adopt", byGen(stop - 1), steps(stop - 1))
  BY DEF WalkForward
<1>5. broken \subseteq Nat /\ broken \subseteq from .. newestGen
  BY <1>1
<1>6. CASE broken = {}
  <2>1. steps(newestGen) \subseteq Signed(x)
    <3> HIDE DEF broken, byGen
    <3> QED BY <1>3, <1>6
  <2>2. byGen(newestGen) \in Made(x)
    <3> HIDE DEF broken, byGen
    <3> QED BY <1>1, <1>3, <1>6
  <2> HIDE DEF broken, byGen, steps, at, stop
  <2> QED BY <1>4, <1>6, <2>1, <2>2, VerdictType
<1>7. CASE broken # {}
  <2>1. stop \in broken /\ \A h \in broken : stop <= h
    <3> HIDE DEF broken
    <3> QED BY <1>5, <1>7, OldestIn
  <2>2. stop \in from .. newestGen
    <3> HIDE DEF broken, stop
    <3> QED BY <1>5, <2>1
  <2>3. \A g \in from .. stop - 1 : g \in from .. newestGen /\ g \notin broken
    <3> HIDE DEF broken, stop
    <3> QED BY <1>1, <1>5, <2>1, <2>2
  <2>4. steps(stop - 1) \subseteq Signed(x)
    <3> HIDE DEF broken, byGen, stop
    <3> QED BY <1>3, <2>3
  <2>5. stop # from => byGen(stop - 1) \in Made(x)
    <3>1. stop # from => stop - 1 \in from .. stop - 1
      <4> HIDE DEF stop
      <4> QED BY <1>1, <2>2
    <3> HIDE DEF broken, byGen, stop
    <3> QED BY <3>1, <1>3, <2>3
  <2>6. Decision(Halt(p), x) /\ Decision(Resume(p), x)
    BY HaltResumeType
  <2> HIDE DEF broken, byGen, steps, at, stop
  <2> QED BY <1>4, <1>7, <2>4, <2>5, <2>6, VerdictType
<1> QED BY <1>6, <1>7

\* RecoverCell: the actions it walks are the wallet's.
LEMMA RecoverCellType ==
  ASSUME NEW x \in [TxIds -> Action], NEW p, p.tip \in Made(x), NEW wf
  PROVE  Decision(RecoverCell(p, x, wf), x)
<1> DEFINE page      == CellActions(x, TipDepth)
           gens      == {x[t].gen : t \in page}
           newestGen == Newest(gens)
           tipGen    == x[p.tip].gen
<1>1. Decision(Halt(p), x) /\ Decision(Resume(p), x)
  BY HaltResumeType
<1>2. page \subseteq Made(x)
  BY DEF CellActions, Made
<1>3. tipGen \in Nat
  <2>1. tipGen \in Gens
    BY DEF Made, Action
  <2> QED BY <2>1, MaxGenAssumption DEF Gens
<1>4. page # {} => newestGen \in Gens
  <2> SUFFICES ASSUME page # {}
               PROVE  newestGen \in Gens
    OBVIOUS
  <2>1. \A t \in page : x[t].gen \in Gens
    <3> SUFFICES ASSUME NEW t \in page
                 PROVE  x[t].gen \in Gens
      OBVIOUS
    <3>1. t \in TxIds
      BY <1>2 DEF Made
    <3> QED BY <3>1 DEF Action
  <2>2. gens \subseteq Gens /\ gens # {}
    <3> HIDE DEF page
    <3> QED BY <2>1
  <2> HIDE DEF gens
  <2> QED BY <2>2, NewestIn, MaxGenAssumption DEF Gens
<1>5. CASE p.attempted # tipGen + 1 \/ page = {}
  BY <1>1, <1>5 DEF RecoverCell
<1>6. CASE p.attempted = tipGen + 1 /\ page # {} /\ newestGen < p.attempted
  BY <1>1, <1>6 DEF RecoverCell
<1>7. CASE p.attempted = tipGen + 1 /\ page # {} /\ ~(newestGen < p.attempted)
  <2>1. newestGen \in Gens /\ newestGen \in Int
    BY <1>4, <1>7, MaxGenAssumption DEF Gens
  <2>2. tipGen < newestGen
    <3> HIDE DEF tipGen, newestGen
    <3> QED BY <1>3, <1>7, <2>1
  <2>3. Decision(WalkForward(p, x, page, newestGen, wf), x)
    <3> HIDE DEF page, newestGen
    <3> QED BY <1>2, <2>1, <2>2, WalkForwardType
  <2>4. RecoverCell(p, x, wf) \in {Resume(p), WalkForward(p, x, page, newestGen, wf)}
    BY <1>7 DEF RecoverCell
  <2> HIDE DEF page, newestGen
  <2> QED BY <1>1, <2>3, <2>4
<1> QED BY <1>5, <1>6, <1>7

\* decideCell: whatever the position and the evidence.
LEMMA DecideCellType ==
  ASSUME NEW x \in [TxIds -> Action], NEW r, NEW p, p.tip \in Made(x),
         NEW rr, NEW wf
  PROVE  Decision(DecideCell(p, r, x, rr, wf), x)
<1>1. Decision(Halt(p), x) /\ Decision(Resume(p), x)
  BY HaltResumeType
<1>2. Decision(RecoverSpentTip(p, r, x), x)
  <2> DEFINE s == p.rejection.by
  <2>1. CASE s \in Accepted(x) /\ ~HasTxID(r, s) /\ x[s].parent = p.tip
    <3>1. s \in Made(x) /\ s \in Signed(x)
      BY <2>1 DEF Accepted, Made, Signed, Live
    <3>2. RecoverSpentTip(p, r, x) = Verdict("adopt", s, {s})
      BY <2>1 DEF RecoverSpentTip
    <3> QED BY <3>1, <3>2, VerdictType
  <2>2. CASE ~(s \in Accepted(x) /\ ~HasTxID(r, s) /\ x[s].parent = p.tip)
    BY <1>1, <2>2 DEF RecoverSpentTip
  <2> QED BY <2>1, <2>2
<1>3. /\ Decision(RecoverStaleRejection(p, x), x)
      /\ Decision(RecoverNotBroadcast(p, x), x)
      /\ Decision(RetryRefusal(p, x), x)
  BY <1>1 DEF RecoverStaleRejection, RecoverNotBroadcast, RetryRefusal
<1>4. Decision(RecoverRejected(p, r, x, rr), x)
  BY <1>2, <1>3 DEF RecoverRejected
<1> QED BY <1>4, RecoverCellType DEF DecideCell

\* So is whatever is decided when a lookup fails.
LEMMA DecisionsType ==
  ASSUME NEW x \in [TxIds -> Action], NEW r, NEW p, p.tip \in Made(x),
         NEW rr, NEW wf, NEW rec \in Decisions(p, r, x, rr, wf)
  PROVE  Decision(rec, x) /\ (rec.verdict # "halt" => rec = DecideCell(p, r, x, rr, wf))
<1>1. Halt(p).verdict = "halt"
  BY DEF Halt, Verdict
<1> QED BY <1>1, DecideCellType, HaltResumeType DEF Decisions

-----------------------------------------------------------------------------
(***************************************************************************)
(* What recovery writes.                                                   *)
(***************************************************************************)
\* Every row names a transaction the wallet made, or none.
Named(r, x) == \A g \in Gens : r[g].txid \in Made(x) \cup {NoTx}

\* An adoption, complete or cut short, names actions of the wallet only.
LEMMA AdoptUpToType ==
  ASSUME NEW x, NEW r \in [Gens -> CellTx], Named(r, x),
         NEW rec, Decision(rec, x), NEW done
  PROVE  /\ AdoptUpTo(rec, r, x, done) \in [Gens -> CellTx]
         /\ Named(AdoptUpTo(rec, r, x, done), x)
<1> DEFINE a == AdoptUpTo(rec, r, x, done)
<1>1. a = [g \in Gens |-> a[g]]
  BY DEF AdoptUpTo
<1>2. \A g \in Gens : a[g] \in CellTx /\ a[g].txid \in Made(x) \cup {NoTx}
  <2> SUFFICES ASSUME NEW g \in Gens
               PROVE  a[g] \in CellTx /\ a[g].txid \in Made(x) \cup {NoTx}
    OBVIOUS
  <2>1. CASE g <= done /\ \E t \in rec.steps : x[t].gen = g
    <3> DEFINE s == CHOOSE t \in rec.steps : x[t].gen = g
    <3>1. s \in rec.steps
      BY <2>1
    <3>2. s \in Made(x) /\ s \in TxIds
      BY <3>1 DEF Decision, Made, Signed, Live
    <3>3. a[g] = Row("broadcast", s, "none", NoTx)
      BY <2>1 DEF AdoptUpTo
    <3> HIDE DEF s, a
    <3> QED BY <3>2, <3>3 DEF Row, CellTx, Status, Reason
  <2>2. CASE ~(g <= done /\ \E t \in rec.steps : x[t].gen = g)
    <3>1. a[g] = r[g]
      BY <2>2 DEF AdoptUpTo
    <3> QED BY <3>1 DEF Named
  <2> QED BY <2>1, <2>2
<1> HIDE DEF a
<1>3. a \in [Gens -> CellTx] /\ Named(a, x)
  BY <1>1, <1>2 DEF Named
<1> QED BY <1>3 DEF a

\* applyRecovery keeps the table's type and adds no name the wallet has not
\* made.
LEMMA ApplyRecoveryType ==
  ASSUME NEW x, NEW r \in [Gens -> CellTx], Named(r, x),
         NEW p, NEW rec, Decision(rec, x)
  PROVE  /\ ApplyRecovery(p, rec, r, x) \in [Gens -> CellTx]
         /\ Named(ApplyRecovery(p, rec, r, x), x)
<1>1. CASE rec.verdict = "adopt"
  BY <1>1, AdoptUpToType DEF ApplyRecovery
<1>2. CASE rec.verdict = "resume"
  <2>1. Retract(p, r) \in [Gens -> CellTx]
    BY StoreTypes DEF Retract
  <2>2. \A g \in Gens : Retract(p, r)[g] \in {r[g], NoRow}
    BY DEF Retract, DeleteAttempt, DeleteRejection, DeleteUnsignedRejection
  <2>3. Named(Retract(p, r), x)
    BY <2>2 DEF Named, NoRow
  <2> QED BY <1>2, <2>1, <2>3 DEF ApplyRecovery
<1>3. CASE rec.verdict = "halt"
  BY <1>3 DEF ApplyRecovery
<1> QED BY <1>1, <1>2, <1>3 DEF Decision

-----------------------------------------------------------------------------
(***************************************************************************)
(* What derivation returns of a table, and what an adoption writes over it.*)
(***************************************************************************)
\* The row a derivation settles on: the newest one the network is known, or
\* believed, to hold.
TipRow(r) == Newest(SettledIn(r, Gens))

\* The row of the tip is the newest settled one.
LEMMA TipRowIn ==
  ASSUME NEW r, SettledIn(r, Gens) # {}
  PROVE  /\ TipRow(r) \in SettledIn(r, Gens) /\ TipRow(r) \in Gens
         /\ \A g \in SettledIn(r, Gens) : g <= TipRow(r)
<1>1. SettledIn(r, Gens) \subseteq 0 .. MaxGen
  BY DEF SettledIn, Gens
<1> QED BY <1>1, NewestIn, MaxGenAssumption DEF TipRow, Gens

\* The window of the newest rows holds every row above one it holds.
LEMMA WindowUpward ==
  ASSUME NEW r, NEW w \in CellTips(r, TipDepth), NEW g \in Recorded(r), w <= g
  PROVE  g \in CellTips(r, TipDepth)
<1> DEFINE above(k) == {h \in Recorded(r) : h > k}
<1>1. IsFiniteSet(Gens) /\ Recorded(r) \subseteq Gens
  BY FS_Interval, MaxGenAssumption DEF Gens, Recorded
<1>2. IsFiniteSet(above(w)) /\ Cardinality(above(w)) \in Nat
  <2>1. IsFiniteSet(above(w))
    BY <1>1, FS_Subset
  <2> QED BY <2>1, FS_CardinalityType
<1>3. above(g) \subseteq above(w)
  BY <1>1, MaxGenAssumption DEF CellTips, Gens
<1>4. Cardinality(above(g)) <= Cardinality(above(w)) /\ Cardinality(above(g)) \in Nat
  <2> HIDE DEF above
  <2>1. Cardinality(above(g)) <= Cardinality(above(w)) /\ IsFiniteSet(above(g))
    BY <1>2, <1>3, FS_Subset
  <2> QED BY <2>1, FS_CardinalityType
<1>5. Cardinality(above(w)) < TipDepth
  BY DEF CellTips
<1>6. Cardinality(above(g)) < TipDepth
  <2> HIDE DEF above
  <2> QED BY <1>2, <1>4, <1>5, WreckageFitsWindow
<1> QED BY <1>6 DEF CellTips

\* A window that is empty is of an empty column.
LEMMA WindowNotEmpty ==
  ASSUME NEW r, Recorded(r) # {}
  PROVE  CellTips(r, TipDepth) # {}
<1> DEFINE top == Newest(Recorded(r))
<1>1. Recorded(r) \subseteq 0 .. MaxGen
  BY DEF Recorded, Gens
<1>2. top \in Recorded(r) /\ \A h \in Recorded(r) : h <= top
  BY <1>1, NewestIn, MaxGenAssumption
<1>3. {h \in Recorded(r) : h > top} = {}
  <2> HIDE DEF top
  <2> QED BY <1>1, <1>2, MaxGenAssumption
<1>4. Cardinality({h \in Recorded(r) : h > top}) = 0 /\ 0 < TipDepth
  BY <1>3, FS_EmptySet, WreckageFitsWindow
<1>5. top \in CellTips(r, TipDepth)
  BY <1>2, <1>4 DEF CellTips
<1> QED BY <1>5

\* Failures above a tip.
LEMMA NoteRejectionReads ==
  ASSUME NEW r, NEW t, NEW S
  PROVE  LET p == NoteRejection(At(t), r, S)
         IN  /\ p.tip = t /\ ~p.unknown
             /\ p.halted <=> S # {}
             /\ p.rejected <=> S # {} /\ ~(Cardinality(S) > MaxWreckage)
             /\ p.rejected => p.rejectedAt = Oldest(S) /\ p.rejection = r[Oldest(S)]
BY DEF NoteRejection, At

\* The rows with a status above the tip.
Over(r, status) == {g \in Gens : g > TipRow(r) /\ r[g].status = status}

\* What derivation says of a column with a settled row: the tip is what the
\* newest settled row names, recovery is offered only what is above it, never
\* a cascade, and the cell runs only if no attempt and no failure is above it.
Reads(p, r) ==
  /\ p.tip = r[TipRow(r)].txid
  /\ p.unknown => /\ p.halted /\ Over(r, "attempting") # {}
                  /\ p.attempted = TipRow(r) + 1
  /\ p.rejected => /\ p.halted
                   /\ p.rejectedAt \in Over(r, "failed")
                   /\ p.rejection = r[p.rejectedAt]
                   /\ ~p.unknown => Over(r, "attempting") = {}
  /\ Considered(p) => ~(Cardinality(Over(r, "failed")) > MaxWreckage)
  /\ ~p.halted <=> Over(r, "attempting") = {} /\ Over(r, "failed") = {}

\* DeriveTips.
LEMMA DeriveTipReads ==
  ASSUME NEW r, SettledIn(r, Gens) # {}
  PROVE  Reads(DeriveTip(r), r)
<1> DEFINE window == CellTips(r, TipDepth)
           b      == TipRow(r)
           p      == DeriveTip(r)
<1>1. b \in SettledIn(r, Gens) /\ b \in Gens /\ \A g \in SettledIn(r, Gens) : g <= b
  BY TipRowIn
<1>2. b \in Recorded(r) /\ Gens \subseteq Nat
  BY <1>1, MaxGenAssumption DEF SettledIn, Recorded, Settled, Gens
<1>3. window # {} /\ window \subseteq Recorded(r) /\ Recorded(r) \subseteq Gens
  BY <1>2, WindowNotEmpty DEF CellTips, Recorded
<1>4. CASE SettledIn(r, window) # {}
  <2> DEFINE failures == WithStatus(r, {g \in window : g > b}, "failed")
             attempts == WithStatus(r, {g \in window : g > b}, "attempting")
             q        == NoteRejection(At(r[b].txid), r, failures)
             n        == NoteAttempt(q, b)
  <2>1. b \in window
    <3>1. PICK w \in SettledIn(r, window) : TRUE
      BY <1>4
    <3>2. w \in window /\ w <= b
      BY <3>1, <1>1, <1>3 DEF SettledIn
    <3> QED BY <3>2, <1>2, WindowUpward
  <2>2. Newest(SettledIn(r, window)) = b
    <3>1. b \in SettledIn(r, window) /\ SettledIn(r, window) \subseteq SettledIn(r, Gens)
      BY <1>1, <1>3, <2>1 DEF SettledIn
    <3>2. \A g \in SettledIn(r, window) : g \in Nat /\ g <= b
      BY <3>1, <1>1, <1>2 DEF SettledIn
    <3>3. SettledIn(r, window) \subseteq 0 .. MaxGen
      BY <1>3 DEF SettledIn, Gens
    <3>4. /\ Newest(SettledIn(r, window)) \in SettledIn(r, window)
          /\ \A h \in SettledIn(r, window) : h <= Newest(SettledIn(r, window))
      BY <3>1, <3>3, NewestIn, MaxGenAssumption
    <3> QED BY <3>1, <3>2, <3>4
  <2>3. \A g \in Recorded(r) : g > b => g \in window
    <3> SUFFICES ASSUME NEW g \in Recorded(r), g > b PROVE g \in window
      OBVIOUS
    <3>0. g \in Nat /\ b \in Nat
      BY <1>1, <1>2, <1>3
    <3>1. b <= g
      BY <3>0
    <3> QED BY <2>1, <3>1, WindowUpward
  <2>4. failures = Over(r, "failed") /\ attempts = Over(r, "attempting")
    BY <2>3, <1>3 DEF WithStatus, Recorded, Over
  <2>5. p = IF attempts # {} /\ Cardinality(failures) <= MaxWreckage THEN n ELSE q
    BY <1>3, <1>4, <2>2 DEF DeriveTip, DeriveWindow
  <2>6. /\ q.tip = r[b].txid /\ ~q.unknown
        /\ q.halted <=> failures # {}
        /\ q.rejected <=> failures # {} /\ ~(Cardinality(failures) > MaxWreckage)
        /\ q.rejected => q.rejectedAt = Oldest(failures) /\ q.rejection = r[Oldest(failures)]
    <3> HIDE DEF failures, b
    <3> QED BY NoteRejectionReads
  <2>7. /\ n.tip = q.tip /\ n.halted /\ n.unknown /\ n.attempted = b + 1
        /\ n.rejected = q.rejected /\ n.rejectedAt = q.rejectedAt /\ n.rejection = q.rejection
    <3>1. q \in {At(r[b].txid), [At(r[b].txid) EXCEPT !.halted = TRUE],
                 [At(r[b].txid) EXCEPT !.halted = TRUE, !.rejected = TRUE,
                     !.rejectedAt = Oldest(failures), !.rejection = r[Oldest(failures)]]}
      BY DEF NoteRejection
    <3>2. n = [q EXCEPT !.halted = TRUE, !.unknown = TRUE, !.attempted = b + 1]
      BY DEF NoteAttempt
    <3> HIDE DEF q, b, failures, n
    <3> QED BY <3>1, <3>2 DEF At
  <2>8. failures # {} => Oldest(failures) \in failures
    <3>1. failures \subseteq Nat
      BY <1>2, <2>4 DEF Over
    <3> HIDE DEF failures
    <3> QED BY <3>1, OldestIn
  <2>9. Cardinality(failures) <= MaxWreckage <=> ~(Cardinality(failures) > MaxWreckage)
    <3>1. failures \subseteq Gens /\ IsFiniteSet(Gens)
      BY <2>4, FS_Interval, MaxGenAssumption DEF Gens, Over
    <3> HIDE DEF failures
    <3>2. Cardinality(failures) \in Nat
      BY <3>1, FS_Subset, FS_CardinalityType
    <3> QED BY <3>2, WreckageFitsWindow
  <2> HIDE DEF failures, attempts, q, b, p, n
  <2>10. failures # {} => Oldest(failures) \in Over(r, "failed")
    BY <2>4, <2>8
  <2>11. ASSUME attempts # {} /\ Cardinality(failures) <= MaxWreckage
         PROVE  Reads(p, r)
    <3>1. p = n
      BY <2>5, <2>11
    <3> QED BY <3>1, <2>4, <2>6, <2>7, <2>9, <2>10, <2>11 DEF Reads, Considered, b
  <2>12. ASSUME ~(attempts # {} /\ Cardinality(failures) <= MaxWreckage)
         PROVE  Reads(p, r)
    <3>1. p = q
      BY <2>5, <2>12
    <3>2. failures = {} => Cardinality(failures) <= MaxWreckage
      BY FS_EmptySet, WreckageFitsWindow
    <3> QED BY <3>1, <3>2, <2>4, <2>6, <2>9, <2>10, <2>12 DEF Reads, Considered, b
  <2> QED BY <2>11, <2>12 DEF p
<1>5. CASE SettledIn(r, window) = {}
  <2> DEFINE deep == DeepTip(r)
             q    == At(r[b].txid)
  <2>1. deep.hasSettled /\ deep.settled = b
    BY DEF DeepTip, TipRow
  <2>2. \A status : {g \in WithStatus(r, Gens, status) : \A s \in SettledIn(r, Gens) : g > s}
                      = Over(r, status)
    <3>1. \A g \in Gens : g > b => \A s \in SettledIn(r, Gens) : g > s
      <4> HIDE DEF b
      <4> QED BY <1>1, <1>2 DEF SettledIn
    <3> QED BY <1>1, <3>1 DEF WithStatus, Over
  <2>3. /\ deep.hasFailed <=> Over(r, "failed") # {}
        /\ deep.hasAttempt <=> Over(r, "attempting") # {}
    BY <2>2 DEF DeepTip
  <2>4. p = IF deep.hasFailed THEN [q EXCEPT !.halted = TRUE]
            ELSE IF deep.hasAttempt THEN NoteAttempt(q, b) ELSE q
    <3>1. p = DeriveDeep(r)
      BY <1>3, <1>5 DEF DeriveTip
    <3>2. DeriveDeep(r) =
            IF ~deep.hasSettled THEN DeriveDeep(r)
            ELSE IF deep.hasFailed THEN [At(r[deep.settled].txid) EXCEPT !.halted = TRUE]
            ELSE IF deep.hasAttempt THEN NoteAttempt(At(r[deep.settled].txid), deep.settled)
            ELSE At(r[deep.settled].txid)
      BY DEF DeriveDeep
    <3> HIDE DEF deep
    <3> QED BY <3>1, <3>2, <2>1
  <2>5. Over(r, "failed") = {} => ~(Cardinality(Over(r, "failed")) > MaxWreckage)
    BY FS_EmptySet, WreckageFitsWindow
  <2> HIDE DEF deep, b, p
  <2>6. Reads(p, r)
    BY <2>3, <2>4, <2>5 DEF At, NoteAttempt, Reads, Considered, b
  <2> QED BY <2>6 DEF p
<1> QED BY <1>4, <1>5

-----------------------------------------------------------------------------
(***************************************************************************)
(* Adoption.                                                               *)
(***************************************************************************)
\* What an adoption records: signed transactions, one for each generation from
\* the one above the tip to n, each spending the one before it.
ChainFrom(p, x, n, f) ==
  /\ n \in Gens /\ x[p.tip].gen < n
  /\ \A g \in x[p.tip].gen + 1 .. n :
       /\ f[g] \in Signed(x) /\ x[f[g]].gen = g
       /\ x[f[g]].parent = IF g = x[p.tip].gen + 1 THEN p.tip ELSE f[g - 1]

Adopts(rec, p, x) ==
  \E n, f : /\ ChainFrom(p, x, n, f)
            /\ rec.steps = {f[g] : g \in x[p.tip].gen + 1 .. n}
            /\ rec.tip = f[n]

\* The walk n, f is the one the record rec is the outcome of.
Along(rec, p, x, n, f) ==
  /\ ChainFrom(p, x, n, f)
  /\ \A t : t \in rec.steps <=> \E h \in x[p.tip].gen + 1 .. n : t = f[h]

\* The row of generation g once the walk f over from .. n is written up to done.
AdoptedRow(r, f, from, n, done, g) ==
  IF g <= done /\ g \in from .. n THEN Row("broadcast", f[g], "none", NoTx) ELSE r[g]

\* walkForward.
LEMMA WalkForwardAdopts ==
  ASSUME NEW x \in [TxIds -> Action], NEW p, p.tip \in Made(x), NEW wf,
         NEW page \in SUBSET Made(x), NEW newestGen \in Gens,
         x[p.tip].gen < newestGen,
         WalkForward(p, x, page, newestGen, wf).verdict = "adopt"
  PROVE  Adopts(WalkForward(p, x, page, newestGen, wf), p, x)
<1> DEFINE from      == x[p.tip].gen + 1
           at(g)     == {t \in page : x[t].gen = g}
           byGen(g)  == Newest(at(g))
           before(g) == IF g = from THEN p.tip ELSE byGen(g - 1)
           linked(g) == /\ at(g) # {}
                        /\ byGen(g) \in Signed(x) \ wf
                        /\ g > from => at(g - 1) # {}
                        /\ x[byGen(g)].parent = before(g)
           broken    == {g \in from .. newestGen : ~linked(g)}
           steps(to) == {byGen(g) : g \in from .. to}
           stop      == Oldest(broken)
           f         == [g \in from .. newestGen |-> byGen(g)]
           rec       == WalkForward(p, x, page, newestGen, wf)
<1>1. from \in Nat /\ newestGen \in Nat /\ from <= newestGen /\ x[p.tip].gen \in Nat
  <2>1. x[p.tip].gen \in Gens
    BY DEF Made, Action
  <2> QED BY <2>1, MaxGenAssumption DEF Gens
<1>2. \A g : at(g) # {} => byGen(g) \in at(g)
  <2> SUFFICES ASSUME NEW g, at(g) # {}
               PROVE  byGen(g) \in at(g)
    OBVIOUS
  <2>1. at(g) \subseteq 0 .. MaxTx
    BY DEF Made, TxIds
  <2> HIDE DEF at
  <2> QED BY <2>1, NewestIn, MaxTxAssumption
<1>3. \A g \in from .. newestGen : g \notin broken =>
        /\ f[g] \in Signed(x) /\ x[f[g]].gen = g
        /\ x[f[g]].parent = IF g = from THEN p.tip ELSE f[g - 1]
  <2> SUFFICES ASSUME NEW g \in from .. newestGen, g \notin broken
               PROVE  /\ f[g] \in Signed(x) /\ x[f[g]].gen = g
                      /\ x[f[g]].parent = IF g = from THEN p.tip ELSE f[g - 1]
    OBVIOUS
  <2>1. at(g) # {} /\ byGen(g) \in Signed(x) /\ x[byGen(g)].parent = before(g)
    OBVIOUS
  <2>2. x[byGen(g)].gen = g
    BY <2>1, <1>2
  <2>3. f[g] = byGen(g) /\ (g # from => f[g - 1] = byGen(g - 1))
    <3> HIDE DEF byGen
    <3>1. g # from => g - 1 \in from .. newestGen
      BY <1>1
    <3> QED BY <3>1
  <2> HIDE DEF f, byGen
  <2> QED BY <2>1, <2>2, <2>3
<1>4. \A n \in from .. newestGen :
        (\A g \in from .. n : g \notin broken) =>
          /\ ChainFrom(p, x, n, f)
          /\ steps(n) = {f[g] : g \in from .. n} /\ byGen(n) = f[n]
  <2> SUFFICES ASSUME NEW n \in from .. newestGen, \A g \in from .. n : g \notin broken
               PROVE  /\ ChainFrom(p, x, n, f)
                      /\ steps(n) = {f[g] : g \in from .. n} /\ byGen(n) = f[n]
    OBVIOUS
  <2>1. \A g \in from .. n : g \in from .. newestGen
    BY <1>1
  <2>2. n \in Gens /\ x[p.tip].gen < n
    BY <1>1, MaxGenAssumption DEF Gens
  <2>3. \A g \in from .. n : f[g] = byGen(g)
    <3> HIDE DEF byGen
    <3> QED BY <2>1
  <2>4. byGen(n) = f[n] /\ steps(n) = {f[g] : g \in from .. n}
    <3> HIDE DEF byGen, f
    <3> QED BY <2>3
  <2> HIDE DEF f, byGen, steps, broken
  <2> QED BY <1>3, <2>1, <2>2, <2>4 DEF ChainFrom
<1>5. broken \subseteq Nat /\ broken \subseteq from .. newestGen
  BY <1>1
<1>6. rec =
        IF broken = {} THEN Verdict("adopt", byGen(newestGen), steps(newestGen))
        ELSE IF at(stop) = {} \/ byGen(stop) \in Signed(x) THEN Halt(p)
        ELSE IF stop = from THEN Resume(p)
        ELSE Verdict("adopt", byGen(stop - 1), steps(stop - 1))
  BY DEF WalkForward
<1>7. CASE broken = {}
  <2>1. rec = Verdict("adopt", byGen(newestGen), steps(newestGen))
    BY <1>6, <1>7
  <2>2. newestGen \in from .. newestGen
    BY <1>1
  <2> HIDE DEF f, byGen, steps, broken, rec
  <2>3. Adopts(rec, p, x)
    BY <1>4, <1>7, <2>1, <2>2 DEF Adopts, Verdict
  <2> QED BY <2>3 DEF rec
<1>8. CASE broken # {}
  <2>1. stop \in broken /\ \A h \in broken : stop <= h
    <3> HIDE DEF broken
    <3> QED BY <1>5, <1>8, OldestIn
  <2>2. stop # from /\ rec = Verdict("adopt", byGen(stop - 1), steps(stop - 1))
    <3>1. rec.verdict = "adopt" /\ Halt(p).verdict = "halt" /\ Resume(p).verdict = "resume"
      BY DEF Halt, Resume, Verdict
    <3> HIDE DEF at, byGen, steps, broken, rec, stop
    <3> QED BY <1>6, <1>8, <3>1
  <2>3. stop - 1 \in from .. newestGen /\ \A g \in from .. stop - 1 : g \notin broken
    <3> HIDE DEF broken, stop
    <3>1. stop \in from .. newestGen
      BY <1>5, <2>1
    <3>2. \A g \in from .. stop - 1 : g \in Nat /\ g < stop
      BY <1>1, <3>1
    <3> QED BY <1>1, <2>1, <2>2, <3>1, <3>2
  <2> DEFINE n == stop - 1
  <2> HIDE DEF f, byGen, steps, broken, rec, stop, n
  <2>4. ChainFrom(p, x, n, f) /\ steps(n) = {f[g] : g \in from .. n} /\ byGen(n) = f[n]
    BY <1>4, <2>3 DEF n
  <2>5. Adopts(rec, p, x)
    BY <2>2, <2>4 DEF Adopts, Verdict, n
  <2> QED BY <2>5 DEF rec
<1> QED BY <1>7, <1>8

\* RecoverCell.
LEMMA RecoverCellAdopts ==
  ASSUME NEW x \in [TxIds -> Action], NEW p, p.tip \in Made(x), NEW wf,
         RecoverCell(p, x, wf).verdict = "adopt"
  PROVE  Adopts(RecoverCell(p, x, wf), p, x)
<1> DEFINE page      == CellActions(x, TipDepth)
           gens      == {x[t].gen : t \in page}
           newestGen == Newest(gens)
           tipGen    == x[p.tip].gen
<1>1. Halt(p).verdict = "halt" /\ Resume(p).verdict = "resume"
  BY DEF Halt, Resume, Verdict
<1>2. page \subseteq Made(x)
  BY DEF CellActions, Made
<1>3. tipGen \in Nat
  <2>1. tipGen \in Gens
    BY DEF Made, Action
  <2> QED BY <2>1, MaxGenAssumption DEF Gens
<1>4. /\ p.attempted = tipGen + 1 /\ page # {} /\ ~(newestGen < p.attempted)
      /\ RecoverCell(p, x, wf) = WalkForward(p, x, page, newestGen, wf)
  BY <1>1 DEF RecoverCell
<1>5. newestGen \in Gens
  <2>1. \A t \in page : x[t].gen \in Gens
    <3> SUFFICES ASSUME NEW t \in page
                 PROVE  x[t].gen \in Gens
      OBVIOUS
    <3>1. t \in TxIds
      BY <1>2 DEF Made
    <3> QED BY <3>1 DEF Action
  <2>2. gens \subseteq Gens /\ gens # {}
    <3> HIDE DEF page
    <3> QED BY <1>4, <2>1
  <2> HIDE DEF gens
  <2> QED BY <2>2, NewestIn, MaxGenAssumption DEF Gens
<1> HIDE DEF page, newestGen
<1>6. newestGen \in Int /\ tipGen < newestGen
  <2>1. newestGen \in Int
    BY <1>5, MaxGenAssumption DEF Gens
  <2> QED BY <1>3, <1>4, <2>1
<1> QED BY <1>2, <1>4, <1>5, <1>6, WalkForwardAdopts

\* recoverSpentTip adopts one transaction, of which the store says nothing.
LEMMA RecoverRejectedAdopts ==
  ASSUME NEW x, NEW p, NEW r, NEW rr, RecoverRejected(p, r, x, rr).verdict = "adopt"
  PROVE  LET s == p.rejection.by
         IN  /\ s \in Accepted(x) /\ ~HasTxID(r, s) /\ x[s].parent = p.tip
             /\ RecoverRejected(p, r, x, rr) = Verdict("adopt", s, {s})
BY DEF RecoverRejected, RecoverSpentTip, RecoverStaleRejection,
       RecoverNotBroadcast, RetryRefusal, Halt, Resume, Verdict

\* A decision to resume adopts nothing.
LEMMA DecideResumes ==
  ASSUME NEW p, NEW r, NEW x, NEW rr, NEW wf, DecideCell(p, r, x, rr, wf).verdict = "resume"
  PROVE  DecideCell(p, r, x, rr, wf) = Resume(p)
<1> USE DEF Halt, Resume, Verdict
<1>1. ASSUME NEW page, NEW newestGen
      PROVE  WalkForward(p, x, page, newestGen, wf).verdict = "resume" =>
               WalkForward(p, x, page, newestGen, wf) = Resume(p)
  <2> DEFINE from      == x[p.tip].gen + 1
             at(g)     == {t \in page : x[t].gen = g}
             byGen(g)  == Newest(at(g))
             before(g) == IF g = from THEN p.tip ELSE byGen(g - 1)
             linked(g) == /\ at(g) # {}
                          /\ byGen(g) \in Signed(x) \ wf
                          /\ g > from => at(g - 1) # {}
                          /\ x[byGen(g)].parent = before(g)
             broken    == {g \in from .. newestGen : ~linked(g)}
             steps(to) == {byGen(g) : g \in from .. to}
             stop      == Oldest(broken)
  <2>1. WalkForward(p, x, page, newestGen, wf) =
          IF broken = {} THEN Verdict("adopt", byGen(newestGen), steps(newestGen))
          ELSE IF at(stop) = {} \/ byGen(stop) \in Signed(x) THEN Halt(p)
          ELSE IF stop = from THEN Resume(p)
          ELSE Verdict("adopt", byGen(stop - 1), steps(stop - 1))
    BY DEF WalkForward
  <2> HIDE DEF at, byGen, steps, broken, stop, from
  <2> QED BY <2>1
<1> HIDE DEF Resume
<1>2. RecoverCell(p, x, wf).verdict = "resume" => RecoverCell(p, x, wf) = Resume(p)
  BY <1>1 DEF RecoverCell
<1>3. RecoverRejected(p, r, x, rr).verdict = "resume" => RecoverRejected(p, r, x, rr) = Resume(p)
  BY DEF RecoverRejected, RecoverSpentTip, RecoverStaleRejection,
         RecoverNotBroadcast, RetryRefusal
<1> QED BY <1>2, <1>3 DEF DecideCell

\* The rows an adoption writes, complete or cut short.
LEMMA AdoptUpToRows ==
  ASSUME NEW x, NEW p, NEW r, NEW rec, NEW n, NEW f,
         Along(rec, p, x, n, f),
         NEW done \in Gens, NEW g \in Gens
  PROVE  AdoptUpTo(rec, r, x, done)[g] = AdoptedRow(r, f, x[p.tip].gen + 1, n, done, g)
<1> USE DEF Along, AdoptedRow
<1> DEFINE from == x[p.tip].gen + 1
<1>1. \A h \in from .. n : x[f[h]].gen = h
  BY DEF ChainFrom
<1>2. CASE g \in from .. n
  <2>1. \A t \in rec.steps : x[t].gen = g => t = f[g]
    <3> SUFFICES ASSUME NEW h \in from .. n, x[f[h]].gen = g
                 PROVE  f[h] = f[g]
      OBVIOUS
    <3> QED BY <1>1
  <2>2. f[g] \in rec.steps /\ x[f[g]].gen = g
    BY <1>1, <1>2
  <2>3. (CHOOSE t \in rec.steps : x[t].gen = g) = f[g]
    BY <2>1, <2>2
  <2> QED BY <1>2, <2>2, <2>3 DEF AdoptUpTo
<1>3. CASE g \notin from .. n
  <2>1. \A t \in rec.steps : x[t].gen # g
    BY <1>1, <1>3
  <2> QED BY <1>3, <2>1 DEF AdoptUpTo
<1> QED BY <1>2, <1>3

-----------------------------------------------------------------------------
(***************************************************************************)
(* Part two: the operator's tool.  It derives a position and decides about *)
(* it in one step, so that what derivation reads is still so when recovery *)
(* writes. What its properties need of the record is only that a settled   *)
(* row names a signed transaction of its own generation, that the genesis  *)
(* is one, and that every action extends an earlier one by a generation.   *)
(***************************************************************************)
\* Every action of a wallet is one generation above the one it spends.
Lineal(x) ==
  \A t \in Made(x) \ {Genesis} :
    x[t].parent \in Made(x) /\ x[t].gen = x[x[t].parent].gen + 1

\* A settled row names a signed transaction of its generation.
SettledSigned(r, x) ==
  \A g \in SettledIn(r, Gens) : r[g].txid \in Signed(x) /\ x[r[g].txid].gen = g

WalletSound ==
  /\ wallet \in [TxIds -> Action]
  /\ wallet[Genesis].st = "mined" /\ wallet[Genesis].gen = 0 /\ wallet[Genesis].parent = NoTx
  /\ Lineal(wallet)

ToolInv ==
  /\ WalletSound
  /\ record \in [Gens -> CellTx] /\ Named(record, wallet)
  /\ SettledSigned(record, wallet)
  /\ record[0] = GenesisRow

\* The generations of a wallet's actions are those of the recursion.
LEMMA GenerationIs ==
  ASSUME NEW parent \in [Created -> TxIds \cup {NoTx}], \A t \in Created : parent[t] < t
  PROVE  \A t \in TxIds :
           Generation(parent)[t] = IF t = Genesis \/ parent[t] = NoTx THEN 0
                                   ELSE Generation(parent)[parent[t]] + 1
<1>1. MaxTx \in Nat
  BY MaxTxAssumption
<1> DEFINE Is(f, t) == f[t] = IF t = Genesis \/ parent[t] = NoTx THEN 0 ELSE f[parent[t]] + 1
           Short == {n \in Nat : n <= MaxTx /\ ~ \E f : \A t \in 0 .. n : Is(f, t)}
<1>2. Short = {}
  <2> SUFFICES ASSUME Short # {} PROVE FALSE
    OBVIOUS
  <2>1. PICK n \in Short : \A m \in Short : n <= m
    BY LeastExists
  <2>2. \A t \in 0 .. 0 : Is([u \in {0} |-> 0], t)
    BY DEF Genesis
  <2>3. n # 0 /\ n \in Nat /\ n <= MaxTx
    BY <2>1, <2>2
  <2>4. n - 1 \in Nat /\ n - 1 <= MaxTx /\ n - 1 \notin Short
    BY <1>1, <2>1, <2>3
  <2>5. PICK f : \A t \in 0 .. n - 1 : Is(f, t)
    BY <2>4
  <2> DEFINE h == [t \in 0 .. n |-> IF t = n THEN IF parent[n] = NoTx THEN 0 ELSE f[parent[n]] + 1
                                    ELSE f[t]]
  <2>6. \A t \in 0 .. n : Is(h, t)
    <3> TAKE t \in 0 .. n
    <3>1. CASE t = Genesis
      <4>1. Is(f, 0) /\ f[0] = 0 /\ h[0] = f[0]
        BY <2>3, <2>5 DEF Genesis
      <4> QED BY <3>1, <4>1 DEF Genesis
    <3>2. CASE t # Genesis
      <4>1. t \in Created /\ parent[t] < t /\ parent[t] \in TxIds \cup {NoTx}
        BY <1>1, <2>3, <3>2 DEF Created, TxIds, Genesis
      <4>2. parent[t] # NoTx => parent[t] \in 0 .. n /\ parent[t] # n /\ h[parent[t]] = f[parent[t]]
        BY <1>1, <2>3, <4>1 DEF TxIds
      <4>3. CASE t = n
        BY <3>2, <4>2, <4>3
      <4>4. CASE t # n
        <5>1. t \in 0 .. n - 1 /\ h[t] = f[t]
          BY <2>3, <4>4
        <5>2. Is(f, t)
          BY <2>5, <5>1
        <5> QED BY <3>2, <4>2, <5>1, <5>2
      <4> QED BY <4>3, <4>4
    <3> QED BY <3>1, <3>2
  <2> HIDE DEF h
  <2> QED BY <2>1, <2>6
<1>3. PICK f : \A t \in TxIds : Is(f, t)
  <2>1. MaxTx \notin Short
    BY <1>2
  <2> QED BY <1>1, <2>1 DEF TxIds
<1> DEFINE G == [t \in TxIds |-> f[t]]
<1>4. \A t \in TxIds : Is(G, t)
  <2> TAKE t \in TxIds
  <2>1. t # Genesis /\ parent[t] # NoTx => parent[t] \in TxIds
    BY DEF Created
  <2> QED BY <1>3, <2>1
<1>5. G = [t \in TxIds |-> IF t = Genesis \/ parent[t] = NoTx THEN 0 ELSE G[parent[t]] + 1]
  <2>1. \A t \in TxIds : f[t] = IF t = Genesis \/ parent[t] = NoTx THEN 0 ELSE G[parent[t]] + 1
    BY <1>4
  <2> QED BY <2>1, Zenon
<1>6. Generation(parent) =
        [t \in TxIds |-> IF t = Genesis \/ parent[t] = NoTx THEN 0
                         ELSE Generation(parent)[parent[t]] + 1]
  <2> HIDE DEF G
  <2> QED BY <1>5 DEF Generation
<1> HIDE DEF G
<1> QED BY <1>6, Zenon

\* The wallet the tool finds.
LEMMA WalletInit == ToolInit => WalletSound
<1> SUFFICES ASSUME ToolInit PROVE WalletSound
  OBVIOUS
<1>1. PICK parent \in [Created -> TxIds \cup {NoTx}],
           st \in [Created -> {"none", "created", "sent", "seen", "refused"}],
           named \in [Created -> BOOLEAN] :
             /\ \A t \in Created : parent[t] < t /\ (parent[t] = NoTx <=> st[t] = "none")
             /\ wallet = Wallet(parent, st, named)
  BY DEF ToolInit
<1> DEFINE gen == Generation(parent)
<1>2. \A t \in TxIds : gen[t] = IF t = Genesis \/ parent[t] = NoTx THEN 0
                                ELSE gen[parent[t]] + 1
  BY <1>1, GenerationIs
<1> HIDE DEF gen
<1>3. Genesis \in TxIds /\ Created = TxIds \ {Genesis} /\ NoTx \notin TxIds
  BY MaxTxAssumption DEF Genesis, TxIds, Created, NoTx
<1>4. /\ wallet = [t \in TxIds |-> wallet[t]]
      /\ wallet[Genesis] = [gen |-> 0, parent |-> NoTx, st |-> "mined", by |-> NoTx]
      /\ \A t \in Created : /\ wallet[t].gen = gen[t] /\ wallet[t].parent = parent[t]
                            /\ wallet[t].st = st[t] /\ wallet[t].by \in TxIds \cup {NoTx}
                            /\ wallet[t] = [gen |-> wallet[t].gen, parent |-> wallet[t].parent,
                                            st |-> wallet[t].st, by |-> wallet[t].by]
  <2> DEFINE taken(t) == {s \in Created : /\ s # t /\ parent[s] = parent[t]
                                          /\ st[s] \in {"seen", "mined"}}
             by(t) == IF named[t] /\ st[t] = "refused" /\ taken(t) # {}
                        THEN CHOOSE s \in taken(t) : TRUE ELSE NoTx
  <2>1. \A t \in Created : by(t) \in TxIds \cup {NoTx}
    BY <1>3
  <2>2. wallet = [t \in TxIds |->
                    IF t = Genesis
                      THEN [gen |-> 0, parent |-> NoTx, st |-> "mined", by |-> NoTx]
                      ELSE [gen |-> gen[t], parent |-> parent[t], st |-> st[t], by |-> by(t)]]
    BY <1>1 DEF Wallet, gen
  <2> HIDE DEF by
  <2>3. \A t \in Created : wallet[t] = [gen |-> gen[t], parent |-> parent[t], st |-> st[t], by |-> by(t)]
    BY <1>3, <2>2
  <2> QED BY <1>3, <2>1, <2>2, <2>3
<1>5. Possible(wallet)
  BY DEF ToolInit
<1>6. \A t \in Created : st[t] # "none" => wallet[t].parent \in Signed(wallet) /\ wallet[t].gen \in Gens
  BY <1>4, <1>5 DEF Possible
<1>7. \A t \in Created : wallet[t].gen \in Gens
  <2> TAKE t \in Created
  <2>1. CASE st[t] = "none"
    <3>1. parent[t] = NoTx /\ t \in TxIds
      BY <1>1, <1>3, <2>1
    <3>2. wallet[t].gen = 0
      BY <1>2, <1>4, <3>1
    <3> QED BY <3>2, MaxGenAssumption DEF Gens
  <2>2. CASE st[t] # "none"
    BY <1>6, <2>2
  <2> QED BY <2>1, <2>2
<1>8. wallet \in [TxIds -> Action]
  <2> SUFFICES ASSUME NEW t \in TxIds PROVE wallet[t] \in Action
    BY <1>4
  <2>1. CASE t = Genesis
    BY <1>4, <2>1, MaxGenAssumption DEF Action, Gens, TxState
  <2>2. CASE t # Genesis
    <3>1. t \in Created /\ wallet[t].gen \in Gens
      BY <1>3, <1>7, <2>2
    <3>2. parent[t] \in TxIds \cup {NoTx} /\ st[t] \in TxState
      BY <1>1, <3>1 DEF TxState
    <3>3. wallet[t].parent \in TxIds \cup {NoTx} /\ wallet[t].st \in TxState
          /\ wallet[t].by \in TxIds \cup {NoTx}
      BY <1>4, <3>1, <3>2
    <3>4. PICK a, b, c, d : wallet[t] = [gen |-> a, parent |-> b, st |-> c, by |-> d]
      BY <1>4, <3>1
    <3>5. a \in Gens /\ b \in TxIds \cup {NoTx} /\ c \in TxState /\ d \in TxIds \cup {NoTx}
      BY <3>1, <3>3, <3>4
    <3> QED BY <3>4, <3>5 DEF Action
  <2> QED BY <2>1, <2>2
<1>9. Lineal(wallet)
  <2> SUFFICES ASSUME NEW t \in Made(wallet) \ {Genesis}
               PROVE  /\ wallet[t].parent \in Made(wallet)
                      /\ wallet[t].gen = wallet[wallet[t].parent].gen + 1
    BY DEF Lineal
  <2>1. t \in Created /\ t \in TxIds /\ st[t] # "none"
    BY <1>3, <1>4 DEF Made
  <2>2. wallet[t].parent \in Made(wallet) /\ wallet[t].parent = parent[t] /\ parent[t] \in TxIds
    BY <1>4, <1>6, <2>1 DEF Made, Signed, Live
  <2>3. wallet[t].gen = gen[parent[t]] + 1
    BY <1>2, <1>3, <1>4, <2>1, <2>2
  <2>4. wallet[parent[t]].gen = gen[parent[t]]
    BY <1>2, <1>3, <1>4, <2>2
  <2> QED BY <2>2, <2>3, <2>4
<1> QED BY <1>4, <1>8, <1>9 DEF WalletSound

\* The record the tool finds.
LEMMA ToolInvInit == ToolInit => ToolInv
<1> SUFFICES ASSUME ToolInit PROVE ToolInv
  OBVIOUS
<1>1. WalletSound
  BY WalletInit
<1>2. Genesis \in Made(wallet) /\ Genesis \in Signed(wallet) /\ Genesis \in TxIds
  BY <1>1, MaxTxAssumption DEF WalletSound, Made, Signed, Live, Genesis, TxIds
<1>3. GenesisRow \in CellTx
  BY <1>2, RowType DEF GenesisRow, Status, Reason
<1>4. \A g \in Gens : (g = 0 /\ record[g] = GenesisRow) \/ (g # 0 /\ record[g] \in Choices(g))
  BY DEF ToolInit
<1>5. ASSUME NEW g \in Gens, record[g] \in Choices(g)
      PROVE  /\ record[g] \in CellTx /\ record[g].txid \in Made(wallet) \cup {NoTx}
             /\ record[g].status \in Settled =>
                  record[g].txid \in Signed(wallet) /\ wallet[record[g].txid].gen = g
  <2>1. CASE record[g] \in {NoRow, Row("attempting", NoTx, "none", NoTx),
                            Row("failed", NoTx, "unsigned", NoTx),
                            Row("failed", NoTx, "unclear", NoTx)}
    BY <2>1 DEF NoRow, Row, CellTx, Status, Reason, Settled
  <2>2. ASSUME NEW t \in Signed(wallet), wallet[t].gen = g,
               record[g] = Row("broadcast", t, "none", NoTx)
        PROVE  /\ record[g] \in CellTx /\ record[g].txid \in Made(wallet)
               /\ record[g].txid \in Signed(wallet) /\ wallet[record[g].txid].gen = g
    <3>1. t \in Made(wallet) /\ t \in TxIds /\ record[g].txid = t
      BY <2>2 DEF Made, Signed, Live, Row
    <3> QED BY <2>2, <3>1, RowType DEF Status, Reason
  <2>3. ASSUME NEW t \in Refused,
               record[g] = Row("failed", t, IF wallet[t].by = NoTx THEN "refused" ELSE "spent",
                               wallet[t].by)
        PROVE  /\ record[g] \in CellTx /\ record[g].txid \in Made(wallet)
               /\ record[g].status \notin Settled
    <3>1. t \in Made(wallet) /\ t \in TxIds /\ record[g].txid = t /\ record[g].status = "failed"
      BY <2>3 DEF Made, Refused, Row
    <3>2. wallet[t].by \in TxIds \cup {NoTx}
      BY <1>1, <3>1 DEF WalletSound, Action
    <3>3. (IF wallet[t].by = NoTx THEN "refused" ELSE "spent") \in Reason
      BY DEF Reason
    <3>4. record[g] \in CellTx
      BY <2>3, <3>1, <3>2, <3>3, RowType DEF Status
    <3> QED BY <3>1, <3>4 DEF Settled
  <2> QED BY <1>5, <2>1, <2>2, <2>3 DEF Choices
<1>6. record \in [Gens -> CellTx]
  <2>1. \A g \in Gens : record[g] \in CellTx
    BY <1>3, <1>4, <1>5
  <2>2. record = [g \in Gens |-> record[g]]
    BY DEF ToolInit
  <2> QED BY <2>1, <2>2
<1>7. Named(record, wallet)
  BY <1>2, <1>4, <1>5 DEF Named, GenesisRow, Row
<1>8. SettledSigned(record, wallet)
  BY <1>1, <1>2, <1>4, <1>5 DEF SettledSigned, SettledIn, GenesisRow, Row, WalletSound
<1>9. record[0] = GenesisRow
  BY <1>4, MaxGenAssumption DEF Gens
<1> QED BY <1>1, <1>6, <1>7, <1>8, <1>9 DEF ToolInv

\* What derivation finds in such a record.
LEMMA ToolReads ==
  ASSUME ToolInv
  PROVE  LET p == DeriveTip(record)
             b == TipRow(record)
         IN  /\ Reads(p, record)
             /\ b \in SettledIn(record, Gens) /\ b \in Gens
             /\ \A g \in SettledIn(record, Gens) : g <= b
             /\ p.tip = record[b].txid /\ p.tip \in Made(wallet) /\ p.tip \in TxIds
             /\ wallet[p.tip].gen = b
<1>1. 0 \in SettledIn(record, Gens)
  BY MaxGenAssumption DEF ToolInv, GenesisRow, Row, SettledIn, Settled, Gens, Genesis, NoTx
<1> DEFINE p == DeriveTip(record)
           b == TipRow(record)
<1>2. Reads(p, record)
  BY <1>1, DeriveTipReads
<1>3. b \in SettledIn(record, Gens) /\ b \in Gens /\ \A g \in SettledIn(record, Gens) : g <= b
  BY <1>1, TipRowIn
<1>4. p.tip = record[b].txid
  BY <1>2 DEF Reads
<1>5. p.tip \in Signed(wallet) /\ wallet[p.tip].gen = b
  BY <1>3, <1>4 DEF ToolInv, SettledSigned
<1>6. p.tip \in Made(wallet) /\ p.tip \in TxIds
  BY <1>5 DEF Made, Signed, Live
<1> HIDE DEF p, b
<1> QED BY <1>2, <1>3, <1>4, <1>5, <1>6 DEF p, b

\* What the tool adopts is a chain on the tip.
LEMMA ToolAdopts ==
  ASSUME ToolInv, NEW p, p = DeriveTip(record), NEW wf, NEW rec,
         rec = DecideCell(p, record, wallet, retryRefused, wf), rec.verdict = "adopt"
  PROVE  \E n, f : Along(rec, p, wallet, n, f)
<1>1. p.tip \in Made(wallet) /\ p.tip \in TxIds /\ wallet \in [TxIds -> Action]
  BY ToolReads DEF ToolInv, WalletSound
<1>2. CASE p.unknown
  <2>1. rec = RecoverCell(p, wallet, wf)
    BY <1>2 DEF DecideCell
  <2>2. Adopts(rec, p, wallet)
    BY <1>1, <2>1, RecoverCellAdopts
  <2> QED BY <2>2 DEF Adopts, Along
<1>3. CASE ~p.unknown
  <2> DEFINE s == p.rejection.by
             f == [g \in Gens |-> s]
             n == wallet[s].gen
  <2>1. rec = RecoverRejected(p, record, wallet, retryRefused)
    BY <1>3 DEF DecideCell
  <2>2. s \in Accepted(wallet) /\ wallet[s].parent = p.tip /\ rec = Verdict("adopt", s, {s})
    BY <2>1, RecoverRejectedAdopts
  <2>3. s \in Signed(wallet) /\ s \in Made(wallet) /\ s \in TxIds /\ n \in Gens
    BY <1>1, <2>2 DEF Accepted, Signed, Live, Made, Action
  <2>4. s # Genesis
    <3>1. p.tip # NoTx
      BY <1>1, MaxTxAssumption DEF TxIds, NoTx
    <3> QED BY <2>2, <3>1 DEF ToolInv, WalletSound
  <2>5. n = wallet[p.tip].gen + 1 /\ wallet[p.tip].gen \in Gens
    BY <1>1, <2>2, <2>3, <2>4 DEF ToolInv, WalletSound, Lineal, Action
  <2>6. \A g \in wallet[p.tip].gen + 1 .. n : g = n
    BY <2>3, <2>5, MaxGenAssumption DEF Gens
  <2>7. n \in wallet[p.tip].gen + 1 .. n /\ wallet[p.tip].gen < n
    BY <2>3, <2>5, MaxGenAssumption DEF Gens
  <2>8. f[n] = s
    BY <2>3
  <2>9. ChainFrom(p, wallet, n, f)
    <3> HIDE DEF f, n
    <3>1. wallet[s].gen = n
      BY DEF n
    <3> QED BY <2>2, <2>3, <2>5, <2>6, <2>7, <2>8, <3>1 DEF ChainFrom
  <2>10. \A t : t \in rec.steps <=> \E h \in wallet[p.tip].gen + 1 .. n : t = f[h]
    <3> HIDE DEF f, n
    <3> QED BY <2>2, <2>6, <2>7, <2>8 DEF Verdict
  <2> QED BY <2>9, <2>10 DEF Along
<1> QED BY <1>2, <1>3

\* The newest settled row, said of any generation that is one.
LEMMA TipRowIs ==
  ASSUME NEW r, NEW n \in SettledIn(r, Gens), \A g \in SettledIn(r, Gens) : g <= n
  PROVE  TipRow(r) = n
<1>1. TipRow(r) \in SettledIn(r, Gens) /\ TipRow(r) \in Gens /\ n <= TipRow(r)
  BY TipRowIn
<1>2. TipRow(r) <= n
  BY <1>1
<1> QED BY <1>1, <1>2, MaxGenAssumption DEF Gens, SettledIn

\* What a recovery may leave, whole or cut short, is one of these.
LEMMA Leaves ==
  ASSUME NEW p, NEW rec, rec.verdict \in {"halt", "resume", "adopt"}, NEW r, NEW x,
         NEW a, a = ApplyRecovery(p, rec, r, x) \/ a \in CutShort(p, rec, r, x)
  PROVE  \/ a = ApplyRecovery(p, rec, r, x)
         \/ \E done \in Gens : a = AdoptUpTo(rec, r, x, done)
BY DEF CutShort

\* A decision to resume says only that, so nothing of it is written in part.
LEMMA ResumesWhole ==
  ASSUME NEW p, NEW r, r = [g \in Gens |-> r[g]], NEW x, NEW done
  PROVE  AdoptUpTo(Resume(p), r, x, done) = r
<1>1. Resume(p).steps = {}
  BY DEF Resume, Verdict
<1> QED BY <1>1 DEF AdoptUpTo

\* A run adopts, retracts or leaves the record as it is, and says so of what it
\* has not cut short.
LEMMA ToolRuns ==
  ASSUME ToolInv, Run
  PROVE  LET p   == DeriveTip(record)
             rec == DecideCell(p, record, wallet, retryRefused, failedKnown)
         IN  /\ UNCHANGED <<wallet, failedKnown, retryRefused>>
             /\ \/ record' = record /\ outcome' \notin {"resume", "adopt"}
                \/ /\ Considered(p) /\ outcome' \in {"resume", "failed"}
                   /\ record' = Retract(p, record)
                \/ /\ Considered(p) /\ rec.verdict = "adopt"
                   /\ \E done \in Gens :
                        /\ outcome' = "adopt" => done = MaxGen
                        /\ outcome' # "resume"
                        /\ record' = AdoptUpTo(rec, record, wallet, done)
<1> DEFINE p   == DeriveTip(record)
           dec == DecideCell(p, record, wallet, retryRefused, failedKnown)
<1>1. p.tip \in Made(wallet) /\ wallet \in [TxIds -> Action] /\ record = [g \in Gens |-> record[g]]
  BY ToolReads DEF ToolInv, WalletSound
<1>2. dec.verdict = "resume" => dec = Resume(p)
  BY DecideResumes
<1> HIDE DEF p, dec
<1>3. UNCHANGED <<wallet, failedKnown, retryRefused>>
  BY DEF Run
<1>4. CASE ~Considered(p)
  BY <1>3, <1>4 DEF Run, p
<1>5. CASE Considered(p)
  <2>1. PICK rec \in Decisions(p, record, wallet, retryRefused, failedKnown) :
          \/ record' = ApplyRecovery(p, rec, record, wallet) /\ outcome' = rec.verdict
          \/ /\ rec.verdict # "halt" /\ record' \in CutShort(p, rec, record, wallet)
             /\ outcome' = "failed"
    BY <1>5 DEF Run, p
  <2>2. /\ rec.verdict \in {"halt", "resume", "adopt"}
        /\ rec.verdict # "halt" => rec = dec
    BY <1>1, DecisionsType DEF Decision, dec
  <2>3. CASE rec.verdict = "halt"
    BY <1>3, <2>1, <2>3 DEF ApplyRecovery, p
  <2>4. CASE rec.verdict = "resume"
    <3>1. ApplyRecovery(p, rec, record, wallet) = Retract(p, record)
      BY <2>4 DEF ApplyRecovery
    <3>2. \A done : AdoptUpTo(rec, record, wallet, done) = record
      BY <1>1, <1>2, <2>2, <2>4, ResumesWhole
    <3>3. \/ outcome' = "resume" /\ record' = Retract(p, record)
          \/ outcome' = "failed" /\ (record' = Retract(p, record) \/ record' = record)
      BY <2>1, <2>4, <3>1, <3>2 DEF CutShort
    <3> QED BY <1>3, <1>5, <3>3 DEF p
  <2>5. CASE rec.verdict = "adopt"
    <3>1. ApplyRecovery(p, rec, record, wallet) = AdoptUpTo(rec, record, wallet, MaxGen)
      BY <2>5 DEF ApplyRecovery
    <3>2. MaxGen \in Gens
      BY MaxGenAssumption DEF Gens
    <3>3. \E done \in Gens : /\ outcome' = "adopt" => done = MaxGen
                             /\ outcome' # "resume"
                             /\ record' = AdoptUpTo(rec, record, wallet, done)
      <4>1. CASE record' = AdoptUpTo(rec, record, wallet, MaxGen) /\ outcome' \in {"adopt", "failed"}
        BY <3>2, <4>1
      <4>2. CASE outcome' = "failed" /\ record' \in CutShort(p, rec, record, wallet)
        BY <3>1, <3>2, <4>2 DEF CutShort
      <4> QED BY <2>1, <2>5, <3>1, <4>1, <4>2
    <3> QED BY <1>3, <1>5, <2>2, <2>5, <3>3 DEF p, dec
  <2> QED BY <2>2, <2>3, <2>4, <2>5
<1> QED BY <1>4, <1>5

\* The record an adoption leaves: the chain, from the tip up to where it was
\* cut short.
LEMMA ToolAdopted ==
  ASSUME ToolInv, NEW p, p = DeriveTip(record), NEW wf, NEW rec, NEW done \in Gens,
         rec = DecideCell(p, record, wallet, retryRefused, wf), rec.verdict = "adopt"
  PROVE  LET b == TipRow(record)
             a == AdoptUpTo(rec, record, wallet, done)
         IN  \E f : \E n \in Gens :
               /\ b <= n /\ (b = n => done # MaxGen)
               /\ \A g \in b + 1 .. n :
                    /\ f[g] \in Signed(wallet) /\ wallet[f[g]].gen = g /\ f[g] # NoTx
                    /\ wallet[f[g]].parent = IF g = b + 1 THEN p.tip ELSE f[g - 1]
               /\ \A g \in Gens : a[g] = IF g \in b + 1 .. n
                                         THEN Row("broadcast", f[g], "none", NoTx)
                                         ELSE record[g]
<1> DEFINE b == TipRow(record)
<1>1. wallet[p.tip].gen = b /\ b \in Gens
  BY ToolReads
<1>2. PICK top, f : Along(rec, p, wallet, top, f)
  BY ToolAdopts
<1> HIDE DEF b
<1>3. top \in Gens /\ b < top
  BY <1>1, <1>2 DEF Along, ChainFrom
<1>4. \A g \in b + 1 .. top :
        /\ f[g] \in Signed(wallet) /\ wallet[f[g]].gen = g /\ f[g] # NoTx
        /\ wallet[f[g]].parent = IF g = b + 1 THEN p.tip ELSE f[g - 1]
  <2>1. \A t \in Signed(wallet) : t # NoTx
    BY MaxTxAssumption DEF Signed, Live, TxIds, NoTx
  <2> QED BY <1>1, <1>2, <2>1 DEF Along, ChainFrom
<1>5. \A g \in Gens : AdoptUpTo(rec, record, wallet, done)[g] =
                        IF g <= done /\ g \in b + 1 .. top
                          THEN Row("broadcast", f[g], "none", NoTx) ELSE record[g]
  <2> SUFFICES ASSUME NEW g \in Gens
               PROVE  AdoptUpTo(rec, record, wallet, done)[g] =
                        IF g <= done /\ g \in b + 1 .. top
                          THEN Row("broadcast", f[g], "none", NoTx) ELSE record[g]
    OBVIOUS
  <2>1. AdoptUpTo(rec, record, wallet, done)[g] =
          AdoptedRow(record, f, wallet[p.tip].gen + 1, top, done, g)
    BY <1>2, AdoptUpToRows
  <2> QED BY <1>1, <2>1 DEF AdoptedRow
<1>6. \E n \in Gens : /\ b <= n /\ n <= top /\ (b = n => done # MaxGen)
                       /\ \A g \in Gens : g \in b + 1 .. n <=> g <= done /\ g \in b + 1 .. top
  <2> DEFINE n == IF done <= b THEN b ELSE IF done <= top THEN done ELSE top
  <2>1. n \in Gens /\ b <= n /\ n <= top /\ (b = n => done # MaxGen)
    BY <1>1, <1>3, MaxGenAssumption DEF Gens
  <2>2. \A g \in Gens : g \in b + 1 .. n <=> g <= done /\ g \in b + 1 .. top
    BY <1>1, <1>3, MaxGenAssumption DEF Gens
  <2> QED BY <2>1, <2>2
<1>7. PICK n \in Gens : /\ b <= n /\ n <= top /\ (b = n => done # MaxGen)
                        /\ \A g \in Gens : g \in b + 1 .. n <=> g <= done /\ g \in b + 1 .. top
  BY <1>6
<1>8. \A g \in b + 1 .. n : g \in b + 1 .. top
  BY <1>1, <1>3, <1>7, MaxGenAssumption DEF Gens
<1> QED BY <1>4, <1>5, <1>7, <1>8 DEF b

\* The one row a retraction takes away, an attempt or a failure above the tip.
LEMMA ToolRetracts ==
  ASSUME ToolInv, NEW p, p = DeriveTip(record), Considered(p)
  PROVE  LET r == Retract(p, record)
         IN  /\ r = record \/ \E k \in Gens :
                  /\ record[k].status \in {"attempting", "failed"}
                  /\ r = [g \in Gens |-> IF g = k THEN NoRow ELSE record[g]]
             /\ ~p.unknown => r # record
<1> DEFINE clear(k) == [g \in Gens |-> IF g = k THEN NoRow ELSE record[g]]
<1>1. record = [g \in Gens |-> record[g]]
  BY DEF ToolInv
<1>2. \A k : DeleteAttempt(record, k) =
        IF k \in Gens /\ record[k].status = "attempting" THEN clear(k) ELSE record
  BY <1>1 DEF DeleteAttempt
<1>3. \A k, t : DeleteRejection(record, k, t) =
        IF k \in Gens /\ record[k].status = "failed" /\ record[k].txid = t
          THEN clear(k) ELSE record
  BY <1>1 DEF DeleteRejection
<1> HIDE DEF clear
<1>4. CASE p.unknown
  BY <1>2, <1>4 DEF Retract, clear
<1>5. CASE ~p.unknown
  <2>1. Reads(p, record)
    BY ToolReads
  <2> DEFINE k == p.rejectedAt
  <2>2. k \in Gens /\ record[k].status = "failed" /\ p.rejection = record[k]
    BY <1>5, <2>1 DEF Considered, Reads, Over
  <2>3. Retract(p, record) = DeleteRejection(record, k, record[k].txid)
    BY <1>5, <2>2 DEF Retract, DeleteUnsignedRejection
  <2> HIDE DEF k
  <2>4. Retract(p, record) = clear(k)
    BY <1>3, <2>2, <2>3
  <2>5. clear(k)[k].status = "none"
    BY <2>2 DEF clear, NoRow
  <2> QED BY <1>5, <2>2, <2>4, <2>5 DEF clear
<1> QED BY <1>4, <1>5

\* Every run keeps the record sound.
LEMMA ToolNext == ToolInv /\ [Run]_toolVars => ToolInv'
<1> SUFFICES ASSUME ToolInv, [Run]_toolVars PROVE ToolInv'
  OBVIOUS
<1>1. CASE UNCHANGED toolVars
  BY <1>1 DEF toolVars, ToolInv, WalletSound
<1>2. CASE Run
  <2> DEFINE p   == DeriveTip(record)
             rec == DecideCell(p, record, wallet, retryRefused, failedKnown)
             b   == TipRow(record)
  <2>1. UNCHANGED wallet
    BY <1>2, ToolRuns
  <2>2. /\ 0 \in Gens /\ record[0] = GenesisRow
        /\ b \in Gens
    BY ToolReads, MaxGenAssumption DEF ToolInv, Gens
  <2>3. \/ record' = record
        \/ \E k \in Gens : /\ record[k].status \in {"attempting", "failed"}
                           /\ record' = [g \in Gens |-> IF g = k THEN NoRow ELSE record[g]]
        \/ /\ rec.verdict = "adopt"
           /\ \E done \in Gens : record' = AdoptUpTo(rec, record, wallet, done)
    <3>1. \/ record' = record
          \/ Considered(p) /\ record' = Retract(p, record)
          \/ /\ rec.verdict = "adopt"
             /\ \E done \in Gens : record' = AdoptUpTo(rec, record, wallet, done)
      BY <1>2, ToolRuns
    <3> QED BY <3>1, ToolRetracts
  <2>4. CASE record' = record
    BY <2>1, <2>4 DEF ToolInv, WalletSound
  <2>5. ASSUME NEW k \in Gens, record[k].status \in {"attempting", "failed"},
               record' = [g \in Gens |-> IF g = k THEN NoRow ELSE record[g]]
        PROVE  ToolInv'
    <3>1. k # 0
      BY <2>2, <2>5 DEF GenesisRow, Row
    <3>2. record' \in [Gens -> CellTx] /\ Named(record', wallet)
      BY <2>5, NoRowType DEF ToolInv, Named, NoRow
    <3>3. SettledSigned(record', wallet)
      BY <2>5 DEF ToolInv, SettledSigned, SettledIn, NoRow, Settled
    <3>4. record'[0] = GenesisRow
      BY <2>2, <2>5, <3>1
    <3> QED BY <2>1, <3>2, <3>3, <3>4 DEF ToolInv, WalletSound
  <2>6. ASSUME rec.verdict = "adopt", NEW done \in Gens,
               record' = AdoptUpTo(rec, record, wallet, done)
        PROVE  ToolInv'
    <3>1. PICK f : \E n \in Gens :
            /\ b <= n
            /\ \A g \in b + 1 .. n : f[g] \in Signed(wallet) /\ wallet[f[g]].gen = g
            /\ \A g \in Gens : record'[g] = IF g \in b + 1 .. n
                                            THEN Row("broadcast", f[g], "none", NoTx)
                                            ELSE record[g]
      BY <2>6, ToolAdopted
    <3>2. PICK n \in Gens :
            /\ b <= n
            /\ \A g \in b + 1 .. n : f[g] \in Signed(wallet) /\ wallet[f[g]].gen = g
            /\ \A g \in Gens : record'[g] = IF g \in b + 1 .. n
                                            THEN Row("broadcast", f[g], "none", NoTx)
                                            ELSE record[g]
      BY <3>1
    <3>3. 0 \notin b + 1 .. n
      BY <2>2, MaxGenAssumption DEF Gens
    <3> HIDE DEF b
    <3>4. record' \in [Gens -> CellTx] /\ Named(record', wallet)
      <4>1. p.tip \in Made(wallet) /\ wallet \in [TxIds -> Action]
        BY ToolReads DEF ToolInv, WalletSound
      <4> HIDE DEF p
      <4>2. Decision(rec, wallet)
        BY <4>1, DecideCellType
      <4> HIDE DEF rec
      <4>3. record \in [Gens -> CellTx] /\ Named(record, wallet)
        BY DEF ToolInv
      <4> QED BY <2>6, <4>2, <4>3, AdoptUpToType
    <3>5. SettledSigned(record', wallet)
      <4> SUFFICES ASSUME NEW g \in SettledIn(record', Gens)
                   PROVE  record'[g].txid \in Signed(wallet) /\ wallet[record'[g].txid].gen = g
        BY DEF SettledSigned
      <4>1. g \in Gens
        BY DEF SettledIn
      <4>2. CASE g \in b + 1 .. n
        <5>1. record'[g] = Row("broadcast", f[g], "none", NoTx)
          BY <3>2, <4>1, <4>2
        <5>2. record'[g].txid = f[g]
          BY <5>1 DEF Row
        <5> QED BY <3>2, <4>2, <5>2
      <4>3. CASE g \notin b + 1 .. n
        <5>1. record'[g] = record[g]
          BY <3>2, <4>1, <4>3
        <5> QED BY <4>1, <5>1 DEF SettledIn, ToolInv, SettledSigned
      <4> QED BY <4>2, <4>3
    <3>6. record'[0] = GenesisRow
      BY <2>2, <3>2, <3>3
    <3> QED BY <2>1, <3>4, <3>5, <3>6 DEF ToolInv, WalletSound
  <2> QED BY <2>3, <2>4, <2>5, <2>6
<1> QED BY <1>1, <1>2

\* What the tool relies on holds of every record it is ever run over.
LEMMA ToolSound == ToolSpec => []ToolInv
BY ToolInvInit, ToolNext, PTL DEF ToolSpec

-----------------------------------------------------------------------------
\* A cascade is offered to no repair: whatever the depth of the window and the
\* number of failures a repair may examine, a run over a tip with more than
\* that many failures above it writes nothing.
THEOREM CascadeLeftAlone == ToolSpec => CascadeUntouched
<1>1. ASSUME ToolInv, [Run]_toolVars
      PROVE  [Wrecked(DeriveTip(record)) => record' = record]_toolVars
  <2> SUFFICES ASSUME Run, Wrecked(DeriveTip(record)) PROVE record' = record
    BY <1>1
  <2> DEFINE p == DeriveTip(record)
             b == TipRow(record)
  <2>1. PICK at \in Gens :
          /\ record[at].status \in Settled /\ record[at].txid = p.tip
          /\ Cardinality({g \in Gens : g > at /\ record[g].status = "failed"}) > MaxWreckage
    BY DEF Wrecked
  <2>2. Reads(p, record) /\ wallet[p.tip].gen = b /\ p.tip \in TxIds
    BY <1>1, ToolReads
  <2> HIDE DEF p, b
  <2>3. at = b
    <3>1. at \in SettledIn(record, Gens)
      BY <2>1, <2>2, MaxTxAssumption DEF SettledIn, TxIds, NoTx
    <3> QED BY <1>1, <2>1, <2>2, <3>1 DEF ToolInv, SettledSigned
  <2>4. ~Considered(p)
    BY <2>1, <2>2, <2>3 DEF Reads, Over, b
  <2> QED BY <2>4 DEF Run, p
<1> QED BY <1>1, ToolSound, PTL DEF ToolSpec, CascadeUntouched

\* Every row the tool adopts names a transaction that spends the one named by
\* the row below it, wherever the record and the wallet have come apart.
THEOREM AdoptionsLink == ToolSpec => AdoptedRowsLink
<1>1. ASSUME ToolInv, [Run]_toolVars
      PROVE  [\A g \in Gens \ {0} :
                record'[g].status = "broadcast" /\ record'[g] # record[g]
                  => wallet[record'[g].txid].parent = record'[g - 1].txid]_toolVars
  <2> SUFFICES ASSUME Run, NEW g \in Gens \ {0},
                      record'[g].status = "broadcast", record'[g] # record[g]
               PROVE  wallet[record'[g].txid].parent = record'[g - 1].txid
    BY <1>1
  <2> DEFINE p   == DeriveTip(record)
             rec == DecideCell(p, record, wallet, retryRefused, failedKnown)
             b   == TipRow(record)
  <2>1. b \in Gens /\ p.tip = record[b].txid
    BY <1>1, ToolReads
  <2>2. rec.verdict = "adopt" /\ \E done \in Gens : record' = AdoptUpTo(rec, record, wallet, done)
    <3>1. \/ record' = record
          \/ Considered(p) /\ record' = Retract(p, record)
          \/ /\ rec.verdict = "adopt"
             /\ \E done \in Gens : record' = AdoptUpTo(rec, record, wallet, done)
      BY <1>1, ToolRuns
    <3>2. Considered(p) /\ record' = Retract(p, record) => record'[g] \in {record[g], NoRow}
      BY <1>1, ToolRetracts
    <3> QED BY <3>1, <3>2 DEF NoRow
  <2>3. PICK f : \E n \in Gens :
          /\ \A h \in b + 1 .. n : wallet[f[h]].parent = IF h = b + 1 THEN p.tip ELSE f[h - 1]
          /\ \A h \in Gens : record'[h] = IF h \in b + 1 .. n
                                          THEN Row("broadcast", f[h], "none", NoTx)
                                          ELSE record[h]
    BY <1>1, <2>2, ToolAdopted
  <2>4. PICK n \in Gens :
          /\ \A h \in b + 1 .. n : wallet[f[h]].parent = IF h = b + 1 THEN p.tip ELSE f[h - 1]
          /\ \A h \in Gens : record'[h] = IF h \in b + 1 .. n
                                          THEN Row("broadcast", f[h], "none", NoTx)
                                          ELSE record[h]
    BY <2>3
  <2> HIDE DEF p, b, rec
  <2>5. g \in b + 1 .. n /\ g \in Nat /\ g - 1 \in Gens
    BY <2>4, MaxGenAssumption DEF Gens
  <2>6. record'[g].txid = f[g]
    <3>1. record'[g] = Row("broadcast", f[g], "none", NoTx)
      BY <2>4, <2>5
    <3> QED BY <3>1 DEF Row
  <2>7. CASE g = b + 1
    <3>1. g - 1 = b /\ b \notin b + 1 .. n
      BY <2>1, <2>7, MaxGenAssumption DEF Gens
    <3>2. record'[g - 1] = record[b]
      BY <2>4, <2>5, <3>1
    <3> QED BY <2>1, <2>4, <2>5, <2>6, <2>7, <3>2
  <2>8. CASE g # b + 1
    <3>1. g - 1 \in b + 1 .. n
      BY <2>1, <2>5, <2>8, MaxGenAssumption DEF Gens
    <3>2. record'[g - 1].txid = f[g - 1]
      <4>1. record'[g - 1] = Row("broadcast", f[g - 1], "none", NoTx)
        BY <2>4, <2>5, <3>1
      <4> QED BY <4>1 DEF Row
    <3> QED BY <2>4, <2>5, <2>6, <2>8, <3>2
  <2> QED BY <2>7, <2>8
<1> QED BY <1>1, ToolSound, PTL DEF ToolSpec, AdoptedRowsLink

\* A run that changes the record, or that says it has settled a failure, moves
\* the tip forward or leaves it where it is with one unresolved row less: run
\* again and again, the tool comes to an end.
THEOREM RepairsProgress == ToolSpec => EveryRepairIsProgress
<1> DEFINE Repaired == record' # record \/ (outcome' \in {"resume", "adopt"}
                                            /\ ~DeriveTip(record).unknown)
           Progress == \/ TipGen(record') > TipGen(record)
                       \/ /\ TipGen(record') = TipGen(record)
                          /\ Unresolved(record') < Unresolved(record)
<1>1. ASSUME ToolInv, Run, Repaired
      PROVE  Progress
  <2> DEFINE p   == DeriveTip(record)
             rec == DecideCell(p, record, wallet, retryRefused, failedKnown)
             b   == TipRow(record)
  <2>1. b \in Gens /\ TipGen(record) = b /\ b \in SettledIn(record, Gens)
        /\ p.tip = record[b].txid /\ \A g \in SettledIn(record, Gens) : g <= b
    BY <1>1, ToolReads DEF TipGen
  <2>2. \A r : SettledIn(r, Gens) # {} => DeriveTip(r).tip = r[TipRow(r)].txid
    BY DeriveTipReads DEF Reads
  <2>3. \/ \E k \in Gens : /\ record[k].status \in {"attempting", "failed"}
                           /\ record' = [g \in Gens |-> IF g = k THEN NoRow ELSE record[g]]
        \/ /\ rec.verdict = "adopt"
           /\ \E done \in Gens : /\ outcome' = "adopt" => done = MaxGen
                               /\ outcome' # "resume"
                               /\ record' = AdoptUpTo(rec, record, wallet, done)
    <3>1. CASE Considered(p) /\ record' = Retract(p, record)
      <4>1. record' # record
        BY <1>1, <3>1, ToolRetracts
      <4> QED BY <1>1, <3>1, <4>1, ToolRetracts
    <3> QED BY <1>1, <3>1, ToolRuns
  <2>4. ASSUME NEW k \in Gens, record[k].status \in {"attempting", "failed"},
               record' = [g \in Gens |-> IF g = k THEN NoRow ELSE record[g]]
        PROVE  Progress
    <3>1. SettledIn(record', Gens) = SettledIn(record, Gens)
      BY <2>4 DEF SettledIn, NoRow, Settled
    <3>2. TipRow(record') = b /\ record'[b] = record[b]
      BY <2>1, <2>4, <3>1 DEF TipRow, SettledIn, Settled
    <3>3. TipGen(record') = TipGen(record)
      BY <2>1, <2>2, <3>1, <3>2 DEF TipGen
    <3> DEFINE open(r) == {g \in Gens : r[g].status \in {"attempting", "failed"}}
    <3>4. open(record') = open(record) \ {k} /\ k \in open(record)
      BY <2>4 DEF NoRow
    <3>5. IsFiniteSet(open(record))
      <4>1. IsFiniteSet(Gens)
        BY FS_Interval, MaxGenAssumption DEF Gens
      <4> QED BY <4>1, FS_Subset
    <3>6. /\ Unresolved(record') = Cardinality(open(record'))
          /\ Unresolved(record) = Cardinality(open(record))
      BY DEF Unresolved
    <3> HIDE DEF open
    <3>7. /\ Cardinality(open(record) \ {k}) = Cardinality(open(record)) - 1
          /\ Cardinality(open(record)) \in Nat
      BY <3>4, <3>5, FS_RemoveElement, FS_CardinalityType
    <3>8. Unresolved(record') < Unresolved(record)
      BY <3>4, <3>6, <3>7
    <3> QED BY <3>3, <3>8
  <2>5. ASSUME rec.verdict = "adopt", NEW done \in Gens,
               outcome' = "adopt" => done = MaxGen, outcome' # "resume",
               record' = AdoptUpTo(rec, record, wallet, done)
        PROVE  Progress
    <3>1. PICK f : \E n \in Gens :
            /\ b <= n /\ (b = n => done # MaxGen)
            /\ \A h \in b + 1 .. n : wallet[f[h]].gen = h /\ f[h] # NoTx
            /\ \A h \in Gens : record'[h] = IF h \in b + 1 .. n
                                            THEN Row("broadcast", f[h], "none", NoTx)
                                            ELSE record[h]
      BY <1>1, <2>5, ToolAdopted
    <3>2. PICK n \in Gens :
            /\ b <= n /\ (b = n => done # MaxGen)
            /\ \A h \in b + 1 .. n : wallet[f[h]].gen = h /\ f[h] # NoTx
            /\ \A h \in Gens : record'[h] = IF h \in b + 1 .. n
                                            THEN Row("broadcast", f[h], "none", NoTx)
                                            ELSE record[h]
      BY <3>1
    <3>0. b # n
      <4> SUFFICES ASSUME b = n PROVE FALSE
        OBVIOUS
      <4>1. \A h \in Gens : record'[h] = record[h]
        BY <2>1, <3>2, MaxGenAssumption DEF Gens
      <4>2. record' = record
        BY <1>1, <2>5, <4>1 DEF ToolInv, AdoptUpTo
      <4> QED BY <1>1, <2>5, <3>2, <4>2
    <3> HIDE DEF p, b, rec
    <3>3. n \in b + 1 .. n /\ n \in Nat /\ b \in Nat /\ b < n
      BY <2>1, <3>0, <3>2, MaxGenAssumption DEF Gens
    <3>4. record'[n].txid = f[n] /\ n \in SettledIn(record', Gens)
      <4>1. record'[n] = Row("broadcast", f[n], "none", NoTx)
        BY <3>2, <3>3
      <4> QED BY <3>2, <3>3, <4>1 DEF Row, SettledIn, Settled
    <3>5. \A g \in SettledIn(record', Gens) : g <= n
      <4> TAKE g \in SettledIn(record', Gens)
      <4>1. g \in Gens /\ g \in Nat
        BY MaxGenAssumption DEF SettledIn, Gens
      <4>2. CASE g \in b + 1 .. n
        BY <4>2
      <4>3. CASE g \notin b + 1 .. n
        <5>1. record'[g] = record[g]
          BY <3>2, <4>1, <4>3
        <5>2. g \in SettledIn(record, Gens)
          BY <4>1, <5>1 DEF SettledIn
        <5> QED BY <2>1, <3>2, <3>3, <4>1, <5>2
      <4> QED BY <4>2, <4>3
    <3>6. TipRow(record') = n
      BY <3>4, <3>5, TipRowIs
    <3>7. TipGen(record') = n
      BY <2>2, <3>2, <3>3, <3>4, <3>6 DEF TipGen
    <3> QED BY <2>1, <3>2, <3>3, <3>7
  <2> QED BY <2>3, <2>4, <2>5
<1>2. ASSUME ToolInv, [Run]_toolVars
      PROVE  [Repaired => Progress]_toolVars
  BY <1>1, <1>2
<1> QED BY <1>2, ToolSound, PTL DEF ToolSpec, EveryRepairIsProgress

-----------------------------------------------------------------------------
(***************************************************************************)
(* Part three.  TypeOK is not inductive: the generation of a tip has a     *)
(* type only if the tip is a transaction the wallet has made, so TypeInv   *)
(* also says that everything the state refers to is one (Refs), and that   *)
(* it stays so (Grows).  There is a lemma per action, or per group of      *)
(* actions that disturb the same part of the state, and Frame keeps the    *)
(* parts an action leaves alone.                                           *)
(***************************************************************************)
\* The transactions the state may refer to: those the wallet has made, and none.
Refs == Made(tx) \cup {NoTx}

\* A position derivation may return: recovery considers it only with a tip.
Derivable(p) ==
  /\ p \in CellPosition
  /\ p.tip \in Refs
  /\ Considered(p) => p.tip # NoTx

StoreInv ==
  /\ rows \in [Gens -> CellTx] /\ Named(rows, tx)
  /\ tx \in [TxIds -> Action] /\ Genesis \in Made(tx)

WorkerInv ==
  /\ pc \in PCs /\ base \in Refs /\ cur \in Refs
  /\ pass \in 0 .. MaxWreckage /\ Derivable(pos)
  /\ pc \in {"sign", "record", "persist", "unclear"} => cur \in TxIds
  /\ pc \in InFlight => Gen(base) < MaxGen

MemInv ==
  /\ tip \in Refs
  /\ halted \in BOOLEAN /\ needsRepair \in BOOLEAN /\ starved \in BOOLEAN
  /\ retries \in [gen : Gens, n : 0 .. MaxRetries + 1]

StatusInv ==
  /\ lastSeen \in Gens /\ lastMined \in Gens
  /\ slot \in [Gens -> SlotStates]
  /\ idx \subseteq Made(tx)
  /\ writes \in Seq(CellTx) /\ Len(writes) <= QueueCap

LeaseInv ==
  /\ leader \in BOOLEAN /\ needsRederive \in BOOLEAN /\ rederiving \in BOOLEAN
  /\ Derivable(derived)

TypeInv == StoreInv /\ WorkerInv /\ MemInv /\ StatusInv /\ LeaseInv

\* The invariant is at least the type invariant the runs check.
LEMMA TypeInvTypeOK == TypeInv => TypeOK
BY DEF TypeInv, StoreInv, WorkerInv, MemInv, StatusInv, LeaseInv, TypeOK,
       Refs, Made, Derivable

\* Every transaction the state refers to has a generation.
LEMMA GenType ==
  ASSUME StoreInv
  PROVE  \A t \in Refs : Gen(t) \in Gens
BY MaxGenAssumption DEF StoreInv, Refs, Made, Gen, Gens, Action

\* The wallet forgets no action and moves none to another generation.
Grows ==
  /\ tx' \in [TxIds -> Action]
  /\ \A t \in Made(tx) : t \in Made(tx') /\ tx'[t].gen = tx[t].gen

\* A step under which the wallet only grows keeps each part of the invariant
\* whose variables it leaves alone.
LEMMA Frame ==
  ASSUME TypeInv, Grows
  PROVE  /\ UNCHANGED rows => StoreInv'
         /\ UNCHANGED workerVars => WorkerInv'
         /\ UNCHANGED memVars => MemInv'
         /\ UNCHANGED statusVars => StatusInv'
         /\ UNCHANGED leaseVars => LeaseInv'
<1>1. Made(tx) \subseteq Made(tx)' /\ Refs \subseteq Refs'
  BY DEF Grows, Refs, Made
<1>2. \A t \in Refs : t \in Refs' /\ Gen(t)' = Gen(t)
  BY <1>1 DEF Grows, Refs, Gen, Made
<1>3. \A p : Derivable(p) => Derivable(p)'
  BY <1>1 DEF Derivable
<1>4. UNCHANGED rows => StoreInv'
  BY <1>1 DEF Grows, TypeInv, StoreInv, Named
<1>5. UNCHANGED workerVars => WorkerInv'
  BY <1>1, <1>2, <1>3 DEF TypeInv, WorkerInv, workerVars, Derivable, Gen
<1>6. UNCHANGED memVars => MemInv'
  BY <1>1 DEF TypeInv, MemInv, memVars
<1>7. UNCHANGED statusVars => StatusInv'
  BY <1>1 DEF TypeInv, StatusInv, statusVars
<1>8. UNCHANGED leaseVars => LeaseInv'
  BY <1>1, <1>3 DEF TypeInv, LeaseInv, leaseVars, Derivable
<1> QED BY <1>4, <1>5, <1>6, <1>7, <1>8

\* The position a worker or a derivation is reset to.
LEMMA AtGenesis ==
  ASSUME TypeInv
  PROVE  /\ At(Genesis) \in CellPosition /\ At(Genesis).tip = Genesis
         /\ ~Considered(At(Genesis)) /\ {Genesis, NoTx} \subseteq Refs
         /\ 0 \in 0 .. MaxWreckage
<1>1. Genesis \in TxIds
  BY MaxTxAssumption DEF TxIds, Genesis
<1>2. 0 \in 0 .. MaxWreckage
  BY WreckageFitsWindow
<1> QED BY <1>1, <1>2, AtType DEF TypeInv, StoreInv, Refs

\* A counter of refusals that was reset.
LEMMA RetriesType ==
  /\ NoRetries \in [gen : Gens, n : 0 .. MaxRetries + 1]
  /\ 0 \in Gens
BY MaxGenAssumption, EngineAssumption DEF NoRetries, Gens

\* A status queue that was emptied.
LEMMA EmptyQueue == 0 \in Gens /\ << >> \in Seq(CellTx) /\ Len(<< >>) <= QueueCap
BY MaxGenAssumption, EngineAssumption DEF Gens

\* The display window takes any state of a slot.
LEMMA SlotType ==
  ASSUME StatusInv
  PROVE  \A g, s : s \in SlotStates => [slot EXCEPT ![g] = s] \in [Gens -> SlotStates]
         /\ {"failed", "broadcast"} \subseteq SlotStates
BY DEF StatusInv, SlotStates

\* What is derived from the store is a position of the wallet's transactions.
LEMMA Derives ==
  ASSUME StoreInv
  PROVE  Derivable(DeriveTip(rows))
<1>1. Derived(DeriveTip(rows), rows)
  BY DeriveTipType DEF StoreInv
<1>2. DeriveTip(rows).tip \in Refs
  BY <1>1 DEF Derived, StoreInv, Named, Refs
<1> QED BY <1>1, <1>2 DEF Derived, Derivable

\* A row that names no transaction may be written anywhere.
LEMMA Writes ==
  ASSUME StoreInv
  PROVE  \A g : \A s \in Status, e \in Reason :
           LET r == RecordTx(rows, g, Row(s, NoTx, e, NoTx))
           IN  r \in [Gens -> CellTx] /\ Named(r, tx)
BY RowType, StoreTypes DEF StoreInv, Named, RecordTx, Row

\* A row may be retracted anywhere.
LEMMA Deletes ==
  ASSUME StoreInv
  PROVE  \A g : DeleteAttempt(rows, g) \in [Gens -> CellTx] /\ Named(DeleteAttempt(rows, g), tx)
BY StoreTypes DEF StoreInv, Named, DeleteAttempt, NoRow

\* A step that leaves the wallet alone.
LEMMA SameTx ==
  ASSUME TypeInv, UNCHANGED tx
  PROVE  Grows /\ tx' = tx /\ Refs' = Refs /\ Made(tx)' = Made(tx)
BY DEF TypeInv, StoreInv, Grows, Made, Refs

\* What adopting a position makes of the tip, the halt and the marks.
LEMMA Positions ==
  ASSUME TypeInv, NEW p, Derivable(p)
  PROVE  /\ p.tip \in Refs /\ p.halted \in BOOLEAN /\ Gen(p.tip) \in Gens
         /\ Considered(p) => p.tip \in Made(tx)
<1>1. p.tip \in Refs /\ p.halted \in BOOLEAN /\ (Considered(p) => p.tip # NoTx)
  BY DEF Derivable, CellPosition
<1> QED BY <1>1, GenType DEF TypeInv, Refs

\* Deciding from a position that recovery considers, and applying the decision
\* in full or in part.
LEMMA Recovers ==
  ASSUME TypeInv, NEW p, Derivable(p), Considered(p), NEW rr, NEW wf,
         NEW rec \in Decisions(p, rows, tx, rr, wf)
  PROVE  /\ Decision(rec, tx) /\ rec.tip \in Refs /\ Derivable(Recovered(p, rec))
         /\ \A r \in CutShort(p, rec, rows, tx) : r \in [Gens -> CellTx] /\ Named(r, tx)
         /\ ApplyRecovery(p, rec, rows, tx) \in CutShort(p, rec, rows, tx)
<1>1. p.tip \in Made(tx)
  BY Positions
<1>2. Decision(rec, tx)
  BY <1>1, DecisionsType DEF TypeInv, StoreInv
<1>3. rec.tip \in Refs /\ rec.tip \in TxIds \cup {NoTx}
  BY <1>2 DEF Decision, Refs, Made
<1>4. /\ ApplyRecovery(p, rec, rows, tx) \in [Gens -> CellTx]
      /\ Named(ApplyRecovery(p, rec, rows, tx), tx)
  BY <1>2, ApplyRecoveryType DEF TypeInv, StoreInv
<1>5. \A done : /\ AdoptUpTo(rec, rows, tx, done) \in [Gens -> CellTx]
                /\ Named(AdoptUpTo(rec, rows, tx, done), tx)
  BY <1>2, AdoptUpToType DEF TypeInv, StoreInv
<1>6. Derivable(Recovered(p, rec))
  BY <1>3, AtType DEF Recovered, Derivable
<1>7. rec.verdict \in {"halt", "resume", "adopt"}
  BY <1>2 DEF Decision
<1>8. ASSUME NEW r \in CutShort(p, rec, rows, tx)
      PROVE  r \in [Gens -> CellTx] /\ Named(r, tx)
  <2>1. \/ r = ApplyRecovery(p, rec, rows, tx)
        \/ \E done \in Gens : r = AdoptUpTo(rec, rows, tx, done)
    BY <1>7, <1>8, Leaves
  <2> QED BY <1>4, <1>5, <2>1
<1>9. ApplyRecovery(p, rec, rows, tx) \in CutShort(p, rec, rows, tx)
  BY DEF CutShort
<1> QED BY <1>2, <1>3, <1>6, <1>8, <1>9

\* New: the memory a process starts with.
LEMMA TypeNew ==
  ASSUME TypeInv, New
  PROVE  TypeInv'
<1> USE DEF TypeInv
<1>1. Grows /\ tx' = tx /\ Refs' = Refs /\ Made(tx)' = Made(tx)
  BY SameTx DEF New, durable
<1>2. StoreInv'
  BY <1>1, Frame DEF New, durable
<1>3. WorkerInv'
  BY <1>1 DEF WorkerInv, Derivable, PCs, InFlight, Gen, New
<1>4. MemInv'
  BY <1>1, Derives, Positions DEF MemInv, New, ApplyPosition
<1>5. StatusInv'
  <2>1. lastSeen' \in Gens /\ lastMined' \in Gens
    BY Derives, Positions DEF New, ApplyPosition
  <2>2. \A row \in CellTx : LoadedSlot(row) \in SlotStates
    BY DEF CellTx, LoadedSlot, SlotStates, Status
  <2>3. slot' \in [Gens -> SlotStates]
    BY <2>2 DEF New, StoreInv
  <2>4. Unsettled(rows) \subseteq Made(tx)
    BY DEF Unsettled, Recorded, StoreInv, Named
  <2> QED BY <1>1, <2>1, <2>3, <2>4 DEF StatusInv, New
<1>6. LeaseInv'
  BY <1>1, Frame DEF New, durable, leaseVars
<1> QED BY <1>2, <1>3, <1>4, <1>5, <1>6

\* A crash: the memory of a process that is down.
LEMMA TypeCrash ==
  ASSUME TypeInv, Crash
  PROVE  TypeInv'
<1> USE DEF TypeInv
<1>1. Grows /\ tx' = tx /\ Refs' = Refs /\ Made(tx)' = Made(tx)
  BY SameTx DEF Crash, durable
<1>2. StoreInv'
  BY <1>1, Frame DEF Crash, durable
<1>3. WorkerInv'
  BY <1>1, AtGenesis DEF WorkerInv, Derivable, PCs, InFlight, Gen, Crash, DownMemory
<1>4. MemInv'
  BY <1>1, AtGenesis, RetriesType DEF MemInv, Crash, DownMemory
<1>5. StatusInv'
  BY <1>1, EmptyQueue DEF StatusInv, Crash, DownMemory, SlotStates
<1>6. LeaseInv'
  BY <1>1, AtGenesis DEF LeaseInv, Derivable, Crash, DownMemory
<1> QED BY <1>2, <1>3, <1>4, <1>5, <1>6

\* The lease, and reading the store to derive from it.
LEMMA TypeLease ==
  ASSUME TypeInv, AcquireLease \/ LoseLease \/ RederiveRead
  PROVE  TypeInv'
<1> USE DEF TypeInv
<1>1. UNCHANGED <<durable, workerVars, memVars, statusVars>>
  BY DEF AcquireLease, LoseLease, RederiveRead
<1>2. Grows /\ Refs' = Refs
  BY <1>1, SameTx DEF durable
<1>3. StoreInv' /\ WorkerInv' /\ MemInv' /\ StatusInv'
  BY <1>1, <1>2, Frame DEF durable
<1>4. LeaseInv'
  BY <1>2, Derives DEF LeaseInv, Derivable, AcquireLease, LoseLease, RederiveRead
<1> QED BY <1>3, <1>4

\* Steps that only move the worker from one place to another.
LEMMA TypeControl ==
  ASSUME TypeInv,
         Park \/ Look \/ TakeTurn \/ Wait \/ CreateActionFails \/ FailBeforeSigning
  PROVE  TypeInv'
<1> USE DEF TypeInv
<1>1. /\ UNCHANGED <<durable, base, cur, pos, pass, memVars, statusVars, leaseVars>>
      /\ pc' \in {"parked", "gate", "turn", "idle", "retract"}
      /\ pc' = "retract" => pc \in InFlight
  BY DEF Park, Look, TakeTurn, Wait, CreateActionFails, FailBeforeSigning, InFlight
<1>2. Grows /\ tx' = tx /\ Refs' = Refs
  BY <1>1, SameTx DEF durable
<1>3. StoreInv' /\ MemInv' /\ StatusInv' /\ LeaseInv'
  BY <1>1, <1>2, Frame DEF durable
<1>4. WorkerInv'
  BY <1>1, <1>2 DEF WorkerInv, Derivable, PCs, InFlight, Gen
<1> QED BY <1>3, <1>4

\* Adopting a derivation, and what AutoRecover writes.
LEMMA TypeRederiveApply ==
  ASSUME TypeInv, RederiveApply
  PROVE  TypeInv'
<1> USE DEF TypeInv
<1>1. Grows /\ tx' = tx /\ Refs' = Refs /\ Made(tx)' = Made(tx)
  BY SameTx DEF RederiveApply, durable
<1>0. PICK p : Derivable(p) /\ ApplyPosition(p)
  <2>1. Derivable(derived)
    BY DEF LeaseInv
  <2>2. CASE "auto" \in Events /\ Considered(derived)
    <3>1w. PICK wf :
             \E rec \in Decisions(derived, rows, tx, FALSE, wf) :
              ApplyPosition(Recovered(derived, rec)) \/ ApplyPosition(derived)
      BY <2>2 DEF RederiveApply
    <3>1. PICK rec \in Decisions(derived, rows, tx, FALSE, wf) :
            ApplyPosition(Recovered(derived, rec)) \/ ApplyPosition(derived)
      BY <3>1w
    <3>2. Derivable(Recovered(derived, rec))
      BY <2>1, <2>2, Recovers
    <3> QED BY <2>1, <3>1, <3>2
  <2>3. CASE ~("auto" \in Events /\ Considered(derived))
    BY <2>1, <2>3 DEF RederiveApply
  <2> QED BY <2>2, <2>3
<1>2. StoreInv'
  <2>1. CASE "auto" \in Events /\ Considered(derived)
    <3>1w. PICK wf :
             \E rec \in Decisions(derived, rows, tx, FALSE, wf) :
              \/ rows' = ApplyRecovery(derived, rec, rows, tx)
              \/ rows' \in CutShort(derived, rec, rows, tx)
      BY <2>1 DEF RederiveApply
    <3>1. PICK rec \in Decisions(derived, rows, tx, FALSE, wf) :
            \/ rows' = ApplyRecovery(derived, rec, rows, tx)
            \/ rows' \in CutShort(derived, rec, rows, tx)
      BY <3>1w
    <3>2. rows' \in [Gens -> CellTx] /\ Named(rows', tx)
      BY <2>1, <3>1, Recovers DEF LeaseInv
    <3> QED BY <1>1, <3>2 DEF StoreInv
  <2>2. CASE ~("auto" \in Events /\ Considered(derived))
    BY <1>1, <2>2 DEF StoreInv, RederiveApply
  <2> QED BY <2>1, <2>2
<1>3. WorkerInv'
  BY <1>1, Frame DEF RederiveApply, durable, workerVars
<1>4. MemInv'
  BY <1>0, <1>1, Positions DEF MemInv, RederiveApply, ApplyPosition
<1>5. StatusInv'
  BY <1>0, <1>1, Positions DEF StatusInv, RederiveApply, ApplyPosition
<1>6. LeaseInv'
  BY <1>1, AtGenesis DEF LeaseInv, Derivable, RederiveApply
<1> QED BY <1>2, <1>3, <1>4, <1>5, <1>6

\* The write-ahead row.
LEMMA TypeIntent ==
  ASSUME TypeInv, Intent
  PROVE  TypeInv'
<1> USE DEF TypeInv
<1>1. Grows /\ tx' = tx /\ Refs' = Refs /\ Made(tx)' = Made(tx)
  BY SameTx DEF Intent, durable
<1>2. StoreInv'
  BY <1>1, Writes DEF StoreInv, Intent, Status, Reason
<1>3. WorkerInv'
  BY <1>1 DEF WorkerInv, Derivable, PCs, InFlight, Gen, Intent, MemInv
<1>4. MemInv'
  BY <1>1 DEF MemInv, Intent
<1>5. StatusInv'
  BY <1>1, Frame DEF Intent, durable, statusVars
<1>6. LeaseInv'
  BY <1>1, Frame DEF Intent, durable, leaseVars
<1> QED BY <1>2, <1>3, <1>4, <1>5, <1>6

\* recordCell under the lock.
LEMMA TypeRecord ==
  ASSUME TypeInv, Record
  PROVE  TypeInv'
<1> USE DEF TypeInv
<1>1. Grows /\ tx' = tx /\ Refs' = Refs /\ Made(tx)' = Made(tx)
  BY SameTx DEF Record, durable
<1>2. StoreInv'
  BY <1>1, Frame DEF Record, durable
<1>3. WorkerInv'
  BY <1>1 DEF WorkerInv, Derivable, PCs, InFlight, Gen, Record
<1>4. MemInv'
  BY <1>1, RetriesType DEF MemInv, Record, WorkerInv, ClearRetries
<1>5. StatusInv'
  <2>1. cur \in Made(tx)
    BY MaxTxAssumption DEF Record, WorkerInv, Refs, TxIds, NoTx
  <2> QED BY <1>1, <2>1, SlotType DEF StatusInv, Record
<1>6. LeaseInv'
  BY <1>1, Frame DEF Record, durable, leaseVars
<1> QED BY <1>2, <1>3, <1>4, <1>5, <1>6

\* recordCell after the lock.
LEMMA TypePersist ==
  ASSUME TypeInv, Persist
  PROVE  TypeInv'
<1> USE DEF TypeInv
<1>1. Grows /\ tx' = tx /\ Refs' = Refs /\ Made(tx)' = Made(tx)
  BY SameTx DEF Persist, durable
<1>2. StoreInv'
  <2> DEFINE row == Row("broadcast", cur, "none", NoTx)
  <2>1. row \in CellTx /\ row.txid \in Refs
    BY DEF Row, CellTx, Status, Reason, WorkerInv, Refs, Made
  <2>2. rows' \in {rows, RecordTx(rows, Gen(cur), row)}
    BY DEF Persist
  <2> HIDE DEF row
  <2>3. RecordTx(rows, Gen(cur), row) \in [Gens -> CellTx]
    BY <2>1, StoreTypes DEF StoreInv
  <2>4. Named(RecordTx(rows, Gen(cur), row), tx)
    BY <2>1 DEF StoreInv, Named, RecordTx, Refs
  <2> QED BY <1>1, <2>2, <2>3, <2>4 DEF StoreInv
<1>3. WorkerInv'
  BY <1>1 DEF WorkerInv, Derivable, PCs, InFlight, Gen, Persist, Done, Refs
<1>4. MemInv'
  BY <1>1 DEF MemInv, Persist
<1>5. StatusInv'
  BY <1>1, Frame DEF Persist, durable, statusVars
<1>6. LeaseInv'
  BY <1>1, Frame DEF Persist, durable, leaseVars
<1> QED BY <1>2, <1>3, <1>4, <1>5, <1>6

\* The retraction of a write-ahead row.
LEMMA TypeNotBroadcast ==
  ASSUME TypeInv, NotBroadcast
  PROVE  TypeInv'
<1> USE DEF TypeInv
<1>1. Grows /\ tx' = tx /\ Refs' = Refs /\ Made(tx)' = Made(tx)
  BY SameTx DEF NotBroadcast, durable
<1>2. StoreInv'
  BY <1>1, Deletes DEF StoreInv, NotBroadcast
<1>3. WorkerInv'
  BY <1>1 DEF WorkerInv, Derivable, PCs, InFlight, Gen, NotBroadcast, Done, Refs
<1>4. MemInv'
  BY <1>1 DEF MemInv, NotBroadcast
<1>5. StatusInv'
  BY <1>1, SlotType DEF StatusInv, NotBroadcast
<1>6. LeaseInv'
  BY <1>1, Frame DEF NotBroadcast, durable, leaseVars
<1> QED BY <1>2, <1>3, <1>4, <1>5, <1>6

\* The record of a failure past signing.
LEMMA TypeSigningFailed ==
  ASSUME TypeInv, SigningFailed
  PROVE  TypeInv'
<1> USE DEF TypeInv
<1>1. Grows /\ tx' = tx /\ Refs' = Refs /\ Made(tx)' = Made(tx)
  BY SameTx DEF SigningFailed, durable
<1>2. StoreInv'
  BY <1>1, Writes DEF StoreInv, SigningFailed, Status, Reason
<1>3. WorkerInv'
  BY <1>1 DEF WorkerInv, Derivable, PCs, InFlight, Gen, SigningFailed, Done, Refs
<1>4. MemInv'
  BY <1>1 DEF MemInv, SigningFailed
<1>5. StatusInv'
  BY <1>1, SlotType DEF StatusInv, SigningFailed
<1>6. LeaseInv'
  BY <1>1, Frame DEF SigningFailed, durable, leaseVars
<1> QED BY <1>2, <1>3, <1>4, <1>5, <1>6

\* A repair that begins.
LEMMA TypeStartRepair ==
  ASSUME TypeInv, StartRepair
  PROVE  TypeInv'
<1> USE DEF TypeInv
<1>1. Grows /\ tx' = tx /\ Refs' = Refs /\ Made(tx)' = Made(tx)
  BY SameTx DEF StartRepair, durable
<1>2. StoreInv'
  BY <1>1, Frame DEF StartRepair, durable
<1>3. WorkerInv'
  BY <1>1 DEF WorkerInv, Derivable, PCs, InFlight, Gen, StartRepair
<1>4. MemInv'
  BY <1>1 DEF MemInv, StartRepair
<1>5. StatusInv'
  BY <1>1, Frame DEF StartRepair, durable, statusVars
<1>6. LeaseInv'
  BY <1>1, Frame DEF StartRepair, durable, leaseVars
<1> QED BY <1>2, <1>3, <1>4, <1>5, <1>6

\* A pass of a repair: what it derives.
LEMMA TypeRepairDerive ==
  ASSUME TypeInv, RepairDerive
  PROVE  TypeInv'
<1> USE DEF TypeInv
<1>1. Grows /\ tx' = tx /\ Refs' = Refs /\ Made(tx)' = Made(tx)
  BY SameTx DEF RepairDerive, durable
<1>2. StoreInv'
  BY <1>1, Frame DEF RepairDerive, durable
<1>3. WorkerInv'
  BY <1>1, Derives, AtGenesis DEF WorkerInv, Derivable, PCs, InFlight, Gen, RepairDerive, RepairDone
<1>4. MemInv'
  BY <1>1 DEF MemInv, RepairDerive, HaltRepair
<1>5. StatusInv'
  BY <1>1, Frame DEF RepairDerive, durable, statusVars
<1>6. LeaseInv'
  BY <1>1, Frame DEF RepairDerive, durable, leaseVars
<1> QED BY <1>2, <1>3, <1>4, <1>5, <1>6

\* A repair that finds nothing to recover.
LEMMA TypeAdoptDerived ==
  ASSUME TypeInv, AdoptDerived
  PROVE  TypeInv'
<1> USE DEF TypeInv
<1>1. Grows /\ tx' = tx /\ Refs' = Refs /\ Made(tx)' = Made(tx)
  BY SameTx DEF AdoptDerived, durable
<1>2. StoreInv'
  BY <1>1, Frame DEF AdoptDerived, durable
<1>3. WorkerInv'
  BY <1>1, AtGenesis DEF WorkerInv, Derivable, PCs, InFlight, Gen, AdoptDerived, RepairDone
<1>4. MemInv'
  BY <1>1 DEF MemInv, AdoptDerived, WorkerInv, Derivable, CellPosition
<1>5. StatusInv'
  BY <1>1, Frame DEF AdoptDerived, durable, statusVars
<1>6. LeaseInv'
  BY <1>1, Frame DEF AdoptDerived, durable, leaseVars
<1> QED BY <1>2, <1>3, <1>4, <1>5, <1>6

\* A pass of a repair: what it decides and writes.
LEMMA TypeRepairDecide ==
  ASSUME TypeInv, RepairDecide
  PROVE  TypeInv'
<1> USE DEF TypeInv
<1>1. Grows /\ tx' = tx /\ Refs' = Refs /\ Made(tx)' = Made(tx)
  BY SameTx DEF RepairDecide, durable
<1>0w. PICK wf :
         \E rec \in Decisions(pos, rows, tx, TRUE, wf) :
          \/ HaltRepair /\ RepairDone /\ UNCHANGED <<rows, tip>>
          \/ AdoptRepaired(rec)
          \/ /\ rows' \in CutShort(pos, rec, rows, tx)
             /\ HaltRepair /\ RepairDone
             /\ UNCHANGED tip
  BY DEF RepairDecide
<1>0. PICK rec \in Decisions(pos, rows, tx, TRUE, wf) :
        \/ HaltRepair /\ RepairDone /\ UNCHANGED <<rows, tip>>
        \/ AdoptRepaired(rec)
        \/ /\ rows' \in CutShort(pos, rec, rows, tx)
           /\ HaltRepair /\ RepairDone
           /\ UNCHANGED tip
  BY <1>0w
<1>r. /\ rec.tip \in Refs
      /\ \A r \in CutShort(pos, rec, rows, tx) : r \in [Gens -> CellTx] /\ Named(r, tx)
      /\ ApplyRecovery(pos, rec, rows, tx) \in CutShort(pos, rec, rows, tx)
  BY Recovers DEF WorkerInv, RepairDecide
<1>a. UNCHANGED <<base, cur>>
  BY DEF RepairDecide
<1>2. StoreInv'
  BY <1>0, <1>1, <1>r DEF StoreInv, AdoptRepaired
<1>3. WorkerInv'
  <2>1. pc' \in {"idle", "repair"} /\ pos' \in {pos, At(Genesis)} /\ pass' \in 0 .. MaxWreckage
    <3>1. CASE RepairDone
      BY <3>1, AtGenesis DEF RepairDone
    <3>2. CASE AdoptRepaired(rec) /\ ~RepairDone
      <4>1. pass # MaxWreckage /\ pc' = "repair" /\ pass' = pass + 1 /\ pos' = pos
        BY <3>2 DEF AdoptRepaired
      <4>2. pass + 1 \in 0 .. MaxWreckage
        BY <4>1, WreckageFitsWindow DEF WorkerInv
      <4> QED BY <4>1, <4>2
    <3> QED BY <1>0, <3>1, <3>2
  <2>2. pc' \notin InFlight /\ pc' \in PCs
    BY <2>1 DEF InFlight, PCs
  <2> QED BY <1>1, <1>a, <2>1, <2>2, AtGenesis DEF WorkerInv, Derivable, InFlight
<1>4. MemInv'
  BY <1>0, <1>1, <1>r DEF MemInv, AdoptRepaired, HaltRepair, RepairDecide
<1>5. StatusInv'
  BY <1>1, Frame DEF RepairDecide, durable, statusVars
<1>6. LeaseInv'
  BY <1>1, Frame DEF RepairDecide, durable, leaseVars
<1> QED BY <1>2, <1>3, <1>4, <1>5, <1>6

\* The writer of statuses: rows keep the transactions they name.
LEMMA TypeWriteStatus ==
  ASSUME TypeInv, WriteStatus
  PROVE  TypeInv'
<1> USE DEF TypeInv
<1>1. Grows /\ tx' = tx /\ Refs' = Refs /\ Made(tx)' = Made(tx)
  BY SameTx DEF WriteStatus, durable
<1>2. StoreInv'
  <2>1. Head(writes) \in CellTx
    BY DEF StatusInv, WriteStatus
  <2> DEFINE u == Head(writes)
  <2>2. rows' \in {rows, UpdateStatus(rows, u)}
    BY DEF WriteStatus
  <2> HIDE DEF u
  <2>3. UpdateStatus(rows, u) \in [Gens -> CellTx]
    BY <2>1, StoreTypes DEF StoreInv, u
  <2>4. Named(UpdateStatus(rows, u), tx)
    BY DEF StoreInv, Named, UpdateStatus, Row
  <2> QED BY <1>1, <2>2, <2>3, <2>4 DEF StoreInv
<1>3. WorkerInv'
  BY <1>1, Frame DEF WriteStatus, durable, workerVars
<1>4. MemInv'
  BY <1>1, Frame DEF WriteStatus, durable, memVars
<1>5. StatusInv'
  <2>1. Tail(writes) \in Seq(CellTx) /\ Len(Tail(writes)) <= QueueCap
    BY EngineAssumption DEF StatusInv, WriteStatus
  <2> QED BY <1>1, <2>1 DEF StatusInv, WriteStatus
<1>6. LeaseInv'
  BY <1>1, Frame DEF WriteStatus, durable, leaseVars
<1> QED BY <1>2, <1>3, <1>4, <1>5, <1>6

\* A refusal's reason, written past the queue.
LEMMA TypeFetchReason ==
  ASSUME TypeInv, NEW t \in TxIds, FetchReason(t)
  PROVE  TypeInv'
<1> USE DEF TypeInv
<1>1. Grows /\ tx' = tx
  BY SameTx DEF FetchReason
<1>2. WorkerInv' /\ MemInv' /\ StatusInv' /\ LeaseInv'
  BY <1>1, Frame DEF FetchReason
<1>3. StoreInv'
  <2> DEFINE u == StatusUpdate(t, "failed", FALSE)
  <2>1. rows' = UpdateStatus(rows, u)
    BY DEF FetchReason
  <2>2. u \in CellTx
    <3>1. tx[t].by \in TxIds \cup {NoTx}
      BY DEF StoreInv, Action
    <3> QED BY <3>1 DEF StatusUpdate, Row, CellTx, Reason, Status
  <2> HIDE DEF u
  <2>3. UpdateStatus(rows, u) \in [Gens -> CellTx]
    BY <2>2, StoreTypes DEF StoreInv
  <2>4. Named(UpdateStatus(rows, u), tx)
    BY DEF StoreInv, Named, UpdateStatus, Row
  <2> QED BY <1>1, <2>1, <2>3, <2>4 DEF StoreInv
<1> QED BY <1>2, <1>3

\* Starvation declared or ended by the ring.
LEMMA TypeRingStarvation ==
  ASSUME TypeInv, RingStarvation
  PROVE  TypeInv'
<1> USE DEF TypeInv
<1>1. Grows /\ tx' = tx /\ Refs' = Refs /\ Made(tx)' = Made(tx)
  BY SameTx DEF RingStarvation, durable
<1>2. StoreInv'
  BY <1>1, Frame DEF RingStarvation, durable
<1>3. WorkerInv'
  BY <1>1, Frame DEF RingStarvation, durable, workerVars
<1>4. MemInv'
  BY <1>1 DEF MemInv, RingStarvation
<1>5. StatusInv'
  BY <1>1, Frame DEF RingStarvation, durable, statusVars
<1>6. LeaseInv'
  BY <1>1, Frame DEF RingStarvation, durable, leaseVars
<1> QED BY <1>2, <1>3, <1>4, <1>5, <1>6

\* CreateAction adds an action and changes no other.
LEMMA CreateGrows ==
  ASSUME TypeInv, CreateAction
  PROVE  Grows /\ cur' \in Made(tx)' /\ cur' \in TxIds
<1> USE DEF TypeInv
<1>1. PICK n \in TxIds :
        /\ Unused(n)
        /\ tx' = [tx EXCEPT ![n] = [gen |-> Next1, parent |-> base,
                                    st |-> "created", by |-> NoTx]]
        /\ cur' = n
  BY DEF CreateAction
<1>2. Next1 \in Gens
  <2>1. Gen(base) \in Gens /\ Gen(base) < MaxGen
    BY GenType DEF CreateAction, WorkerInv, InFlight
  <2> QED BY <2>1, MaxGenAssumption DEF Next1, Gens
<1>3. n \notin Made(tx)
  BY <1>1 DEF Unused, Made
<1>4. Grows /\ n \in Made(tx)'
  <2> DEFINE a == [gen |-> Next1, parent |-> base, st |-> "created", by |-> NoTx]
  <2>1. a \in Action /\ a.st # "none"
    BY <1>2 DEF Action, TxState, WorkerInv, Refs, Made
  <2> HIDE DEF a
  <2>2. tx' = [tx EXCEPT ![n] = a]
    BY <1>1 DEF a
  <2>3. tx' \in [TxIds -> Action]
    BY <2>1, <2>2 DEF StoreInv
  <2>4. \A t \in Made(tx) : t \in Made(tx') /\ tx'[t].gen = tx[t].gen
    BY <1>3, <2>1, <2>2 DEF StoreInv, Made
  <2>5. n \in Made(tx')
    BY <2>1, <2>2 DEF StoreInv, Made
  <2> QED BY <2>3, <2>4, <2>5 DEF Grows, Made
<1> QED BY <1>1, <1>4

\* The action CreateAction adds is one the state may refer to.
LEMMA TypeCreateAction ==
  ASSUME TypeInv, CreateAction
  PROVE  TypeInv'
<1> USE DEF TypeInv
<1>4. Grows /\ cur' \in Made(tx)' /\ cur' \in TxIds
  BY CreateGrows
<1>5. StoreInv' /\ MemInv' /\ StatusInv' /\ LeaseInv'
  BY <1>4, Frame DEF CreateAction
<1>6. WorkerInv'
  <2>1. base \in Refs' /\ Gen(base)' = Gen(base) /\ cur' \in Refs'
    BY <1>4 DEF Grows, Refs, WorkerInv, Gen, CreateAction
  <2>2. Derivable(pos)'
    BY <1>4 DEF Grows, Refs, WorkerInv, Derivable, CreateAction
  <2>3. Gen(base) < MaxGen
    BY DEF CreateAction, WorkerInv, InFlight
  <2> QED BY <1>4, <2>1, <2>2, <2>3 DEF WorkerInv, CreateAction, PCs, InFlight
<1> QED BY <1>5, <1>6

\* Steps that give a transaction the wallet has made another state.
LEMMA StateGrows ==
  ASSUME TypeInv, NEW t \in Made(tx), NEW s \in TxState \ {"none"},
         \/ tx' = [tx EXCEPT ![t].st = s]
         \/ \E b \in TxIds : tx' = [tx EXCEPT ![t].st = s, ![t].by = b]
  PROVE  Grows
<1> USE DEF TypeInv, StoreInv
<1>1. t \in TxIds /\ tx[t] \in Action
  BY DEF Made
<1>2. PICK a \in Action : tx' = [tx EXCEPT ![t] = a] /\ a.st = s /\ a.gen = tx[t].gen
  <2>1. CASE tx' = [tx EXCEPT ![t].st = s]
    <3>1. [tx[t] EXCEPT !.st = s] \in Action
      BY <1>1 DEF Action
    <3>2. tx' = [tx EXCEPT ![t] = [tx[t] EXCEPT !.st = s]]
      BY <2>1, <1>1
    <3>3. [tx[t] EXCEPT !.st = s].st = s /\ [tx[t] EXCEPT !.st = s].gen = tx[t].gen
      BY <1>1 DEF Action
    <3> QED BY <3>1, <3>2, <3>3
  <2>2. CASE \E b \in TxIds : tx' = [tx EXCEPT ![t].st = s, ![t].by = b]
    <3>0. PICK b \in TxIds : tx' = [tx EXCEPT ![t].st = s, ![t].by = b]
      BY <2>2
    <3> DEFINE a == [tx[t] EXCEPT !.st = s, !.by = b]
    <3>1. a \in Action /\ a.st = s /\ a.gen = tx[t].gen
      BY <1>1 DEF Action
    <3>2. tx' = [tx EXCEPT ![t] = a]
      BY <3>0, <1>1
    <3> QED BY <3>1, <3>2
  <2> QED BY <2>1, <2>2
<1> QED BY <1>1, <1>2 DEF Grows, Made

\* Signing, whatever it returns.
LEMMA SigningGrows ==
  ASSUME TypeInv, SignAction \/ SignActionFails
  PROVE  Grows
<1> USE DEF TypeInv
<1>1. cur \in Made(tx)
  BY MaxTxAssumption DEF SignAction, SignActionFails, Done, WorkerInv, Refs, TxIds, NoTx
<1>2. \E s \in TxState \ {"none"} : tx' = [tx EXCEPT ![cur].st = s]
  BY DEF SignAction, SignActionFails, Done, TxState
<1>3. Grows
  BY <1>1, <1>2, StateGrows
<1> QED BY <1>3

\* ... leaves the rest of the state alone.
LEMMA TypeSigning ==
  ASSUME TypeInv, SignAction \/ SignActionFails
  PROVE  TypeInv'
<1> USE DEF TypeInv
<1>3. Grows
  BY SigningGrows
<1>4. StoreInv' /\ StatusInv' /\ LeaseInv'
  BY <1>3, Frame DEF SignAction, SignActionFails
<1>6. MemInv'
  <2>1. tip \in Refs'
    BY <1>3 DEF Grows, Refs, MemInv
  <2>2. UNCHANGED <<tip, halted, needsRepair, retries>> /\ starved' \in BOOLEAN
    BY DEF SignAction, SignActionFails, memVars, MemInv
  <2> QED BY <2>1, <2>2 DEF MemInv
<1>5. WorkerInv'
  <2>2. Derivable(pos)'
    BY <1>3 DEF Grows, Refs, WorkerInv, Derivable, SignAction, SignActionFails
  <2>3. Gen(base) < MaxGen /\ cur \in TxIds
    BY DEF SignAction, SignActionFails, Done, WorkerInv, InFlight
  <2>4. /\ pc' \in PCs /\ UNCHANGED <<pos, pass>>
        /\ UNCHANGED <<base, cur>> \/ (base' = NoTx /\ cur' = NoTx /\ pc' = "idle")
    BY DEF SignAction, SignActionFails, Done, PCs, InFlight
  <2>5. NoTx \in Refs'
    BY DEF Refs
  <2>6. base' \in Refs' /\ cur' \in Refs'
    <3>1. base \in Refs' /\ cur \in Refs'
      BY <1>3 DEF Grows, Refs, WorkerInv
    <3> QED BY <2>4, <2>5, <3>1
  <2>7. CASE UNCHANGED <<base, cur>>
    <3>1. tx'[base].gen = tx[base].gen \/ base = NoTx
      BY <1>3 DEF Grows, Refs, WorkerInv
    <3>2. (IF base' = NoTx THEN 0 ELSE tx'[base'].gen) < MaxGen
      BY <2>3, <2>7, <3>1 DEF Gen
    <3> QED BY <2>2, <2>3, <2>4, <2>6, <2>7, <3>2 DEF WorkerInv, Gen, Derivable
  <2>8. CASE base' = NoTx /\ cur' = NoTx /\ pc' = "idle"
    BY <2>2, <2>4, <2>6, <2>8 DEF WorkerInv, Derivable, InFlight
  <2> QED BY <2>4, <2>7, <2>8
<1> QED BY <1>4, <1>5, <1>6

\* The network's answers.
LEMMA NetworkGrows ==
  ASSUME TypeInv, Network
  PROVE  Grows
<1> USE DEF TypeInv
<1>1. PICK t \in TxIds : Accept(t) \/ Mine(t) \/ Refuse(t)
  BY DEF Network
<1>2. t \in Made(tx)
  BY <1>1 DEF Accept, Mine, Refuse, Made
<1>3. \E s \in TxState \ {"none"} :
        \/ tx' = [tx EXCEPT ![t].st = s]
        \/ \E b \in TxIds : tx' = [tx EXCEPT ![t].st = s, ![t].by = b]
  BY <1>1 DEF Accept, Mine, Refuse, TxState, Siblings
<1>4. Grows
  BY <1>2, <1>3, StateGrows
<1> QED BY <1>4

\* ... reach nothing but the wallet's table.
LEMMA TypeNetwork ==
  ASSUME TypeInv, Network
  PROVE  TypeInv'
<1>1. Grows
  BY NetworkGrows
<1> QED BY <1>1, Frame DEF TypeInv, Network, Accept, Mine, Refuse

\* A report that overtakes others is queued as it is, and so are they.
LEMMA OvertakingIs ==
  ASSUME StatusInv, NEW u, NEW i \in 1 .. Len(writes) + 1
  PROVE  /\ u \in CellTx => Overtaking(u, i) \in Seq(CellTx)
         /\ Len(Overtaking(u, i)) = Len(writes) + 1
         /\ \A j \in 1 .. Len(Overtaking(u, i)) :
              \/ Overtaking(u, i)[j] = u
              \/ \E k \in 1 .. Len(writes) : Overtaking(u, i)[j] = writes[k]
<1> DEFINE q == Overtaking(u, i)
<1>1. Len(writes) \in Nat /\ \A k \in 1 .. Len(writes) : writes[k] \in CellTx
  BY DEF StatusInv
<1>2. /\ DOMAIN q = 1 .. Len(writes) + 1
      /\ \A j \in 1 .. Len(writes) + 1 :
           \/ q[j] = u
           \/ j \in 1 .. Len(writes) /\ q[j] = writes[j]
           \/ j - 1 \in 1 .. Len(writes) /\ q[j] = writes[j - 1]
  BY <1>1 DEF Overtaking
<1>3. q = [j \in 1 .. Len(writes) + 1 |-> q[j]]
  BY DEF Overtaking
<1> HIDE DEF q
<1>4. ASSUME NEW S, \A j \in 1 .. Len(writes) + 1 : q[j] \in S
      PROVE  q \in Seq(S) /\ Len(q) = Len(writes) + 1
  BY <1>1, <1>3, <1>4
<1>5. Len(q) = Len(writes) + 1
  <2>1. \A j \in 1 .. Len(writes) + 1 : q[j] \in {q[k] : k \in 1 .. Len(writes) + 1}
    OBVIOUS
  <2> HIDE DEF q
  <2> QED BY <2>1, <1>4
<1>6. \A j \in 1 .. Len(q) : q[j] = u \/ \E k \in 1 .. Len(writes) : q[j] = writes[k]
  BY <1>2, <1>5
<1>7. u \in CellTx => q \in Seq(CellTx)
  BY <1>1, <1>2, <1>4
<1> QED BY <1>5, <1>6, <1>7 DEF q

\* A report is queued somewhere, or dropped.
LEMMA Enqueued ==
  ASSUME TypeInv, NEW t \in TxIds, NEW report, NEW bare, ApplyStatus(t, report, bare)
  PROVE  LET u == StatusUpdate(t, report, bare)
         IN  \/ UNCHANGED writes
             \/ Len(writes) < QueueCap /\ \E i \in 1 .. Len(writes) + 1 : writes' = Overtaking(u, i)
BY DEF ApplyStatus, Enqueue

\* A status applied, from the stream or from the reconciler.
LEMMA TypeStatus ==
  ASSUME TypeInv, NEW t \in TxIds, OnStatus(t) \/ Reconcile(t)
  PROVE  TypeInv'
<1> USE DEF TypeInv
<1>1. PICK report \in Reports(t), bare \in BOOLEAN : ApplyStatus(t, report, bare)
  BY DEF OnStatus, Reconcile
<1>2. /\ report \in {"seen", "mined", "failed"}
      /\ report \in SlotStates /\ report \in Status
  BY DEF Reports, SlotStates, Status
<1>3. Grows /\ tx' = tx /\ Refs' = Refs /\ Made(tx)' = Made(tx)
  BY <1>1, SameTx DEF ApplyStatus, durable
<1>4. Gen(t) \in Gens
  BY GenType, <1>1 DEF ApplyStatus, StatusInv, Refs
<1>5. StoreInv' /\ WorkerInv' /\ LeaseInv'
  BY <1>1, <1>3, Frame DEF ApplyStatus, durable
<1>6. UNCHANGED <<needsRepair, retries, halted>> \/ NoteRefusal(Gen(t))
  BY <1>1 DEF ApplyStatus
<1>7. MemInv'
  <2>1. UNCHANGED <<tip, starved>>
    BY <1>1 DEF ApplyStatus
  <2>2. CASE UNCHANGED <<needsRepair, retries, halted>>
    BY <2>1, <2>2, <1>3 DEF MemInv
  <2>3. CASE NoteRefusal(Gen(t))
    <3>1. halted' \in BOOLEAN /\ needsRepair' \in BOOLEAN
      BY <2>3 DEF NoteRefusal, MemInv
    <3>2. retries' \in [gen : Gens, n : 0 .. MaxRetries + 1]
      BY <2>3, <1>4, EngineAssumption DEF NoteRefusal, MemInv
    <3> QED BY <2>1, <3>1, <3>2, <1>3 DEF MemInv
  <2> QED BY <1>6, <2>2, <2>3
<1>8. StatusInv'
  <2>1. lastSeen' \in Gens /\ lastMined' \in Gens
    BY <1>1, <1>4 DEF ApplyStatus, Larger, StatusInv
  <2>2. slot' \in [Gens -> SlotStates] /\ idx' \subseteq idx
    BY <1>1, <1>2 DEF ApplyStatus, StatusInv
  <2> DEFINE u == StatusUpdate(t, report, bare)
  <2>3. u \in CellTx
    <3>1. tx[t].by \in TxIds \cup {NoTx}
      BY DEF StoreInv, Action
    <3> QED BY <1>2, <3>1 DEF StatusUpdate, Row, CellTx, Reason, Status
  <2>4. \/ writes' = writes
        \/ Len(writes) < QueueCap /\ \E i \in 1 .. Len(writes) + 1 : writes' = Overtaking(u, i)
    BY <1>1, Enqueued
  <2> HIDE DEF u
  <2>5. writes' \in Seq(CellTx) /\ Len(writes') <= QueueCap
    <3>1. CASE writes' = writes
      BY <3>1 DEF StatusInv
    <3>2. CASE Len(writes) < QueueCap /\ \E i \in 1 .. Len(writes) + 1 : writes' = Overtaking(u, i)
      <4>1. PICK i \in 1 .. Len(writes) + 1 : writes' = Overtaking(u, i)
        BY <3>2
      <4>2. writes' \in Seq(CellTx) /\ Len(writes') = Len(writes) + 1
        BY <2>3, <4>1, OvertakingIs
      <4> QED BY <3>2, <4>2, EngineAssumption DEF StatusInv
    <3> QED BY <2>4, <3>1, <3>2
  <2> QED BY <1>3, <2>1, <2>2, <2>5 DEF StatusInv
<1> QED BY <1>5, <1>7, <1>8

\* The operator's tool and the instance without the lease.
LEMMA TypeOthers ==
  ASSUME TypeInv, OperatorRecover \/ StandbyRepair
  PROVE  TypeInv'
<1> USE DEF TypeInv
<1>1. PICK rr \in BOOLEAN : RecoverOnce(rr)
  BY DEF OperatorRecover, StandbyRepair
<1>2. Grows /\ tx' = tx
  BY <1>1, SameTx DEF RecoverOnce
<1>3. WorkerInv' /\ MemInv' /\ StatusInv' /\ LeaseInv'
  BY <1>1, <1>2, Frame DEF RecoverOnce
<1>4. StoreInv'
  <2>1w. PICK wf :
           \E rec \in Decisions(DeriveTip(rows), rows, tx, rr, wf) :
            \/ rows' = ApplyRecovery(DeriveTip(rows), rec, rows, tx)
            \/ rows' \in CutShort(DeriveTip(rows), rec, rows, tx)
    BY <1>1 DEF RecoverOnce
  <2>1. PICK rec \in Decisions(DeriveTip(rows), rows, tx, rr, wf) :
          \/ rows' = ApplyRecovery(DeriveTip(rows), rec, rows, tx)
          \/ rows' \in CutShort(DeriveTip(rows), rec, rows, tx)
    BY <2>1w
  <2>2. rows' \in [Gens -> CellTx] /\ Named(rows', tx)
    BY <1>1, <2>1, Derives, Recovers DEF RecoverOnce
  <2> QED BY <1>2, <2>2 DEF StoreInv
<1> QED BY <1>3, <1>4

\* The state before the first start.
LEMMA TypeInit == Init => TypeInv
<1> SUFFICES ASSUME Init PROVE TypeInv
  OBVIOUS
<1>1. Genesis \in TxIds /\ 0 \in Gens /\ 0 \in 0 .. MaxWreckage
  BY MaxTxAssumption, MaxGenAssumption, WreckageFitsWindow DEF TxIds, Genesis, Gens
<1>2. tx \in [TxIds -> Action] /\ Genesis \in Made(tx)
  BY <1>1 DEF Init, Action, TxState, Made
<1>3. StoreInv
  BY <1>1, <1>2, NoRowType, RowType DEF Init, StoreInv, Named, Row, NoRow, Status, Reason
<1>4. /\ At(Genesis) \in CellPosition /\ At(Genesis).tip = Genesis
      /\ ~Considered(At(Genesis))
  BY <1>1, AtType
<1>5. WorkerInv
  BY <1>1, <1>2, <1>4 DEF Init, WorkerInv, PCs, InFlight, Derivable, Refs
<1>6. MemInv
  BY <1>2, RetriesType DEF Init, MemInv, Refs
<1>7. StatusInv
  BY EmptyQueue DEF Init, StatusInv, SlotStates
<1>8. LeaseInv
  BY <1>2, <1>4 DEF Init, LeaseInv, Derivable, Refs
<1> QED BY <1>3, <1>5, <1>6, <1>7, <1>8 DEF TypeInv

\* A step that changes nothing.
LEMMA TypeStutter ==
  ASSUME TypeInv, UNCHANGED vars
  PROVE  TypeInv'
<1>1. Grows
  BY SameTx DEF vars
<1> QED BY <1>1, Frame DEF vars, TypeInv, workerVars, memVars, statusVars, leaseVars

\* Every step.
LEMMA TypeNext ==
  ASSUME TypeInv, [Next]_vars
  PROVE  TypeInv'
<1>1. CASE Worker
  BY <1>1, TypeControl, TypeIntent, TypeCreateAction, TypeSigning,
     TypeRecord, TypePersist, TypeNotBroadcast, TypeSigningFailed,
     TypeStartRepair, TypeRepairDerive, TypeAdoptDerived, TypeRepairDecide
     DEF Worker
<1>2. CASE Lease
  BY <1>2, TypeLease, TypeRederiveApply DEF Lease
<1>3. CASE StatusPipeline
  BY <1>3, TypeWriteStatus, TypeStatus, TypeFetchReason DEF StatusPipeline
<1> QED BY <1>1, <1>2, <1>3, TypeNew, TypeCrash, TypeNetwork, TypeOthers,
           TypeRingStarvation, TypeStutter DEF Next

\* The state is of the shape the code's types give it, for every bound, window,
\* limit and set of events: a repair never makes more than MaxWreckage + 1
\* passes, the queue never overflows, and every transaction a row, a position or
\* the worker refers to is one the wallet has made.
THEOREM TypeCorrect == Spec => []TypeOK
<1>1. TypeInv /\ [Next]_vars => TypeInv'
  BY TypeNext
<1> QED BY <1>1, TypeInit, TypeInvTypeOK, PTL DEF Spec

-----------------------------------------------------------------------------
(***************************************************************************)
(* What each variable the proofs follow is changed by.                     *)
(***************************************************************************)
\* Only the wallet and the network change an action.
LEMMA TxChanges ==
  ASSUME Next
  PROVE  UNCHANGED tx \/ CreateAction \/ SignAction \/ SignActionFails \/ Network
BY DEF Next, New, Crash, Lease, AcquireLease, LoseLease,
       RederiveRead, RederiveApply, Worker, Park, Look, TakeTurn, Wait, Intent,
       CreateActionFails, FailBeforeSigning,
       Record, Persist, NotBroadcast, SigningFailed,
       StartRepair, RepairDerive, AdoptDerived, RepairDecide,
       StatusPipeline, WriteStatus, OnStatus, Reconcile, ApplyStatus, FetchReason,
       OperatorRecover, StandbyRepair, RecoverOnce, RingStarvation, durable

\* No step makes the wallet forget.
LEMMA NextGrows ==
  ASSUME TypeInv, Next
  PROVE  Grows
<1>1. CASE UNCHANGED tx
  BY <1>1, SameTx
<1>2. CASE Network
  BY <1>2, NetworkGrows
<1>3. CASE CreateAction
  BY <1>3, CreateGrows
<1>4. CASE SignAction \/ SignActionFails
  BY <1>4, SigningGrows
<1> QED BY <1>1, <1>2, <1>3, <1>4, TxChanges

\* These actions write rows.
LEMMA RowChanges ==
  ASSUME Next
  PROVE  \/ UNCHANGED rows
         \/ Intent \/ Persist \/ NotBroadcast \/ SigningFailed
         \/ WriteStatus \/ \E t \in TxIds : FetchReason(t)
         \/ RederiveApply \/ RepairDecide \/ OperatorRecover \/ StandbyRepair
BY DEF Next, New, Crash, Lease, AcquireLease, LoseLease, RederiveRead,
       Worker, Park, Look, TakeTurn, Wait, CreateAction, CreateActionFails,
       FailBeforeSigning, SignAction, SignActionFails, Done, Record, StartRepair,
       RepairDerive, AdoptDerived, Network, Accept, Mine, Refuse,
       StatusPipeline, OnStatus, Reconcile, ApplyStatus, RingStarvation, durable

\* These actions write the status queue.
LEMMA QueueChanges ==
  ASSUME Next
  PROVE  \/ UNCHANGED writes \/ writes' = << >>
         \/ WriteStatus \/ \E t \in TxIds : OnStatus(t) \/ Reconcile(t)
BY DEF Next, New, Crash, DownMemory, Lease, AcquireLease, LoseLease,
       RederiveRead, RederiveApply, Worker, Park, Look, TakeTurn, Wait, Intent,
       CreateAction, CreateActionFails, FailBeforeSigning, SignAction,
       SignActionFails, Done, Record, Persist, NotBroadcast, SigningFailed,
       StartRepair, RepairDerive, AdoptDerived, RepairDecide, Network,
       Accept, Mine, Refuse, StatusPipeline, FetchReason, OperatorRecover, StandbyRepair,
       RecoverOnce, RingStarvation, statusVars

\* Whoever recovers the cell, what it writes is a decision applied.
LEMMA RecoveryChanges ==
  ASSUME TypeInv, RederiveApply \/ RepairDecide \/ OperatorRecover \/ StandbyRepair
  PROVE  \/ UNCHANGED rows
         \/ \E p, rec : /\ Decision(rec, tx)
                        /\ \/ rows' = ApplyRecovery(p, rec, rows, tx)
                           \/ \E done \in Gens : rows' = AdoptUpTo(rec, rows, tx, done)
<1>1. \/ UNCHANGED rows
      \/ \E p, rr, wf : /\ Derivable(p) /\ Considered(p)
                        /\ \E rec \in Decisions(p, rows, tx, rr, wf) :
                             \/ rows' = ApplyRecovery(p, rec, rows, tx)
                             \/ rows' \in CutShort(p, rec, rows, tx)
  <2>1. CASE RederiveApply
    <3>1. Derivable(derived)
      BY DEF TypeInv, LeaseInv
    <3> QED BY <2>1, <3>1 DEF RederiveApply
  <2>2. CASE RepairDecide
    <3>1. Derivable(pos) /\ Considered(pos)
      BY <2>2 DEF RepairDecide, TypeInv, WorkerInv
    <3>2w. PICK wf :
             \E rec \in Decisions(pos, rows, tx, TRUE, wf) :
              \/ UNCHANGED rows
              \/ rows' = ApplyRecovery(pos, rec, rows, tx)
              \/ rows' \in CutShort(pos, rec, rows, tx)
      BY <2>2 DEF RepairDecide, AdoptRepaired
    <3>2. PICK rec \in Decisions(pos, rows, tx, TRUE, wf) :
            \/ UNCHANGED rows
            \/ rows' = ApplyRecovery(pos, rec, rows, tx)
            \/ rows' \in CutShort(pos, rec, rows, tx)
      BY <3>2w
    <3> QED BY <3>1, <3>2
  <2>3. CASE OperatorRecover \/ StandbyRepair
    <3>1. PICK rr \in BOOLEAN : RecoverOnce(rr)
      BY <2>3 DEF OperatorRecover, StandbyRepair
    <3>2. Derivable(DeriveTip(rows))
      BY Derives DEF TypeInv
    <3> QED BY <3>1, <3>2 DEF RecoverOnce
  <2> QED BY <2>1, <2>2, <2>3
<1>2. CASE UNCHANGED rows
  BY <1>2
<1>3. CASE ~UNCHANGED rows
  <2>1. PICK p, rr, wf : /\ Derivable(p) /\ Considered(p)
                         /\ \E rec \in Decisions(p, rows, tx, rr, wf) :
                              \/ rows' = ApplyRecovery(p, rec, rows, tx)
                              \/ rows' \in CutShort(p, rec, rows, tx)
    BY <1>1, <1>3
  <2>2. PICK rec \in Decisions(p, rows, tx, rr, wf) :
          \/ rows' = ApplyRecovery(p, rec, rows, tx)
          \/ rows' \in CutShort(p, rec, rows, tx)
    BY <2>1
  <2>3. Decision(rec, tx)
    BY <2>1, Recovers
  <2>4. rec.verdict \in {"halt", "resume", "adopt"}
    BY <2>3 DEF Decision
  <2>5. \/ rows' = ApplyRecovery(p, rec, rows, tx)
        \/ \E done \in Gens : rows' = AdoptUpTo(rec, rows, tx, done)
    BY <2>2, <2>4, Leaves
  <2> QED BY <2>3, <2>5
<1> QED BY <1>2, <1>3

-----------------------------------------------------------------------------
(***************************************************************************)
(* The write-ahead discipline, for every instance with one writer: while a *)
(* transition may have reached the network without having been recorded,   *)
(* its generation carries the row that says so.                            *)
(*                                                                         *)
(* The property is not inductive.  What else could take the row away is a  *)
(* status write, which reaches rows by txid, and a recovery decided from a *)
(* derivation that was under way when the transition started.  The first   *)
(* needs AttemptsUnnamed and QueueNamed, the second Quiet.                 *)
(***************************************************************************)
\* No instance without the lease repairs the cell, and one that recovers on
\* acquiring the lease acquires it once.
SoleWriter ==
  /\ "standby" \notin Events
  /\ "auto" \notin Events \/ "reacquire" \notin Events

AttemptsUnnamed ==
  \A g \in Gens : rows[g].status = "attempting" => rows[g].txid = NoTx

QueueNamed ==
  \A i \in 1 .. Len(writes) : writes[i].txid \in TxIds /\ writes[i].status # "attempting"

\* Where the lease is acquired once, no transition starts while a derivation
\* is owed or under way.
Quiet ==
  "reacquire" \notin Events =>
    /\ rederiving => needsRederive
    /\ pc \in InFlight \cup {"turn"} => ~needsRederive

\* Which rows a status write can reach; it needs no assumption.
NamedInv == TypeInv /\ AttemptsUnnamed /\ QueueNamed

WriteAheadInv == NamedInv /\ Quiet /\ WriteAhead

-----------------------------------------------------------------------------
\* Whatever recovery writes, it writes no attempt.
LEMMA RecoveryWritesNoAttempt ==
  ASSUME NEW p, NEW rec, rec.verdict \in {"halt", "resume", "adopt"},
         NEW r, NEW x, NEW g \in Gens,
         ApplyRecovery(p, rec, r, x)[g].status = "attempting"
  PROVE  ApplyRecovery(p, rec, r, x)[g] = r[g]
<1>1. CASE rec.verdict = "adopt"
  BY <1>1 DEF ApplyRecovery, AdoptUpTo, Row
<1>2. CASE rec.verdict = "resume"
  BY <1>2 DEF ApplyRecovery, Retract, DeleteAttempt, DeleteRejection,
     DeleteUnsignedRejection, NoRow
<1>3. CASE rec.verdict = "halt"
  BY <1>3 DEF ApplyRecovery
<1> QED BY <1>1, <1>2, <1>3

\* A row is written as an attempt only by Intent, above the tip.
LEMMA AttemptRows ==
  ASSUME NamedInv, Next, NEW g \in Gens, rows'[g].status = "attempting"
  PROVE  /\ rows'[g].txid = NoTx
         /\ rows[g].status = "attempting" \/ (Intent /\ g = Gen(tip) + 1)
<1> USE DEF NamedInv, AttemptsUnnamed
<1>1. CASE UNCHANGED rows
  BY <1>1
<1>2. CASE Intent
  <2>1. \/ UNCHANGED rows
        \/ rows' = RecordTx(rows, Gen(tip) + 1, Row("attempting", NoTx, "none", NoTx))
    BY <1>2 DEF Intent
  <2> QED BY <1>2, <2>1 DEF RecordTx, Row, TypeInv, StoreInv
<1>3. CASE Persist
  <2>1. \/ UNCHANGED rows
        \/ rows' = RecordTx(rows, Gen(cur), Row("broadcast", cur, "none", NoTx))
    BY <1>3 DEF Persist
  <2> QED BY <2>1 DEF RecordTx, Row, TypeInv, StoreInv
<1>4. CASE NotBroadcast
  <2>1. UNCHANGED rows \/ rows' = DeleteAttempt(rows, Next1)
    BY <1>4 DEF NotBroadcast
  <2> QED BY <2>1 DEF DeleteAttempt, NoRow
<1>5. CASE SigningFailed
  <2>1. \/ UNCHANGED rows
        \/ rows' = RecordTx(rows, Next1, Row("failed", NoTx, "unclear", NoTx))
    BY <1>5 DEF SigningFailed
  <2> QED BY <2>1 DEF RecordTx, Row, TypeInv, StoreInv
<1>6. CASE WriteStatus
  <2> DEFINE u == Head(writes)
  <2>1. u.status # "attempting"
    <3>1. writes \in Seq(CellTx) /\ writes # << >>
      BY <1>6 DEF WriteStatus, TypeInv, StatusInv
    <3>2. 1 \in 1 .. Len(writes) /\ u = writes[1]
      BY <3>1
    <3> QED BY <3>2 DEF QueueNamed
  <2>2. UNCHANGED rows \/ rows' = UpdateStatus(rows, u)
    BY <1>6 DEF WriteStatus
  <2> HIDE DEF u
  <2> QED BY <2>1, <2>2 DEF UpdateStatus, Row
<1>7. CASE RederiveApply \/ RepairDecide \/ OperatorRecover \/ StandbyRepair
  <2>1. CASE UNCHANGED rows
    BY <2>1
  <2>2. CASE ~UNCHANGED rows
    <3>1. PICK p, rec : /\ Decision(rec, tx)
                        /\ \/ rows' = ApplyRecovery(p, rec, rows, tx)
                           \/ \E done \in Gens : rows' = AdoptUpTo(rec, rows, tx, done)
      BY <1>7, <2>2, RecoveryChanges
    <3>2. rows'[g] = rows[g]
      <4>1. CASE rows' = ApplyRecovery(p, rec, rows, tx)
        BY <3>1, <4>1, RecoveryWritesNoAttempt DEF Decision
      <4>2. CASE \E done \in Gens : rows' = AdoptUpTo(rec, rows, tx, done)
        <5>1. PICK done : rows' = AdoptUpTo(rec, rows, tx, done)
          BY <4>2
        <5> QED BY <5>1 DEF AdoptUpTo, Row
      <4> QED BY <3>1, <4>1, <4>2
    <3> QED BY <3>2
  <2> QED BY <2>1, <2>2
<1>8. CASE \E t \in TxIds : FetchReason(t)
  BY <1>8 DEF FetchReason, StatusUpdate, UpdateStatus, Row
<1> QED BY <1>1, <1>2, <1>3, <1>4, <1>5, <1>6, <1>7, <1>8, RowChanges

\* Every step keeps attempts unnamed: only the worker writes one.
LEMMA AttemptsUnnamedNext ==
  ASSUME NamedInv, Next
  PROVE  AttemptsUnnamed'
BY AttemptRows DEF AttemptsUnnamed

\* The queue holds reports, each of one transaction.
LEMMA QueueNamedNext ==
  ASSUME NamedInv, Next
  PROVE  QueueNamed'
<1> USE DEF NamedInv, QueueNamed, TypeInv, StatusInv
<1>1. CASE UNCHANGED writes \/ writes' = << >>
  BY <1>1
<1>2. CASE WriteStatus
  <2>1. writes' = Tail(writes) /\ writes # << >> /\ writes \in Seq(CellTx)
    BY <1>2 DEF WriteStatus
  <2>2. \A i \in 1 .. Len(writes') : i + 1 \in 1 .. Len(writes) /\ writes'[i] = writes[i + 1]
    BY <2>1
  <2> QED BY <2>2
<1>3. CASE \E t \in TxIds : OnStatus(t) \/ Reconcile(t)
  <2>1. PICK t \in TxIds : \E report \in Reports(t), bare \in BOOLEAN : ApplyStatus(t, report, bare)
    BY <1>3 DEF OnStatus, Reconcile
  <2>2. PICK report \in Reports(t), bare \in BOOLEAN : ApplyStatus(t, report, bare)
    BY <2>1
  <2> DEFINE u == StatusUpdate(t, report, bare)
  <2>3. u.txid \in TxIds /\ u.status # "attempting"
    BY <2>2 DEF StatusUpdate, Row, Reports
  <2>4. writes' = writes \/ \E i \in 1 .. Len(writes) + 1 : writes' = Overtaking(u, i)
    BY <2>2, Enqueued
  <2> HIDE DEF u
  <2>5. \A j \in 1 .. Len(writes') :
          writes'[j] = u \/ \E k \in 1 .. Len(writes) : writes'[j] = writes[k]
    <3>1. CASE \E i \in 1 .. Len(writes) + 1 : writes' = Overtaking(u, i)
      <4>1. PICK i \in 1 .. Len(writes) + 1 : writes' = Overtaking(u, i)
        BY <3>1
      <4> QED BY <4>1, OvertakingIs
    <3> QED BY <2>4, <3>1
  <2> QED BY <2>3, <2>5
<1> QED BY <1>1, <1>2, <1>3, QueueChanges

\* A turn is taken only when no derivation is owed, and with the lease acquired
\* once none comes to be owed before the process dies.
LEMMA QuietNext ==
  ASSUME WriteAheadInv, Next
  PROVE  Quiet'
<1> SUFFICES ASSUME "reacquire" \notin Events
             PROVE  /\ rederiving' => needsRederive'
                    /\ pc' \in InFlight \cup {"turn"} => ~needsRederive'
  BY DEF Quiet, InFlight
<1>1. /\ rederiving => needsRederive
      /\ pc \in InFlight \cup {"turn"} => ~needsRederive
  BY DEF WriteAheadInv, Quiet
<1>2. CASE Worker
  <2>1. UNCHANGED <<needsRederive, rederiving>>
    BY <1>2 DEF Worker, Park, Look, TakeTurn, Wait, Intent, CreateAction,
       CreateActionFails, FailBeforeSigning, SignAction, SignActionFails, Done,
       Record, Persist, NotBroadcast, SigningFailed, StartRepair,
       RepairDerive, AdoptDerived, RepairDecide, leaseVars
  <2>2. pc' \in InFlight \cup {"turn"} => pc \in InFlight \cup {"turn"} \/ ~needsRederive
    BY <1>2 DEF Worker, Park, Look, TakeTurn, Wait, TurnReady, Intent, CreateAction,
       CreateActionFails, FailBeforeSigning, SignAction, SignActionFails, Done,
       Record, Persist, NotBroadcast, SigningFailed, StartRepair, Done,
       RepairDerive, AdoptDerived, RepairDecide, AdoptRepaired, RepairDone,
       InFlight
  <2> QED BY <1>1, <2>1, <2>2
<1>3. CASE Lease
  <2>1. UNCHANGED pc
    BY <1>3 DEF Lease, AcquireLease, LoseLease, RederiveRead, RederiveApply,
       workerVars
  <2>2. /\ needsRederive' => needsRederive
        /\ rederiving' => needsRederive' /\ (rederiving \/ needsRederive)
    <3>1. CASE AcquireLease
      BY <1>1, <3>1 DEF AcquireLease
    <3>2. CASE LoseLease
      BY <1>1, <3>2 DEF LoseLease
    <3>3. CASE RederiveRead
      BY <1>1, <3>3 DEF RederiveRead
    <3>4. CASE RederiveApply
      BY <1>1, <3>4 DEF RederiveApply
    <3> QED BY <1>3, <3>1, <3>2, <3>3, <3>4 DEF Lease
  <2> QED BY <1>1, <2>1, <2>2
<1>4. CASE Network \/ StatusPipeline \/ OperatorRecover \/ StandbyRepair \/ RingStarvation
  <2>1. UNCHANGED <<pc, needsRederive, rederiving>>
    BY <1>4 DEF Network, Accept, Mine, Refuse, StatusPipeline, WriteStatus,
       OnStatus, Reconcile, ApplyStatus, FetchReason, OperatorRecover, StandbyRepair,
       RecoverOnce, RingStarvation, workerVars, leaseVars
  <2> QED BY <1>1, <2>1
<1>5. CASE New
  BY <1>1, <1>5 DEF New, leaseVars, InFlight
<1>6. CASE Crash
  BY <1>6 DEF Crash, DownMemory, InFlight
<1> QED BY <1>2, <1>3, <1>4, <1>5, <1>6 DEF Next

-----------------------------------------------------------------------------
\* A step that leaves the rows and the worker's place alone, or leaves the
\* transition, cannot violate the property.
LEMMA WriteAheadFrame ==
  ASSUME WriteAheadInv, Grows, UNCHANGED <<rows, base>>,
         pc' \in InFlight => pc \in InFlight
  PROVE  WriteAhead'
<1> SUFFICES ASSUME pc' \in InFlight
             PROVE  rows'[Gen(base)' + 1].status = "attempting"
  BY DEF WriteAhead, Next1, InFlight
<1>1. base \in Refs
  BY DEF WriteAheadInv, NamedInv, TypeInv, WorkerInv
<1>2. Gen(base)' = Gen(base)
  BY <1>1 DEF Grows, Refs, Gen
<1> QED BY <1>2 DEF WriteAheadInv, NamedInv, WriteAhead, Next1

\* Every step keeps the write-ahead row of the transition in flight.
LEMMA WriteAheadNext ==
  ASSUME SoleWriter, WriteAheadInv, Next
  PROVE  WriteAhead'
<1> USE DEF WriteAheadInv, NamedInv
<1>0. Grows
  BY NextGrows
<1>1. CASE Intent
  <2> SUFFICES ASSUME pc' \in InFlight
               PROVE  rows'[Gen(base)' + 1].status = "attempting"
    BY DEF WriteAhead, Next1, InFlight
  <2>1. /\ rows' = RecordTx(rows, Gen(tip) + 1, Row("attempting", NoTx, "none", NoTx))
        /\ base' = tip /\ tx' = tx /\ Gen(tip) < MaxGen
    BY <1>1 DEF Intent, InFlight
  <2>2. Gen(base)' = Gen(tip) /\ Gen(tip) + 1 \in Gens
    <3>1. Gen(tip) \in Gens
      BY GenType DEF TypeInv, MemInv
    <3> QED BY <2>1, <3>1, MaxGenAssumption DEF Gen, Gens
  <2> QED BY <2>1, <2>2 DEF RecordTx, Row, TypeInv, StoreInv
<1>2. CASE WriteStatus
  <2> DEFINE u == Head(writes)
  <2>1. u.txid \in TxIds
    <3>1. writes \in Seq(CellTx) /\ writes # << >>
      BY <1>2 DEF WriteStatus, TypeInv, StatusInv
    <3>2. 1 \in 1 .. Len(writes) /\ u = writes[1]
      BY <3>1
    <3> QED BY <3>2 DEF QueueNamed
  <2>2. UNCHANGED rows \/ rows' = UpdateStatus(rows, u)
    BY <1>2 DEF WriteStatus
  <2> HIDE DEF u
  <2>3. \A g \in Gens : rows[g].status = "attempting" => rows'[g].status = "attempting"
    <3>1. NoTx \notin TxIds
      BY MaxTxAssumption DEF NoTx, TxIds
    <3> QED BY <2>1, <2>2, <3>1 DEF AttemptsUnnamed, UpdateStatus
  <2>4. UNCHANGED <<pc, base, tx>>
    BY <1>2 DEF WriteStatus, workerVars
  <2>5. Gen(base)' = Gen(base)
    BY <2>4 DEF Gen
  <2>6. pc \in InFlight => Gen(base) + 1 \in Gens
    <3>1. Gen(base) \in Gens
      BY GenType DEF TypeInv, WorkerInv
    <3> QED BY <3>1, MaxGenAssumption DEF TypeInv, WorkerInv, Gens
  <2> QED BY <2>3, <2>4, <2>5, <2>6 DEF WriteAhead, Next1, InFlight
<1>3. CASE RederiveApply
  <2>1. CASE pc \in InFlight
    <3>1. "auto" \notin Events
      BY <1>3, <2>1 DEF Quiet, RederiveApply, SoleWriter
    <3>2. UNCHANGED <<rows, pc, base>>
      BY <1>3, <3>1 DEF RederiveApply, workerVars
    <3> QED BY <1>0, <3>2, WriteAheadFrame DEF InFlight
  <2>2. CASE pc \notin InFlight
    BY <1>3, <2>2 DEF RederiveApply, workerVars, WriteAhead, InFlight
  <2> QED BY <2>1, <2>2
<1>4. CASE OperatorRecover \/ StandbyRepair
  BY <1>4 DEF SoleWriter, OperatorRecover, StandbyRepair, RecoverOnce,
         workerVars, WriteAhead, InFlight
<1>5. CASE Persist \/ NotBroadcast \/ SigningFailed \/ RepairDecide
  BY <1>5 DEF Persist, NotBroadcast, SigningFailed, Done, RepairDecide,
         AdoptRepaired, RepairDone, WriteAhead, InFlight
<1>8. CASE \E t \in TxIds : FetchReason(t)
  <2>1. PICK t \in TxIds : rows' = UpdateStatus(rows, StatusUpdate(t, "failed", FALSE))
    BY <1>8 DEF FetchReason
  <2>2. \A g \in Gens : rows[g].status = "attempting" => rows'[g].status = "attempting"
    <3>1. NoTx \notin TxIds
      BY MaxTxAssumption DEF NoTx, TxIds
    <3> QED BY <2>1, <3>1 DEF AttemptsUnnamed, UpdateStatus, StatusUpdate, Row
  <2>3. UNCHANGED <<pc, base, tx>>
    BY <1>8 DEF FetchReason, workerVars
  <2>4. Gen(base)' = Gen(base)
    BY <2>3 DEF Gen
  <2>5. pc \in InFlight => Gen(base) + 1 \in Gens
    <3>1. Gen(base) \in Gens
      BY GenType DEF TypeInv, WorkerInv
    <3> QED BY <3>1, MaxGenAssumption DEF TypeInv, WorkerInv, Gens
  <2> QED BY <2>2, <2>3, <2>4, <2>5 DEF WriteAhead, Next1, InFlight
<1>6. \/ Intent \/ WriteStatus \/ (\E t \in TxIds : FetchReason(t)) \/ RederiveApply
      \/ OperatorRecover \/ StandbyRepair
      \/ Persist \/ NotBroadcast \/ SigningFailed \/ RepairDecide
      \/ /\ UNCHANGED <<rows, base>>
         /\ pc' \in InFlight => pc \in InFlight
      \/ pc' \notin InFlight
  BY DEF Next, New, Crash, Lease, AcquireLease, LoseLease, RederiveRead,
         Worker, Park, Look, TakeTurn, Wait, CreateAction, CreateActionFails,
         FailBeforeSigning, SignAction, SignActionFails, Done, Record, StartRepair,
         RepairDerive, AdoptDerived, Network, Accept, Mine, Refuse, RepairDone,
         StatusPipeline, OnStatus, Reconcile, ApplyStatus, RingStarvation,
         durable, workerVars, InFlight
<1>7. CASE pc' \notin InFlight
  BY <1>7 DEF WriteAhead, InFlight
<1> QED BY <1>0, <1>1, <1>2, <1>3, <1>4, <1>5, <1>6, <1>7, <1>8, WriteAheadFrame

-----------------------------------------------------------------------------
\* The invariant holds at the start, and every step keeps it.
LEMMA WriteAheadInit == Init => WriteAheadInv
<1> SUFFICES ASSUME Init PROVE WriteAheadInv
  OBVIOUS
<1>1. AttemptsUnnamed
  BY DEF Init, AttemptsUnnamed, Row, NoRow
<1>2. QueueNamed
  BY DEF Init, QueueNamed
<1>3. Quiet /\ WriteAhead
  BY DEF Init, Quiet, WriteAhead, InFlight
<1> QED BY <1>1, <1>2, <1>3, TypeInit DEF WriteAheadInv, NamedInv

\* A step of the system, or none.
LEMMA WriteAheadInvNext ==
  ASSUME SoleWriter
  PROVE  WriteAheadInv /\ [Next]_vars => WriteAheadInv'
<1>1. CASE Next
  BY <1>1, TypeNext, AttemptsUnnamedNext, QueueNamedNext, QuietNext,
     WriteAheadNext DEF WriteAheadInv, NamedInv
<1>2. CASE UNCHANGED vars
  <2>1. ASSUME WriteAheadInv PROVE TypeInv'
    BY <2>1, <1>2, TypeStutter DEF WriteAheadInv, NamedInv
  <2>2. ASSUME WriteAheadInv PROVE AttemptsUnnamed' /\ QueueNamed'
    BY <2>2, <1>2 DEF vars, WriteAheadInv, NamedInv, AttemptsUnnamed, QueueNamed
  <2>3. ASSUME WriteAheadInv PROVE Quiet' /\ WriteAhead'
    BY <2>3, <1>2 DEF vars, WriteAheadInv, Quiet, WriteAhead, Next1, Gen, InFlight
  <2> QED BY <2>1, <2>2, <2>3 DEF WriteAheadInv, NamedInv
<1> QED BY <1>1, <1>2

\* A transition that may have reached the network is never without its
\* write-ahead row: for any number of generations, transactions and refusals,
\* any window, limits and queue, and any failures of the store, the wallet or
\* the process, provided the cell has one writer.
THEOREM WriteAheadCorrect ==
  ASSUME SoleWriter
  PROVE  Spec => []WriteAhead
<1>1. WriteAheadInv => WriteAhead
  BY DEF WriteAheadInv, NamedInv
<1> QED BY <1>1, WriteAheadInit, WriteAheadInvNext, PTL DEF Spec

-----------------------------------------------------------------------------
(***************************************************************************)
(* The store never calls a live transaction failed, nor a transaction      *)
(* settled that was not signed for that generation: for every instance and *)
(* every event, although reports wait in a queue while the generation they *)
(* speak of is retracted and rebuilt.                                      *)
(*                                                                         *)
(* What makes it inductive is that a report stays true while it waits: a   *)
(* refusal is final, and a transaction is signed once.                     *)
(***************************************************************************)

\* The transaction a row names was signed, for the row's generation.
RowsSigned ==
  \A g \in Gens : rows[g].txid # NoTx =>
    rows[g].txid \in Signed(tx) /\ tx[rows[g].txid].gen = g

RowsReported ==
  \A g \in Gens :
    /\ rows[g].status = "failed" /\ rows[g].txid # NoTx => tx[rows[g].txid].st = "refused"
    /\ rows[g].status \in Settled => rows[g].txid # NoTx
    /\ rows[g].status = "none" => rows[g].txid = NoTx

ReportTrue(u) ==
  /\ u.txid \in TxIds /\ u.status \in {"seen", "mined", "failed"}
  /\ u.status = "failed" => tx[u.txid].st = "refused"

QueueTrue == \A i \in 1 .. Len(writes) : ReportTrue(writes[i])

\* The action being signed is not signed yet, and the one being recorded is.
SigningPlace ==
  /\ pc = "sign" => tx[cur].st = "created" /\ tx[cur].gen = Next1
  /\ pc \in {"record", "persist"} => cur \in Signed(tx) /\ tx[cur].gen = Next1

TruthInv == TypeInv /\ RowsSigned /\ RowsReported /\ QueueTrue /\ SigningPlace

-----------------------------------------------------------------------------
\* What was signed stays signed, and what was refused stays refused.
Settles ==
  /\ \A t \in Signed(tx) : t \in Signed(tx') /\ tx'[t].gen = tx[t].gen
  /\ \A t \in TxIds : tx[t].st = "refused" => tx'[t].st = "refused"

\* No step unsigns a transaction or takes a refusal back.
LEMMA SettlesNext ==
  ASSUME TruthInv, Next
  PROVE  Settles
<1> USE DEF TruthInv, TypeInv
<1>1. CASE UNCHANGED tx
  BY <1>1 DEF Settles, Signed, Live
<1>2. CASE CreateAction
  <2>1. PICK n \in TxIds :
          /\ tx[n].st = "none"
          /\ \E a : tx' = [tx EXCEPT ![n] = a]
    BY <1>2 DEF CreateAction, Unused
  <2>2. \A t \in TxIds : t # n => tx'[t] = tx[t]
    BY <2>1 DEF StoreInv
  <2> QED BY <2>1, <2>2 DEF Settles, Signed, Live
<1>3. CASE SignAction \/ SignActionFails
  <2>1. cur \in TxIds /\ tx[cur].st = "created"
    BY <1>3 DEF SignAction, SignActionFails, Done, WorkerInv, SigningPlace
  <2>2. \A t \in TxIds : t # cur => tx'[t] = tx[t]
    BY <1>3 DEF SignAction, SignActionFails, Done, StoreInv
  <2> QED BY <2>1, <2>2 DEF Settles, Signed, Live
<1>4. CASE Network
  <2>1. PICK t \in TxIds : Accept(t) \/ Mine(t) \/ Refuse(t)
    BY <1>4 DEF Network
  <2>2. /\ tx[t].st \in {"sent", "seen"}
        /\ tx'[t].st \in {"seen", "mined", "refused"} /\ tx'[t].gen = tx[t].gen
        /\ \A s \in TxIds : s # t => tx'[s] = tx[s]
    BY <2>1 DEF Accept, Mine, Refuse, StoreInv, Action
  <2> QED BY <2>2 DEF Settles, Signed, Live
<1>5. UNCHANGED tx \/ CreateAction \/ SignAction \/ SignActionFails \/ Network
  BY TxChanges
<1> QED BY <1>1, <1>2, <1>3, <1>4, <1>5

\* A table whose rows are those of the store, or speak of no transaction, or
\* are as true as they must be, is true of the wallet after the step.
TrueRow(row, g) ==
  \/ row.txid = NoTx /\ row.status \notin Settled
  \/ /\ row.txid \in Signed(tx) /\ tx[row.txid].gen = g /\ row.status # "none"
     /\ row.status = "failed" => tx[row.txid].st = "refused"

\* A table that differs from the store's only in true rows is true.
LEMMA TrueTable ==
  ASSUME TruthInv, Settles, \A g \in Gens : rows'[g] = rows[g] \/ TrueRow(rows'[g], g)
  PROVE  RowsSigned' /\ RowsReported'
<1>1. \A g \in Gens : TrueRow(rows[g], g)
  BY DEF TruthInv, RowsSigned, RowsReported, TrueRow
<1>2. \A g \in Gens : TrueRow(rows'[g], g)
  BY <1>1
<1>3. \A t \in Signed(tx) : t \in TxIds /\ t # NoTx
  BY MaxTxAssumption DEF Signed, Live, TxIds, NoTx
<1> QED BY <1>2, <1>3 DEF Settles, TrueRow, RowsSigned, RowsReported

\* What recovery adopts is signed, for the generation it is recorded at.
LEMMA RecoveryTrue ==
  ASSUME TruthInv, NEW p, NEW rec, Decision(rec, tx), NEW g \in Gens
  PROVE  /\ LET r == ApplyRecovery(p, rec, rows, tx)[g]
            IN  r = rows[g] \/ TrueRow(r, g)
         /\ \A done : LET r == AdoptUpTo(rec, rows, tx, done)[g]
                      IN  r = rows[g] \/ TrueRow(r, g)
<1>1. ASSUME NEW done
      PROVE  LET r == AdoptUpTo(rec, rows, tx, done)[g]
             IN  r = rows[g] \/ TrueRow(r, g)
  <2>1. CASE g <= done /\ \E t \in rec.steps : tx[t].gen = g
    <3> DEFINE s == CHOOSE t \in rec.steps : tx[t].gen = g
    <3>1. s \in rec.steps /\ tx[s].gen = g
      BY <2>1
    <3>2. s \in Signed(tx)
      BY <3>1 DEF Decision
    <3>3. AdoptUpTo(rec, rows, tx, done)[g] = Row("broadcast", s, "none", NoTx)
      BY <2>1 DEF AdoptUpTo
    <3> HIDE DEF s
    <3> QED BY <3>1, <3>2, <3>3 DEF TrueRow, Row
  <2>2. CASE ~(g <= done /\ \E t \in rec.steps : tx[t].gen = g)
    BY <2>2 DEF AdoptUpTo
  <2> QED BY <2>1, <2>2
<1>2. Retract(p, rows)[g] \in {rows[g], NoRow}
  BY DEF Retract, DeleteAttempt, DeleteRejection, DeleteUnsignedRejection
<1>3. TrueRow(NoRow, g)
  BY DEF TrueRow, NoRow, Settled
<1>4. ApplyRecovery(p, rec, rows, tx)[g] = rows[g] \/ TrueRow(ApplyRecovery(p, rec, rows, tx)[g], g)
  <2>1. CASE rec.verdict = "adopt"
    BY <1>1, <2>1 DEF ApplyRecovery
  <2>2. CASE rec.verdict = "resume"
    BY <1>2, <1>3, <2>2 DEF ApplyRecovery
  <2>3. CASE rec.verdict = "halt"
    BY <2>3 DEF ApplyRecovery
  <2> QED BY <2>1, <2>2, <2>3 DEF Decision
<1> QED BY <1>1, <1>4

\* Every row a step writes is true when it is written.
LEMMA RowsTrueNext ==
  ASSUME TruthInv, Next
  PROVE  RowsSigned' /\ RowsReported'
<1> USE DEF TruthInv, TypeInv
<1>0. Settles
  BY SettlesNext
<1> SUFFICES \A g \in Gens : rows'[g] = rows[g] \/ TrueRow(rows'[g], g)
  BY <1>0, TrueTable
<1> TAKE g \in Gens
<1>1. CASE UNCHANGED rows
  BY <1>1
<1>2. CASE Intent \/ SigningFailed \/ NotBroadcast
  <2>1. CASE Intent
    <3>1. \/ UNCHANGED rows
          \/ rows' = RecordTx(rows, Gen(tip) + 1, Row("attempting", NoTx, "none", NoTx))
      BY <2>1 DEF Intent
    <3> QED BY <3>1 DEF RecordTx, Row, TrueRow, Settled, StoreInv
  <2>2. CASE SigningFailed
    <3>1. \/ UNCHANGED rows
          \/ rows' = RecordTx(rows, Next1, Row("failed", NoTx, "unclear", NoTx))
      BY <2>2 DEF SigningFailed
    <3> QED BY <3>1 DEF RecordTx, Row, TrueRow, Settled, StoreInv
  <2>3. CASE NotBroadcast
    <3>1. UNCHANGED rows \/ rows' = DeleteAttempt(rows, Next1)
      BY <2>3 DEF NotBroadcast
    <3> QED BY <3>1 DEF DeleteAttempt, NoRow, TrueRow, Settled
  <2> QED BY <1>2, <2>1, <2>2, <2>3
<1>3. CASE Persist
  <2>1. /\ cur \in Signed(tx)
        /\ rows' = rows \/ rows' = RecordTx(rows, Gen(cur), Row("broadcast", cur, "none", NoTx))
    BY <1>3 DEF Persist, SigningPlace
  <2>2. Gen(cur) = tx[cur].gen
    BY <2>1, MaxTxAssumption DEF Gen, Signed, Live, TxIds, NoTx
  <2> QED BY <2>1, <2>2 DEF RecordTx, Row, TrueRow, StoreInv
<1>4. CASE WriteStatus
  <2> DEFINE u == Head(writes)
  <2>1. ReportTrue(u)
    <3>1. writes \in Seq(CellTx) /\ writes # << >>
      BY <1>4 DEF WriteStatus, StatusInv
    <3>2. 1 \in 1 .. Len(writes) /\ u = writes[1]
      BY <3>1
    <3> QED BY <3>2 DEF QueueTrue
  <2>2. rows' = rows \/ rows' = UpdateStatus(rows, u)
    BY <1>4 DEF WriteStatus
  <2> HIDE DEF u
  <2>3. NoTx \notin TxIds
    BY MaxTxAssumption DEF NoTx, TxIds
  <2>4. CASE rows' = UpdateStatus(rows, u) /\ rows[g].txid = u.txid
    <3>1. rows'[g] = Row(u.status, u.txid, u.err, u.by)
      BY <2>4 DEF UpdateStatus
    <3>2. u.txid \in Signed(tx) /\ tx[u.txid].gen = g
      BY <2>1, <2>3, <2>4 DEF ReportTrue, RowsSigned
    <3> QED BY <2>1, <3>1, <3>2 DEF TrueRow, Row, ReportTrue
  <2>5. CASE rows' = UpdateStatus(rows, u) /\ rows[g].txid # u.txid
    BY <2>5 DEF UpdateStatus
  <2> QED BY <2>2, <2>4, <2>5
<1>5. CASE RederiveApply \/ RepairDecide \/ OperatorRecover \/ StandbyRepair
  <2>1. \/ UNCHANGED rows
        \/ \E p, rec : /\ Decision(rec, tx)
                       /\ \/ rows' = ApplyRecovery(p, rec, rows, tx)
                          \/ \E done \in Gens : rows' = AdoptUpTo(rec, rows, tx, done)
    BY <1>5, RecoveryChanges
  <2>2. CASE UNCHANGED rows
    BY <2>2
  <2>3. CASE ~UNCHANGED rows
    <3>1. PICK p, rec : /\ Decision(rec, tx)
                        /\ \/ rows' = ApplyRecovery(p, rec, rows, tx)
                           \/ \E done \in Gens : rows' = AdoptUpTo(rec, rows, tx, done)
      BY <2>1, <2>3
    <3>2. CASE rows' = ApplyRecovery(p, rec, rows, tx)
      BY <3>1, <3>2, RecoveryTrue
    <3>3. CASE \E done \in Gens : rows' = AdoptUpTo(rec, rows, tx, done)
      BY <3>1, <3>3, RecoveryTrue
    <3> QED BY <3>1, <3>2, <3>3
  <2> QED BY <2>2, <2>3
<1>6. CASE \E t \in TxIds : FetchReason(t)
  <2>1. PICK t \in TxIds : /\ tx[t].st = "refused"
                           /\ rows' = UpdateStatus(rows, StatusUpdate(t, "failed", FALSE))
    BY <1>6 DEF FetchReason
  <2>2. CASE rows[g].txid = t
    <3>1. rows'[g].status = "failed" /\ rows'[g].txid = t
      BY <2>1, <2>2 DEF UpdateStatus, StatusUpdate, Row
    <3>2. t \in Signed(tx) /\ tx[t].gen = g
      BY <2>2, MaxTxAssumption DEF RowsSigned, TxIds, NoTx
    <3> QED BY <2>1, <3>1, <3>2 DEF TrueRow
  <2>3. CASE rows[g].txid # t
    BY <2>1, <2>3 DEF UpdateStatus, StatusUpdate, Row
  <2> QED BY <2>2, <2>3
<1> QED BY <1>1, <1>2, <1>3, <1>4, <1>5, <1>6, RowChanges

\* Every report a step queues is true, and stays true while it waits.
LEMMA QueueTrueNext ==
  ASSUME TruthInv, Next
  PROVE  QueueTrue'
<1> USE DEF TruthInv, TypeInv, StatusInv
<1>0. Settles
  BY SettlesNext
<1>1. \A u : ReportTrue(u) => ReportTrue(u)'
  BY <1>0 DEF Settles, ReportTrue
<1>2. CASE UNCHANGED writes \/ writes' = << >>
  BY <1>1, <1>2 DEF QueueTrue, ReportTrue
<1>3. CASE WriteStatus
  <2>1. writes' = Tail(writes) /\ writes # << >> /\ writes \in Seq(CellTx)
    BY <1>3 DEF WriteStatus
  <2>2. \A i \in 1 .. Len(writes') : i + 1 \in 1 .. Len(writes) /\ writes'[i] = writes[i + 1]
    BY <2>1
  <2>3. UNCHANGED tx
    BY <1>3 DEF WriteStatus
  <2> QED BY <2>2, <2>3 DEF QueueTrue, ReportTrue
<1>4. CASE \E t \in TxIds : OnStatus(t) \/ Reconcile(t)
  <2>1. PICK t \in TxIds : \E report \in Reports(t), bare \in BOOLEAN : ApplyStatus(t, report, bare)
    BY <1>4 DEF OnStatus, Reconcile
  <2>2. PICK report \in Reports(t), bare \in BOOLEAN : ApplyStatus(t, report, bare)
    BY <2>1
  <2> DEFINE u == StatusUpdate(t, report, bare)
  <2>3. ReportTrue(u)
    BY <2>2 DEF StatusUpdate, Row, Reports, ReportTrue
  <2>4. writes' = writes \/ \E i \in 1 .. Len(writes) + 1 : writes' = Overtaking(u, i)
    BY <2>2, Enqueued
  <2>5. UNCHANGED tx
    BY <2>2 DEF ApplyStatus, durable
  <2> HIDE DEF u
  <2>6. \A j \in 1 .. Len(writes') :
          writes'[j] = u \/ \E k \in 1 .. Len(writes) : writes'[j] = writes[k]
    <3>1. CASE \E i \in 1 .. Len(writes) + 1 : writes' = Overtaking(u, i)
      <4>1. PICK i \in 1 .. Len(writes) + 1 : writes' = Overtaking(u, i)
        BY <3>1
      <4> QED BY <4>1, OvertakingIs
    <3> QED BY <2>4, <3>1
  <2> QED BY <2>3, <2>5, <2>6 DEF QueueTrue, ReportTrue
<1> QED BY <1>2, <1>3, <1>4, QueueChanges

\* What the worker records has been signed, for the generation it records.
LEMMA SigningPlaceNext ==
  ASSUME TruthInv, Next
  PROVE  SigningPlace'
<1> USE DEF TruthInv, TypeInv
<1>0. Settles /\ Grows
  BY SettlesNext, NextGrows
<1>1. CASE CreateAction
  <2>1. PICK n \in TxIds :
          tx' = [tx EXCEPT ![n] = [gen |-> Next1, parent |-> base,
                                   st |-> "created", by |-> NoTx]]
          /\ cur' = n
    BY <1>1 DEF CreateAction
  <2>2. base \in Refs /\ base' = base /\ pc' = "sign"
    BY <1>1 DEF CreateAction, WorkerInv
  <2>3. Gen(base)' = Gen(base)
    BY <1>0, <2>2 DEF Grows, Refs, Gen
  <2>4. tx'[cur'].st = "created" /\ tx'[cur'].gen = Next1
    BY <2>1 DEF StoreInv
  <2> QED BY <2>2, <2>3, <2>4 DEF SigningPlace, Next1
<1>2. CASE SignAction
  <2>1. cur \in TxIds /\ cur' = cur /\ base' = base /\ pc' = "record"
        /\ tx' = [tx EXCEPT ![cur].st = "sent"]
    BY <1>2 DEF SignAction, WorkerInv
  <2>2. cur \in Signed(tx)'
    BY <2>1 DEF Signed, Live, StoreInv, Action
  <2>3. Gen(base)' = Gen(base)
    <3>1. base \in Refs
      BY DEF WorkerInv
    <3> QED BY <1>0, <2>1, <3>1 DEF Grows, Gen, Refs
  <2>4. tx'[cur].gen = tx[cur].gen
    BY <2>1 DEF StoreInv
  <2>5. tx[cur].gen = Next1
    BY <1>2 DEF SignAction, SigningPlace
  <2> QED BY <2>1, <2>2, <2>3, <2>4, <2>5 DEF SigningPlace, Next1
<1>3. CASE Record
  <2>1. /\ cur' = cur /\ base' = base /\ tx' = tx /\ pc = "record" /\ pc' = "persist"
    BY <1>3 DEF Record, durable
  <2>2. Gen(base)' = Gen(base) /\ Signed(tx)' = Signed(tx)
    BY <2>1 DEF Gen
  <2> QED BY <2>1, <2>2 DEF SigningPlace, Next1
<1>4. CASE /\ UNCHANGED <<pc, cur, base>>
           /\ pc = "sign" => UNCHANGED tx \/ Network
  <2>1. pc \in {"sign", "record", "persist"} => cur \in TxIds /\ base \in Refs
    BY DEF WorkerInv
  <2>2. base \in Refs => Gen(base)' = Gen(base)
    BY <1>0, <1>4 DEF Grows, Refs, Gen
  <2>3. pc \in {"record", "persist"} => SigningPlace'
    BY <1>0, <1>4, <2>1, <2>2 DEF SigningPlace, Settles, Next1
  <2>4. CASE pc = "sign" /\ Network
    <3>1. PICK t \in TxIds : Accept(t) \/ Mine(t) \/ Refuse(t)
      BY <2>4 DEF Network
    <3>2. tx[t].st \in {"sent", "seen"} /\ tx[cur].st = "created"
      BY <3>1, <2>4 DEF Accept, Mine, Refuse, SigningPlace
    <3>3. tx'[cur] = tx[cur]
      BY <3>1, <3>2, <2>1, <2>4 DEF Accept, Mine, Refuse, StoreInv
    <3> QED BY <1>4, <2>1, <2>2, <2>4, <3>2, <3>3 DEF SigningPlace, Next1
  <2>5. CASE pc = "sign" /\ UNCHANGED tx
    BY <1>4, <2>1, <2>2, <2>5 DEF SigningPlace, Next1
  <2>6. CASE pc \notin {"sign", "record", "persist"}
    BY <1>4, <2>6 DEF SigningPlace
  <2> QED BY <1>4, <2>3, <2>4, <2>5, <2>6
<1>5. CASE pc' \notin {"sign", "record", "persist"}
  BY <1>5 DEF SigningPlace
<1>6. \/ CreateAction \/ SignAction \/ Record
      \/ /\ UNCHANGED <<pc, cur, base>>
         /\ pc = "sign" => UNCHANGED tx \/ Network
      \/ pc' \notin {"sign", "record", "persist"}
  BY DEF Next, New, Crash, DownMemory, Lease, AcquireLease, LoseLease,
         RederiveRead, RederiveApply, Worker, Park, Look, TakeTurn, Wait, Intent,
         CreateActionFails, FailBeforeSigning, SignActionFails, Done, Persist,
         NotBroadcast, SigningFailed, Done, StartRepair, RepairDerive,
         AdoptDerived, RepairDecide, AdoptRepaired, RepairDone, Network,
         Accept, Mine, Refuse, StatusPipeline, WriteStatus, OnStatus,
         Reconcile, ApplyStatus, FetchReason, OperatorRecover, StandbyRepair, RecoverOnce,
         RingStarvation, durable, workerVars
<1> QED BY <1>1, <1>2, <1>3, <1>4, <1>5, <1>6

-----------------------------------------------------------------------------
\* At the start the genesis is the only row, and the only transaction.
LEMMA TruthInit == Init => TruthInv
<1> SUFFICES ASSUME Init PROVE TruthInv
  OBVIOUS
<1>1. Genesis \in TxIds /\ 0 \in Gens
  BY MaxTxAssumption, MaxGenAssumption DEF TxIds, Genesis, Gens
<1>2. \A g \in Gens : rows[g].txid # NoTx => g = 0 /\ rows[g].txid = Genesis /\ rows[g].status = "seen"
  BY DEF Init, Row, NoRow
<1>3. \A g \in Gens : /\ rows[g].status \in Settled => rows[g].txid # NoTx
                      /\ rows[g].status = "none" => rows[g].txid = NoTx
  BY DEF Init, Row, NoRow, Settled, Genesis, NoTx
<1>4. tx[Genesis].st = "mined" /\ tx[Genesis].gen = 0
  BY <1>1 DEF Init
<1>5. RowsSigned /\ RowsReported
  BY <1>1, <1>2, <1>3, <1>4 DEF RowsSigned, RowsReported, Signed, Live
<1>6. QueueTrue /\ SigningPlace
  BY DEF Init, QueueTrue, SigningPlace
<1> QED BY <1>5, <1>6, TypeInit DEF TruthInv

\* Every step keeps what rows and reports say true.
LEMMA TruthNext == TruthInv /\ [Next]_vars => TruthInv'
<1>1. CASE Next
  BY <1>1, TypeNext, RowsTrueNext, QueueTrueNext, SigningPlaceNext DEF TruthInv
<1>2. CASE UNCHANGED vars
  <2>1. ASSUME TruthInv PROVE TypeInv'
    BY <2>1, <1>2, TypeStutter DEF TruthInv
  <2> QED BY <1>2, <2>1 DEF vars, TruthInv, RowsSigned, RowsReported, QueueTrue,
             ReportTrue, SigningPlace, Signed, Live, Next1, Gen
<1> QED BY <1>1, <1>2

\* Every row speaks the truth of the transaction it names, in every instance
\* and under every event: reports that were overtaken by a retraction, a
\* rebuild or an adoption included.
THEOREM RowsTrue == Spec => []RowsTellTheTruth
<1>1. TruthInv => RowsTellTheTruth
  <2>1. \A t \in Signed(tx) : t # NoTx
    BY MaxTxAssumption DEF Signed, Live, TxIds, NoTx
  <2> QED BY <2>1 DEF TruthInv, RowsSigned, RowsReported, RowsTellTheTruth, Gen
<1> QED BY <1>1, TruthInit, TruthNext, PTL DEF Spec

-----------------------------------------------------------------------------
(***************************************************************************)
(* No statement deletes a row that names a live transaction.  Each of the  *)
(* three deletes is guarded by what the row says: an attempt, which names  *)
(* no transaction, or a refusal, which is true of the one it names.        *)
(***************************************************************************)
\* What may be deleted: an attempt, or a failed row.
Deletable(g) == rows[g].status \in {"none", "attempting", "failed"}

\* Recovery deletes nothing else, and what it adopts it writes.
LEMMA RecoveryDeletes ==
  ASSUME NEW p, NEW rec, Decision(rec, tx), NEW g \in Gens
  PROVE  /\ ApplyRecovery(p, rec, rows, tx)[g].status = "none" => Deletable(g)
         /\ \A done : AdoptUpTo(rec, rows, tx, done)[g].status = "none" => Deletable(g)
<1>1. \A done : AdoptUpTo(rec, rows, tx, done)[g].status = "none" => Deletable(g)
  BY DEF AdoptUpTo, Row, Deletable
<1>2. Retract(p, rows)[g].status = "none" => Deletable(g)
  BY DEF Retract, DeleteAttempt, DeleteRejection, DeleteUnsignedRejection, NoRow, Deletable
<1>3. CASE rec.verdict = "adopt"
  BY <1>1, <1>3 DEF ApplyRecovery
<1>4. CASE rec.verdict = "resume"
  BY <1>1, <1>2, <1>4 DEF ApplyRecovery
<1>5. CASE rec.verdict = "halt"
  BY <1>1, <1>5 DEF ApplyRecovery, Deletable
<1> QED BY <1>3, <1>4, <1>5 DEF Decision

\* Nor does any other step.
LEMMA DeletesNext ==
  ASSUME TypeInv, QueueTrue, Next, NEW g \in Gens, rows'[g].status = "none"
  PROVE  Deletable(g)
<1> USE DEF TypeInv, Deletable
<1>1. CASE UNCHANGED rows
  BY <1>1
<1>2. CASE Intent
  <2>1. \/ UNCHANGED rows
        \/ rows' = RecordTx(rows, Gen(tip) + 1, Row("attempting", NoTx, "none", NoTx))
    BY <1>2 DEF Intent
  <2> QED BY <2>1 DEF RecordTx, Row, StoreInv
<1>3. CASE Persist
  <2>1. \/ UNCHANGED rows
        \/ rows' = RecordTx(rows, Gen(cur), Row("broadcast", cur, "none", NoTx))
    BY <1>3 DEF Persist
  <2> QED BY <2>1 DEF RecordTx, Row, StoreInv
<1>4. CASE NotBroadcast
  <2>1. UNCHANGED rows \/ rows' = DeleteAttempt(rows, Next1)
    BY <1>4 DEF NotBroadcast
  <2> QED BY <2>1 DEF DeleteAttempt
<1>5. CASE SigningFailed
  <2>1. \/ UNCHANGED rows
        \/ rows' = RecordTx(rows, Next1, Row("failed", NoTx, "unclear", NoTx))
    BY <1>5 DEF SigningFailed
  <2> QED BY <2>1 DEF RecordTx, Row, StoreInv
<1>6. CASE WriteStatus
  <2> DEFINE u == Head(writes)
  <2>1. u.status # "none"
    <3>1. writes \in Seq(CellTx) /\ writes # << >>
      BY <1>6 DEF WriteStatus, StatusInv
    <3>2. 1 \in 1 .. Len(writes) /\ u = writes[1]
      BY <3>1
    <3> QED BY <3>2 DEF QueueTrue, ReportTrue
  <2>2. UNCHANGED rows \/ rows' = UpdateStatus(rows, u)
    BY <1>6 DEF WriteStatus
  <2> HIDE DEF u
  <2> QED BY <2>1, <2>2 DEF UpdateStatus, Row
<1>7. CASE RederiveApply \/ RepairDecide \/ OperatorRecover \/ StandbyRepair
  <2>1. CASE UNCHANGED rows
    BY <2>1
  <2>2. CASE ~UNCHANGED rows
    <3>1. PICK p, rec : /\ Decision(rec, tx)
                        /\ \/ rows' = ApplyRecovery(p, rec, rows, tx)
                           \/ \E done \in Gens : rows' = AdoptUpTo(rec, rows, tx, done)
      BY <1>7, <2>2, RecoveryChanges
    <3> QED BY <3>1, RecoveryDeletes
  <2> QED BY <2>1, <2>2
<1>8. CASE \E t \in TxIds : FetchReason(t)
  BY <1>8 DEF FetchReason, StatusUpdate, UpdateStatus, Row
<1> QED BY <1>1, <1>2, <1>3, <1>4, <1>5, <1>6, <1>7, <1>8, RowChanges

\* Whatever is deleted, by the worker, a repair, a derivation, an operator or a
\* second instance, from a position however stale, names no live transaction.
THEOREM LiveRowsStay == Spec => LiveRowNotDeleted
<1> DEFINE Inv == TruthInv /\ NamedInv
<1>1. Init => Inv
  <2> SUFFICES ASSUME Init PROVE Inv
    OBVIOUS
  <2>1. AttemptsUnnamed /\ QueueNamed
    BY DEF Init, Row, NoRow, AttemptsUnnamed, QueueNamed
  <2> QED BY <2>1, TypeInit, TruthInit DEF NamedInv
<1>2. Inv /\ [Next]_vars => Inv'
  <2>1. CASE Next
    BY <2>1, TruthNext, TypeNext, AttemptsUnnamedNext, QueueNamedNext DEF NamedInv
  <2>2. CASE UNCHANGED vars
    <3> SUFFICES ASSUME Inv PROVE Inv'
      OBVIOUS
    <3>1. UNCHANGED <<rows, writes>>
      BY <2>2 DEF vars
    <3>2. AttemptsUnnamed' /\ QueueNamed'
      BY <3>1 DEF NamedInv, AttemptsUnnamed, QueueNamed
    <3>3. TruthInv'
      BY <2>2, TruthNext
    <3> QED BY <3>2, <3>3 DEF NamedInv, TruthInv
  <2> QED BY <2>1, <2>2
<1>3. Inv /\ [Next]_vars =>
        [\A g \in Gens : rows[g].txid \in Live(tx) => rows'[g].status # "none"]_vars
  <2> SUFFICES ASSUME Inv, Next, NEW g \in Gens,
                      rows[g].txid \in Live(tx), rows'[g].status = "none"
               PROVE  FALSE
    BY DEF vars
  <2>1. rows[g].txid # NoTx /\ tx[rows[g].txid].st # "refused"
    BY MaxTxAssumption DEF Live, TxIds, NoTx
  <2>2. Deletable(g)
    BY DeletesNext DEF TruthInv
  <2>3. rows[g].status # "none"
    BY <2>1 DEF TruthInv, RowsReported
  <2> QED
    BY <2>1, <2>2, <2>3 DEF Deletable, NamedInv, AttemptsUnnamed, TruthInv, RowsReported
<1> QED BY <1>1, <1>2, <1>3, PTL DEF Spec, LiveRowNotDeleted
=============================================================================
