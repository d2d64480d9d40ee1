----------------------------- MODULE Ring_proofs -----------------------------
(***************************************************************************)
(* The clock never runs further ahead of the slowest cell than MaxLag, for *)
(* any number of cells, any lag and any word: whatever halts, is repaired, *)
(* derived, played, paused or lost between the clock's two locks.          *)
(*                                                                         *)
(* The bound is not inductive: the clock raises the target by a frontier   *)
(* it read a lock earlier.  What is, is that this frontier has not been    *)
(* overtaken backwards, and that every position stays within a word, so    *)
(* that the unsigned difference is the difference.                         *)
(***************************************************************************)
EXTENDS Ring, TLAPS, WellFoundedInduction

RingType ==
  /\ gen \in [Cells -> Gens] /\ base \in [Cells -> Gens]
  /\ generation \in Gens /\ target \in Gens
  /\ clock \in [awake : BOOLEAN, frontier : Gens]

LagInv ==
  /\ RingType
  /\ LagBounded
  /\ steady => clock.frontier <= Frontier

-----------------------------------------------------------------------------
(***************************************************************************)
(* The frontier.                                                           *)
(***************************************************************************)
\* Every set of generations that is not empty has a smallest.
LEMMA Smallest ==
  ASSUME NEW S, S \subseteq Nat, S # {}
  PROVE  \E x \in S : \A y \in S : x <= y
<1> DEFINE R == {ss \in Nat \X Nat : ss[1] < ss[2]}
<1>1. IsWellFoundedOn(R, Nat)
  BY NatLessThanWellFounded, Zenon DEF OpToRel
<1> HIDE DEF R
<1>2. PICK x \in S : \A y \in S : ~(<<y, x>> \in R)
  BY <1>1, WFMin, Zenon
<1>3. \A y \in S : ~(y < x)
  BY <1>2 DEF R
<1> QED
  BY <1>3

LEMMA GensAreNaturals == Gens \subseteq Nat /\ 0 \in Gens /\ MaxGen \in Nat
BY RingAssumption DEF Gens

\* The frontier is a generation.
LEMMA FrontierType ==
  ASSUME NEW g \in [Cells -> Gens], NEW h, NEW held \in Gens
  PROVE  FrontierOf(g, h, held) \in Gens
<1> DEFINE alive == {g[c] : c \in {d \in Cells : ~h[d]}}
<1>1. alive \subseteq Gens
  OBVIOUS
<1>2. CASE alive = {}
  BY <1>2 DEF FrontierOf
<1>3. CASE alive # {}
  <2>1. \E f \in alive : \A o \in alive : f <= o
    BY <1>1, <1>3, Smallest, GensAreNaturals
  <2>2. (CHOOSE f \in alive : \A o \in alive : f <= o) \in alive
    BY <2>1
  <2> QED
    BY <1>1, <1>3, <2>2 DEF FrontierOf
<1> QED
  BY <1>2, <1>3

\* Holding the frontier of the same cells changes nothing.
LEMMA FrontierHeld ==
  ASSUME NEW g, NEW h, NEW held
  PROVE  FrontierOf(g, h, FrontierOf(g, h, held)) = FrontierOf(g, h, held)
BY DEF FrontierOf

\* The clock's next target is within MaxLag of the frontier it has read, or it
\* is the target there was.
LEMMA ClockRaises ==
  ASSUME NEW t \in Gens, NEW f \in Gens
  PROVE  /\ NextTarget(t, f) \in Gens
         /\ NextTarget(t, f) <= f + MaxLag \/ NextTarget(t, f) = t
<1> DEFINE u == Larger(t, f)
<1>1. u \in Gens /\ u >= f /\ (u = t \/ u = f)
  BY GensAreNaturals DEF Larger
<1>2. u - f \in 0 .. WordSize - 1
  BY <1>1, RingAssumption DEF Gens
<1>3. (u - f) % WordSize = u - f
  BY <1>2, RingAssumption
<1> HIDE DEF u
<1>4. NextTarget(t, f) = IF u - f < MaxLag /\ u < MaxGen THEN u + 1 ELSE u
  BY <1>3 DEF NextTarget, Raised, u
<1> QED
  BY <1>1, <1>4, RingAssumption DEF Gens

-----------------------------------------------------------------------------
(***************************************************************************)
(* The invariant.                                                          *)
(***************************************************************************)
LEMMA InitLag == Init => LagInv
<1> SUFFICES ASSUME Init
             PROVE  LagInv
  OBVIOUS
<1>1. generation \in Gens /\ target = generation
  BY FrontierType, GensAreNaturals DEF Init
<1>2. Frontier = generation
  BY FrontierHeld DEF Init, Frontier
<1>3. RingType
  BY <1>1, GensAreNaturals DEF Init, RingType, Asleep
<1>4. clock.frontier = 0
  BY DEF Init, Asleep
<1> QED
  BY <1>1, <1>2, <1>3, <1>4, RingAssumption DEF LagInv, LagBounded, Gens

LEMMA TypeNext == LagInv /\ [Next]_vars => RingType'
<1> SUFFICES ASSUME LagInv, [Next]_vars
             PROVE  RingType'
  OBVIOUS
<1> USE DEF LagInv, RingType
<1>0. Frontier \in Gens
  BY FrontierType DEF Frontier
<1>2. CASE ClockRead
  BY <1>0, <1>2 DEF ClockRead, cellVars, workers
<1>3. CASE ClockRaise
  BY <1>3, ClockRaises, GensAreNaturals DEF ClockRaise, Asleep, cellVars, workers
<1>4. ASSUME NEW c \in Cells, ReadTip(c) \/ Shortfall(c) \/ Fail(c)
      PROVE  RingType'
  BY <1>4, GensAreNaturals DEF ReadTip, Shortfall, Fail, cellVars
<1>5. ASSUME NEW c \in Cells, Record(c)
      PROVE  RingType'
  <2>1. gen' \in [Cells -> Gens] /\ base' \in [Cells -> Gens]
    BY <1>5, GensAreNaturals DEF Record, Gens
  <2>2. generation' \in Gens
    BY <1>5, <2>1, FrontierType DEF Record
  <2> QED
    BY <1>5, <2>1, <2>2 DEF Record
<1>6. ASSUME NEW c \in Cells, Repair(c)
      PROVE  RingType'
  <2>1. gen' \in [Cells -> Gens]
    <3>1. PICK g \in Gens : gen' = [gen EXCEPT ![c] = g]
      BY <1>6 DEF Repair
    <3> QED
      BY <3>1
  <2>2. generation' \in Gens
    BY <1>6, <2>1, FrontierType DEF Repair
  <2> QED
    BY <1>6, <2>1, <2>2 DEF Repair, workers
<1>7. CASE ApplyPositions
  <2>1. generation' \in Gens
    BY <1>7, FrontierType DEF ApplyPositions
  <2> QED
    BY <1>7, <2>1 DEF ApplyPositions, Larger, workers
<1>8. CASE Control
  BY <1>0, <1>8 DEF Control, SetMode, Larger, cellVars, workers
<1>9. CASE Step
  BY <1>0, <1>9, RingAssumption DEF Step, Larger, Gens, cellVars, workers
<1>10. ASSUME NEW c \in Cells,
              \/ Park(c) \/ Look(c) \/ TakeTurn(c) \/ Wait(c) \/ SeeStarved(c)
              \/ ClaimProbe(c) \/ Succeed(c) \/ EnterStarvation(c) \/ HaltCell(c)
       PROVE  RingType'
  BY <1>10 DEF Park, Look, TakeTurn, Wait, SeeStarved, ClaimProbe, Succeed, EnterStarvation, HaltCell, cellVars, workers
<1>11. CASE LoseLease \/ ProbeDue \/ Coin
  BY <1>11 DEF LoseLease, ProbeDue, Coin, cellVars, workers
<1>12. CASE UNCHANGED vars
  BY <1>12 DEF vars
<1> QED
  BY <1>2, <1>3, <1>4, <1>5, <1>6, <1>7, <1>8, <1>9, <1>10, <1>11, <1>12 DEF Next, Worker

\* While nothing takes the frontier back, what the target was and what the
\* clock read stay within bounds.
LEMMA Watched ==
  ASSUME LagInv, RingType', Watch,
         clock' = clock \/ clock'.frontier <= Frontier',
         target' = target \/ target' <= Frontier' + MaxLag
  PROVE  LagInv'
<1>1. Frontier \in Nat /\ Frontier' \in Nat
  BY FrontierType, GensAreNaturals DEF LagInv, RingType, Frontier
<1>2. clock.frontier \in Nat /\ target \in Nat
  BY GensAreNaturals DEF LagInv, RingType
<1>3. steady' => steady /\ Frontier' >= Frontier /\ Frontier' >= clock.frontier
  <2>1. steady' => steady /\ Frontier' >= Larger(Frontier, clock.frontier)
    BY Zenon DEF Watch
  <2>2. Larger(Frontier, clock.frontier) >= Frontier
    BY <1>1, <1>2 DEF Larger
  <2>3. Larger(Frontier, clock.frontier) >= clock.frontier
    BY <1>1, <1>2 DEF Larger
  <2>4. Larger(Frontier, clock.frontier) \in Nat
    BY <1>1, <1>2 DEF Larger
  <2> QED
    BY <1>1, <1>2, <2>1, <2>2, <2>3, <2>4
<1> QED
  BY <1>1, <1>2, <1>3, RingAssumption DEF LagInv, LagBounded

LEMMA NextLag == LagInv /\ [Next]_vars => LagInv'
<1> SUFFICES ASSUME LagInv, [Next]_vars
             PROVE  LagInv'
  OBVIOUS
<1>1. RingType'
  BY TypeNext
<1>2. Frontier \in Nat /\ Frontier' \in Nat /\ target \in Nat /\ MaxLag \in Nat
  BY <1>1, FrontierType, GensAreNaturals, RingAssumption
  DEF LagInv, RingType, Frontier
<1>3. CASE UNCHANGED vars
  BY <1>3 DEF vars, LagInv, RingType, LagBounded, Frontier
<1>4. CASE ClockRead
  <2>1. clock'.frontier = Frontier' /\ target' = target /\ Watch
    BY <1>4 DEF ClockRead, cellVars, Frontier
  <2> QED
    BY <1>1, <1>2, <2>1, Watched
<1>5. CASE ClockRaise
  <2>1. Watch /\ clock'.frontier = 0 /\ Frontier' = Frontier
    BY <1>5 DEF ClockRaise, Asleep, cellVars, Frontier
  <2>2. /\ target' <= clock.frontier + MaxLag \/ target' = target
        /\ target' \in Nat /\ clock.frontier \in Nat
    BY <1>1, <1>5, ClockRaises, GensAreNaturals DEF ClockRaise, LagInv, RingType
  <2>3. CASE target' = target
    BY <1>1, <1>2, <2>1, <2>3, Watched
  <2>4. CASE target' <= clock.frontier + MaxLag
    <3>1. steady' => steady
      BY <2>1 DEF Watch
    <3> QED
      BY <1>1, <1>2, <2>1, <2>2, <2>4, <3>1 DEF LagInv, LagBounded
  <2> QED
    BY <2>2, <2>3, <2>4
<1>6. CASE Control
  <2>1. /\ Watch /\ clock' = clock /\ Frontier' = Frontier
        /\ target' \in {target, Frontier}
    BY <1>6 DEF Control, SetMode, Larger, cellVars, Frontier
  <2> QED
    BY <1>1, <1>2, <2>1, Watched
<1>7. CASE ApplyPositions
  <2>1. Watch /\ clock' = clock /\ target' \in {target, generation'}
    BY <1>7 DEF ApplyPositions, Larger
  <2>2. Frontier' = generation'
    BY <1>7, FrontierHeld DEF ApplyPositions, Frontier
  <2>3. Frontier' <= Frontier' + MaxLag
    <3>1. \A n, m \in Nat : n <= n + m
      OBVIOUS
    <3> QED
      BY <1>2, <3>1, Zenon
  <2>4. target' = target \/ target' <= Frontier' + MaxLag
    BY <2>1, <2>2, <2>3, Zenon
  <2> QED
    BY <1>1, <2>1, <2>4, Watched
<1>8. CASE Step
  BY <1>1, <1>8 DEF Step, LagInv, LagBounded
<1>9. ASSUME Watch, clock' = clock, target' = target
      PROVE  LagInv'
  BY <1>1, <1>9, Watched
<1> QED
  BY <1>3, <1>4, <1>5, <1>6, <1>7, <1>8, <1>9
  DEF Next, Worker, Park, Look, TakeTurn, Wait, SeeStarved, ClaimProbe, ReadTip, Succeed,
      Record, Shortfall, EnterStarvation, Fail, Repair, HaltCell, LoseLease, ProbeDue, Coin

-----------------------------------------------------------------------------
\* However the clock's round is interleaved with halts, repairs, derivations and
\* the controls, the target is never more than MaxLag ahead of the slowest cell,
\* unless a repair took the frontier back or somebody stepped.
THEOREM LagAlwaysBounded == Spec => []LagBounded
<1>1. LagInv => LagBounded
  BY DEF LagInv
<1> QED
  BY <1>1, InitLag, NextLag, PTL DEF Spec
=============================================================================
