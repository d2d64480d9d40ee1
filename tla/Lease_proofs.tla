---------------------------- MODULE Lease_proofs ----------------------------
(***************************************************************************)
(* With timings that fit, one process at a time writes, and none spends    *)
(* what another has spent.  Belief and row are tied together by time: a    *)
(* writer's row has more left than the longest the writer can go on        *)
(* without renewing it.                                                    *)
(***************************************************************************)
EXTENDS Lease, TLAPS

\* The constants, as the steps below use them.
LEMMA Bounds ==
  ASSUME Timely
  PROVE
  /\ MaxCall \in Nat /\ MaxDerive \in Nat /\ MaxTurn \in Nat /\ MaxGen \in Nat
  /\ MaxSkew \in Nat /\ LongExpired \in Int
  /\ \A p \in Procs : /\ TTL(p) \in Nat /\ Renew(p) \in Nat /\ Round(p) \in Nat
                      /\ Skew[p] \in Int
                      /\ MaxCall <= Round(p) /\ Renew(p) <= Round(p)
                      /\ p \in Engines => MaxCall + MaxDerive <= Round(p)
  /\ \A p, q \in Procs : Round(p) + MaxCall + MaxTurn + Skew[q] <= TTL(p) + Skew[p]
<1>1. /\ MaxCall \in Nat /\ MaxDerive \in Nat /\ MaxTurn \in Nat /\ MaxGen \in Nat
      /\ MaxSkew \in Nat /\ LongExpired \in Int
  BY LeaseAssumption DEF LongExpired
<1>2. \A p \in Procs : /\ TTL(p) \in Nat /\ Renew(p) \in Nat /\ Skew[p] \in Int
  BY <1>1, LeaseAssumption DEF TTL, Renew
<1>3. \A p \in Procs : /\ Round(p) \in Nat
                       /\ MaxCall <= Round(p) /\ Renew(p) <= Round(p)
                       /\ p \in Engines => MaxCall + MaxDerive <= Round(p)
  BY <1>1, <1>2 DEF Round
<1>4. \A p, q \in Procs : Round(p) + MaxCall + MaxTurn + Skew[q] <= TTL(p) + Skew[p]
  BY DEF Timely
<1> QED BY <1>1, <1>2, <1>3, <1>4

(***************************************************************************)
(* The strengthening.                                                      *)
(***************************************************************************)
\* What the bounds on calls, derivations and transitions make of the ages.
Punctual(p) ==
  /\ pc[p] \in {"ask", "answer"} => age[p] <= MaxCall
  /\ pc[p] = "derive" => /\ p \in Engines /\ leader[p]
                         /\ age[p] <= MaxCall + MaxDerive
  /\ pc[p] = "wait" => age[p] <= Round(p)
  /\ pc[p] = "down" => ~leader[p] /\ turn[p] = None
  /\ turn[p] # None => turnAge[p] <= MaxTurn
  /\ leader[p] /\ pc[p] = "answer" => reply[p]
  /\ p \in Tools /\ ~leader[p] => needsRederive[p] /\ turn[p] = None

\* A positive answer under way, a belief and a transition each come with the
\* row, and with what is left of it.
Lives(p, spent) == lease.owner = p /\ Skew[p] + TTL(p) - spent <= lease.left

Held(p) ==
  /\ pc[p] = "answer" /\ reply[p] => Lives(p, age[p])
  /\ leader[p] /\ pc[p] \in {"derive", "wait"} => Lives(p, age[p])
  /\ leader[p] /\ pc[p] = "ask" => Lives(p, Round(p) + age[p])
  /\ turn[p] # None => Lives(p, Round(p) + MaxCall + turnAge[p])

\* Whatever was spent beyond position g was spent by p itself.
Own(p, g) == g <= head /\ \A n \in Gens : g < n /\ n <= head => by[n] = p

Knows(p) ==
  /\ leader[p] /\ ~needsRederive[p] => Own(p, tip[p])
  /\ derived[p] # None => pc[p] = "derive" /\ Own(p, derived[p])
  /\ turn[p] # None => turn[p] < MaxGen /\ Own(p, turn[p])

IInv == TypeOK /\ \A p \in Procs : Punctual(p) /\ Held(p) /\ Knows(p)


(***************************************************************************)
(* Who claims the row holds it, and nobody may take it.                    *)
(***************************************************************************)
Claims(p) == Writer(p) \/ (pc[p] = "answer" /\ reply[p])

LEMMA ClaimHolds ==
  ASSUME Timely, TypeOK, NEW p \in Procs, Punctual(p), Held(p), Claims(p)
  PROVE  lease.owner = p /\ \A q \in Procs : Skew[q] <= lease.left
<1>1. /\ age[p] \in Nat /\ turnAge[p] \in Nat /\ lease.left \in Int
      /\ pc[p] \in {"down", "ask", "answer", "derive", "wait"}
  BY DEF TypeOK
<1>2. CASE turn[p] # None
  <2>1. Lives(p, Round(p) + MaxCall + turnAge[p]) /\ turnAge[p] <= MaxTurn
    BY <1>2 DEF Held, Punctual
  <2> QED BY <1>1, <2>1, Bounds DEF Lives
<1>3. CASE pc[p] = "answer" /\ reply[p]
  <2>1. Lives(p, age[p]) /\ age[p] <= MaxCall
    BY <1>3 DEF Held, Punctual
  <2> QED BY <1>1, <2>1, Bounds DEF Lives
<1>4. CASE leader[p] /\ pc[p] \in {"derive", "wait"}
  <2>1. Lives(p, age[p]) /\ age[p] <= Round(p)
    BY <1>1, <1>4, Bounds DEF Held, Punctual
  <2> QED BY <1>1, <2>1, Bounds DEF Lives
<1>5. CASE leader[p] /\ pc[p] = "ask"
  <2>1. Lives(p, Round(p) + age[p]) /\ age[p] <= MaxCall
    BY <1>5 DEF Held, Punctual
  <2> QED BY <1>1, <2>1, Bounds DEF Lives
<1> QED BY <1>1, <1>2, <1>3, <1>4, <1>5 DEF Claims, Writer, Punctual

LEMMA IInvOneWriter == ASSUME Timely, IInv PROVE OneWriter
<1> SUFFICES ASSUME NEW p \in Procs, NEW q \in Procs, Writer(p), Writer(q)
             PROVE  p = q
  BY DEF OneWriter
<1> QED BY ClaimHolds DEF IInv, Claims

\* A claim excludes every other.
LEMMA ClaimsExclude ==
  ASSUME Timely, IInv, NEW p \in Procs, NEW q \in Procs, Claims(p), q # p
  PROVE  /\ ~leader[q] /\ turn[q] = None /\ ~(pc[q] = "answer" /\ reply[q])
         /\ ~Takeable(q)
<1>1. lease.owner = p /\ Skew[q] <= lease.left
  BY ClaimHolds DEF IInv
<1>2. ~Claims(q)
  BY <1>1, ClaimHolds DEF IInv
<1>3. ~Takeable(q)
  <2>1. age[q] \in Nat /\ lease.left \in Int /\ Skew[q] \in Int
    BY Bounds DEF IInv, TypeOK
  <2>2. p # Nobody
    BY LeaseAssumption
  <2> QED BY <1>1, <2>1, <2>2 DEF Takeable
<1> QED BY <1>2, <1>3 DEF Claims, Writer

\* A process that is not touched keeps its part of the invariant while row and
\* chain are unchanged, and also when they change under a process that claims
\* nothing.
Kept(q) ==
  /\ pc'[q] = pc[q] /\ age'[q] = age[q] /\ reply'[q] = reply[q]
  /\ derived'[q] = derived[q] /\ leader'[q] = leader[q]
  /\ needsRederive'[q] = needsRederive[q] /\ tip'[q] = tip[q]
  /\ turn'[q] = turn[q] /\ turnAge'[q] = turnAge[q]

LEMMA KeptKeeps ==
  ASSUME NEW q \in Procs, Punctual(q), Held(q), Knows(q), Kept(q),
         \/ lease' = lease /\ chain' = chain
         \/ ~leader[q] /\ turn[q] = None /\ ~(pc[q] = "answer" /\ reply[q])
  PROVE  Punctual(q)' /\ Held(q)' /\ Knows(q)'
<1>1. Punctual(q)'
  BY DEF Punctual, Kept
<1>2. CASE lease' = lease /\ chain' = chain
  <2>1. Held(q)'
    BY <1>2 DEF Held, Lives, Kept
  <2>2. Knows(q)'
    BY <1>2 DEF Knows, Own, Kept, chain
  <2> QED BY <1>1, <2>1, <2>2
<1>3. CASE ~leader[q] /\ turn[q] = None /\ ~(pc[q] = "answer" /\ reply[q])
  <2>1. Held(q)'
    BY <1>3 DEF Held, Kept
  <2>2. derived[q] = None
    BY <1>3 DEF Knows, Punctual
  <2>3. Knows(q)'
    BY <1>3, <2>2 DEF Knows, Kept
  <2> QED BY <1>1, <2>1, <2>3
<1> QED BY <1>2, <1>3

(***************************************************************************)
(* The type.                                                               *)
(***************************************************************************)
LEMMA TypeStep == ASSUME Timely, IInv, [Next]_vars PROVE TypeOK'
<1> USE DEF TypeOK, Gens, None
<1> TypeOK
  BY DEF IInv
<1>0. /\ \A p \in Procs : TTL(p) \in Nat /\ Skew[p] \in Int
      /\ MaxGen \in Nat /\ LongExpired \in Int
  BY Bounds
<1>1. CASE Tick
  BY <1>0, <1>1 DEF Tick, chain, memory
<1>2. ASSUME NEW p \in Procs, Start(p) PROVE TypeOK'
  BY <1>2 DEF Start, Goes, chain, flight
<1>3. ASSUME NEW p \in Procs, Renewal(p) PROVE TypeOK'
  <2>1. CASE Ask(p)
    BY <2>1 DEF Ask, Goes, chain, memory, flight
  <2>2. CASE AcquireLease(p)
    <3>1. Takeable(p) \in BOOLEAN
      BY DEF Takeable
    <3>2. lease' \in [owner : Procs \cup {Nobody}, left : Int]
      BY <1>0, <2>2 DEF AcquireLease
    <3> QED BY <2>2, <3>1, <3>2 DEF AcquireLease, Goes, chain, memory, flight
  <2>3. CASE Hear(p)
    BY <2>3 DEF Hear, SetLeader, Forgets, Goes, chain, flight
  <2>4. CASE HearNothing(p)
    BY <2>4 DEF HearNothing, SetLeader, Forgets, Goes, chain, flight
  <2>5. CASE DeriveRead(p)
    BY <2>5 DEF DeriveRead, chain, memory, flight
  <2>6. CASE DeriveApply(p)
    BY <2>6 DEF DeriveApply, Goes, chain, flight
  <2>7. CASE DeriveFails(p)
    BY <2>7 DEF DeriveFails, Goes, chain, memory, flight
  <2>8. CASE ToolHears(p)
    BY <2>8 DEF ToolHears, Forgets, Goes, chain, flight
  <2>9. CASE ToolDerives(p)
    BY <2>9 DEF ToolDerives, chain, renewal, flight
  <2> QED BY <1>3, <2>1, <2>2, <2>3, <2>4, <2>5, <2>6, <2>7, <2>8, <2>9 DEF Renewal
<1>4. ASSUME NEW p \in Procs, Work(p) PROVE TypeOK'
  <2>1. CASE TakeTurn(p)
    BY <2>1 DEF TakeTurn, chain, renewal, memory
  <2>2. CASE Spend(p)
    <3>1. turn[p] \in Gens /\ turn[p] < MaxGen
      BY <2>2 DEF Spend, EndTurn, IInv, Knows
    <3>2. turn' \in [Procs -> Gens \cup {None}] /\ turnAge' \in [Procs -> Nat]
      BY <2>2 DEF Spend, EndTurn
    <3>3. tip' \in [Procs -> Gens]
      BY <1>0, <2>2, <3>1 DEF Spend
    <3>4. head' \in Gens /\ by' \in [Gens -> Procs \cup {Nobody}]
      <4>1. CASE turn[p] = head
        <5>1. head + 1 \in Gens /\ head' = head + 1
          BY <1>0, <2>2, <3>1, <4>1 DEF Spend
        <5>2. by' = [by EXCEPT ![head + 1] = p]
          BY <2>2, <4>1 DEF Spend
        <5> QED BY <5>1, <5>2
      <4>2. CASE turn[p] # head
        BY <2>2, <4>2 DEF Spend, chain
      <4> QED BY <4>1, <4>2
    <3> QED BY <2>2, <3>2, <3>3, <3>4 DEF Spend, renewal
  <2>3. CASE Abandon(p)
    BY <2>3 DEF Abandon, EndTurn, chain, renewal, memory
  <2> QED BY <1>4, <2>1, <2>2, <2>3 DEF Work
<1>5. ASSUME NEW p \in Procs, Crash(p) PROVE TypeOK'
  BY <1>0, <1>5 DEF Crash, Gone, Goes, Forgets, chain
<1>6. ASSUME NEW p \in Procs, Stop(p) PROVE TypeOK'
  BY <1>0, <1>6 DEF Stop, Gone, Goes, Forgets, chain, flight
<1>7. CASE UNCHANGED vars
  BY <1>7 DEF vars
<1> QED BY <1>1, <1>2, <1>3, <1>4, <1>5, <1>6, <1>7 DEF Next

(***************************************************************************)
(* The steps.                                                              *)
(***************************************************************************)
Good(q) == Punctual(q) /\ Held(q) /\ Knows(q)

LEMMA TickStep ==
  ASSUME Timely, IInv, Tick, TypeOK' PROVE \A q \in Procs : Good(q)'
<1> TAKE q \in Procs
<1>0. Punctual(q) /\ Held(q) /\ Knows(q) /\ TypeOK
  BY DEF IInv
<1>1. /\ age[q] \in Nat /\ turnAge[q] \in Nat /\ lease.left \in Int
      /\ lease.owner' = lease.owner /\ lease.left - 1 <= lease.left'
      /\ lease'.left \in Int
      /\ pc[q] = "down" \/ age'[q] = age[q] + 1
      /\ turn[q] = None \/ turnAge'[q] = turnAge[q] + 1
      /\ UNCHANGED <<pc, reply, leader, turn, derived, needsRederive, tip, head, by>>
  BY <1>0, Bounds DEF Tick, TypeOK, chain, memory
<1>2. Patient(q)
  BY DEF Tick
<1>3. Punctual(q)'
  BY <1>0, <1>1, <1>2, Bounds DEF Punctual, Patient
<1>4. Held(q)'
  <2>1. Skew[q] \in Int /\ TTL(q) \in Nat /\ Round(q) \in Nat /\ MaxCall \in Nat
    BY Bounds
  <2>2. pc[q] = "answer" /\ reply[q] => Lives(q, age[q])'
    BY <1>0, <1>1, <2>1 DEF Held, Lives
  <2>3. leader[q] /\ pc[q] \in {"derive", "wait"} => Lives(q, age[q])'
    BY <1>0, <1>1, <2>1 DEF Held, Lives
  <2>4. leader[q] /\ pc[q] = "ask" => Lives(q, Round(q) + age[q])'
    BY <1>0, <1>1, <2>1 DEF Held, Lives
  <2>5. turn[q] # None => Lives(q, Round(q) + MaxCall + turnAge[q])'
    BY <1>0, <1>1, <2>1 DEF Held, Lives
  <2> QED BY <1>1, <2>2, <2>3, <2>4, <2>5 DEF Held
<1>5. Knows(q)'
  BY <1>0, <1>1 DEF Knows, Own
<1> QED BY <1>3, <1>4, <1>5 DEF Good

\* A process that comes up claims nothing.
LEMMA StartStep ==
  ASSUME Timely, Orderly, IInv, NEW p \in Procs, Start(p), TypeOK' PROVE \A q \in Procs : Good(q)'
<1>0. TypeOK /\ Punctual(p) /\ Held(p) /\ Knows(p)
  BY DEF IInv
<1>8. Good(p)'
  <2>1. Punctual(p)'
    BY <1>0, Bounds DEF Start, Goes, chain, flight, Punctual, TypeOK
  <2>2. Held(p)'
    BY <1>0, Bounds DEF Start, Goes, chain, flight, Held, Lives, Punctual, TypeOK
  <2>3. Knows(p)'
    BY <1>0, Bounds DEF Start, Goes, chain, flight, Knows, Own, Punctual, TypeOK, Gens, None
  <2> QED BY <2>1, <2>2, <2>3 DEF Good
<1>9. ASSUME NEW q \in Procs, q # p PROVE Good(q)'
  <2>1. Kept(q)
    BY <1>0, <1>9 DEF Start, Goes, chain, flight, Kept, TypeOK
  <2>2. Punctual(q) /\ Held(q) /\ Knows(q)
    BY DEF IInv
  <2>3. lease' = lease /\ chain' = chain
    BY DEF Start, Goes, chain, flight, chain
  <2> QED BY <2>1, <2>2, <2>3, KeptKeeps DEF Good
<1> QED BY <1>8, <1>9

\* The wait is over within the round.
LEMMA AskStep ==
  ASSUME Timely, Orderly, IInv, NEW p \in Procs, Ask(p), TypeOK' PROVE \A q \in Procs : Good(q)'
<1>0. TypeOK /\ Punctual(p) /\ Held(p) /\ Knows(p)
  BY DEF IInv
<1>8. Good(p)'
  <2>1. Punctual(p)'
    BY <1>0, Bounds DEF Ask, Goes, chain, memory, flight, Punctual, TypeOK
  <2>2. Held(p)'
    BY <1>0, Bounds DEF Ask, Goes, chain, memory, flight, Held, Lives, Punctual, TypeOK
  <2>3. Knows(p)'
    BY <1>0, Bounds DEF Ask, Goes, chain, memory, flight, Knows, Own, Punctual, TypeOK, Gens, None
  <2> QED BY <2>1, <2>2, <2>3 DEF Good
<1>9. ASSUME NEW q \in Procs, q # p PROVE Good(q)'
  <2>1. Kept(q)
    BY <1>0, <1>9 DEF Ask, Goes, chain, memory, flight, Kept, TypeOK
  <2>2. Punctual(q) /\ Held(q) /\ Knows(q)
    BY DEF IInv
  <2>3. lease' = lease /\ chain' = chain
    BY DEF Ask, Goes, chain, memory, flight, chain
  <2> QED BY <2>1, <2>2, <2>3, KeptKeeps DEF Good
<1> QED BY <1>8, <1>9

\* An answer becomes a belief.
LEMMA HearStep ==
  ASSUME Timely, Orderly, IInv, NEW p \in Procs, Hear(p), TypeOK' PROVE \A q \in Procs : Good(q)'
<1>0. TypeOK /\ Punctual(p) /\ Held(p) /\ Knows(p)
  BY DEF IInv
<1>8. Good(p)'
  <2>1. Punctual(p)'
    BY <1>0, Bounds DEF Hear, SetLeader, Forgets, Goes, chain, flight, Punctual, TypeOK
  <2>2. Held(p)'
    BY <1>0, Bounds DEF Hear, SetLeader, Forgets, Goes, chain, flight, Held, Lives, Punctual, TypeOK
  <2>3. Knows(p)'
    BY <1>0, Bounds DEF Hear, SetLeader, Forgets, Goes, chain, flight, Knows, Own, Punctual, TypeOK, Gens, None
  <2> QED BY <2>1, <2>2, <2>3 DEF Good
<1>9. ASSUME NEW q \in Procs, q # p PROVE Good(q)'
  <2>1. Kept(q)
    BY <1>0, <1>9 DEF Hear, SetLeader, Forgets, Goes, chain, flight, Kept, TypeOK
  <2>2. Punctual(q) /\ Held(q) /\ Knows(q)
    BY DEF IInv
  <2>3. lease' = lease /\ chain' = chain
    BY DEF Hear, SetLeader, Forgets, Goes, chain, flight, chain
  <2> QED BY <2>1, <2>2, <2>3, KeptKeeps DEF Good
<1> QED BY <1>8, <1>9

\* A belief given up leaves a transition in flight to its own bound.
LEMMA HearNothingStep ==
  ASSUME Timely, Orderly, IInv, NEW p \in Procs, HearNothing(p), TypeOK' PROVE \A q \in Procs : Good(q)'
<1>0. TypeOK /\ Punctual(p) /\ Held(p) /\ Knows(p)
  BY DEF IInv
<1>8. Good(p)'
  <2>1. Punctual(p)'
    BY <1>0, Bounds, LeaseAssumption DEF HearNothing, SetLeader, Forgets, Goes, chain, flight, Punctual, TypeOK
  <2>2. Held(p)'
    BY <1>0, Bounds DEF HearNothing, SetLeader, Forgets, Goes, chain, flight, Held, Lives, Punctual, TypeOK
  <2>3. Knows(p)'
    BY <1>0, Bounds DEF HearNothing, SetLeader, Forgets, Goes, chain, flight, Knows, Own, Punctual, TypeOK, Gens, None
  <2> QED BY <2>1, <2>2, <2>3 DEF Good
<1>9. ASSUME NEW q \in Procs, q # p PROVE Good(q)'
  <2>1. Kept(q)
    BY <1>0, <1>9 DEF HearNothing, SetLeader, Forgets, Goes, chain, flight, Kept, TypeOK
  <2>2. Punctual(q) /\ Held(q) /\ Knows(q)
    BY DEF IInv
  <2>3. lease' = lease /\ chain' = chain
    BY DEF HearNothing, SetLeader, Forgets, Goes, chain, flight, chain
  <2> QED BY <2>1, <2>2, <2>3, KeptKeeps DEF Good
<1> QED BY <1>8, <1>9

\* A derivation reads while its process leads.
LEMMA DeriveReadStep ==
  ASSUME Timely, Orderly, IInv, NEW p \in Procs, DeriveRead(p), TypeOK' PROVE \A q \in Procs : Good(q)'
<1>0. TypeOK /\ Punctual(p) /\ Held(p) /\ Knows(p)
  BY DEF IInv
<1>8. Good(p)'
  <2>1. Punctual(p)'
    BY <1>0, Bounds DEF DeriveRead, chain, memory, flight, Punctual, TypeOK
  <2>2. Held(p)'
    BY <1>0, Bounds DEF DeriveRead, chain, memory, flight, Held, Lives, Punctual, TypeOK
  <2>3. Knows(p)'
    BY <1>0, Bounds DEF DeriveRead, chain, memory, flight, Knows, Own, Punctual, TypeOK, Gens, None
  <2> QED BY <2>1, <2>2, <2>3 DEF Good
<1>9. ASSUME NEW q \in Procs, q # p PROVE Good(q)'
  <2>1. Kept(q)
    BY <1>0, <1>9 DEF DeriveRead, chain, memory, flight, Kept, TypeOK
  <2>2. Punctual(q) /\ Held(q) /\ Knows(q)
    BY DEF IInv
  <2>3. lease' = lease /\ chain' = chain
    BY DEF DeriveRead, chain, memory, flight, chain
  <2> QED BY <2>1, <2>2, <2>3, KeptKeeps DEF Good
<1> QED BY <1>8, <1>9

\* ... so that what it read is current when it is installed.
LEMMA DeriveApplyStep ==
  ASSUME Timely, Orderly, IInv, NEW p \in Procs, DeriveApply(p), TypeOK' PROVE \A q \in Procs : Good(q)'
<1>0. TypeOK /\ Punctual(p) /\ Held(p) /\ Knows(p)
  BY DEF IInv
<1>8. Good(p)'
  <2>1. Punctual(p)'
    BY <1>0, Bounds DEF DeriveApply, Goes, chain, flight, Punctual, TypeOK
  <2>2. Held(p)'
    BY <1>0, Bounds DEF DeriveApply, Goes, chain, flight, Held, Lives, Punctual, TypeOK
  <2>3. Knows(p)'
    BY <1>0, Bounds DEF DeriveApply, Goes, chain, flight, Knows, Own, Punctual, TypeOK, Gens, None
  <2> QED BY <2>1, <2>2, <2>3 DEF Good
<1>9. ASSUME NEW q \in Procs, q # p PROVE Good(q)'
  <2>1. Kept(q)
    BY <1>0, <1>9 DEF DeriveApply, Goes, chain, flight, Kept, TypeOK
  <2>2. Punctual(q) /\ Held(q) /\ Knows(q)
    BY DEF IInv
  <2>3. lease' = lease /\ chain' = chain
    BY DEF DeriveApply, Goes, chain, flight, chain
  <2> QED BY <2>1, <2>2, <2>3, KeptKeeps DEF Good
<1> QED BY <1>8, <1>9

\* A failed derivation leaves it owed.
LEMMA DeriveFailsStep ==
  ASSUME Timely, Orderly, IInv, NEW p \in Procs, DeriveFails(p), TypeOK' PROVE \A q \in Procs : Good(q)'
<1>0. TypeOK /\ Punctual(p) /\ Held(p) /\ Knows(p)
  BY DEF IInv
<1>8. Good(p)'
  <2>1. Punctual(p)'
    BY <1>0, Bounds DEF DeriveFails, Goes, chain, memory, flight, Punctual, TypeOK
  <2>2. Held(p)'
    BY <1>0, Bounds DEF DeriveFails, Goes, chain, memory, flight, Held, Lives, Punctual, TypeOK
  <2>3. Knows(p)'
    BY <1>0, Bounds DEF DeriveFails, Goes, chain, memory, flight, Knows, Own, Punctual, TypeOK, Gens, None
  <2> QED BY <2>1, <2>2, <2>3 DEF Good
<1>9. ASSUME NEW q \in Procs, q # p PROVE Good(q)'
  <2>1. Kept(q)
    BY <1>0, <1>9 DEF DeriveFails, Goes, chain, memory, flight, Kept, TypeOK
  <2>2. Punctual(q) /\ Held(q) /\ Knows(q)
    BY DEF IInv
  <2>3. lease' = lease /\ chain' = chain
    BY DEF DeriveFails, Goes, chain, memory, flight, chain
  <2> QED BY <2>1, <2>2, <2>3, KeptKeeps DEF Good
<1> QED BY <1>8, <1>9

\* A tool that hears of its renewals.
LEMMA ToolHearsStep ==
  ASSUME Timely, Orderly, IInv, NEW p \in Procs, ToolHears(p), TypeOK' PROVE \A q \in Procs : Good(q)'
<1>0. TypeOK /\ Punctual(p) /\ Held(p) /\ Knows(p)
  BY DEF IInv
<1>8. Good(p)'
  <2>1. Punctual(p)'
    BY <1>0, Bounds, LeaseAssumption DEF ToolHears, Orderly, Forgets, Goes, chain, flight, Punctual, TypeOK
  <2>2. Held(p)'
    BY <1>0, Bounds, LeaseAssumption DEF ToolHears, Orderly, Forgets, Goes, chain, flight, Held, Lives, Punctual, TypeOK
  <2>3. Knows(p)'
    BY <1>0, Bounds, LeaseAssumption DEF ToolHears, Orderly, Forgets, Goes, chain, flight, Knows, Own, Punctual, TypeOK, Gens, None
  <2> QED BY <2>1, <2>2, <2>3 DEF Good
<1>9. ASSUME NEW q \in Procs, q # p PROVE Good(q)'
  <2>1. Kept(q)
    BY <1>0, <1>9 DEF ToolHears, Orderly, Forgets, Goes, chain, flight, Kept, TypeOK
  <2>2. Punctual(q) /\ Held(q) /\ Knows(q)
    BY DEF IInv
  <2>3. lease' = lease /\ chain' = chain
    BY DEF ToolHears, Orderly, Forgets, Goes, chain, flight, chain
  <2> QED BY <2>1, <2>2, <2>3, KeptKeeps DEF Good
<1> QED BY <1>8, <1>9

\* A tool derives under its lease.
LEMMA ToolDerivesStep ==
  ASSUME Timely, Orderly, IInv, NEW p \in Procs, ToolDerives(p), TypeOK' PROVE \A q \in Procs : Good(q)'
<1>0. TypeOK /\ Punctual(p) /\ Held(p) /\ Knows(p)
  BY DEF IInv
<1>8. Good(p)'
  <2>1. Punctual(p)'
    BY <1>0, Bounds DEF ToolDerives, chain, renewal, flight, Punctual, TypeOK
  <2>2. Held(p)'
    BY <1>0, Bounds DEF ToolDerives, chain, renewal, flight, Held, Lives, Punctual, TypeOK
  <2>3. Knows(p)'
    BY <1>0, Bounds DEF ToolDerives, chain, renewal, flight, Knows, Own, Punctual, TypeOK, Gens, None
  <2> QED BY <2>1, <2>2, <2>3 DEF Good
<1>9. ASSUME NEW q \in Procs, q # p PROVE Good(q)'
  <2>1. Kept(q)
    BY <1>0, <1>9 DEF ToolDerives, chain, renewal, flight, Kept, TypeOK
  <2>2. Punctual(q) /\ Held(q) /\ Knows(q)
    BY DEF IInv
  <2>3. lease' = lease /\ chain' = chain
    BY DEF ToolDerives, chain, renewal, flight, chain
  <2> QED BY <2>1, <2>2, <2>3, KeptKeeps DEF Good
<1> QED BY <1>8, <1>9

\* A transition begins with what the belief has left.
LEMMA TakeTurnStep ==
  ASSUME Timely, Orderly, IInv, NEW p \in Procs, TakeTurn(p), TypeOK' PROVE \A q \in Procs : Good(q)'
<1>0. TypeOK /\ Punctual(p) /\ Held(p) /\ Knows(p)
  BY DEF IInv
<1>8. Good(p)'
  <2>1. Punctual(p)'
    BY <1>0, Bounds DEF TakeTurn, chain, renewal, memory, Punctual, TypeOK
  <2>2. Held(p)'
    BY <1>0, Bounds DEF TakeTurn, chain, renewal, memory, Held, Lives, Punctual, TypeOK
  <2>3. Knows(p)'
    BY <1>0, Bounds DEF TakeTurn, chain, renewal, memory, Knows, Own, Punctual, TypeOK, Gens, None
  <2> QED BY <2>1, <2>2, <2>3 DEF Good
<1>9. ASSUME NEW q \in Procs, q # p PROVE Good(q)'
  <2>1. Kept(q)
    BY <1>0, <1>9 DEF TakeTurn, chain, renewal, memory, Kept, TypeOK
  <2>2. Punctual(q) /\ Held(q) /\ Knows(q)
    BY DEF IInv
  <2>3. lease' = lease /\ chain' = chain
    BY DEF TakeTurn, chain, renewal, memory, chain
  <2> QED BY <2>1, <2>2, <2>3, KeptKeeps DEF Good
<1> QED BY <1>8, <1>9

\* It ends off the chain.
LEMMA AbandonStep ==
  ASSUME Timely, Orderly, IInv, NEW p \in Procs, Abandon(p), TypeOK' PROVE \A q \in Procs : Good(q)'
<1>0. TypeOK /\ Punctual(p) /\ Held(p) /\ Knows(p)
  BY DEF IInv
<1>8. Good(p)'
  <2>1. Punctual(p)'
    BY <1>0, Bounds DEF Abandon, EndTurn, chain, renewal, memory, Punctual, TypeOK
  <2>2. Held(p)'
    BY <1>0, Bounds DEF Abandon, EndTurn, chain, renewal, memory, Held, Lives, Punctual, TypeOK
  <2>3. Knows(p)'
    BY <1>0, Bounds DEF Abandon, EndTurn, chain, renewal, memory, Knows, Own, Punctual, TypeOK, Gens, None
  <2> QED BY <2>1, <2>2, <2>3 DEF Good
<1>9. ASSUME NEW q \in Procs, q # p PROVE Good(q)'
  <2>1. Kept(q)
    BY <1>0, <1>9 DEF Abandon, EndTurn, chain, renewal, memory, Kept, TypeOK
  <2>2. Punctual(q) /\ Held(q) /\ Knows(q)
    BY DEF IInv
  <2>3. lease' = lease /\ chain' = chain
    BY DEF Abandon, EndTurn, chain, renewal, memory, chain
  <2> QED BY <2>1, <2>2, <2>3, KeptKeeps DEF Good
<1> QED BY <1>8, <1>9

\* The statement runs: nobody who claims the row loses it.
LEMMA AcquireLeaseStep ==
  ASSUME Timely, Orderly, IInv, NEW p \in Procs, AcquireLease(p), TypeOK' PROVE \A q \in Procs : Good(q)'
<1>0. TypeOK /\ Punctual(p) /\ Held(p) /\ Knows(p)
  BY DEF IInv
<1>8. Good(p)'
  <2>1. Punctual(p)'
    <3>1. leader[p] => Takeable(p)
      <4>1. leader[p] => lease.owner = p
        BY <1>0, ClaimHolds DEF Claims, Writer
      <4> QED BY <4>1 DEF Takeable
    <3> QED BY <1>0, <3>1, Bounds DEF AcquireLease, Goes, chain, memory, flight, Punctual, TypeOK
  <2>2. Held(p)'
    BY <1>0, Bounds DEF AcquireLease, Goes, chain, memory, flight, Held, Lives, Punctual, TypeOK
  <2>3. Knows(p)'
    BY <1>0, Bounds DEF AcquireLease, Goes, chain, memory, flight, Knows, Own, Punctual, TypeOK, Gens, None
  <2> QED BY <2>1, <2>2, <2>3 DEF Good
<1>9. ASSUME NEW q \in Procs, q # p PROVE Good(q)'
  <2>1. Kept(q)
    BY <1>0, <1>9 DEF AcquireLease, Goes, chain, memory, flight, Kept, TypeOK
  <2>2. Punctual(q) /\ Held(q) /\ Knows(q)
    BY DEF IInv
  <2>3. CASE Takeable(p)
    <3>1. ~Claims(q)
      BY <1>9, <2>3, ClaimsExclude
    <3> QED BY <2>1, <2>2, <3>1, KeptKeeps DEF Good, Claims, Writer
  <2>4. CASE ~Takeable(p)
    <3>1. lease' = lease /\ chain' = chain
      BY <2>4 DEF AcquireLease, chain
    <3> QED BY <2>1, <2>2, <3>1, KeptKeeps DEF Good
  <2> QED BY <2>3, <2>4
<1> QED BY <1>8, <1>9

\* It ends on the chain, whose newest generations are then still its own.
LEMMA SpendStep ==
  ASSUME Timely, Orderly, IInv, NEW p \in Procs, Spend(p), TypeOK' PROVE \A q \in Procs : Good(q)'
<1>0. TypeOK /\ Punctual(p) /\ Held(p) /\ Knows(p)
  BY DEF IInv
<1>8. Good(p)'
  <2>1. Punctual(p)'
    BY <1>0, Bounds DEF Spend, EndTurn, chain, renewal, Punctual, TypeOK
  <2>2. Held(p)'
    BY <1>0, Bounds DEF Spend, EndTurn, chain, renewal, Held, Lives, Punctual, TypeOK
  <2>3. Knows(p)'
    <3>1. /\ turn[p] \in Nat /\ head \in Nat /\ Own(p, turn[p]) /\ turn'[p] = None
          /\ tip'[p] = turn[p] + 1 /\ derived' = derived /\ pc' = pc
      BY <1>0, Bounds DEF Spend, EndTurn, renewal, Knows, TypeOK, Gens, None
    <3>2. \A g \in Nat : Own(p, g) => Own(p, g)'
      <4>1. CASE turn[p] = head
        <5>1. head' = head + 1 /\ \A n \in Gens : by'[n] = IF n = head + 1 THEN p ELSE by[n]
          BY <1>0, <4>1 DEF Spend, TypeOK
        <5> QED BY <3>1, <5>1, Bounds DEF Own, Gens
      <4>2. CASE turn[p] # head
        BY <4>2 DEF Spend, chain, Own
      <4> QED BY <4>1, <4>2
    <3>3. PICK g \in Nat : g = turn[p]
      BY <3>1
    <3>4. Own(p, g + 1)'
      <4>1. g + 1 <= head'
        <5>1. CASE turn[p] = head
          BY <3>1, <3>3, <5>1 DEF Spend
        <5>2. CASE turn[p] # head
          BY <3>1, <3>3, <5>2 DEF Spend, chain, Own
        <5> QED BY <5>1, <5>2
      <4>2. Own(p, g)'
        BY <3>1, <3>2, <3>3
      <4>3. ASSUME NEW n \in Gens, g + 1 < n, n <= head' PROVE by'[n] = p
        BY <4>2, <4>3, Bounds DEF Own, Gens
      <4> QED BY <4>1, <4>3 DEF Own
    <3>5. derived[p] # None => pc'[p] = "derive" /\ Own(p, derived[p])'
      <4> SUFFICES ASSUME derived[p] # None
                   PROVE  pc'[p] = "derive" /\ Own(p, derived[p])'
        OBVIOUS
      <4>1. pc[p] = "derive" /\ Own(p, derived[p]) /\ derived[p] \in Nat
        BY <1>0, Bounds DEF Knows, TypeOK, Gens
      <4>2. PICK d \in Nat : d = derived[p]
        BY <4>1
      <4>3. Own(p, d)'
        BY <3>2, <4>1, <4>2
      <4> QED BY <3>1, <4>1, <4>2, <4>3 DEF Own
    <3>6. tip'[p] = g + 1 /\ derived'[p] = derived[p] /\ turn'[p] = None
      BY <3>1, <3>3
    <3> QED BY <3>4, <3>5, <3>6 DEF Knows
  <2> QED BY <2>1, <2>2, <2>3 DEF Good
<1>9. ASSUME NEW q \in Procs, q # p PROVE Good(q)'
  <2>1. Kept(q)
    BY <1>0, <1>9 DEF Spend, EndTurn, chain, renewal, Kept, TypeOK
  <2>2. Punctual(q) /\ Held(q) /\ Knows(q)
    BY DEF IInv
  <2>3. Claims(p)
    BY DEF Spend, EndTurn, Claims, Writer
  <2> QED BY <1>9, <2>1, <2>2, <2>3, ClaimsExclude, KeptKeeps DEF Good
<1> QED BY <1>8, <1>9

\* A dead process claims nothing; its row lives on.
LEMMA CrashStep ==
  ASSUME Timely, Orderly, IInv, NEW p \in Procs, Crash(p), TypeOK' PROVE \A q \in Procs : Good(q)'
<1>0. TypeOK /\ Punctual(p) /\ Held(p) /\ Knows(p)
  BY DEF IInv
<1>8. Good(p)'
  <2>1. Punctual(p)'
    BY <1>0, Bounds DEF Crash, Gone, Goes, Forgets, chain, Punctual, TypeOK
  <2>2. Held(p)'
    BY <1>0, Bounds DEF Crash, Gone, Goes, Forgets, chain, Held, Lives, Punctual, TypeOK
  <2>3. Knows(p)'
    BY <1>0, Bounds DEF Crash, Gone, Goes, Forgets, chain, Knows, Own, Punctual, TypeOK, Gens, None
  <2> QED BY <2>1, <2>2, <2>3 DEF Good
<1>9. ASSUME NEW q \in Procs, q # p PROVE Good(q)'
  <2>1. Kept(q)
    BY <1>0, <1>9 DEF Crash, Gone, Goes, Forgets, chain, Kept, TypeOK
  <2>2. Punctual(q) /\ Held(q) /\ Knows(q)
    BY DEF IInv
  <2>3. lease' = lease /\ chain' = chain
    BY DEF Crash, Gone, Goes, Forgets, chain, chain
  <2> QED BY <2>1, <2>2, <2>3, KeptKeeps DEF Good
<1> QED BY <1>8, <1>9

\* Only a process that leads gives up the row, and only its own.
LEMMA StopStep ==
  ASSUME Timely, Orderly, IInv, NEW p \in Procs, Stop(p), TypeOK' PROVE \A q \in Procs : Good(q)'
<1>0. TypeOK /\ Punctual(p) /\ Held(p) /\ Knows(p)
  BY DEF IInv
<1>8. Good(p)'
  <2>1. Punctual(p)'
    BY <1>0, Bounds DEF Stop, Gone, Orderly, Goes, Forgets, chain, flight, Punctual, TypeOK
  <2>2. Held(p)'
    BY <1>0, Bounds DEF Stop, Gone, Orderly, Goes, Forgets, chain, flight, Held, Lives, Punctual, TypeOK
  <2>3. Knows(p)'
    BY <1>0, Bounds DEF Stop, Gone, Orderly, Goes, Forgets, chain, flight, Knows, Own, Punctual, TypeOK, Gens, None
  <2> QED BY <2>1, <2>2, <2>3 DEF Good
<1>9. ASSUME NEW q \in Procs, q # p PROVE Good(q)'
  <2>1. Kept(q)
    BY <1>0, <1>9 DEF Stop, Gone, Orderly, Goes, Forgets, chain, flight, Kept, TypeOK
  <2>2. Punctual(q) /\ Held(q) /\ Knows(q)
    BY DEF IInv
  <2>3. CASE leader[p]
    <3>1. Claims(p)
      BY <2>3 DEF Claims, Writer
    <3> QED BY <1>9, <2>1, <2>2, <3>1, ClaimsExclude, KeptKeeps DEF Good
  <2>4. CASE ~leader[p]
    <3>1. lease' = lease /\ chain' = chain
      BY <1>0, <2>4 DEF Stop, Gone, TypeOK, chain
    <3> QED BY <2>1, <2>2, <3>1, KeptKeeps DEF Good
  <2> QED BY <2>3, <2>4
<1> QED BY <1>8, <1>9

-----------------------------------------------------------------------------
(***************************************************************************)
(* The theorems.                                                           *)
(***************************************************************************)
LEMMA InitIInv == ASSUME Timely, Init PROVE IInv
<1>1. TypeOK
  BY Bounds DEF Init, TypeOK, Gens, None
<1>2. ASSUME NEW p \in Procs PROVE Good(p)
  BY Bounds DEF Init, Good, Punctual, Held, Knows, None
<1> QED BY <1>1, <1>2 DEF IInv, Good

LEMMA NextIInv == ASSUME Timely, Orderly, IInv, [Next]_vars PROVE IInv'
<1>1. TypeOK'
  BY TypeStep
<1>2. \A q \in Procs : Good(q)'
  <2>1. CASE Tick
    BY <1>1, <2>1, TickStep
  <2>2. CASE UNCHANGED vars
    <3>1. ASSUME NEW q \in Procs PROVE Good(q)'
      BY <2>2, KeptKeeps DEF vars, Kept, chain, IInv, Good
    <3> QED BY <3>1
  <2>3. ASSUME NEW p \in Procs, Renewal(p) PROVE \A q \in Procs : Good(q)'
    BY <1>1, <2>3, AskStep, AcquireLeaseStep, HearStep, HearNothingStep, DeriveReadStep,
       DeriveApplyStep, DeriveFailsStep, ToolHearsStep, ToolDerivesStep DEF Renewal
  <2>4. ASSUME NEW p \in Procs, Start(p) \/ Work(p) \/ Crash(p) \/ Stop(p)
        PROVE  \A q \in Procs : Good(q)'
    BY <1>1, <2>4, StartStep, TakeTurnStep, SpendStep, AbandonStep, CrashStep, StopStep DEF Work
  <2> QED BY <2>1, <2>2, <2>3, <2>4 DEF Next
<1> QED BY <1>1, <1>2 DEF IInv, Good

LEMMA IInvNoForeignSpend == ASSUME Timely, IInv PROVE NoForeignSpend
<1> SUFFICES ASSUME NEW p \in Procs, turn[p] # None, turn[p] # head
             PROVE  by[turn[p] + 1] = p
  BY DEF NoForeignSpend
<1>1. /\ turn[p] \in Gens /\ turn[p] < MaxGen /\ head \in Gens /\ Own(p, turn[p])
  BY DEF IInv, TypeOK, Knows
<1>2. turn[p] + 1 \in Gens /\ turn[p] < turn[p] + 1 /\ turn[p] + 1 <= head
  BY <1>1, Bounds DEF Own, Gens
<1> QED BY <1>1, <1>2 DEF Own

\* For any processes, clocks and timings that fit: at most one believes it is
\* the writer or has a transition in flight, through crashes, failed calls,
\* takeovers and handovers.
THEOREM OneWriterAlways == ASSUME Timely, Orderly PROVE Spec => []OneWriter
<1>1. Init => IInv
  BY InitIInv
<1>2. IInv /\ [Next]_vars => IInv'
  BY NextIInv
<1>3. IInv => OneWriter
  BY IInvOneWriter
<1> QED BY <1>1, <1>2, <1>3, PTL DEF Spec

\* And whoever leads has derived its tips since any other writer's last
\* transition: no output is spent that another process has spent.
THEOREM NoForeignSpendEver == ASSUME Timely, Orderly PROVE Spec => []NoForeignSpend
<1>1. Init => IInv
  BY InitIInv
<1>2. IInv /\ [Next]_vars => IInv'
  BY NextIInv
<1>3. IInv => NoForeignSpend
  BY IInvNoForeignSpend
<1> QED BY <1>1, <1>2, <1>3, PTL DEF Spec
=============================================================================
