----------------------------- MODULE Boot_proofs -----------------------------
(***************************************************************************)
(* One genesis to a record, for any number of processes, any sizes and any *)
(* number of failures.  What carries the argument is the lease: whoever is *)
(* in an attempt owns a live row, so nobody else is in one, and nobody     *)
(* records a genesis behind the back of a process that found none.         *)
(***************************************************************************)
EXTENDS Boot, TLAPS

Leading == {"funds", "fuel", "genesis", "create", "verify", "save"}
Minting == {"verify", "save"}
Unseen  == {"create", "verify", "save"}

Types ==
  /\ pc \in [Procs -> Stages]
  /\ tx \in [Procs -> Nat] /\ ring \in [Procs -> Nat]
  /\ record \in Nat /\ genesis \in Nat /\ lost \in Nat

OneLeads == \A p \in Procs : pc[p] \in Leading => owner = p /\ ~lapsed
FoundNone == \A p \in Procs : pc[p] \in Unseen => record = 0
Holds == \A p \in Procs : pc[p] \in Minting => tx[p] # 0
Runs == \A p \in Procs : pc[p] = "ready" => ring[p] = record /\ record # 0

BootInv ==
  /\ Types
  /\ OneLeads
  /\ FoundNone
  /\ Holds
  /\ Runs
  /\ MintsAccounted

LEMMA InitBoot == Init => BootInv
BY DEF Init, BootInv, Types, OneLeads, FoundNone, Holds, Runs, MintsAccounted,
       Pending, Stages, Leading, Minting, Unseen

-----------------------------------------------------------------------------
\* An action that moves one process between stages that hold no genesis, and
\* no data of the others, keeps the account.
LEMMA Quiet ==
  ASSUME BootInv, NEW p \in Procs, NEW stage \in Stages \ (Minting \cup {"ready"}),
         pc[p] \notin Minting,
         pc' = [pc EXCEPT ![p] = stage],
         stage \in Leading => owner' = p /\ ~lapsed',
         \A q \in Procs \ {p} : pc[q] \in Leading => owner' = q /\ ~lapsed',
         stage \in Unseen => record = 0,
         ring' \in [Procs -> Nat], \A q \in Procs \ {p} : ring'[q] = ring[q],
         UNCHANGED <<tx, record, genesis, lost>>
  PROVE  BootInv'
<1>1. Types'
  BY DEF BootInv, Types
<1>2. OneLeads'
  BY DEF BootInv, Types, OneLeads
<1>3. FoundNone'
  BY DEF BootInv, Types, FoundNone
<1>4. Holds'
  BY DEF BootInv, Types, Holds
<1>5. Runs'
  BY DEF BootInv, Types, Runs
<1>6. MintsAccounted'
  <2>1. Pending' = Pending
    BY DEF BootInv, Types, Pending, Minting
  <2> QED
    BY <2>1 DEF BootInv, MintsAccounted
<1> QED
  BY <1>1, <1>2, <1>3, <1>4, <1>5, <1>6 DEF BootInv

\* In an attempt a process is alone.
LEMMA Alone ==
  ASSUME BootInv, NEW p \in Procs, pc[p] \in Leading
  PROVE  /\ owner = p /\ ~lapsed
         /\ \A q \in Procs \ {p} : pc[q] \notin Leading
BY DEF BootInv, OneLeads

\* Whoever may acquire the row finds nobody else in an attempt.
LEMMA AcquiredAlone ==
  ASSUME BootInv, NEW p \in Procs, MayAcquire(p)
  PROVE  \A q \in Procs \ {p} : pc[q] \notin Leading
BY BootAssumption DEF BootAssumption, BootInv, OneLeads, MayAcquire

\* The actions that neither broadcast nor hold a genesis.
LEMMA QuietStep ==
  ASSUME BootInv, NEW p \in Procs,
         \/ Lead(p) \/ Funds(p) \/ FanOut(p) \/ FanOutShort(p)
         \/ FanOutFails(p) \/ CreateShort(p) \/ Fail(p)
  PROVE  BootInv'
<1> USE DEF At, Goes, Stages, Leading, Minting, Unseen, memory, lease, wallet, past
<1>0. Types /\ OneLeads
  BY DEF BootInv
<1>1. CASE Lead(p)
  <2>1. \A q \in Procs \ {p} : pc[q] \notin Leading
    BY <1>1, AcquiredAlone DEF Lead
  <2> QED
    BY <1>1, <1>0, <2>1, Quiet DEF Lead, Types
<1>2. CASE Funds(p)
  <2>1. pc[p] \in Leading
    BY <1>2 DEF Funds
  <2>2. owner = p /\ ~lapsed /\ \A q \in Procs \ {p} : pc[q] \notin Leading
    BY <2>1, Alone
  <2>3. \E stage \in {"poll", "fuel", "genesis"} : pc' = [pc EXCEPT ![p] = stage]
    BY <1>2 DEF Funds
  <2> QED
    BY <1>2, <1>0, <2>2, <2>3, Quiet DEF Funds, Types
<1>3. CASE FanOut(p)
  <2>1. pc[p] \in Leading
    BY <1>3 DEF FanOut
  <2>2. owner = p /\ ~lapsed /\ \A q \in Procs \ {p} : pc[q] \notin Leading
    BY <2>1, Alone
  <2>3. \E stage \in {"fuel", "genesis"} : pc' = [pc EXCEPT ![p] = stage]
    BY <1>3, <1>0 DEF FanOut, Types
  <2> QED
    BY <1>3, <1>0, <2>2, <2>3, Quiet DEF FanOut, Types
<1>4. CASE FanOutShort(p)
  <2>1. pc[p] \in Leading
    BY <1>4 DEF FanOutShort
  <2>2. owner = p /\ ~lapsed /\ \A q \in Procs \ {p} : pc[q] \notin Leading
    BY <2>1, Alone
  <2> QED
    BY <1>4, <1>0, <2>2, Quiet DEF FanOutShort, Types
<1>5. CASE CreateShort(p)
  <2>1. pc[p] \in Leading
    BY <1>5 DEF CreateShort
  <2>2. owner = p /\ ~lapsed /\ \A q \in Procs \ {p} : pc[q] \notin Leading
    BY <2>1, Alone
  <2> QED
    BY <1>5, <1>0, <2>2, Quiet DEF CreateShort, Types
<1>6. CASE Fail(p)
  <2>1. pc[p] \in Leading
    BY <1>6 DEF Fail
  <2>2. owner = p /\ ~lapsed /\ \A q \in Procs \ {p} : pc[q] \notin Leading
    BY <2>1, Alone
  <2> QED
    BY <1>6, <1>0, <2>2, Quiet DEF Fail, Types
<1>7. CASE FanOutFails(p)
  <2>1. pc[p] \in Leading
    BY <1>7 DEF FanOutFails
  <2>2. owner = p /\ ~lapsed /\ \A q \in Procs \ {p} : pc[q] \notin Leading
    BY <2>1, Alone
  <2> QED
    BY <1>7, <1>0, <2>2, Quiet DEF FanOutFails, Types
<1> QED
  BY <1>1, <1>2, <1>3, <1>4, <1>5, <1>6, <1>7

\* What goes on around the attempts.
LEMMA AroundStep ==
  ASSUME BootInv,
         \/ Lapse \/ Deposit \/ Monitor
         \/ \E p \in Procs : Renew(p) \/ Start(p) \/ Genesis(p) \/ Verify(p)
  PROVE  BootInv'
<1> USE DEF At, Goes, memory, lease, wallet, past, Stages, Leading, Minting, Unseen
<1>0. Types /\ OneLeads /\ FoundNone /\ Holds /\ Runs /\ MintsAccounted
  BY DEF BootInv
<1>1. ASSUME UNCHANGED <<pc, tx, ring, record, genesis, lost>>, OneLeads'
      PROVE  BootInv'
  BY <1>0, <1>1 DEF BootInv, Types, FoundNone, Holds, Runs, MintsAccounted, Pending
<1>2. CASE Lapse
  BY <1>0, <1>1, <1>2 DEF Lapse, OneLeads
<1>3. CASE Deposit \/ Monitor
  BY <1>0, <1>1, <1>3 DEF Deposit, Monitor, OneLeads
<1>4. ASSUME NEW p \in Procs, Renew(p) PROVE BootInv'
  <2>1. \A q \in Procs \ {p} : pc[q] \notin Leading
    BY <1>4, AcquiredAlone DEF Renew
  <2> QED
    BY <1>0, <1>1, <1>4, <2>1 DEF Renew, OneLeads
<1>5. ASSUME NEW p \in Procs, pc[p] \notin Minting, record # 0,
             pc' = [pc EXCEPT ![p] = "ready"],
             ring' = [ring EXCEPT ![p] = record],
             UNCHANGED <<tx, lease, record, genesis, lost>>
      PROVE  BootInv'
  <2>1. Types' /\ OneLeads' /\ FoundNone' /\ Holds' /\ Runs'
    BY <1>0, <1>5 DEF Types, OneLeads, FoundNone, Holds, Runs
  <2>2. Pending' = Pending
    BY <1>0, <1>5 DEF Types, Pending
  <2> QED
    BY <1>0, <1>5, <2>1, <2>2 DEF BootInv, MintsAccounted
<1>6. ASSUME NEW p \in Procs, Start(p) PROVE BootInv'
  <2>1. CASE record # 0
    BY <1>5, <1>6, <2>1 DEF Start
  <2>2. CASE record = 0
    BY <1>0, <1>6, <2>2, Quiet DEF Start, Types, OneLeads
  <2> QED
    BY <2>1, <2>2
<1>7. ASSUME NEW p \in Procs, Genesis(p) PROVE BootInv'
  <2>1. CASE record # 0
    BY <1>5, <1>7, <2>1 DEF Genesis, Refused
  <2>2. CASE record = 0
    BY <1>0, <1>7, <2>2, Quiet DEF Genesis, Refused, Types, OneLeads
  <2> QED
    BY <2>1, <2>2
<1>8. ASSUME NEW p \in Procs, Verify(p) PROVE BootInv'
  <2>1. Types' /\ OneLeads' /\ FoundNone' /\ Holds' /\ Runs'
    BY <1>0, <1>8 DEF Verify, Types, OneLeads, FoundNone, Holds, Runs
  <2>2. Pending' = Pending
    BY <1>0, <1>8 DEF Verify, Types, Pending
  <2> QED
    BY <1>0, <1>8, <2>1, <2>2 DEF BootInv, MintsAccounted, Verify
<1> QED
  BY <1>2, <1>3, <1>4, <1>6, <1>7, <1>8

-----------------------------------------------------------------------------
\* A genesis leaves a process's hands: it is recorded, or lost.
LEMMA Settles ==
  ASSUME BootInv, NEW p \in Procs, pc[p] \in Minting,
         NEW stage \in {"poll", "down", "ready"},
         pc' = [pc EXCEPT ![p] = stage]
  PROVE  /\ Pending # {} /\ Pending' = {}
         /\ \A q \in Procs : pc'[q] \notin Leading
<1>1. \A q \in Procs \ {p} : pc[q] \notin Leading
  BY Alone DEF Leading, Minting
<1> QED
  BY <1>1 DEF BootInv, Types, Pending, Leading, Minting, Stages

\* The broadcast of a genesis, and what becomes of it.
LEMMA GenesisStep ==
  ASSUME BootInv, NEW p \in Procs,
         \/ Create(p) \/ CreateFails(p) \/ SaveDeployment(p) \/ Unrecorded(p)
         \/ Crash(p)
  PROVE  BootInv'
<1> USE DEF At, Goes, memory, lease, wallet, past, Stages, Leading, Minting, Unseen
<1>0. Types /\ OneLeads /\ FoundNone /\ Holds /\ Runs /\ MintsAccounted
  BY DEF BootInv
<1>1. CASE Create(p)
  <2>1. \A q \in Procs \ {p} : pc[q] \notin Leading
    BY <1>1, Alone DEF Create
  <2>2. record = 0 /\ Pending = {}
    BY <1>0, <1>1, <2>1 DEF Create, FoundNone, Pending
  <2>3. Pending' = {p}
    BY <1>0, <1>1, <2>1 DEF Create, Types, Pending
  <2>4. Types' /\ OneLeads' /\ FoundNone' /\ Holds' /\ Runs'
    BY <1>0, <1>1, <2>1, <2>2
    DEF Create, Broadcast, Types, OneLeads, FoundNone, Holds, Runs
  <2> QED
    BY <1>0, <1>1, <2>2, <2>3, <2>4
    DEF Create, Broadcast, Types, BootInv, MintsAccounted
<1>2. CASE CreateFails(p)
  <2>1. Pending' = Pending
    BY <1>0, <1>2 DEF CreateFails, Types, Pending
  <2>2. Types' /\ OneLeads' /\ FoundNone' /\ Holds' /\ Runs'
    BY <1>0, <1>2
    DEF CreateFails, Broadcast, Types, OneLeads, FoundNone, Holds, Runs
  <2> QED
    BY <1>0, <1>2, <2>1, <2>2
    DEF CreateFails, Broadcast, Types, BootInv, MintsAccounted
<1>3. CASE SaveDeployment(p)
  <2>1. /\ Pending # {} /\ Pending' = {}
        /\ \A q \in Procs : pc'[q] \notin Leading
    BY <1>3, Settles DEF SaveDeployment
  <2>2. record = 0 /\ record' = tx[p] /\ tx[p] \in Nat \ {0}
    BY <1>0, <1>3 DEF SaveDeployment, Types, FoundNone, Holds
  <2>3. Types' /\ OneLeads' /\ FoundNone' /\ Holds' /\ Runs'
    BY <1>0, <1>3, <2>1, <2>2
    DEF SaveDeployment, Types, OneLeads, FoundNone, Holds, Runs
  <2> QED
    BY <1>0, <1>3, <2>1, <2>2, <2>3
    DEF SaveDeployment, Types, BootInv, MintsAccounted
<1>4. CASE Unrecorded(p)
  <2>1. /\ Pending # {} /\ Pending' = {}
        /\ \A q \in Procs : pc'[q] \notin Leading
    BY <1>4, Settles DEF Unrecorded
  <2>2. Types' /\ OneLeads' /\ FoundNone' /\ Holds' /\ Runs'
    BY <1>0, <1>4, <2>1
    DEF Unrecorded, Types, OneLeads, FoundNone, Holds, Runs
  <2> QED
    BY <1>0, <1>4, <2>1, <2>2
    DEF Unrecorded, Types, BootInv, MintsAccounted
<1>5. CASE Crash(p)
  <2>1. Types' /\ OneLeads' /\ FoundNone' /\ Holds' /\ Runs'
    BY <1>0, <1>5 DEF Crash, Types, OneLeads, FoundNone, Holds, Runs
  <2>2. CASE pc[p] \in Minting
    <3>1. Pending # {} /\ Pending' = {}
      BY <1>5, <2>2, Settles DEF Crash
    <3> QED
      BY <1>0, <1>5, <2>1, <2>2, <3>1
      DEF Crash, Types, BootInv, MintsAccounted
  <2>3. CASE pc[p] \notin Minting
    <3>1. Pending' = Pending
      BY <1>0, <1>5, <2>3 DEF Crash, Types, Pending
    <3> QED
      BY <1>0, <1>5, <2>1, <2>3, <3>1
      DEF Crash, Types, BootInv, MintsAccounted
  <2> QED
    BY <2>2, <2>3
<1> QED
  BY <1>1, <1>2, <1>3, <1>4, <1>5

LEMMA StepBoot == BootInv /\ [Next]_vars => BootInv'
<1> SUFFICES ASSUME BootInv, [Next]_vars PROVE BootInv'
  OBVIOUS
<1>1. CASE UNCHANGED vars
  BY <1>1 DEF vars, memory, lease, wallet, past, BootInv, Types, OneLeads,
              FoundNone, Holds, Runs, MintsAccounted, Pending
<1>2. CASE Next
  BY <1>2, QuietStep, AroundStep, GenesisStep DEF Next, Run, Disturb
<1> QED
  BY <1>1, <1>2

LEMMA BootAlways == Spec => []BootInv
BY InitBoot, StepBoot, PTL DEF Spec

-----------------------------------------------------------------------------
(***************************************************************************)
(* Every genesis that was broadcast is on record, in the hands of the one  *)
(* process in an attempt, or was lost to a failure between its broadcast   *)
(* and its record (Genesis and saveDeployment under the lease).            *)
(***************************************************************************)
THEOREM GenesisAccounted == Spec => []MintsAccounted
<1>1. BootInv => MintsAccounted
  BY DEF BootInv
<1> QED
  BY <1>1, BootAlways, PTL

(***************************************************************************)
(* No engine runs a ring other than the one on record, however many        *)
(* processes started before, during and after its genesis.                 *)
(***************************************************************************)
THEOREM EnginesAgree == Spec => []EnginesRunTheRecord
<1>1. BootInv => EnginesRunTheRecord
  BY DEF BootInv, Runs, EnginesRunTheRecord, At
<1> QED
  BY <1>1, BootAlways, PTL

(***************************************************************************)
(* The record of a genesis is never replaced by that of another.           *)
(***************************************************************************)
THEOREM RecordIsKept == Spec => RecordKept
<1>1. BootInv /\ [Next]_vars => [record # 0 => record' = record]_vars
  <2> SUFFICES ASSUME BootInv, Next PROVE record # 0 => record' = record
    BY DEF vars
  <2>1. ASSUME NEW p \in Procs, SaveDeployment(p) PROVE record = 0
    BY <2>1 DEF SaveDeployment, At, BootInv, FoundNone, Unseen
  <2>2. CASE \E p \in Procs : SaveDeployment(p)
    BY <2>1, <2>2
  <2>3. CASE ~\E p \in Procs : SaveDeployment(p)
    BY <2>3 DEF Next, Run, Disturb, Lapse, Deposit, Monitor, Renew, Start, Lead,
       Funds, FanOut, FanOutShort, FanOutFails, Genesis, Create, CreateShort, Verify,
       CreateFails, Unrecorded, Fail, Crash
  <2> QED
    BY <2>2, <2>3
<1> QED
  BY <1>1, BootAlways, PTL DEF Spec, RecordKept
=============================================================================
