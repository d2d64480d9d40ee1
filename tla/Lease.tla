-------------------------------- MODULE Lease --------------------------------
(***************************************************************************)
(* The single-writer lease: engines and one-shot tools over one row of the *)
(* store's table "leases".  A process believes it is the writer because of *)
(* what its last call to AcquireLease returned; the row says who may be    *)
(* because of when that call was made.  Between the two lie the call       *)
(* itself, the time to the next one, and a derivation of the tips in the   *)
(* same goroutine.                                                         *)
(*                                                                         *)
(* Time is counted from the last call (age), from the start of a           *)
(* transition (turnAge) and to the expiry of the row (left), so it needs   *)
(* no bound.  A process that owes a step by some age holds the clock back. *)
(*                                                                         *)
(* The chains are one: head is the newest generation on it and by[g] who   *)
(* made generation g.  What the write-ahead row adds when two writers meet *)
(* is CellEngine's subject.                                                *)
(***************************************************************************)
EXTENDS Integers

CONSTANTS
  Engines, Tools,  \* processes, by the name they claim the lease under
  Nobody,
  LeaseTTL, LeaseRenew,   \* the engine's; toolLeaseTTL and a third of it
  ToolTTL, ToolRenew,
  MaxCall,         \* the longest a call to the store takes
  MaxDerive,       \* the longest a derivation of the tips takes
  MaxTurn,         \* the longest a transition is in flight
  Skew,            \* what each process's clock is ahead of the others'
  MaxSkew,
  MaxGen,
  Events

\* crash     a process dies
\* fail      a call to the store, or a derivation, fails in an engine
\* deaf      ... or in a tool
\* undrained an engine that shuts down releases the lease before its
\*           workers are done
EventNames == {"crash", "fail", "deaf", "undrained"}

Procs == Engines \cup Tools

ASSUME LeaseAssumption ==
  /\ Engines \cap Tools = {} /\ Nobody \notin Procs
  /\ {LeaseTTL, LeaseRenew, ToolTTL, ToolRenew} \subseteq Nat
  /\ {MaxCall, MaxDerive, MaxTurn, MaxSkew, MaxGen} \subseteq Nat
  /\ Skew \in [Procs -> (-MaxSkew) .. MaxSkew]
  /\ Events \subseteq EventNames

VARIABLES
  lease,     \* the row: who, and how long from now it expires
  head, by,  \* the newest generation, and who made each
  \* holdLease or holdToolLease: where it is, how long ago it called, what the
  \* call returned; the positions a derivation has read
  pc, age, reply, derived,
  \* Engine.leader, needsRederive and the tip of its cells
  leader, needsRederive, tip,
  \* the transition in flight: the tip it spends, and for how long
  turn, turnAge

chain  == <<head, by>>
renewal == <<pc, age, reply, derived>>
memory == <<leader, needsRederive, tip>>
flight == <<turn, turnAge>>
vars == <<lease, head, by, pc, age, reply, derived, leader, needsRederive, tip,
          turn, turnAge>>

Gens == 0 .. MaxGen
None == -1   \* no transition in flight, nothing derived

TTL(p)   == IF p \in Engines THEN LeaseTTL ELSE ToolTTL
Renew(p) == IF p \in Engines THEN LeaseRenew ELSE ToolRenew

\* The clock stops counting down where no process can tell the difference.
LongExpired == -(MaxSkew + MaxCall + 1)

TypeOK ==
  /\ lease \in [owner : Procs \cup {Nobody}, left : Int]
  /\ head \in Gens /\ by \in [Gens -> Procs \cup {Nobody}]
  /\ pc \in [Procs -> {"down", "ask", "answer", "derive", "wait"}]
  /\ age \in [Procs -> Nat] /\ reply \in [Procs -> BOOLEAN]
  /\ derived \in [Procs -> Gens \cup {None}]
  /\ leader \in [Procs -> BOOLEAN] /\ needsRederive \in [Procs -> BOOLEAN]
  /\ tip \in [Procs -> Gens]
  /\ turn \in [Procs -> Gens \cup {None}] /\ turnAge \in [Procs -> Nat]

Init ==
  /\ lease = [owner |-> Nobody, left |-> 0]
  /\ head = 0 /\ by = [g \in Gens |-> Nobody]
  /\ pc = [p \in Procs |-> "down"] /\ age = [p \in Procs |-> 0]
  /\ reply = [p \in Procs |-> FALSE] /\ derived = [p \in Procs |-> None]
  /\ leader = [p \in Procs |-> FALSE] /\ needsRederive = [p \in Procs |-> TRUE]
  /\ tip = [p \in Procs |-> 0]
  /\ turn = [p \in Procs |-> None] /\ turnAge = [p \in Procs |-> 0]

Goes(p, stage) == pc' = [pc EXCEPT ![p] = stage]
Forgets(p) == reply' = [reply EXCEPT ![p] = FALSE]

-----------------------------------------------------------------------------
(***************************************************************************)
(* Time.  A call, a derivation and a transition end by their bounds, and a *)
(* tick of the renewal timer that is due is taken.                         *)
(***************************************************************************)
Patient(p) ==
  /\ pc[p] \in {"ask", "answer"} => age[p] < MaxCall
  /\ pc[p] = "derive" => age[p] < MaxCall + MaxDerive
  /\ pc[p] = "wait" => age[p] < Renew(p)
  /\ turn[p] # None => turnAge[p] < MaxTurn

Tick ==
  /\ \A p \in Procs : Patient(p)
  /\ lease' = [owner |-> lease.owner,
               left |-> IF lease.left > LongExpired THEN lease.left - 1 ELSE lease.left]
  /\ age' = [p \in Procs |-> IF pc[p] = "down" THEN 0 ELSE age[p] + 1]
  /\ turnAge' = [p \in Procs |-> IF turn[p] = None THEN 0 ELSE turnAge[p] + 1]
  /\ UNCHANGED <<chain, pc, reply, derived, memory, turn>>

-----------------------------------------------------------------------------
(***************************************************************************)
(* AcquireLease.  The client reads its clock, the statement runs at the    *)
(* store, the result comes back.                                           *)
(***************************************************************************)
\* New and Run; or openDeployment.  Either claims the lease at once.
Start(p) ==
  /\ pc[p] = "down" /\ turn[p] = None
  /\ Goes(p, "ask") /\ age' = [age EXCEPT ![p] = 0]
  /\ tip' = [tip EXCEPT ![p] = head]
  /\ UNCHANGED <<lease, chain, reply, derived, leader, needsRederive, flight>>

Ask(p) ==
  /\ pc[p] = "wait"
  /\ Goes(p, "ask") /\ age' = [age EXCEPT ![p] = 0]
  /\ UNCHANGED <<lease, chain, reply, derived, memory, flight>>

\* The row is free, ours, or had expired by the clock we read before calling.
\* Mutant: an expired lease is not taken over.
TakeableNeverExpires(p) == lease.owner \in {Nobody, p}

Takeable(p) == lease.owner \in {Nobody, p} \/ lease.left < Skew[p] - age[p]

AcquireLease(p) ==
  /\ pc[p] = "ask"
  /\ Goes(p, "answer")
  /\ reply' = [reply EXCEPT ![p] = Takeable(p)]
  /\ lease' = IF Takeable(p)
                THEN [owner |-> p, left |-> Skew[p] - age[p] + TTL(p)]
                ELSE lease
  /\ UNCHANGED <<chain, age, derived, memory, flight>>

\* Mutant: the tips are not derived again after the lease was regained.
SetLeaderTrusting(p, held) ==
  /\ leader' = [leader EXCEPT ![p] = held]
  /\ UNCHANGED needsRederive

\* setLeader: gaining the lease owes a derivation.
SetLeader(p, held) ==
  /\ leader' = [leader EXCEPT ![p] = held]
  /\ needsRederive' = [needsRederive EXCEPT ![p] = @ \/ (held /\ ~leader[p])]

\* holdLease: a derivation that is owed is made before the next renewal.
Hear(p) ==
  /\ p \in Engines /\ pc[p] = "answer"
  /\ SetLeader(p, reply[p])
  /\ Goes(p, IF reply[p] /\ needsRederive'[p] THEN "derive" ELSE "wait")
  /\ Forgets(p)
  /\ UNCHANGED <<lease, chain, age, derived, tip, flight>>

\* Mutant: an error is not taken for a lost lease.
HearNothingStill(p) ==
  /\ "fail" \in Events /\ p \in Engines
  /\ pc[p] \in {"ask", "answer"}
  /\ Goes(p, "wait") /\ Forgets(p)
  /\ UNCHANGED <<lease, chain, age, derived, memory, flight>>

\* An error counts as not held, whether or not the statement ran.
HearNothing(p) ==
  /\ "fail" \in Events /\ p \in Engines
  /\ pc[p] \in {"ask", "answer"}
  /\ SetLeader(p, FALSE)
  /\ Goes(p, "wait") /\ Forgets(p)
  /\ UNCHANGED <<lease, chain, age, derived, tip, flight>>

\* rederiveIfNeeded reads the store, and installs what it read.
DeriveRead(p) ==
  /\ pc[p] = "derive" /\ derived[p] = None
  /\ derived' = [derived EXCEPT ![p] = head]
  /\ UNCHANGED <<lease, chain, pc, age, reply, memory, flight>>

DeriveApply(p) ==
  /\ pc[p] = "derive" /\ derived[p] # None
  /\ tip' = [tip EXCEPT ![p] = derived[p]]
  /\ needsRederive' = [needsRederive EXCEPT ![p] = FALSE]
  /\ derived' = [derived EXCEPT ![p] = None]
  /\ Goes(p, "wait")
  /\ UNCHANGED <<lease, chain, age, reply, leader, flight>>

\* A derivation that fails leaves everything owed.
DeriveFails(p) ==
  /\ "fail" \in Events
  /\ pc[p] = "derive"
  /\ derived' = [derived EXCEPT ![p] = None]
  /\ Goes(p, "wait")
  /\ UNCHANGED <<lease, chain, age, reply, memory, flight>>

-----------------------------------------------------------------------------
(***************************************************************************)
(* The tools (openDeployment, holdToolLease).  A tool that is refused the  *)
(* lease exits; one that has it goes on whatever a renewal says.  It       *)
(* derives beside the renewals.                                            *)
(***************************************************************************)
ToolHears(p) ==
  /\ p \in Tools
  /\ \/ /\ pc[p] = "answer"
        /\ Goes(p, IF reply[p] \/ leader[p] THEN "wait" ELSE "down")
        /\ leader' = [leader EXCEPT ![p] = @ \/ reply[p]]
     \/ /\ "deaf" \in Events /\ pc[p] \in {"ask", "answer"}
        /\ Goes(p, IF leader[p] THEN "wait" ELSE "down")
        /\ UNCHANGED leader
  /\ Forgets(p)
  /\ UNCHANGED <<lease, chain, age, derived, needsRederive, tip, flight>>

ToolDerives(p) ==
  /\ p \in Tools /\ leader[p] /\ needsRederive[p]
  /\ tip' = [tip EXCEPT ![p] = head]
  /\ needsRederive' = [needsRederive EXCEPT ![p] = FALSE]
  /\ UNCHANGED <<lease, chain, renewal, leader, flight>>

-----------------------------------------------------------------------------
(***************************************************************************)
(* What the lease is for: a transition is begun by a process that leads,   *)
(* and ends, on the chain or without having reached it, some time later.   *)
(***************************************************************************)
\* Mutant: turns are granted before the derivation that is owed.
TakeTurnAtOnce(p) ==
  /\ pc[p] # "down" /\ leader[p]
  /\ turn[p] = None /\ tip[p] < MaxGen
  /\ turn' = [turn EXCEPT ![p] = tip[p]] /\ turnAge' = [turnAge EXCEPT ![p] = 0]
  /\ UNCHANGED <<lease, chain, renewal, memory>>

TakeTurn(p) ==
  /\ pc[p] # "down" /\ leader[p] /\ ~needsRederive[p]
  /\ turn[p] = None /\ tip[p] < MaxGen
  /\ turn' = [turn EXCEPT ![p] = tip[p]] /\ turnAge' = [turnAge EXCEPT ![p] = 0]
  /\ UNCHANGED <<lease, chain, renewal, memory>>

EndTurn(p) ==
  /\ turn[p] # None
  /\ turn' = [turn EXCEPT ![p] = None] /\ turnAge' = [turnAge EXCEPT ![p] = 0]

\* An output that is already spent is not spent again, whatever its spender
\* then believes.
Spend(p) ==
  /\ EndTurn(p)
  /\ tip' = [tip EXCEPT ![p] = turn[p] + 1]
  /\ IF turn[p] = head
       THEN head' = head + 1 /\ by' = [by EXCEPT ![head + 1] = p]
       ELSE UNCHANGED chain
  /\ UNCHANGED <<lease, renewal, leader, needsRederive>>

Abandon(p) ==
  /\ EndTurn(p)
  /\ UNCHANGED <<lease, chain, renewal, memory>>

-----------------------------------------------------------------------------
(***************************************************************************)
(* The end of a process.                                                   *)
(***************************************************************************)
Gone(p) ==
  /\ pc[p] # "down"
  /\ Goes(p, "down")
  /\ age' = [age EXCEPT ![p] = 0] /\ Forgets(p)
  /\ derived' = [derived EXCEPT ![p] = None]
  /\ leader' = [leader EXCEPT ![p] = FALSE]
  /\ needsRederive' = [needsRederive EXCEPT ![p] = TRUE]
  /\ tip' = [tip EXCEPT ![p] = 0]
  /\ UNCHANGED chain

Crash(p) ==
  /\ "crash" \in Events
  /\ Gone(p)
  /\ turn' = [turn EXCEPT ![p] = None] /\ turnAge' = [turnAge EXCEPT ![p] = 0]
  /\ UNCHANGED lease

\* The context ends: a leader deletes its row so that nobody waits for it to
\* expire.  holdLease does not ask whether the workers are done.
Stop(p) ==
  /\ Gone(p)
  /\ turn[p] = None \/ "undrained" \in Events
  /\ lease' = [owner |-> IF leader[p] /\ lease.owner = p THEN Nobody ELSE lease.owner,
               left |-> lease.left]
  /\ UNCHANGED flight

-----------------------------------------------------------------------------
Renewal(p) ==
  \/ Ask(p) \/ AcquireLease(p) \/ Hear(p) \/ HearNothing(p)
  \/ DeriveRead(p) \/ DeriveApply(p) \/ DeriveFails(p)
  \/ ToolHears(p) \/ ToolDerives(p)

Work(p) == TakeTurn(p) \/ Spend(p) \/ Abandon(p)

Next == Tick \/ \E p \in Procs : Start(p) \/ Renewal(p) \/ Work(p) \/ Crash(p) \/ Stop(p)

Spec == Init /\ [][Next]_vars

(***************************************************************************)
(* Time passes, timers fire, calls and derivations return, a tool ends.    *)
(***************************************************************************)
FairSpec ==
  /\ Spec /\ WF_vars(Tick)
  /\ \A p \in Procs :
       /\ WF_vars(Ask(p)) /\ WF_vars(AcquireLease(p)) /\ WF_vars(Hear(p))
       /\ WF_vars(DeriveRead(p)) /\ WF_vars(DeriveApply(p))
       /\ WF_vars(ToolHears(p)) /\ WF_vars(Spend(p) \/ Abandon(p))
       /\ SF_vars(p \in Tools /\ Stop(p))

-----------------------------------------------------------------------------
(***************************************************************************)
(* What the timing must satisfy: from a renewal, through the wait or the   *)
(* derivation that follows it, the next call, and a transition begun just  *)
(* before that call came back, less time passes than the row lives, by     *)
(* anybody's clock.                                                        *)
(***************************************************************************)
Round(p) ==
  IF p \in Engines /\ MaxCall + MaxDerive > Renew(p) THEN MaxCall + MaxDerive
  ELSE IF MaxCall > Renew(p) THEN MaxCall ELSE Renew(p)

Timely ==
  \A p, q \in Procs : Round(p) + MaxCall + MaxTurn + Skew[q] <= TTL(p) + Skew[p]

\* What the guarantees below need of the faults: a tool hears of every renewal
\* and an engine releases the lease with no transition in flight.
Orderly == "deaf" \notin Events /\ "undrained" \notin Events

\* At most one process believes it is the writer or has a transition in
\* flight: a crash, a failed renewal, a slow call, a takeover of an expired row
\* and a clean handover each leave the chains with one.
Writer(p) == leader[p] \/ turn[p] # None
OneWriter == \A p, q \in Procs : Writer(p) /\ Writer(q) => p = q

\* No transition spends an output that another process has spent already:
\* whoever leads has derived its tips since the last other writer's last
\* transition ended.
NoForeignSpend ==
  \A p \in Procs : turn[p] # None /\ turn[p] # head => by[turn[p] + 1] = p

\* Faults end, and engines and tools are no longer started or shut down.  A
\* refusal and an error look alike to the engine; only the error is a fault.
Quiet ==
  <>[][\A p \in Procs : /\ ~Start(p) /\ ~Crash(p) /\ ~DeriveFails(p)
                        /\ HearNothing(p) => Hear(p)
                        /\ p \in Engines => ~Stop(p)]_vars

\* An engine that is up when the faults end is enough for there to be a leader
\* that may advance, for good: no crashed holder, no tool and no failed
\* derivation keeps the chains stopped.
LeaderInTheEnd ==
  Quiet /\ (\E p \in Engines : <>[](pc[p] # "down"))
    => \E p \in Engines : <>[](leader[p] /\ ~needsRederive[p])
=============================================================================
