-------------------------------- MODULE Ring --------------------------------
(***************************************************************************)
(* What the cells of the ring share: the clock that asks them to advance,  *)
(* the mode, starvation, and the controls (internal/engine/worker.go and    *)
(* engine.go).  A cell is only its generation and its halt here; what one  *)
(* transition, repair or derivation does inside a cell is CellEngine's,     *)
(* and so are the two gates the network opens and closes.                  *)
(***************************************************************************)
EXTENDS Integers, FiniteSets

CONSTANTS
  Cells,
  MaxGen,    \* bound: the highest generation counted
  MaxLag,    \* Config.MaxLag
  WordSize,  \* generations are unsigned words of this many values
  Events     \* what happens to the ring in this instance

\* halt     a cell is halted: a refusal, a lost write
\* repair   a cell's tip is moved by a repair
\* lose     the lease is lost, and with it what the tips were derived under
\* funds    the wallet runs out of claimable coin, and is funded again
\* local    a transition fails without reaching the network
\* start    Options.Start or LockControls: the ring comes up running
\* play     somebody plays
\* pause    somebody pauses
\* step     somebody steps
EventNames == {"halt", "repair", "lose", "funds", "local",
               "start", "play", "pause", "step"}

ASSUME RingAssumption ==
  /\ IsFiniteSet(Cells) /\ Cells # {}
  /\ MaxGen \in Nat /\ MaxLag \in Nat \ {0}
  /\ WordSize \in Nat /\ WordSize > MaxGen + MaxLag
  /\ Events \subseteq EventNames

VARIABLES
  gen, halted,         \* Engine.tips[c].Generation, .halted
  pc, base,            \* the worker of each cell, and the tip it builds on
  target, generation,  \* Engine.target, .generation
  mode,                \* Engine.mode
  starvedSince,        \* Engine.starvedSince is set
  probeDue,            \* starvationProbe has passed since Engine.lastProbe
  leader,              \* Engine.leader and not .needsRederive
  clock,               \* what the clock read before it last let the lock go
  coin,                \* the wallet has a coin a transition can claim
  steady               \* history: nothing has moved the frontier back and
                       \* nobody has stepped

vars == <<gen, halted, pc, base, target, generation, mode, starvedSince,
          probeDue, leader, clock, coin, steady>>

cellVars == <<gen, halted, generation>>
workers  == <<pc, base>>
funding  == <<starvedSince, probeDue, coin>>

Gens == 0 .. MaxGen
Asleep == [awake |-> FALSE, frontier |-> 0]

Larger(a, b) == IF a > b THEN a ELSE b

\* The slowest cell that is not halted; when all are, the position is held.
FrontierOf(g, h, held) ==
  LET alive == {g[c] : c \in {d \in Cells : ~h[d]}}
  IN  IF alive = {} THEN held ELSE CHOOSE f \in alive : \A o \in alive : f <= o

Frontier == FrontierOf(gen, halted, generation)

-----------------------------------------------------------------------------
\* A process that has just derived its tips; any of its cells may be halted.
Init ==
  /\ gen \in [Cells -> Gens] /\ halted \in [Cells -> BOOLEAN]
  /\ pc = [c \in Cells |-> "idle"] /\ base = [c \in Cells |-> 0]
  /\ generation = FrontierOf(gen, halted, 0) /\ target = generation
  /\ mode = IF "start" \in Events THEN "running" ELSE "paused"
  /\ starvedSince = FALSE /\ probeDue = TRUE /\ coin = TRUE
  /\ leader = FALSE /\ clock = Asleep
  /\ steady = TRUE

\* The frontier has not gone back, nor fallen behind what the clock read.
Watch == steady' = (steady /\ Frontier' >= Larger(Frontier, clock.frontier))

(***************************************************************************)
(* The clock: it reads the mode and the frontier under one lock and, if    *)
(* the mode it read was running, raises the target under another.          *)
(***************************************************************************)
ClockRead ==
  /\ ~clock.awake
  /\ mode = "running"
  /\ clock' = [awake |-> TRUE, frontier |-> Frontier]
  /\ UNCHANGED <<cellVars, workers, target, mode, funding, leader>>
  /\ Watch

\* Mutant: the difference is allowed to reach MaxLag before the test.
RaisedLate(t, f) == IF (t - f) % WordSize <= MaxLag /\ t < MaxGen THEN t + 1 ELSE t

Raised(t, f) == IF (t - f) % WordSize < MaxLag /\ t < MaxGen THEN t + 1 ELSE t

\* Mutant: the target is not first brought up to the frontier.
NextTargetWraps(t, f) == Raised(t, f)

NextTarget(t, f) == Raised(Larger(t, f), f)

ClockRaise ==
  /\ clock.awake
  /\ clock' = Asleep
  /\ target' = NextTarget(target, clock.frontier)
  /\ UNCHANGED <<cellVars, workers, mode, funding, leader>>
  /\ Watch

(***************************************************************************)
(* A cell's worker.                                                        *)
(***************************************************************************)
At(c, stage) == pc[c] = stage
Goes(c, stage) == pc' = [pc EXCEPT ![c] = stage]

Park(c) ==
  /\ At(c, "idle") /\ halted[c]
  /\ Goes(c, "parked")
  /\ UNCHANGED <<cellVars, base, target, mode, funding, leader, clock>>
  /\ Watch

\* Whether the cell is halted, whether it may move and what tip it builds on
\* are read under a lock each.
Look(c) ==
  /\ At(c, "idle") /\ ~halted[c]
  /\ Goes(c, "gate")
  /\ UNCHANGED <<cellVars, base, target, mode, funding, leader, clock>>
  /\ Watch

\* A turn is taken because the target asks for it.
TakeTurn(c) ==
  /\ At(c, "gate")
  /\ leader /\ mode # "starved"
  /\ gen[c] < target
  /\ Goes(c, "ready")
  /\ UNCHANGED <<cellVars, base, target, mode, funding, leader, clock>>
  /\ Watch

Wait(c) ==
  /\ At(c, "gate")
  /\ ~leader \/ (mode # "starved" /\ gen[c] >= target)
  /\ Goes(c, "idle")
  /\ UNCHANGED <<cellVars, base, target, mode, funding, leader, clock>>
  /\ Watch

\* A starved ring asks for a probe instead, whatever the target; the claim is
\* made under a lock of its own.
SeeStarved(c) ==
  /\ At(c, "gate")
  /\ leader /\ mode = "starved"
  /\ Goes(c, "probe")
  /\ UNCHANGED <<cellVars, base, target, mode, funding, leader, clock>>
  /\ Watch

ClaimProbe(c) ==
  /\ At(c, "probe")
  /\ Goes(c, IF probeDue THEN "ready" ELSE "idle")
  /\ probeDue' = FALSE
  /\ UNCHANGED <<cellVars, base, target, mode, starvedSince, coin, leader, clock>>
  /\ Watch

ReadTip(c) ==
  /\ At(c, "ready")
  /\ Goes(c, "turn") /\ base' = [base EXCEPT ![c] = gen[c]]
  /\ UNCHANGED <<cellVars, target, mode, funding, leader, clock>>
  /\ Watch

ProbeDue ==
  /\ ~probeDue
  /\ probeDue' = TRUE
  /\ UNCHANGED <<cellVars, workers, target, mode, starvedSince, coin, leader,
                 clock>>
  /\ Watch

\* Mutant: an automaton with no shortfall outstanding has nothing to clear.
ClearStarvationWhenSince ==
  IF ~starvedSince
    THEN UNCHANGED <<starvedSince, mode>>
    ELSE /\ starvedSince' = FALSE
         /\ mode' = IF mode = "starved" THEN "running" ELSE mode

ClearStarvation ==
  /\ starvedSince' = FALSE
  /\ mode' = IF mode = "starved" THEN "running" ELSE mode

\* The transition went through; its result is recorded a lock later.  (A
\* probe takes no notice of the target, so at the bound it adds nothing.)
Succeed(c) ==
  /\ At(c, "turn") /\ coin
  /\ ClearStarvation
  /\ Goes(c, "record")
  /\ UNCHANGED <<cellVars, base, target, probeDue, coin, leader, clock>>
  /\ Watch

Record(c) ==
  /\ At(c, "record")
  /\ gen' = [gen EXCEPT ![c] = IF base[c] < MaxGen THEN base[c] + 1 ELSE MaxGen]
  /\ generation' = FrontierOf(gen', halted, generation)
  /\ Goes(c, "idle") /\ base' = [base EXCEPT ![c] = 0]
  /\ UNCHANGED <<halted, target, mode, funding, leader, clock>>
  /\ Watch

\* No coin.  A shortfall that was already outstanding may have lasted past
\* the grace period, and then the ring is declared starved, a lock later.
Shortfall(c) ==
  /\ At(c, "turn") /\ ~coin
  /\ starvedSince' = TRUE
  /\ base' = [base EXCEPT ![c] = 0]
  /\ \/ Goes(c, "idle")
     \/ starvedSince /\ mode # "starved" /\ Goes(c, "starving")
  /\ UNCHANGED <<cellVars, target, mode, probeDue, coin, leader, clock>>
  /\ Watch

EnterStarvation(c) ==
  /\ At(c, "starving")
  /\ mode' = "starved"
  /\ Goes(c, "idle")
  /\ UNCHANGED <<cellVars, base, target, funding, leader, clock>>
  /\ Watch

\* Anything else that keeps a transition from the ring's point of view from
\* having happened.
Fail(c) ==
  /\ "local" \in Events
  /\ At(c, "turn")
  /\ Goes(c, "idle") /\ base' = [base EXCEPT ![c] = 0]
  /\ UNCHANGED <<cellVars, target, mode, funding, leader, clock>>
  /\ Watch

\* A repair moves the tip, usually back.
Repair(c) ==
  /\ "repair" \in Events
  /\ At(c, "idle") /\ ~halted[c]
  /\ \E g \in Gens \ {gen[c]} : gen' = [gen EXCEPT ![c] = g]
  /\ generation' = FrontierOf(gen', halted, generation)
  /\ UNCHANGED <<halted, workers, target, mode, funding, leader, clock>>
  /\ Watch

Worker(c) ==
  \/ Park(c) \/ Look(c) \/ TakeTurn(c) \/ Wait(c) \/ SeeStarved(c) \/ ClaimProbe(c)
  \/ ReadTip(c) \/ Succeed(c) \/ Record(c) \/ Shortfall(c) \/ EnterStarvation(c) \/ Fail(c)

(***************************************************************************)
(* What happens to the cells from outside their workers.                   *)
(***************************************************************************)
HaltCell(c) ==
  /\ "halt" \in Events
  /\ ~halted[c]
  /\ halted' = [halted EXCEPT ![c] = TRUE]
  /\ UNCHANGED <<gen, generation, workers, target, mode, funding, leader, clock>>
  /\ Watch

LoseLease ==
  /\ "lose" \in Events
  /\ leader
  /\ leader' = FALSE
  /\ UNCHANGED <<cellVars, workers, target, mode, funding, clock>>
  /\ Watch

\* The lease is gained and the positions derived under it are applied.
ApplyPositions ==
  /\ ~leader
  /\ leader' = TRUE
  /\ gen' \in [Cells -> Gens] /\ halted' \in [Cells -> BOOLEAN]
  /\ generation' = FrontierOf(gen', halted', generation)
  /\ target' = Larger(target, generation')
  /\ UNCHANGED <<workers, mode, funding, clock>>
  /\ Watch

(***************************************************************************)
(* The controls, and the wallet.                                           *)
(***************************************************************************)
SetMode(m) ==
  /\ mode' = m
  /\ IF m = "running"
       THEN starvedSince' = FALSE /\ target' = Larger(target, Frontier)
       ELSE UNCHANGED <<starvedSince, target>>
  /\ UNCHANGED <<cellVars, workers, probeDue, coin, leader, clock>>
  /\ Watch

Step ==
  /\ "step" \in Events
  /\ target < MaxGen
  /\ Frontier < MaxGen
  /\ target' = Larger(target, Frontier) + 1
  /\ UNCHANGED <<cellVars, workers, mode, funding, leader, clock>>
  /\ steady' = FALSE

Coin ==
  /\ "funds" \in Events
  /\ coin' = ~coin
  /\ UNCHANGED <<cellVars, workers, target, mode, starvedSince, probeDue,
                 leader, clock>>
  /\ Watch

Control ==
  \/ "play" \in Events /\ SetMode("running")
  \/ "pause" \in Events /\ SetMode("paused")

Next ==
  \/ ClockRead \/ ClockRaise \/ ProbeDue \/ LoseLease \/ ApplyPositions
  \/ Control \/ Step \/ Coin
  \/ \E c \in Cells : Worker(c) \/ Repair(c) \/ HaltCell(c)

Spec == Init /\ [][Next]_vars

(***************************************************************************)
(* The clock, each worker and the lease holder are scheduled, time passes, *)
(* and a transition that is tried again and again with coin at hand is not *)
(* failed locally for ever.                                                *)
(***************************************************************************)
Fairness ==
  /\ WF_vars(ClockRead) /\ WF_vars(ClockRaise)
  /\ WF_vars(ProbeDue) /\ WF_vars(ApplyPositions)
  /\ \A c \in Cells : WF_vars(Worker(c)) /\ SF_vars(Succeed(c))

FairSpec == Spec /\ Fairness
-----------------------------------------------------------------------------
\* The target is never more than MaxLag ahead of the slowest cell, however
\* cells halt between the clock's reading of the frontier and its raising of
\* the target, unless a repair took the frontier back or somebody stepped.
LagBounded == steady => target <= Frontier + MaxLag

\* A worker waits for the process to end although its cell has been released.
Orphaned == \E c \in Cells : pc[c] = "parked" /\ ~halted[c]

Finished == \A c \in Cells : halted[c] \/ gen[c] = MaxGen

\* The tips stay where the cells put them in the end.
Settles == []~Orphaned /\ <>[][\A c \in Cells : ~Repair(c)]_vars

\* A running, funded ring whose tips settle moves every cell that is not
\* halted: no halt, however far the frontier jumps when the slowest cell
\* leaves it, freezes the clock for the others.
RingMoves ==
  Settles /\ <>[](mode = "running" /\ leader /\ coin) => <>[]Finished

\* Starved is not a dead end: once there is coin the ring stops being starved,
\* without anybody touching it, as long as a cell is left that can probe.
StarvedRecovers ==
  Settles /\ <>[](coin /\ leader) => <>[](mode # "starved" \/ \A c \in Cells : halted[c])

\* A ring that was never asked to run does not run: what is paused stays
\* paused through a shortage of coin and the end of it.  The code does not
\* keep this (README): TLC refutes it with the events funds, pause and step.
PauseHolds == {"start", "play"} \cap Events = {} => mode # "running"
=============================================================================
