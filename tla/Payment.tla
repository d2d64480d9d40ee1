------------------------------- MODULE Payment -------------------------------
(***************************************************************************)
(* Public funding: a payer's wallet builds a transaction, the page posts   *)
(* it, and the server broadcasts it through its own arcade and only then   *)
(* credits it.  A credit is a row of the wallet; a second one for the same *)
(* transaction is a balance that grew and a wallet that gained nothing.    *)
(*                                                                         *)
(* Each call out of the handler (the wallet asked, the broadcast, the      *)
(* credit) may fail or run out of the request's time with or without its   *)
(* effect, and the process may die between any two.  Payers may post again *)
(* at any time, whatever they were told.                                   *)
(*                                                                         *)
(* Arcade and the wallet's storage are external.  The mutex acceptMu adds  *)
(* nothing to the slot of the same process, and is left out.               *)
(***************************************************************************)
EXTENDS Integers

CONSTANTS
  Payments,        \* transactions, as signed by their payers
  Satoshis,        \* what each pays to this deployment's script
  MinPayment,
  Proven,          \* those whose BEEF carries a merkle path
  Foreign,         \* those whose coins are on another chain
  Servers,         \* processes over one wallet
  Handlers, ServerOf,
  FundBurst,
  MaxFaults,       \* bound: failed calls and crashes
  Events

\* sends   a payer's wallet broadcasts by itself
\* recall  arcade returns the bytes of what it holds
\* read    the wallet cannot be asked
EventNames == {"sends", "recall", "read"}

ASSUME PaymentAssumption ==
  /\ Payments # {} /\ Satoshis \in [Payments -> Nat] /\ MinPayment \in Nat \ {0}
  /\ Proven \subseteq Payments /\ Foreign \subseteq Payments /\ Proven \cap Foreign = {}
  /\ ServerOf \in [Handlers -> Servers]
  /\ FundBurst \in Nat \ {0} /\ MaxFaults \in Nat
  /\ Events \subseteq EventNames

VARIABLES
  arcade,     \* the payments our arcade has taken
  credited,   \* the rows the wallet has for each
  at, beef,   \* each handler's place in handleFund, and what was posted
  tokens,     \* fundBucket
  answered,   \* the last answer given for each payment
  faults

vars == <<arcade, credited, at, beef, tokens, answered, faults>>

Answers == {"none", "bad", "known", "refused", "failed", "credited"}

TypeOK ==
  /\ arcade \subseteq Payments
  /\ credited \in [Payments -> Nat]
  /\ at \in [Handlers -> {"free", "ask", "broadcast", "credit"}]
  /\ beef \in [Handlers -> Payments]
  /\ tokens \in [Servers -> 0 .. FundBurst]
  /\ answered \in [Payments -> Answers]
  /\ faults \in 0 .. MaxFaults

Init ==
  /\ arcade = {}
  /\ credited = [p \in Payments |-> 0]
  /\ at = [h \in Handlers |-> "free"]
  /\ beef = [h \in Handlers |-> CHOOSE p \in Payments : TRUE]
  /\ tokens = [s \in Servers |-> FundBurst]
  /\ answered = [p \in Payments |-> "none"]
  /\ faults = 0

Goes(h, stage) == at' = [at EXCEPT ![h] = stage] /\ UNCHANGED answered

\* writeFundError, or the credit; the slot is free again.
Answer(h, what) ==
  /\ answered' = [answered EXCEPT ![beef[h]] = what]
  /\ at' = [at EXCEPT ![h] = "free"]

Fault == faults < MaxFaults /\ faults' = faults + 1

-----------------------------------------------------------------------------
SlotFree(s) == \A h \in Handlers : ServerOf[h] = s => at[h] = "free"

\* handleFund: the one slot of the process, a token of its bucket, and, in
\* AcceptPayment, the outputs that pay us and the floor.
Post(h, p) ==
  /\ SlotFree(ServerOf[h])
  /\ tokens[ServerOf[h]] > 0
  /\ tokens' = [tokens EXCEPT ![ServerOf[h]] = @ - 1]
  /\ IF Satoshis[p] < MinPayment
       THEN answered' = [answered EXCEPT ![p] = "bad"] /\ UNCHANGED <<at, beef>>
       ELSE Goes(h, "ask") /\ beef' = [beef EXCEPT ![h] = p]
  /\ UNCHANGED <<arcade, credited, faults>>

Refill(s) ==
  /\ tokens[s] < FundBurst
  /\ tokens' = [tokens EXCEPT ![s] = @ + 1]
  /\ UNCHANGED <<arcade, credited, at, beef, answered, faults>>

\* Mutant: the wallet is not asked.
KnownNever(p) == FALSE

\* Mutant: what the network holds is taken for credited.
KnownAnywhere(p) == credited[p] > 0 \/ p \in arcade

\* KnowsTx: RawTx asks the wallet, and arcade for what the wallet has not.
Known(p) == credited[p] > 0 \/ ("recall" \in Events /\ p \in arcade)

\* Every error of RawTx counts as unknown.
KnowsTx(h) ==
  /\ at[h] = "ask"
  /\ \/ Known(beef[h]) /\ Answer(h, "known")
     \/ (~Known(beef[h]) \/ "read" \in Events) /\ Goes(h, "broadcast")
  /\ UNCHANGED <<arcade, credited, beef, tokens, faults>>

\* BroadcastForeign: what is mined needs none, and a refusal is a verdict.
Broadcast(h) ==
  /\ at[h] = "broadcast"
  /\ \/ beef[h] \in Proven /\ Goes(h, "credit") /\ UNCHANGED arcade
     \/ beef[h] \in Foreign /\ Answer(h, "refused") /\ UNCHANGED arcade
     \/ /\ beef[h] \notin Proven \cup Foreign
        /\ Goes(h, "credit") /\ arcade' = arcade \cup {beef[h]}
  /\ UNCHANGED <<credited, beef, tokens, faults>>

\* Mutant: an error is not taken for a refusal.
BroadcastFailsOn(h) ==
  /\ at[h] = "broadcast" /\ beef[h] \notin Proven
  /\ Fault
  /\ arcade' \in {arcade, arcade \cup ({beef[h]} \ Foreign)}
  /\ Goes(h, "credit")
  /\ UNCHANGED <<credited, beef, tokens>>

\* A transport error: arcade may have it or not.
BroadcastFails(h) ==
  /\ at[h] = "broadcast" /\ beef[h] \notin Proven
  /\ Fault
  /\ arcade' \in {arcade, arcade \cup ({beef[h]} \ Foreign)}
  /\ Answer(h, "refused")
  /\ UNCHANGED <<credited, beef, tokens>>

\* internalizeOutputs: the wallet takes the same transaction again.
Credit(h) ==
  /\ at[h] = "credit"
  /\ credited' = [credited EXCEPT ![beef[h]] = @ + 1]
  /\ Answer(h, "credited")
  /\ UNCHANGED <<arcade, beef, tokens, faults>>

\* An error or the end of the request's time, before or after the row.
CreditFails(h) ==
  /\ at[h] = "credit"
  /\ Fault
  /\ credited' \in {credited, [credited EXCEPT ![beef[h]] = @ + 1]}
  /\ Answer(h, "failed")
  /\ UNCHANGED <<arcade, beef, tokens>>

Crash(s) ==
  /\ Fault
  /\ at' = [h \in Handlers |-> IF ServerOf[h] = s THEN "free" ELSE at[h]]
  /\ tokens' = [tokens EXCEPT ![s] = FundBurst]
  /\ UNCHANGED <<arcade, credited, beef, answered>>

\* noSend is asked of the payer's wallet, not enforced.
SendsItself(p) ==
  /\ "sends" \in Events
  /\ p \notin arcade \cup Foreign
  /\ arcade' = arcade \cup {p}
  /\ UNCHANGED <<credited, at, beef, tokens, answered, faults>>

-----------------------------------------------------------------------------
Handle(h) == KnowsTx(h) \/ Broadcast(h) \/ Credit(h)

Next ==
  \/ \E h \in Handlers :
       \/ \E p \in Payments : Post(h, p)
       \/ Handle(h) \/ BroadcastFails(h) \/ CreditFails(h)
  \/ \E s \in Servers : Refill(s) \/ Crash(s)
  \/ \E p \in Payments : SendsItself(p)

Spec == Init /\ [][Next]_vars

\* Calls return and the bucket refills.  Nobody has to pay.
FairSpec ==
  /\ Spec
  /\ \A h \in Handlers : WF_vars(Handle(h))
  /\ \A s \in Servers : WF_vars(Refill(s))

-----------------------------------------------------------------------------
(***************************************************************************)
(* Properties.                                                             *)
(***************************************************************************)
\* A payment is credited once, however often it is posted, by however many
\* requests, after whatever failure or crash.
CreditedOnce == \A p \in Payments : credited[p] <= 1

\* No phantom is credited: whatever the wallet holds has been proven or taken
\* by our own arcade, so the fuel minted from it can be spent.
NoPhantom == \A p \in Payments : credited[p] > 0 => p \in Proven \cup arcade

\* A payer who is told that the payment is credited, or has been already, is
\* told the truth, and can stop asking.
AnswersAreTrue ==
  \A p \in Payments : answered[p] \in {"credited", "known"} => credited[p] > 0

\* Whoever posts a payment that is good for this chain as often as the server
\* lets them is credited, whatever failed half-way before, and whoever else posts.
PaymentSettles ==
  \A p \in {q \in Payments \ Foreign : Satoshis[q] >= MinPayment} :
    SF_vars(\E h \in Handlers : Post(h, p)) => <>(credited[p] > 0)
=============================================================================
