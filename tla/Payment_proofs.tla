--------------------------- MODULE Payment_proofs ---------------------------
(***************************************************************************)
(* Payment, for any payments, requests, sizes and failures: with one       *)
(* process over the wallet, and a wallet that can be asked, a payment is   *)
(* credited once; nothing is credited before it is proven or taken by our  *)
(* arcade; and, when arcade does not hand back bytes, no answer is a lie.  *)
(***************************************************************************)
EXTENDS Payment, TLAPS

\* One process, as acceptMu and the slot are of one.
OneServer == \A s, t \in Servers : s = t

\* An error of the wallet is an error, not an answer.
WalletAnswers == "read" \notin Events

\* Arcade keeps no bytes, as the source says may be.
NoRecall == "recall" \notin Events

\* What a handler's place in handleFund says of the payment it handles.
Placed(h) ==
  /\ at[h] = "credit" => beef[h] \in Proven \cup arcade
  /\ WalletAnswers /\ OneServer /\ at[h] \in {"broadcast", "credit"}
       => credited[beef[h]] = 0

\* The slot: one request at a time in a process.
OneAtATime ==
  \A h, k \in Handlers :
    ServerOf[h] = ServerOf[k] /\ at[h] # "free" /\ at[k] # "free" => h = k

PayInv ==
  /\ TypeOK
  /\ OneAtATime
  /\ \A h \in Handlers : Placed(h)
  /\ NoPhantom
  /\ WalletAnswers /\ OneServer => CreditedOnce
  /\ NoRecall => AnswersAreTrue

-----------------------------------------------------------------------------
(***************************************************************************)
(* The initial states.                                                     *)
(***************************************************************************)
LEMMA InitPay == Init => PayInv
<1>1. (CHOOSE p \in Payments : TRUE) \in Payments
  BY PaymentAssumption
<1> SUFFICES ASSUME Init
             PROVE  PayInv
  OBVIOUS
<1>2. beef \in [Handlers -> Payments]
  BY <1>1 DEF Init
<1>3. tokens \in [Servers -> 0 .. FundBurst] /\ faults \in 0 .. MaxFaults
  BY PaymentAssumption DEF Init
<1>4. /\ arcade = {} /\ credited = [p \in Payments |-> 0]
      /\ at = [h \in Handlers |-> "free"] /\ answered = [p \in Payments |-> "none"]
  BY DEF Init
<1> QED
  BY <1>2, <1>3, <1>4
  DEF PayInv, TypeOK, Answers, OneAtATime, Placed, NoPhantom, CreditedOnce,
      AnswersAreTrue

(***************************************************************************)
(* Each action keeps the invariant.                                        *)
(***************************************************************************)
LEMMA PostKeeps ==
  ASSUME PayInv, NEW h \in Handlers, NEW p \in Payments, Post(h, p)
  PROVE  PayInv'
<1>1. TypeOK'
  BY PaymentAssumption DEF PayInv, TypeOK, Answers, Post, Goes
<1>2. OneAtATime'
  BY DEF PayInv, TypeOK, OneAtATime, Post, SlotFree, Goes
<1>3. \A k \in Handlers : Placed(k)'
  BY DEF PayInv, TypeOK, Placed, Post, Goes, WalletAnswers, OneServer
<1>4. NoPhantom' /\ (WalletAnswers /\ OneServer => CreditedOnce)'
  BY DEF PayInv, NoPhantom, CreditedOnce, WalletAnswers, OneServer, Post
<1>5. (NoRecall => AnswersAreTrue)'
  BY DEF PayInv, TypeOK, NoRecall, AnswersAreTrue, Post, Goes
<1> QED
  BY <1>1, <1>2, <1>3, <1>4, <1>5 DEF PayInv

LEMMA KnowsTxKeeps ==
  ASSUME PayInv, NEW h \in Handlers, KnowsTx(h)
  PROVE  PayInv'
<1>1. TypeOK'
  BY DEF PayInv, TypeOK, Answers, KnowsTx, Goes, Answer
<1>2. OneAtATime'
  BY DEF PayInv, TypeOK, OneAtATime, KnowsTx, Goes, Answer
<1>3. \A k \in Handlers : Placed(k)'
  <2> SUFFICES ASSUME NEW k \in Handlers
               PROVE  Placed(k)'
    OBVIOUS
  <2>1. CASE k # h
    BY <2>1 DEF PayInv, TypeOK, Placed, KnowsTx, Goes, Answer, WalletAnswers, OneServer
  <2>2. CASE k = h
    <3>1. ~Known(beef[h]) => credited[beef[h]] = 0
      BY DEF PayInv, TypeOK, Known
    <3> QED
      BY <2>2, <3>1
      DEF PayInv, TypeOK, Placed, KnowsTx, Goes, Answer, WalletAnswers, OneServer
  <2> QED
    BY <2>1, <2>2
<1>4. NoPhantom' /\ (WalletAnswers /\ OneServer => CreditedOnce)'
  BY DEF PayInv, NoPhantom, CreditedOnce, WalletAnswers, OneServer, KnowsTx
<1>5. (NoRecall => AnswersAreTrue)'
  BY DEF PayInv, TypeOK, NoRecall, AnswersAreTrue, KnowsTx, Known, Goes, Answer
<1> QED
  BY <1>1, <1>2, <1>3, <1>4, <1>5 DEF PayInv

\* The broadcast, whatever comes of it, changes what arcade has and where the
\* handler is; it goes on to the credit only with what is proven or taken.
LEMMA BroadcastKeeps ==
  ASSUME PayInv, NEW h \in Handlers, Broadcast(h) \/ BroadcastFails(h)
  PROVE  PayInv'
<1>1. TypeOK'
  BY PaymentAssumption
  DEF PayInv, TypeOK, Answers, Broadcast, BroadcastFails, Goes, Answer, Fault
<1>2. OneAtATime'
  BY DEF PayInv, TypeOK, OneAtATime, Broadcast, BroadcastFails, Goes, Answer
<1>3. arcade \subseteq arcade' /\ UNCHANGED <<credited, beef>>
  BY DEF Broadcast, BroadcastFails
<1>4. \A k \in Handlers : Placed(k)'
  <2> SUFFICES ASSUME NEW k \in Handlers
               PROVE  Placed(k)'
    OBVIOUS
  <2>1. CASE k # h
    <3>1. at'[k] = at[k]
      BY <2>1 DEF PayInv, TypeOK, Broadcast, BroadcastFails, Goes, Answer
    <3> QED
      BY <3>1, <1>3 DEF PayInv, Placed, WalletAnswers, OneServer
  <2>2. CASE k = h
    <3>1. at[h] = "broadcast" /\ at'[h] \in {"credit", "free"}
      BY DEF PayInv, TypeOK, Broadcast, BroadcastFails, Goes, Answer
    <3>2. at'[h] = "credit" => beef[h] \in Proven \cup arcade'
      BY DEF PayInv, TypeOK, Broadcast, BroadcastFails, Goes, Answer
    <3> QED
      BY <2>2, <3>1, <3>2, <1>3 DEF PayInv, Placed, WalletAnswers, OneServer
  <2> QED
    BY <2>1, <2>2
<1>5. NoPhantom' /\ (WalletAnswers /\ OneServer => CreditedOnce)'
  BY <1>3 DEF PayInv, NoPhantom, CreditedOnce, WalletAnswers, OneServer
<1>6. (NoRecall => AnswersAreTrue)'
  BY DEF PayInv, TypeOK, NoRecall, AnswersAreTrue, Broadcast, BroadcastFails, Goes, Answer
<1> QED
  BY <1>1, <1>2, <1>4, <1>5, <1>6 DEF PayInv

\* The credit: the row is made or, when the call fails, perhaps not.
LEMMA CreditKeeps ==
  ASSUME PayInv, NEW h \in Handlers, Credit(h) \/ CreditFails(h)
  PROVE  PayInv'
<1>1. TypeOK'
  <2>1. beef[h] \in Payments /\ credited \in [Payments -> Nat]
    BY DEF PayInv, TypeOK
  <2>2. credited' \in [Payments -> Nat]
    <3>1. credited[beef[h]] + 1 \in Nat
      BY <2>1
    <3> QED
      BY <2>1, <3>1 DEF Credit, CreditFails
  <2>3. faults' \in 0 .. MaxFaults
    BY PaymentAssumption DEF PayInv, TypeOK, Credit, CreditFails, Fault
  <2>4. at' \in [Handlers -> {"free", "ask", "broadcast", "credit"}]
    BY DEF PayInv, TypeOK, Credit, CreditFails, Answer
  <2>5. answered' \in [Payments -> Answers]
    BY <2>1 DEF PayInv, TypeOK, Answers, Credit, CreditFails, Answer
  <2> QED
    BY <2>2, <2>3, <2>4, <2>5 DEF PayInv, TypeOK, Credit, CreditFails
<1>2. OneAtATime'
  BY DEF PayInv, TypeOK, OneAtATime, Credit, CreditFails, Answer
<1>3. /\ at[h] = "credit" /\ beef[h] \in Payments
      /\ UNCHANGED <<arcade, beef>> /\ at' = [at EXCEPT ![h] = "free"]
      /\ credited' \in {credited, [credited EXCEPT ![beef[h]] = @ + 1]}
      /\ credited \in [Payments -> Nat]
  BY DEF PayInv, TypeOK, Credit, CreditFails, Answer
<1>4. \A k \in Handlers : Placed(k)'
  <2> SUFFICES ASSUME NEW k \in Handlers
               PROVE  Placed(k)'
    OBVIOUS
  <2>1. CASE k = h
    BY <2>1, <1>3 DEF PayInv, TypeOK, Placed
  <2>2. CASE k # h
    <3>1. at'[k] = at[k] /\ beef'[k] = beef[k]
      BY <2>2, <1>3 DEF PayInv, TypeOK
    <3>2. OneServer => at[k] = "free"
      <4>1. ServerOf[h] \in Servers /\ ServerOf[k] \in Servers
        BY PaymentAssumption
      <4>2. at[h] # "free"
        BY <1>3
      <4> QED
        BY <4>1, <4>2, <2>2 DEF PayInv, OneAtATime, OneServer
    <3> QED
      BY <3>1, <3>2, <1>3 DEF PayInv, Placed, WalletAnswers, OneServer
  <2> QED
    BY <2>1, <2>2
<1>5. NoPhantom'
  BY <1>3 DEF PayInv, NoPhantom, Placed
<1>6. (WalletAnswers /\ OneServer => CreditedOnce)'
  <2>1. WalletAnswers /\ OneServer => credited[beef[h]] = 0
    BY <1>3 DEF PayInv, Placed
  <2> QED
    BY <2>1, <1>3 DEF PayInv, CreditedOnce, WalletAnswers, OneServer
<1>7. (NoRecall => AnswersAreTrue)'
  BY <1>3 DEF PayInv, TypeOK, NoRecall, AnswersAreTrue, Credit, CreditFails, Answer
<1> QED
  BY <1>1, <1>2, <1>4, <1>5, <1>6, <1>7 DEF PayInv

LEMMA OthersKeep ==
  ASSUME PayInv,
         \/ \E s \in Servers : Refill(s) \/ Crash(s)
         \/ \E p \in Payments : SendsItself(p)
  PROVE  PayInv'
<1>1. TypeOK'
  BY PaymentAssumption DEF PayInv, TypeOK, Answers, Refill, Crash, SendsItself, Fault
<1>2. /\ arcade \subseteq arcade' /\ UNCHANGED <<credited, beef, answered>>
      /\ \A k \in Handlers : at'[k] \in {at[k], "free"}
  BY DEF PayInv, TypeOK, Refill, Crash, SendsItself
<1> QED
  BY <1>1, <1>2
  DEF PayInv, OneAtATime, Placed, NoPhantom, CreditedOnce, AnswersAreTrue,
      WalletAnswers, OneServer, NoRecall

LEMMA NextPay == PayInv /\ [Next]_vars => PayInv'
<1> SUFFICES ASSUME PayInv, [Next]_vars
             PROVE  PayInv'
  OBVIOUS
<1>1. CASE UNCHANGED vars
  BY <1>1 DEF vars, PayInv, TypeOK, OneAtATime, Placed, NoPhantom, CreditedOnce,
      AnswersAreTrue, WalletAnswers, OneServer, NoRecall
<1>2. ASSUME NEW h \in Handlers, NEW p \in Payments, Post(h, p)
      PROVE  PayInv'
  BY <1>2, PostKeeps
<1>3. ASSUME NEW h \in Handlers, Handle(h) \/ BroadcastFails(h) \/ CreditFails(h)
      PROVE  PayInv'
  BY <1>3, KnowsTxKeeps, BroadcastKeeps, CreditKeeps DEF Handle
<1>4. ASSUME NEW s \in Servers, Refill(s) \/ Crash(s)
      PROVE  PayInv'
  BY <1>4, OthersKeep
<1>5. ASSUME NEW p \in Payments, SendsItself(p)
      PROVE  PayInv'
  BY <1>5, OthersKeep
<1> QED
  BY <1>1, <1>2, <1>3, <1>4, <1>5 DEF Next

(***************************************************************************)
(* The theorems.                                                           *)
(***************************************************************************)
LEMMA PayInvariant == Spec => []PayInv
BY InitPay, NextPay, PTL DEF Spec

\* With one process over a wallet that answers, AcceptPayment credits a payment
\* once: the slot makes the duplicate check and the credit one step.
THEOREM CreditedOnceOnly ==
  ASSUME WalletAnswers, OneServer
  PROVE  Spec => []CreditedOnce
<1>1. PayInv => CreditedOnce
  BY DEF PayInv
<1> QED
  BY <1>1, PayInvariant, PTL

\* With any number of processes, BroadcastForeign comes before the credit and an
\* error of it is a refusal: nothing unproven is credited that our arcade has not.
THEOREM NoPhantomEver == Spec => []NoPhantom
<1>1. PayInv => NoPhantom
  BY DEF PayInv
<1> QED
  BY <1>1, PayInvariant, PTL

\* Unless arcade hands back bytes, an answer that speaks of a credit is true.
THEOREM AnswersTrue ==
  ASSUME NoRecall
  PROVE  Spec => []AnswersAreTrue
<1>1. PayInv => AnswersAreTrue
  BY DEF PayInv
<1> QED
  BY <1>1, PayInvariant, PTL
=============================================================================
