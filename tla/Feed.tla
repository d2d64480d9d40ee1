--------------------------------- MODULE Feed ---------------------------------
(***************************************************************************)
(* How a change of the engine reaches a browser: the notification every    *)
(* change ends with, the goroutine that publishes the tail, the handler    *)
(* that streams what is published, and the page, which applies frames and  *)
(* the replies to its own requests in the order they arrive.               *)
(*                                                                         *)
(* A snapshot is the number of changes made before it was taken.  Of a     *)
(* channel that Changed returned it matters whether it has been closed,    *)
(* and of a published tail whether it is the pointer last sent, so each    *)
(* holder carries one bit for either.                                      *)
(***************************************************************************)
EXTENDS Integers

CONSTANTS
  Browsers,
  MaxChanges,   \* bound: the changes made to the snapshot
  MaxFaults     \* bound: restarts and dropped connections

ASSUME FeedAssumption == MaxChanges \in Nat /\ MaxFaults \in Nat

VARIABLES
  state,        \* the snapshot
  published,    \* Engine.published
  publisher, building, pubWoken,   \* PublishTails: its place, the snapshot it
                                   \* marshals, whether its channel is closed
  handler, carry, woken, fresh,    \* handleEvents, per browser: its place, the
                                   \* tail it is writing, whether its channel
                                   \* is closed, PublishedTail # sent
  page, reply,  \* what the browser shows, and the reply it is waiting for
  faults

pubVars == <<published, publisher, building, pubWoken>>
streams == <<handler, carry, woken, fresh>>
pages   == <<page, reply>>
vars == <<state, published, publisher, building, pubWoken, handler, carry,
          woken, fresh, page, reply, faults>>

Snapshots == 0 .. MaxChanges
None == -1

TypeOK ==
  /\ state \in Snapshots /\ building \in Snapshots
  /\ published \in Snapshots \cup {None}
  /\ publisher \in {"subscribe", "snapshot", "store", "wait"} /\ pubWoken \in BOOLEAN
  /\ handler \in [Browsers -> {"away", "load", "write", "wait"}]
  /\ carry \in [Browsers -> Snapshots \cup {None}]
  /\ woken \in [Browsers -> BOOLEAN] /\ fresh \in [Browsers -> BOOLEAN]
  /\ page \in [Browsers -> Snapshots \cup {None}]
  /\ reply \in [Browsers -> Snapshots \cup {None}]
  /\ faults \in 0 .. MaxFaults

Init ==
  /\ state = 0 /\ published = None
  /\ publisher = "subscribe" /\ building = 0 /\ pubWoken = FALSE
  /\ handler = [b \in Browsers |-> "away"] /\ carry = [b \in Browsers |-> None]
  /\ woken = [b \in Browsers |-> FALSE] /\ fresh = [b \in Browsers |-> FALSE]
  /\ page = [b \in Browsers |-> None] /\ reply = [b \in Browsers |-> None]
  /\ faults = 0

\* notify: the channel every holder waits on is closed.
Notify == pubWoken' = TRUE /\ woken' = [b \in Browsers |-> TRUE]

\* Whatever changes the snapshot notifies under the same lock.
Change ==
  /\ state < MaxChanges
  /\ state' = state + 1
  /\ Notify
  /\ UNCHANGED <<published, publisher, building, handler, carry, fresh, pages, faults>>

\* wake, and a notification for a change the tail does not carry.
Wake ==
  /\ Notify
  /\ UNCHANGED <<state, published, publisher, building, handler, carry, fresh, pages, faults>>

-----------------------------------------------------------------------------
(***************************************************************************)
(* PublishTails.  The throttle is the time that may pass before "snapshot".*)
(***************************************************************************)
Subscribe ==
  /\ publisher = "subscribe"
  /\ publisher' = "snapshot" /\ pubWoken' = FALSE
  /\ UNCHANGED <<state, published, building, streams, pages, faults>>

SnapshotTail ==
  /\ publisher = "snapshot"
  /\ publisher' = "store" /\ building' = state
  /\ UNCHANGED <<state, published, pubWoken, streams, pages, faults>>

\* Mutant: the channel is taken after the tail is published.
PublishTailFirst ==
  /\ publisher = "store"
  /\ publisher' = "wait" /\ published' = building /\ pubWoken' = FALSE
  /\ fresh' = [b \in Browsers |-> TRUE]
  /\ UNCHANGED <<state, building, handler, carry, woken, pages, faults>>

\* Mutant: the bytes are replaced behind the pointer that is published.
PublishTailInPlace ==
  /\ publisher = "store"
  /\ publisher' = "wait" /\ published' = building
  /\ fresh' = IF published = None THEN [b \in Browsers |-> TRUE] ELSE fresh
  /\ UNCHANGED <<state, building, pubWoken, handler, carry, woken, pages, faults>>

\* A fresh pointer for every rebuild.  (A Snapshot holds nothing that json
\* cannot marshal, so the branch that keeps the old tail is not taken.)
PublishTail ==
  /\ publisher = "store"
  /\ publisher' = "wait" /\ published' = building
  /\ fresh' = [b \in Browsers |-> TRUE]
  /\ UNCHANGED <<state, building, pubWoken, handler, carry, woken, pages, faults>>

PublisherWakes ==
  /\ publisher = "wait" /\ pubWoken
  /\ publisher' = "subscribe"
  /\ UNCHANGED <<state, published, building, pubWoken, streams, pages, faults>>

-----------------------------------------------------------------------------
(***************************************************************************)
(* handleEvents.                                                           *)
(***************************************************************************)
At(b, stage) == handler[b] = stage
Goes(b, stage) == handler' = [handler EXCEPT ![b] = stage]

\* EventSource connects, and connects again.
Connect(b) ==
  /\ At(b, "away") /\ Goes(b, "load")
  /\ woken' = [woken EXCEPT ![b] = FALSE]
  /\ fresh' = [fresh EXCEPT ![b] = published # None]
  /\ UNCHANGED <<state, pubVars, carry, pages, faults>>

Load(b) ==
  /\ At(b, "load")
  /\ IF published # None /\ fresh[b]
       THEN /\ carry' = [carry EXCEPT ![b] = published]
            /\ fresh' = [fresh EXCEPT ![b] = FALSE]
            /\ Goes(b, "write")
       ELSE Goes(b, "wait") /\ UNCHANGED <<carry, fresh>>
  /\ UNCHANGED <<state, pubVars, woken, pages, faults>>

\* The frame reaches the page, which applies it.
Write(b) ==
  /\ At(b, "write") /\ Goes(b, "wait")
  /\ page' = [page EXCEPT ![b] = carry[b]]
  /\ carry' = [carry EXCEPT ![b] = None]
  /\ UNCHANGED <<state, pubVars, woken, fresh, reply, faults>>

HandlerWakes(b) ==
  /\ At(b, "wait") /\ woken[b] /\ Goes(b, "load")
  /\ woken' = [woken EXCEPT ![b] = FALSE]
  /\ UNCHANGED <<state, pubVars, carry, fresh, pages, faults>>

Drop(b) ==
  /\ ~At(b, "away") /\ Goes(b, "away")
  /\ faults < MaxFaults /\ faults' = faults + 1
  /\ carry' = [carry EXCEPT ![b] = None]
  /\ UNCHANGED <<state, pubVars, woken, fresh, pages>>

(***************************************************************************)
(* handleState, and the snapshot handleControl answers with.  A control is *)
(* a Change followed by such a reply.                                      *)
(***************************************************************************)
Reply(b) ==
  /\ reply[b] = None
  /\ reply' = [reply EXCEPT ![b] = state]
  /\ UNCHANGED <<state, pubVars, streams, page, faults>>

ReplyArrives(b) ==
  /\ reply[b] # None
  /\ page' = [page EXCEPT ![b] = reply[b]]
  /\ reply' = [reply EXCEPT ![b] = None]
  /\ UNCHANGED <<state, pubVars, streams, faults>>

\* The process is replaced by one that derives the same state.
Restart ==
  /\ faults < MaxFaults /\ faults' = faults + 1
  /\ published' = None /\ publisher' = "subscribe" /\ building' = 0
  /\ pubWoken' = FALSE
  /\ handler' = [b \in Browsers |-> "away"] /\ carry' = [b \in Browsers |-> None]
  /\ woken' = [b \in Browsers |-> FALSE] /\ fresh' = [b \in Browsers |-> FALSE]
  /\ reply' = [b \in Browsers |-> None]
  /\ UNCHANGED <<state, page>>

-----------------------------------------------------------------------------
Publisher == Subscribe \/ SnapshotTail \/ PublishTail \/ PublisherWakes

Handler(b) == Connect(b) \/ Load(b) \/ Write(b) \/ HandlerWakes(b)

Next ==
  \/ Change \/ Wake \/ Publisher \/ Restart
  \/ \E b \in Browsers : Handler(b) \/ Drop(b) \/ Reply(b) \/ ReplyArrives(b)

Spec == Init /\ [][Next]_vars

\* The goroutines are scheduled and replies arrive.  Nothing has to change.
Fairness ==
  /\ WF_vars(Publisher)
  /\ \A b \in Browsers : WF_vars(Handler(b)) /\ WF_vars(ReplyArrives(b))

FairSpec == Spec /\ Fairness

-----------------------------------------------------------------------------
(***************************************************************************)
(* Properties.                                                             *)
(***************************************************************************)
\* No change is stranded in front of the publisher: however changes fall
\* between its subscription, the throttle, the snapshot and the wait, what is
\* published is what is true once changes stop.
PublishedCatchesUp == <>[](published = state)

\* While notifications keep coming, every page gets to the last change, through
\* dropped connections, restarts and replies that arrive after newer frames.
ShownWhileNotified ==
  []<><<Wake>>_vars => \A b \in Browsers : []<>(page[b] = state)

\* What server.go says the order "subscribe, then send" is for: the last
\* change is not stranded when the automaton goes quiet.  The code does not
\* keep this (README): the handler wakes with the publisher, finds the tail it
\* has already sent, and nothing wakes it when the publisher has stored the
\* next one.
LastChangeShown == \A b \in Browsers : <>[](page[b] = state)
=============================================================================
