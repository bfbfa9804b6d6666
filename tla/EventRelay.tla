----------------------------- MODULE EventRelay -----------------------------
(***************************************************************************)
(* What an outbox promises (docs/ARCHITECTURE.md, "Why an outbox"): an      *)
(* event exists once the transaction that wrote it commits, nothing that    *)
(* was not committed is relayed, no event is relayed twice, and every event *)
(* is relayed in the end.                                                   *)
(***************************************************************************)
EXTENDS Naturals

CONSTANT Events

VARIABLES
  committed,  \* the events whose transaction has committed
  relays      \* how often each event was handed to the queue

vars == <<committed, relays>>

Init == committed = {} /\ relays = [e \in Events |-> 0]

Commit(e) ==
  /\ e \notin committed
  /\ committed' = committed \cup {e}
  /\ UNCHANGED relays

Relay(e) ==
  /\ e \in committed
  /\ relays[e] = 0
  /\ relays' = [relays EXCEPT ![e] = 1]
  /\ UNCHANGED committed

Next == \E e \in Events : Commit(e) \/ Relay(e)

\* The safe half of the promise.
AtMostOnce == Init /\ [][Next]_vars

\* The other half.
EventuallyRelayed == \A e \in Events : e \in committed ~> relays[e] > 0
=============================================================================
