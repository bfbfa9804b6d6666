---------------------------- MODULE Fulfillment ----------------------------
(***************************************************************************)
(* processFulfillmentJob and what it shares with the other workers         *)
(* (apps/worker/src/fulfillment, reconciliation): the fulfilment rows of   *)
(* an order's items, the pool of digital codes of one product variant, the *)
(* provider transactions, the provider itself, and the order's status.     *)
(*                                                                         *)
(* A delivery is one call of processFulfillmentJob.  BullMQ hands a job    *)
(* whose worker has died to another worker, and one whose worker has only  *)
(* lost its lock too: then two deliveries of one job are at work at once.  *)
(* Every statement or transaction is one step; between two steps the       *)
(* worker may die.  What a delivery read at its start, it keeps to the     *)
(* end.  The circuit breaker, which other orders move as well, may answer  *)
(* anything here (CircuitBreaker models it).                               *)
(***************************************************************************)
EXTENDS OrderStates, Naturals, FiniteSets

CONSTANTS
  Orders,
  Items,        \* order items, each with one fulfilment row
  OrderOf,      \* the order of an item
  CodeItems,    \* the items that need a digital code
  Codes,        \* the codes of their variant
  Deliveries,
  OrderOfJob,   \* the order a delivery is about
  None

ASSUME OrderOfAssumption == OrderOf \in [Items -> Orders]
ASSUME CodeItemsAssumption == CodeItems \subseteq Items
ASSUME OrderOfJobAssumption == OrderOfJob \in [Deliveries -> Orders]

VARIABLES
  orderStatus,   \* Order.status
  fulfillment,   \* Fulfillment.status of each item
  attemptCount,  \* Fulfillment.attemptCount of each item
  codeStatus,    \* DigitalCode.status
  codeFor,       \* DigitalCode.reservedForOrderItemId
  transactions,  \* the idempotency keys of the ProviderTransaction rows
  performed,     \* the idempotency keys the provider has delivered for
  pc,            \* where each delivery stands
  todo,          \* the items it found QUEUED or IN_PROGRESS and has still to visit
  seen,          \* the attempt count it read with each of them
  item,          \* the item it works on
  verdict,       \* the provider's answer, then the status to write
  readStatus,    \* the order status that its finalisation has read
  overlapped     \* orders two deliveries have worked on at once (history)

rowVars  == <<fulfillment, attemptCount>>
codeVars == <<codeStatus, codeFor>>
jobVars  == <<pc, todo, seen, item, verdict, readStatus>>
vars == <<orderStatus, rowVars, codeVars, transactions, performed, jobVars,
          overlapped>>

FulfillmentStatus == {"QUEUED", "IN_PROGRESS", "SUCCEEDED", "FAILED", "MANUAL_REVIEW"}
\* Mutant: a delivery visits every item that has not failed.
MutantAllButFailed == {"QUEUED", "IN_PROGRESS", "SUCCEEDED", "MANUAL_REVIEW"}

Unresolved == {"QUEUED", "IN_PROGRESS"}
Answers    == {"succeeded", "failed", "pending", "unknown"}

ASSUME NoneAssumption ==
  None \notin Items \cup Answers \cup FulfillmentStatus \cup OrderStatus

\* The key of the attempt that a delivery makes for the item it works on.
Key(d) == <<item[d], seen[d][item[d]]>>
Keys   == Items \X Nat

TypeOK ==
  /\ orderStatus \in [Orders -> OrderStatus]
  /\ fulfillment \in [Items -> FulfillmentStatus]
  /\ attemptCount \in [Items -> Nat]
  /\ codeStatus \in [Codes -> {"AVAILABLE", "RESERVED", "SOLD"}]
  /\ codeFor \in [Codes -> CodeItems \cup {None}]
  /\ transactions \subseteq Keys
  /\ performed \subseteq Keys
  /\ pc \in [Deliveries -> {"idle", "picking", "visiting", "reserving", "calling",
                            "settling", "releasing", "marking", "deciding", "closing",
                            "ended"}]
  /\ todo \in [Deliveries -> SUBSET Items]
  /\ seen \in [Deliveries -> [Items -> Nat]]
  /\ item \in [Deliveries -> Items \cup {None}]
  /\ verdict \in [Deliveries -> Answers \cup FulfillmentStatus \cup OrderStatus \cup {None}]
  /\ readStatus \in [Deliveries -> OrderStatus \cup {None}]
  /\ overlapped \subseteq Orders

\* The order has just been paid: processGatewayEvent has created the rows.
Init ==
  /\ orderStatus = [o \in Orders |-> "FULFILLMENT_QUEUED"]
  /\ fulfillment = [i \in Items |-> "QUEUED"]
  /\ attemptCount = [i \in Items |-> 0]
  /\ codeStatus = [c \in Codes |-> "AVAILABLE"]
  /\ codeFor = [c \in Codes |-> None]
  /\ transactions = {}
  /\ performed = {}
  /\ pc = [d \in Deliveries |-> "idle"]
  /\ todo = [d \in Deliveries |-> {}]
  /\ seen = [d \in Deliveries |-> [i \in Items |-> 0]]
  /\ item = [d \in Deliveries |-> None]
  /\ verdict = [d \in Deliveries |-> None]
  /\ readStatus = [d \in Deliveries |-> None]
  /\ overlapped = {}

-----------------------------------------------------------------------------
AtWork(d) == pc[d] \notin {"idle", "ended"}

ItemsOf(o) == {i \in Items : OrderOf[i] = o}

\* The delivery returns, throws or dies.
Stop(d) ==
  /\ pc' = [pc EXCEPT ![d] = "ended"]
  /\ todo' = [todo EXCEPT ![d] = {}]
  /\ seen' = [seen EXCEPT ![d] = [i \in Items |-> 0]]
  /\ item' = [item EXCEPT ![d] = None]
  /\ verdict' = [verdict EXCEPT ![d] = None]
  /\ readStatus' = [readStatus EXCEPT ![d] = None]

\* The order is read with its items and their fulfilments.
Begin(d) ==
  LET o == OrderOfJob[d] IN
  /\ pc[d] = "idle"
  /\ orderStatus[o] \in {"FULFILLMENT_QUEUED", "PROCESSING"}
  /\ pc' = [pc EXCEPT ![d] = IF orderStatus[o] = "PROCESSING" THEN "visiting" ELSE "picking"]
  /\ todo' = [todo EXCEPT ![d] = {i \in ItemsOf(o) : fulfillment[i] \in Unresolved}]
  /\ seen' = [seen EXCEPT ![d] = [i \in Items |->
                IF i \in todo'[d] THEN attemptCount[i] ELSE 0]]
  /\ overlapped' = IF \E e \in Deliveries : AtWork(e) /\ OrderOfJob[e] = o
                   THEN overlapped \cup {o} ELSE overlapped
  /\ UNCHANGED <<orderStatus, rowVars, codeVars, transactions, performed, item, verdict,
                 readStatus>>

\* "Already terminal or being handled by another delivery of this job."
Decline(d) ==
  /\ pc[d] = "idle"
  /\ orderStatus[OrderOfJob[d]] \notin {"FULFILLMENT_QUEUED", "PROCESSING"}
  /\ Stop(d)
  /\ UNCHANGED <<orderStatus, rowVars, codeVars, transactions, performed, overlapped>>

\* OrderStateMachine.transition: compare-and-set, and a throw that ends the
\* delivery when it is refused.
Move(d, from, to) ==
  LET o == OrderOfJob[d] IN
  /\ CanTransition(from, to) /\ orderStatus[o] = from
  /\ orderStatus' = [orderStatus EXCEPT ![o] = to]

Refused(d, from, to) ==
  /\ ~(CanTransition(from, to) /\ orderStatus[OrderOfJob[d]] = from)
  /\ Stop(d)
  /\ UNCHANGED orderStatus

PickUp(d) ==
  /\ pc[d] = "picking"
  /\ \/ /\ Move(d, "FULFILLMENT_QUEUED", "PROCESSING")
        /\ pc' = [pc EXCEPT ![d] = "visiting"]
        /\ UNCHANGED <<todo, seen, item, verdict, readStatus>>
     \/ Refused(d, "FULFILLMENT_QUEUED", "PROCESSING")
  /\ UNCHANGED <<rowVars, codeVars, transactions, performed, overlapped>>

\* The breaker is open.
SkipItem(d, i) ==
  /\ pc[d] = "visiting"
  /\ i \in todo[d]
  /\ todo' = [todo EXCEPT ![d] = @ \ {i}]
  /\ fulfillment' = [fulfillment EXCEPT ![i] = "MANUAL_REVIEW"]
  /\ UNCHANGED <<orderStatus, attemptCount, codeVars, transactions, performed, pc, seen,
                 item, verdict, readStatus, overlapped>>

TryItem(d, i) ==
  /\ pc[d] = "visiting"
  /\ i \in todo[d]
  /\ todo' = [todo EXCEPT ![d] = @ \ {i}]
  /\ item' = [item EXCEPT ![d] = i]
  /\ fulfillment' = [fulfillment EXCEPT ![i] = "IN_PROGRESS"]
  /\ attemptCount' = [attemptCount EXCEPT ![i] = @ + 1]
  /\ pc' = [pc EXCEPT ![d] = IF i \in CodeItems THEN "reserving" ELSE "calling"]
  /\ UNCHANGED <<orderStatus, codeVars, transactions, performed, seen, verdict,
                 readStatus, overlapped>>

\* The catch block: release the code, if the item needs one, then write v.
Catch(d, v) ==
  /\ pc' = [pc EXCEPT ![d] = IF item[d] \in CodeItems THEN "releasing" ELSE "marking"]
  /\ verdict' = [verdict EXCEPT ![d] = v]

Free == {c \in Codes : codeStatus[c] = "AVAILABLE"}
HeldBy(i) == {c \in Codes : codeFor[c] = i}

\* FOR UPDATE SKIP LOCKED passes over the codes that other reservations have
\* locked, so it may find none while some are free.
MayFindNone(d) ==
  Cardinality({e \in Deliveries \ {d} : pc[e] = "reserving"}) >= Cardinality(Free)

\* reserveDigitalCode.  reservedForOrderItemId is unique: a second code for
\* the same item is refused by the database.
Reserve(d) ==
  /\ pc[d] = "reserving"
  /\ \/ /\ HeldBy(item[d]) = {}
        /\ \E c \in Free : /\ codeStatus' = [codeStatus EXCEPT ![c] = "RESERVED"]
                           /\ codeFor' = [codeFor EXCEPT ![c] = item[d]]
        /\ pc' = [pc EXCEPT ![d] = "calling"]
        /\ UNCHANGED verdict
     \/ /\ HeldBy(item[d]) # {}
        /\ Free # {}
        /\ Catch(d, "FAILED")
        /\ UNCHANGED codeVars
     \/ /\ MayFindNone(d)
        /\ pc' = [pc EXCEPT ![d] = "marking"]
        /\ verdict' = [verdict EXCEPT ![d] = "MANUAL_REVIEW"]
        /\ UNCHANGED codeVars
  /\ UNCHANGED <<orderStatus, rowVars, transactions, performed, todo, seen, item,
                 readStatus, overlapped>>

\* createFulfillment, retried with the same key.  The provider delivers at
\* most once per key; an answer "succeeded" means that it has, "failed" that
\* it has not, and after any other answer, or none, nobody knows.
MayDeliver(d) == performed' = performed \/ performed' = performed \cup {Key(d)}

Call(d) ==
  /\ pc[d] = "calling"
  /\ MayDeliver(d)
  /\ \/ \E answer \in Answers :
          /\ answer = "succeeded" => Key(d) \in performed'
          /\ answer = "failed" => Key(d) \notin performed'
          /\ verdict' = [verdict EXCEPT ![d] = answer]
          /\ pc' = [pc EXCEPT ![d] = "settling"]
     \/ Catch(d, "MANUAL_REVIEW")  \* no balance, or a timeout
     \/ Catch(d, "FAILED")         \* anything else
  /\ UNCHANGED <<orderStatus, rowVars, codeVars, transactions, todo, seen, item,
                 readStatus, overlapped>>

\* Mutant: no test of the code's status.
MutantAnyHeld(i) == HeldBy(i)

Reserved(i) == {c \in HeldBy(i) : codeStatus[c] = "RESERVED"}

\* Mutant: looks for an AVAILABLE code to sell.
MutantSellsNothing(i) ==
  /\ codeStatus' = [c \in Codes |->
       IF c \in HeldBy(i) /\ codeStatus[c] = "AVAILABLE" THEN "SOLD" ELSE codeStatus[c]]
  /\ UNCHANGED codeFor

\* markDigitalCodeSold
Sell(i) ==
  /\ codeStatus' = [c \in Codes |-> IF c \in Reserved(i) THEN "SOLD" ELSE codeStatus[c]]
  /\ UNCHANGED codeFor

\* Mutant: the code stays linked to the item.
MutantKeepsItem(i) ==
  /\ codeStatus' = [c \in Codes |-> IF c \in Reserved(i) THEN "AVAILABLE" ELSE codeStatus[c]]
  /\ UNCHANGED codeFor

\* releaseDigitalCode
ReleaseCode(i) ==
  /\ codeStatus' = [c \in Codes |-> IF c \in Reserved(i) THEN "AVAILABLE" ELSE codeStatus[c]]
  /\ codeFor' = [c \in Codes |-> IF c \in Reserved(i) THEN None ELSE codeFor[c]]

\* The delivery goes on to its next item.
NextItem(d, status) ==
  /\ fulfillment' = [fulfillment EXCEPT ![item[d]] = status]
  /\ pc' = [pc EXCEPT ![d] = "visiting"]
  /\ item' = [item EXCEPT ![d] = None]
  /\ verdict' = [verdict EXCEPT ![d] = None]

\* The transaction that stores the answer.
Settle(d) ==
  /\ pc[d] = "settling"
  /\ Key(d) \notin transactions
  /\ transactions' = transactions \cup {Key(d)}
  /\ \/ /\ verdict[d] = "succeeded"
        /\ Sell(item[d])
        /\ NextItem(d, "SUCCEEDED")
     \/ /\ verdict[d] = "unknown"
        /\ NextItem(d, "MANUAL_REVIEW")
        /\ UNCHANGED codeVars
     \/ /\ verdict[d] \in {"failed", "pending"}
        /\ ReleaseCode(item[d])
        /\ NextItem(d, "FAILED")
  /\ UNCHANGED <<orderStatus, attemptCount, performed, todo, seen, readStatus, overlapped>>

\* The key is taken already, or the database fails.
SettleThrows(d) ==
  /\ pc[d] = "settling"
  /\ Catch(d, "FAILED")
  /\ UNCHANGED <<orderStatus, rowVars, codeVars, transactions, performed, todo, seen, item,
                 readStatus, overlapped>>

Release(d) ==
  /\ pc[d] = "releasing"
  /\ ReleaseCode(item[d])
  /\ pc' = [pc EXCEPT ![d] = "marking"]
  /\ UNCHANGED <<orderStatus, rowVars, transactions, performed, todo, seen, item, verdict,
                 readStatus, overlapped>>

Mark(d) ==
  /\ pc[d] = "marking"
  /\ NextItem(d, verdict[d])
  /\ UNCHANGED <<orderStatus, attemptCount, codeVars, transactions, performed, todo, seen,
                 readStatus, overlapped>>

-----------------------------------------------------------------------------
\* Mutant: complete unless something failed.
MutantIgnoresReview(o) ==
  LET found == {fulfillment[i] : i \in ItemsOf(o)} IN
  CASE "FAILED" \notin found -> "COMPLETED"
    [] found = {"FAILED"}    -> "FAILED"
    [] OTHER                 -> "PARTIALLY_FULFILLED"

\* finalizeOrderFulfillmentStatus
Target(o) ==
  LET found == {fulfillment[i] : i \in ItemsOf(o)} IN
  CASE found \subseteq {"SUCCEEDED"} -> "COMPLETED"
    [] "MANUAL_REVIEW" \in found     -> "MANUAL_REVIEW"
    [] found = {"FAILED"}            -> "FAILED"
    [] OTHER                         -> "PARTIALLY_FULFILLED"

AllVisited(d) == pc[d] = "visiting" /\ todo[d] = {}
AnyPending(o) == \E i \in ItemsOf(o) : fulfillment[i] \in Unresolved

Judge(d) ==
  LET o == OrderOfJob[d] IN
  /\ AllVisited(d)
  /\ \/ /\ AnyPending(o)
        /\ Stop(d)
     \/ /\ ~AnyPending(o)
        /\ verdict' = [verdict EXCEPT ![d] = Target(o)]
        /\ pc' = [pc EXCEPT ![d] = "deciding"]
        /\ UNCHANGED <<todo, seen, item, readStatus>>
  /\ UNCHANGED <<orderStatus, rowVars, codeVars, transactions, performed, overlapped>>

Decide(d) ==
  LET o == OrderOfJob[d] IN
  /\ pc[d] = "deciding"
  /\ \/ /\ orderStatus[o] = verdict[d]
        /\ Stop(d)
     \/ /\ orderStatus[o] # verdict[d]
        /\ readStatus' = [readStatus EXCEPT ![d] = orderStatus[o]]
        /\ pc' = [pc EXCEPT ![d] = "closing"]
        /\ UNCHANGED <<todo, seen, item, verdict>>
  /\ UNCHANGED <<orderStatus, rowVars, codeVars, transactions, performed, overlapped>>

Close(d) ==
  /\ pc[d] = "closing"
  /\ \/ Move(d, readStatus[d], verdict[d]) /\ Stop(d)
     \/ Refused(d, readStatus[d], verdict[d])
  /\ UNCHANGED <<rowVars, codeVars, transactions, performed, overlapped>>

\* The worker dies, or a statement outside the try block throws.  A call that
\* was out may still be carried out by the provider.
Crash(d) ==
  /\ AtWork(d)
  /\ IF pc[d] = "calling" THEN MayDeliver(d) ELSE UNCHANGED performed
  /\ Stop(d)
  /\ UNCHANGED <<orderStatus, rowVars, codeVars, transactions, overlapped>>

-----------------------------------------------------------------------------
\* runReconciliation, for a row that has been IN_PROGRESS for long enough.
Reconcile(i) ==
  /\ fulfillment[i] = "IN_PROGRESS"
  /\ fulfillment' = [fulfillment EXCEPT ![i] = "MANUAL_REVIEW"]
  /\ UNCHANGED <<orderStatus, attemptCount, codeVars, transactions, performed, jobVars,
                 overlapped>>

\* An administrator refunds the order or moves it by hand (Settlement).
Intervene(o) ==
  /\ \E to \in AdminManualTransitions(orderStatus[o]) \cup {"REFUND_PENDING"} :
       /\ CanTransition(orderStatus[o], to)
       /\ orderStatus' = [orderStatus EXCEPT ![o] = to]
  /\ UNCHANGED <<rowVars, codeVars, transactions, performed, jobVars, overlapped>>

Delivery(d) ==
  \/ Begin(d) \/ Decline(d) \/ PickUp(d)
  \/ \E i \in Items : SkipItem(d, i) \/ TryItem(d, i)
  \/ Reserve(d) \/ Call(d) \/ Settle(d) \/ SettleThrows(d) \/ Release(d) \/ Mark(d)
  \/ Judge(d) \/ Decide(d) \/ Close(d)

Next ==
  \/ \E d \in Deliveries : Delivery(d) \/ Crash(d)
  \/ \E i \in Items : Reconcile(i)
  \/ \E o \in Orders : Intervene(o)

Spec == Init /\ [][Next]_vars

-----------------------------------------------------------------------------
(***************************************************************************)
(* Properties.                                                             *)
(***************************************************************************)
Delivered(i) == \E k \in performed : k[1] = i

\* Whatever crashes, is delivered twice or is reconciled on the way: a code is
\* only sold, an item only counts as SUCCEEDED, and a delivery only decides
\* for COMPLETED, when the provider has delivered.
NothingClaimedUndelivered ==
  /\ \A c \in Codes : codeStatus[c] = "SOLD" => Delivered(codeFor[c])
  /\ \A i \in Items : fulfillment[i] = "SUCCEEDED" => Delivered(i)
  /\ \A d \in Deliveries : verdict[d] = "COMPLETED" =>
       \A i \in ItemsOf(OrderOfJob[d]) : Delivered(i)

\* The pool of codes is in order: a code is free exactly when no item has it,
\* and no item ever has two.
PoolInOrder ==
  /\ \A c \in Codes : codeStatus[c] = "AVAILABLE" <=> codeFor[c] = None
  /\ \A c, k \in Codes : codeFor[c] = codeFor[k] /\ codeFor[c] # None => c = k

\* A code that was sold stays with its buyer, although late deliveries go on
\* to release "their" reservation.
SoldForGood ==
  [][\A c \in Codes : codeStatus[c] = "SOLD" =>
       codeStatus'[c] = "SOLD" /\ codeFor'[c] = codeFor[c]]_vars

\* While no two deliveries of its order work at once, and however often they
\* die and are replaced, an item that has SUCCEEDED has its code ...
SucceededHasItsCode ==
  \A i \in CodeItems : OrderOf[i] \notin overlapped /\ fulfillment[i] = "SUCCEEDED" =>
    \E c \in HeldBy(i) : codeStatus[c] = "SOLD"

\* ... and stays SUCCEEDED.
SucceededForGood ==
  [][\A i \in Items : OrderOf[i] \notin overlapped' /\ fulfillment[i] = "SUCCEEDED" =>
       fulfillment'[i] = "SUCCEEDED"]_vars

-----------------------------------------------------------------------------
\* What the documentation says and the code does not do.

\* "Both have unique constraints specifically so replays are safe"
\* (docs/RUNBOOK.md): a delivery that takes over from a dead one does not make
\* the provider deliver an item again.
ReplaysAreSafe ==
  \A i \in Items : OrderOf[i] \notin overlapped =>
    \A k, l \in performed : k[1] = i /\ l[1] = i => k = l
=============================================================================
