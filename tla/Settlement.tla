----------------------------- MODULE Settlement -----------------------------
(***************************************************************************)
(* The life of ONE order and of its payment, as four parties race for it:  *)
(*                                                                         *)
(*   - checkout       CheckoutService.checkout, which creates both rows;   *)
(*   - webhooks       PaymentsService.processGatewayEvent, one database    *)
(*                    transaction per delivered gateway event;             *)
(*   - refund calls   AdminRefundsService.createRefund: checks, a first    *)
(*                    transaction, a call of the gateway, a second one;    *)
(*   - worker jobs    processFulfillmentJob and its finalisation, seen at  *)
(*                    the level of the order status;                       *)
(*   - admin edits    AdminOrdersService.updateStatus.                     *)
(*                                                                         *)
(* Every row the code touches is keyed by the order, so orders do not      *)
(* interact here.  Transactions run at READ COMMITTED: a step reads what   *)
(* is committed when it runs, and keeps what it read in a local variable   *)
(* that may be stale when used.  A transaction's writes appear when it     *)
(* commits; the one row lock held across a read, the payment's, is         *)
(* paymentLock.  Logging, audit rows and payment-attempt rows are left     *)
(* out.                                                                    *)
(***************************************************************************)
EXTENDS OrderStates, Naturals, Sequences

CONSTANTS
  Events,         \* the ids of the gateway events delivered, each any number of times
  EventStatus,    \* what event e says: "paid", "authorized" or "failed" of this
                  \* payment, or "foreign": an unknown reference or another amount
  Refunds,        \* calls of createRefund
  Jobs,           \* deliveries of the order's fulfilment job
  Admins,         \* administrators editing the order's status
  Amount,         \* payment.amountMinorUnits
  None            \* no order yet, nobody holds the lock

ASSUME EventStatusAssumption ==
  EventStatus \in [Events -> {"paid", "authorized", "failed", "foreign"}]
ASSUME AmountAssumption == Amount \in Nat

VARIABLES
  checkoutPc,     \* where the call of checkout stands
  orderStatus,    \* Order.status, None before the row exists
  timeline,       \* the OrderStatusEvent rows, oldest first
  payStatus,      \* Payment.status, None before the row exists
  hasReference,   \* Payment.gatewayReference is set
  paymentLock,    \* the transaction that has updated the payment and not ended
  webhookEvents,  \* the committed WebhookEvent rows
  webhookPc,      \* where the transaction of each event stands
  webhookOrder,   \* the order status that transaction has read
  effects,        \* how many rows of each kind the order has (see Effect)
  refundPc,       \* where each call of createRefund stands
  refundFrom,     \* the order status it has read
  refundAmount,   \* Refund.amountMinorUnits
  refundSeen,     \* alreadyRefunded, as the call computed it
  refundRow,      \* Refund.status, None while there is no row
  refundedTotal,  \* the sum of the amounts of the Refund rows "succeeded"
  gatewayRefunded,\* what the gateway has really given back
  jobPc,          \* where each delivery of the job stands
  jobFrom,        \* the order status its finalisation has read
  jobTarget,      \* the status it wants
  adminPc,        \* where each administrator's call stands
  adminFrom,      \* the order status it has read
  adminTo         \* the status it was asked for

checkoutVars == <<checkoutPc, hasReference>>
orderVars    == <<orderStatus, timeline>>
webhookVars  == <<paymentLock, webhookEvents, webhookPc, webhookOrder>>
refundVars   == <<refundPc, refundFrom, refundAmount, refundSeen, refundRow,
                  refundedTotal, gatewayRefunded>>
jobVars      == <<jobPc, jobFrom, jobTarget>>
adminVars    == <<adminPc, adminFrom, adminTo>>
vars == <<checkoutVars, orderVars, payStatus, webhookVars, effects, refundVars,
          jobVars, adminVars>>

PaymentStatus == {"PENDING", "CAPTURED", "FAILED", "REFUNDED", "PARTIALLY_REFUNDED"}
RefundStatus  == {"pending", "succeeded", "failed"}
AdminTargets  == {"CANCELLED", "COMPLETED", "PARTIALLY_FULFILLED", "FAILED"}

ASSUME NoneAssumption ==
  None \notin Events \cup OrderStatus \cup PaymentStatus \cup RefundStatus

\* Rows other tables hold about this order.
Effect == {"fulfillments", "outbox_event", "invoice", "order_confirmed",
           "order_completed", "order_failed", "refund_issued"}

TypeOK ==
  /\ checkoutPc \in {"start", "order", "payment", "intent", "done", "crashed"}
  /\ orderStatus \in OrderStatus \cup {None}
  /\ timeline \in Seq([from: OrderStatus \cup {None}, to: OrderStatus])
  /\ payStatus \in PaymentStatus \cup {None}
  /\ hasReference \in BOOLEAN
  /\ paymentLock \in Events \cup {None}
  /\ webhookEvents \in SUBSET Events
  /\ webhookPc \in [Events -> {"idle", "settling", "locked"}]
  /\ webhookOrder \in [Events -> OrderStatus \cup {None}]
  /\ effects \in [Effect -> Nat]
  /\ refundPc \in [Refunds -> {"idle", "order_read", "checked", "requested",
                               "moved", "ended"}]
  /\ refundFrom \in [Refunds -> OrderStatus \cup {None}]
  /\ refundAmount \in [Refunds -> Nat]
  /\ refundSeen \in [Refunds -> Nat]
  /\ refundRow \in [Refunds -> RefundStatus \cup {None}]
  /\ refundedTotal \in Nat
  /\ gatewayRefunded \in Nat
  /\ jobPc \in [Jobs -> {"idle", "picking", "running", "finalizing", "ended"}]
  /\ jobFrom \in [Jobs -> OrderStatus \cup {None}]
  /\ jobTarget \in [Jobs -> FinalizeTargets \cup {None}]
  /\ adminPc \in [Admins -> {"idle", "checked"}]
  /\ adminFrom \in [Admins -> OrderStatus \cup {None}]
  /\ adminTo \in [Admins -> AdminTargets \cup {None}]

Init ==
  /\ checkoutPc = "start"
  /\ orderStatus = None
  /\ timeline = <<>>
  /\ payStatus = None
  /\ hasReference = FALSE
  /\ paymentLock = None
  /\ webhookEvents = {}
  /\ webhookPc = [e \in Events |-> "idle"]
  /\ webhookOrder = [e \in Events |-> None]
  /\ effects = [x \in Effect |-> 0]
  /\ refundPc = [r \in Refunds |-> "idle"]
  /\ refundFrom = [r \in Refunds |-> None]
  /\ refundAmount = [r \in Refunds |-> 0]
  /\ refundSeen = [r \in Refunds |-> 0]
  /\ refundRow = [r \in Refunds |-> None]
  /\ refundedTotal = 0
  /\ gatewayRefunded = 0
  /\ jobPc = [j \in Jobs |-> "idle"]
  /\ jobFrom = [j \in Jobs |-> None]
  /\ jobTarget = [j \in Jobs |-> None]
  /\ adminPc = [a \in Admins |-> "idle"]
  /\ adminFrom = [a \in Admins |-> None]
  /\ adminTo = [a \in Admins |-> None]

-----------------------------------------------------------------------------
\* Mutants: a plain update instead of the compare-and-set; no allow-list.
MutantPlainUpdate(from, to) == CanTransition(from, to)
MutantNoAllowList(from, to) == from # None /\ orderStatus = from

\* OrderStateMachine.transition: the allow-list, the compare-and-set on the
\* status the caller has read, the timeline row.  When it is not accepted it
\* throws, and the caller's transaction is rolled back.
Accepts(from, to) == CanTransition(from, to) /\ orderStatus = from

Transition(from, to) ==
  /\ Accepts(from, to)
  /\ orderStatus' = to
  /\ timeline' = Append(timeline, [from |-> from, to |-> to])

\* Insert one row of each kind in K.
Record(K) == effects' = [x \in Effect |-> effects[x] + IF x \in K THEN 1 ELSE 0]

-----------------------------------------------------------------------------
\* Checkout.  The order commits first; the payment, the gateway's intent and
\* its reference follow one by one, and the process may die in between.
CheckoutPlaceOrder ==
  /\ checkoutPc = "start"
  /\ checkoutPc' = "order"
  /\ orderStatus' = "PENDING_PAYMENT"
  /\ timeline' = <<[from |-> None, to |-> "DRAFT"],
                   [from |-> "DRAFT", to |-> "PENDING_PAYMENT"]>>
  /\ UNCHANGED <<hasReference, payStatus, webhookVars, effects, refundVars, jobVars,
                 adminVars>>

CheckoutCreatePayment ==
  /\ checkoutPc = "order"
  /\ checkoutPc' = "payment"
  /\ payStatus' = "PENDING"
  /\ UNCHANGED <<hasReference, orderVars, webhookVars, effects, refundVars, jobVars,
                 adminVars>>

CheckoutCreateIntent ==
  /\ checkoutPc = "payment"
  /\ checkoutPc' = "intent"
  /\ UNCHANGED <<hasReference, orderVars, payStatus, webhookVars, effects, refundVars,
                 jobVars, adminVars>>

CheckoutSaveReference ==
  /\ checkoutPc = "intent"
  /\ checkoutPc' = "done"
  /\ hasReference' = TRUE
  /\ UNCHANGED <<orderVars, payStatus, webhookVars, effects, refundVars, jobVars,
                 adminVars>>

\* The process dies, or createPaymentIntent throws: nothing resumes the call.
CheckoutCrash ==
  /\ checkoutPc \in {"order", "payment", "intent"}
  /\ checkoutPc' = "crashed"
  /\ UNCHANGED <<hasReference, orderVars, payStatus, webhookVars, effects, refundVars,
                 jobVars, adminVars>>

Checkout == \/ CheckoutPlaceOrder \/ CheckoutCreatePayment \/ CheckoutCreateIntent
            \/ CheckoutSaveReference \/ CheckoutCrash

-----------------------------------------------------------------------------
\* Webhooks.  The unique index on (source, externalEventId) makes a second
\* delivery of an event wait for the first and fail if that one committed, so
\* one transaction per event is enough; a rolled back one may be redelivered.
\* The customer learns where to pay, and the mock gateway's confirmation its
\* payment id, only from what checkout returns.
Delivered(e) ==
  /\ webhookPc[e] = "idle"
  /\ e \notin webhookEvents
  /\ EventStatus[e] = "paid" => checkoutPc = "done"

\* The event names this payment, and this payment is not settled yet.
ConcernsOpenPayment(e) ==
  /\ EventStatus[e] # "foreign"
  /\ hasReference
  /\ payStatus \notin {"CAPTURED", "FAILED"}

\* Unknown reference, payment already settled, or another amount: the event is
\* recorded and nothing else happens.
WebhookRecordOnly(e) ==
  /\ Delivered(e)
  /\ ~ConcernsOpenPayment(e)
  /\ webhookEvents' = webhookEvents \cup {e}
  /\ UNCHANGED <<checkoutVars, orderVars, payStatus, paymentLock, webhookPc, webhookOrder,
                 effects, refundVars, jobVars, adminVars>>

\* The payment was read without a lock and looked open.
WebhookAccept(e) ==
  /\ Delivered(e)
  /\ ConcernsOpenPayment(e)
  /\ webhookPc' = [webhookPc EXCEPT ![e] = "settling"]
  /\ UNCHANGED <<checkoutVars, orderVars, payStatus, paymentLock, webhookEvents,
                 webhookOrder, effects, refundVars, jobVars, adminVars>>

\* The update of the payment takes its row lock; then the order is read.  (No
\* other step between the two needs the lock, so they are one step.)
WebhookUpdatePayment(e) ==
  /\ webhookPc[e] = "settling"
  /\ paymentLock = None
  /\ paymentLock' = e
  /\ webhookPc' = [webhookPc EXCEPT ![e] = "locked"]
  /\ webhookOrder' = [webhookOrder EXCEPT ![e] = orderStatus]
  /\ UNCHANGED <<checkoutVars, orderVars, payStatus, webhookEvents, effects, refundVars,
                 jobVars, adminVars>>

\* issueInvoice finds an existing invoice before it issues one.
Invoice == IF effects["invoice"] = 0 THEN {"invoice"} ELSE {}

WebhookCommit(e) ==
  /\ webhookEvents' = webhookEvents \cup {e}
  /\ webhookPc' = [webhookPc EXCEPT ![e] = "idle"]
  /\ paymentLock' = None
  /\ webhookOrder' = [webhookOrder EXCEPT ![e] = None]

\* "paid": the order goes to PAID and on to FULFILLMENT_QUEUED, and with it
\* come one fulfilment per item, the outbox event, the customer's
\* confirmation and the invoice.
WebhookCapture(e) ==
  /\ webhookPc[e] = "locked"
  /\ EventStatus[e] = "paid"
  /\ Accepts(webhookOrder[e], "PAID")
  /\ CanTransition("PAID", "FULFILLMENT_QUEUED")
  /\ orderStatus' = "FULFILLMENT_QUEUED"
  /\ timeline' = Append(Append(timeline, [from |-> webhookOrder[e], to |-> "PAID"]),
                        [from |-> "PAID", to |-> "FULFILLMENT_QUEUED"])
  /\ payStatus' = "CAPTURED"
  /\ Record({"fulfillments", "outbox_event", "order_confirmed"} \cup Invoice)
  /\ WebhookCommit(e)
  /\ UNCHANGED <<checkoutVars, refundVars, jobVars, adminVars>>

\* Anything but "paid" fails the payment and the order.
WebhookFail(e) ==
  /\ webhookPc[e] = "locked"
  /\ EventStatus[e] # "paid"
  /\ Transition(webhookOrder[e], "FAILED")
  /\ payStatus' = "FAILED"
  /\ WebhookCommit(e)
  /\ UNCHANGED <<checkoutVars, effects, refundVars, jobVars, adminVars>>

\* Mutants: the payment is updated outside the transaction; the WebhookEvent
\* row is inserted outside it; the connection goes back to the pool with its
\* transaction open.
MutantPaymentOutside(e) ==
  /\ webhookPc' = [webhookPc EXCEPT ![e] = "idle"]
  /\ paymentLock' = IF paymentLock = e THEN None ELSE paymentLock
  /\ webhookOrder' = [webhookOrder EXCEPT ![e] = None]
  /\ payStatus' = IF EventStatus[e] = "paid" THEN "CAPTURED" ELSE "FAILED"
  /\ UNCHANGED <<checkoutVars, orderVars, webhookEvents, effects, refundVars, jobVars,
                 adminVars>>

MutantEventOutside(e) ==
  /\ webhookPc' = [webhookPc EXCEPT ![e] = "idle"]
  /\ paymentLock' = IF paymentLock = e THEN None ELSE paymentLock
  /\ webhookOrder' = [webhookOrder EXCEPT ![e] = None]
  /\ webhookEvents' = webhookEvents \cup {e}
  /\ UNCHANGED <<checkoutVars, orderVars, payStatus, effects, refundVars, jobVars,
                 adminVars>>

MutantLockLeaks(e) ==
  /\ webhookPc' = [webhookPc EXCEPT ![e] = "idle"]
  /\ webhookOrder' = [webhookOrder EXCEPT ![e] = None]
  /\ UNCHANGED <<checkoutVars, orderVars, payStatus, paymentLock, webhookEvents, effects,
                 refundVars, jobVars, adminVars>>

WebhookRollback(e) ==
  /\ webhookPc' = [webhookPc EXCEPT ![e] = "idle"]
  /\ paymentLock' = IF paymentLock = e THEN None ELSE paymentLock
  /\ webhookOrder' = [webhookOrder EXCEPT ![e] = None]
  /\ UNCHANGED <<checkoutVars, orderVars, payStatus, webhookEvents, effects, refundVars,
                 jobVars, adminVars>>

\* The state machine throws: everything, the WebhookEvent row included, is
\* rolled back and the gateway gets an error.
WebhookThrow(e) ==
  /\ webhookPc[e] = "locked"
  /\ ~Accepts(webhookOrder[e], IF EventStatus[e] = "paid" THEN "PAID" ELSE "FAILED")
  /\ WebhookRollback(e)

\* The process or its connection dies inside the transaction.
WebhookCrash(e) ==
  /\ webhookPc[e] \in {"settling", "locked"}
  /\ WebhookRollback(e)

Webhook(e) == \/ WebhookRecordOnly(e) \/ WebhookAccept(e) \/ WebhookUpdatePayment(e)
              \/ WebhookCapture(e) \/ WebhookFail(e) \/ WebhookThrow(e) \/ WebhookCrash(e)

-----------------------------------------------------------------------------
\* Refunds.  A call that is turned away has written nothing and may be made
\* again.
RefundReadOrder(r) ==
  /\ refundPc[r] = "idle"
  /\ orderStatus \in RefundableStatuses
  /\ refundPc' = [refundPc EXCEPT ![r] = "order_read"]
  /\ refundFrom' = [refundFrom EXCEPT ![r] = orderStatus]
  /\ UNCHANGED <<checkoutVars, orderVars, payStatus, webhookVars, effects, refundAmount,
                 refundSeen, refundRow, refundedTotal, gatewayRefunded, jobVars, adminVars>>

\* The payments and the refunds of the order are read after the order.
RefundCheck(r) ==
  /\ refundPc[r] = "order_read"
  /\ payStatus \in {"CAPTURED", "PARTIALLY_REFUNDED"}
  /\ \E amount \in 1 .. Amount :
       /\ amount + refundedTotal <= Amount
       /\ refundAmount' = [refundAmount EXCEPT ![r] = amount]
  /\ refundPc' = [refundPc EXCEPT ![r] = "checked"]
  /\ refundSeen' = [refundSeen EXCEPT ![r] = refundedTotal]
  /\ UNCHANGED <<checkoutVars, orderVars, payStatus, webhookVars, effects, refundFrom,
                 refundRow, refundedTotal, gatewayRefunded, jobVars, adminVars>>

\* No captured payment, the refund window is over, nothing left to refund, or
\* an amount that is not in range.
RefundTurnedAway(r) ==
  /\ refundPc[r] = "order_read"
  /\ refundPc' = [refundPc EXCEPT ![r] = "idle"]
  /\ refundFrom' = [refundFrom EXCEPT ![r] = None]
  /\ UNCHANGED <<checkoutVars, orderVars, payStatus, webhookVars, effects, refundAmount,
                 refundSeen, refundRow, refundedTotal, gatewayRefunded, jobVars, adminVars>>

\* The first transaction: the Refund row and the move to REFUND_PENDING.
RefundRequest(r) ==
  /\ refundPc[r] = "checked"
  /\ Transition(refundFrom[r], "REFUND_PENDING")
  /\ refundPc' = [refundPc EXCEPT ![r] = "requested"]
  /\ refundRow' = [refundRow EXCEPT ![r] = "pending"]
  /\ refundFrom' = [refundFrom EXCEPT ![r] = None]
  /\ UNCHANGED <<checkoutVars, payStatus, webhookVars, effects, refundAmount, refundSeen,
                 refundedTotal, gatewayRefunded, jobVars, adminVars>>

RefundConflict(r) ==
  /\ refundPc[r] = "checked"
  /\ ~Accepts(refundFrom[r], "REFUND_PENDING")
  /\ refundPc' = [refundPc EXCEPT ![r] = "idle"]
  /\ refundFrom' = [refundFrom EXCEPT ![r] = None]
  /\ refundAmount' = [refundAmount EXCEPT ![r] = 0]
  /\ refundSeen' = [refundSeen EXCEPT ![r] = 0]
  /\ UNCHANGED <<checkoutVars, orderVars, payStatus, webhookVars, effects, refundRow,
                 refundedTotal, gatewayRefunded, jobVars, adminVars>>

\* The gateway gives the money back and says so.
RefundGatewayPays(r) ==
  /\ refundPc[r] = "requested"
  /\ refundPc' = [refundPc EXCEPT ![r] = "moved"]
  /\ gatewayRefunded' = gatewayRefunded + refundAmount[r]
  /\ UNCHANGED <<checkoutVars, orderVars, payStatus, webhookVars, effects, refundFrom,
                 refundAmount, refundSeen, refundRow, refundedTotal, jobVars, adminVars>>

\* It declines: the row is "failed" and the order stays in REFUND_PENDING.
RefundGatewayDeclines(r) ==
  /\ refundPc[r] = "requested"
  /\ refundPc' = [refundPc EXCEPT ![r] = "ended"]
  /\ refundRow' = [refundRow EXCEPT ![r] = "failed"]
  /\ UNCHANGED <<checkoutVars, orderVars, payStatus, webhookVars, effects, refundFrom,
                 refundAmount, refundSeen, refundedTotal, gatewayRefunded, jobVars,
                 adminVars>>

\* The process dies, the gateway's answer is lost whether or not the money has
\* moved, or the second transaction throws: the call ends with its row still
\* "pending".
RefundCrash(r) ==
  /\ refundPc[r] \in {"requested", "moved"}
  /\ refundPc' = [refundPc EXCEPT ![r] = "ended"]
  /\ \/ UNCHANGED gatewayRefunded
     \/ /\ refundPc[r] = "requested"
        /\ gatewayRefunded' = gatewayRefunded + refundAmount[r]
  /\ UNCHANGED <<checkoutVars, orderVars, payStatus, webhookVars, effects, refundFrom,
                 refundAmount, refundSeen, refundRow, refundedTotal, jobVars, adminVars>>

\* Mutant: strictly more than the payment.
MutantIsFullStrict(r) == refundSeen[r] + refundAmount[r] > Amount

RefundIsFull(r) == refundSeen[r] + refundAmount[r] >= Amount

\* The second transaction: the row, the payment, the order, the notification.
\* It updates the payment, so it waits for a webhook that holds its lock.
RefundBook(r) ==
  LET outcome == IF RefundIsFull(r) THEN "REFUNDED" ELSE "PARTIALLY_REFUNDED"
  IN /\ refundPc[r] = "moved"
     /\ paymentLock = None
     /\ Transition("REFUND_PENDING", outcome)
     /\ payStatus' = outcome
     /\ refundPc' = [refundPc EXCEPT ![r] = "ended"]
     /\ refundRow' = [refundRow EXCEPT ![r] = "succeeded"]
     /\ refundedTotal' = refundedTotal + refundAmount[r]
     /\ Record({"refund_issued"})
     /\ UNCHANGED <<checkoutVars, webhookVars, refundFrom, refundAmount, refundSeen,
                    gatewayRefunded, jobVars, adminVars>>

Refund(r) == \/ RefundReadOrder(r) \/ RefundCheck(r) \/ RefundTurnedAway(r)
             \/ RefundRequest(r) \/ RefundConflict(r) \/ RefundGatewayPays(r)
             \/ RefundGatewayDeclines(r) \/ RefundCrash(r) \/ RefundBook(r)

-----------------------------------------------------------------------------
\* Worker jobs, which exist once the outbox event does.  What happens to the
\* items in between is any outcome here.
JobStart(j) ==
  /\ jobPc[j] = "idle"
  /\ effects["outbox_event"] > 0
  /\ \/ /\ orderStatus = "FULFILLMENT_QUEUED"
        /\ jobPc' = [jobPc EXCEPT ![j] = "picking"]
     \/ /\ orderStatus = "PROCESSING"
        /\ jobPc' = [jobPc EXCEPT ![j] = "running"]
  /\ UNCHANGED <<checkoutVars, orderVars, payStatus, webhookVars, effects, refundVars,
                 jobFrom, jobTarget, adminVars>>

JobPickUp(j) ==
  /\ jobPc[j] = "picking"
  /\ Transition("FULFILLMENT_QUEUED", "PROCESSING")
  /\ jobPc' = [jobPc EXCEPT ![j] = "running"]
  /\ UNCHANGED <<checkoutVars, payStatus, webhookVars, effects, refundVars, jobFrom,
                 jobTarget, adminVars>>

\* finalizeOrderFulfillmentStatus: the target follows from the fulfilments,
\* then the order is read; when it is there already the job is over.
JobDecide(j) ==
  /\ jobPc[j] = "running"
  /\ \E target \in FinalizeTargets \ {orderStatus} :
       jobTarget' = [jobTarget EXCEPT ![j] = target]
  /\ jobPc' = [jobPc EXCEPT ![j] = "finalizing"]
  /\ jobFrom' = [jobFrom EXCEPT ![j] = orderStatus]
  /\ UNCHANGED <<checkoutVars, orderVars, payStatus, webhookVars, effects, refundVars,
                 adminVars>>

\* What the customer is told when an order ends in status s.
Notice(s) == CASE s = "COMPLETED" -> {"order_completed"}
               [] s = "FAILED"    -> {"order_failed"}
               [] OTHER           -> {}

JobReturn(j) ==
  /\ jobPc' = [jobPc EXCEPT ![j] = "ended"]
  /\ jobFrom' = [jobFrom EXCEPT ![j] = None]
  /\ jobTarget' = [jobTarget EXCEPT ![j] = None]

JobFinalize(j) ==
  /\ jobPc[j] = "finalizing"
  /\ Transition(jobFrom[j], jobTarget[j])
  /\ Record(Notice(jobTarget[j]))
  /\ JobReturn(j)
  /\ UNCHANGED <<checkoutVars, payStatus, webhookVars, refundVars, adminVars>>

\* The job returns because a fulfilment is still pending or the order is in
\* its target already, dies, or loses the race for the order and throws.
JobEnd(j) ==
  /\ \/ jobPc[j] = "running"
     \/ jobPc[j] = "picking" /\ ~Accepts("FULFILLMENT_QUEUED", "PROCESSING")
     \/ jobPc[j] = "finalizing" /\ ~Accepts(jobFrom[j], jobTarget[j])
  /\ JobReturn(j)
  /\ UNCHANGED <<checkoutVars, orderVars, payStatus, webhookVars, effects, refundVars,
                 adminVars>>

Job(j) == JobStart(j) \/ JobPickUp(j) \/ JobDecide(j) \/ JobFinalize(j) \/ JobEnd(j)

-----------------------------------------------------------------------------
\* Administrators: the allowed targets are looked up in the status read
\* before the transaction.
AdminCheck(a) ==
  /\ adminPc[a] = "idle"
  /\ orderStatus # None
  /\ \E to \in AdminManualTransitions(orderStatus) :
       adminTo' = [adminTo EXCEPT ![a] = to]
  /\ adminPc' = [adminPc EXCEPT ![a] = "checked"]
  /\ adminFrom' = [adminFrom EXCEPT ![a] = orderStatus]
  /\ UNCHANGED <<checkoutVars, orderVars, payStatus, webhookVars, effects, refundVars,
                 jobVars>>

AdminReturn(a) ==
  /\ adminPc' = [adminPc EXCEPT ![a] = "idle"]
  /\ adminFrom' = [adminFrom EXCEPT ![a] = None]
  /\ adminTo' = [adminTo EXCEPT ![a] = None]

AdminUpdate(a) ==
  /\ adminPc[a] = "checked"
  /\ Transition(adminFrom[a], adminTo[a])
  /\ Record(Notice(adminTo[a]))
  /\ AdminReturn(a)
  /\ UNCHANGED <<checkoutVars, payStatus, webhookVars, refundVars, jobVars>>

\* 409: the order has changed since it was loaded.
AdminConflict(a) ==
  /\ adminPc[a] = "checked"
  /\ ~Accepts(adminFrom[a], adminTo[a])
  /\ AdminReturn(a)
  /\ UNCHANGED <<checkoutVars, orderVars, payStatus, webhookVars, effects, refundVars,
                 jobVars>>

Admin(a) == AdminCheck(a) \/ AdminUpdate(a) \/ AdminConflict(a)

-----------------------------------------------------------------------------
Next == \/ Checkout
        \/ \E e \in Events : Webhook(e)
        \/ \E r \in Refunds : Refund(r)
        \/ \E j \in Jobs : Job(j)
        \/ \E a \in Admins : Admin(a)

Spec == Init /\ [][Next]_vars

\* PostgreSQL ends a transaction it has begun and serves the waiters of a row
\* lock in turn; a called process runs on unless it dies; the gateway redelivers
\* an event until it gets a success, and not every attempt dies half way.
Fairness ==
  /\ \A e \in Events :
       /\ WF_vars(WebhookRecordOnly(e) \/ WebhookAccept(e))
       /\ SF_vars(WebhookUpdatePayment(e))
       /\ SF_vars(WebhookCapture(e) \/ WebhookFail(e))
       /\ WF_vars(WebhookThrow(e))
  /\ \A r \in Refunds :
       /\ WF_vars(RefundCheck(r) \/ RefundTurnedAway(r) \/ RefundRequest(r)
                  \/ RefundConflict(r) \/ RefundGatewayPays(r)
                  \/ RefundGatewayDeclines(r))
       /\ SF_vars(RefundBook(r))
  /\ \A j \in Jobs : WF_vars(JobPickUp(j) \/ JobDecide(j) \/ JobFinalize(j) \/ JobEnd(j))
  /\ \A a \in Admins : WF_vars(AdminUpdate(a) \/ AdminConflict(a))

FairSpec == Spec /\ Fairness

-----------------------------------------------------------------------------
(***************************************************************************)
(* Properties.                                                             *)
(***************************************************************************)
WasPaid == \E i \in 1 .. Len(timeline) : timeline[i].to = "PAID"

\* The entries of t lead, one allowed transition after another, to status s.
Explains(t, s) ==
  /\ t[1] = [from |-> None, to |-> "DRAFT"]
  /\ t[Len(t)].to = s
  /\ \A i \in 1 .. (Len(t) - 1) : /\ t[i + 1].from = t[i].to
                               /\ CanTransition(t[i].to, t[i + 1].to)

\* The timeline customers and staff are shown is the order's true history: it
\* starts with the order's creation, every entry starts where the one before
\* ended, each is an allowed transition, and the last one ends in the status
\* the order has, whatever webhooks, refunds, jobs and administrators do at
\* once (OrderStateMachine.transition and its callers).
TimelineExplainsStatus ==
  /\ orderStatus = None <=> timeline = <<>>
  /\ timeline # <<>> => Explains(timeline, orderStatus)

\* However often and in whatever order the gateway's events arrive, an order
\* that was ever PAID has exactly one outbox event, one set of fulfilments, one
\* confirmation and one invoice, and one that never was has none
\* (processGatewayEvent).
CaptureHappensOnce ==
  \A x \in {"outbox_event", "fulfillments", "order_confirmed", "invoice"} :
    effects[x] = IF WasPaid THEN 1 ELSE 0

\* A payment only counts as captured, or as refunded after that, when its order
\* went through PAID (the payment update and the two transitions are one
\* transaction).
CapturedMeansPaid ==
  payStatus \in {"CAPTURED", "REFUNDED", "PARTIALLY_REFUNDED"} => WasPaid

\* The customer is told that the order is complete, or that it failed, at most
\* once and never both, although workers and administrators both close orders.
OneClosingNotice == effects["order_completed"] + effects["order_failed"] <= 1

\* Two administrators who refund the same order at once cannot both get as far
\* as a Refund row, so the gateway is asked at most once per order.
AtMostOneRefund ==
  \A r, s \in Refunds : refundRow[r] # None /\ refundRow[s] # None => r = s

\* The gateway never gives back more than was paid, and the books never claim
\* a refund the gateway has not made.
RefundsAreCovered == refundedTotal <= gatewayRefunded /\ gatewayRefunded <= Amount

\* Nothing moves an order out of REFUND_PENDING while its refund is at the
\* gateway, and its payment stays captured: the second transaction of
\* createRefund, which runs after the money has moved, cannot be refused.
RefundCanBeBooked ==
  \A r \in Refunds : refundPc[r] \in {"requested", "moved"} =>
    orderStatus = "REFUND_PENDING" /\ payStatus = "CAPTURED"

\* The payment and the order agree on how much went back, and "REFUNDED" means
\* that the gateway has given back everything.
PaymentMirrorsRefund ==
  /\ \A s \in {"REFUNDED", "PARTIALLY_REFUNDED"} : payStatus = s <=> orderStatus = s
  /\ orderStatus = "REFUNDED" => gatewayRefunded = Amount
  /\ orderStatus = "PARTIALLY_REFUNDED" => gatewayRefunded \in 1 .. (Amount - 1)

\* Refinement: webhooks, refund calls, jobs and administrators, each with what
\* it has read before, together do no more than the purchase promises: no
\* second capture, no money back to somebody who has not paid, no second
\* refund, and no word that an order is complete or failed after money went back.
Buyer == INSTANCE Purchase WITH
           Price <- Amount, paid <- WasPaid, returned <- gatewayRefunded,
           announced <- effects["refund_issued"],
           closing <- [completed |-> effects["order_completed"],
                       failed |-> effects["order_failed"]]

ImplementsPurchase == Buyer!Spec

\* A late webhook, a late worker or an administrator with an old page never
\* puts an order that entered the refund flow, or was cancelled, back to work.
RefundFlow == {"REFUND_PENDING", "PARTIALLY_REFUNDED", "REFUNDED"}

NoWayBack ==
  [][ /\ orderStatus \in RefundFlow => orderStatus' \in RefundFlow
      /\ orderStatus = "CANCELLED" => orderStatus' = "CANCELLED"
      /\ orderStatus = "REFUNDED" => orderStatus' = "REFUNDED" ]_vars

\* Once checkout is over and the gateway reports the payment, the order does
\* not stay in PENDING_PAYMENT, although transactions may die, wait for each
\* other and be redelivered.
PaymentIsNoticed ==
  ( /\ hasReference
    /\ orderStatus = "PENDING_PAYMENT"
    /\ \E e \in Events : EventStatus[e] = "paid" )
  ~> orderStatus # "PENDING_PAYMENT"

\* No call waits for ever: the row locks of webhooks and refunds cannot block
\* each other for good.
NoCallHangs ==
  /\ \A e \in Events : webhookPc[e] # "idle" ~> webhookPc[e] = "idle"
  /\ \A r \in Refunds : refundPc[r] \in {"order_read", "checked", "requested", "moved"}
       ~> refundPc[r] \in {"idle", "ended"}
  /\ \A j \in Jobs : jobPc[j] \in {"picking", "running", "finalizing"} ~> jobPc[j] = "ended"
  /\ \A a \in Admins : adminPc[a] = "checked" ~> adminPc[a] = "idle"

-----------------------------------------------------------------------------
\* What comments in the code say and the code does not do.

\* An order that was paid keeps its captured payment: "a bad webhook or a
\* retried job can never silently push an order into an inconsistent state"
\* (order-state-machine.ts).
PaidOrderKeepsItsMoney ==
  WasPaid => payStatus \in {"CAPTURED", "REFUNDED", "PARTIALLY_REFUNDED"}

\* Declined by the gateway, a refund leaves the order in "a legitimate resting
\* state for an admin to investigate or retry" (admin-refunds.service.ts): an
\* administrator who keeps trying gets a second attempt.
AdminsRetryRefunds ==
  \A r \in Refunds :
    /\ SF_vars(RefundReadOrder(r))
    /\ SF_vars(RefundCheck(r))
    /\ SF_vars(RefundRequest(r))

RetrySpec == FairSpec /\ AdminsRetryRefunds

DeclinedRefundCanBeRetried ==
  \A r \in Refunds :
    refundRow[r] = "failed" ~> \E s \in Refunds \ {r} : refundRow[s] # None

\* An event for a payment that is "already settled (e.g. gateway resent with a
\* new event id for the same payment)" is recorded for audit and acknowledged
\* (payments.service.ts).
SettledPaymentAcknowledges ==
  \A e \in Events :
    payStatus \in {"CAPTURED", "REFUNDED", "PARTIALLY_REFUNDED"} ~> e \in webhookEvents
=============================================================================
