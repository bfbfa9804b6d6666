-------------------------- MODULE Settlement_proofs --------------------------
(***************************************************************************)
(* Proofs about Settlement, for any sets of events, refund calls, jobs and *)
(* administrators and any amount.                                          *)
(***************************************************************************)
EXTENDS Settlement, TLAPS

-----------------------------------------------------------------------------
(***************************************************************************)
(* The inductive strengthenings the proofs of these invariants need.       *)
(***************************************************************************)
BeforePayment == {"DRAFT", "PENDING_PAYMENT", "PAYMENT_REVIEW"}

\* Statuses an order only has while its captured money is all there.
MoneyIsHeld == {"PAID", "FULFILLMENT_QUEUED", "PROCESSING", "PARTIALLY_FULFILLED",
                "MANUAL_REVIEW", "COMPLETED", "REFUND_PENDING"}

CheckoutInv ==
  /\ checkoutPc = "start" <=> orderStatus = None
  /\ checkoutPc \in {"start", "order"} => payStatus = None

\* No event concerns the payment before checkout is over.
ReferenceInv ==
  /\ hasReference => checkoutPc = "done"
  /\ \A e \in Events : webhookPc[e] # "idle" => hasReference

HeldMeansCaptured == orderStatus \in MoneyIsHeld => payStatus = "CAPTURED"

\* A call that has read the order but has no row yet.  An order only enters
\* FAILED once, so a call that found it FAILED and captured may rely on it.
RefundReadInv ==
  \A r \in Refunds : refundPc[r] \in {"order_read", "checked"} =>
    /\ refundRow[r] = None
    /\ refundFrom[r] \in RefundableStatuses
    /\ refundFrom[r] = "FAILED" => orderStatus \in {"FAILED", "CANCELLED"} \cup RefundFlow
    /\ refundPc[r] = "checked" =>
         /\ refundAmount[r] \in 1 .. Amount
         /\ orderStatus \notin RefundFlow => refundSeen[r] = 0
         /\ refundFrom[r] = "FAILED" /\ orderStatus = "FAILED" => payStatus = "CAPTURED"

\* A call that has its row, and where its money is.
RefundRowInv ==
  \A r \in Refunds :
    /\ refundPc[r] = "idle" => refundRow[r] = None
    /\ refundRow[r] # None => orderStatus \in RefundFlow
    /\ refundPc[r] \in {"requested", "moved"} =>
         /\ refundRow[r] = "pending"
         /\ orderStatus = "REFUND_PENDING"
         /\ refundSeen[r] = 0
         /\ refundAmount[r] \in 1 .. Amount
         /\ gatewayRefunded = IF refundPc[r] = "moved" THEN refundAmount[r] ELSE 0

BooksInv ==
  /\ orderStatus \notin RefundFlow => gatewayRefunded = 0
  /\ refundedTotal = IF orderStatus \in {"PARTIALLY_REFUNDED", "REFUNDED"}
                     THEN gatewayRefunded ELSE 0
  /\ gatewayRefunded <= Amount

RefundInv ==
  /\ CheckoutInv
  /\ HeldMeansCaptured
  /\ RefundReadInv
  /\ RefundRowInv
  /\ AtMostOneRefund
  /\ BooksInv
  /\ PaymentMirrorsRefund

HistoryInv ==
  /\ TimelineExplainsStatus
  /\ orderStatus \in BeforePayment \cup {None} => ~WasPaid
  /\ CaptureHappensOnce
  /\ CapturedMeansPaid

\* Where an order can be once its customer has been told how it ended.
NoticeInv ==
  /\ OneClosingNotice
  /\ effects["order_completed"] + effects["order_failed"] > 0 =>
       orderStatus \in {"COMPLETED", "FAILED", "CANCELLED"} \cup RefundFlow

\* Jobs exist for captured orders only, an administrator asks for what the table
\* allows, and a refund is announced when it is booked.
BuyerInv ==
  /\ \A j \in Jobs : jobPc[j] # "idle" => effects["outbox_event"] > 0
  /\ \A a \in Admins : adminPc[a] = "checked" =>
       adminTo[a] \in AdminManualTransitions(adminFrom[a])
  /\ effects["refund_issued"] =
       IF orderStatus \in {"PARTIALLY_REFUNDED", "REFUNDED"} THEN 1 ELSE 0

-----------------------------------------------------------------------------

\* The status graph is a relation on the statuses.
LEMMA TransitionTypes ==
  ASSUME NEW from, NEW to, CanTransition(from, to)
  PROVE  from \in OrderStatus /\ to \in OrderStatus
BY DEF CanTransition, AllowedTransitions, OrderStatus

\* A transition keeps the order row and its timeline well typed.
LEMMA TransitionKeepsTypes ==
  ASSUME TypeOK, NEW from, NEW to, Transition(from, to)
  PROVE  /\ orderStatus' \in OrderStatus \cup {None}
         /\ timeline' \in Seq([from: OrderStatus \cup {None}, to: OrderStatus])
<1>1. from \in OrderStatus /\ to \in OrderStatus
  BY TransitionTypes DEF Transition, Accepts
<1>2. QED BY <1>1 DEF Transition, TypeOK

\* Adding rows keeps the counters natural numbers.
LEMMA RecordKeepsTypes ==
  ASSUME TypeOK, NEW K, Record(K)
  PROVE  effects' \in [Effect -> Nat]
BY DEF TypeOK, Record

\* Type correctness: every variable of Settlement stays in its set
\* (order-state-machine.ts and the four services that use it).
LEMMA TypeStep == TypeOK /\ [Next]_vars => TypeOK'
<1> SUFFICES ASSUME TypeOK, [Next]_vars PROVE TypeOK'
  OBVIOUS
<1> USE DEF checkoutVars, orderVars, webhookVars, refundVars, jobVars, adminVars
<1>1. CASE UNCHANGED vars
  BY <1>1 DEF TypeOK, vars
<1>2. CASE Checkout
  <2>1. CASE CheckoutPlaceOrder
    BY <2>1 DEF TypeOK, CheckoutPlaceOrder, OrderStatus
  <2>2. CASE CheckoutCreatePayment \/ CheckoutCreateIntent \/ CheckoutSaveReference
             \/ CheckoutCrash
    BY <2>2 DEF TypeOK, CheckoutCreatePayment, CheckoutCreateIntent,
                CheckoutSaveReference, CheckoutCrash, PaymentStatus
  <2>3. QED BY <1>2, <2>1, <2>2 DEF Checkout
<1>3. ASSUME NEW e \in Events, Webhook(e) PROVE TypeOK'
  <2>1. CASE WebhookRecordOnly(e)
    BY <2>1 DEF TypeOK, WebhookRecordOnly
  <2>2. CASE WebhookAccept(e)
    BY <2>2 DEF TypeOK, WebhookAccept
  <2>3. CASE WebhookUpdatePayment(e)
    BY <2>3 DEF TypeOK, WebhookUpdatePayment
  <2>4. CASE WebhookCapture(e)
    <3>1. webhookOrder[e] \in OrderStatus
      BY <2>4, TransitionTypes DEF WebhookCapture, Accepts
    <3> DEFINE Entry == [from: OrderStatus \cup {None}, to: OrderStatus]
    <3>2. timeline' \in Seq(Entry)
      <4>1. /\ [from |-> webhookOrder[e], to |-> "PAID"] \in Entry
            /\ [from |-> "PAID", to |-> "FULFILLMENT_QUEUED"] \in Entry
        BY <3>1 DEF OrderStatus
      <4>2. timeline \in Seq(Entry)
        BY DEF TypeOK
      <4> HIDE DEF Entry
      <4>3. QED BY <2>4, <4>1, <4>2 DEF WebhookCapture
    <3>3. effects' \in [Effect -> Nat]
      BY <2>4, RecordKeepsTypes DEF WebhookCapture
    <3>4. QED BY <2>4, <3>2, <3>3 DEF TypeOK, WebhookCapture, WebhookCommit, OrderStatus,
                                      PaymentStatus
  <2>5. CASE WebhookFail(e)
    <3>1. /\ orderStatus' \in OrderStatus \cup {None}
          /\ timeline' \in Seq([from: OrderStatus \cup {None}, to: OrderStatus])
      BY <2>5, TransitionKeepsTypes DEF WebhookFail
    <3>2. QED BY <2>5, <3>1 DEF TypeOK, WebhookFail, WebhookCommit, PaymentStatus
  <2>6. CASE WebhookThrow(e) \/ WebhookCrash(e)
    BY <2>6 DEF TypeOK, WebhookThrow, WebhookCrash, WebhookRollback
  <2>7. QED BY <1>3, <2>1, <2>2, <2>3, <2>4, <2>5, <2>6 DEF Webhook
<1>4. ASSUME NEW r \in Refunds, Refund(r) PROVE TypeOK'
  <2>1. CASE RefundReadOrder(r)
    BY <2>1 DEF TypeOK, RefundReadOrder
  <2>2. CASE RefundCheck(r)
    BY <2>2, AmountAssumption DEF TypeOK, RefundCheck
  <2>3. CASE RefundTurnedAway(r)
    BY <2>3 DEF TypeOK, RefundTurnedAway
  <2>4. CASE RefundRequest(r)
    <3>1. /\ orderStatus' \in OrderStatus \cup {None}
          /\ timeline' \in Seq([from: OrderStatus \cup {None}, to: OrderStatus])
      BY <2>4, TransitionKeepsTypes DEF RefundRequest
    <3>2. QED BY <2>4, <3>1 DEF TypeOK, RefundRequest, RefundStatus
  <2>5. CASE RefundConflict(r)
    BY <2>5 DEF TypeOK, RefundConflict
  <2>6. CASE RefundGatewayPays(r) \/ RefundGatewayDeclines(r) \/ RefundCrash(r)
    <3>1. gatewayRefunded' \in Nat
      BY <2>6 DEF TypeOK, RefundGatewayPays, RefundGatewayDeclines, RefundCrash
    <3>2. QED BY <2>6, <3>1 DEF TypeOK, RefundGatewayPays, RefundGatewayDeclines,
                                RefundCrash, RefundStatus
  <2>7. CASE RefundBook(r)
    <3>1. /\ orderStatus' \in OrderStatus \cup {None}
          /\ timeline' \in Seq([from: OrderStatus \cup {None}, to: OrderStatus])
      BY <2>7, TransitionKeepsTypes DEF RefundBook
    <3>2. effects' \in [Effect -> Nat]
      BY <2>7, RecordKeepsTypes DEF RefundBook
    <3>3. QED BY <2>7, <3>1, <3>2 DEF TypeOK, RefundBook, PaymentStatus, RefundStatus
  <2>8. QED BY <1>4, <2>1, <2>2, <2>3, <2>4, <2>5, <2>6, <2>7 DEF Refund
<1>5. ASSUME NEW j \in Jobs, Job(j) PROVE TypeOK'
  <2>1. CASE JobStart(j)
    BY <2>1 DEF TypeOK, JobStart
  <2>2. CASE JobPickUp(j)
    <3>1. /\ orderStatus' \in OrderStatus \cup {None}
          /\ timeline' \in Seq([from: OrderStatus \cup {None}, to: OrderStatus])
      BY <2>2, TransitionKeepsTypes DEF JobPickUp
    <3>2. QED BY <2>2, <3>1 DEF TypeOK, JobPickUp
  <2>3. CASE JobDecide(j)
    BY <2>3 DEF TypeOK, JobDecide
  <2>4. CASE JobFinalize(j)
    <3>1. /\ orderStatus' \in OrderStatus \cup {None}
          /\ timeline' \in Seq([from: OrderStatus \cup {None}, to: OrderStatus])
      BY <2>4, TransitionKeepsTypes DEF JobFinalize
    <3>2. effects' \in [Effect -> Nat]
      BY <2>4, RecordKeepsTypes DEF JobFinalize
    <3>3. QED BY <2>4, <3>1, <3>2 DEF TypeOK, JobFinalize, JobReturn
  <2>5. CASE JobEnd(j)
    BY <2>5 DEF TypeOK, JobEnd, JobReturn
  <2>6. QED BY <1>5, <2>1, <2>2, <2>3, <2>4, <2>5 DEF Job
<1>6. ASSUME NEW a \in Admins, Admin(a) PROVE TypeOK'
  <2>1. CASE AdminCheck(a)
    BY <2>1 DEF TypeOK, AdminCheck, AdminManualTransitions, AdminTargets
  <2>2. CASE AdminUpdate(a)
    <3>1. /\ orderStatus' \in OrderStatus \cup {None}
          /\ timeline' \in Seq([from: OrderStatus \cup {None}, to: OrderStatus])
      BY <2>2, TransitionKeepsTypes DEF AdminUpdate
    <3>2. effects' \in [Effect -> Nat]
      BY <2>2, RecordKeepsTypes DEF AdminUpdate
    <3>3. QED BY <2>2, <3>1, <3>2 DEF TypeOK, AdminUpdate, AdminReturn
  <2>3. CASE AdminConflict(a)
    BY <2>3 DEF TypeOK, AdminConflict, AdminReturn
  <2>4. QED BY <1>6, <2>1, <2>2, <2>3 DEF Admin
<1>7. QED BY <1>1, <1>2, <1>3, <1>4, <1>5, <1>6 DEF Next

THEOREM TypeCorrect == Spec => []TypeOK
<1>1. Init => TypeOK
  <2> SUFFICES ASSUME Init PROVE TypeOK
    OBVIOUS
  <2>1. timeline \in Seq([from: OrderStatus \cup {None}, to: OrderStatus])
    BY DEF Init
  <2>2. QED BY <2>1 DEF Init, TypeOK
<1>2. QED BY <1>1, TypeStep, PTL DEF Spec

-----------------------------------------------------------------------------
\* A webhook transaction that touches the payment runs only after checkout has
\* stored the gateway's reference.
LEMMA ReferenceStep == TypeOK /\ ReferenceInv /\ [Next]_vars => ReferenceInv'
<1> SUFFICES ASSUME TypeOK, ReferenceInv, [Next]_vars PROVE ReferenceInv'
  OBVIOUS
<1> USE DEF checkoutVars, webhookVars
<1>1. CASE Checkout
  BY <1>1 DEF ReferenceInv, Checkout, CheckoutPlaceOrder, CheckoutCreatePayment,
              CheckoutCreateIntent, CheckoutSaveReference, CheckoutCrash
<1>2. ASSUME NEW e \in Events, Webhook(e) PROVE ReferenceInv'
  <2>1. UNCHANGED checkoutVars
    BY <1>2 DEF Webhook, WebhookRecordOnly, WebhookAccept, WebhookUpdatePayment, WebhookCapture,
                WebhookFail, WebhookThrow, WebhookCrash, WebhookRollback
  <2>2. \A f \in Events : webhookPc'[f] # "idle" => f = e \/ webhookPc[f] # "idle"
    BY <1>2 DEF TypeOK, Webhook, WebhookRecordOnly, WebhookAccept, WebhookUpdatePayment,
                WebhookCapture, WebhookFail, WebhookThrow, WebhookCrash, WebhookRollback,
                WebhookCommit
  <2>3. webhookPc'[e] # "idle" => hasReference
    BY <1>2 DEF TypeOK, ReferenceInv, Webhook, WebhookRecordOnly, WebhookAccept,
                ConcernsOpenPayment, WebhookUpdatePayment, WebhookCapture, WebhookFail,
                WebhookThrow, WebhookCrash, WebhookRollback, WebhookCommit
  <2>4. QED BY <2>1, <2>2, <2>3 DEF ReferenceInv
<1>3. CASE UNCHANGED vars
  BY <1>3 DEF vars, ReferenceInv
<1>4. CASE \E r \in Refunds : Refund(r)
  <2>1. UNCHANGED <<checkoutVars, webhookVars>>
    BY <1>4 DEF Refund, RefundReadOrder, RefundCheck, RefundTurnedAway, RefundRequest,
                RefundConflict, RefundGatewayPays, RefundGatewayDeclines, RefundCrash, RefundBook
  <2>2. QED BY <2>1 DEF ReferenceInv
<1>5. CASE \E j \in Jobs : Job(j)
  <2>1. UNCHANGED <<checkoutVars, webhookVars>>
    BY <1>5 DEF Job, JobStart, JobPickUp, JobDecide, JobFinalize, JobEnd
  <2>2. QED BY <2>1 DEF ReferenceInv
<1>6. CASE \E a \in Admins : Admin(a)
  <2>1. UNCHANGED <<checkoutVars, webhookVars>>
    BY <1>6 DEF Admin, AdminCheck, AdminUpdate, AdminConflict
  <2>2. QED BY <2>1 DEF ReferenceInv
<1>7. QED BY <1>1, <1>2, <1>3, <1>4, <1>5, <1>6 DEF Next

-----------------------------------------------------------------------------
(***************************************************************************)
(* Refunds.                                                                *)
(***************************************************************************)

\* What the status graph says about refunds: nothing leaves the refund flow,
\* only money that is held or a failed order enters it, and a closing status
\* is reached only from where the money is held.
LEMMA RefundGraph ==
  ASSUME NEW from, NEW to, CanTransition(from, to)
  PROVE  /\ from \in RefundFlow => to \in {"PARTIALLY_REFUNDED", "REFUNDED"}
         /\ from # "REFUNDED" /\ from # "CANCELLED"
         /\ to \in RefundFlow => from \in RefundFlow \cup MoneyIsHeld \cup {"FAILED"}
         /\ to \in MoneyIsHeld => from \in MoneyIsHeld \cup BeforePayment \cup {"FAILED"}
         /\ to \in MoneyIsHeld \ {"PAID", "REFUND_PENDING"} => from \in MoneyIsHeld
         /\ to \in BeforePayment => from \in BeforePayment
         /\ from = "FAILED" => to \in {"REFUND_PENDING", "CANCELLED"}
         /\ from = "REFUND_PENDING" => to \in {"PARTIALLY_REFUNDED", "REFUNDED"}
         /\ to = "PAID" => from \in BeforePayment
BY DEF CanTransition, AllowedTransitions, OrderStatus, RefundFlow, MoneyIsHeld, BeforePayment

\* Steps that touch neither the order, the payment, the refunds nor checkout.
LEMMA RefundInvQuiet ==
  ASSUME RefundInv, UNCHANGED <<checkoutPc, orderStatus, payStatus, refundVars>>
  PROVE  RefundInv'
BY DEF RefundInv, CheckoutInv, HeldMeansCaptured, RefundReadInv, RefundRowInv, AtMostOneRefund,
       BooksInv, PaymentMirrorsRefund, refundVars

\* Moves of the worker and of administrators: they change the order only, and
\* never lead into the refund flow or before the payment.
LEMMA RefundInvMove ==
  ASSUME TypeOK, RefundInv, NEW from, NEW to, Transition(from, to),
         to \in FinalizeTargets \cup AdminTargets \cup {"PROCESSING"},
         UNCHANGED <<checkoutPc, payStatus, refundVars>>
  PROVE  RefundInv'
<1> USE DEF refundVars
<1>1. /\ orderStatus = from
      /\ orderStatus' = to
      /\ CanTransition(from, to)
      /\ from \in OrderStatus
      /\ from # None /\ to # None
  BY NoneAssumption, TransitionTypes DEF Transition, Accepts
<1>2. to \notin RefundFlow /\ to \notin BeforePayment /\ to \notin {"PAID", "REFUND_PENDING"}
  BY DEF FinalizeTargets, AdminTargets, RefundFlow, BeforePayment
<1>3. from \notin RefundFlow
  BY <1>1, <1>2, RefundGraph DEF RefundFlow
<1>4. from # "FAILED" \/ to = "CANCELLED"
  BY <1>1, <1>2, RefundGraph
<1>5. CheckoutInv'
  BY <1>1 DEF RefundInv, CheckoutInv
<1>6. HeldMeansCaptured'
  BY <1>1, <1>2, RefundGraph DEF RefundInv, HeldMeansCaptured
<1>7. RefundReadInv'
  BY <1>1, <1>2, <1>3, <1>4, RefundGraph
  DEF RefundInv, RefundReadInv, RefundFlow
<1>8. RefundRowInv'
  BY <1>1, <1>3 DEF RefundInv, RefundRowInv, RefundFlow
<1>9. BooksInv'
  BY <1>1, <1>2, <1>3 DEF RefundInv, BooksInv, RefundFlow
<1>10. PaymentMirrorsRefund'
  BY <1>1, <1>2, <1>3 DEF RefundInv, PaymentMirrorsRefund, RefundFlow
<1>11. AtMostOneRefund'
  BY DEF RefundInv, AtMostOneRefund
<1>12. QED BY <1>5, <1>6, <1>7, <1>8, <1>9, <1>10, <1>11 DEF RefundInv

\* No order is in the refund flow before it exists or is paid.
LEMMA NoRefundYet ==
  ASSUME RefundInv, orderStatus \notin RefundFlow
  PROVE  /\ gatewayRefunded = 0 /\ refundedTotal = 0
         /\ payStatus \notin {"REFUNDED", "PARTIALLY_REFUNDED"}
         /\ \A r \in Refunds : /\ refundRow[r] = None
                              /\ refundPc[r] \notin {"requested", "moved"}
BY DEF RefundInv, BooksInv, PaymentMirrorsRefund, RefundRowInv, RefundFlow

LEMMA RefundInvCheckout ==
  ASSUME TypeOK, RefundInv, Checkout
  PROVE  RefundInv'
<1> USE DEF checkoutVars, orderVars, refundVars
<1>1. CASE CheckoutPlaceOrder
  <2>1. orderStatus = None /\ orderStatus' = "PENDING_PAYMENT" /\ payStatus = None
        /\ checkoutPc' = "order" /\ payStatus' = payStatus
    BY <1>1 DEF CheckoutPlaceOrder, RefundInv, CheckoutInv
  <2>2. None # "PENDING_PAYMENT" /\ None \notin RefundFlow /\ None \notin PaymentStatus
        /\ None \notin {"FAILED", "CANCELLED"}
    BY NoneAssumption DEF OrderStatus, RefundFlow
  <2>3. UNCHANGED refundVars
    BY <1>1 DEF CheckoutPlaceOrder
  <2>4. CheckoutInv'
    BY <2>1, <2>2 DEF CheckoutInv
  <2>5. HeldMeansCaptured'
    BY <2>1 DEF HeldMeansCaptured, MoneyIsHeld
  <2>6. RefundReadInv'
    BY <2>1, <2>2, <2>3 DEF RefundInv, RefundReadInv, RefundFlow
  <2>7. RefundRowInv'
    BY <2>1, <2>2, <2>3 DEF RefundInv, RefundRowInv, RefundFlow
  <2>8. AtMostOneRefund' /\ BooksInv'
    BY <2>1, <2>2, <2>3 DEF RefundInv, AtMostOneRefund, BooksInv, RefundFlow
  <2>9. PaymentMirrorsRefund'
    BY <2>1, <2>2 DEF PaymentMirrorsRefund, PaymentStatus
  <2>10. QED BY <2>4, <2>5, <2>6, <2>7, <2>8, <2>9 DEF RefundInv
<1>2. CASE CheckoutCreatePayment
  <2>1. /\ checkoutPc = "order" /\ checkoutPc' = "payment"
        /\ payStatus = None /\ payStatus' = "PENDING" /\ orderStatus' = orderStatus
        /\ UNCHANGED refundVars
    BY <1>2 DEF CheckoutCreatePayment, RefundInv, CheckoutInv
  <2>2. None \notin PaymentStatus
    BY NoneAssumption
  <2>3. CheckoutInv'
    BY <2>1 DEF CheckoutInv, RefundInv
  <2>4. HeldMeansCaptured' /\ PaymentMirrorsRefund'
    BY <2>1, <2>2 DEF RefundInv, HeldMeansCaptured, PaymentMirrorsRefund, PaymentStatus
  <2>5. RefundReadInv'
    BY <2>1, <2>2 DEF RefundInv, RefundReadInv, PaymentStatus
  <2>6. RefundRowInv' /\ AtMostOneRefund' /\ BooksInv'
    BY <2>1 DEF RefundInv, RefundRowInv, AtMostOneRefund, BooksInv
  <2>7. QED BY <2>3, <2>4, <2>5, <2>6 DEF RefundInv
<1>3. CASE CheckoutCreateIntent \/ CheckoutSaveReference \/ CheckoutCrash
  <2>1. /\ checkoutPc # "start" /\ checkoutPc' \notin {"start", "order"}
        /\ UNCHANGED <<orderStatus, payStatus, refundVars>>
    BY <1>3 DEF CheckoutCreateIntent, CheckoutSaveReference, CheckoutCrash
  <2>2. CheckoutInv'
    BY <2>1 DEF CheckoutInv, RefundInv
  <2>3. QED BY <2>1, <2>2 DEF RefundInv, HeldMeansCaptured, RefundReadInv, RefundRowInv,
              AtMostOneRefund, BooksInv, PaymentMirrorsRefund
<1>4. QED BY <1>1, <1>2, <1>3 DEF Checkout

LEMMA RefundInvWebhook ==
  ASSUME TypeOK, ReferenceInv, RefundInv, NEW e \in Events, Webhook(e)
  PROVE  RefundInv'
<1> USE DEF checkoutVars, orderVars, refundVars
<1>1. CASE WebhookCapture(e) \/ WebhookFail(e)
  <2> DEFINE from == orderStatus
  <2>1. PICK to \in {"PAID", "FAILED"} :
           /\ CanTransition(from, to)
           /\ to = "PAID" => orderStatus' = "FULFILLMENT_QUEUED" /\ payStatus' = "CAPTURED"
           /\ to = "FAILED" => orderStatus' = "FAILED" /\ payStatus' = "FAILED"
    BY <1>1 DEF WebhookCapture, WebhookFail, Transition, Accepts
  <2>2. UNCHANGED <<checkoutPc, refundVars>>
    BY <1>1 DEF WebhookCapture, WebhookFail
  <2>3. from \notin RefundFlow /\ from \notin {"FAILED", "CANCELLED"} /\ from \in OrderStatus
    BY <2>1, RefundGraph, TransitionTypes DEF RefundFlow
  <2>4. orderStatus' \notin RefundFlow /\ orderStatus' # "CANCELLED" /\ orderStatus' # None
    BY <2>1, NoneAssumption DEF RefundFlow, OrderStatus
  <2>5. CheckoutInv'
    <3>1. checkoutPc # "start"
      BY <2>3, NoneAssumption DEF RefundInv, CheckoutInv
    <3>2. checkoutPc # "order"
      BY <1>1 DEF ReferenceInv, WebhookCapture, WebhookFail
    <3>3. QED BY <2>2, <2>4, <3>1, <3>2 DEF CheckoutInv
  <2>6. HeldMeansCaptured'
    BY <2>1 DEF HeldMeansCaptured, MoneyIsHeld
  <2>7. RefundReadInv'
    BY <2>1, <2>2, <2>3, <2>4 DEF RefundInv, RefundReadInv
  <2>8. RefundRowInv' /\ AtMostOneRefund' /\ BooksInv'
    BY <2>2, <2>3, <2>4 DEF RefundInv, RefundRowInv, AtMostOneRefund, BooksInv, RefundFlow
  <2>9. PaymentMirrorsRefund'
    BY <2>1, <2>4 DEF PaymentMirrorsRefund, RefundFlow
  <2>10. QED BY <2>5, <2>6, <2>7, <2>8, <2>9 DEF RefundInv
<1>2. CASE ~(WebhookCapture(e) \/ WebhookFail(e))
  <2>1. UNCHANGED <<checkoutPc, orderStatus, payStatus, refundVars>>
    BY <1>2 DEF Webhook, WebhookRecordOnly, WebhookAccept, WebhookUpdatePayment, WebhookThrow,
                WebhookCrash, WebhookRollback
  <2>2. QED BY <2>1, RefundInvQuiet
<1>3. QED BY <1>1, <1>2

LEMMA RefundInvRefund ==
  ASSUME TypeOK, RefundInv, NEW r \in Refunds, Refund(r)
  PROVE  RefundInv'
<1> USE DEF checkoutVars, orderVars
<1>1. CASE RefundReadOrder(r) \/ RefundCheck(r) \/ RefundTurnedAway(r) \/ RefundConflict(r)
  <2>1. UNCHANGED <<checkoutPc, orderStatus, payStatus, refundRow, refundedTotal,
                    gatewayRefunded>>
    BY <1>1 DEF RefundReadOrder, RefundCheck, RefundTurnedAway, RefundConflict
  <2>2. /\ refundPc[r] \in {"idle", "order_read", "checked"}
        /\ refundPc'[r] \in {"idle", "order_read", "checked"}
        /\ refundRow[r] = None
    BY <1>1 DEF TypeOK, RefundInv, RefundReadInv, RefundRowInv, RefundReadOrder, RefundCheck,
                RefundTurnedAway, RefundConflict
  <2>3. \A s \in Refunds \ {r} :
          /\ refundPc'[s] = refundPc[s] /\ refundFrom'[s] = refundFrom[s]
          /\ refundAmount'[s] = refundAmount[s] /\ refundSeen'[s] = refundSeen[s]
    BY <1>1 DEF TypeOK, RefundReadOrder, RefundCheck, RefundTurnedAway, RefundConflict
  <2>4. RefundRowInv'
    BY <2>1, <2>2, <2>3 DEF RefundInv, RefundRowInv
  <2>5. RefundReadInv'
    <3> SUFFICES ASSUME refundPc'[r] \in {"order_read", "checked"}
                 PROVE  /\ refundFrom'[r] \in RefundableStatuses
                        /\ refundFrom'[r] = "FAILED" =>
                             orderStatus \in {"FAILED", "CANCELLED"} \cup RefundFlow
                        /\ refundPc'[r] = "checked" =>
                             /\ refundAmount'[r] \in 1 .. Amount
                             /\ orderStatus \notin RefundFlow => refundSeen'[r] = 0
                             /\ refundFrom'[r] = "FAILED" /\ orderStatus = "FAILED" =>
                                  payStatus = "CAPTURED"
      BY <2>1, <2>2, <2>3 DEF RefundInv, RefundReadInv
    <3>1. CASE RefundReadOrder(r)
      BY <3>1 DEF TypeOK, RefundReadOrder
    <3>2. CASE RefundCheck(r)
      <4>1. refundFrom' = refundFrom /\ refundPc[r] = "order_read"
            /\ refundAmount'[r] \in 1 .. Amount /\ refundSeen'[r] = refundedTotal
            /\ payStatus \in {"CAPTURED", "PARTIALLY_REFUNDED"}
        BY <3>2 DEF TypeOK, RefundCheck
      <4>2. orderStatus \notin RefundFlow => refundedTotal = 0
        BY NoRefundYet
      <4>3. orderStatus = "FAILED" => payStatus = "CAPTURED"
        BY <4>1, NoRefundYet DEF RefundFlow
      <4>4. QED BY <4>1, <4>2, <4>3 DEF RefundInv, RefundReadInv
    <3>3. CASE RefundTurnedAway(r) \/ RefundConflict(r)
      BY <3>3 DEF TypeOK, RefundTurnedAway, RefundConflict
    <3>4. QED BY <1>1, <3>1, <3>2, <3>3
  <2>6. CheckoutInv' /\ HeldMeansCaptured' /\ AtMostOneRefund' /\ BooksInv'
        /\ PaymentMirrorsRefund'
    BY <2>1 DEF RefundInv, CheckoutInv, HeldMeansCaptured, AtMostOneRefund, BooksInv,
                PaymentMirrorsRefund
  <2>7. QED BY <2>4, <2>5, <2>6 DEF RefundInv
<1>2. CASE RefundRequest(r)
  <2>1. /\ CanTransition(orderStatus, "REFUND_PENDING") /\ orderStatus = refundFrom[r]
        /\ orderStatus' = "REFUND_PENDING" /\ refundPc[r] = "checked"
        /\ refundPc' = [refundPc EXCEPT ![r] = "requested"]
        /\ refundRow' = [refundRow EXCEPT ![r] = "pending"]
        /\ UNCHANGED <<checkoutPc, payStatus, refundAmount, refundSeen, refundedTotal,
                       gatewayRefunded>>
    BY <1>2 DEF RefundRequest, Transition, Accepts
  <2>2. orderStatus \notin RefundFlow /\ orderStatus \in OrderStatus /\ orderStatus # "CANCELLED"
    BY <2>1, RefundGraph, TransitionTypes DEF RefundFlow
  <2>3. \A s \in Refunds : refundRow[s] = None /\ refundPc[s] \notin {"requested", "moved"}
    BY <2>2, NoRefundYet
  <2>4. gatewayRefunded = 0 /\ refundedTotal = 0
    BY <2>2, NoRefundYet
  <2>5. payStatus = "CAPTURED"
    BY <2>1, RefundGraph DEF RefundInv, RefundReadInv, HeldMeansCaptured, RefundableStatuses,
                             MoneyIsHeld
  <2>6. refundAmount[r] \in 1 .. Amount /\ refundSeen[r] = 0
    BY <2>1, <2>2 DEF RefundInv, RefundReadInv
  <2>7. CheckoutInv'
    BY <2>1, <2>2, NoneAssumption DEF RefundInv, CheckoutInv, OrderStatus
  <2>8. HeldMeansCaptured' /\ PaymentMirrorsRefund'
    BY <2>1, <2>5 DEF HeldMeansCaptured, PaymentMirrorsRefund
  <2>9. RefundReadInv'
    BY <2>1, <1>2 DEF TypeOK, RefundInv, RefundReadInv, RefundFlow, RefundRequest
  <2>10. RefundRowInv'
    BY <2>1, <2>3, <2>4, <2>6, NoneAssumption
    DEF TypeOK, RefundInv, RefundRowInv, RefundFlow, RefundStatus
  <2>11. AtMostOneRefund' /\ BooksInv'
    BY <2>1, <2>3, <2>4, AmountAssumption DEF TypeOK, AtMostOneRefund, BooksInv, RefundFlow
  <2>12. QED BY <2>7, <2>8, <2>9, <2>10, <2>11 DEF RefundInv
<1>3. CASE RefundGatewayPays(r) \/ RefundGatewayDeclines(r) \/ RefundCrash(r)
  <2>1. /\ UNCHANGED <<checkoutPc, orderStatus, payStatus, refundFrom, refundAmount, refundSeen,
                       refundedTotal>>
        /\ refundPc[r] \in {"requested", "moved"} /\ refundPc'[r] \in {"moved", "ended"}
        /\ refundRow'[r] # None
        /\ \A s \in Refunds \ {r} : refundPc'[s] = refundPc[s] /\ refundRow'[s] = refundRow[s]
    BY <1>3, NoneAssumption DEF TypeOK, RefundInv, RefundRowInv, RefundGatewayPays,
       RefundGatewayDeclines, RefundCrash, RefundStatus
  <2>2. /\ orderStatus = "REFUND_PENDING" /\ refundRow[r] # None
        /\ refundAmount[r] \in 1 .. Amount /\ refundSeen[r] = 0
    BY <2>1, NoneAssumption DEF RefundInv, RefundRowInv, RefundStatus
  <2>3. \A s \in Refunds \ {r} : refundRow[s] = None /\ refundPc[s] \notin {"requested", "moved"}
    BY <2>2, NoneAssumption DEF RefundInv, RefundRowInv, AtMostOneRefund, RefundStatus
  <2>4. gatewayRefunded' \in {0, refundAmount[r]}
        /\ (refundPc'[r] = "moved" => gatewayRefunded' = refundAmount[r] /\ refundRow'[r] = "pending")
    BY <1>3, <2>1, <2>2, AmountAssumption
    DEF TypeOK, RefundInv, RefundRowInv, RefundGatewayPays, RefundGatewayDeclines, RefundCrash
  <2>5. CheckoutInv' /\ HeldMeansCaptured' /\ PaymentMirrorsRefund'
    BY <2>1, <2>2 DEF RefundInv, CheckoutInv, HeldMeansCaptured, PaymentMirrorsRefund
  <2>6. RefundReadInv'
    BY <2>1, <2>3 DEF RefundInv, RefundReadInv
  <2>7. RefundRowInv'
    BY <2>1, <2>2, <2>3, <2>4 DEF RefundInv, RefundRowInv, RefundFlow
  <2>8. AtMostOneRefund'
    BY <2>1, <2>3 DEF AtMostOneRefund
  <2>9. BooksInv'
    BY <2>1, <2>2, <2>4, AmountAssumption DEF RefundInv, BooksInv, RefundFlow
  <2>10. QED BY <2>5, <2>6, <2>7, <2>8, <2>9 DEF RefundInv
<1>4. CASE RefundBook(r)
  <2> DEFINE outcome == IF RefundIsFull(r) THEN "REFUNDED" ELSE "PARTIALLY_REFUNDED"
  <2>1. /\ orderStatus = "REFUND_PENDING" /\ orderStatus' = outcome /\ payStatus' = outcome
        /\ refundPc[r] = "moved" /\ refundPc' = [refundPc EXCEPT ![r] = "ended"]
        /\ refundRow' = [refundRow EXCEPT ![r] = "succeeded"]
        /\ refundedTotal' = refundedTotal + refundAmount[r]
        /\ UNCHANGED <<checkoutPc, refundFrom, refundAmount, refundSeen, gatewayRefunded>>
    BY <1>4 DEF RefundBook, Transition, Accepts
  <2>2. /\ refundRow[r] = "pending" /\ refundSeen[r] = 0 /\ refundAmount[r] \in 1 .. Amount
        /\ gatewayRefunded = refundAmount[r] /\ refundedTotal = 0
    BY <2>1 DEF RefundInv, RefundRowInv, BooksInv
  <2>3. \A s \in Refunds \ {r} : refundRow[s] = None /\ refundPc[s] \notin {"requested", "moved"}
    BY <2>2, NoneAssumption DEF RefundInv, RefundRowInv, AtMostOneRefund, RefundStatus
  <2>4. outcome \in {"REFUNDED", "PARTIALLY_REFUNDED"} /\ outcome # None
    BY NoneAssumption DEF PaymentStatus
  <2>5. CheckoutInv'
    <3>1. payStatus = "CAPTURED" /\ "CAPTURED" # None /\ "REFUND_PENDING" # None
      BY <2>1, NoneAssumption
      DEF RefundInv, HeldMeansCaptured, MoneyIsHeld, OrderStatus, PaymentStatus
    <3> HIDE DEF outcome
    <3>2. QED BY <2>1, <2>4, <3>1 DEF RefundInv, CheckoutInv
  <2>6. HeldMeansCaptured'
    BY <2>1 DEF HeldMeansCaptured, MoneyIsHeld
  <2>7. RefundReadInv'
    BY <2>1, <2>2, <2>4, NoneAssumption
    DEF TypeOK, RefundInv, RefundReadInv, RefundFlow, RefundStatus
  <2>8. RefundRowInv'
    BY <2>1, <2>2, <2>3, <2>4, NoneAssumption DEF TypeOK, RefundInv, RefundRowInv, RefundFlow
  <2>9. AtMostOneRefund'
    BY <2>1, <2>3 DEF TypeOK, AtMostOneRefund
  <2>10. BooksInv'
    BY <2>1, <2>2, <2>4, AmountAssumption DEF TypeOK, RefundInv, BooksInv, RefundFlow
  <2>11. PaymentMirrorsRefund'
    <3>1. outcome = "REFUNDED" => gatewayRefunded = Amount
      BY <2>2, AmountAssumption DEF RefundIsFull
    <3>2. outcome = "PARTIALLY_REFUNDED" => gatewayRefunded \in 1 .. (Amount - 1)
      BY <2>2, AmountAssumption DEF RefundIsFull
    <3> HIDE DEF outcome
    <3>3. QED BY <2>1, <3>1, <3>2 DEF PaymentMirrorsRefund
  <2>12. QED BY <2>5, <2>6, <2>7, <2>8, <2>9, <2>10, <2>11 DEF RefundInv
<1>5. QED BY <1>1, <1>2, <1>3, <1>4 DEF Refund

LEMMA RefundInvStep == TypeOK /\ ReferenceInv /\ RefundInv /\ [Next]_vars => RefundInv'
<1> SUFFICES ASSUME TypeOK, ReferenceInv, RefundInv, [Next]_vars PROVE RefundInv'
  OBVIOUS
<1>1. CASE UNCHANGED vars
  BY <1>1, RefundInvQuiet DEF vars, checkoutVars, orderVars
<1>2. CASE Checkout
  BY <1>2, RefundInvCheckout
<1>3. ASSUME NEW e \in Events, Webhook(e) PROVE RefundInv'
  BY <1>3, RefundInvWebhook
<1>4. ASSUME NEW r \in Refunds, Refund(r) PROVE RefundInv'
  BY <1>4, RefundInvRefund
<1>5. ASSUME NEW j \in Jobs, Job(j) PROVE RefundInv'
  <2>1. CASE JobPickUp(j)
    BY <2>1, RefundInvMove DEF JobPickUp, checkoutVars
  <2>2. CASE JobFinalize(j)
    <3>1. jobTarget[j] \in FinalizeTargets
      BY <2>2, TransitionTypes, NoneAssumption DEF JobFinalize, Transition, Accepts, TypeOK
    <3>2. QED BY <2>2, <3>1, RefundInvMove DEF JobFinalize, checkoutVars
  <2>3. CASE JobStart(j) \/ JobDecide(j) \/ JobEnd(j)
    BY <2>3, RefundInvQuiet DEF JobStart, JobDecide, JobEnd, checkoutVars, orderVars
  <2>4. QED BY <1>5, <2>1, <2>2, <2>3 DEF Job
<1>6. ASSUME NEW a \in Admins, Admin(a) PROVE RefundInv'
  <2>1. CASE AdminUpdate(a)
    <3>1. adminTo[a] \in AdminTargets
      BY <2>1, TransitionTypes, NoneAssumption DEF AdminUpdate, Transition, Accepts, TypeOK
    <3>2. QED BY <2>1, <3>1, RefundInvMove DEF AdminUpdate, checkoutVars
  <2>2. CASE AdminCheck(a) \/ AdminConflict(a)
    BY <2>2, RefundInvQuiet DEF AdminCheck, AdminConflict, checkoutVars, orderVars
  <2>3. QED BY <1>6, <2>1, <2>2 DEF Admin
<1>7. QED BY <1>1, <1>2, <1>3, <1>4, <1>5, <1>6 DEF Next

LEMMA RefundInvCorrect == Spec => []RefundInv
<1>1. Init => ReferenceInv /\ RefundInv
  <2> SUFFICES ASSUME Init PROVE ReferenceInv /\ RefundInv
    OBVIOUS
  <2>1. None \notin OrderStatus /\ None \notin PaymentStatus
    BY NoneAssumption
  <2>2. ReferenceInv /\ CheckoutInv /\ HeldMeansCaptured /\ PaymentMirrorsRefund
    BY <2>1 DEF Init, ReferenceInv, CheckoutInv, HeldMeansCaptured, PaymentMirrorsRefund,
                OrderStatus, PaymentStatus, MoneyIsHeld
  <2>3. RefundReadInv /\ RefundRowInv /\ AtMostOneRefund
    BY DEF Init, RefundReadInv, RefundRowInv, AtMostOneRefund
  <2>4. BooksInv
    BY <2>1, AmountAssumption DEF Init, BooksInv, OrderStatus
  <2>5. QED BY <2>2, <2>3, <2>4 DEF RefundInv
<1>2. QED BY <1>1, TypeCorrect, ReferenceStep, RefundInvStep, PTL DEF Spec

\* At most one refund of an order ever gets a row, so at most one reaches the
\* gateway (AdminRefundsService.createRefund).
THEOREM OneRefund == Spec => []AtMostOneRefund
<1>1. RefundInv => AtMostOneRefund
  BY DEF RefundInv
<1>2. QED BY <1>1, RefundInvCorrect, PTL

\* The gateway never gives back more than was captured, and the books never
\* claim more than it gave back.
THEOREM RefundsCovered == Spec => []RefundsAreCovered
<1>1. TypeOK /\ RefundInv => RefundsAreCovered
  BY DEF TypeOK, RefundInv, BooksInv, RefundsAreCovered
<1>2. QED BY <1>1, TypeCorrect, RefundInvCorrect, PTL

\* The second transaction of createRefund is never refused by the state
\* machine once the gateway has paid.
THEOREM BookingCannotFail == Spec => []RefundCanBeBooked
<1>1. RefundInv => RefundCanBeBooked
  BY DEF RefundInv, RefundRowInv, HeldMeansCaptured, MoneyIsHeld, RefundCanBeBooked
<1>2. QED BY <1>1, RefundInvCorrect, PTL

\* The payment and the order agree on the refund, and both on the amount the
\* gateway gave back.
THEOREM PaymentAgrees == Spec => []PaymentMirrorsRefund
<1>1. RefundInv => PaymentMirrorsRefund
  BY DEF RefundInv
<1>2. QED BY <1>1, RefundInvCorrect, PTL

-----------------------------------------------------------------------------
(***************************************************************************)
(* The timeline, and what a captured payment brings with it.               *)
(***************************************************************************)
Entry == [from: OrderStatus \cup {None}, to: OrderStatus]

\* An allowed transition appended to a timeline that explains its origin
\* explains its target.
LEMMA ExplainsAppend ==
  ASSUME NEW t \in Seq(Entry), t # <<>>, NEW from \in OrderStatus, NEW to \in OrderStatus,
         Explains(t, from), CanTransition(from, to)
  PROVE  LET u == Append(t, [from |-> from, to |-> to])
         IN  /\ u \in Seq(Entry) /\ u # <<>>
             /\ Explains(u, to)
             /\ (\E i \in 1 .. Len(u) : u[i].to = "PAID")
                  <=> to = "PAID" \/ \E i \in 1 .. Len(t) : t[i].to = "PAID"
<1> DEFINE x == [from |-> from, to |-> to]
           u == Append(t, x)
<1>1. x \in Entry /\ x.from = from /\ x.to = to
  BY DEF Entry
<1>2. Len(t) \in Nat /\ Len(t) > 0
  <2>1. Len(t) \in Nat
    OBVIOUS
  <2>2. Len(t) # 0
    OBVIOUS
  <2>3. QED BY <2>1, <2>2
<1>3. /\ u \in Seq(Entry) /\ Len(u) = Len(t) + 1
      /\ u[Len(t) + 1] = x
      /\ \A i \in 1 .. Len(t) : u[i] = t[i]
  <2> HIDE DEF x
  <2>1. QED BY <1>1, <1>2
<1>4. u # <<>>
  <2> HIDE DEF u
  <2>1. QED BY <1>2, <1>3
<1> HIDE DEF x, u
<1>5. u[1] = t[1] /\ u[Len(u)].to = to
  BY <1>1, <1>2, <1>3
<1>6. ASSUME NEW i \in 1 .. (Len(u) - 1)
      PROVE  u[i + 1].from = u[i].to /\ CanTransition(u[i].to, u[i + 1].to)
  <2>1. CASE i = Len(t)
    BY <1>1, <1>2, <1>3, <2>1 DEF Explains
  <2>2. CASE i # Len(t)
    <3>1. i \in 1 .. (Len(t) - 1) /\ i \in 1 .. Len(t) /\ i + 1 \in 1 .. Len(t)
      BY <1>2, <1>3, <2>2
    <3>2. QED BY <1>3, <3>1 DEF Explains
  <2>3. QED BY <2>1, <2>2
<1>7. Explains(u, to)
  BY <1>5, <1>6 DEF Explains
<1>8. (\E i \in 1 .. Len(u) : u[i].to = "PAID")
        <=> to = "PAID" \/ \E i \in 1 .. Len(t) : t[i].to = "PAID"
  BY <1>1, <1>2, <1>3
<1>9. QED BY <1>3, <1>4, <1>7, <1>8 DEF u, x

\* A transition to anything but PAID or a status before the payment.
LEMMA HistoryMove ==
  ASSUME TypeOK, HistoryInv, NEW from, NEW to, Transition(from, to),
         to \notin BeforePayment, to # "PAID"
  PROVE  /\ TimelineExplainsStatus' /\ (WasPaid' <=> WasPaid)
         /\ orderStatus' \notin BeforePayment \cup {None}
<1>1. /\ CanTransition(from, to) /\ orderStatus = from /\ orderStatus' = to
      /\ timeline' = Append(timeline, [from |-> from, to |-> to])
      /\ from \in OrderStatus /\ to \in OrderStatus
  BY TransitionTypes DEF Transition, Accepts
<1>2. from # None /\ to # None
  BY <1>1, NoneAssumption
<1>3. timeline \in Seq(Entry)
  BY DEF TypeOK, Entry
<1>4. timeline # <<>> /\ Explains(timeline, from)
  BY <1>1, <1>2 DEF HistoryInv, TimelineExplainsStatus
<1>5. /\ timeline' # <<>> /\ Explains(timeline', to)
      /\ (\E i \in 1 .. Len(timeline') : timeline'[i].to = "PAID")
           <=> to = "PAID" \/ \E i \in 1 .. Len(timeline) : timeline[i].to = "PAID"
  BY <1>1, <1>3, <1>4, ExplainsAppend
<1>6. QED BY <1>1, <1>2, <1>5 DEF TimelineExplainsStatus, WasPaid

\* A transition with its rows, when they are not those of the capture.
LEMMA HistoryMoveKeeps ==
  ASSUME TypeOK, HistoryInv, NEW from, NEW to, Transition(from, to),
         to \notin BeforePayment, to # "PAID",
         \A x \in {"outbox_event", "fulfillments", "order_confirmed", "invoice"} :
           effects'[x] = effects[x],
         payStatus' \in {"CAPTURED", "REFUNDED", "PARTIALLY_REFUNDED"} =>
           payStatus \in {"CAPTURED", "REFUNDED", "PARTIALLY_REFUNDED"}
  PROVE  HistoryInv'
<1>1. /\ TimelineExplainsStatus' /\ (WasPaid' <=> WasPaid)
      /\ orderStatus' \notin BeforePayment \cup {None}
  BY HistoryMove
<1>2. CaptureHappensOnce'
  BY <1>1 DEF HistoryInv, CaptureHappensOnce
<1>3. CapturedMeansPaid'
  BY <1>1 DEF HistoryInv, CapturedMeansPaid
<1>4. QED BY <1>1, <1>2, <1>3 DEF HistoryInv

LEMMA RecordKeeps ==
  ASSUME TypeOK, NEW K, Record(K),
         K \subseteq {"order_completed", "order_failed", "refund_issued"}
  PROVE  \A x \in {"outbox_event", "fulfillments", "order_confirmed", "invoice"} :
           effects'[x] = effects[x]
BY DEF TypeOK, Record, Effect

LEMMA HistoryQuiet ==
  ASSUME HistoryInv, UNCHANGED <<orderVars, effects>>,
         payStatus' \in {"CAPTURED", "REFUNDED", "PARTIALLY_REFUNDED"} => payStatus' = payStatus
  PROVE  HistoryInv'
BY DEF HistoryInv, orderVars, TimelineExplainsStatus, CaptureHappensOnce, CapturedMeansPaid,
       WasPaid

\* The capture: the only step that appends PAID, and only to an order that
\* never was.
LEMMA HistoryCapture ==
  ASSUME TypeOK, HistoryInv, NEW e \in Events, WebhookCapture(e)
  PROVE  HistoryInv'
<1> DEFINE from == orderStatus
           t1 == Append(timeline, [from |-> from, to |-> "PAID"])
           t2 == Append(t1, [from |-> "PAID", to |-> "FULFILLMENT_QUEUED"])
<1>1. /\ CanTransition(from, "PAID") /\ CanTransition("PAID", "FULFILLMENT_QUEUED")
      /\ orderStatus' = "FULFILLMENT_QUEUED" /\ timeline' = t2
  BY DEF WebhookCapture, Accepts
<1>2. from \in OrderStatus /\ from # None /\ from \in BeforePayment
      /\ "FULFILLMENT_QUEUED" \in OrderStatus /\ "PAID" \in OrderStatus
  BY <1>1, TransitionTypes, RefundGraph, NoneAssumption DEF OrderStatus
<1>3. timeline \in Seq(Entry) /\ timeline # <<>> /\ Explains(timeline, from)
  BY <1>2 DEF TypeOK, Entry, HistoryInv, TimelineExplainsStatus
<1> HIDE DEF from
<1>4. /\ t1 \in Seq(Entry) /\ t1 # <<>> /\ Explains(t1, "PAID")
      /\ (\E i \in 1 .. Len(t1) : t1[i].to = "PAID")
  BY <1>1, <1>2, <1>3, ExplainsAppend
<1> HIDE DEF t1
<1>5. /\ t2 # <<>> /\ Explains(t2, "FULFILLMENT_QUEUED")
      /\ (\E i \in 1 .. Len(t2) : t2[i].to = "PAID")
  BY <1>1, <1>2, <1>4, ExplainsAppend
<1> HIDE DEF t2
<1>6. TimelineExplainsStatus' /\ WasPaid'
  BY <1>1, <1>2, <1>5, NoneAssumption DEF TimelineExplainsStatus, WasPaid
<1>7. \A x \in {"outbox_event", "fulfillments", "order_confirmed", "invoice"} : effects[x] = 0
  BY <1>2 DEF HistoryInv, CaptureHappensOnce, from
<1>8. CaptureHappensOnce'
  BY <1>6, <1>7 DEF TypeOK, WebhookCapture, Record, Invoice, Effect, CaptureHappensOnce
<1>9. orderStatus' \notin BeforePayment \cup {None}
  BY <1>1, <1>2, NoneAssumption DEF BeforePayment
<1>10. QED BY <1>6, <1>8, <1>9 DEF HistoryInv, CapturedMeansPaid

\* The order is created.
LEMMA HistoryPlaced ==
  ASSUME TypeOK, RefundInv, HistoryInv, CheckoutPlaceOrder
  PROVE  HistoryInv'
<1>1. orderStatus = None /\ payStatus = None /\ timeline = <<>> /\ ~WasPaid
  BY DEF CheckoutPlaceOrder, RefundInv, CheckoutInv, HistoryInv, TimelineExplainsStatus
<1>2. "PENDING_PAYMENT" # None /\ None \notin PaymentStatus
  BY NoneAssumption DEF OrderStatus
<1>3. CanTransition("DRAFT", "PENDING_PAYMENT")
  BY DEF CanTransition, AllowedTransitions, OrderStatus
<1>4. /\ orderStatus' = "PENDING_PAYMENT" /\ payStatus' = None /\ effects' = effects
      /\ timeline' = <<[from |-> None, to |-> "DRAFT"],
                      [from |-> "DRAFT", to |-> "PENDING_PAYMENT"]>>
  BY <1>1 DEF CheckoutPlaceOrder
<1>5. TimelineExplainsStatus'
  BY <1>2, <1>3, <1>4 DEF TimelineExplainsStatus, Explains
<1>6. ~WasPaid'
  BY <1>4 DEF WasPaid
<1>7. CaptureHappensOnce'
  BY <1>1, <1>4, <1>6 DEF HistoryInv, CaptureHappensOnce
<1>8. CapturedMeansPaid'
  BY <1>2, <1>4 DEF CapturedMeansPaid, PaymentStatus
<1>9. QED BY <1>5, <1>6, <1>7, <1>8 DEF HistoryInv

LEMMA HistoryStep == TypeOK /\ RefundInv /\ HistoryInv /\ [Next]_vars => HistoryInv'
<1> SUFFICES ASSUME TypeOK, RefundInv, HistoryInv, [Next]_vars PROVE HistoryInv'
  OBVIOUS
<1>1. CASE UNCHANGED vars
  BY <1>1, HistoryQuiet DEF vars
<1>2. CASE Checkout
  <2>1. CASE CheckoutPlaceOrder
    BY <2>1, HistoryPlaced
  <2>2. CASE ~CheckoutPlaceOrder
    BY <1>2, <2>2, HistoryQuiet DEF Checkout, CheckoutCreatePayment, CheckoutCreateIntent,
       CheckoutSaveReference, CheckoutCrash
  <2>3. QED BY <2>1, <2>2
<1>3. ASSUME NEW e \in Events, Webhook(e) PROVE HistoryInv'
  <2>1. CASE WebhookCapture(e)
    BY <2>1, HistoryCapture
  <2>2. CASE WebhookFail(e)
    BY <2>2, HistoryMoveKeeps DEF WebhookFail, BeforePayment
  <2>3. CASE ~(WebhookCapture(e) \/ WebhookFail(e))
    BY <1>3, <2>3, HistoryQuiet DEF Webhook, WebhookRecordOnly, WebhookAccept,
       WebhookUpdatePayment, WebhookThrow, WebhookCrash, WebhookRollback
  <2>4. QED BY <2>1, <2>2, <2>3
<1>4. ASSUME NEW r \in Refunds, Refund(r) PROVE HistoryInv'
  <2>1. CASE RefundRequest(r)
    BY <2>1, HistoryMoveKeeps DEF RefundRequest, BeforePayment
  <2>2. CASE RefundBook(r)
    <3>1. payStatus = "CAPTURED"
      BY <2>2 DEF RefundBook, RefundInv, RefundRowInv, HeldMeansCaptured, MoneyIsHeld
    <3>2. \A x \in {"outbox_event", "fulfillments", "order_confirmed", "invoice"} :
            effects'[x] = effects[x]
      BY <2>2, RecordKeeps DEF RefundBook
    <3>3. PICK to \in {"REFUNDED", "PARTIALLY_REFUNDED"} : Transition("REFUND_PENDING", to)
      BY <2>2 DEF RefundBook
    <3>4. QED BY <3>1, <3>2, <3>3, HistoryMoveKeeps DEF BeforePayment
  <2>3. CASE ~(RefundRequest(r) \/ RefundBook(r))
    BY <1>4, <2>3, HistoryQuiet DEF Refund, RefundReadOrder, RefundCheck, RefundTurnedAway,
       RefundConflict, RefundGatewayPays, RefundGatewayDeclines, RefundCrash
  <2>4. QED BY <2>1, <2>2, <2>3
<1>5. ASSUME NEW j \in Jobs, Job(j) PROVE HistoryInv'
  <2>1. CASE JobPickUp(j)
    BY <2>1, HistoryMoveKeeps DEF JobPickUp, BeforePayment
  <2>2. CASE JobFinalize(j)
    <3>1. jobTarget[j] \in FinalizeTargets
      BY <2>2, TransitionTypes, NoneAssumption DEF JobFinalize, Transition, Accepts, TypeOK
    <3>2. \A x \in {"outbox_event", "fulfillments", "order_confirmed", "invoice"} :
            effects'[x] = effects[x]
      BY <2>2, RecordKeeps DEF JobFinalize, Notice
    <3>3. QED BY <2>2, <3>1, <3>2, HistoryMoveKeeps DEF JobFinalize, FinalizeTargets, BeforePayment
  <2>3. CASE JobStart(j) \/ JobDecide(j) \/ JobEnd(j)
    BY <2>3, HistoryQuiet DEF JobStart, JobDecide, JobEnd
  <2>4. QED BY <1>5, <2>1, <2>2, <2>3 DEF Job
<1>6. ASSUME NEW a \in Admins, Admin(a) PROVE HistoryInv'
  <2>1. CASE AdminUpdate(a)
    <3>1. adminTo[a] \in AdminTargets
      BY <2>1, TransitionTypes, NoneAssumption DEF AdminUpdate, Transition, Accepts, TypeOK
    <3>2. \A x \in {"outbox_event", "fulfillments", "order_confirmed", "invoice"} :
            effects'[x] = effects[x]
      BY <2>1, RecordKeeps DEF AdminUpdate, Notice
    <3>3. QED BY <2>1, <3>1, <3>2, HistoryMoveKeeps DEF AdminUpdate, AdminTargets, BeforePayment
  <2>2. CASE AdminCheck(a) \/ AdminConflict(a)
    BY <2>2, HistoryQuiet DEF AdminCheck, AdminConflict
  <2>3. QED BY <1>6, <2>1, <2>2 DEF Admin
<1>7. QED BY <1>1, <1>2, <1>3, <1>4, <1>5, <1>6 DEF Next

LEMMA HistoryCorrect == Spec => []HistoryInv
<1>1. Init => HistoryInv
  <2> SUFFICES ASSUME Init PROVE HistoryInv
    OBVIOUS
  <2>1. ~WasPaid /\ TimelineExplainsStatus
    BY DEF Init, WasPaid, TimelineExplainsStatus
  <2>2. CaptureHappensOnce
    BY <2>1 DEF Init, CaptureHappensOnce, Effect
  <2>3. CapturedMeansPaid
    BY NoneAssumption DEF Init, CapturedMeansPaid, PaymentStatus
  <2>4. QED BY <2>1, <2>2, <2>3 DEF HistoryInv
<1>2. QED BY <1>1, TypeCorrect, RefundInvCorrect, HistoryStep, PTL DEF Spec

\* The timeline is an unbroken chain of allowed transitions from the order's
\* creation to its present status, whoever raced whom.
THEOREM TimelineIsTrue == Spec => []TimelineExplainsStatus
<1>1. HistoryInv => TimelineExplainsStatus
  BY DEF HistoryInv
<1>2. QED BY <1>1, HistoryCorrect, PTL

\* Outbox event, fulfilments, confirmation and invoice: one of each for a paid
\* order and none for any other, however events are repeated and reordered.
THEOREM CaptureOnce == Spec => []CaptureHappensOnce
<1>1. HistoryInv => CaptureHappensOnce
  BY DEF HistoryInv
<1>2. QED BY <1>1, HistoryCorrect, PTL

\* No captured or refunded payment without an order that was PAID.
THEOREM CapturedIsPaid == Spec => []CapturedMeansPaid
<1>1. HistoryInv => CapturedMeansPaid
  BY DEF HistoryInv
<1>2. QED BY <1>1, HistoryCorrect, PTL

-----------------------------------------------------------------------------
(***************************************************************************)
(* What a step may never do to the order, and what the customer is told.   *)
(***************************************************************************)

\* Every step leaves the order alone, creates it, captures its payment, or is
\* one transition of the graph.
LEMMA OrderSteps ==
  ASSUME TypeOK, [Next]_vars
  PROVE  \/ orderStatus' = orderStatus
         \/ CheckoutPlaceOrder
         \/ CanTransition(orderStatus, "PAID") /\ orderStatus' = "FULFILLMENT_QUEUED"
         \/ CanTransition(orderStatus, orderStatus')
<1> USE DEF orderVars, Transition, Accepts
<1>1. CASE UNCHANGED vars
  BY <1>1 DEF vars
<1>2. CASE Checkout
  BY <1>2 DEF Checkout, CheckoutCreatePayment, CheckoutCreateIntent, CheckoutSaveReference,
     CheckoutCrash
<1>3. ASSUME NEW e \in Events, Webhook(e)
      PROVE  \/ orderStatus' = orderStatus
             \/ CanTransition(orderStatus, "PAID") /\ orderStatus' = "FULFILLMENT_QUEUED"
             \/ CanTransition(orderStatus, orderStatus')
  BY <1>3 DEF Webhook, WebhookRecordOnly, WebhookAccept, WebhookUpdatePayment, WebhookCapture,
     WebhookFail, WebhookThrow, WebhookCrash, WebhookRollback
<1>4. ASSUME NEW r \in Refunds, Refund(r)
      PROVE  orderStatus' = orderStatus \/ CanTransition(orderStatus, orderStatus')
  BY <1>4 DEF Refund, RefundReadOrder, RefundCheck, RefundTurnedAway, RefundRequest,
     RefundConflict, RefundGatewayPays, RefundGatewayDeclines, RefundCrash, RefundBook
<1>5. ASSUME NEW j \in Jobs, Job(j)
      PROVE  orderStatus' = orderStatus \/ CanTransition(orderStatus, orderStatus')
  BY <1>5 DEF Job, JobStart, JobPickUp, JobDecide, JobFinalize, JobEnd
<1>6. ASSUME NEW a \in Admins, Admin(a)
      PROVE  orderStatus' = orderStatus \/ CanTransition(orderStatus, orderStatus')
  BY <1>6 DEF Admin, AdminCheck, AdminUpdate, AdminConflict
<1>7. QED BY <1>1, <1>2, <1>3, <1>4, <1>5, <1>6 DEF Next

\* An order that entered the refund flow or was cancelled never goes back to
\* work, whatever stale status a webhook, a worker or an administrator holds.
THEOREM RefundFlowIsFinal == Spec => NoWayBack
<1> DEFINE Keeps == /\ orderStatus \in RefundFlow => orderStatus' \in RefundFlow
                    /\ orderStatus = "CANCELLED" => orderStatus' = "CANCELLED"
                    /\ orderStatus = "REFUNDED" => orderStatus' = "REFUNDED"
<1>1. TypeOK /\ RefundInv /\ [Next]_vars => Keeps
  <2> SUFFICES ASSUME TypeOK, RefundInv, [Next]_vars PROVE Keeps
    OBVIOUS
  <2>1. CASE orderStatus' = orderStatus
    BY <2>1
  <2>2. CASE CheckoutPlaceOrder
    BY <2>2, NoneAssumption
    DEF CheckoutPlaceOrder, RefundInv, CheckoutInv, RefundFlow, OrderStatus
  <2>3. CASE CanTransition(orderStatus, "PAID") /\ orderStatus' = "FULFILLMENT_QUEUED"
    BY <2>3, RefundGraph DEF RefundFlow, BeforePayment
  <2>4. CASE CanTransition(orderStatus, orderStatus')
    BY <2>4, RefundGraph DEF RefundFlow
  <2>5. QED BY <2>1, <2>2, <2>3, <2>4, OrderSteps
<1>2. QED BY <1>1, TypeCorrect, RefundInvCorrect, PTL DEF Spec, NoWayBack

Told == {"order_completed", "order_failed"}
Closed == {"COMPLETED", "FAILED", "CANCELLED"} \cup RefundFlow

LEMMA NoticeGraph ==
  ASSUME NEW from, NEW to, CanTransition(from, to)
  PROVE  /\ from \in Closed => to \in Closed
         /\ to \in {"COMPLETED", "FAILED"} => from \notin Closed
BY DEF CanTransition, AllowedTransitions, OrderStatus, Closed, RefundFlow

\* A step that tells the customer nothing.
LEMMA NoticeQuiet ==
  ASSUME NoticeInv, \A x \in Told : effects'[x] = effects[x],
         orderStatus \in Closed => orderStatus' \in Closed
  PROVE  NoticeInv'
BY DEF NoticeInv, OneClosingNotice, Told, Closed

\* A step that moves the order and tells the customer where it has arrived.
LEMMA NoticeMove ==
  ASSUME TypeOK, NoticeInv, NEW from, NEW to, Transition(from, to), Record(Notice(to))
  PROVE  NoticeInv'
<1>1. CanTransition(from, to) /\ orderStatus = from /\ orderStatus' = to
  BY DEF Transition, Accepts
<1>2. CASE to \in {"COMPLETED", "FAILED"}
  <2>1. effects["order_completed"] = 0 /\ effects["order_failed"] = 0
    BY <1>1, <1>2, NoticeGraph DEF TypeOK, Effect, NoticeInv, Closed
  <2>2. effects'["order_completed"] + effects'["order_failed"] = 1
    BY <1>2, <2>1 DEF Record, Notice, Effect
  <2>3. QED BY <1>1, <1>2, <2>2 DEF NoticeInv, OneClosingNotice
<1>3. CASE to \notin {"COMPLETED", "FAILED"}
  <2>1. \A x \in Told : effects'[x] = effects[x]
    BY <1>3 DEF TypeOK, Record, Notice, Effect, Told
  <2>2. QED BY <1>1, <2>1, NoticeGraph, NoticeQuiet
<1>4. QED BY <1>2, <1>3

LEMMA NoticeStep == TypeOK /\ RefundInv /\ NoticeInv /\ [Next]_vars => NoticeInv'
<1> SUFFICES ASSUME TypeOK, RefundInv, NoticeInv, [Next]_vars PROVE NoticeInv'
  OBVIOUS
<1> DEFINE Silent == \A x \in Told : effects'[x] = effects[x]
<1>1. orderStatus \in Closed => orderStatus' \in Closed
  <2>1. CASE orderStatus' = orderStatus
    BY <2>1
  <2>2. CASE CheckoutPlaceOrder
    BY <2>2, NoneAssumption
    DEF CheckoutPlaceOrder, RefundInv, CheckoutInv, Closed, RefundFlow, OrderStatus
  <2>3. CASE CanTransition(orderStatus, "PAID") /\ orderStatus' = "FULFILLMENT_QUEUED"
    BY <2>3, RefundGraph DEF Closed, RefundFlow, BeforePayment
  <2>4. CASE CanTransition(orderStatus, orderStatus')
    BY <2>4, NoticeGraph
  <2>5. QED BY <2>1, <2>2, <2>3, <2>4, OrderSteps
<1>2. ASSUME Silent PROVE NoticeInv'
  BY <1>1, <1>2, NoticeQuiet
<1>3. CASE UNCHANGED effects
  BY <1>2, <1>3
<1>4. CASE Checkout
  BY <1>3, <1>4 DEF Checkout, CheckoutPlaceOrder, CheckoutCreatePayment, CheckoutCreateIntent,
     CheckoutSaveReference, CheckoutCrash
<1>5. ASSUME NEW e \in Events, Webhook(e) PROVE NoticeInv'
  <2>1. CASE WebhookCapture(e)
    <3>1. Silent
      BY <2>1 DEF TypeOK, WebhookCapture, Record, Invoice, Effect, Told
    <3>2. QED BY <1>2, <3>1
  <2>2. CASE ~WebhookCapture(e)
    BY <1>3, <1>5, <2>2 DEF Webhook, WebhookRecordOnly, WebhookAccept, WebhookUpdatePayment,
       WebhookFail, WebhookThrow, WebhookCrash, WebhookRollback
  <2>3. QED BY <2>1, <2>2
<1>6. ASSUME NEW r \in Refunds, Refund(r) PROVE NoticeInv'
  <2>1. CASE RefundBook(r)
    <3>1. Silent
      BY <2>1 DEF TypeOK, RefundBook, Record, Effect, Told
    <3>2. QED BY <1>2, <3>1
  <2>2. CASE ~RefundBook(r)
    BY <1>3, <1>6, <2>2 DEF Refund, RefundReadOrder, RefundCheck, RefundTurnedAway, RefundRequest,
       RefundConflict, RefundGatewayPays, RefundGatewayDeclines, RefundCrash
  <2>3. QED BY <2>1, <2>2
<1>7. ASSUME NEW j \in Jobs, Job(j) PROVE NoticeInv'
  <2>1. CASE JobFinalize(j)
    BY <2>1, NoticeMove DEF JobFinalize
  <2>2. CASE ~JobFinalize(j)
    BY <1>3, <1>7, <2>2 DEF Job, JobStart, JobPickUp, JobDecide, JobEnd
  <2>3. QED BY <2>1, <2>2
<1>8. ASSUME NEW a \in Admins, Admin(a) PROVE NoticeInv'
  <2>1. CASE AdminUpdate(a)
    BY <2>1, NoticeMove DEF AdminUpdate
  <2>2. CASE ~AdminUpdate(a)
    BY <1>3, <1>8, <2>2 DEF Admin, AdminCheck, AdminConflict
  <2>3. QED BY <2>1, <2>2
<1>9. CASE UNCHANGED vars
  BY <1>3, <1>9 DEF vars
<1>10. QED BY <1>4, <1>5, <1>6, <1>7, <1>8, <1>9 DEF Next

LEMMA NoticeCorrect == Spec => []NoticeInv
<1>1. Init => NoticeInv
  BY DEF Init, NoticeInv, OneClosingNotice, Effect
<1>2. QED BY <1>1, TypeCorrect, RefundInvCorrect, NoticeStep, PTL DEF Spec

\* The customer hears that the order is complete, or that it failed, at most
\* once and never both.
THEOREM ClosedOnce == Spec => []OneClosingNotice
<1>1. NoticeInv => OneClosingNotice
  BY DEF NoticeInv
<1>2. QED BY <1>1, NoticeCorrect, PTL

-----------------------------------------------------------------------------
(***************************************************************************)
(* The order implements the purchase.                                      *)
(***************************************************************************)
Booked == {"PARTIALLY_REFUNDED", "REFUNDED"}

\* A refund is entered by the refund calls and left by nobody.
LEMMA BookedGraph ==
  ASSUME NEW from, NEW to, CanTransition(from, to)
  PROVE  /\ from \in Booked => to \in Booked
         /\ to \in Booked => from \in Booked \cup {"REFUND_PENDING"}
BY DEF CanTransition, AllowedTransitions, OrderStatus, Booked

\* A step that books no refund and starts no call.
LEMMA BuyerQuiet ==
  ASSUME BuyerInv,
         effects'["outbox_event"] = effects["outbox_event"],
         effects'["refund_issued"] = effects["refund_issued"],
         orderStatus' \in Booked <=> orderStatus \in Booked,
         \A j \in Jobs : jobPc'[j] # "idle" => jobPc[j] # "idle",
         \A a \in Admins : adminPc'[a] = "checked" =>
           adminPc[a] = "checked" /\ adminTo'[a] = adminTo[a] /\ adminFrom'[a] = adminFrom[a]
  PROVE  BuyerInv'
BY DEF BuyerInv, Booked

LEMMA BuyerStep ==
  TypeOK /\ RefundInv /\ HistoryInv /\ BuyerInv /\ [Next]_vars => BuyerInv'
<1> SUFFICES ASSUME TypeOK, RefundInv, HistoryInv, BuyerInv, [Next]_vars PROVE BuyerInv'
  OBVIOUS
<1> USE DEF orderVars, jobVars, adminVars
<1>1. CASE UNCHANGED vars
  BY <1>1, BuyerQuiet DEF vars
<1>2. CASE Checkout
  <2>1. CASE CheckoutPlaceOrder
    <3>1. orderStatus = None /\ orderStatus' = "PENDING_PAYMENT"
      BY <2>1 DEF CheckoutPlaceOrder, RefundInv, CheckoutInv
    <3>2. orderStatus \notin Booked /\ orderStatus' \notin Booked
      BY <3>1, NoneAssumption DEF Booked, OrderStatus
    <3>3. QED BY <2>1, <3>2, BuyerQuiet DEF CheckoutPlaceOrder
  <2>2. CASE ~CheckoutPlaceOrder
    BY <1>2, <2>2, BuyerQuiet DEF Checkout, CheckoutCreatePayment, CheckoutCreateIntent,
       CheckoutSaveReference, CheckoutCrash
  <2>3. QED BY <2>1, <2>2
<1>3. ASSUME NEW e \in Events, Webhook(e) PROVE BuyerInv'
  <2>1. CASE WebhookCapture(e)
    <3>1. /\ orderStatus' = "FULFILLMENT_QUEUED"
          /\ orderStatus \in BeforePayment
      BY <2>1, RefundGraph DEF WebhookCapture, Accepts
    <3>2. effects'["outbox_event"] > 0 /\ effects'["refund_issued"] = effects["refund_issued"]
      BY <2>1 DEF WebhookCapture, Record, Invoice, Effect, TypeOK
    <3>3. QED BY <2>1, <3>1, <3>2 DEF WebhookCapture, BuyerInv, BeforePayment
  <2>2. CASE WebhookFail(e)
    <3>1. /\ orderStatus' = "FAILED" /\ orderStatus \notin Booked
      BY <2>2, BookedGraph DEF WebhookFail, Transition, Accepts, Booked
    <3>2. QED BY <2>2, <3>1, BuyerQuiet DEF WebhookFail, Booked
  <2>3. CASE ~(WebhookCapture(e) \/ WebhookFail(e))
    BY <1>3, <2>3, BuyerQuiet DEF Webhook, WebhookRecordOnly, WebhookAccept,
       WebhookUpdatePayment, WebhookThrow, WebhookCrash, WebhookRollback
  <2>4. QED BY <2>1, <2>2, <2>3
<1>4. ASSUME NEW r \in Refunds, Refund(r) PROVE BuyerInv'
  <2>1. CASE RefundRequest(r)
    <3>1. orderStatus' = "REFUND_PENDING" /\ orderStatus \notin Booked
      BY <2>1, BookedGraph DEF RefundRequest, Transition, Accepts, Booked
    <3>2. QED BY <2>1, <3>1, BuyerQuiet DEF RefundRequest, Booked
  <2>2. CASE RefundBook(r)
    <3>1. orderStatus = "REFUND_PENDING" /\ orderStatus' \in Booked
      BY <2>2 DEF RefundBook, Transition, Accepts, Booked
    <3>2. /\ effects'["outbox_event"] = effects["outbox_event"]
          /\ effects'["refund_issued"] = effects["refund_issued"] + 1
      BY <2>2 DEF RefundBook, Record, Effect, TypeOK
    <3>3. QED BY <2>2, <3>1, <3>2 DEF RefundBook, BuyerInv, Booked
  <2>3. CASE ~(RefundRequest(r) \/ RefundBook(r))
    BY <1>4, <2>3, BuyerQuiet DEF Refund, RefundReadOrder, RefundCheck, RefundTurnedAway,
       RefundConflict, RefundGatewayPays, RefundGatewayDeclines, RefundCrash
  <2>4. QED BY <2>1, <2>2, <2>3
<1>5. ASSUME NEW j \in Jobs, Job(j) PROVE BuyerInv'
  <2>1. CASE JobStart(j)
    BY <2>1 DEF JobStart, BuyerInv, TypeOK
  <2>2. CASE JobPickUp(j)
    <3>1. orderStatus' = "PROCESSING" /\ orderStatus = "FULFILLMENT_QUEUED"
      BY <2>2 DEF JobPickUp, Transition, Accepts
    <3>2. QED BY <2>2, <3>1, BuyerQuiet DEF JobPickUp, Booked, TypeOK
  <2>3. CASE JobFinalize(j)
    <3>1. /\ jobTarget[j] \in FinalizeTargets
          /\ orderStatus' = jobTarget[j] /\ CanTransition(orderStatus, orderStatus')
      BY <2>3, TransitionTypes, NoneAssumption DEF JobFinalize, Transition, Accepts, TypeOK
    <3>2. orderStatus' \notin Booked /\ orderStatus \notin Booked
      BY <3>1, BookedGraph DEF FinalizeTargets, Booked
    <3>3. /\ effects'["outbox_event"] = effects["outbox_event"]
          /\ effects'["refund_issued"] = effects["refund_issued"]
      BY <2>3 DEF JobFinalize, Record, Notice, Effect, TypeOK
    <3>4. QED BY <2>3, <3>2, <3>3, BuyerQuiet DEF JobFinalize, JobReturn, TypeOK
  <2>4. CASE JobDecide(j) \/ JobEnd(j)
    BY <2>4, BuyerQuiet DEF JobDecide, JobEnd, JobReturn, TypeOK
  <2>5. QED BY <1>5, <2>1, <2>2, <2>3, <2>4 DEF Job
<1>6. ASSUME NEW a \in Admins, Admin(a) PROVE BuyerInv'
  <2>1. CASE AdminCheck(a)
    BY <2>1 DEF AdminCheck, BuyerInv, TypeOK
  <2>2. CASE AdminUpdate(a)
    <3>1. /\ adminTo[a] \in AdminTargets
          /\ orderStatus' = adminTo[a] /\ CanTransition(orderStatus, orderStatus')
      BY <2>2, TransitionTypes, NoneAssumption DEF AdminUpdate, Transition, Accepts, TypeOK
    <3>2. orderStatus' \notin Booked /\ orderStatus \notin Booked
      BY <3>1, BookedGraph DEF AdminTargets, Booked
    <3>3. /\ effects'["outbox_event"] = effects["outbox_event"]
          /\ effects'["refund_issued"] = effects["refund_issued"]
      BY <2>2 DEF AdminUpdate, Record, Notice, Effect, TypeOK
    <3>4. QED BY <2>2, <3>2, <3>3, BuyerQuiet DEF AdminUpdate, AdminReturn, TypeOK
  <2>3. CASE AdminConflict(a)
    BY <2>3, BuyerQuiet DEF AdminConflict, AdminReturn, TypeOK
  <2>4. QED BY <1>6, <2>1, <2>2, <2>3 DEF Admin
<1>7. QED BY <1>1, <1>2, <1>3, <1>4, <1>5, <1>6 DEF Next

LEMMA BuyerInvCorrect == Spec => []BuyerInv
<1>1. Init => BuyerInv
  BY NoneAssumption DEF Init, BuyerInv, Effect, OrderStatus
<1>2. QED BY <1>1, TypeCorrect, RefundInvCorrect, HistoryCorrect, BuyerStep, PTL DEF Spec

\* A closer, job or administrator, finds the order paid and its money in place.
LEMMA ClosersPaid ==
  ASSUME TypeOK, RefundInv, HistoryInv, NoticeInv, NEW to \in {"COMPLETED", "FAILED"},
         CanTransition(orderStatus, to), orderStatus \notin BeforePayment
  PROVE  /\ WasPaid /\ gatewayRefunded = 0
         /\ effects["order_completed"] = 0 /\ effects["order_failed"] = 0
<1>1. orderStatus \notin Closed
  BY NoticeGraph
<1>2. effects["order_completed"] = 0 /\ effects["order_failed"] = 0
  BY <1>1 DEF NoticeInv, TypeOK, Effect, Closed
<1>3. gatewayRefunded = 0
  BY <1>1 DEF RefundInv, BooksInv, Closed
<1>4. orderStatus \in MoneyIsHeld
  BY <1>1 DEF CanTransition, AllowedTransitions, OrderStatus, MoneyIsHeld, BeforePayment, Closed
<1>5. WasPaid
  BY <1>4 DEF RefundInv, HeldMeansCaptured, HistoryInv, CapturedMeansPaid
<1>6. QED BY <1>2, <1>3, <1>5

\* The rows of the capture tell whether the order was ever paid.
LEMMA PaidStays ==
  ASSUME HistoryInv, HistoryInv', effects'["invoice"] = effects["invoice"]
  PROVE  WasPaid' = WasPaid
<1>1. WasPaid' <=> WasPaid
  BY DEF HistoryInv, CaptureHappensOnce
<1>2. WasPaid \in BOOLEAN /\ WasPaid' \in BOOLEAN
  BY DEF WasPaid
<1>3. QED BY <1>1, <1>2, Zenon

\* A step that moves no money and tells nothing.
LEMMA BuyerStutters ==
  ASSUME HistoryInv, HistoryInv', UNCHANGED <<effects, gatewayRefunded>>
  PROVE  UNCHANGED Buyer!purchaseVars
BY PaidStays DEF Buyer!purchaseVars

\* One of the two notices, by whichever closer.
LEMMA ClosingStep ==
  ASSUME TypeOK, RefundInv, HistoryInv, HistoryInv', NoticeInv, UNCHANGED gatewayRefunded,
         NEW to \in FinalizeTargets \cup AdminTargets,
         Transition(orderStatus, to), Record(Notice(to)),
         to \in {"COMPLETED", "FAILED"} => orderStatus \notin BeforePayment
  PROVE  [Buyer!Next]_(Buyer!purchaseVars)
<1>1. CanTransition(orderStatus, to)
  BY DEF Transition, Accepts
<1>2. WasPaid' = WasPaid
  BY PaidStays DEF Record, Notice, Effect, TypeOK
<1>3. effects'["refund_issued"] = effects["refund_issued"]
  BY DEF Record, Notice, Effect, TypeOK
<1>4. CASE to = "COMPLETED"
  <2>1. /\ WasPaid /\ gatewayRefunded = 0
        /\ effects["order_completed"] = 0 /\ effects["order_failed"] = 0
    BY <1>1, <1>4, ClosersPaid
  <2>2. effects'["order_completed"] = 1 /\ effects'["order_failed"] = 0
    BY <1>4, <2>1 DEF Record, Notice, Effect
  <2>3. Buyer!Close("completed")
    BY <1>2, <1>3, <2>1, <2>2 DEF Buyer!Close, Buyer!Nothing
  <2>4. QED BY <2>3 DEF Buyer!Next
<1>5. CASE to = "FAILED"
  <2>1. /\ WasPaid /\ gatewayRefunded = 0
        /\ effects["order_completed"] = 0 /\ effects["order_failed"] = 0
    BY <1>1, <1>5, ClosersPaid
  <2>2. effects'["order_completed"] = 0 /\ effects'["order_failed"] = 1
    BY <1>5, <2>1 DEF Record, Notice, Effect
  <2>3. Buyer!Close("failed")
    BY <1>2, <1>3, <2>1, <2>2 DEF Buyer!Close, Buyer!Nothing
  <2>4. QED BY <2>3 DEF Buyer!Next
<1>6. CASE to \notin {"COMPLETED", "FAILED"}
  <2>1. effects' = effects
    BY <1>6 DEF Record, Notice, Effect, TypeOK
  <2>2. QED BY <2>1, BuyerStutters
<1>7. QED BY <1>4, <1>5, <1>6

\* Every step of the order is a step of the purchase, or none of its business.
LEMMA PurchaseStep ==
  TypeOK /\ RefundInv /\ HistoryInv /\ HistoryInv' /\ NoticeInv /\ BuyerInv /\ [Next]_vars
    => [Buyer!Next]_(Buyer!purchaseVars)
<1> SUFFICES ASSUME TypeOK, RefundInv, HistoryInv, HistoryInv', NoticeInv, BuyerInv, [Next]_vars
             PROVE  [Buyer!Next]_(Buyer!purchaseVars)
  OBVIOUS
<1>1. ASSUME UNCHANGED <<effects, gatewayRefunded>> PROVE [Buyer!Next]_(Buyer!purchaseVars)
  BY <1>1, BuyerStutters
<1> USE DEF refundVars
<1>2. CASE UNCHANGED vars
  BY <1>1, <1>2 DEF vars
<1>3. CASE Checkout
  BY <1>1, <1>3 DEF Checkout, CheckoutPlaceOrder, CheckoutCreatePayment, CheckoutCreateIntent,
     CheckoutSaveReference, CheckoutCrash
<1>4. ASSUME NEW e \in Events, Webhook(e) PROVE [Buyer!Next]_(Buyer!purchaseVars)
  <2>1. CASE WebhookCapture(e)
    <3>1. orderStatus \in BeforePayment
      BY <2>1, RefundGraph DEF WebhookCapture, Accepts
    <3>2. ~WasPaid /\ effects["invoice"] = 0
      BY <3>1 DEF HistoryInv, CaptureHappensOnce
    <3>3. effects'["invoice"] = 1
      BY <2>1, <3>2 DEF WebhookCapture, Record, Invoice, Effect
    <3>4. WasPaid'
      BY <3>3 DEF HistoryInv, CaptureHappensOnce
    <3>5. /\ effects'["refund_issued"] = effects["refund_issued"]
          /\ effects'["order_completed"] = effects["order_completed"]
          /\ effects'["order_failed"] = effects["order_failed"]
          /\ gatewayRefunded' = gatewayRefunded
      BY <2>1 DEF WebhookCapture, Record, Invoice, Effect, TypeOK
    <3>6. WasPaid' = TRUE
      BY <3>4 DEF WasPaid
    <3>7. Buyer!Pay
      BY <3>2, <3>5, <3>6 DEF Buyer!Pay
    <3>8. QED BY <3>7 DEF Buyer!Next
  <2>2. CASE ~WebhookCapture(e)
    BY <1>1, <1>4, <2>2 DEF Webhook, WebhookRecordOnly, WebhookAccept, WebhookUpdatePayment,
       WebhookFail, WebhookThrow, WebhookCrash, WebhookRollback
  <2>3. QED BY <2>1, <2>2
<1>5. ASSUME NEW r \in Refunds, Refund(r) PROVE [Buyer!Next]_(Buyer!purchaseVars)
  <2>1. CASE RefundGatewayPays(r) \/ RefundCrash(r)
    <3>1. CASE UNCHANGED gatewayRefunded
      BY <1>1, <2>1, <3>1 DEF RefundGatewayPays, RefundCrash
    <3>2. CASE gatewayRefunded' # gatewayRefunded
      <4>1. refundPc[r] = "requested" /\ gatewayRefunded' = gatewayRefunded + refundAmount[r]
        BY <2>1, <3>2 DEF RefundGatewayPays, RefundCrash
      <4>2. /\ orderStatus = "REFUND_PENDING" /\ refundAmount[r] \in 1 .. Amount
            /\ gatewayRefunded = 0
        BY <4>1 DEF RefundInv, RefundRowInv
      <4>3. WasPaid
        BY <4>2 DEF RefundInv, HeldMeansCaptured, MoneyIsHeld, HistoryInv, CapturedMeansPaid
      <4>4. effects' = effects
        BY <2>1 DEF RefundGatewayPays, RefundCrash
      <4>5. WasPaid' = WasPaid
        BY <4>4, PaidStays
      <4>6. gatewayRefunded' \in 1 .. Amount
        BY <4>1, <4>2, AmountAssumption
      <4>7. Buyer!GiveBack
        BY <4>2, <4>3, <4>4, <4>5, <4>6 DEF Buyer!GiveBack
      <4>8. QED BY <4>7 DEF Buyer!Next
    <3>3. QED BY <3>1, <3>2
  <2>2. CASE RefundBook(r)
    <3>1. refundPc[r] = "moved" /\ gatewayRefunded' = gatewayRefunded
      BY <2>2 DEF RefundBook
    <3>2. orderStatus = "REFUND_PENDING" /\ gatewayRefunded > 0
      BY <3>1 DEF RefundInv, RefundRowInv
    <3>3. effects["refund_issued"] = 0
      BY <3>2 DEF BuyerInv
    <3>4. /\ effects'["refund_issued"] = 1
          /\ effects'["order_completed"] = effects["order_completed"]
          /\ effects'["order_failed"] = effects["order_failed"]
          /\ effects'["invoice"] = effects["invoice"]
      BY <2>2, <3>3 DEF RefundBook, Record, Effect, TypeOK
    <3>5. WasPaid' = WasPaid
      BY <3>4, PaidStays
    <3>6. Buyer!Announce
      BY <3>1, <3>2, <3>3, <3>4, <3>5 DEF Buyer!Announce
    <3>7. QED BY <3>6 DEF Buyer!Next
  <2>3. CASE ~(RefundGatewayPays(r) \/ RefundCrash(r) \/ RefundBook(r))
    BY <1>1, <1>5, <2>3 DEF Refund, RefundReadOrder, RefundCheck, RefundTurnedAway, RefundRequest,
       RefundConflict, RefundGatewayDeclines
  <2>4. QED BY <2>1, <2>2, <2>3
<1>6. ASSUME NEW j \in Jobs, Job(j) PROVE [Buyer!Next]_(Buyer!purchaseVars)
  <2>1. CASE JobFinalize(j)
    <3>1. /\ jobTarget[j] \in FinalizeTargets
          /\ Transition(orderStatus, jobTarget[j]) /\ Record(Notice(jobTarget[j]))
      BY <2>1, TransitionTypes, NoneAssumption DEF JobFinalize, Transition, Accepts, TypeOK
    <3>2. orderStatus \notin BeforePayment
      BY <2>1 DEF JobFinalize, BuyerInv, HistoryInv, CaptureHappensOnce
    <3>3. QED BY <2>1, <3>1, <3>2, ClosingStep DEF JobFinalize
  <2>2. CASE ~JobFinalize(j)
    BY <1>1, <1>6, <2>2 DEF Job, JobStart, JobPickUp, JobDecide, JobEnd
  <2>3. QED BY <2>1, <2>2
<1>7. ASSUME NEW a \in Admins, Admin(a) PROVE [Buyer!Next]_(Buyer!purchaseVars)
  <2>1. CASE AdminUpdate(a)
    <3>1. /\ adminTo[a] \in AdminTargets /\ adminFrom[a] = orderStatus
          /\ Transition(orderStatus, adminTo[a]) /\ Record(Notice(adminTo[a]))
      BY <2>1, TransitionTypes, NoneAssumption DEF AdminUpdate, Transition, Accepts, TypeOK
    <3>2. adminTo[a] \in AdminManualTransitions(orderStatus)
      BY <2>1, <3>1 DEF AdminUpdate, BuyerInv
    <3>3. adminTo[a] \in {"COMPLETED", "FAILED"} => orderStatus \notin BeforePayment
      BY <3>2 DEF AdminManualTransitions, BeforePayment
    <3>4. QED BY <2>1, <3>1, <3>3, ClosingStep DEF AdminUpdate
  <2>2. CASE ~AdminUpdate(a)
    BY <1>1, <1>7, <2>2 DEF Admin, AdminCheck, AdminConflict
  <2>3. QED BY <2>1, <2>2
<1>8. QED BY <1>2, <1>3, <1>4, <1>5, <1>6, <1>7 DEF Next

\* Webhooks, refund calls, jobs and administrators together keep the promise of
\* the purchase: the price taken once, money back once and only after it was
\* taken, every message sent once and never after it stopped being true.
THEOREM KeepsThePromise == Spec => ImplementsPurchase
<1>1. Init => Buyer!Init
  <2> SUFFICES ASSUME Init PROVE Buyer!Init
    OBVIOUS
  <2>1. WasPaid = FALSE
    BY DEF Init, WasPaid
  <2>2. QED BY <2>1 DEF Init, Buyer!Init, Buyer!Nothing, Effect
<1>2. QED
  BY <1>1, TypeCorrect, RefundInvCorrect, HistoryCorrect, NoticeCorrect, BuyerInvCorrect,
     PurchaseStep, PTL
  DEF Spec, ImplementsPurchase, Buyer!Spec
=============================================================================
