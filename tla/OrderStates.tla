---------------------------- MODULE OrderStates ----------------------------
(***************************************************************************)
(* The status graph of an order (packages/db/src/order-state-machine.ts)   *)
(* and the two curated subsets of it the administration code consults      *)
(* before it asks the state machine for a transition.  Constant level only.*)
(***************************************************************************)

OrderStatus ==
  {"DRAFT", "PENDING_PAYMENT", "PAYMENT_REVIEW", "PAID", "FULFILLMENT_QUEUED",
   "PROCESSING", "PARTIALLY_FULFILLED", "MANUAL_REVIEW", "COMPLETED", "FAILED",
   "CANCELLED", "REFUND_PENDING", "PARTIALLY_REFUNDED", "REFUNDED"}

\* ALLOWED_TRANSITIONS: anything not listed is refused.
AllowedTransitions ==
  [s \in OrderStatus |->
    CASE s = "DRAFT"               -> {"PENDING_PAYMENT", "CANCELLED"}
      [] s = "PENDING_PAYMENT"     -> {"PAYMENT_REVIEW", "PAID", "FAILED", "CANCELLED"}
      [] s = "PAYMENT_REVIEW"      -> {"PAID", "FAILED", "CANCELLED"}
      [] s = "PAID"                -> {"FULFILLMENT_QUEUED", "REFUND_PENDING"}
      [] s = "FULFILLMENT_QUEUED"  -> {"PROCESSING", "MANUAL_REVIEW", "REFUND_PENDING"}
      [] s = "PROCESSING"          -> {"PARTIALLY_FULFILLED", "COMPLETED", "MANUAL_REVIEW",
                                       "FAILED", "REFUND_PENDING"}
      [] s = "PARTIALLY_FULFILLED" -> {"COMPLETED", "MANUAL_REVIEW", "REFUND_PENDING"}
      [] s = "MANUAL_REVIEW"       -> {"COMPLETED", "PARTIALLY_FULFILLED", "FAILED",
                                       "REFUND_PENDING"}
      [] s = "COMPLETED"           -> {"REFUND_PENDING"}
      [] s = "FAILED"              -> {"REFUND_PENDING", "CANCELLED"}
      [] s = "CANCELLED"           -> {}
      [] s = "REFUND_PENDING"      -> {"PARTIALLY_REFUNDED", "REFUNDED"}
      [] s = "PARTIALLY_REFUNDED"  -> {"REFUNDED", "PARTIALLY_REFUNDED"}
      [] s = "REFUNDED"            -> {}]

CanTransition(from, to) == from \in OrderStatus /\ to \in AllowedTransitions[from]

\* Mutant: an administrator may do whatever the state machine allows.
MutantAnyAllowedTransition(from) == AllowedTransitions[from]

\* ADMIN_MANUAL_TRANSITIONS: what an administrator may do by hand.
AdminManualTransitions(from) ==
  CASE from \in {"DRAFT", "PENDING_PAYMENT", "FAILED"} -> {"CANCELLED"}
    [] from = "MANUAL_REVIEW" -> {"COMPLETED", "PARTIALLY_FULFILLED", "FAILED"}
    [] OTHER -> {}

\* REFUNDABLE_STATUSES: where AdminRefundsService.createRefund may start from.
RefundableStatuses ==
  {"PAID", "FULFILLMENT_QUEUED", "PROCESSING", "PARTIALLY_FULFILLED",
   "COMPLETED", "FAILED", "MANUAL_REVIEW"}

\* What finalizeOrderFulfillmentStatus can decide.
FinalizeTargets == {"COMPLETED", "MANUAL_REVIEW", "PARTIALLY_FULFILLED", "FAILED"}
=============================================================================
