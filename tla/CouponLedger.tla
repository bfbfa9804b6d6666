---------------------------- MODULE CouponLedger ----------------------------
(***************************************************************************)
(* What a coupon promises its owner, and nothing of how: its terms may be  *)
(* amended at any moment, and a redemption is given to an order only while *)
(* the terms in force at that very moment allow one more.                  *)
(***************************************************************************)
EXTENDS Integers, FiniteSets

CONSTANTS Orders, Emails, NoEmail, Unlimited

VARIABLES active, limit, limitPerCustomer, redeemedBy

ledgerVars == <<active, limit, limitPerCustomer, redeemedBy>>

Redeemed    == {o \in Orders : redeemedBy[o] # NoEmail}
RedeemedOf(e) == {o \in Orders : redeemedBy[o] = e}

LedgerInit == redeemedBy = [o \in Orders |-> NoEmail]

(* A guest order that left no email address redeems under "anonymous".     *)
Redeem(o, e) ==
    /\ o \notin Redeemed
    /\ active
    /\ limit # Unlimited => Cardinality(Redeemed) < limit
    /\ limitPerCustomer # Unlimited =>
          e # "anonymous" /\ Cardinality(RedeemedOf(e)) < limitPerCustomer
    /\ redeemedBy' = [redeemedBy EXCEPT ![o] = e]
    /\ UNCHANGED <<active, limit, limitPerCustomer>>

Amend == UNCHANGED redeemedBy

LedgerNext == Amend \/ \E o \in Orders, e \in Emails \cup {"anonymous"} : Redeem(o, e)

LedgerSpec == LedgerInit /\ [][LedgerNext]_ledgerVars
=============================================================================
