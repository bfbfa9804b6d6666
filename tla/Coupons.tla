------------------------------ MODULE Coupons ------------------------------
(***************************************************************************)
(* One coupon: the checks CouponService.applyCoupon makes under its row    *)
(* lock, and AdminCouponsService, which reads the row, validates what the  *)
(* edit would make of it, and writes the fields the edit names in a        *)
(* transaction of its own.                                                 *)
(***************************************************************************)
EXTENDS Pricing, FiniteSets

CONSTANTS CouponAdmins,
          Holders,        \* the transactions that may hold the coupon's row lock
          NewCoupons,     \* what an administrator may create
          CouponEdits,    \* what one may send as an update: the fields it names
          NoCoupon, NoLimit, NoDate, NoHolder,
          Horizon         \* bound: the last moment

Moment == 0 .. Horizon

(* What the DTOs let a field hold.  An edit names some of the fields.        *)
TermValues ==
    [discountType |-> {"percentage", "fixed"}, discountValue |-> Nat \ {0},
     maxRedemptions |-> (Nat \ {0}) \cup {NoLimit},
     maxRedemptionsPerCustomer |-> (Nat \ {0}) \cup {NoLimit},
     minOrderAmount |-> Nat \cup {NoLimit},
     startsAt |-> Moment \cup {NoDate}, endsAt |-> Moment \cup {NoDate},
     isActive |-> BOOLEAN]

TermFields == DOMAIN TermValues

Partial(terms) == DOMAIN terms \subseteq TermFields /\ \A f \in DOMAIN terms : terms[f] \in TermValues[f]
Complete(terms) == Partial(terms) /\ DOMAIN terms = TermFields

ASSUME CouponAssumption ==
    /\ \A t \in NewCoupons : Complete(t) /\ t.isActive
    /\ \A e \in CouponEdits : Partial(e)
    /\ NoHolder \notin Holders
    /\ NoDate \notin Moment
    /\ Horizon \in Nat

VARIABLES
    coupon,       \* the coupon's row (NoCoupon: not created yet)
    couponLock,   \* the transaction that holds the row FOR UPDATE
    couponTask,   \* couponTask[a]: the validated edit administrator a has under way
    now,
    editsOverlapped   \* history: two edits have been under way at once

couponVars == <<coupon, couponLock, couponTask, now, editsOverlapped>>

NoEdit == [op |-> "none"]

(* validateDiscountValue and validateDateWindow.                           *)
MutantValid(terms) ==
    terms.discountType = "percentage" => terms.discountValue <= BasisPoints

Valid(terms) ==
    /\ terms.discountType = "percentage" => terms.discountValue <= BasisPoints
    /\ NoDate \notin {terms.startsAt, terms.endsAt} => terms.startsAt < terms.endsAt

CouponInit(first) ==
    /\ coupon \in first
    /\ coupon # NoCoupon => Valid(coupon)
    /\ couponLock = NoHolder
    /\ couponTask = [a \in CouponAdmins |-> NoEdit]
    /\ now = 0
    /\ editsOverlapped = FALSE

(***************************************************************************)
(* CouponService.applyCoupon.  used counts the coupon's redemptions,       *)
(* usedByEmail those of this address; no address is "anonymous".           *)
(***************************************************************************)
Under(limit, count) == limit # NoLimit => count < limit

Applicable(eligible, email, used, usedByEmail) ==
    /\ coupon # NoCoupon
    /\ coupon.isActive
    /\ coupon.startsAt # NoDate => now >= coupon.startsAt
    /\ coupon.endsAt # NoDate => now <= coupon.endsAt
    /\ coupon.minOrderAmount # NoLimit => eligible >= coupon.minOrderAmount
    /\ Under(coupon.maxRedemptions, used)
    /\ coupon.maxRedemptionsPerCustomer # NoLimit =>
          email # "anonymous" /\ Under(coupon.maxRedemptionsPerCustomer, usedByEmail)

(***************************************************************************)
(* AdminCouponsService.                                                    *)
(***************************************************************************)
Amended(edit) == [f \in TermFields |-> IF f \in DOMAIN edit THEN edit[f] ELSE coupon[f]]

BeginEdit(a, t) ==
    /\ couponTask[a] = NoEdit
    /\ couponTask' = [couponTask EXCEPT ![a] = t]
    /\ editsOverlapped' = (editsOverlapped \/ \E b \in CouponAdmins : couponTask[b] # NoEdit)
    /\ UNCHANGED <<coupon, couponLock, now>>

BeginCreateCoupon(a, terms) ==
    /\ coupon = NoCoupon
    /\ Valid(terms)
    /\ BeginEdit(a, [op |-> "create", terms |-> terms])

BeginUpdateCoupon(a, edit) ==
    /\ coupon # NoCoupon
    /\ Valid(Amended(edit))
    /\ BeginEdit(a, [op |-> "update", terms |-> edit])

(* deactivateCoupon validates nothing.                                     *)
BeginDeactivateCoupon(a) ==
    /\ coupon # NoCoupon
    /\ BeginEdit(a, [op |-> "update", terms |-> [isActive |-> FALSE]])

EndEdit(a) ==
    /\ couponTask' = [couponTask EXCEPT ![a] = NoEdit]
    /\ UNCHANGED <<couponLock, now, editsOverlapped>>

(* The unique code refuses the second of two creations.                    *)
CommitCreateCoupon(a) ==
    /\ couponTask[a].op = "create"
    /\ coupon' = IF coupon = NoCoupon THEN couponTask[a].terms ELSE coupon
    /\ EndEdit(a)

(* The update waits for a checkout that holds the row.                     *)
CommitUpdateCoupon(a) ==
    /\ couponTask[a].op = "update"
    /\ couponLock = NoHolder
    /\ coupon' = Amended(couponTask[a].terms)
    /\ EndEdit(a)

(* The API process dies with the edit in it.                               *)
AbandonEdit(a) ==
    /\ couponTask[a] # NoEdit
    /\ UNCHANGED coupon
    /\ EndEdit(a)

Tick ==
    /\ now < Horizon
    /\ now' = now + 1
    /\ UNCHANGED <<coupon, couponLock, couponTask, editsOverlapped>>

BeginCouponEdit(a) ==
    \/ \E terms \in NewCoupons : BeginCreateCoupon(a, terms)
    \/ \E edit \in CouponEdits : BeginUpdateCoupon(a, edit)
    \/ BeginDeactivateCoupon(a)

EndCouponEdit(a) == CommitCreateCoupon(a) \/ CommitUpdateCoupon(a) \/ AbandonEdit(a)

CouponNext ==
    \/ \E a \in CouponAdmins : BeginCouponEdit(a) \/ EndCouponEdit(a)
    \/ Tick

(***************************************************************************)
(* Properties.                                                             *)
(***************************************************************************)
CouponTypeOK ==
    /\ coupon # NoCoupon => Complete(coupon)
    /\ couponLock \in Holders \cup {NoHolder}
    /\ couponTask \in [CouponAdmins ->
          {NoEdit} \cup [op : {"create"}, terms : NewCoupons]
                   \cup [op : {"update"}, terms : CouponEdits \cup {[isActive |-> FALSE]}]]
    /\ now \in Moment
    /\ editsOverlapped \in BOOLEAN

(* However a coupon's terms are reached, one partial edit after another,   *)
(* it never gives more than the whole amount and its window never ends     *)
(* before it starts.  Each edit is validated against the row as it was     *)
(* read, so this holds as long as no two edits are under way at once.      *)
CouponInRange ==
    coupon # NoCoupon /\ ~editsOverlapped =>
        /\ coupon.discountType = "percentage" => coupon.discountValue <= BasisPoints
        /\ coupon.startsAt \in Moment /\ coupon.endsAt \in Moment =>
              coupon.startsAt < coupon.endsAt
=============================================================================
