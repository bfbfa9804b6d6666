--------------------------- MODULE Shopping_proofs ---------------------------
(***************************************************************************)
(* Shopping, for any customers, requests, coupons and administrators, and  *)
(* any cart found in localStorage: the checkouts keep the promise          *)
(* CouponLedger states; no course of edits takes a coupon's terms out of   *)
(* range; a cart filled once is paid at most once, and what is charged is  *)
(* what was shown.                                                         *)
(***************************************************************************)
EXTENDS Shopping, Catalogue_proofs

Addresses == Emails \cup {"anonymous"}

RequestFields == {"phase", "shown", "rows", "withCoupon", "email", "couponDiscount", "placed", "paid"}

\* What a request's row may rely on as it goes through its phases.
Shape(x) ==
    /\ {"phase", "placed"} \subseteq DOMAIN x
    /\ x.placed \in BOOLEAN
    /\ x.phase \in {"sent", "read", "locked", "placed"} \/ x.placed =>
          /\ RequestFields \subseteq DOMAIN x
          /\ x.withCoupon \in BOOLEAN
          /\ x.email \in Addresses
    /\ x.phase \in {"unused", "sent", "read", "locked"} => ~x.placed
    /\ x.phase = "locked" => x.withCoupon

RequestInv ==
    /\ request = [r \in Requests |-> request[r]]
    /\ \A r \in Requests : Shape(request[r])

\* What the ledger asks of the coupon before it gives one more redemption.
Allows(e) ==
    /\ coupon # NoCoupon
    /\ coupon.isActive
    /\ coupon.maxRedemptions # NoLimit => Cardinality(Redeeming) < coupon.maxRedemptions
    /\ coupon.maxRedemptionsPerCustomer # NoLimit =>
          e # "anonymous" /\ Cardinality(RedeemingBy(e)) < coupon.maxRedemptionsPerCustomer

\* A request past the coupon's checks holds the row, so they still hold.
LockInv ==
    \A r \in Requests : request[r].phase = "locked" => couponLock = r /\ Allows(request[r].email)

LedgerInv == RequestInv /\ LockInv

RedeemedBy == [r \in Requests |-> IF r \in Redeeming THEN request[r].email ELSE NoRequest]

Next == [ShoppingNext]_shoppingVars

LEMMA InitLedger == ShoppingSpec => LedgerInv /\ Ledger!LedgerInit
<1> SUFFICES ASSUME ShopInit(FiniteCarts) PROVE LedgerInv /\ Ledger!LedgerInit
  BY DEF ShoppingSpec
<1>1. request = [r \in Requests |-> Unused]
  BY DEF ShopInit
<1>2. \A r \in Requests : request[r].phase = "unused" /\ ~request[r].placed
  BY <1>1 DEF Unused
<1>3. LedgerInv
  BY <1>1, <1>2 DEF LedgerInv, RequestInv, LockInv, Shape, Unused
<1>4. Redeeming = {}
  BY <1>2 DEF Redeeming, Orders
<1> QED BY <1>3, <1>4 DEF Ledger!LedgerInit

\* A step of one request that neither makes nor touches an order.
LEMMA SameOrders ==
    ASSUME LedgerInv, NEW r \in Requests, NEW x, Shape(x),
           request' = [request EXCEPT ![r] = x],
           x.placed = request[r].placed,
           x.placed => x.withCoupon = request[r].withCoupon /\ x.email = request[r].email
    PROVE  RequestInv' /\ Redeeming' = Redeeming /\ RedeemedBy' = RedeemedBy
           /\ \A e \in Addresses : RedeemingBy(e)' = RedeemingBy(e)
<1>1. request'[r] = x /\ \A s \in Requests : s # r => request'[s] = request[s]
  BY DEF LedgerInv, RequestInv
<1>2. RequestInv'
  BY <1>1 DEF LedgerInv, RequestInv
<1>3. Redeeming' = Redeeming
  BY <1>1 DEF Redeeming, Orders
<1>4. \A s \in Redeeming : request'[s].email = request[s].email
  BY <1>1 DEF Redeeming, Orders
<1>5. RedeemedBy' = RedeemedBy
  BY <1>3, <1>4 DEF RedeemedBy
<1>6. \A e \in Addresses : RedeemingBy(e)' = RedeemingBy(e)
  BY <1>3, <1>4 DEF RedeemingBy
<1> QED BY <1>2, <1>3, <1>5, <1>6

\* The limits compare the coupon with the redemptions, and with nothing else.
LEMMA SameLimits ==
    ASSUME coupon' = coupon, Redeeming' = Redeeming, NEW e, RedeemingBy(e)' = RedeemingBy(e)
    PROVE  Allows(e)' <=> Allows(e)
BY DEF Allows

\* A step that leaves the lock held, or lets go of a lock of its own.
LEMMA LockKept ==
    ASSUME LedgerInv, NEW r \in Requests, NEW x, Shape(x), x.phase # "locked",
           request' = [request EXCEPT ![r] = x],
           couponLock' = couponLock \/ couponLock = r, coupon' = coupon,
           x.placed = request[r].placed,
           x.placed => x.withCoupon = request[r].withCoupon /\ x.email = request[r].email
    PROVE  LedgerInv' /\ RedeemedBy' = RedeemedBy
<1>1. /\ RequestInv' /\ Redeeming' = Redeeming /\ RedeemedBy' = RedeemedBy
      /\ \A e \in Addresses : RedeemingBy(e)' = RedeemingBy(e)
  BY SameOrders
<1>2. LockInv'
  <2> SUFFICES ASSUME NEW s \in Requests, request'[s].phase = "locked"
               PROVE  couponLock' = s /\ Allows(request[s].email)'
    BY DEF LockInv
  <2>1. s # r /\ request'[s] = request[s] /\ request[s].phase = "locked"
    BY DEF LedgerInv, RequestInv
  <2>2. couponLock = s /\ Allows(request[s].email) /\ request[s].email \in Addresses
    BY <2>1 DEF LedgerInv, LockInv, RequestInv, Shape
  <2>3. Allows(request[s].email)'
    BY <1>1, <2>1, <2>2 DEF Allows
  <2> QED BY <2>1, <2>2, <2>3
<1> QED BY <1>1, <1>2 DEF LedgerInv

\* Nothing the ledger speaks of changes.
LEMMA Untouched ==
    ASSUME LedgerInv, UNCHANGED <<request, couponLock, coupon>>
    PROVE  LedgerInv' /\ RedeemedBy' = RedeemedBy
BY DEF LedgerInv, RequestInv, Shape, LockInv, Allows, Redeeming, RedeemingBy, Orders, RedeemedBy

\* What the customers do in their browsers: they send requests and pay.
LEMMA StepCustomer ==
    ASSUME LedgerInv, CustomerStep, UNCHANGED couponVars
    PROVE  LedgerInv' /\ RedeemedBy' = RedeemedBy
<1> USE DEF couponVars
<1>1. PICK t \in Tabs :
          \/ CartStep(t, 1 .. MaxLine)
          \/ CheckoutStep(t, BOOLEAN, Addresses)
          \/ PaymentStep(t)
  BY DEF CustomerStep, Addresses
<1>2. CASE \E r \in Requests, c \in BOOLEAN, e \in Addresses : Submit(t, r, c, e)
  <2>1. PICK r \in Requests, c \in BOOLEAN, e \in Addresses : Submit(t, r, c, e)
    BY <1>2
  <2> DEFINE x == [phase |-> "sent", shown |-> tab[t].cart, rows |-> NoLines,
                   withCoupon |-> c, email |-> e, couponDiscount |-> 0,
                   placed |-> FALSE, paid |-> FALSE]
  <2>2. request' = [request EXCEPT ![r] = x] /\ request[r] = Unused
    BY <2>1 DEF Submit
  <2>3. Shape(x) /\ x.phase # "locked" /\ x.placed = request[r].placed /\ ~x.placed
    BY <2>2 DEF Shape, RequestFields, Unused
  <2> HIDE DEF x
  <2> QED BY <2>2, <2>3, LockKept
<1>3. CASE PayMock(t)
  <2> DEFINE r == tab[t].paying
             x == [request[r] EXCEPT !.paid = TRUE]
  <2>1. request' = [request EXCEPT ![r] = x]
    BY <1>3 DEF PayMock
  <2>2. CASE r \notin Requests
    <3>1. request' = request
      BY <2>1, <2>2 DEF LedgerInv, RequestInv
    <3> QED BY <3>1, Untouched
  <2>3. CASE r \in Requests
    <3>1. Shape(request[r])
      BY <2>3 DEF LedgerInv, RequestInv
    <3>2. /\ Shape(x) /\ x.placed = request[r].placed /\ x.phase = request[r].phase
          /\ x.phase = "locked" \/ x.placed =>
                x.withCoupon = request[r].withCoupon /\ x.email = request[r].email
      BY <3>1 DEF Shape, RequestFields
    <3> HIDE DEF x
    <3>3. CASE x.phase # "locked"
      BY <2>1, <2>3, <3>2, <3>3, LockKept
    <3>4. CASE x.phase = "locked"
      <4>1. /\ RequestInv' /\ Redeeming' = Redeeming /\ RedeemedBy' = RedeemedBy
            /\ \A e \in Addresses : RedeemingBy(e)' = RedeemingBy(e)
        BY <2>1, <2>3, <3>2, SameOrders
      <4>2. LockInv'
        <5> SUFFICES ASSUME NEW s \in Requests, request'[s].phase = "locked"
                     PROVE  couponLock' = s /\ Allows(request[s].email)'
          BY DEF LockInv
        <5>1. request[s].phase = "locked" /\ request'[s].email = request[s].email
          BY <2>1, <2>3, <3>2, <3>4 DEF LedgerInv, RequestInv
        <5>2. couponLock = s /\ Allows(request[s].email) /\ request[s].email \in Addresses
          BY <5>1 DEF LedgerInv, LockInv, RequestInv, Shape
        <5> QED BY <4>1, <5>1, <5>2 DEF Allows
      <4> QED BY <4>1, <4>2 DEF LedgerInv
    <3> QED BY <3>3, <3>4
  <2> QED BY <2>2, <2>3
<1>4. CASE CartStep(t, 1 .. MaxLine)
  <2>1. request' = request
    BY <1>4 DEF CartStep, Load, PanelSubmit, AddItem, SetQuantity, RemoveItem, SetCart
  <2> QED BY <2>1, Untouched
<1>5. CASE Navigate(t) \/ LoseConnection(t) \/ ClickConfirm(t) \/ ConfirmAnswered(t) \/ ConfirmLost(t)
  <2>1. request' = request
    BY <1>5 DEF Navigate, LoseConnection, ClickConfirm, ConfirmAnswered, ConfirmLost
  <2> QED BY <2>1, Untouched
<1> QED BY <1>1, <1>2, <1>3, <1>4, <1>5 DEF CheckoutStep, PaymentStep

\* The server's steps that give no redemption.
LEMMA StepServe ==
    ASSUME LedgerInv, NEW r \in Requests, coupon' = coupon,
           \/ ReadVariants(r) \/ RefuseVariants(r) \/ RefuseCoupon(r)
           \/ AnswerCheckout(r) \/ FailCheckout(r)
           \/ PlaceOrder(r) /\ ~request[r].withCoupon
    PROVE  LedgerInv' /\ RedeemedBy' = RedeemedBy
<1>1. Shape(request[r])
  BY DEF LedgerInv, RequestInv
<1>2. CASE ReadVariants(r)
  <2> DEFINE read == [v \in DOMAIN request[r].shown |-> variant[v].row]
             x == [request[r] EXCEPT !.phase = "read", !.rows = read]
  <2>1. request' = [request EXCEPT ![r] = x] /\ request[r].phase = "sent" /\ couponLock' = couponLock
    BY <1>2 DEF ReadVariants
  <2> HIDE DEF read
  <2>2. Shape(x) /\ x.phase # "locked" /\ x.placed = request[r].placed /\ ~x.placed
    BY <1>1, <2>1 DEF Shape, RequestFields
  <2> HIDE DEF x
  <2> QED BY <2>1, <2>2, LockKept
<1>3. CASE RefuseVariants(r) \/ RefuseCoupon(r) \/ FailCheckout(r)
  <2> DEFINE x == IF request[r].placed THEN [request[r] EXCEPT !.phase = "over"] ELSE Gone
  <2>1. request' = [request EXCEPT ![r] = x]
    BY <1>3 DEF RefuseVariants, RefuseCoupon, FailCheckout, Close
  <2>2. couponLock' = couponLock \/ couponLock = r
    BY <1>3 DEF RefuseVariants, RefuseCoupon, FailCheckout, Unlock
  <2>3. /\ Shape(x) /\ x.phase # "locked" /\ x.placed = request[r].placed
        /\ x.placed => x.withCoupon = request[r].withCoupon /\ x.email = request[r].email
    BY <1>1 DEF Shape, RequestFields, Gone
  <2> HIDE DEF x
  <2> QED BY <2>1, <2>2, <2>3, LockKept
<1>4. CASE AnswerCheckout(r)
  <2> DEFINE x == [request[r] EXCEPT !.phase = "over"]
  <2>1. /\ request' = [request EXCEPT ![r] = x]
        /\ request[r].phase = "placed" /\ couponLock' = couponLock
    BY <1>4 DEF AnswerCheckout
  <2>2. /\ Shape(x) /\ x.phase # "locked" /\ x.placed = request[r].placed
        /\ x.placed => x.withCoupon = request[r].withCoupon /\ x.email = request[r].email
    BY <1>1, <2>1 DEF Shape, RequestFields
  <2> HIDE DEF x
  <2> QED BY <2>1, <2>2, LockKept
<1>5. CASE PlaceOrder(r) /\ ~request[r].withCoupon
  <2> DEFINE x == [request[r] EXCEPT !.phase = "placed", !.placed = TRUE]
  <2>1. /\ request' = [request EXCEPT ![r] = x]
        /\ request[r].phase \in {"read", "locked"}
        /\ couponLock' = couponLock \/ couponLock = r
    BY <1>5 DEF PlaceOrder, Unlock
  <2>2. Shape(x) /\ x.phase = "placed" /\ ~x.withCoupon /\ ~request[r].placed
    BY <1>1, <1>5, <2>1 DEF Shape, RequestFields
  <2> HIDE DEF x
  <2>3. request'[r] = x /\ \A s \in Requests : s # r => request'[s] = request[s]
    BY <2>1 DEF LedgerInv, RequestInv
  <2>4. RequestInv'
    BY <2>1, <2>2, <2>3 DEF LedgerInv, RequestInv
  <2>5. Redeeming' = Redeeming /\ r \notin Redeeming
    BY <2>2, <2>3 DEF Redeeming, Orders
  <2>6. RedeemedBy' = RedeemedBy
    BY <2>3, <2>5 DEF RedeemedBy
  <2>7. \A e \in Addresses : RedeemingBy(e)' = RedeemingBy(e)
    <3>1. \A s \in Redeeming : request'[s].email = request[s].email
      BY <2>3, <2>5 DEF Redeeming, Orders
    <3> QED BY <2>5, <3>1 DEF RedeemingBy
  <2>8. LockInv'
    <3> SUFFICES ASSUME NEW s \in Requests, request'[s].phase = "locked"
                 PROVE  couponLock' = s /\ Allows(request[s].email)'
      BY DEF LockInv
    <3>1. s # r /\ request'[s] = request[s] /\ request[s].phase = "locked"
      BY <2>2, <2>3
    <3>2. couponLock = s /\ Allows(request[s].email) /\ request[s].email \in Addresses
      BY <3>1 DEF LedgerInv, LockInv, RequestInv, Shape
    <3> QED BY <2>1, <2>5, <2>7, <3>1, <3>2 DEF Allows
  <2> QED BY <2>4, <2>6, <2>8 DEF LedgerInv
<1> QED BY <1>2, <1>3, <1>4, <1>5

\* The checks are made with the row locked, and the lock is the request's own.
LEMMA StepApply ==
    ASSUME LedgerInv, NEW r \in Requests, ApplyCoupon(r), coupon' = coupon
    PROVE  LedgerInv' /\ RedeemedBy' = RedeemedBy
<1> DEFINE d == CouponDiscount(coupon.discountType, coupon.discountValue, EligibleOf(r))
           x == [request[r] EXCEPT !.phase = "locked", !.couponDiscount = d]
<1>1. /\ request' = [request EXCEPT ![r] = x]
      /\ request[r].phase = "read" /\ request[r].withCoupon
      /\ couponLock = NoHolder /\ couponLock' = r /\ CouponApplies(r)
  BY DEF ApplyCoupon, WithDiscount
<1>2. Shape(request[r])
  BY DEF LedgerInv, RequestInv
<1> HIDE DEF d
<1>3. /\ Shape(x) /\ x.phase = "locked" /\ x.email = request[r].email /\ x.email \in Addresses
      /\ x.placed = request[r].placed /\ ~x.placed
  BY <1>1, <1>2 DEF Shape, RequestFields
<1> HIDE DEF x
<1>4. /\ RequestInv' /\ Redeeming' = Redeeming /\ RedeemedBy' = RedeemedBy
      /\ \A e \in Addresses : RedeemingBy(e)' = RedeemingBy(e)
  BY <1>1, <1>3, SameOrders
<1>5. Allows(request[r].email)
  BY <1>1 DEF CouponApplies, Applicable, Under, Allows
<1>6. LockInv'
  <2> SUFFICES ASSUME NEW s \in Requests, request'[s].phase = "locked"
               PROVE  couponLock' = s /\ Allows(request[s].email)'
    BY DEF LockInv
  <2>1. s = r
    BY <1>1, CouponAssumption DEF LedgerInv, LockInv, RequestInv, Requests
  <2>2. request'[s].email = request[r].email /\ request[r].email \in Addresses
    BY <1>1, <1>3, <2>1 DEF LedgerInv, RequestInv
  <2> QED BY <1>1, <1>4, <1>5, <2>1, <2>2 DEF Allows
<1> QED BY <1>4, <1>6 DEF LedgerInv

\* The ledger counts as this module does.
LEMMA SameCount == \A S : Ledger!Cardinality(S) = Cardinality(S)
BY DEF Ledger!Cardinality, Cardinality

\* The order and its redemption are written while the row is still held.
LEMMA StepRedeem ==
    ASSUME LedgerInv, NEW r \in Requests, PlaceOrder(r), request[r].withCoupon, coupon' = coupon,
           NEW e \in Addresses, e = request[r].email
    PROVE  LedgerInv' /\ Ledger!Redeem(r, e)
<1> DEFINE x == [request[r] EXCEPT !.phase = "placed", !.placed = TRUE]
<1>1. /\ request' = [request EXCEPT ![r] = x]
      /\ request[r].phase = "locked"
      /\ couponLock' = couponLock \/ couponLock = r
  BY DEF PlaceOrder, Unlock
<1>2. Shape(request[r]) /\ couponLock = r /\ Allows(e)
  BY <1>1 DEF LedgerInv, RequestInv, LockInv
<1>3. /\ Shape(x) /\ x.phase = "placed" /\ x.placed /\ x.withCoupon /\ x.email = e
      /\ ~request[r].placed
  BY <1>1, <1>2 DEF Shape, RequestFields
<1> HIDE DEF x
<1>4. request'[r] = x /\ \A s \in Requests : s # r => request'[s] = request[s]
  BY <1>1 DEF LedgerInv, RequestInv
<1>5. LedgerInv'
  <2>1. RequestInv'
    BY <1>1, <1>3, <1>4 DEF LedgerInv, RequestInv
  <2>2. \A s \in Requests : request'[s].phase # "locked"
    BY <1>2, <1>3, <1>4 DEF LedgerInv, LockInv
  <2> QED BY <2>1, <2>2 DEF LedgerInv, LockInv
<1>6. Redeeming' = Redeeming \cup {r} /\ r \notin Redeeming
  BY <1>3, <1>4 DEF Redeeming, Orders
<1>7. RedeemedBy' = [RedeemedBy EXCEPT ![r] = e]
  BY <1>3, <1>4, <1>6 DEF RedeemedBy
<1>8. \A s \in Redeeming : request[s].email \in Addresses /\ s \in Requests
  BY DEF Redeeming, Orders, LedgerInv, RequestInv, Shape
<1>9. Ledger!Redeemed = Redeeming
  BY <1>8, ShoppingAssumption DEF Ledger!Redeemed, Addresses, Redeeming, Orders
<1>10. Ledger!RedeemedOf(e) = RedeemingBy(e)
  BY <1>3, <1>8, ShoppingAssumption DEF Ledger!RedeemedOf, RedeemingBy, Addresses, Redeeming, Orders
<1>11. Ledger!Redeem(r, e)
  BY <1>2, <1>6, <1>7, <1>9, <1>10, SameCount DEF Ledger!Redeem, Allows, RedeemedBy
<1> QED BY <1>3, <1>5, <1>11

\* An administrator's update waits for the row.
LEMMA StepCouponEdit ==
    ASSUME LedgerInv, CouponNext, UNCHANGED shopVars
    PROVE  LedgerInv' /\ RedeemedBy' = RedeemedBy
<1>1. request' = request /\ couponLock' = couponLock
  BY DEF shopVars, CouponNext, BeginCouponEdit, BeginCreateCoupon, BeginUpdateCoupon,
         BeginDeactivateCoupon, BeginEdit, EndCouponEdit, CommitCreateCoupon,
         CommitUpdateCoupon, AbandonEdit, EndEdit, Tick
<1>2. coupon' = coupon \/ couponLock = NoHolder \/ coupon = NoCoupon
  BY DEF CouponNext, BeginCouponEdit, BeginCreateCoupon, BeginUpdateCoupon,
         BeginDeactivateCoupon, BeginEdit, EndCouponEdit, CommitCreateCoupon,
         CommitUpdateCoupon, AbandonEdit, Tick
<1>3. CASE coupon' = coupon
  BY <1>1, <1>3, Untouched
<1>4. CASE couponLock = NoHolder \/ coupon = NoCoupon
  <2>1. \A r \in Requests : request[r].phase # "locked"
    BY <1>4, CouponAssumption DEF LedgerInv, LockInv, Allows, Requests
  <2> QED BY <1>1, <2>1 DEF LedgerInv, LockInv, RequestInv, Shape, RedeemedBy, Redeeming, Orders
<1> QED BY <1>2, <1>3, <1>4

LEMMA StepLedger ==
    ASSUME LedgerInv, Next
    PROVE  LedgerInv' /\ Ledger!LedgerNext
<1>1. ASSUME RedeemedBy' = RedeemedBy PROVE Ledger!LedgerNext
  BY <1>1 DEF Ledger!LedgerNext, Ledger!Amend, RedeemedBy
<1>2. CASE CustomerStep /\ UNCHANGED <<catalogueVars, couponVars>>
  BY <1>1, <1>2, StepCustomer
<1>3. CASE ServerStep /\ UNCHANGED <<catalogueVars, CouponButLock>>
  <2>1. PICK r \in Requests : Serve(r) \/ FailCheckout(r)
    BY <1>3 DEF ServerStep
  <2>2. coupon' = coupon
    BY <1>3 DEF CouponButLock
  <2>3. CASE PlaceOrder(r) /\ request[r].withCoupon
    <3>1. request[r].phase = "locked"
      BY <2>3 DEF PlaceOrder
    <3>2. request[r].email \in Addresses
      BY <3>1 DEF LedgerInv, RequestInv, Shape
    <3>3. PICK e \in Addresses : e = request[r].email
      BY <3>2
    <3>4. LedgerInv' /\ Ledger!Redeem(r, e)
      BY <2>2, <2>3, <3>3, StepRedeem
    <3> QED BY <3>4 DEF Ledger!LedgerNext, Addresses
  <2>4. CASE ApplyCoupon(r)
    BY <1>1, <2>2, <2>4, StepApply
  <2>5. CASE ~ApplyCoupon(r) /\ ~(PlaceOrder(r) /\ request[r].withCoupon)
    BY <1>1, <2>1, <2>2, <2>5, StepServe DEF Serve
  <2> QED BY <2>3, <2>4, <2>5
<1>4. CASE CouponNext /\ UNCHANGED <<catalogueVars, shopVars>>
  BY <1>1, <1>4, StepCouponEdit
<1>5. CASE (CatalogueNext /\ UNCHANGED <<couponVars, shopVars>>) \/ UNCHANGED shoppingVars
  <2>1. UNCHANGED <<request, couponLock, coupon>>
    BY <1>5 DEF shoppingVars, couponVars, shopVars
  <2> QED BY <1>1, <2>1, Untouched
<1> QED BY <1>2, <1>3, <1>4, <1>5 DEF Next, ShoppingNext

\* CouponService.applyCoupon keeps its owner's promise: whatever checkouts and
\* edits race each other, a redemption is given only while the terms in force
\* at that moment allow one more.
THEOREM CheckoutsKeepTheLedger == ShoppingSpec => ImplementsLedger
<1>1. LedgerInv /\ [ShoppingNext]_shoppingVars => LedgerInv' /\ [Ledger!LedgerNext]_(Ledger!ledgerVars)
  BY StepLedger DEF Next
<1> QED BY <1>1, InitLedger, PTL DEF ShoppingSpec, ImplementsLedger, Ledger!LedgerSpec

(***************************************************************************)
(* The coupon's terms.                                                     *)
(***************************************************************************)
LEMMA FieldNames ==
    TermFields = {"discountType", "discountValue", "maxRedemptions", "maxRedemptionsPerCustomer",
                  "minOrderAmount", "startsAt", "endsAt", "isActive"}
BY DEF TermFields, TermValues

EditTask ==
    {NoEdit} \cup [op : {"create"}, terms : NewCoupons]
             \cup [op : {"update"}, terms : CouponEdits \cup {[isActive |-> FALSE]}]

\* While edits come one at a time, the row is in range and what the edit under
\* way will make of it is too: the row is still the one it was checked against.
RangeInv ==
    /\ couponTask \in [CouponAdmins -> EditTask]
    /\ ~editsOverlapped =>
          /\ coupon # NoCoupon => Valid(coupon)
          /\ \A a, b \in CouponAdmins : couponTask[a] # NoEdit /\ couponTask[b] # NoEdit => a = b
          /\ \A a \in CouponAdmins :
                /\ couponTask[a].op = "create" => Valid(couponTask[a].terms)
                /\ couponTask[a].op = "update" =>
                      coupon # NoCoupon /\ Valid(Amended(couponTask[a].terms))

LEMMA InitRange == ShoppingSpec => RangeInv
<1> SUFFICES ASSUME CouponInit(NewCoupons \cup {NoCoupon}) PROVE RangeInv
  BY DEF ShoppingSpec
<1> QED BY DEF CouponInit, RangeInv, EditTask, NoEdit

LEMMA RangeBegin ==
    ASSUME RangeInv, NEW a \in CouponAdmins, NEW t \in EditTask, t # NoEdit, BeginEdit(a, t),
           ~editsOverlapped =>
              /\ t.op = "create" => Valid(t.terms)
              /\ t.op = "update" => coupon # NoCoupon /\ Valid(Amended(t.terms))
    PROVE  RangeInv'
<1>1. /\ couponTask \in [CouponAdmins -> EditTask] /\ couponTask[a] = NoEdit
      /\ couponTask' = [couponTask EXCEPT ![a] = t] /\ coupon' = coupon
      /\ editsOverlapped' = (editsOverlapped \/ \E b \in CouponAdmins : couponTask[b] # NoEdit)
  BY DEF RangeInv, BeginEdit
<1>2. couponTask'[a] = t /\ \A b \in CouponAdmins : b # a => couponTask'[b] = couponTask[b]
  BY <1>1
<1>3. couponTask' \in [CouponAdmins -> EditTask]
  BY <1>1
<1>4. ASSUME ~editsOverlapped'
      PROVE  ~editsOverlapped /\ \A b \in CouponAdmins : b # a => couponTask'[b] = NoEdit
  BY <1>1, <1>2, <1>4
<1> QED BY <1>1, <1>2, <1>3, <1>4 DEF RangeInv, Amended, Valid, NoEdit

LEMMA RangeEnd ==
    ASSUME RangeInv, NEW a \in CouponAdmins, couponTask[a] # NoEdit,
           couponTask' = [couponTask EXCEPT ![a] = NoEdit], editsOverlapped' = editsOverlapped,
           ~editsOverlapped /\ coupon' # NoCoupon => Valid(coupon)'
    PROVE  RangeInv'
<1>1. couponTask' \in [CouponAdmins -> EditTask]
  BY DEF RangeInv, EditTask
<1>2. ASSUME ~editsOverlapped PROVE \A b \in CouponAdmins : couponTask'[b] = NoEdit
  BY <1>2 DEF RangeInv
<1> QED BY <1>1, <1>2 DEF RangeInv, NoEdit

LEMMA StepRange ==
    ASSUME RangeInv, Next
    PROVE  RangeInv'
<1>1. CASE UNCHANGED <<coupon, couponTask, editsOverlapped>>
  BY <1>1 DEF RangeInv, Amended, Valid
<1>2. ASSUME NEW a \in CouponAdmins, BeginCouponEdit(a) PROVE RangeInv'
  <2>1. ASSUME NEW terms \in NewCoupons, BeginCreateCoupon(a, terms) PROVE RangeInv'
    <3> DEFINE t == [op |-> "create", terms |-> terms]
    <3>1. t \in EditTask /\ t # NoEdit /\ t.op = "create" /\ t.terms = terms
      BY DEF EditTask, NoEdit
    <3>2. BeginEdit(a, t) /\ Valid(terms)
      BY <2>1 DEF BeginCreateCoupon
    <3> HIDE DEF t
    <3> QED BY <3>1, <3>2, RangeBegin
  <2>2. ASSUME NEW edit \in CouponEdits, BeginUpdateCoupon(a, edit) PROVE RangeInv'
    <3> DEFINE t == [op |-> "update", terms |-> edit]
    <3>1. t \in EditTask /\ t # NoEdit /\ t.op = "update" /\ t.terms = edit
      BY DEF EditTask, NoEdit
    <3>2. BeginEdit(a, t) /\ coupon # NoCoupon /\ Valid(Amended(edit))
      BY <2>2 DEF BeginUpdateCoupon
    <3> HIDE DEF t
    <3> QED BY <3>1, <3>2, RangeBegin
  <2>3. CASE BeginDeactivateCoupon(a)
    <3> DEFINE off == [isActive |-> FALSE]
               t == [op |-> "update", terms |-> off]
    <3>1. t \in EditTask /\ t # NoEdit /\ t.op = "update" /\ t.terms = off
      BY DEF EditTask, NoEdit
    <3>2. BeginEdit(a, t) /\ coupon # NoCoupon
      BY <2>3 DEF BeginDeactivateCoupon
    <3>3. ~editsOverlapped => Valid(Amended(off))
      BY <3>2, FieldNames DEF RangeInv, Valid, Amended
    <3> HIDE DEF t, off
    <3> QED BY <3>1, <3>2, <3>3, RangeBegin
  <2> QED BY <1>2, <2>1, <2>2, <2>3 DEF BeginCouponEdit
<1>3. ASSUME NEW a \in CouponAdmins, EndCouponEdit(a) PROVE RangeInv'
  <2>1. /\ couponTask[a] # NoEdit /\ couponTask' = [couponTask EXCEPT ![a] = NoEdit]
        /\ editsOverlapped' = editsOverlapped
    BY <1>3 DEF EndCouponEdit, CommitCreateCoupon, CommitUpdateCoupon, AbandonEdit, EndEdit, NoEdit
  <2>2. ~editsOverlapped /\ coupon' # NoCoupon => Valid(coupon)'
    <3>1. CASE CommitCreateCoupon(a)
      BY <3>1 DEF CommitCreateCoupon, RangeInv, Valid
    <3>2. CASE CommitUpdateCoupon(a)
      BY <3>2 DEF CommitUpdateCoupon, RangeInv, Valid
    <3>3. CASE AbandonEdit(a)
      BY <3>3 DEF AbandonEdit, RangeInv, Valid
    <3> QED BY <1>3, <3>1, <3>2, <3>3 DEF EndCouponEdit
  <2> QED BY <2>1, <2>2, RangeEnd
<1>4. Next => \/ UNCHANGED <<coupon, couponTask, editsOverlapped>>
              \/ \E a \in CouponAdmins : BeginCouponEdit(a) \/ EndCouponEdit(a)
  BY DEF Next, ShoppingNext, CouponNext, Tick, couponVars, CouponButLock, shoppingVars
<1> QED BY <1>1, <1>2, <1>3, <1>4

\* However a coupon's terms are reached, AdminCouponsService keeps it from
\* giving more than everything and from ending before it starts, unless two
\* edits of it were under way at once.
THEOREM CouponStaysInRange == ShoppingSpec => []CouponInRange
<1>1. RangeInv => CouponInRange
  BY CouponAssumption DEF RangeInv, CouponInRange, Valid
<1>2. RangeInv /\ [ShoppingNext]_shoppingVars => RangeInv'
  BY StepRange DEF Next
<1> QED BY <1>1, <1>2, InitRange, PTL DEF ShoppingSpec

(***************************************************************************)
(* Types: the coupon's.                                                    *)
(***************************************************************************)

\* An update under way finds its row: coupons are never removed.
CouponInv ==
    /\ CouponTypeOK
    /\ \A a \in CouponAdmins : couponTask[a].op = "update" => Complete(coupon)

LEMMA InitCoupon == CouponInit(NewCoupons \cup {NoCoupon}) => CouponInv
<1> SUFFICES ASSUME CouponInit(NewCoupons \cup {NoCoupon}) PROVE CouponInv
  OBVIOUS
<1>1. coupon # NoCoupon => Complete(coupon)
  BY CouponAssumption DEF CouponInit
<1>2. couponTask \in [CouponAdmins -> EditTask] /\ \A a \in CouponAdmins : couponTask[a].op = "none"
  BY DEF CouponInit, EditTask, NoEdit
<1>3. now \in Moment
  BY CouponAssumption DEF CouponInit, Moment
<1> QED BY <1>1, <1>2, <1>3 DEF CouponInit, CouponInv, CouponTypeOK, EditTask

\* A partial edit of complete terms makes complete terms.
LEMMA AmendedComplete ==
    ASSUME Complete(coupon), NEW edit, Partial(edit)
    PROVE  Complete(Amended(edit))
BY DEF Complete, Partial, Amended

\* What an administrator's task carries.
LEMMA EditShape ==
    ASSUME CouponInv, NEW a \in CouponAdmins
    PROVE  /\ couponTask[a].op = "create" => couponTask[a].terms \in NewCoupons
           /\ couponTask[a].op = "update" => Partial(couponTask[a].terms)
<1>1. couponTask[a] \in EditTask
  BY DEF CouponInv, CouponTypeOK, EditTask
<1>2. Partial([isActive |-> FALSE])
  <2> DEFINE off == [isActive |-> FALSE]
  <2>1. TermValues["isActive"] = BOOLEAN
    BY DEF TermValues
  <2>2. DOMAIN off = {"isActive"} /\ off["isActive"] = FALSE
    OBVIOUS
  <2> HIDE DEF off
  <2>3. Partial(off)
    BY <2>1, <2>2, FieldNames DEF Partial
  <2> QED BY <2>3 DEF off
<1>3. \A e \in CouponEdits \cup {[isActive |-> FALSE]} : Partial(e)
  BY <1>2, CouponAssumption
<1>4. couponTask[a].op = "update" => couponTask[a].terms \in CouponEdits \cup {[isActive |-> FALSE]}
  BY <1>1 DEF EditTask, NoEdit
<1>5. couponTask[a].op = "create" => couponTask[a].terms \in NewCoupons
  BY <1>1 DEF EditTask, NoEdit
<1> QED BY <1>3, <1>4, <1>5

LEMMA StepCoupon ==
    ASSUME CouponInv, CouponNext
    PROVE  CouponInv'
<1>1. /\ coupon # NoCoupon => Complete(coupon)
      /\ couponLock \in Holders \cup {NoHolder}
      /\ couponTask \in [CouponAdmins -> EditTask]
      /\ now \in Moment /\ editsOverlapped \in BOOLEAN
  BY DEF CouponInv, CouponTypeOK, EditTask
<1>2. ASSUME NEW a \in CouponAdmins, NEW t \in EditTask, BeginEdit(a, t),
             t.op = "update" => coupon # NoCoupon
      PROVE  CouponInv'
  BY <1>1, <1>2 DEF CouponInv, CouponTypeOK, EditTask, BeginEdit, Complete, Partial
<1>3. ASSUME NEW a \in CouponAdmins, BeginCouponEdit(a) PROVE CouponInv'
  <2>1. ASSUME NEW terms \in NewCoupons, BeginCreateCoupon(a, terms) PROVE CouponInv'
    <3>1. [op |-> "create", terms |-> terms] \in EditTask
      BY DEF EditTask
    <3> QED BY <1>2, <2>1, <3>1 DEF BeginCreateCoupon
  <2>2. ASSUME NEW edit \in CouponEdits, BeginUpdateCoupon(a, edit) PROVE CouponInv'
    <3>1. [op |-> "update", terms |-> edit] \in EditTask
      BY DEF EditTask
    <3> QED BY <1>2, <2>2, <3>1 DEF BeginUpdateCoupon
  <2>3. CASE BeginDeactivateCoupon(a)
    <3>1. [op |-> "update", terms |-> [isActive |-> FALSE]] \in EditTask
      BY DEF EditTask
    <3> QED BY <1>2, <2>3, <3>1 DEF BeginDeactivateCoupon
  <2> QED BY <1>3, <2>1, <2>2, <2>3 DEF BeginCouponEdit
<1>4. ASSUME NEW a \in CouponAdmins, EndCouponEdit(a) PROVE CouponInv'
  <2>1. /\ couponTask' = [couponTask EXCEPT ![a] = NoEdit]
        /\ UNCHANGED <<couponLock, now, editsOverlapped>>
    BY <1>4 DEF EndCouponEdit, CommitCreateCoupon, CommitUpdateCoupon, AbandonEdit, EndEdit
  <2>2. Complete(coupon)' \/ coupon' = coupon
    <3>1. CASE CommitCreateCoupon(a)
      BY <3>1, EditShape, CouponAssumption DEF CommitCreateCoupon, Complete, Partial
    <3>2. CASE CommitUpdateCoupon(a)
      <4>1. Partial(couponTask[a].terms) /\ Complete(coupon)
        BY <3>2, EditShape DEF CommitUpdateCoupon, CouponInv
      <4>2. Complete(Amended(couponTask[a].terms))
        BY <4>1, AmendedComplete
      <4> QED BY <3>2, <4>2 DEF CommitUpdateCoupon, Complete, Partial
    <3>3. CASE AbandonEdit(a)
      BY <3>3 DEF AbandonEdit
    <3> QED BY <1>4, <3>1, <3>2, <3>3 DEF EndCouponEdit
  <2>3. couponTask' \in [CouponAdmins -> EditTask]
    BY <1>1, <2>1 DEF EditTask
  <2>4. \A b \in CouponAdmins : couponTask'[b].op = "update" => Complete(coupon)
    BY <1>1, <2>1 DEF CouponInv, NoEdit
  <2> QED BY <1>1, <2>1, <2>2, <2>3, <2>4 DEF CouponInv, CouponTypeOK, EditTask, Complete, Partial
<1>5. CASE Tick
  BY <1>1, <1>5, CouponAssumption DEF Tick, CouponInv, CouponTypeOK, Moment, EditTask, Complete, Partial
<1> QED BY <1>3, <1>4, <1>5 DEF CouponNext

(***************************************************************************)
(* Types: the carts, the tabs and the requests.                            *)
(***************************************************************************)
PriceRows == VariantRows \cup {SeedRow}
Line      == [quantity : 1 .. MaxLine, row : PriceRows]


TabRow ==
    [cart : FiniteCarts, step : {"form", "confirming", "confirm-mock", "success"},
     sent : Requests \cup {NoRequest}, paying : Requests \cup {NoRequest},
     adding : {NoLines} \cup [variant : Variants, line : Line]]

RowsRead == {NoLines} \cup UNION {[S -> PriceRows] : S \in SUBSET Variants}

SentRow ==
    [phase : {"sent", "read", "locked", "placed", "over"}, shown : FiniteCarts, rows : RowsRead,
     withCoupon : BOOLEAN, email : Addresses, couponDiscount : Int,
     placed : BOOLEAN, paid : BOOLEAN]

\* A request has its rows from the moment it has read them, and a discount it
\* was given is no more than there was to discount.
Stage(x) ==
    /\ x.placed <=> x.phase \in {"placed", "over"}
    /\ x.paid => x.placed
    /\ x.phase = "sent" => x.couponDiscount = 0
    /\ x.phase # "sent" => x.rows \in [DOMAIN x.shown -> PriceRows]
    /\ x.couponDiscount # 0 => x.couponDiscount <= Eligible(Quantities(x.shown), x.rows)

StagedRow == {x \in SentRow : Stage(x)}

ShopInv ==
    /\ storage \in FiniteCarts
    /\ tab \in [Tabs -> TabRow]
    /\ request \in [Requests -> {Unused, Gone} \cup StagedRow]
    /\ fills \in Nat
    /\ unseen \subseteq Requests

LEMMA CartForm ==
    ASSUME NEW c
    PROVE  c \in Carts <=> \E S \in SUBSET Variants : c \in [S -> Line]
BY DEF Carts, Line, PriceRows

LEMMA EmptyCartForm == EmptyCart \in FiniteCarts /\ DOMAIN EmptyCart = {}
<1>1. EmptyCart \in [{} -> Line] /\ DOMAIN EmptyCart = {}
  BY DEF EmptyCart
<1>2. IsFiniteSet({})
  BY FS_EmptySet
<1> QED BY <1>1, <1>2, CartForm DEF FiniteCarts

\* The phases of a request and what it is by then.
LEMMA RequestForm ==
    ASSUME ShopInv, NEW r \in Requests
    PROVE  /\ request[r] \in {Unused, Gone} \cup StagedRow
           /\ request[r].phase \in {"sent", "read", "locked", "placed"} \/ request[r].placed
                 => request[r] \in StagedRow
           /\ request[r].placed \in BOOLEAN
           /\ request[r] # Unused => request[r].phase # "unused"
           /\ request[r].phase = "unused" => ~request[r].placed
<1>1. request[r] \in {Unused, Gone} \cup StagedRow
  BY DEF ShopInv
<1>2. CASE request[r] = Unused
  <2>1. Unused.phase = "unused" /\ Unused.placed = FALSE
    BY DEF Unused
  <2> QED BY <1>1, <1>2, <2>1
<1>3. CASE request[r] = Gone
  <2>1. Gone.phase = "over" /\ Gone.placed = FALSE
    BY DEF Gone
  <2> QED BY <1>1, <1>3, <2>1
<1>4. CASE request[r] \in StagedRow
  <2>1. request[r].phase \in {"sent", "read", "locked", "placed", "over"} /\ request[r].placed \in BOOLEAN
    BY <1>4 DEF StagedRow, SentRow
  <2> QED BY <1>1, <1>4, <2>1
<1> QED BY <1>1, <1>2, <1>3, <1>4

\* What a staged request's lines are: priced, whole and finitely many.
LEMMA StagedLines ==
    ASSUME NEW x \in StagedRow, x.phase # "sent"
    PROVE  Lines(Quantities(x.shown), x.rows)
<1>1. x.shown \in Carts /\ IsFiniteSet(DOMAIN x.shown) /\ x.rows \in [DOMAIN x.shown -> PriceRows]
  BY DEF StagedRow, SentRow, Stage, FiniteCarts
<1>2. PICK S \in SUBSET Variants : x.shown \in [S -> Line]
  BY <1>1, CartForm
<1>3. \A v \in S : x.shown[v].quantity \in Nat
  BY <1>2, ShoppingAssumption DEF Line
<1>4. \A row \in PriceRows : Priced(row)
  BY ShoppingAssumption DEF PriceRows
<1>5. \A v \in S : Priced(x.rows[v])
  BY <1>1, <1>2, <1>4
<1>6. DOMAIN Quantities(x.shown) = S /\ \A v \in S : Quantities(x.shown)[v] = x.shown[v].quantity
  BY <1>2 DEF Quantities
<1> QED BY <1>1, <1>2, <1>3, <1>5, <1>6 DEF Lines

LEMMA ShopTypes == ShopInv => ShoppingTypeOK
<1> SUFFICES ASSUME ShopInv PROVE ShoppingTypeOK
  OBVIOUS
<1>1. storage \in Carts /\ fills \in Nat /\ unseen \subseteq Requests
  BY DEF ShopInv, FiniteCarts
<1>2. tab \in [Tabs -> [cart : Carts, step : {"form", "confirming", "confirm-mock", "success"},
                        sent : Requests \cup {NoRequest}, paying : Requests \cup {NoRequest},
                        adding : {NoLines} \cup [variant : Variants, line : Line]]]
  BY DEF ShopInv, TabRow, FiniteCarts
<1>3. ASSUME NEW r \in Requests, request[r] \notin {Unused, Gone}
      PROVE  /\ request[r].phase \in {"sent", "read", "locked", "placed", "over"}
             /\ request[r].shown \in Carts
             /\ request[r].couponDiscount \in Int
             /\ request[r].phase # "sent" =>
                   request[r].rows \in [DOMAIN request[r].shown -> PriceRows]
  <2>1. request[r] \in StagedRow
    BY <1>3 DEF ShopInv
  <2> QED BY <2>1 DEF StagedRow, SentRow, Stage, FiniteCarts
<1> QED BY <1>1, <1>2, <1>3 DEF ShoppingTypeOK, Line, PriceRows

(***************************************************************************)
(* Payments: what a tab waits for, and what the fills of the carts allow.  *)
(***************************************************************************)

\* A tab waits for a request of its own, a payment it has asked for is of an
\* order, and it shows that order unless it was led away from it.
TabOK(t) ==
    /\ tab[t].sent # NoRequest => request[tab[t].sent].phase # "unused"
    /\ tab[t].step = "confirming" => tab[t].sent # NoRequest
    /\ tab[t].step \in {"confirm-mock", "success"} =>
          tab[t].sent # NoRequest /\ request[tab[t].sent].placed
    /\ tab[t].paying # NoRequest =>
          request[tab[t].paying].placed /\ (Watching(t) \/ tab[t].paying \in unseen)

SentInv ==
    /\ \A t \in Tabs : TabOK(t)
    /\ \A t, u \in Tabs : tab[t].sent = tab[u].sent /\ tab[t].sent # NoRequest => t = u

\* The payment a tab is there to see confirmed has been made.
SeesPaid(t) == Watching(t) /\ request[tab[t].paying].paid /\ tab[t].paying \notin unseen

\* A tab that may yet pay for what its cart was filled with.
Credit(t) ==
    /\ tab[t].cart # EmptyCart \/ tab[t].step \in {"confirming", "confirm-mock"}
    /\ ~SeesPaid(t)

Creditors == {t \in Tabs : Credit(t)}
SeenPaid  == {r \in Orders \ unseen : request[r].paid}

Within(P, C, n) ==
    /\ IsFiniteSet(P) /\ IsFiniteSet(C)
    /\ n \in Nat
    /\ Cardinality(P) + Cardinality(C) <= n

\* Every payment seen, and every one still to come, has a filled cart of its own.
CountInv == Within(SeenPaid, Creditors, fills)

PaidInv == ShopInv /\ SentInv /\ CountInv

LEMMA WithinLess ==
    ASSUME NEW P, NEW C, NEW n, Within(P, C, n), NEW Q, NEW D, NEW m \in Nat,
           Q \subseteq P, D \subseteq C, n <= m
    PROVE  Within(Q, D, m)
<1>1. /\ IsFiniteSet(Q) /\ Cardinality(Q) <= Cardinality(P)
      /\ IsFiniteSet(D) /\ Cardinality(D) <= Cardinality(C)
  BY FS_Subset DEF Within
<1>2. Cardinality(P) \in Nat /\ Cardinality(C) \in Nat /\ Cardinality(Q) \in Nat /\ Cardinality(D) \in Nat
  BY <1>1, FS_CardinalityType DEF Within
<1> QED BY <1>1, <1>2 DEF Within

LEMMA CardinalityWith ==
    ASSUME NEW S, IsFiniteSet(S), NEW e
    PROVE  /\ IsFiniteSet(S \cup {e})
           /\ Cardinality(S) \in Nat /\ Cardinality(S \cup {e}) \in Nat
           /\ Cardinality(S \cup {e}) <= Cardinality(S) + 1
<1>1. Cardinality(S) \in Nat /\ IsFiniteSet(S \cup {e}) /\ Cardinality(S \cup {e}) \in Nat
  BY FS_AddElement, FS_CardinalityType
<1>2. Cardinality(S \cup {e}) = Cardinality(S) \/ Cardinality(S \cup {e}) = Cardinality(S) + 1
  BY FS_AddElement
<1> QED BY <1>1, <1>2

LEMMA CardinalityWithout ==
    ASSUME NEW S, IsFiniteSet(S), NEW e \in S
    PROVE  /\ IsFiniteSet(S \ {e})
           /\ Cardinality(S) \in Nat /\ Cardinality(S \ {e}) \in Nat
           /\ Cardinality(S \ {e}) = Cardinality(S) - 1
BY FS_RemoveElement, FS_CardinalityType

\* One cart more is filled: one tab more may pay.
LEMMA WithinFilled ==
    ASSUME NEW P, NEW C, NEW n, Within(P, C, n), NEW Q, NEW D, NEW t,
           Q \subseteq P, D \subseteq C \cup {t}
    PROVE  Within(Q, D, n + 1)
<1>1. IsFiniteSet(C) /\ IsFiniteSet(P) /\ Cardinality(P) \in Nat /\ n \in Nat
  BY FS_CardinalityType DEF Within
<1>2. Within(P, C \cup {t}, n + 1)
  <2>1. /\ IsFiniteSet(C \cup {t}) /\ Cardinality(C) \in Nat /\ Cardinality(C \cup {t}) \in Nat
        /\ Cardinality(C \cup {t}) <= Cardinality(C) + 1
    BY <1>1, CardinalityWith
  <2> QED BY <1>1, <2>1 DEF Within
<1>3. n + 1 \in Nat /\ n + 1 <= n + 1
  BY <1>1
<1> QED BY <1>2, <1>3, WithinLess

\* One payment fewer is seen: one tab more may pay.
LEMMA WithinUnseen ==
    ASSUME NEW P, NEW C, NEW n, Within(P, C, n), NEW Q, NEW D, NEW t, NEW r \in P, NEW m \in Nat,
           n <= m, Q \subseteq P \ {r}, D \subseteq C \cup {t}
    PROVE  Within(Q, D, m)
<1>1. IsFiniteSet(C) /\ IsFiniteSet(P) /\ n \in Nat
  BY DEF Within
<1>2. /\ IsFiniteSet(P \ {r}) /\ Cardinality(P) \in Nat /\ Cardinality(P \ {r}) \in Nat
      /\ Cardinality(P \ {r}) = Cardinality(P) - 1
  BY <1>1, CardinalityWithout
<1>3. Within(P \ {r}, C \cup {t}, n)
  <2>1. /\ IsFiniteSet(C \cup {t}) /\ Cardinality(C) \in Nat /\ Cardinality(C \cup {t}) \in Nat
        /\ Cardinality(C \cup {t}) <= Cardinality(C) + 1
    BY <1>1, CardinalityWith
  <2> QED BY <1>1, <1>2, <2>1 DEF Within
<1> QED BY <1>3, WithinLess

\* A tab pays.
LEMMA WithinPaid ==
    ASSUME NEW P, NEW C, NEW n, Within(P, C, n), NEW Q, NEW D, NEW t \in C, NEW r,
           Q \subseteq P \cup {r}, D \subseteq C \ {t}
    PROVE  Within(Q, D, n)
<1>1. IsFiniteSet(C) /\ IsFiniteSet(P) /\ n \in Nat
  BY DEF Within
<1>2. /\ IsFiniteSet(C \ {t}) /\ Cardinality(C) \in Nat /\ Cardinality(C \ {t}) \in Nat
      /\ Cardinality(C \ {t}) = Cardinality(C) - 1
  BY <1>1, CardinalityWithout
<1>3. Within(P \cup {r}, C \ {t}, n)
  <2>1. /\ IsFiniteSet(P \cup {r}) /\ Cardinality(P) \in Nat /\ Cardinality(P \cup {r}) \in Nat
        /\ Cardinality(P \cup {r}) <= Cardinality(P) + 1
    BY <1>1, CardinalityWith
  <2> QED BY <1>1, <1>2, <2>1 DEF Within
<1>4. n <= n
  BY <1>1
<1> QED BY <1>1, <1>3, <1>4, WithinLess

\* Requests only go forward: what was sent stays sent, what was ordered stays
\* ordered and paid as it is, and what is ordered now is not paid yet.
Onward ==
    \A r \in Requests :
        /\ request[r].phase # "unused" => request'[r].phase # "unused"
        /\ request[r].placed => request'[r].placed /\ request'[r].paid = request[r].paid
        /\ ~request[r].placed /\ request'[r].placed => ~request'[r].paid

\* Only tab t may stop seeing a payment.
TurnsAwayOnly(t) == unseen' = unseen \/ TurnAway(t)

LEMMA UnseenGrows ==
    ASSUME ShopInv, NEW t \in Tabs, TurnsAwayOnly(t)
    PROVE  /\ unseen \subseteq unseen' /\ unseen' \subseteq Requests
           /\ \A r \in unseen' \ unseen : r = tab[t].sent /\ r # NoRequest /\ Watching(t)
<1>1. tab[t].paying \in Requests \cup {NoRequest}
  BY DEF ShopInv, TabRow
<1> QED BY <1>1 DEF TurnsAwayOnly, TurnAway, Watching, ShopInv

\* What a tab relies on, and may still pay for, does not change under it.
LEMMA OtherTabs ==
    ASSUME PaidInv, NEW t \in Tabs, NEW u \in Tabs, u # t, tab'[u] = tab[u],
           Onward, TurnsAwayOnly(t)
    PROVE  TabOK(u)' /\ (Credit(u)' => Credit(u))
<1>1. tab[u].paying \in Requests \cup {NoRequest} /\ tab[u].sent \in Requests \cup {NoRequest}
  BY DEF PaidInv, ShopInv, TabRow
<1>2. /\ unseen \subseteq unseen'
      /\ \A r \in unseen' \ unseen : r = tab[t].sent /\ r # NoRequest
  BY UnseenGrows DEF PaidInv
<1>3. TabOK(u) /\ (tab[u].sent # NoRequest => tab[u].sent # tab[t].sent)
  BY DEF PaidInv, SentInv
<1>4. Watching(u)' <=> Watching(u)
  BY DEF Watching
<1>5. TabOK(u)'
  BY <1>1, <1>2, <1>3, <1>4 DEF TabOK, Onward
<1>6. SeesPaid(u) => SeesPaid(u)'
  BY <1>1, <1>2, <1>3, <1>4 DEF SeesPaid, Onward, TabOK, Watching
<1> QED BY <1>5, <1>6 DEF Credit

LEMMA PaymentsSeen ==
    ASSUME Onward, unseen \subseteq unseen'
    PROVE  SeenPaid' \subseteq SeenPaid
BY DEF SeenPaid, Orders, Onward

\* A step that changes one tab at most.  The tab may pay after it only if it
\* could before, or its cart was filled, or it gave up seeing a payment.
LEMMA TabMoves ==
    ASSUME PaidInv, ShopInv', NEW t \in Tabs, NEW x, tab' = [tab EXCEPT ![t] = x],
           Onward, TurnsAwayOnly(t), TabOK(t)',
           \/ x.sent \in {tab[t].sent, NoRequest}
           \/ x.sent \in Requests /\ request[x.sent].phase = "unused",
           \/ (Credit(t)' => Credit(t)) /\ fills <= fills'
           \/ fills' = fills + 1
           \/ SeesPaid(t) /\ TurnAway(t) /\ fills <= fills'
    PROVE  PaidInv'
<1>1. /\ tab'[t] = x /\ \A u \in Tabs : u # t => tab'[u] = tab[u]
      /\ \A u \in Tabs : tab[u].sent \in Requests \cup {NoRequest}
  BY DEF PaidInv, ShopInv, TabRow
<1>2. \A u \in Tabs : u # t => TabOK(u)' /\ (Credit(u)' => Credit(u))
  BY <1>1, OtherTabs
<1>3. SentInv'
  <2>1. \A u \in Tabs : TabOK(u)'
    BY <1>2
  <2>2. \A u \in Tabs : u # t /\ x.sent # NoRequest => tab[u].sent # x.sent
    BY <1>1 DEF PaidInv, SentInv, TabOK
  <2>3. \A u, w \in Tabs : tab'[u].sent = tab'[w].sent /\ tab'[u].sent # NoRequest => u = w
    BY <1>1, <2>2 DEF PaidInv, SentInv
  <2> QED BY <2>1, <2>3 DEF SentInv
<1>4. /\ unseen \subseteq unseen' /\ SeenPaid' \subseteq SeenPaid
      /\ Creditors' \subseteq Creditors \cup {t}
      /\ (Credit(t)' => Credit(t)) => Creditors' \subseteq Creditors
  BY <1>2, UnseenGrows, PaymentsSeen DEF PaidInv, Creditors
<1>5. Within(SeenPaid, Creditors, fills) /\ fills' \in Nat
  BY DEF PaidInv, CountInv, ShopInv
<1>6. CASE (Credit(t)' => Credit(t)) /\ fills <= fills'
  <2>1. Within(SeenPaid', Creditors', fills')
    BY <1>4, <1>5, <1>6, WithinLess
  <2> QED BY <1>3, <2>1 DEF PaidInv, CountInv
<1>7. CASE fills' = fills + 1
  <2>1. Within(SeenPaid', Creditors', fills + 1)
    BY <1>4, <1>5, WithinFilled
  <2> QED BY <1>3, <1>7, <2>1 DEF PaidInv, CountInv
<1>8. CASE SeesPaid(t) /\ TurnAway(t) /\ fills <= fills'
  <2> DEFINE r == tab[t].paying
  <2>1. r \in SeenPaid /\ r \in unseen'
    BY <1>8 DEF SeesPaid, TurnAway, SeenPaid, Orders, Watching, PaidInv, SentInv, TabOK, ShopInv, TabRow
  <2>2. r \notin SeenPaid'
    BY <2>1 DEF SeenPaid
  <2>3. SeenPaid' \subseteq SeenPaid \ {r}
    BY <1>4, <2>2
  <2>4. Creditors' \subseteq Creditors \cup {t} /\ r \in SeenPaid
    BY <1>4, <2>1
  <2> HIDE DEF r
  <2>5. Within(SeenPaid', Creditors', fills')
    BY <1>5, <1>8, <2>3, <2>4, WithinUnseen
  <2> QED BY <1>3, <2>5 DEF PaidInv, CountInv
<1> QED BY <1>6, <1>7, <1>8

\* A step that changes no tab.
LEMMA NoTabMoves ==
    ASSUME PaidInv, ShopInv', UNCHANGED <<tab, unseen, fills>>, Onward
    PROVE  PaidInv'
<1>1. \A u \in Tabs : tab[u].paying \in Requests \cup {NoRequest} /\ tab[u].sent \in Requests \cup {NoRequest}
  BY DEF PaidInv, ShopInv, TabRow
<1>2. \A u \in Tabs : TabOK(u)' /\ (Credit(u)' => Credit(u))
  BY <1>1 DEF PaidInv, SentInv, TabOK, Onward, Watching, Credit, SeesPaid
<1>3. SentInv'
  BY <1>2 DEF PaidInv, SentInv
<1>4. SeenPaid' \subseteq SeenPaid /\ Creditors' \subseteq Creditors
  BY <1>2, PaymentsSeen DEF Creditors
<1>5. Within(SeenPaid', Creditors', fills')
  BY <1>4, WithinLess DEF PaidInv, CountInv, ShopInv, Within
<1> QED BY <1>3, <1>5 DEF PaidInv, CountInv

LEMMA ShopTab ==
    ASSUME ShopInv, NEW t \in Tabs, NEW x \in TabRow, tab' = [tab EXCEPT ![t] = x],
           storage' \in FiniteCarts, request' \in [Requests -> {Unused, Gone} \cup StagedRow],
           fills' \in Nat, TurnsAwayOnly(t)
    PROVE  ShopInv'
<1>1. unseen' \subseteq Requests
  BY UnseenGrows
<1>2. tab' \in [Tabs -> TabRow]
  BY DEF ShopInv
<1> QED BY <1>1, <1>2 DEF ShopInv

LEMMA SameRequests == request' = request => Onward
BY DEF Onward

\* A cart with one line more, one line fewer, or one line changed.
LEMMA CartEdits ==
    ASSUME NEW c \in FiniteCarts, NEW v \in Variants
    PROVE  /\ \A line \in Line :
                 [w \in DOMAIN c \cup {v} |-> IF w = v THEN line ELSE c[w]] \in FiniteCarts
           /\ [w \in DOMAIN c \ {v} |-> c[w]] \in FiniteCarts
           /\ \A n \in 1 .. MaxLine : v \in DOMAIN c => [c EXCEPT ![v].quantity = n] \in FiniteCarts
<1>1. PICK S \in SUBSET Variants : c \in [S -> Line]
  BY CartForm DEF FiniteCarts
<1>2. IsFiniteSet(S) /\ IsFiniteSet(S \cup {v}) /\ IsFiniteSet(S \ {v})
  BY <1>1, FS_AddElement, FS_Subset DEF FiniteCarts
<1>3. ASSUME NEW line \in Line
      PROVE  [w \in DOMAIN c \cup {v} |-> IF w = v THEN line ELSE c[w]] \in FiniteCarts
  <2> DEFINE d == [w \in DOMAIN c \cup {v} |-> IF w = v THEN line ELSE c[w]]
  <2>1. d \in [S \cup {v} -> Line] /\ DOMAIN d = S \cup {v} /\ S \cup {v} \in SUBSET Variants
    BY <1>1
  <2> HIDE DEF d
  <2>2. d \in FiniteCarts
    BY <1>2, <2>1, CartForm DEF FiniteCarts
  <2> QED BY <2>2 DEF d
<1>4. [w \in DOMAIN c \ {v} |-> c[w]] \in FiniteCarts
  <2> DEFINE d == [w \in DOMAIN c \ {v} |-> c[w]]
  <2>1. d \in [S \ {v} -> Line] /\ DOMAIN d = S \ {v} /\ S \ {v} \in SUBSET Variants
    BY <1>1
  <2> HIDE DEF d
  <2>2. d \in FiniteCarts
    BY <1>2, <2>1, CartForm DEF FiniteCarts
  <2> QED BY <2>2 DEF d
<1>5. ASSUME NEW n \in 1 .. MaxLine, v \in DOMAIN c
      PROVE  [c EXCEPT ![v].quantity = n] \in FiniteCarts
  <2> DEFINE d == [c EXCEPT ![v].quantity = n]
  <2>1. d \in [S -> Line] /\ DOMAIN d = S
    BY <1>1, <1>5 DEF Line
  <2> HIDE DEF d
  <2>2. d \in FiniteCarts
    BY <1>2, <2>1, CartForm DEF FiniteCarts
  <2> QED BY <2>2 DEF d
<1> QED BY <1>3, <1>4, <1>5

\* A tab's cart changes, and what the tab waits for does not.
LEMMA CartChanges ==
    ASSUME PaidInv, NEW t \in Tabs, NEW cart \in FiniteCarts,
           NEW adding \in {NoLines} \cup [variant : Variants, line : Line],
           tab' = [tab EXCEPT ![t].cart = cart, ![t].adding = adding],
           storage' \in FiniteCarts, fills' \in Nat, UNCHANGED <<request, unseen>>,
           \/ fills' = fills /\ (cart # EmptyCart => tab[t].cart # EmptyCart)
           \/ fills' = fills + 1
    PROVE  PaidInv'
<1> DEFINE x == [tab[t] EXCEPT !.cart = cart, !.adding = adding]
<1>1. tab \in [Tabs -> TabRow] /\ tab[t] \in TabRow /\ fills \in Nat
  BY DEF PaidInv, ShopInv
<1>2. tab' = [tab EXCEPT ![t] = x]
  BY <1>1
<1>3. /\ x \in TabRow /\ x.cart = cart
      /\ x.step = tab[t].step /\ x.sent = tab[t].sent /\ x.paying = tab[t].paying
  BY <1>1 DEF TabRow
<1> HIDE DEF x
<1>4. tab'[t] = x
  BY <1>1, <1>2
<1>5. TurnsAwayOnly(t) /\ Onward
  BY SameRequests DEF TurnsAwayOnly
<1>6. ShopInv'
  BY <1>2, <1>3, <1>5, ShopTab DEF PaidInv, ShopInv
<1>7. TabOK(t)' /\ (SeesPaid(t)' <=> SeesPaid(t))
  BY <1>3, <1>4 DEF PaidInv, SentInv, TabOK, Watching, SeesPaid
<1>8. fills' = fills + 1 \/ ((Credit(t)' => Credit(t)) /\ fills <= fills')
  BY <1>1, <1>3, <1>4, <1>7 DEF Credit
<1> QED BY <1>2, <1>3, <1>5, <1>6, <1>7, <1>8, TabMoves

LEMMA StepCart ==
    ASSUME PaidInv, CatalogueTypeOK, NEW t \in Tabs, CartStep(t, 1 .. MaxLine)
    PROVE  PaidInv'
<1> DEFINE cart == tab[t].cart
<1>1. /\ tab \in [Tabs -> TabRow] /\ tab[t] \in TabRow /\ cart \in FiniteCarts
      /\ tab[t].adding \in {NoLines} \cup [variant : Variants, line : Line]
      /\ storage \in FiniteCarts /\ fills \in Nat /\ MaxLine \in Nat
  BY ShoppingAssumption DEF PaidInv, ShopInv, TabRow
<1>2. PICK S \in SUBSET Variants : cart \in [S -> Line]
  BY <1>1, CartForm DEF FiniteCarts
<1>3. CASE Load(t)
  <2> DEFINE x == Fresh(storage)
  <2>1. /\ x \in TabRow /\ x.cart = storage /\ x.step = "form"
        /\ x.sent = NoRequest /\ x.paying = NoRequest
    BY <1>1 DEF Fresh, TabRow
  <2>2. /\ tab' = [tab EXCEPT ![t] = x] /\ TurnAway(t) /\ storage' = storage /\ request' = request
        /\ fills' = IF storage = EmptyCart THEN fills ELSE fills + 1
    BY <1>3 DEF Load
  <2> HIDE DEF x
  <2>3. tab'[t] = x
    BY <1>1, <2>2
  <2>4. TurnsAwayOnly(t) /\ Onward
    BY <2>2, SameRequests DEF TurnsAwayOnly
  <2>5. ShopInv'
    <3>1. fills' \in Nat /\ storage' \in FiniteCarts /\ request' = request
      BY <1>1, <2>2
    <3> QED BY <2>1, <2>2, <2>4, <3>1, ShopTab DEF PaidInv, ShopInv
  <2>6. TabOK(t)'
    BY <2>1, <2>3 DEF TabOK
  <2>7. fills' = fills + 1 \/ (~Credit(t)' /\ fills <= fills')
    BY <1>1, <2>1, <2>2, <2>3 DEF Credit
  <2> QED BY <2>1, <2>2, <2>4, <2>5, <2>6, <2>7, TabMoves
<1>4. ASSUME NEW v \in Variants, NEW n \in 1 .. MaxLine, PanelSubmit(t, v, n) PROVE PaidInv'
  <2> DEFINE adding == [variant |-> v, line |-> [quantity |-> n, row |-> variant[v].row]]
  <2>1. variant[v].row \in PriceRows
    BY DEF CatalogueTypeOK, PriceRows
  <2>2. adding \in [variant : Variants, line : Line]
    BY <2>1 DEF Line
  <2>3. tab' = [tab EXCEPT ![t].adding = adding] /\ UNCHANGED <<storage, request, fills, unseen>>
    BY <1>4 DEF PanelSubmit
  <2> HIDE DEF adding
  <2>4. tab' = [tab EXCEPT ![t].cart = cart, ![t].adding = adding]
    BY <1>1, <2>3 DEF TabRow
  <2> QED BY <1>1, <2>2, <2>3, <2>4, CartChanges
<1>5. CASE AddItem(t)
  <2> DEFINE v == tab[t].adding.variant
             line == tab[t].adding.line
             new == IF v \in DOMAIN cart
                    THEN [cart EXCEPT ![v].quantity = @ + line.quantity]
                    ELSE [w \in DOMAIN cart \cup {v} |-> IF w = v THEN line ELSE cart[w]]
  <2>1. /\ v \in Variants /\ line \in Line
        /\ new[v].quantity <= MaxLine
        /\ tab' = [tab EXCEPT ![t].cart = new, ![t].adding = NoLines]
        /\ storage' = new /\ UNCHANGED <<request, unseen>>
        /\ fills' = IF cart = EmptyCart /\ new # EmptyCart THEN fills + 1 ELSE fills
    BY <1>1, <1>5 DEF AddItem, CountFill
  <2>2. new \in FiniteCarts
    <3>1. CASE v \in DOMAIN cart
      <4> DEFINE n == cart[v].quantity + line.quantity
      <4>1. cart[v] \in Line /\ new = [cart EXCEPT ![v].quantity = n]
        BY <1>2, <3>1
      <4>2. new[v].quantity = n
        BY <1>2, <3>1, <4>1 DEF Line
      <4>3. cart[v].quantity \in 1 .. MaxLine /\ line.quantity \in 1 .. MaxLine
        BY <2>1, <4>1 DEF Line
      <4> HIDE DEF new, line, v
      <4>4. n \in 1 .. MaxLine
        BY <1>1, <2>1, <4>2, <4>3
      <4> QED BY <1>1, <2>1, <3>1, <4>1, <4>4, CartEdits
    <3>2. CASE v \notin DOMAIN cart
      BY <1>1, <2>1, <3>2, CartEdits
    <3> QED BY <3>1, <3>2
  <2> HIDE DEF new, v, line
  <2>3. fills' = fills + 1 \/ (fills' = fills /\ (new # EmptyCart => cart # EmptyCart))
    BY <2>1
  <2>4. fills' \in Nat
    BY <1>1, <2>1
  <2> QED BY <1>1, <2>1, <2>2, <2>3, <2>4, CartChanges
<1>6. ASSUME NEW v \in DOMAIN cart, NEW new \in FiniteCarts, SetCart(t, new), fills' = fills
      PROVE  PaidInv'
  <2>1. cart # EmptyCart
    BY EmptyCartForm
  <2>2. tab' = [tab EXCEPT ![t].cart = new] /\ storage' = new /\ UNCHANGED <<request, unseen>>
    BY <1>6 DEF SetCart
  <2>3. tab' = [tab EXCEPT ![t].cart = new, ![t].adding = tab[t].adding]
    BY <1>1, <2>2 DEF TabRow
  <2> QED BY <1>1, <1>6, <2>1, <2>2, <2>3, CartChanges
<1>7. ASSUME NEW v \in Variants, NEW n \in 0 .. MaxLine, SetQuantity(t, v, n) PROVE PaidInv'
  <2>1. /\ v \in DOMAIN cart /\ n \in QuantityButton(cart[v].quantity) /\ n <= MaxLine
        /\ SetCart(t, [cart EXCEPT ![v].quantity = n]) /\ fills' = fills
    BY <1>7 DEF SetQuantity
  <2>2. cart[v].quantity \in 1 .. MaxLine
    BY <1>2, <2>1 DEF Line
  <2>3. n \in 1 .. MaxLine
    BY <1>1, <2>1, <2>2 DEF QuantityButton, AtLeast
  <2>4. [cart EXCEPT ![v].quantity = n] \in FiniteCarts
    BY <1>1, <2>1, <2>3, CartEdits
  <2> QED BY <1>6, <2>1, <2>4
<1>8. ASSUME NEW v \in Variants, RemoveItem(t, v) PROVE PaidInv'
  <2>1. /\ v \in DOMAIN cart /\ fills' = fills
        /\ SetCart(t, [w \in DOMAIN cart \ {v} |-> cart[w]])
    BY <1>8 DEF RemoveItem
  <2>2. [w \in DOMAIN cart \ {v} |-> cart[w]] \in FiniteCarts
    BY <1>1, CartEdits
  <2> QED BY <1>6, <2>1, <2>2
<1> QED BY <1>3, <1>4, <1>5, <1>7, <1>8 DEF CartStep

\* A step of one request.
LEMMA OneRequest ==
    ASSUME ShopInv, NEW r \in Requests, NEW y \in {Gone} \cup StagedRow,
           request' = [request EXCEPT ![r] = y],
           request[r].placed => y.placed /\ y.paid = request[r].paid,
           ~request[r].placed /\ y.placed => ~y.paid
    PROVE  Onward /\ request' \in [Requests -> {Unused, Gone} \cup StagedRow]
<1>1. request'[r] = y /\ \A s \in Requests : s # r => request'[s] = request[s]
  BY DEF ShopInv
<1>2. request' \in [Requests -> {Unused, Gone} \cup StagedRow]
  BY DEF ShopInv
<1>3. y.phase # "unused"
  <2>1. Gone.phase = "over"
    BY DEF Gone
  <2> QED BY <2>1 DEF StagedRow, SentRow
<1> QED BY <1>1, <1>2, <1>3 DEF Onward

\* A tab that goes back to the form.
LEMMA BackOfTab ==
    ASSUME PaidInv, NEW t \in Tabs, tab[t].step # "form",
           tab' = [tab EXCEPT ![t] = [tab[t] EXCEPT !.step = "form", !.sent = NoRequest]],
           request' \in [Requests -> {Unused, Gone} \cup StagedRow], Onward,
           UNCHANGED <<storage, fills>>, TurnAway(t)
    PROVE  PaidInv'
<1> DEFINE x == [tab[t] EXCEPT !.step = "form", !.sent = NoRequest]
<1>1. tab \in [Tabs -> TabRow] /\ tab[t] \in TabRow /\ fills \in Nat /\ storage \in FiniteCarts
  BY DEF PaidInv, ShopInv
<1>2. /\ x \in TabRow /\ x.cart = tab[t].cart /\ x.step = "form" /\ x.sent = NoRequest
      /\ x.paying = tab[t].paying
  BY <1>1 DEF TabRow
<1>3. tab' = [tab EXCEPT ![t] = x]
  OBVIOUS
<1> HIDE DEF x
<1>4. tab'[t] = x /\ TurnsAwayOnly(t)
  BY <1>1, <1>3 DEF TurnsAwayOnly
<1>5. ShopInv'
  BY <1>1, <1>2, <1>3, <1>4, ShopTab DEF PaidInv
<1>6. tab[t].paying # NoRequest =>
         tab[t].paying \in Requests /\ request[tab[t].paying].placed /\ tab[t].paying \in unseen'
  BY <1>1 DEF PaidInv, SentInv, TabOK, TurnAway, TabRow
<1>7. TabOK(t)'
  BY <1>2, <1>4, <1>6 DEF TabOK, Onward
<1>8. (Credit(t)' => Credit(t)) \/ SeesPaid(t)
  BY <1>2, <1>4 DEF Credit
<1>9. fills <= fills' /\ x.sent \in {tab[t].sent, NoRequest}
  BY <1>1, <1>2
<1> QED BY <1>3, <1>4, <1>5, <1>7, <1>8, <1>9, TabMoves

\* An error answers the one tab that waits for the request, if one still does.
LEMMA StepBack ==
    ASSUME PaidInv, NEW r \in Requests, BackToForm(r),
           request' \in [Requests -> {Unused, Gone} \cup StagedRow], Onward,
           UNCHANGED <<storage, fills, unseen>>
    PROVE  PaidInv'
<1>1. tab \in [Tabs -> TabRow] /\ storage \in FiniteCarts /\ fills \in Nat /\ unseen \subseteq Requests
  BY DEF PaidInv, ShopInv
<1>2. CASE \A t \in Tabs : ~Waiting(t, r)
  <2>1. tab' = tab
    BY <1>1, <1>2 DEF BackToForm
  <2>2. ShopInv'
    BY <1>1, <2>1 DEF ShopInv
  <2> QED BY <2>1, <2>2, NoTabMoves
<1>3. ASSUME NEW t \in Tabs, Waiting(t, r) PROVE PaidInv'
  <2>1. \A u \in Tabs : u # t => ~Waiting(u, r)
    BY <1>3, ShoppingAssumption DEF Waiting, PaidInv, SentInv
  <2>2. tab' = [tab EXCEPT ![t] = [tab[t] EXCEPT !.step = "form", !.sent = NoRequest]]
    BY <1>1, <1>3, <2>1 DEF BackToForm
  <2>3. tab[t].step # "form" /\ TurnAway(t)
    BY <1>3 DEF Waiting, TurnAway, Watching
  <2> QED BY <2>2, <2>3, BackOfTab
<1> QED BY <1>2, <1>3

LEMMA StepCheckout ==
    ASSUME PaidInv, NEW t \in Tabs, CheckoutStep(t, BOOLEAN, Addresses)
    PROVE  PaidInv'
<1>1. /\ tab \in [Tabs -> TabRow] /\ tab[t] \in TabRow /\ fills \in Nat /\ storage \in FiniteCarts
      /\ request \in [Requests -> {Unused, Gone} \cup StagedRow]
  BY DEF PaidInv, ShopInv
<1>2. ASSUME NEW r \in Requests, NEW c \in BOOLEAN, NEW e \in Addresses, Submit(t, r, c, e)
      PROVE  PaidInv'
  <2> DEFINE x == [tab[t] EXCEPT !.step = "confirming", !.sent = r]
             y == [phase |-> "sent", shown |-> tab[t].cart, rows |-> NoLines,
                   withCoupon |-> c, email |-> e, couponDiscount |-> 0,
                   placed |-> FALSE, paid |-> FALSE]
  <2>1. /\ tab[t].step = "form" /\ tab[t].cart # EmptyCart /\ request[r] = Unused
        /\ request' = [request EXCEPT ![r] = y]
        /\ tab' = [tab EXCEPT ![t].step = "confirming", ![t].sent = r]
        /\ UNCHANGED <<storage, fills, unseen>>
    BY <1>2 DEF Submit
  <2>2. y \in StagedRow /\ ~y.placed
    <3>1. y \in SentRow
      BY <1>1 DEF SentRow, TabRow, RowsRead
    <3>2. Stage(y)
      BY DEF Stage
    <3> QED BY <3>1, <3>2 DEF StagedRow
  <2>3. y.phase = "sent"
    OBVIOUS
  <2>4. request[r].phase = "unused" /\ ~request[r].placed
    BY <2>1 DEF Unused
  <2> HIDE DEF y
  <2>5. Onward /\ request' \in [Requests -> {Unused, Gone} \cup StagedRow]
    BY <2>1, <2>2, <2>4, OneRequest DEF PaidInv
  <2>6. tab' = [tab EXCEPT ![t] = x]
    BY <1>1, <2>1
  <2>7. /\ x \in TabRow /\ x.cart = tab[t].cart /\ x.step = "confirming" /\ x.sent = r
        /\ x.paying = tab[t].paying
    BY <1>1 DEF TabRow
  <2> HIDE DEF x
  <2>8. tab'[t] = x /\ request'[r] = y
    BY <1>1, <2>1, <2>6
  <2>9. TurnsAwayOnly(t)
    BY <2>1 DEF TurnsAwayOnly
  <2>10. ShopInv'
    BY <1>1, <2>1, <2>5, <2>6, <2>7, <2>9, ShopTab DEF PaidInv
  <2>11. TabOK(t)'
    <3>1. tab[t].paying # NoRequest =>
             tab[t].paying \in Requests /\ request[tab[t].paying].placed /\ tab[t].paying \in unseen
      BY <1>1, <2>1 DEF PaidInv, SentInv, TabOK, Watching, TabRow
    <3> QED BY <2>1, <2>3, <2>5, <2>7, <2>8, <3>1, ShoppingAssumption DEF TabOK, Onward
  <2>12. Credit(t)
    BY <2>1 DEF Credit, SeesPaid, Watching
  <2>13. fills <= fills' /\ x.sent \in Requests /\ request[x.sent].phase = "unused"
    BY <1>1, <2>1, <2>4, <2>7
  <2> QED BY <2>5, <2>6, <2>9, <2>10, <2>11, <2>12, <2>13, TabMoves
<1>3. CASE Navigate(t)
  <2>1. /\ tab[t].step # "form" /\ TurnAway(t) /\ UNCHANGED <<storage, request, fills>>
        /\ tab' = [tab EXCEPT ![t].step = "form", ![t].sent = NoRequest]
    BY <1>3 DEF Navigate
  <2>2. tab' = [tab EXCEPT ![t] = [tab[t] EXCEPT !.step = "form", !.sent = NoRequest]]
    BY <1>1, <2>1
  <2> QED BY <1>1, <2>1, <2>2, SameRequests, BackOfTab
<1>4. CASE LoseConnection(t)
  <2>1. /\ tab[t].step = "confirming" /\ BackToForm(tab[t].sent)
        /\ UNCHANGED <<storage, request, fills, unseen>>
    BY <1>4 DEF LoseConnection
  <2>2. tab[t].sent \in Requests
    BY <1>1, <2>1 DEF PaidInv, SentInv, TabOK, TabRow
  <2> QED BY <1>1, <2>1, <2>2, SameRequests, StepBack
<1> QED BY <1>2, <1>3, <1>4 DEF CheckoutStep

\* The payment itself: the one step that makes a request paid.
LEMMA StepPayMock ==
    ASSUME PaidInv, NEW t \in Tabs, PayMock(t)
    PROVE  PaidInv'
<1> DEFINE r == tab[t].paying
           y == [request[r] EXCEPT !.paid = TRUE]
<1>1. /\ tab \in [Tabs -> TabRow] /\ tab[t] \in TabRow /\ fills \in Nat
      /\ request \in [Requests -> {Unused, Gone} \cup StagedRow]
      /\ \A u \in Tabs : tab[u].paying \in Requests \cup {NoRequest} /\ tab[u].sent \in Requests \cup {NoRequest}
  BY DEF PaidInv, ShopInv, TabRow
<1>2. /\ r # NoRequest /\ ~request[r].paid /\ request' = [request EXCEPT ![r] = y]
      /\ UNCHANGED <<storage, tab, fills, unseen>>
  BY DEF PayMock
<1>3. r \in Requests /\ request[r].placed /\ (Watching(t) \/ r \in unseen)
  BY <1>1, <1>2 DEF PaidInv, SentInv, TabOK
<1>4. request[r] \in StagedRow
  BY <1>3, RequestForm DEF PaidInv
<1>5. /\ y \in StagedRow /\ y.paid /\ y.phase = request[r].phase /\ y.placed = request[r].placed
  <2>1. request[r] \in SentRow /\ Stage(request[r])
    BY <1>4 DEF StagedRow
  <2>2. /\ y \in SentRow /\ y.paid /\ y.phase = request[r].phase /\ y.placed = request[r].placed
        /\ y.couponDiscount = request[r].couponDiscount /\ y.rows = request[r].rows
        /\ y.shown = request[r].shown
    BY <2>1 DEF SentRow
  <2> HIDE DEF y
  <2>3. Stage(y)
    BY <1>3, <2>1, <2>2 DEF Stage
  <2> QED BY <2>2, <2>3 DEF StagedRow
<1> HIDE DEF y
<1>6. /\ request'[r] = y /\ \A s \in Requests : s # r => request'[s] = request[s]
      /\ ShopInv'
  BY <1>1, <1>2, <1>3, <1>5 DEF PaidInv, ShopInv
<1>7. \A u \in Tabs : TabOK(u)' /\ (SeesPaid(u) => SeesPaid(u)') /\ (Credit(u)' => Credit(u))
  <2> SUFFICES ASSUME NEW u \in Tabs
               PROVE  TabOK(u)' /\ (SeesPaid(u) => SeesPaid(u)') /\ (Credit(u)' => Credit(u))
    OBVIOUS
  <2>1. TabOK(u)
    BY DEF PaidInv, SentInv
  <2>2. Watching(u)' <=> Watching(u)
    BY <1>2 DEF Watching
  <2>3. TabOK(u)'
    BY <1>1, <1>2, <1>5, <1>6, <2>1, <2>2 DEF TabOK
  <2>4. SeesPaid(u) => SeesPaid(u)'
    BY <1>1, <1>2, <1>5, <1>6, <2>1, <2>2 DEF SeesPaid, Watching
  <2>5. Credit(u)' => Credit(u)
    BY <1>2, <2>4 DEF Credit
  <2> QED BY <2>3, <2>4, <2>5
<1>8. SentInv'
  BY <1>2, <1>7 DEF PaidInv, SentInv
<1>9. /\ SeenPaid' \subseteq SeenPaid \cup {r} /\ Creditors' \subseteq Creditors
      /\ r \in unseen => SeenPaid' \subseteq SeenPaid
  BY <1>2, <1>3, <1>5, <1>6, <1>7 DEF SeenPaid, Orders, Creditors
<1>10. Within(SeenPaid, Creditors, fills) /\ fills <= fills
  BY <1>1 DEF PaidInv, CountInv
<1>11. CASE r \in unseen
  <2>1. Within(SeenPaid', Creditors', fills)
    BY <1>1, <1>9, <1>10, <1>11, WithinLess
  <2> QED BY <1>2, <1>6, <1>8, <2>1 DEF PaidInv, CountInv
<1>12. CASE r \notin unseen
  <2>1. Watching(t) /\ SeesPaid(t)'
    BY <1>2, <1>3, <1>5, <1>6, <1>12 DEF SeesPaid, Watching
  <2>2. t \in Creditors /\ t \notin Creditors'
    BY <1>2, <2>1 DEF Creditors, Credit, SeesPaid, Watching
  <2>3. Creditors' \subseteq Creditors \ {t}
    BY <1>9, <2>2
  <2> HIDE DEF r
  <2>4. Within(SeenPaid', Creditors', fills)
    BY <1>9, <1>10, <2>2, <2>3, WithinPaid
  <2> QED BY <1>2, <1>6, <1>8, <2>4 DEF PaidInv, CountInv
<1> QED BY <1>11, <1>12

\* What the page does before and after the payment.
LEMMA StepPayment ==
    ASSUME PaidInv, NEW t \in Tabs, PaymentStep(t)
    PROVE  PaidInv'
<1>1. /\ tab \in [Tabs -> TabRow] /\ tab[t] \in TabRow /\ fills \in Nat /\ storage \in FiniteCarts
      /\ request \in [Requests -> {Unused, Gone} \cup StagedRow] /\ TabOK(t)
  BY DEF PaidInv, ShopInv, SentInv
<1>2. CASE ClickConfirm(t)
  <2> DEFINE x == [tab[t] EXCEPT !.paying = tab[t].sent]
  <2>1. /\ tab[t].step = "confirm-mock" /\ tab[t].paying = NoRequest
        /\ tab' = [tab EXCEPT ![t].paying = tab[t].sent]
        /\ UNCHANGED <<storage, request, fills, unseen>>
    BY <1>2 DEF ClickConfirm
  <2>2. /\ x \in TabRow /\ x.cart = tab[t].cart /\ x.step = "confirm-mock" /\ x.sent = tab[t].sent
        /\ x.paying = tab[t].sent
    BY <1>1, <2>1 DEF TabRow
  <2>3. tab' = [tab EXCEPT ![t] = x]
    BY <1>1, <2>1
  <2> HIDE DEF x
  <2>4. tab'[t] = x /\ TurnsAwayOnly(t) /\ Onward /\ fills <= fills'
    BY <1>1, <2>1, <2>3, SameRequests DEF TurnsAwayOnly
  <2>5. ShopInv'
    BY <1>1, <2>1, <2>2, <2>3, <2>4, ShopTab DEF PaidInv
  <2>6. TabOK(t)'
    BY <1>1, <2>1, <2>2, <2>4 DEF TabOK, Watching
  <2>7. Credit(t)
    BY <2>1 DEF Credit, SeesPaid, Watching
  <2> QED BY <2>2, <2>3, <2>4, <2>5, <2>6, <2>7, TabMoves
<1>3. CASE ConfirmAnswered(t)
  <2> DEFINE x == [tab[t] EXCEPT !.cart = EmptyCart, !.step = Shown(t), !.paying = NoRequest]
  <2>1. /\ tab' = [tab EXCEPT ![t].cart = EmptyCart, ![t].step = Shown(t), ![t].paying = NoRequest]
        /\ storage' = EmptyCart
        /\ UNCHANGED <<request, fills, unseen>>
    BY <1>3 DEF ConfirmAnswered
  <2>2. Shown(t) \in {"form", "confirming", "confirm-mock", "success"}
    BY <1>1 DEF Shown, TabRow
  <2>3. /\ x \in TabRow /\ x.cart = EmptyCart /\ x.step = Shown(t) /\ x.sent = tab[t].sent
        /\ x.paying = NoRequest
    BY <1>1, <2>2, EmptyCartForm DEF TabRow
  <2>4. tab' = [tab EXCEPT ![t] = x]
    BY <1>1, <2>1
  <2> HIDE DEF x
  <2>5. tab'[t] = x /\ TurnsAwayOnly(t) /\ Onward /\ fills <= fills'
    <3>1. Onward /\ TurnsAwayOnly(t)
      BY <2>1, SameRequests DEF TurnsAwayOnly
    <3>2. tab'[t] = x
      BY <1>1, <2>4
    <3>3. fills <= fills'
      BY <1>1, <2>1
    <3> QED BY <3>1, <3>2, <3>3
  <2>6. ShopInv'
    BY <1>1, <2>1, <2>3, <2>4, <2>5, EmptyCartForm, ShopTab DEF PaidInv
  <2>7. TabOK(t)'
    BY <1>1, <2>1, <2>3, <2>5 DEF TabOK, Shown, Watching
  <2>8. Credit(t)' => Credit(t)
    BY <2>3, <2>5 DEF Credit, SeesPaid, Shown
  <2> QED BY <2>3, <2>4, <2>5, <2>6, <2>7, <2>8, TabMoves
<1>4. CASE ConfirmLost(t)
  <2> DEFINE x == [tab[t] EXCEPT !.paying = NoRequest]
  <2>1. /\ tab' = [tab EXCEPT ![t].paying = NoRequest] /\ TurnAway(t)
        /\ UNCHANGED <<storage, request, fills>>
    BY <1>4 DEF ConfirmLost
  <2>2. /\ x \in TabRow /\ x.cart = tab[t].cart /\ x.step = tab[t].step /\ x.sent = tab[t].sent
        /\ x.paying = NoRequest
    BY <1>1 DEF TabRow
  <2>3. tab' = [tab EXCEPT ![t] = x]
    BY <1>1, <2>1
  <2> HIDE DEF x
  <2>4. tab'[t] = x /\ TurnsAwayOnly(t) /\ Onward /\ fills <= fills'
    BY <1>1, <2>1, <2>3, SameRequests DEF TurnsAwayOnly
  <2>5. ShopInv'
    BY <1>1, <2>1, <2>2, <2>3, <2>4, ShopTab DEF PaidInv
  <2>6. TabOK(t)'
    BY <1>1, <2>1, <2>2, <2>4 DEF TabOK
  <2>7. (Credit(t)' => Credit(t)) \/ SeesPaid(t)
    BY <2>2, <2>4 DEF Credit
  <2> QED BY <2>1, <2>2, <2>3, <2>4, <2>5, <2>6, <2>7, TabMoves
<1> QED BY <1>2, <1>3, <1>4, StepPayMock DEF PaymentStep

\* A request's row on its way through the checkout.
LEMMA Staged ==
    ASSUME PaidInv, NEW r \in Requests, request[r] \in StagedRow, ~request[r].placed
    PROVE  /\ request[r] \in SentRow /\ ~request[r].paid
           /\ request[r].phase = "sent" => request[r].couponDiscount = 0
           /\ request[r].phase # "sent" =>
                 request[r].rows \in [DOMAIN request[r].shown -> PriceRows]
           /\ request[r].couponDiscount # 0 =>
                 request[r].couponDiscount <= Eligible(Quantities(request[r].shown), request[r].rows)
BY DEF StagedRow, Stage

LEMMA StepServer ==
    ASSUME PaidInv, CatalogueTypeOK, CouponTypeOK, NEW r \in Requests, Serve(r) \/ FailCheckout(r)
    PROVE  PaidInv'
<1>1. /\ request \in [Requests -> {Unused, Gone} \cup StagedRow]
      /\ tab \in [Tabs -> TabRow] /\ fills \in Nat /\ storage \in FiniteCarts /\ unseen \subseteq Requests
  BY DEF PaidInv, ShopInv
<1>2. /\ request[r].phase \in {"sent", "read", "locked", "placed"} \/ request[r].placed
            => request[r] \in StagedRow
      /\ request[r].placed \in BOOLEAN
  BY RequestForm DEF PaidInv
<1>3. ASSUME NEW y \in {Gone} \cup StagedRow, request' = [request EXCEPT ![r] = y],
             request[r].placed => y.placed /\ y.paid = request[r].paid,
             ~request[r].placed /\ y.placed => ~y.paid,
             UNCHANGED <<storage, tab, fills, unseen>>
      PROVE  PaidInv'
  <2>1. Onward /\ request' \in [Requests -> {Unused, Gone} \cup StagedRow]
    BY <1>3, OneRequest DEF PaidInv
  <2>2. ShopInv'
    BY <1>1, <1>3, <2>1 DEF ShopInv
  <2> QED BY <1>3, <2>1, <2>2, NoTabMoves
<1>4. CASE ReadVariants(r)
  <2> DEFINE shown == request[r].shown
             read == [v \in DOMAIN shown |-> variant[v].row]
             y == [request[r] EXCEPT !.phase = "read", !.rows = read]
  <2>1. /\ request[r].phase = "sent" /\ request' = [request EXCEPT ![r] = y]
        /\ UNCHANGED <<storage, tab, fills, unseen>>
    BY <1>4 DEF ReadVariants
  <2>2. request[r] \in SentRow /\ request[r].couponDiscount = 0 /\ ~request[r].placed /\ ~request[r].paid
    BY <1>2, <2>1, Staged DEF StagedRow, Stage
  <2>3. PICK S \in SUBSET Variants : shown \in [S -> Line]
    BY <2>2, CartForm DEF SentRow, FiniteCarts
  <2>4. read \in [S -> PriceRows] /\ DOMAIN shown = S
    BY <2>3 DEF CatalogueTypeOK, PriceRows
  <2> HIDE DEF read
  <2>5. read \in RowsRead
    BY <2>4 DEF RowsRead
  <2>6. /\ y \in SentRow /\ y.phase = "read" /\ y.rows = read /\ y.shown = shown
        /\ y.couponDiscount = 0 /\ ~y.placed /\ ~y.paid
    BY <2>2, <2>5 DEF SentRow
  <2>7. Stage(y)
    BY <2>4, <2>6 DEF Stage
  <2>8. y \in StagedRow
    BY <2>6, <2>7 DEF StagedRow
  <2> HIDE DEF y
  <2> QED BY <1>3, <2>1, <2>2, <2>6, <2>8
<1>5. CASE ApplyCoupon(r)
  <2> DEFINE shown == request[r].shown
             rows == request[r].rows
             d == CouponDiscount(coupon.discountType, coupon.discountValue, EligibleOf(r))
             y == [request[r] EXCEPT !.phase = "locked", !.couponDiscount = d]
  <2>1. /\ request[r].phase = "read" /\ request' = [request EXCEPT ![r] = y]
        /\ coupon # NoCoupon
        /\ UNCHANGED <<storage, tab, fills, unseen>>
    BY <1>5 DEF ApplyCoupon, WithDiscount, CouponApplies, Applicable
  <2>2. /\ request[r] \in SentRow /\ ~request[r].placed /\ ~request[r].paid
        /\ rows \in [DOMAIN shown -> PriceRows] /\ request[r] \in StagedRow
    BY <1>2, <2>1, Staged DEF StagedRow, Stage
  <2>3. coupon.discountValue \in Int
    <3>1. "discountValue" \in TermFields /\ TermValues["discountValue"] = Nat \ {0}
      BY FieldNames DEF TermValues
    <3> QED BY <2>1, <3>1 DEF CouponTypeOK, Complete, Partial
  <2>4. EligibleOf(r) \in Int
    BY <2>1, <2>2, StagedLines, SumsType DEF EligibleOf
  <2>5. d \in Int /\ d <= Eligible(Quantities(shown), rows)
    BY <2>3, <2>4, CouponDiscountAtMost DEF EligibleOf
  <2> HIDE DEF d
  <2>6. /\ y \in SentRow /\ y.phase = "locked" /\ y.rows = rows /\ y.shown = shown
        /\ y.couponDiscount = d /\ ~y.placed /\ ~y.paid
    BY <2>2, <2>5 DEF SentRow
  <2>7. Stage(y)
    BY <2>2, <2>5, <2>6 DEF Stage
  <2>8. y \in StagedRow
    BY <2>6, <2>7 DEF StagedRow
  <2> HIDE DEF y
  <2> QED BY <1>3, <2>1, <2>2, <2>6, <2>8
<1>6. CASE PlaceOrder(r)
  <2> DEFINE y == [request[r] EXCEPT !.phase = "placed", !.placed = TRUE]
  <2>1. /\ request[r].phase \in {"read", "locked"} /\ request' = [request EXCEPT ![r] = y]
        /\ UNCHANGED <<storage, tab, fills, unseen>>
    BY <1>6 DEF PlaceOrder
  <2>2. /\ request[r] \in SentRow /\ Stage(request[r]) /\ ~request[r].placed /\ ~request[r].paid
    BY <1>2, <2>1 DEF StagedRow, Stage
  <2>3. /\ y \in SentRow /\ y.phase = "placed" /\ y.rows = request[r].rows /\ y.shown = request[r].shown
        /\ y.couponDiscount = request[r].couponDiscount /\ y.placed /\ ~y.paid
    BY <2>2 DEF SentRow
  <2>4. Stage(y)
    BY <2>1, <2>2, <2>3 DEF Stage
  <2>5. y \in StagedRow
    BY <2>3, <2>4 DEF StagedRow
  <2> HIDE DEF y
  <2> QED BY <1>3, <2>1, <2>2, <2>3, <2>5
<1>7. CASE AnswerCheckout(r)
  <2> DEFINE y == [request[r] EXCEPT !.phase = "over"]
  <2>1. /\ request[r].phase = "placed" /\ request' = [request EXCEPT ![r] = y]
        /\ tab' = [t \in Tabs |-> IF Waiting(t, r) THEN [tab[t] EXCEPT !.step = "confirm-mock"] ELSE tab[t]]
        /\ UNCHANGED <<storage, fills, unseen>>
    BY <1>7 DEF AnswerCheckout
  <2>2. request[r] \in SentRow /\ Stage(request[r]) /\ request[r].placed
    BY <1>2, <2>1 DEF StagedRow, Stage
  <2>3. /\ y \in SentRow /\ y.phase = "over" /\ y.rows = request[r].rows /\ y.shown = request[r].shown
        /\ y.couponDiscount = request[r].couponDiscount /\ y.placed /\ y.paid = request[r].paid
    BY <2>2 DEF SentRow
  <2>4. Stage(y)
    BY <2>1, <2>2, <2>3 DEF Stage
  <2>5. y \in StagedRow
    BY <2>3, <2>4 DEF StagedRow
  <2> HIDE DEF y
  <2>6. Onward /\ request' \in [Requests -> {Unused, Gone} \cup StagedRow]
    BY <2>1, <2>2, <2>3, <2>5, OneRequest DEF PaidInv
  <2>7. CASE \A t \in Tabs : ~Waiting(t, r)
    <3>1. tab' = tab
      BY <1>1, <2>1, <2>7
    <3> QED BY <1>3, <2>1, <2>2, <2>3, <2>5, <3>1
  <2>8. ASSUME NEW t \in Tabs, Waiting(t, r) PROVE PaidInv'
    <3> DEFINE x == [tab[t] EXCEPT !.step = "confirm-mock"]
    <3>1. \A u \in Tabs : u # t => ~Waiting(u, r)
      BY <2>8, ShoppingAssumption DEF Waiting, PaidInv, SentInv
    <3>2. tab' = [tab EXCEPT ![t] = x]
      BY <1>1, <2>1, <2>8, <3>1
    <3>3. /\ x \in TabRow /\ x.cart = tab[t].cart /\ x.step = "confirm-mock" /\ x.sent = tab[t].sent
          /\ x.paying = tab[t].paying
      BY <1>1 DEF TabRow
    <3> HIDE DEF x
    <3>4. tab'[t] = x /\ tab[t].step = "confirming" /\ tab[t].sent = r /\ r # NoRequest
      BY <1>1, <2>8, <3>2, ShoppingAssumption DEF Waiting
    <3>5. TurnsAwayOnly(t) /\ fills <= fills'
      BY <1>1, <2>1 DEF TurnsAwayOnly
    <3>6. ShopInv'
      BY <1>1, <2>1, <2>6, <3>2, <3>3, <3>5, ShopTab DEF PaidInv
    <3>7. tab[t].paying # NoRequest =>
             tab[t].paying \in Requests /\ request[tab[t].paying].placed /\ tab[t].paying \in unseen
      BY <1>1, <3>4 DEF PaidInv, SentInv, TabOK, Watching, TabRow
    <3>8. request[r].phase # "unused" /\ request[r].placed
      BY <2>1, <2>2
    <3>9. TabOK(t)'
      BY <2>1, <2>6, <3>3, <3>4, <3>7, <3>8 DEF TabOK, Onward
    <3>10. Credit(t)
      BY <3>4 DEF Credit, SeesPaid, Watching
    <3> QED BY <2>6, <3>2, <3>3, <3>5, <3>6, <3>9, <3>10, TabMoves
  <2> QED BY <2>7, <2>8
<1>8. CASE RefuseVariants(r) \/ RefuseCoupon(r) \/ FailCheckout(r)
  <2> DEFINE y == IF request[r].placed THEN [request[r] EXCEPT !.phase = "over"] ELSE Gone
  <2>1. /\ request' = [request EXCEPT ![r] = y] /\ BackToForm(r)
        /\ UNCHANGED <<storage, fills, unseen>>
    BY <1>8 DEF RefuseVariants, RefuseCoupon, FailCheckout, Close
  <2>2. /\ y \in {Gone} \cup StagedRow
        /\ request[r].placed => y.placed /\ y.paid = request[r].paid
        /\ ~request[r].placed /\ y.placed => ~y.paid
    <3>1. CASE request[r].placed
      <4> DEFINE z == [request[r] EXCEPT !.phase = "over"]
      <4>1. request[r] \in SentRow /\ Stage(request[r]) /\ y = z
        BY <1>2, <3>1 DEF StagedRow
      <4>2. /\ z \in SentRow /\ z.phase = "over" /\ z.rows = request[r].rows /\ z.shown = request[r].shown
            /\ z.couponDiscount = request[r].couponDiscount /\ z.placed /\ z.paid = request[r].paid
        BY <3>1, <4>1 DEF SentRow
      <4> HIDE DEF z
      <4>3. request[r].phase # "sent"
        BY <3>1, <4>1 DEF Stage
      <4>4. Stage(z)
        BY <4>1, <4>2, <4>3 DEF Stage
      <4>5. z \in StagedRow
        BY <4>2, <4>4 DEF StagedRow
      <4> HIDE DEF y
      <4> QED BY <3>1, <4>1, <4>2, <4>5
    <3>2. CASE ~request[r].placed
      BY <3>2 DEF Gone
    <3> QED BY <3>1, <3>2
  <2> HIDE DEF y
  <2>3. Onward /\ request' \in [Requests -> {Unused, Gone} \cup StagedRow]
    BY <2>1, <2>2, OneRequest DEF PaidInv
  <2> QED BY <2>1, <2>3, StepBack
<1> QED BY <1>4, <1>5, <1>6, <1>7, <1>8 DEF Serve

(***************************************************************************)
(* What follows for the whole shop.                                        *)
(***************************************************************************)
WholeInv == CatalogueInv /\ CouponInv /\ PaidInv

LEMMA InitWhole == ShoppingSpec => WholeInv
<1> SUFFICES ASSUME CatalogueInit, CouponInit(NewCoupons \cup {NoCoupon}), ShopInit(FiniteCarts)
             PROVE  WholeInv
  BY DEF ShoppingSpec
<1>1. CatalogueInv /\ CouponInv
  BY InitCatalogue, InitCoupon
<1>2. /\ storage \in FiniteCarts /\ tab = [t \in Tabs |-> Fresh(storage)]
      /\ request = [r \in Requests |-> Unused] /\ unseen = {}
      /\ fills = IF storage = EmptyCart THEN 0 ELSE Cardinality(Tabs)
  BY DEF ShopInit
<1>3. \A t \in Tabs : /\ tab[t] \in TabRow
                      /\ tab[t].cart = storage /\ tab[t].step = "form"
                      /\ tab[t].sent = NoRequest /\ tab[t].paying = NoRequest
  BY <1>2 DEF Fresh, TabRow
<1>4. tab \in [Tabs -> TabRow]
  BY <1>2, <1>3
<1>5. IsFiniteSet(Tabs) /\ Cardinality(Tabs) \in Nat
  BY ShoppingAssumption, FS_CardinalityType
<1>6. fills \in Nat
  BY <1>2, <1>5
<1>7. ShopInv
  BY <1>2, <1>4, <1>6 DEF ShopInv
<1>8. SentInv
  BY <1>3 DEF SentInv, TabOK
<1>9. SeenPaid = {}
  BY <1>2 DEF SeenPaid, Orders, Unused
<1>10. IsFiniteSet(Creditors) /\ Cardinality(Creditors) <= fills
  <2>1. CASE storage = EmptyCart
    <3>1. Creditors = {}
      BY <1>3, <2>1 DEF Creditors, Credit
    <3> QED BY <1>2, <2>1, <3>1, FS_EmptySet
  <2>2. CASE storage # EmptyCart
    <3>1. Creditors \subseteq Tabs
      BY DEF Creditors
    <3> QED BY <1>2, <1>5, <2>2, <3>1, FS_Subset
  <2> QED BY <2>1, <2>2
<1>11. CountInv
  <2>1. Cardinality(Creditors) \in Nat
    BY <1>10, FS_CardinalityType
  <2> QED BY <1>6, <1>9, <1>10, <2>1, FS_EmptySet DEF CountInv, Within
<1> QED BY <1>1, <1>7, <1>8, <1>11 DEF WholeInv, PaidInv

LEMMA StepWhole ==
    ASSUME WholeInv, Next
    PROVE  WholeInv'
<1>1. /\ CatalogueInv /\ CatalogueTypeOK /\ CouponInv /\ CouponTypeOK /\ PaidInv
  BY DEF WholeInv, CatalogueInv, CouponInv
<1>2. UNCHANGED catalogueVars => CatalogueInv'
  BY <1>1 DEF catalogueVars, CatalogueInv, CatalogueTypeOK, UploadInv, UploadedImageIsStored
<1>3. UNCHANGED <<coupon, couponTask, now, editsOverlapped>> /\ couponLock' \in Holders \cup {NoHolder}
          => CouponInv'
  BY <1>1 DEF CouponInv, CouponTypeOK, Complete, Partial
<1>4. UNCHANGED couponVars => CouponInv'
  BY <1>1 DEF couponVars, CouponInv, CouponTypeOK, Complete, Partial
<1>5. UNCHANGED shopVars => PaidInv'
  <2> SUFFICES ASSUME UNCHANGED shopVars PROVE PaidInv'
    OBVIOUS
  <2>1. UNCHANGED <<tab, unseen, fills, request, storage>>
    BY DEF shopVars
  <2>2. ShopInv'
    BY <1>1, <2>1 DEF PaidInv, ShopInv
  <2> QED BY <1>1, <2>1, <2>2, SameRequests, NoTabMoves
<1>6. CASE CustomerStep /\ UNCHANGED <<catalogueVars, couponVars>>
  <2>1. PICK t \in Tabs :
            \/ CartStep(t, 1 .. MaxLine)
            \/ CheckoutStep(t, BOOLEAN, Addresses)
            \/ PaymentStep(t)
    BY <1>6 DEF CustomerStep, Addresses
  <2>2. PaidInv'
    BY <1>1, <2>1, StepCart, StepCheckout, StepPayment
  <2> QED BY <1>2, <1>4, <1>6, <2>2 DEF WholeInv
<1>7. CASE ServerStep /\ UNCHANGED <<catalogueVars, CouponButLock>>
  <2>1. PICK r \in Requests : Serve(r) \/ FailCheckout(r)
    BY <1>7 DEF ServerStep
  <2>2. PaidInv'
    BY <1>1, <2>1, StepServer
  <2>3. couponLock' \in {couponLock, NoHolder, r}
    BY <2>1 DEF Serve, ReadVariants, RefuseVariants, ApplyCoupon, RefuseCoupon, PlaceOrder,
                AnswerCheckout, FailCheckout, Unlock
  <2>4. couponLock' \in Holders \cup {NoHolder}
    BY <1>1, <2>3 DEF CouponTypeOK, Requests
  <2>5. CouponInv'
    BY <1>3, <1>7, <2>4 DEF CouponButLock
  <2> QED BY <1>2, <1>7, <2>2, <2>5 DEF WholeInv
<1>8. CASE CouponNext /\ UNCHANGED <<catalogueVars, shopVars>>
  BY <1>1, <1>2, <1>5, <1>8, StepCoupon DEF WholeInv
<1>9. CASE CatalogueNext /\ UNCHANGED <<couponVars, shopVars>>
  BY <1>1, <1>4, <1>5, <1>9, StepCatalogue DEF WholeInv
<1>10. CASE UNCHANGED shoppingVars
  BY <1>2, <1>4, <1>5, <1>10 DEF shoppingVars, WholeInv
<1> QED BY <1>6, <1>7, <1>8, <1>9, <1>10 DEF Next, ShoppingNext

LEMMA WholeInvariant == ShoppingSpec => []WholeInv
<1>1. WholeInv /\ [ShoppingNext]_shoppingVars => WholeInv'
  BY StepWhole DEF Next
<1> QED BY <1>1, InitWhole, PTL DEF ShoppingSpec

\* Catalogue, coupon, carts, tabs and requests keep their types, whatever
\* customers, administrators and the server do in between each other.
THEOREM StoreTypes == ShoppingSpec => [](CatalogueTypeOK /\ CouponTypeOK /\ ShoppingTypeOK)
<1>1. WholeInv => CatalogueTypeOK /\ CouponTypeOK /\ ShoppingTypeOK
  BY ShopTypes DEF WholeInv, CatalogueInv, CouponInv, PaidInv
<1> QED BY <1>1, WholeInvariant, PTL

\* What a cart was filled with is paid for once, however many tabs share it,
\* unless the customer was led away before the confirmation was shown
\* (CartProvider and handleConfirmMockPayment of the checkout page).
THEOREM FilledOncePaidOnce == ShoppingSpec => []PaidOncePerFill
<1>1. WholeInv => PaidOncePerFill
  <2> SUFFICES ASSUME WholeInv PROVE PaidOncePerFill
    OBVIOUS
  <2>1. /\ Cardinality(SeenPaid) \in Nat /\ Cardinality(Creditors) \in Nat /\ fills \in Nat
        /\ Cardinality(SeenPaid) + Cardinality(Creditors) <= fills
    BY FS_CardinalityType DEF WholeInv, PaidInv, CountInv, Within
  <2>2. Cardinality(SeenPaid) <= fills
    BY <2>1
  <2> QED BY <2>2 DEF PaidOncePerFill, SeenPaid
<1> QED BY <1>1, WholeInvariant, PTL

\* An order whose prices did not change costs what the cart showed less the
\* coupon, and the coupon leaves the tax alone (computePriceBreakdown,
\* computeCouponDiscountMinorUnits and the sums of CheckoutService.checkout,
\* against cartTotal).
THEOREM ShownIsCharged == ShoppingSpec => []ChargedAsShown
<1>1. WholeInv => ChargedAsShown
  <2> SUFFICES ASSUME WholeInv, NEW r \in Orders,
                      request[r].rows = Rows(request[r].shown)
               PROVE  LET quantities == Quantities(request[r].shown)
                          shown == CartTotal(quantities, request[r].rows) - request[r].couponDiscount
                      IN  /\ Total(r) <= shown
                          /\ (\A v \in DOMAIN quantities : ~Oversized(request[r].rows[v])) =>
                                Total(r) = shown /\ Total(r) >= Tax(quantities, request[r].rows)
    BY DEF ChargedAsShown
  <2> DEFINE q == Quantities(request[r].shown)
             rows == request[r].rows
             d == request[r].couponDiscount
  <2>1. request[r] \in StagedRow /\ request[r].placed
    BY RequestForm DEF Orders, WholeInv, PaidInv
  <2>2. d \in Int /\ (d # 0 => d <= Eligible(q, rows)) /\ request[r].phase # "sent"
    BY <2>1 DEF StagedRow, SentRow, Stage
  <2>3. Lines(q, rows)
    BY <2>1, <2>2, StagedLines
  <2>4. Total(r) = Subtotal(q, rows) - (Discount(q, rows) + d) + Tax(q, rows)
    BY DEF Total, OrderTotal
  <2> HIDE DEF q, rows, d
  <2>5. /\ Subtotal(q, rows) \in Int /\ Discount(q, rows) \in Int /\ Tax(q, rows) \in Int
        /\ CartTotal(q, rows) \in Int /\ Eligible(q, rows) \in Int
        /\ Eligible(q, rows) = Subtotal(q, rows) - Discount(q, rows)
    BY <2>3, SumsType DEF Eligible
  <2>6. Total(r) = Eligible(q, rows) + Tax(q, rows) - d
    BY <2>2, <2>4, <2>5
  <2>7. /\ Eligible(q, rows) + Tax(q, rows) <= CartTotal(q, rows)
        /\ (\A v \in DOMAIN q : ~Oversized(rows[v])) =>
              /\ Eligible(q, rows) + Tax(q, rows) = CartTotal(q, rows)
              /\ 0 <= Eligible(q, rows)
    BY <2>3, OrderAgainstCart
  <2>8. Total(r) <= CartTotal(q, rows) - d
    BY <2>2, <2>5, <2>6, <2>7
  <2>9. (\A v \in DOMAIN q : ~Oversized(rows[v])) =>
            Total(r) = CartTotal(q, rows) - d /\ Total(r) >= Tax(q, rows)
    BY <2>2, <2>5, <2>6, <2>7
  <2> QED BY <2>8, <2>9 DEF q, rows, d
<1> QED BY <1>1, WholeInvariant, PTL
=============================================================================
