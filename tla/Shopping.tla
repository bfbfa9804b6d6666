------------------------------ MODULE Shopping ------------------------------
(***************************************************************************)
(* From the shelf to the order: the cart every tab of a browser keeps in   *)
(* its memory and writes to the one localStorage entry they share, the     *)
(* checkout page's steps, CheckoutService.checkout on the server, and the  *)
(* confirmation of a mock payment.  Administrators change prices, take     *)
(* products off the shelf and edit the coupon meanwhile.                   *)
(***************************************************************************)
EXTENDS Catalogue, Coupons

CONSTANTS Tabs, Emails,
          NoRequest, NoLines,
          MaxLine,           \* bound: the largest quantity of a line
          MaxFills           \* bound: how often empty carts are filled

Requests == Holders          \* the checkout requests, each its own transaction

ASSUME ShoppingAssumption ==
    /\ NoRequest \notin Requests \cup Emails \cup {"anonymous"}
    /\ IsFiniteSet(Tabs)
    /\ MaxLine \in Nat /\ MaxFills \in Nat
    /\ \A row \in VariantRows \cup {SeedRow} :
          Priced(row) /\ row.minQuantity \in Nat /\ row.maxQuantity \in Nat

VARIABLES
    storage,      \* the cart in localStorage: a function from variants to lines
    tab,          \* tab[t]: cart, checkout step, what it waits for
    request,      \* request[r]: a checkout request, and the order it made
    fills,        \* history: how often a tab's empty cart became a full one
    unseen        \* history: requests whose confirmation call no page saw the end of

shopVars == <<storage, tab, request, fills, unseen>>
shoppingVars == <<catalogueVars, couponVars, shopVars>>

EmptyCart == [v \in {} |-> 0]
Carts == UNION {[S -> [quantity : 1 .. MaxLine, row : VariantRows \cup {SeedRow}]] :
                   S \in SUBSET Variants}

(* What an earlier visit may have left in localStorage.                    *)
FiniteCarts == {c \in Carts : IsFiniteSet(DOMAIN c)}

(* A tab that has just loaded a page.                                      *)
Fresh(cart) ==
    [cart |-> cart, step |-> "form", sent |-> NoRequest, paying |-> NoRequest, adding |-> NoLines]

(* A request not sent yet, and one that is over and has made no order.     *)
Unused == [phase |-> "unused", placed |-> FALSE]
Gone   == [phase |-> "over", placed |-> FALSE]

(* Tabs that have just loaded a page of the store.                         *)
ShopInit(first) ==
    /\ storage \in first
    /\ tab = [t \in Tabs |-> Fresh(storage)]
    /\ request = [r \in Requests |-> Unused]
    /\ fills = IF storage = EmptyCart THEN 0 ELSE Cardinality(Tabs)
    /\ unseen = {}

Quantities(cart) == [v \in DOMAIN cart |-> cart[v].quantity]
Rows(cart)       == [v \in DOMAIN cart |-> cart[v].row]

Waiting(t, r) == tab[t].step = "confirming" /\ tab[t].sent = r

(* The page that asked for a payment is still there to show its outcome.   *)
Watching(t) ==
    tab[t].step = "confirm-mock" /\ tab[t].paying # NoRequest /\ tab[t].paying = tab[t].sent

TurnAway(t) == unseen' = IF Watching(t) THEN unseen \cup {tab[t].paying} ELSE unseen

(***************************************************************************)
(* CartProvider: every change of the items is written to localStorage.     *)
(***************************************************************************)
SetCart(t, cart) ==
    /\ tab' = [tab EXCEPT ![t].cart = cart]
    /\ storage' = cart
    /\ UNCHANGED <<request, unseen>>

CountFill(t, cart) ==
    fills' = IF tab[t].cart = EmptyCart /\ cart # EmptyCart THEN fills + 1 ELSE fills

(* A page load: the items are read back from localStorage, and everything  *)
(* the page was waiting for is forgotten.                                  *)
Load(t) ==
    /\ fills < MaxFills
    /\ tab' = [tab EXCEPT ![t] = Fresh(storage)]
    /\ fills' = IF storage = EmptyCart THEN fills ELSE fills + 1
    /\ TurnAway(t)
    /\ UNCHANGED <<storage, request>>

(* ProductPurchasePanel takes the variant's price from the page and adds   *)
(* the line a moment later.                                                *)
PanelSubmit(t, v, n) ==
    /\ tab[t].adding = NoLines
    /\ variant[v].product # NoProduct
    /\ Listed(variant[v].product) /\ variant[v].active
    /\ tab' = [tab EXCEPT ![t].adding = [variant |-> v, line |-> [quantity |-> n, row |-> variant[v].row]]]
    /\ UNCHANGED <<storage, request, fills, unseen>>

(* addItem: a line that is there already keeps the price it was added at.  *)
AddItem(t) ==
    LET v    == tab[t].adding.variant
        line == tab[t].adding.line
        cart == tab[t].cart
        new  == IF v \in DOMAIN cart
                THEN [cart EXCEPT ![v].quantity = @ + line.quantity]
                ELSE [w \in DOMAIN cart \cup {v} |-> IF w = v THEN line ELSE cart[w]]
    IN  /\ tab[t].adding # NoLines
        /\ new[v].quantity <= MaxLine
        /\ cart = EmptyCart => fills < MaxFills
        /\ tab' = [tab EXCEPT ![t].cart = new, ![t].adding = NoLines]
        /\ storage' = new
        /\ CountFill(t, new)
        /\ UNCHANGED <<request, unseen>>

(* The cart page's buttons stop at one; nothing compares with the          *)
(* variant's maximum.                                                      *)
MutantQuantityButton(n) == {n + 1, n - 1}

QuantityButton(n) == {n + 1, AtLeast(n - 1, 1)}

SetQuantity(t, v, n) ==
    /\ v \in DOMAIN tab[t].cart
    /\ n \in QuantityButton(tab[t].cart[v].quantity)
    /\ n <= MaxLine
    /\ SetCart(t, [tab[t].cart EXCEPT ![v].quantity = n])
    /\ UNCHANGED fills

RemoveItem(t, v) ==
    /\ v \in DOMAIN tab[t].cart
    /\ SetCart(t, [w \in DOMAIN tab[t].cart \ {v} |-> tab[t].cart[w]])
    /\ UNCHANGED fills

(***************************************************************************)
(* The checkout page.                                                      *)
(***************************************************************************)
NextRequest == CHOOSE r \in Requests : request[r] = Unused

Submit(t, r, withCoupon, email) ==
    /\ tab[t].step = "form"
    /\ tab[t].cart # EmptyCart
    /\ request[r] = Unused
    /\ r = NextRequest
    /\ request' = [request EXCEPT ![r] =
                      [phase |-> "sent", shown |-> tab[t].cart, rows |-> NoLines,
                       withCoupon |-> withCoupon, email |-> email,
                       couponDiscount |-> 0, placed |-> FALSE, paid |-> FALSE]]
    /\ tab' = [tab EXCEPT ![t].step = "confirming", ![t].sent = r]
    /\ UNCHANGED <<storage, fills, unseen>>

(* Any error brings the form back, with the cart as it was.                *)
BackToForm(r) ==
    tab' = [t \in Tabs |-> IF Waiting(t, r)
                           THEN [tab[t] EXCEPT !.step = "form", !.sent = NoRequest] ELSE tab[t]]

(* The customer goes to another page of the site and comes back: the       *)
(* checkout page starts afresh, the cart and what runs in it stay.         *)
Navigate(t) ==
    /\ tab[t].step # "form"
    /\ tab' = [tab EXCEPT ![t].step = "form", ![t].sent = NoRequest]
    /\ TurnAway(t)
    /\ UNCHANGED <<storage, request, fills>>

(* The browser loses the connection; the server never notices.             *)
LoseConnection(t) ==
    /\ tab[t].step = "confirming"
    /\ BackToForm(tab[t].sent)
    /\ UNCHANGED <<storage, request, fills, unseen>>

(* handleConfirmMockPayment, one call at a time: ask, the server pays, the *)
(* answer empties the cart wherever the customer has gone meanwhile.       *)
ClickConfirm(t) ==
    /\ tab[t].step = "confirm-mock"
    /\ tab[t].paying = NoRequest
    /\ tab' = [tab EXCEPT ![t].paying = tab[t].sent]
    /\ UNCHANGED <<storage, request, fills, unseen>>

PayMock(t) ==
    /\ tab[t].paying # NoRequest
    /\ ~request[tab[t].paying].paid
    /\ request' = [request EXCEPT ![tab[t].paying].paid = TRUE]
    /\ UNCHANGED <<storage, tab, fills, unseen>>

Shown(t) == IF Watching(t) THEN "success" ELSE tab[t].step

MutantConfirmAnswered(t) ==
    /\ tab[t].paying # NoRequest
    /\ request[tab[t].paying].paid
    /\ tab' = [tab EXCEPT ![t].step = Shown(t), ![t].paying = NoRequest]
    /\ UNCHANGED <<storage, request, fills, unseen>>

ConfirmAnswered(t) ==
    /\ tab[t].paying # NoRequest
    /\ request[tab[t].paying].paid
    /\ tab' = [tab EXCEPT ![t].cart = EmptyCart, ![t].step = Shown(t), ![t].paying = NoRequest]
    /\ storage' = EmptyCart
    /\ UNCHANGED <<request, fills, unseen>>

ConfirmLost(t) ==
    /\ tab[t].paying # NoRequest
    /\ tab' = [tab EXCEPT ![t].paying = NoRequest]
    /\ TurnAway(t)
    /\ UNCHANGED <<storage, request, fills>>

(***************************************************************************)
(* CheckoutService.checkout: the variants are read and validated, then one *)
(* transaction applies the coupon and writes the order with its            *)
(* redemption, then the answer goes out.                                   *)
(***************************************************************************)
Orders    == {r \in Requests : request[r].placed}
Redeeming == {r \in Orders : request[r].withCoupon}

RedeemingBy(email) == {r \in Redeeming : request[r].email = email}

Accepted(cart) ==
    /\ \A v \in DOMAIN cart :
          /\ Sellable(v)
          /\ cart[v].quantity \in variant[v].row.minQuantity .. variant[v].row.maxQuantity
    /\ \A v, w \in DOMAIN cart : variant[v].row.currency = variant[w].row.currency

Close(r) ==
    /\ request' = [request EXCEPT ![r] = IF @.placed THEN [@ EXCEPT !.phase = "over"] ELSE Gone]
    /\ BackToForm(r)

ReadVariants(r) ==
    /\ request[r].phase = "sent"
    /\ Accepted(request[r].shown)
    /\ request' = [request EXCEPT ![r].phase = "read",
                      ![r].rows = [v \in DOMAIN request[r].shown |-> variant[v].row]]
    /\ UNCHANGED <<couponLock, storage, tab, fills, unseen>>

RefuseVariants(r) ==
    /\ request[r].phase = "sent"
    /\ ~Accepted(request[r].shown)
    /\ Close(r)
    /\ UNCHANGED <<couponLock, storage, fills, unseen>>

Total(r) == OrderTotal(Quantities(request[r].shown), request[r].rows, request[r].couponDiscount)

EligibleOf(r) == Eligible(Quantities(request[r].shown), request[r].rows)

(* applyCoupon takes the row lock before it looks, and holds it until the  *)
(* transaction ends.                                                       *)
CouponApplies(r) ==
    Applicable(EligibleOf(r), request[r].email, Cardinality(Redeeming),
               Cardinality(RedeemingBy(request[r].email)))

WithDiscount(r) ==
    request' = [request EXCEPT ![r].phase = "locked",
                  ![r].couponDiscount = CouponDiscount(coupon.discountType, coupon.discountValue,
                                                       EligibleOf(r))]

MutantApplyCoupon(r) ==
    /\ request[r].phase = "read" /\ request[r].withCoupon
    /\ CouponApplies(r)
    /\ WithDiscount(r)
    /\ UNCHANGED <<couponLock, storage, tab, fills, unseen>>

ApplyCoupon(r) ==
    /\ request[r].phase = "read" /\ request[r].withCoupon
    /\ couponLock = NoHolder
    /\ CouponApplies(r)
    /\ WithDiscount(r)
    /\ couponLock' = r
    /\ UNCHANGED <<storage, tab, fills, unseen>>

RefuseCoupon(r) ==
    /\ request[r].phase = "read" /\ request[r].withCoupon
    /\ couponLock = NoHolder
    /\ ~CouponApplies(r)
    /\ Close(r)
    /\ UNCHANGED <<couponLock, storage, fills, unseen>>

Unlock(r) == couponLock' = IF couponLock = r THEN NoHolder ELSE couponLock

PlaceOrder(r) ==
    /\ request[r].phase \in {"read", "locked"}
    /\ request[r].withCoupon => request[r].phase = "locked"
    /\ request' = [request EXCEPT ![r].phase = "placed", ![r].placed = TRUE]
    /\ Unlock(r)
    /\ UNCHANGED <<storage, tab, fills, unseen>>

AnswerCheckout(r) ==
    /\ request[r].phase = "placed"
    /\ request' = [request EXCEPT ![r].phase = "over"]
    /\ tab' = [t \in Tabs |-> IF Waiting(t, r) THEN [tab[t] EXCEPT !.step = "confirm-mock"] ELSE tab[t]]
    /\ UNCHANGED <<couponLock, storage, fills, unseen>>

(* The API process dies, the transaction times out or the gateway refuses: *)
(* an open transaction is rolled back, a committed order stays.            *)
MutantFailCheckout(r) ==
    /\ request[r].phase \in {"sent", "read", "locked", "placed"}
    /\ Close(r)
    /\ UNCHANGED <<couponLock, storage, fills, unseen>>

FailCheckout(r) ==
    /\ request[r].phase \in {"sent", "read", "locked", "placed"}
    /\ Close(r)
    /\ Unlock(r)
    /\ UNCHANGED <<storage, fills, unseen>>

(***************************************************************************)
(* The next-state relation.                                                *)
(***************************************************************************)
CartStep(t, quantities) ==
    \/ Load(t)
    \/ \E v \in Variants, n \in quantities : PanelSubmit(t, v, n)
    \/ AddItem(t)
    \/ \E v \in Variants, n \in 0 .. MaxLine : SetQuantity(t, v, n)
    \/ \E v \in Variants : RemoveItem(t, v)

CheckoutStep(t, coupons, emails) ==
    \/ \E r \in Requests, c \in coupons, e \in emails : Submit(t, r, c, e)
    \/ Navigate(t) \/ LoseConnection(t)

PaymentStep(t) == ClickConfirm(t) \/ PayMock(t) \/ ConfirmAnswered(t) \/ ConfirmLost(t)

Serve(r) ==
    \/ ReadVariants(r) \/ RefuseVariants(r)
    \/ ApplyCoupon(r) \/ RefuseCoupon(r)
    \/ PlaceOrder(r) \/ AnswerCheckout(r)

CustomerStep ==
    \E t \in Tabs :
        CartStep(t, 1 .. MaxLine) \/ CheckoutStep(t, BOOLEAN, Emails \cup {"anonymous"}) \/ PaymentStep(t)

ServerStep == \E r \in Requests : Serve(r) \/ FailCheckout(r)

(* A checkout takes and releases the coupon's lock and leaves the rest of  *)
(* the coupon and the catalogue alone; an administrator leaves the shop    *)
(* alone.                                                                  *)
CouponButLock == <<coupon, couponTask, now, editsOverlapped>>

ShoppingNext ==
    \/ CustomerStep /\ UNCHANGED <<catalogueVars, couponVars>>
    \/ ServerStep /\ UNCHANGED <<catalogueVars, CouponButLock>>
    \/ CouponNext /\ UNCHANGED <<catalogueVars, shopVars>>
    \/ CatalogueNext /\ UNCHANGED <<couponVars, shopVars>>

(* The server keeps running; which request it turns to is left open.       *)
ShoppingFairness ==
    WF_shoppingVars(\E r \in Requests : Serve(r) /\ UNCHANGED <<catalogueVars, CouponButLock>>)

ShoppingSpec ==
    /\ CatalogueInit /\ CouponInit(NewCoupons \cup {NoCoupon}) /\ ShopInit(FiniteCarts)
    /\ [][ShoppingNext]_shoppingVars

ShoppingFairSpec == ShoppingSpec /\ ShoppingFairness

(***************************************************************************)
(* Properties.                                                             *)
(***************************************************************************)
ShoppingTypeOK ==
    /\ storage \in Carts
    /\ tab \in [Tabs -> [cart : Carts, step : {"form", "confirming", "confirm-mock", "success"},
                         sent : Requests \cup {NoRequest}, paying : Requests \cup {NoRequest},
                         adding : {NoLines} \cup
                           [variant : Variants,
                            line : [quantity : 1 .. MaxLine, row : VariantRows \cup {SeedRow}]]]]
    /\ \A r \in Requests :
          request[r] \notin {Unused, Gone} =>
             /\ request[r].phase \in {"sent", "read", "locked", "placed", "over"}
             /\ request[r].shown \in Carts
             /\ request[r].couponDiscount \in Int
             /\ request[r].phase # "sent" =>
                   request[r].rows \in [DOMAIN request[r].shown -> VariantRows \cup {SeedRow}]
    /\ fills \in Nat
    /\ unseen \subseteq Requests

(* The abstract ledger.                                                    *)
Ledger ==
    INSTANCE CouponLedger WITH
        Orders <- Requests, NoEmail <- NoRequest, Unlimited <- NoLimit,
        active <- coupon # NoCoupon /\ coupon.isActive,
        limit <- IF coupon = NoCoupon THEN NoLimit ELSE coupon.maxRedemptions,
        limitPerCustomer <- IF coupon = NoCoupon THEN NoLimit ELSE coupon.maxRedemptionsPerCustomer,
        redeemedBy <- [r \in Requests |-> IF r \in Redeeming THEN request[r].email ELSE NoRequest]

(* The checkouts, racing each other and the administrators' edits, redeem  *)
(* a coupon only while the terms in force at the moment of redemption      *)
(* allow one more: never past either limit, never once it is deactivated.  *)
ImplementsLedger == Ledger!LedgerSpec

(* When no price changed between the shelf and the order, the order costs  *)
(* what the cart showed less the coupon, and a coupon never eats into the  *)
(* tax.  A line whose discount exceeds its list price is the exception: the *)
(* order then costs less than the cart showed, never more.                 *)
ChargedAsShown ==
    \A r \in Orders :
        request[r].rows = Rows(request[r].shown) =>
            LET quantities == Quantities(request[r].shown)
                shown == CartTotal(quantities, request[r].rows) - request[r].couponDiscount
            IN  /\ Total(r) <= shown
                /\ (\A v \in DOMAIN quantities : ~Oversized(request[r].rows[v])) =>
                      Total(r) = shown /\ Total(r) >= Tax(quantities, request[r].rows)

(* The contents of a cart are paid for once.  A second payment needs the   *)
(* cart to have been filled again, by hand or by loading a page, or the    *)
(* customer not to have seen the first one's confirmation.                 *)
PaidOncePerFill == Cardinality({r \in Orders \ unseen : request[r].paid}) <= fills

(* A customer who submits the checkout page is not left waiting.           *)
CheckoutAnswered ==
    \A t \in Tabs : (tab[t].step = "confirming") ~> (tab[t].step # "confirming")
=============================================================================
