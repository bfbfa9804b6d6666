------------------------------- MODULE MCStore -------------------------------
(***************************************************************************)
(* One instance of the shop and one of the staff's accounts, explored one  *)
(* part at a time: focus says which part of the system moves in a          *)
(* behaviour, the others keep the state they start in.  An administrator's *)
(* edits are capped by MaxEdits of the focus.                              *)
(***************************************************************************)
EXTENDS Shopping, StaffAccess, AdminForms, Invoicing, TLC

CONSTANTS P1, P2, V1, V2, I1, A1, A2, C1, C2, T1, T2, R1, R2, U1, U2, U3, S1, S2, K1, K2, K3, O1, O2

VARIABLES focus, edits

ASSUME StoreAssumption ==
    /\ V1 \in Variants /\ {U1, U2, U3} \subseteq Users
    /\ MaxLine >= 1

storeVars == <<shoppingVars, staffVars, formVars, invoicingVars, focus, edits>>

TheSeedVariants == (P1 :> {V1}) @@ (P2 :> {})

Row(cost, discount, most) ==
    [cost |-> cost, margin |-> 1000, discount |-> discount, taxRate |-> 1500,
     currency |-> "SAR", minQuantity |-> 1, maxQuantity |-> most]

TheSeedRow == Row(105, 7, 2)
TheVariantRows == {Row(100, 200, 1)}

Coupon(type, value, most, each) ==
    [discountType |-> type, discountValue |-> value, maxRedemptions |-> most,
     maxRedemptionsPerCustomer |-> each, minOrderAmount |-> 50,
     startsAt |-> NoDate, endsAt |-> 1, isActive |-> TRUE]

TheNewCoupons == {Coupon("fixed", 500, 1, NoLimit), Coupon("percentage", 1000, NoLimit, 1)}

TheCouponEdits ==
    {[isActive |-> TRUE], [maxRedemptions |-> 2], [discountType |-> "percentage"],
     [discountValue |-> 20000], [startsAt |-> 1], [endsAt |-> 2]}

TheFirstStaff == (U1 :> "SUPER_ADMIN") @@ (U2 :> "SUPER_ADMIN") @@ (U3 :> "NONE")

\* U1 removed, U2 removed in either way and reinstated, U3 hired or promoted.
TheStaffEdits ==
    [kind : {"active"}, target : {U1, U2}, active : {FALSE}]
      \cup {[kind |-> "role", target |-> U2, role |-> "SUPPORT"],
            [kind |-> "active", target |-> U2, active |-> TRUE],
            [kind |-> "role", target |-> U3, role |-> "SUPER_ADMIN"],
            [kind |-> "create", target |-> U3, role |-> "SUPPORT"]}

\* The bytes of a character: some look like tags and lengths, and a field of
\* more than four (MaxLength) bytes is too long.
Latin(b)  == <<b>>
Arabic(b) == <<6, b>>

Seller(name, vatNumber) == [name |-> name, vatNumber |-> vatNumber]

TheDemoSellerName == <<Latin(4)>>
TheDemoVatNumber  == <<Latin(3), Latin(3)>>

\* Nothing set; as .env.example has it; a Latin name; one in Arabic; one that
\* is too long in bytes though not in characters.
TheEnvironments ==
    {Seller(Unset, Unset),
     Seller(<<>>, <<>>),
     Seller(<<Latin(2), Latin(1)>>, <<Latin(5)>>),
     Seller(<<Latin(1), Arabic(2)>>, Unset),
     Seller(<<Arabic(1), Arabic(2), Arabic(3)>>, <<Latin(5)>>)}

PrintedAs(time, total, tax) ==
    [invoiceTimestamp |-> time, invoiceTotalWithVat |-> total, vatTotal |-> tax]

ThePrinted ==
    (O1 :> PrintedAs(<<Latin(4)>>, <<Latin(2), Latin(0)>>, <<Latin(0)>>))
      @@ (O2 :> PrintedAs(<<Latin(5), Latin(1)>>, <<Latin(5)>>, <<Latin(4), Latin(1)>>))

MaxEdits == [cart |-> 1, redemption |-> 1, coupons |-> 3, catalogue |-> 3, staff |-> 3, forms |-> 2,
             invoices |-> 0]

\* What the tabs start with where the cart itself does not move.
FullCart == [v \in {V1} |-> [quantity |-> 1, row |-> SeedRow]]

StoreInit ==
    /\ focus \in DOMAIN MaxEdits
    /\ edits = 0
    /\ CatalogueInit
    /\ CouponInit(IF focus = "coupons" THEN NewCoupons \cup {NoCoupon}
                  ELSE IF focus = "redemption" THEN NewCoupons ELSE {NoCoupon})
    /\ ShopInit({IF focus = "redemption" THEN FullCart ELSE EmptyCart})
    /\ StaffInit
    /\ FormsInit
    /\ InvoicingInit
    /\ focus # "invoices" => environment = Seller(Unset, Unset)
    /\ focus # "forms" => editorKind = "settings" /\ \A f \in Fields : record[f] = Blank

Edits(step) == step /\ edits < MaxEdits[focus] /\ edits' = edits + 1
Continues(step) == step /\ UNCHANGED edits

CouponAdministration ==
    /\ focus \in {"redemption", "coupons"}
    /\ \/ \E a \in CouponAdmins : (focus = "coupons" \/ a = C1) /\ Edits(BeginCouponEdit(a))
       \/ \E a \in CouponAdmins : Continues(EndCouponEdit(a))
       \/ Continues(Tick)
    /\ UNCHANGED <<catalogueVars, shopVars, staffVars, formVars, invoicingVars, focus>>

CatalogueAdministration ==
    /\ \/ /\ focus = "catalogue"
          /\ \/ \E a \in Admins : \/ Edits(BeginTask(a))
                                  \/ Continues(CommitTask(a)) \/ Continues(AbandonTask(a))
             \/ Edits(\E p \in Products : Reseed(p))
             \/ Edits(VariantEdit)
       \/ /\ focus = "cart"
          /\ Edits(\E v \in Variants : \/ DeactivateVariant(v)
                                       \/ \E r \in VariantRows : UpdateVariant(v, r, TRUE))
    /\ UNCHANGED <<couponVars, shopVars, staffVars, formVars, invoicingVars, focus>>

Customer(t) ==
    /\ \/ focus = "cart" /\ CartStep(t, IF t = T1 THEN {1} ELSE {})
       \/ focus = "cart" /\ t = T1 /\ (CheckoutStep(t, {FALSE}, Emails) \/ PaymentStep(t))
       \/ focus = "redemption" /\ CheckoutStep(t, {TRUE}, Emails \cup {"anonymous"})
    /\ UNCHANGED <<catalogueVars, couponVars, staffVars, formVars, invoicingVars, focus, edits>>

Serving(step) == step /\ UNCHANGED <<catalogueVars, CouponButLock, staffVars, formVars, invoicingVars, focus, edits>>

\* Nobody begins to sign in for whom no session id is left.
SignIns      == Cardinality({c \in Calls : call[c].phase = "signing"})
SessionsLeft == Cardinality({s \in Sessions : session[s].user = NoUser})

Staff ==
    /\ focus = "staff"
    /\ \/ \E s \in Sessions, edit \in TheStaffEdits : Edits(Admit(s, edit))
       \/ Continues(StaffStep)
    /\ SignIns' <= SessionsLeft'
    /\ UNCHANGED <<shoppingVars, formVars, invoicingVars, focus>>

Forms ==
    /\ focus = "forms"
    /\ Edits(TypeOrEdit) \/ Continues(FormStep)
    /\ UNCHANGED <<shoppingVars, staffVars, invoicingVars, focus>>

Invoices ==
    /\ focus = "invoices"
    /\ InvoicingStep
    /\ UNCHANGED <<shoppingVars, staffVars, formVars, focus, edits>>

StoreNext ==
    \/ CouponAdministration
    \/ CatalogueAdministration
    \/ \E t \in Tabs : Customer(t)
    \/ \E r \in Requests : Serving(Serve(r)) \/ Serving(FailCheckout(r))
    \/ Staff
    \/ Forms
    \/ Invoices

StoreSpec ==
    /\ StoreInit /\ [][StoreNext]_storeVars
    /\ WF_request(\E r \in Requests : Serve(r))

(* Every part's state is of its type.                                      *)
StoreTypeOK ==
    CatalogueTypeOK /\ CouponTypeOK /\ ShoppingTypeOK /\ StaffTypeOK /\ FormsTypeOK /\ InvoicingTypeOK
=============================================================================
