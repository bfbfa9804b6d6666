--------------------------- MODULE MCStore_proofs ---------------------------
(***************************************************************************)
(* The run of MCStore is one of the specifications the theorems are about: *)
(* each of its behaviours is a behaviour of the shop, of the staff's       *)
(* accounts, of the forms and of the invoicing.                            *)
(***************************************************************************)
EXTENDS MCStore, Shopping_proofs, BackOffice_proofs

LEMMA InitRun ==
    ASSUME StoreInit
    PROVE  /\ CatalogueInit /\ CouponInit(NewCoupons \cup {NoCoupon}) /\ ShopInit(FiniteCarts)
           /\ StaffInit /\ FormsInit /\ InvoicingInit
<1>1. CatalogueInit /\ StaffInit /\ FormsInit /\ InvoicingInit
  BY DEF StoreInit
<1>2. CouponInit(NewCoupons \cup {NoCoupon})
  BY DEF StoreInit, CouponInit
<1>3. FullCart \in FiniteCarts
  <2>1. FullCart \in [{V1} -> Line] /\ DOMAIN FullCart = {V1} /\ {V1} \in SUBSET Variants
    BY StoreAssumption, ShoppingAssumption DEF FullCart, Line, PriceRows
  <2>2. IsFiniteSet({V1})
    BY FS_Singleton
  <2> QED BY <2>1, <2>2, CartForm DEF FiniteCarts
<1>4. ShopInit(FiniteCarts)
  BY <1>3, EmptyCartForm DEF StoreInit, ShopInit
<1> QED BY <1>1, <1>2, <1>4

LEMMA CouponAdministrationStep ==
    ASSUME CouponAdministration
    PROVE  CouponNext /\ UNCHANGED <<catalogueVars, shopVars, staffVars, formVars, invoicingVars>>
BY DEF CouponAdministration, CouponNext, Edits, Continues

LEMMA CatalogueAdministrationStep ==
    ASSUME CatalogueAdministration
    PROVE  CatalogueNext /\ UNCHANGED <<couponVars, shopVars, staffVars, formVars, invoicingVars>>
BY DEF CatalogueAdministration, CatalogueNext, VariantEdit, Edits, Continues

LEMMA CustomersStep ==
    ASSUME NEW t \in Tabs, Customer(t)
    PROVE  CustomerStep /\ UNCHANGED <<catalogueVars, couponVars, staffVars, formVars, invoicingVars>>
<1>1. 1 \in 1 .. MaxLine
  BY StoreAssumption, ShoppingAssumption
<1>2. CartStep(t, IF t = T1 THEN {1} ELSE {}) => CartStep(t, 1 .. MaxLine)
  BY <1>1 DEF CartStep
<1>3. \A c \in SUBSET BOOLEAN, e \in SUBSET (Emails \cup {"anonymous"}) :
        CheckoutStep(t, c, e) => CheckoutStep(t, BOOLEAN, Emails \cup {"anonymous"})
  BY DEF CheckoutStep
<1>4. CheckoutStep(t, {FALSE}, Emails) \/ CheckoutStep(t, {TRUE}, Emails \cup {"anonymous"})
        => CheckoutStep(t, BOOLEAN, Emails \cup {"anonymous"})
  BY <1>3
<1> QED BY <1>2, <1>4 DEF Customer, CustomerStep

LEMMA ServingStep ==
    ASSUME NEW r \in Requests, Serving(Serve(r)) \/ Serving(FailCheckout(r))
    PROVE  ServerStep /\ UNCHANGED <<catalogueVars, CouponButLock, staffVars, formVars, invoicingVars>>
BY DEF Serving, ServerStep

LEMMA StaffsStep ==
    ASSUME Staff
    PROVE  StaffNext /\ UNCHANGED <<shoppingVars, formVars, invoicingVars>>
<1>1. TheStaffEdits \subseteq Edit
  <2>1. [kind : {"active"}, target : {U1, U2}, active : {FALSE}] \subseteq Edit
    BY StoreAssumption DEF Edit
  <2>2. [kind |-> "role", target |-> U2, role |-> "SUPPORT"] \in Edit
    BY StoreAssumption DEF Edit, StaffRoles
  <2>3. [kind |-> "active", target |-> U2, active |-> TRUE] \in Edit
    BY StoreAssumption DEF Edit
  <2>4. [kind |-> "role", target |-> U3, role |-> "SUPER_ADMIN"] \in Edit
    BY StoreAssumption DEF Edit, StaffRoles
  <2>5. [kind |-> "create", target |-> U3, role |-> "SUPPORT"] \in Edit
    BY StoreAssumption DEF Edit, StaffRoles
  <2> QED BY <2>1, <2>2, <2>3, <2>4, <2>5 DEF TheStaffEdits
<1> QED BY <1>1 DEF Staff, StaffNext, Edits, Continues

LEMMA StepRun ==
    ASSUME [StoreNext]_storeVars
    PROVE  /\ [ShoppingNext]_shoppingVars /\ [StaffNext]_staffVars
           /\ [FormsNext]_formVars /\ [InvoicingStep]_invoicingVars
<1>1. CASE CouponAdministration
  BY <1>1, CouponAdministrationStep DEF ShoppingNext
<1>2. CASE CatalogueAdministration
  BY <1>2, CatalogueAdministrationStep DEF ShoppingNext
<1>3. ASSUME NEW t \in Tabs, Customer(t)
      PROVE  /\ [ShoppingNext]_shoppingVars /\ [StaffNext]_staffVars
             /\ [FormsNext]_formVars /\ [InvoicingStep]_invoicingVars
  BY <1>3, CustomersStep DEF ShoppingNext
<1>4. ASSUME NEW r \in Requests, Serving(Serve(r)) \/ Serving(FailCheckout(r))
      PROVE  /\ [ShoppingNext]_shoppingVars /\ [StaffNext]_staffVars
             /\ [FormsNext]_formVars /\ [InvoicingStep]_invoicingVars
  BY <1>4, ServingStep DEF ShoppingNext
<1>5. CASE Staff
  BY <1>5, StaffsStep
<1>6. CASE Forms
  BY <1>6 DEF Forms, FormsNext, Edits, Continues
<1>7. CASE Invoices
  BY <1>7 DEF Invoices
<1>8. CASE UNCHANGED storeVars
  BY <1>8 DEF storeVars
<1> QED BY <1>1, <1>2, <1>3, <1>4, <1>5, <1>6, <1>7, <1>8 DEF StoreNext

\* What TLC explores as one instance are behaviours of every part's own
\* specification, so what is proved of a part holds in that instance too.
THEOREM RunOfTheParts == StoreSpec => ShoppingSpec /\ StaffSpec /\ FormsSpec /\ InvoicingSpec
<1> QED BY InitRun, StepRun, PTL DEF StoreSpec, ShoppingSpec, StaffSpec, FormsSpec, InvoicingSpec

\* All parts' variables keep their types side by side.
THEOREM AllTypes == StoreSpec => []StoreTypeOK
<1> QED BY RunOfTheParts, StoreTypes, StaffTypes, FormsTypes, InvoicingTypes, PTL DEF StoreTypeOK
=============================================================================
