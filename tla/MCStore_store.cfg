SPECIFICATION StoreSpec
CONSTANTS
    P1 = P1
    P2 = P2
    V1 = V1
    V2 = V2
    I1 = I1
    A1 = A1
    A2 = A2
    C1 = C1
    C2 = C2
    T1 = T1
    T2 = T2
    R1 = R1
    R2 = R2
    U1 = U1
    U2 = U2
    U3 = U3
    S1 = S1
    S2 = S2
    K1 = K1
    K2 = K2
    K3 = K3
    O1 = O1
    O2 = O2
    Products = {P1, P2}
    Variants = {V1, V2}
    Images = {I1}
    Admins = {A1, A2}
    SeedVariants <- TheSeedVariants
    SeedRow <- TheSeedRow
    VariantRows <- TheVariantRows
    NoProduct = NoProduct
    NoImage = NoImage
    CouponAdmins = {C1, C2}
    Holders = {R1, R2}
    NewCoupons <- TheNewCoupons
    CouponEdits <- TheCouponEdits
    NoCoupon = NoCoupon
    NoLimit = NoLimit
    NoDate = NoDate
    NoHolder = NoHolder
    Horizon = 2
    Tabs = {T1, T2}
    Emails = {"e1"}
    NoRequest = NoRequest
    NoLines = NoLines
    MaxLine = 2
    MaxFills = 2
    Users = {U1, U2, U3}
    Sessions = {S1, S2}
    Calls = {K1, K2, K3}
    FirstStaff <- TheFirstStaff
    NoUser = NoUser
    Fields = {"limit", "ending"}
    Texts = {"a", "b"}
    NoSave = NoSave
    Captured = {O1, O2}
    Environments <- TheEnvironments
    Unset = Unset
    DemoSellerName <- TheDemoSellerName
    DemoVatNumber <- TheDemoVatNumber
    Printed <- ThePrinted
    MaxLength = 4
    MaxFailures = 2
INVARIANTS
    StoreTypeOK
    ChargedAsShown
    PaidOncePerFill
    CouponInRange
    UploadedImageIsStored
    RemovalBites
    NumbersAreNeverShared
    QrReadsBack
PROPERTIES
    LastSuperAdminStays
    ImplementsLedger
    DeletedStaysOffShelf
    CustomersStayCustomers
    CheckoutAnswered
    UntypedFieldsKept
    QrNeverChanges
CHECK_DEADLOCK FALSE
