-------------------------- MODULE Catalogue_proofs --------------------------
(***************************************************************************)
(* Catalogue, for any products, variants, images and administrators: what  *)
(* is deleted stays off the shelf, and a picture that was uploaded exists. *)
(* Before that, the sums and prices of Pricing, for any finite set of      *)
(* lines: what an order costs against what its cart showed.                *)
(***************************************************************************)
EXTENDS Catalogue, FiniteSetTheorems, TLAPS

(***************************************************************************)
(* Sums over finite sets of lines.  The fold in LineSum picks one line     *)
(* after another; a property that the empty sum has, and that survives one *)
(* more line, is a property of the whole.                                  *)
(***************************************************************************)

\* Of finitely many sets, one contains no other: induction over finite sets.
LEMMA MinimalSubset ==
    ASSUME NEW D, IsFiniteSet(D), NEW T \in SUBSET SUBSET D, T # {}
    PROVE  \E m \in T : \A y \in T : y \subseteq m => y = m
<1>1. IsWellFoundedOn(StrictSubsetOrdering(D), SUBSET D)
  BY FS_StrictSubsetOrderingWellFounded, FS_FiniteSubsetsOfFinite
<1>2. \E m \in T : \A y \in T : ~(<<y, m>> \in StrictSubsetOrdering(D))
  BY <1>1, WFMin
<1> QED BY <1>2 DEF StrictSubsetOrdering

LEMMA FiniteInduction ==
    ASSUME NEW D, IsFiniteSet(D), NEW Good \in SUBSET SUBSET D,
           \A s \in SUBSET D : (\A v \in s : s \ {v} \in Good) => s \in Good
    PROVE  Good = SUBSET D
<1> DEFINE Bad == (SUBSET D) \ Good
<1> SUFFICES ASSUME Bad # {} PROVE FALSE
  OBVIOUS
<1>1. Bad \in SUBSET SUBSET D
  OBVIOUS
<1>2. PICK s \in Bad : \A y \in Bad : y \subseteq s => y = s
  <2> HIDE DEF Bad
  <2> QED BY <1>1, MinimalSubset
<1>3. \A v \in s : s \ {v} \in Good
  BY <1>2
<1> QED BY <1>3

LEMMA LeastNatural ==
    ASSUME NEW T \in SUBSET Nat, T # {}
    PROVE  \E m \in T : \A n \in T : m <= n
<1>1. PICK k \in T : TRUE
  OBVIOUS
<1> DEFINE Low == {n \in T : n <= k}
           U == {1 .. n : n \in Low}
           K == 1 .. k
<1>2. IsFiniteSet(K)
  BY FS_Interval
<1>3. U \in SUBSET SUBSET K /\ U # {}
  BY <1>1
<1>8. \A y \in U : \E n \in Low : y = 1 .. n
  OBVIOUS
<1>9. \A n \in Low : 1 .. n \in U
  OBVIOUS
<1> HIDE DEF U, K
<1>4. PICK u \in U : \A y \in U : y \subseteq u => y = u
  BY <1>2, <1>3, MinimalSubset
<1>5. PICK m \in Low : u = 1 .. m
  BY <1>8
<1>6. ASSUME NEW n \in T, n < m PROVE FALSE
  <2>1. n \in Low /\ 1 .. n \in U
    BY <1>6, <1>9
  <2>4. 1 .. n \subseteq 1 .. m
    BY <1>6
  <2>2. 1 .. n = 1 .. m
    BY <1>4, <1>5, <2>1, <2>4
  <2>3. m \in 1 .. m /\ m \notin 1 .. n
    BY <1>6
  <2> QED BY <2>2, <2>3
<1> QED BY <1>6

\* One step of the fold that LineSum is.
First(s) == CHOOSE v \in s : TRUE

Share(q, p, s, g) ==
    IF s = {} THEN 0
    ELSE q[First(s)] * p[First(s)] + g[s \ {First(s)}]

IsFold(q, p, g) == g = [s \in SUBSET DOMAIN q |-> Share(q, p, s, g)]

Shares(q, p) == CHOOSE g : IsFold(q, p, g)

LEMMA LineSumForm ==
    ASSUME NEW q, NEW p
    PROVE  LineSum(q, p) = Shares(q, p)[DOMAIN q]
BY DEF LineSum, MapThenSumSet, MapThenFoldSet, Share, First, Shares, IsFold

\* The recursive definition of the fold defines it.
LEMMA SharesFold ==
    ASSUME NEW q, NEW p, IsFiniteSet(DOMAIN q)
    PROVE  IsFold(q, p, Shares(q, p))
<1> DEFINE D == DOMAIN q
           UpTo(n, g) == \A s \in SUBSET D : Cardinality(s) <= n => g[s] = Share(q, p, s, g)
           E(n) == \E g : UpTo(n, g)
           Bad == {n \in Nat : ~E(n)}
<1>1. \A s \in SUBSET D : IsFiniteSet(s) /\ Cardinality(s) \in Nat /\ Cardinality(s) <= Cardinality(D)
  BY FS_Subset, FS_CardinalityType
<1>2. E(0)
  <2> DEFINE g == [s \in SUBSET D |-> 0]
  <2>1. \A s \in SUBSET D : Cardinality(s) <= 0 => s = {}
    BY <1>1, FS_EmptySet
  <2>2. UpTo(0, g)
    BY <2>1 DEF Share
  <2> QED BY <2>2
<1>3. ASSUME NEW n \in Nat, E(n) PROVE E(n + 1)
  <2>1. PICK g : UpTo(n, g)
    BY <1>3
  <2> DEFINE h == [s \in SUBSET D |-> Share(q, p, s, g)]
  <2>2. ASSUME NEW s \in SUBSET D, Cardinality(s) <= n + 1 PROVE h[s] = Share(q, p, s, h)
    <3>1. CASE s = {}
      BY <3>1 DEF Share
    <3>2. CASE s # {}
      <4>1. PICK v \in s : v = First(s)
        BY <3>2 DEF First
      <4>2. Cardinality(s \ {v}) <= n
        BY <1>1, <2>2, FS_RemoveElement
      <4>3. g[s \ {v}] = Share(q, p, s \ {v}, g)
        BY <2>1, <4>2
      <4>4. g[s \ {v}] = h[s \ {v}]
        BY <4>3
      <4> QED BY <3>2, <4>1, <4>4 DEF Share
    <3> QED BY <3>1, <3>2
  <2> QED BY <2>2
<1>4. \A n \in Nat : E(n)
  <2> SUFFICES ASSUME Bad # {} PROVE FALSE
    OBVIOUS
  <2>1. PICK m \in Bad : \A n \in Bad : m <= n
    BY LeastNatural
  <2>2. m # 0
    BY <1>2
  <2> HIDE DEF E
  <2>3. m \in Nat /\ ~E(m)
    OBVIOUS
  <2>4. m - 1 \in Nat /\ E(m - 1)
    BY <2>1, <2>2, <2>3
  <2>5. E((m - 1) + 1) /\ (m - 1) + 1 = m
    BY <1>3, <2>4
  <2> QED BY <2>3, <2>5
<1>5. PICK g : UpTo(Cardinality(D), g)
  BY <1>1, <1>4
<1>6. \A s \in SUBSET D : g[s] = Share(q, p, s, g)
  BY <1>1, <1>5
<1> DEFINE f == [s \in SUBSET D |-> g[s]]
<1>7. \A s \in SUBSET D : Share(q, p, s, f) = Share(q, p, s, g)
  <2> SUFFICES ASSUME NEW s \in SUBSET D, s # {} PROVE Share(q, p, s, f) = Share(q, p, s, g)
    BY DEF Share
  <2>1. PICK v \in s : v = First(s)
    BY DEF First
  <2> QED BY <2>1 DEF Share
<1>8. f = [s \in SUBSET D |-> Share(q, p, s, f)]
  BY <1>6, <1>7
<1> HIDE DEF f
<1> QED BY <1>8 DEF IsFold, Shares

\* What the fold is over a set of lines, one line at a time.
Unfolds(q, p, f) ==
    /\ f[{}] = 0
    /\ \A s \in SUBSET DOMAIN q : s # {} =>
          /\ First(s) \in s
          /\ f[s] = q[First(s)] * p[First(s)] + f[s \ {First(s)}]

LEMMA SharesStep ==
    ASSUME NEW q, NEW p, IsFiniteSet(DOMAIN q)
    PROVE  Unfolds(q, p, Shares(q, p))
<1> DEFINE f == Shares(q, p)
<1>1. \A s \in SUBSET DOMAIN q : f[s] = Share(q, p, s, f)
  BY SharesFold DEF IsFold
<1>2. \A s \in SUBSET DOMAIN q : s # {} => First(s) \in s
  BY DEF First
<1> HIDE DEF f
<1>3. f[{}] = 0
  BY <1>1 DEF Share
<1>4. \A s \in SUBSET DOMAIN q : s # {} => f[s] = q[First(s)] * p[First(s)] + f[s \ {First(s)}]
  BY <1>1 DEF Share
<1>5. Unfolds(q, p, f)
  BY <1>2, <1>3, <1>4 DEF Unfolds
<1> QED BY <1>5 DEF f

Amounts(q, p) ==
    /\ IsFiniteSet(DOMAIN q)
    /\ \A v \in DOMAIN q : q[v] \in Nat /\ p[v] \in Int

LEMMA SharesType ==
    ASSUME NEW q, NEW p, Amounts(q, p)
    PROVE  \A s \in SUBSET DOMAIN q : Shares(q, p)[s] \in Int
<1> DEFINE D == DOMAIN q
           f == Shares(q, p)
           Good == {s \in SUBSET D : f[s] \in Int}
<1>1. IsFiniteSet(D)
  BY DEF Amounts
<1>2. Unfolds(q, p, f)
  BY <1>1, SharesStep
<1> HIDE DEF f
<1>3. ASSUME NEW s \in SUBSET D, \A v \in s : s \ {v} \in Good PROVE s \in Good
  <2>1. CASE s = {}
    BY <1>2, <2>1 DEF Unfolds
  <2>2. CASE s # {}
    <3>1. PICK v \in s : f[s] = q[v] * p[v] + f[s \ {v}]
      BY <1>2, <2>2 DEF Unfolds
    <3>2. f[s \ {v}] \in Int
      BY <1>3
    <3>3. q[v] * p[v] \in Int
      BY DEF Amounts
    <3> QED BY <3>1, <3>2, <3>3
  <2> QED BY <2>1, <2>2
<1>4. Good \in SUBSET SUBSET D
  OBVIOUS
<1> HIDE DEF Good, D
<1>5. Good = SUBSET D
  BY <1>1, <1>3, <1>4, FiniteInduction
<1> QED BY <1>5 DEF Good, D, f

\* A sum of amounts is an amount.
LEMMA LineSumType ==
    ASSUME NEW q, NEW p, Amounts(q, p)
    PROVE  LineSum(q, p) \in Int
BY SharesType, LineSumForm

\* Lines that cost no more one by one cost no more together.
LEMMA LineSumMonotone ==
    ASSUME NEW q, NEW a, NEW b, Amounts(q, a), Amounts(q, b), \A v \in DOMAIN q : a[v] <= b[v]
    PROVE  LineSum(q, a) <= LineSum(q, b)
<1> DEFINE D == DOMAIN q
           f == Shares(q, a)
           g == Shares(q, b)
           Good == {s \in SUBSET D : f[s] <= g[s]}
<1>1. IsFiniteSet(D) /\ \A s \in SUBSET D : f[s] \in Int /\ g[s] \in Int
  BY SharesType DEF Amounts
<1>2. Unfolds(q, a, f) /\ Unfolds(q, b, g)
  BY <1>1, SharesStep
<1> HIDE DEF f, g
<1>3. ASSUME NEW s \in SUBSET D, \A v \in s : s \ {v} \in Good PROVE s \in Good
  <2>1. CASE s = {}
    BY <1>2, <2>1 DEF Unfolds
  <2>2. CASE s # {}
    <3>1. PICK v \in s : f[s] = q[v] * a[v] + f[s \ {v}] /\ g[s] = q[v] * b[v] + g[s \ {v}]
      BY <1>2, <2>2 DEF Unfolds
    <3>2. f[s \ {v}] <= g[s \ {v}] /\ f[s \ {v}] \in Int /\ g[s \ {v}] \in Int
      BY <1>1, <1>3
    <3>3. q[v] \in Nat /\ a[v] \in Int /\ b[v] \in Int /\ a[v] <= b[v]
      BY DEF Amounts
    <3>4. q[v] * a[v] <= q[v] * b[v] /\ q[v] * a[v] \in Int /\ q[v] * b[v] \in Int
      BY <3>3
    <3> QED BY <3>1, <3>2, <3>4
  <2> QED BY <2>1, <2>2
<1>4. Good \in SUBSET SUBSET D
  OBVIOUS
<1> HIDE DEF Good, D
<1>5. Good = SUBSET D
  BY <1>1, <1>3, <1>4, FiniteInduction
<1> QED BY <1>5, LineSumForm DEF Good, D, f, g

\* What the lines cost together is the sum of the sums of its parts.
LEMMA LineSumAdd ==
    ASSUME NEW q, NEW a, NEW b, NEW c, Amounts(q, a), Amounts(q, b), Amounts(q, c),
           \A v \in DOMAIN q : c[v] = a[v] + b[v]
    PROVE  LineSum(q, c) = LineSum(q, a) + LineSum(q, b)
<1> DEFINE D == DOMAIN q
           f == Shares(q, a)
           g == Shares(q, b)
           h == Shares(q, c)
           Good == {s \in SUBSET D : h[s] = f[s] + g[s]}
<1>1. IsFiniteSet(D) /\ \A s \in SUBSET D : f[s] \in Int /\ g[s] \in Int /\ h[s] \in Int
  BY SharesType DEF Amounts
<1>2. Unfolds(q, a, f) /\ Unfolds(q, b, g) /\ Unfolds(q, c, h)
  BY <1>1, SharesStep
<1> HIDE DEF f, g, h
<1>3. ASSUME NEW s \in SUBSET D, \A v \in s : s \ {v} \in Good PROVE s \in Good
  <2>1. CASE s = {}
    BY <1>2, <2>1 DEF Unfolds
  <2>2. CASE s # {}
    <3>1. PICK v \in s : /\ f[s] = q[v] * a[v] + f[s \ {v}]
                         /\ g[s] = q[v] * b[v] + g[s \ {v}]
                         /\ h[s] = q[v] * c[v] + h[s \ {v}]
      BY <1>2, <2>2 DEF Unfolds
    <3>2. h[s \ {v}] = f[s \ {v}] + g[s \ {v}] /\ f[s \ {v}] \in Int /\ g[s \ {v}] \in Int
      BY <1>1, <1>3
    <3>3. q[v] \in Nat /\ a[v] \in Int /\ b[v] \in Int /\ c[v] = a[v] + b[v]
      BY DEF Amounts
    <3>4. q[v] * c[v] = q[v] * a[v] + q[v] * b[v] /\ q[v] * a[v] \in Int /\ q[v] * b[v] \in Int
      BY <3>3
    <3> QED BY <3>1, <3>2, <3>4
  <2> QED BY <2>1, <2>2
<1>4. Good \in SUBSET SUBSET D
  OBVIOUS
<1> HIDE DEF Good, D
<1>5. Good = SUBSET D
  BY <1>1, <1>3, <1>4, FiniteInduction
<1> QED BY <1>5, LineSumForm DEF Good, D, f, g, h

(***************************************************************************)
(* Prices.                                                                 *)
(***************************************************************************)

LEMMA RoundedShareType ==
    ASSUME NEW a \in Int
    PROVE  RoundedShare(a) \in Int /\ (a >= 0 => RoundedShare(a) >= 0)
BY DEF RoundedShare, BasisPoints

\* One line's prices: what it costs is its list price less its discount plus
\* its tax, unless its discount is larger than its list price.
LEMMA BreakdownParts ==
    ASSUME NEW row, Priced(row)
    PROVE  LET b == Breakdown(row)
           IN  /\ b.list \in Nat /\ b.discount \in Nat /\ b.tax \in Nat /\ b.total \in Nat
               /\ b.list - b.discount + b.tax <= b.total
               /\ ~Oversized(row) => b.discount <= b.list /\ b.list - b.discount + b.tax = b.total
<1> DEFINE margin == RoundedShare(row.cost * row.margin)
           list == row.cost + margin
           after == AtLeast(list - row.discount, 0)
           tax == RoundedShare(after * row.taxRate)
<1>1. row.cost \in Nat /\ row.margin \in Nat /\ row.discount \in Nat /\ row.taxRate \in Nat
  BY DEF Priced
<1>2. row.cost * row.margin \in Nat
  BY <1>1
<1>3. margin \in Nat
  BY <1>2, RoundedShareType
<1>4. list \in Nat
  BY <1>1, <1>3
<1>5. after \in Nat /\ list - row.discount <= after /\ (row.discount <= list => after = list - row.discount)
  BY <1>1, <1>4 DEF AtLeast
<1>6. after * row.taxRate \in Nat
  BY <1>1, <1>5
<1>7. tax \in Nat
  BY <1>6, RoundedShareType
<1>8. Breakdown(row) = [list |-> list, discount |-> row.discount, tax |-> tax, total |-> after + tax]
  BY DEF Breakdown
<1> HIDE DEF margin, list, after, tax
<1> QED BY <1>1, <1>4, <1>5, <1>7, <1>8 DEF Oversized

LEMMA CouponDiscountAtMost ==
    ASSUME NEW type, NEW value \in Int, NEW eligible \in Int
    PROVE  CouponDiscount(type, value, eligible) \in Int
           /\ CouponDiscount(type, value, eligible) <= eligible
<1> DEFINE raw == IF type = "percentage" THEN RoundedShare(eligible * value) ELSE value
<1>1. eligible * value \in Int
  OBVIOUS
<1>2. raw \in Int
  BY <1>1, RoundedShareType
<1>3. CouponDiscount(type, value, eligible) = AtMost(AtLeast(raw, 0), eligible)
  BY DEF CouponDiscount
<1> HIDE DEF raw
<1> QED BY <1>2, <1>3 DEF AtMost, AtLeast

\* The lines of one order: how many of each variant, at which price row.
Lines(q, rows) ==
    /\ IsFiniteSet(DOMAIN q)
    /\ DOMAIN rows = DOMAIN q
    /\ \A v \in DOMAIN q : q[v] \in Nat /\ Priced(rows[v])

LEMMA LinesAmounts ==
    ASSUME NEW q, NEW rows, Lines(q, rows)
    PROVE  /\ Amounts(q, Lists(rows)) /\ Amounts(q, Discounts(rows))
           /\ Amounts(q, Taxes(rows)) /\ Amounts(q, Prices(rows))
<1>1. \A v \in DOMAIN q : /\ Breakdown(rows[v]).list \in Nat /\ Breakdown(rows[v]).discount \in Nat
                          /\ Breakdown(rows[v]).tax \in Nat /\ Breakdown(rows[v]).total \in Nat
  BY BreakdownParts DEF Lines
<1> QED BY <1>1 DEF Amounts, Lines, Lists, Discounts, Taxes, Prices, ListPrice

LEMMA SumsType ==
    ASSUME NEW q, NEW rows, Lines(q, rows)
    PROVE  /\ Subtotal(q, rows) \in Int /\ Discount(q, rows) \in Int /\ Tax(q, rows) \in Int
           /\ CartTotal(q, rows) \in Int /\ Eligible(q, rows) \in Int
<1>1. /\ Subtotal(q, rows) \in Int /\ Discount(q, rows) \in Int /\ Tax(q, rows) \in Int
      /\ CartTotal(q, rows) \in Int
  BY LinesAmounts, LineSumType DEF Subtotal, Discount, Tax, CartTotal
<1> QED BY <1>1 DEF Eligible

\* An order never costs more than the cart showed for the same lines, and with
\* no oversized discount in it just as much.
LEMMA OrderAgainstCart ==
    ASSUME NEW q, NEW rows, Lines(q, rows)
    PROVE  /\ Eligible(q, rows) + Tax(q, rows) <= CartTotal(q, rows)
           /\ (\A v \in DOMAIN q : ~Oversized(rows[v])) =>
                 /\ Eligible(q, rows) + Tax(q, rows) = CartTotal(q, rows)
                 /\ 0 <= Eligible(q, rows)
<1> DEFINE withTax == [v \in DOMAIN q |-> Lists(rows)[v] + Taxes(rows)[v]]
           withDiscount == [v \in DOMAIN q |-> Prices(rows)[v] + Discounts(rows)[v]]
<1>1. /\ Amounts(q, Lists(rows)) /\ Amounts(q, Discounts(rows))
      /\ Amounts(q, Taxes(rows)) /\ Amounts(q, Prices(rows))
  BY LinesAmounts
<1>2. Amounts(q, withTax) /\ Amounts(q, withDiscount)
  BY <1>1 DEF Amounts
<1>3. LineSum(q, withTax) = Subtotal(q, rows) + Tax(q, rows)
  BY <1>1, <1>2, LineSumAdd DEF Subtotal, Tax
<1>4. LineSum(q, withDiscount) = CartTotal(q, rows) + Discount(q, rows)
  BY <1>1, <1>2, LineSumAdd DEF CartTotal, Discount
<1>5. \A v \in DOMAIN q :
          /\ Lists(rows)[v] = Breakdown(rows[v]).list /\ Taxes(rows)[v] = Breakdown(rows[v]).tax
          /\ Discounts(rows)[v] = Breakdown(rows[v]).discount
          /\ Prices(rows)[v] = Breakdown(rows[v]).total
  BY DEF Lines, Lists, Taxes, Discounts, Prices, ListPrice
<1>6. \A v \in DOMAIN q : withTax[v] <= withDiscount[v]
  <2> SUFFICES ASSUME NEW v \in DOMAIN q PROVE withTax[v] <= withDiscount[v]
    OBVIOUS
  <2> DEFINE b == Breakdown(rows[v])
  <2>1. /\ b.list \in Nat /\ b.discount \in Nat /\ b.tax \in Nat /\ b.total \in Nat
        /\ b.list - b.discount + b.tax <= b.total
    BY BreakdownParts DEF Lines
  <2> HIDE DEF b
  <2>2. withTax[v] = b.list + b.tax /\ withDiscount[v] = b.total + b.discount
    BY <1>5 DEF b
  <2> QED BY <2>1, <2>2
<1>7. LineSum(q, withTax) <= LineSum(q, withDiscount)
  BY <1>2, <1>6, LineSumMonotone
<1>8. Eligible(q, rows) + Tax(q, rows) <= CartTotal(q, rows)
  BY <1>3, <1>4, <1>7, SumsType DEF Eligible
<1>9. ASSUME \A v \in DOMAIN q : ~Oversized(rows[v])
      PROVE  /\ Eligible(q, rows) + Tax(q, rows) = CartTotal(q, rows)
             /\ 0 <= Eligible(q, rows)
  <2>1. \A v \in DOMAIN q : /\ withDiscount[v] <= withTax[v]
                            /\ Discounts(rows)[v] <= Lists(rows)[v]
    <3> SUFFICES ASSUME NEW v \in DOMAIN q
                 PROVE  withDiscount[v] <= withTax[v] /\ Discounts(rows)[v] <= Lists(rows)[v]
      OBVIOUS
    <3> DEFINE b == Breakdown(rows[v])
    <3>1. /\ b.list \in Nat /\ b.discount \in Nat /\ b.tax \in Nat /\ b.total \in Nat
          /\ b.discount <= b.list /\ b.list - b.discount + b.tax = b.total
      BY <1>9, BreakdownParts DEF Lines
    <3> HIDE DEF b
    <3>2. /\ withTax[v] = b.list + b.tax /\ withDiscount[v] = b.total + b.discount
          /\ Discounts(rows)[v] = b.discount /\ Lists(rows)[v] = b.list
      BY <1>5 DEF b
    <3> QED BY <3>1, <3>2
  <2>2. LineSum(q, withDiscount) <= LineSum(q, withTax)
    BY <1>2, <2>1, LineSumMonotone
  <2>3. Discount(q, rows) <= Subtotal(q, rows)
    BY <1>1, <2>1, LineSumMonotone DEF Discount, Subtotal
  <2>4. Subtotal(q, rows) + Tax(q, rows) = CartTotal(q, rows) + Discount(q, rows)
    <3>1. LineSum(q, withDiscount) \in Int /\ LineSum(q, withTax) \in Int
      BY <1>2, LineSumType
    <3> QED BY <1>3, <1>4, <1>7, <2>2, <3>1
  <2> QED BY <2>3, <2>4, SumsType DEF Eligible
<1> QED BY <1>8, <1>9

(***************************************************************************)
(* The catalogue.                                                          *)
(***************************************************************************)

\* An upload whose file is stored names a stored file.
UploadInv == \A a \in Admins : task[a].op = "uploaded" => task[a].image \in stored

CatalogueInv == CatalogueTypeOK /\ UploadInv /\ UploadedImageIsStored

ProductRow == [status  : LifecycleStatus \cup {"NONE"}, deleted : BOOLEAN,
               image   : Images \cup {NoImage, "link", "demo"}]

VariantRow == [product : Products \cup {NoProduct}, active : BOOLEAN,
               row     : VariantRows \cup {SeedRow}]

\* What each kind of task carries.
LEMMA TaskShape ==
    ASSUME CatalogueTypeOK, NEW a \in Admins
    PROVE  /\ task[a] \in Task
           /\ task[a].op \in {"createProduct", "createVariant", "updateProduct", "upload",
                              "uploaded", "linkImage", "deleteProduct"}
                => task[a].product \in Products
           /\ task[a].op \in {"createProduct", "createVariant"} => task[a].variant \in Variants
           /\ task[a].op = "updateProduct" => task[a].status \in LifecycleStatus
           /\ task[a].op \in {"upload", "uploaded"} => task[a].image \in Images
<1>1. task[a] \in Task
  BY DEF CatalogueTypeOK
<1> QED BY <1>1 DEF Task, NoTask

LEMMA InitCatalogue == CatalogueInit => CatalogueInv
<1> SUFFICES ASSUME CatalogueInit PROVE CatalogueInv
  OBVIOUS
<1> USE CatalogueAssumption DEF CatalogueInit
<1>1. product \in [Products -> ProductRow]
  BY DEF ProductRow, LifecycleStatus
<1>2. variant \in [Variants -> VariantRow]
  <2> DEFINE owners(v) == {p \in Products : v \in SeedVariants[p]}
             owner(v) == IF owners(v) = {} THEN NoProduct ELSE CHOOSE p \in owners(v) : TRUE
  <2>1. \A v \in Variants : owner(v) \in Products \cup {NoProduct}
    OBVIOUS
  <2>2. variant = [v \in Variants |-> [product |-> owner(v), active |-> TRUE, row |-> SeedRow]]
    OBVIOUS
  <2> HIDE DEF owner
  <2> QED BY <2>1, <2>2 DEF VariantRow
<1>3. stored \subseteq Images /\ task \in [Admins -> Task]
  BY DEF Task
<1>4. UploadInv
  BY DEF UploadInv, NoTask
<1>5. UploadedImageIsStored
  BY DEF UploadedImageIsStored
<1> QED BY <1>1, <1>2, <1>3, <1>4, <1>5 DEF CatalogueInv, CatalogueTypeOK, ProductRow, VariantRow

\* Beginning or ending a task, with the tables as they were.
LEMMA StepTask ==
    ASSUME CatalogueInv, NEW a \in Admins, NEW t \in Task, t.op # "uploaded",
           task' = [task EXCEPT ![a] = t], UNCHANGED <<product, variant, stored>>
    PROVE  CatalogueInv'
<1>1. CatalogueTypeOK'
  BY DEF CatalogueInv, CatalogueTypeOK
<1>2. UploadInv'
  BY DEF CatalogueInv, CatalogueTypeOK, UploadInv
<1> QED BY <1>1, <1>2 DEF CatalogueInv, UploadedImageIsStored

\* A task's row is written, and the task is over: the image is the one there,
\* none of the uploaded ones, or a stored one.
LEMMA StepCommit ==
    ASSUME CatalogueInv, NEW a \in Admins, Finish(a), UNCHANGED stored,
           product' \in [Products -> ProductRow], variant' \in [Variants -> VariantRow],
           \A p \in Products : product'[p].image \in {product[p].image, NoImage, "link", "demo"} \cup stored
    PROVE  CatalogueInv'
<1> USE CatalogueAssumption DEF CatalogueInv, Finish
<1>1. CatalogueTypeOK'
  BY DEF CatalogueTypeOK, Task, ProductRow, VariantRow
<1>2. UploadInv'
  BY DEF CatalogueTypeOK, UploadInv, NoTask
<1>3. UploadedImageIsStored'
  BY DEF UploadedImageIsStored
<1> QED BY <1>1, <1>2, <1>3

LEMMA StepCatalogue ==
    ASSUME CatalogueInv, CatalogueNext
    PROVE  CatalogueInv'
<1>0. /\ CatalogueTypeOK
      /\ product \in [Products -> ProductRow] /\ variant \in [Variants -> VariantRow]
      /\ stored \subseteq Images /\ task \in [Admins -> Task]
  BY DEF CatalogueInv, CatalogueTypeOK, ProductRow, VariantRow
<1>1. ASSUME NEW a \in Admins, BeginTask(a) PROVE CatalogueInv'
  <2>1. PICK p \in Products :
            \/ \E v \in Variants : BeginCreateProduct(a, p, v) \/ BeginCreateVariant(a, p, v)
            \/ \E s \in LifecycleStatus : BeginUpdateProduct(a, p, s)
            \/ \E i \in Images : BeginUploadImage(a, p, i)
            \/ BeginLinkImage(a, p)
            \/ BeginDeleteProduct(a, p)
    BY <1>1 DEF BeginTask
  <2>2. \E t \in Task : t.op # "uploaded" /\ Begin(a, t)
    <3>1. ASSUME NEW v \in Variants, BeginCreateProduct(a, p, v) \/ BeginCreateVariant(a, p, v)
          PROVE  \E t \in Task : t.op # "uploaded" /\ Begin(a, t)
      <4>1. \A o \in {"createProduct", "createVariant"} :
                [op |-> o, product |-> p, variant |-> v] \in Task
        BY DEF Task
      <4> QED BY <3>1, <4>1 DEF BeginCreateProduct, BeginCreateVariant
    <3>2. ASSUME NEW s \in LifecycleStatus, BeginUpdateProduct(a, p, s)
          PROVE  \E t \in Task : t.op # "uploaded" /\ Begin(a, t)
      <4>1. [op |-> "updateProduct", product |-> p, status |-> s] \in Task
        BY DEF Task
      <4> QED BY <3>2, <4>1 DEF BeginUpdateProduct
    <3>3. ASSUME NEW i \in Images, BeginUploadImage(a, p, i)
          PROVE  \E t \in Task : t.op # "uploaded" /\ Begin(a, t)
      <4>1. [op |-> "upload", product |-> p, image |-> i] \in Task
        BY DEF Task
      <4> QED BY <3>3, <4>1 DEF BeginUploadImage
    <3>4. ASSUME BeginLinkImage(a, p) \/ BeginDeleteProduct(a, p)
          PROVE  \E t \in Task : t.op # "uploaded" /\ Begin(a, t)
      <4>1. \A o \in {"linkImage", "deleteProduct"} : [op |-> o, product |-> p] \in Task
        BY DEF Task
      <4> QED BY <3>4, <4>1 DEF BeginLinkImage, BeginDeleteProduct
    <3> QED BY <2>1, <3>1, <3>2, <3>3, <3>4
  <2> QED BY <1>0, <2>2, StepTask DEF Begin
<1>2. ASSUME NEW a \in Admins, CommitCreateProduct(a) PROVE CatalogueInv'
  <2>1. task[a].product \in Products /\ task[a].variant \in Variants
    BY <1>0, <1>2, TaskShape DEF CommitCreateProduct
  <2>2. PICK image \in {NoImage, "link"} :
            product' = [product EXCEPT ![task[a].product].status = "DRAFT",
                                       ![task[a].product].image = image]
    BY <1>2 DEF CommitCreateProduct
  <2>3. /\ product' \in [Products -> ProductRow]
        /\ \A p \in Products : product'[p].image \in {product[p].image, NoImage, "link"}
    BY <1>0, <2>1, <2>2 DEF ProductRow, LifecycleStatus
  <2>4. variant' \in [Variants -> VariantRow]
    BY <1>0, <1>2, <2>1 DEF CommitCreateProduct, CreateVariantRow, VariantRow
  <2> QED BY <1>2, <2>3, <2>4, StepCommit DEF CommitCreateProduct
<1>3. ASSUME NEW a \in Admins, CommitCreateVariant(a) PROVE CatalogueInv'
  <2>1. task[a].product \in Products /\ task[a].variant \in Variants
    BY <1>0, <1>3, TaskShape DEF CommitCreateVariant
  <2>2. variant' \in [Variants -> VariantRow]
    BY <1>0, <1>3, <2>1 DEF CommitCreateVariant, CreateVariantRow, VariantRow
  <2> QED BY <1>0, <1>3, <2>2, StepCommit DEF CommitCreateVariant
<1>4. ASSUME NEW a \in Admins, Collide(a) \/ AbandonTask(a) PROVE CatalogueInv'
  BY <1>0, <1>4, StepCommit DEF Collide, AbandonTask
<1>5. ASSUME NEW a \in Admins,
             CommitUpdateProduct(a) \/ CommitLinkImage(a) \/ CommitDeleteProduct(a)
      PROVE  CatalogueInv'
  <2>1. /\ task[a].product \in Products
        /\ CommitUpdateProduct(a) => task[a].status \in LifecycleStatus
    BY <1>0, <1>5, TaskShape DEF CommitUpdateProduct, CommitLinkImage, CommitDeleteProduct
  <2>2. /\ product' \in [Products -> ProductRow]
        /\ \A p \in Products : product'[p].image \in {product[p].image, "link"}
    <3>1. CASE CommitUpdateProduct(a)
      BY <1>0, <2>1, <3>1 DEF CommitUpdateProduct, ProductRow
    <3>2. CASE CommitLinkImage(a)
      BY <1>0, <2>1, <3>2 DEF CommitLinkImage, ProductRow
    <3>3. CASE CommitDeleteProduct(a)
      <4> DEFINE p == task[a].product
                 row == [product[p] EXCEPT !.deleted = TRUE, !.status = "RETIRED"]
      <4>1. row \in ProductRow /\ row.image = product[p].image
        BY <1>0, <2>1 DEF ProductRow, LifecycleStatus
      <4>2. product' = [product EXCEPT ![p] = row]
        BY <1>0, <2>1, <3>3 DEF CommitDeleteProduct, ProductRow
      <4> HIDE DEF row
      <4> QED BY <1>0, <2>1, <4>1, <4>2
    <3> QED BY <1>5, <3>1, <3>2, <3>3
  <2>3. Finish(a) /\ UNCHANGED <<variant, stored>>
    BY <1>5 DEF CommitUpdateProduct, CommitLinkImage, CommitDeleteProduct
  <2> QED BY <1>0, <2>2, <2>3, StepCommit
<1>6. ASSUME NEW a \in Admins, StoreImage(a) PROVE CatalogueInv'
  <2>1. /\ task[a] \in [op : {"upload", "uploaded"}, product : Products, image : Images]
        /\ stored' = stored \cup {task[a].image} /\ UNCHANGED <<product, variant>>
        /\ task' = [task EXCEPT ![a] = [@ EXCEPT !.op = "uploaded"]]
    BY <1>0, <1>6 DEF StoreImage, Task, NoTask
  <2>2. task'[a] \in [op : {"upload", "uploaded"}, product : Products, image : Images]
        /\ task'[a].image = task[a].image
    BY <1>0, <2>1
  <2>3. CatalogueTypeOK'
    <3>1. task' \in [Admins -> Task]
      BY <1>0, <2>1, <2>2 DEF Task
    <3> QED BY <1>0, <2>1, <3>1 DEF CatalogueTypeOK
  <2>4. UploadInv'
    BY <1>0, <2>1, <2>2 DEF CatalogueInv, UploadInv
  <2> QED BY <2>1, <2>3, <2>4 DEF CatalogueInv, UploadedImageIsStored
<1>7. ASSUME NEW a \in Admins, CommitUploadImage(a) PROVE CatalogueInv'
  <2>1. task[a].product \in Products /\ task[a].image \in Images /\ task[a].image \in stored
    BY <1>0, <1>7, TaskShape DEF CommitUploadImage, CatalogueInv, UploadInv
  <2>2. /\ product' \in [Products -> ProductRow]
        /\ \A p \in Products : product'[p].image \in {product[p].image} \cup stored
    BY <1>0, <1>7, <2>1 DEF CommitUploadImage, ProductRow
  <2> QED BY <1>0, <1>7, <2>2, StepCommit DEF CommitUploadImage
<1>8. CASE VariantEdit \/ \E p \in Products : Reseed(p)
  <2>1. task' = task /\ stored' = stored
    BY <1>8 DEF VariantEdit, UpdateVariant, DeactivateVariant, Reseed
  <2>2. /\ product' \in [Products -> ProductRow]
        /\ \A p \in Products : product'[p].image \in {product[p].image, "demo"}
    BY <1>0, <1>8 DEF VariantEdit, UpdateVariant, DeactivateVariant, Reseed, ProductRow
  <2>3. variant' \in [Variants -> VariantRow]
    <3>1. ASSUME NEW v \in Variants, NEW row \in VariantRows, NEW active \in BOOLEAN,
                 UpdateVariant(v, row, active)
          PROVE  variant' \in [Variants -> VariantRow]
      <4> DEFINE between == [variant EXCEPT ![v].row = row]
      <4>1. between \in [Variants -> VariantRow]
        BY <1>0 DEF VariantRow
      <4>2. variant' = [between EXCEPT ![v].active = active]
        BY <3>1 DEF UpdateVariant
      <4> HIDE DEF between
      <4> QED BY <4>1, <4>2 DEF VariantRow
    <3>2. ASSUME NEW v \in Variants, DeactivateVariant(v)
          PROVE  variant' \in [Variants -> VariantRow]
      BY <1>0, <3>2 DEF DeactivateVariant, VariantRow
    <3>3. ASSUME NEW p \in Products, Reseed(p) PROVE variant' = variant
      BY <3>3 DEF Reseed
    <3> QED BY <1>0, <1>8, <3>1, <3>2, <3>3 DEF VariantEdit
  <2>4. CatalogueTypeOK' /\ UploadInv'
    BY <1>0, <2>1, <2>2, <2>3 DEF CatalogueInv, CatalogueTypeOK, UploadInv, ProductRow, VariantRow
  <2>5. UploadedImageIsStored'
    BY <2>1, <2>2, CatalogueAssumption DEF CatalogueInv, UploadedImageIsStored
  <2> QED BY <2>4, <2>5 DEF CatalogueInv
<1> QED BY <1>1, <1>2, <1>3, <1>4, <1>5, <1>6, <1>7, <1>8 DEF CatalogueNext, CommitTask

LEMMA CatalogueInvariant == CatalogueSpec => []CatalogueInv
<1>1. CatalogueInv /\ [CatalogueNext]_catalogueVars => CatalogueInv'
  <2>1. CatalogueInv /\ UNCHANGED catalogueVars => CatalogueInv'
    BY DEF catalogueVars, CatalogueInv, CatalogueTypeOK, UploadInv, UploadedImageIsStored
  <2> QED BY <2>1, StepCatalogue
<1> QED BY <1>1, InitCatalogue, PTL DEF CatalogueSpec

\* Every variable keeps its type.
THEOREM CatalogueTypes == CatalogueSpec => []CatalogueTypeOK
<1>1. CatalogueInv => CatalogueTypeOK
  BY DEF CatalogueInv
<1> QED BY <1>1, CatalogueInvariant, PTL

\* No interleaving of uploads, abandoned uploads and other edits leaves a
\* product with an uploaded picture that the storage provider does not have.
THEOREM ImagesExist == CatalogueSpec => []UploadedImageIsStored
<1>1. CatalogueInv => UploadedImageIsStored
  BY DEF CatalogueInv
<1> QED BY <1>1, CatalogueInvariant, PTL

\* No edit that was under way when a product was deleted brings it, or one of
\* its variants, back on sale.
THEOREM DeletedStaysDeleted == CatalogueSpec => DeletedStaysOffShelf
<1> DEFINE Off == \A p \in Products :
                     product[p].deleted =>
                       /\ product'[p].deleted
                       /\ ~Listed(p)'
                       /\ \A v \in Variants : variant'[v].product = p => ~Sellable(v)'
<1>1. ASSUME CatalogueInv, CatalogueNext PROVE Off
  <2>0. CatalogueTypeOK /\ product \in [Products -> ProductRow]
    BY <1>1 DEF CatalogueInv, CatalogueTypeOK, ProductRow
  <2>1. \A p \in Products : product[p].deleted => product'[p].deleted
    <3>1. CASE product' = product
      BY <3>1
    <3>2. ASSUME NEW a \in Admins, CommitTask(a)
          PROVE  \A p \in Products : product[p].deleted => product'[p].deleted
      BY <2>0, <3>2 DEF CommitTask, CommitCreateProduct, CommitCreateVariant, Collide,
            CommitUpdateProduct, CommitLinkImage, StoreImage, CommitUploadImage,
            CommitDeleteProduct, ProductRow
    <3>3. ASSUME NEW q \in Products, Reseed(q)
          PROVE  \A p \in Products : product[p].deleted => product'[p].deleted
      BY <2>0, <3>3 DEF Reseed, ProductRow
    <3>4. (\E a \in Admins : BeginTask(a) \/ AbandonTask(a)) \/ VariantEdit => product' = product
      BY DEF BeginTask, BeginCreateProduct, BeginCreateVariant, BeginUpdateProduct,
             BeginUploadImage, BeginLinkImage, BeginDeleteProduct, Begin, AbandonTask,
             VariantEdit, UpdateVariant, DeactivateVariant
    <3> QED BY <1>1, <3>1, <3>2, <3>3, <3>4 DEF CatalogueNext
  <2> QED BY <2>1 DEF Listed, Sellable
<1>2. CatalogueInv /\ [CatalogueNext]_catalogueVars => [Off]_catalogueVars
  BY <1>1
<1> QED BY <1>2, CatalogueInvariant, PTL DEF CatalogueSpec, DeletedStaysOffShelf
=============================================================================
