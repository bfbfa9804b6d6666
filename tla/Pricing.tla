------------------------------ MODULE Pricing ------------------------------
(***************************************************************************)
(* What an order costs: the pure functions of packages/contracts and the   *)
(* sums the checkout builds from them.  Every amount is an integer number  *)
(* of minor units and every rate an integer number of basis points.  A     *)
(* price row is the part of a ProductVariant the price depends on.         *)
(***************************************************************************)
EXTENDS Integers, FiniteSetsExt

BasisPoints == 10000

(* What the DTOs and the seed script let into a price row.                 *)
Priced(row) == {row.cost, row.margin, row.discount, row.taxRate} \subseteq Nat

(* Math.round of a / BasisPoints: halves go up, for negative numbers too.  *)
RoundedShare(a) == (2 * a + BasisPoints) \div (2 * BasisPoints)

AtLeast(x, y) == IF x < y THEN y ELSE x
AtMost(x, y)  == IF x > y THEN y ELSE x

(* computePriceBreakdown.  The discount it reports is the row's own, even  *)
(* when it is larger than the list price it is taken from.                 *)
Breakdown(row) ==
    LET list     == row.cost + RoundedShare(row.cost * row.margin)
        after    == AtLeast(list - row.discount, 0)
        tax      == RoundedShare(after * row.taxRate)
    IN  [list |-> list, discount |-> row.discount, tax |-> tax,
         total |-> after + tax]

(* The price the storefront shows for a variant.                           *)
ListPrice(row) == Breakdown(row).total

(* computeCouponDiscountMinorUnits.                                        *)
MutantCouponDiscount(type, value, eligible) ==
    AtLeast(IF type = "percentage" THEN RoundedShare(eligible * value) ELSE value, 0)

CouponDiscount(type, value, eligible) ==
    LET raw == IF type = "percentage" THEN RoundedShare(eligible * value) ELSE value
    IN  AtMost(AtLeast(raw, 0), eligible)

(* The three running sums of CheckoutService.checkout over the lines of a  *)
(* request: quantity maps the variants asked for to how many, rows maps    *)
(* them to the price rows the checkout read.                               *)
LineSum(quantity, price) ==
    MapThenSumSet(LAMBDA v : quantity[v] * price[v], DOMAIN quantity)

Lists(rows)     == [v \in DOMAIN rows |-> Breakdown(rows[v]).list]
Discounts(rows) == [v \in DOMAIN rows |-> Breakdown(rows[v]).discount]
Taxes(rows)     == [v \in DOMAIN rows |-> Breakdown(rows[v]).tax]
Prices(rows)    == [v \in DOMAIN rows |-> ListPrice(rows[v])]

Subtotal(quantity, rows) == LineSum(quantity, Lists(rows))
Discount(quantity, rows) == LineSum(quantity, Discounts(rows))
Tax(quantity, rows)      == LineSum(quantity, Taxes(rows))

Eligible(quantity, rows) == Subtotal(quantity, rows) - Discount(quantity, rows)

OrderTotal(quantity, rows, couponDiscount) ==
    Subtotal(quantity, rows) - (Discount(quantity, rows) + couponDiscount)
      + Tax(quantity, rows)

(* cartTotal: what the cart and the checkout page show for the same lines. *)
CartTotal(quantity, rows) == LineSum(quantity, Prices(rows))

(* The rows whose discount the order's sums take in full although the      *)
(* item's own total stops at zero.                                         *)
Oversized(row) == row.discount > Breakdown(row).list
=============================================================================
