--------------------------- MODULE MCFulfillment ---------------------------
(***************************************************************************)
(* Small instances of Fulfillment for TLC.                                 *)
(***************************************************************************)
EXTENDS Fulfillment, TLC

CONSTANTS o1, i1, i2, d1, d2, c1, c2

\* One job, delivered twice, for an order of two items.
MCOneOrder == (i1 :> o1) @@ (i2 :> o1)
MCOneJob   == (d1 :> o1) @@ (d2 :> o1)

\* Two deliveries of a job are interchangeable, two items that both need a code,
\* and the codes.
Symmetry == Permutations({d1, d2}) \cup Permutations({i1, i2}) \cup Permutations({c1, c2})
=============================================================================
