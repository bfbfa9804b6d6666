---------------------------- MODULE MCSettlement ----------------------------
(***************************************************************************)
(* Small instances of Settlement for TLC.                                  *)
(***************************************************************************)
EXTENDS Settlement, TLC

CONSTANTS e1, e2, e3, e4, r1, r2, j1, j2

\* The same payment reported under two event ids.
MCTwoPaid    == (e1 :> "paid") @@ (e2 :> "paid")
MCOnePaid    == (e1 :> "paid")

\* A report of the payment, an earlier one that comes late, and one about
\* something else.
MCThreeEvents == (e1 :> "paid") @@ (e3 :> "authorized") @@ (e4 :> "foreign")
MCTwoEvents   == (e1 :> "paid") @@ (e3 :> "authorized")

\* Calls of createRefund are interchangeable, and so are deliveries of the job.
Symmetry == Permutations({r1, r2}) \cup Permutations({j1, j2})
=============================================================================
