------------------------------ MODULE Purchase ------------------------------
(***************************************************************************)
(* What a purchase promises the customer, and nothing of how: the price is *)
(* taken once; money only goes back to somebody who has paid, once, never  *)
(* more than the price, and is announced once; how the order ended is told *)
(* once, to somebody who has paid and has not been given money back.       *)
(***************************************************************************)
EXTENDS Naturals

CONSTANT Price

VARIABLES
  paid,       \* the price has been taken
  returned,   \* how much of it has been given back
  announced,  \* how many times the customer was told of a refund
  closing     \* how many times of a completed order, and of a failed one

purchaseVars == <<paid, returned, announced, closing>>

Nothing == [completed |-> 0, failed |-> 0]

Init == paid = FALSE /\ returned = 0 /\ announced = 0 /\ closing = Nothing

Pay ==
  /\ ~paid
  /\ paid' = TRUE
  /\ UNCHANGED <<returned, announced, closing>>

GiveBack ==
  /\ paid
  /\ returned = 0
  /\ returned' \in 1 .. Price
  /\ UNCHANGED <<paid, announced, closing>>

Announce ==
  /\ returned > 0
  /\ announced = 0
  /\ announced' = 1
  /\ UNCHANGED <<paid, returned, closing>>

Close(how) ==
  /\ paid
  /\ returned = 0
  /\ closing = Nothing
  /\ closing' = [closing EXCEPT ![how] = 1]
  /\ UNCHANGED <<paid, returned, announced>>

Next == Pay \/ GiveBack \/ Announce \/ \E how \in {"completed", "failed"} : Close(how)

Spec == Init /\ [][Next]_purchaseVars
=============================================================================
