-------------------------- MODULE Fulfillment_proofs --------------------------
(***************************************************************************)
(* Fulfillment, for any orders, items, codes and deliveries, however many  *)
(* of them overlap or die: the pool of codes is in order, sold codes stay  *)
(* with their buyers, and nothing counts as delivered that was not.  And   *)
(* of an order whose deliveries came one at a time: an item that SUCCEEDED *)
(* has its code, and stays what it is.                                     *)
(***************************************************************************)
EXTENDS Fulfillment, TLAPS

PoolType ==
  /\ codeStatus \in [Codes -> {"AVAILABLE", "RESERVED", "SOLD"}]
  /\ codeFor \in [Codes -> CodeItems \cup {None}]

\* What a delivery may rely on where it stands.
WorkInv ==
  \A d \in Deliveries :
    /\ pc[d] \in {"reserving", "calling", "settling", "releasing", "marking"} => item[d] \in Items
    /\ pc[d] = "reserving" => item[d] \in CodeItems
    /\ pc[d] = "settling" => verdict[d] \in Answers
    /\ pc[d] = "settling" /\ verdict[d] = "succeeded" => Key(d) \in performed
    /\ pc[d] \in {"releasing", "marking"} => verdict[d] \in {"FAILED", "MANUAL_REVIEW"}
    /\ pc[d] \in {"deciding", "closing"} => verdict[d] \in OrderStatus

FulfillmentInv == TypeOK /\ WorkInv /\ PoolInOrder /\ NothingClaimedUndelivered

ConstantFacts ==
  /\ OrderOf \in [Items -> Orders] /\ CodeItems \subseteq Items
  /\ OrderOfJob \in [Deliveries -> Orders]
  /\ None \notin Items \cup Answers \cup FulfillmentStatus \cup OrderStatus

LEMMA Constants == ConstantFacts
BY OrderOfAssumption, CodeItemsAssumption, OrderOfJobAssumption, NoneAssumption DEF ConstantFacts

LEMMA InitFulfillment == Init => FulfillmentInv
<1> SUFFICES ASSUME Init PROVE FulfillmentInv
  OBVIOUS
<1> USE Constants DEF ConstantFacts, Init
<1>1. TypeOK
  BY DEF TypeOK, OrderStatus, FulfillmentStatus, Keys
<1>2. WorkInv
  BY DEF WorkInv
<1>3. PoolInOrder
  BY DEF PoolInOrder
<1>4. NothingClaimedUndelivered
  BY DEF NothingClaimedUndelivered, OrderStatus
<1> QED BY <1>1, <1>2, <1>3, <1>4 DEF FulfillmentInv

\* Everything of a delivery is reset when it stops.
LEMMA StopShape ==
  ASSUME TypeOK, WorkInv, NEW d \in Deliveries, Stop(d), performed \subseteq performed'
  PROVE  /\ pc' \in [Deliveries -> {"idle", "picking", "visiting", "reserving", "calling",
                            "settling", "releasing", "marking", "deciding", "closing", "ended"}]
         /\ todo' \in [Deliveries -> SUBSET Items]
         /\ seen' \in [Deliveries -> [Items -> Nat]]
         /\ item' \in [Deliveries -> Items \cup {None}]
         /\ verdict' \in [Deliveries -> Answers \cup FulfillmentStatus \cup OrderStatus \cup {None}]
         /\ readStatus' \in [Deliveries -> OrderStatus \cup {None}]
         /\ WorkInv'
         /\ verdict'[d] = None /\ \A e \in Deliveries : e # d => verdict'[e] = verdict[e]
<1>1. pc' = [pc EXCEPT ![d] = "ended"] /\ item' = [item EXCEPT ![d] = None]
      /\ verdict' = [verdict EXCEPT ![d] = None] /\ todo' = [todo EXCEPT ![d] = {}]
      /\ seen' = [seen EXCEPT ![d] = [i \in Items |-> 0]]
      /\ readStatus' = [readStatus EXCEPT ![d] = None]
  BY DEF Stop
<1>2. \A e \in Deliveries : e # d =>
         pc'[e] = pc[e] /\ item'[e] = item[e] /\ verdict'[e] = verdict[e] /\ seen'[e] = seen[e]
  BY <1>1 DEF TypeOK
<1>3. pc'[d] = "ended" /\ verdict'[d] = None
  BY <1>1 DEF TypeOK
<1>4. WorkInv'
  BY <1>2, <1>3 DEF WorkInv, Key
<1> QED BY <1>1, <1>2, <1>3, <1>4 DEF TypeOK

\* The catch block records what it will write once the code is released.
LEMMA CatchShape ==
  ASSUME TypeOK, WorkInv, NEW d \in Deliveries, NEW v \in {"FAILED", "MANUAL_REVIEW"},
         Catch(d, v), pc[d] \in {"reserving", "calling", "settling"},
         item' = item, seen' = seen, performed \subseteq performed'
  PROVE  /\ pc' \in [Deliveries -> {"idle", "picking", "visiting", "reserving", "calling",
                            "settling", "releasing", "marking", "deciding", "closing", "ended"}]
         /\ verdict' \in [Deliveries -> Answers \cup FulfillmentStatus \cup OrderStatus \cup {None}]
         /\ WorkInv'
         /\ verdict'[d] = v /\ \A e \in Deliveries : e # d => verdict'[e] = verdict[e]
<1>1. PICK p \in {"releasing", "marking"} : pc' = [pc EXCEPT ![d] = p]
  BY DEF Catch
<1>2. verdict' = [verdict EXCEPT ![d] = v] /\ v \in FulfillmentStatus
  BY DEF Catch, FulfillmentStatus
<1>3. pc'[d] = p /\ verdict'[d] = v
      /\ \A e \in Deliveries : e # d => pc'[e] = pc[e] /\ verdict'[e] = verdict[e]
  BY <1>1, <1>2 DEF TypeOK
<1>4. WorkInv'
  BY <1>3 DEF WorkInv, Key
<1> QED BY <1>1, <1>2, <1>3, <1>4 DEF TypeOK

\* A delivery that goes on to its next item has forgotten the last.
LEMMA NextItemShape ==
  ASSUME TypeOK, WorkInv, NEW d \in Deliveries, NEW s \in FulfillmentStatus, NextItem(d, s),
         item[d] \in Items, seen' = seen, performed' = performed
  PROVE  /\ pc' \in [Deliveries -> {"idle", "picking", "visiting", "reserving", "calling",
                            "settling", "releasing", "marking", "deciding", "closing", "ended"}]
         /\ fulfillment' \in [Items -> FulfillmentStatus]
         /\ item' \in [Deliveries -> Items \cup {None}]
         /\ verdict' \in [Deliveries -> Answers \cup FulfillmentStatus \cup OrderStatus \cup {None}]
         /\ WorkInv'
         /\ verdict'[d] = None /\ \A e \in Deliveries : e # d => verdict'[e] = verdict[e]
         /\ fulfillment'[item[d]] = s
         /\ \A i \in Items : i # item[d] => fulfillment'[i] = fulfillment[i]
<1>1. /\ fulfillment' = [fulfillment EXCEPT ![item[d]] = s]
      /\ pc' = [pc EXCEPT ![d] = "visiting"]
      /\ item' = [item EXCEPT ![d] = None]
      /\ verdict' = [verdict EXCEPT ![d] = None]
  BY DEF NextItem
<1>2. /\ pc'[d] = "visiting" /\ verdict'[d] = None
      /\ \A e \in Deliveries : e # d =>
            pc'[e] = pc[e] /\ verdict'[e] = verdict[e] /\ item'[e] = item[e]
  BY <1>1 DEF TypeOK
<1>3. WorkInv'
  BY <1>2 DEF WorkInv, Key
<1> QED BY <1>1, <1>2, <1>3 DEF TypeOK

-----------------------------------------------------------------------------
\* The pool.

\* A reservation takes a free code for an item that has none.
LEMMA ReservePool ==
  ASSUME TypeOK, WorkInv, PoolInOrder, NEW d \in Deliveries, Reserve(d)
  PROVE  /\ PoolType' /\ PoolInOrder'
         /\ \A c \in Codes : codeStatus'[c] = "SOLD" =>
               codeStatus[c] = "SOLD" /\ codeFor'[c] = codeFor[c]
         /\ \A c \in Codes : codeStatus[c] = "SOLD" =>
               codeStatus'[c] = "SOLD" /\ codeFor'[c] = codeFor[c]
<1>1. CASE UNCHANGED codeVars
  BY <1>1 DEF codeVars, TypeOK, PoolType, PoolInOrder
<1>2. CASE ~UNCHANGED codeVars
  <2>1. /\ pc[d] = "reserving" /\ HeldBy(item[d]) = {}
        /\ \E c \in Free : /\ codeStatus' = [codeStatus EXCEPT ![c] = "RESERVED"]
                           /\ codeFor' = [codeFor EXCEPT ![c] = item[d]]
    BY <1>2 DEF Reserve
  <2>2. PICK c \in Free : /\ codeStatus' = [codeStatus EXCEPT ![c] = "RESERVED"]
                          /\ codeFor' = [codeFor EXCEPT ![c] = item[d]]
    BY <2>1
  <2>3. c \in Codes /\ codeStatus[c] = "AVAILABLE"
    BY DEF Free
  <2>4. item[d] \in CodeItems /\ item[d] # None
    BY <2>1, Constants DEF WorkInv, ConstantFacts
  <2>5. PoolType'
    BY <2>2, <2>3, <2>4 DEF TypeOK, PoolType
  <2>6. codeStatus'[c] = "RESERVED" /\ codeFor'[c] = item[d]
        /\ \A k \in Codes : k # c => codeStatus'[k] = codeStatus[k] /\ codeFor'[k] = codeFor[k]
    BY <2>2, <2>3 DEF TypeOK
  <2>7. \A k \in Codes : codeFor[k] # item[d]
    BY <2>1 DEF HeldBy
  <2>8. PoolInOrder'
    BY <2>4, <2>6, <2>7 DEF PoolInOrder
  <2> QED BY <2>3, <2>5, <2>6, <2>8
<1> QED BY <1>1, <1>2

\* A release frees the code reserved for its item and no other.
LEMMA ReleasePool ==
  ASSUME TypeOK, PoolInOrder, NEW i \in Items, ReleaseCode(i)
  PROVE  /\ PoolType' /\ PoolInOrder'
         /\ \A c \in Codes : codeStatus'[c] = "SOLD" =>
               codeStatus[c] = "SOLD" /\ codeFor'[c] = codeFor[c]
         /\ \A c \in Codes : codeStatus[c] = "SOLD" =>
               codeStatus'[c] = "SOLD" /\ codeFor'[c] = codeFor[c]
<1>1. \A c \in Codes : c \in Reserved(i) => codeStatus[c] = "RESERVED" /\ codeFor[c] = i
  BY DEF Reserved, HeldBy
<1>2. \A c \in Codes :
         /\ codeStatus'[c] = IF c \in Reserved(i) THEN "AVAILABLE" ELSE codeStatus[c]
         /\ codeFor'[c] = IF c \in Reserved(i) THEN None ELSE codeFor[c]
  BY DEF ReleaseCode
<1>3. PoolType'
  <2>1. codeStatus' \in [Codes -> {"AVAILABLE", "RESERVED", "SOLD"}]
    BY DEF ReleaseCode, TypeOK
  <2>2. codeFor' \in [Codes -> CodeItems \cup {None}]
    BY DEF ReleaseCode, TypeOK
  <2> QED BY <2>1, <2>2 DEF PoolType
<1>4. PoolInOrder'
  BY <1>1, <1>2 DEF PoolInOrder
<1> QED BY <1>1, <1>2, <1>3, <1>4

\* A sale sells the code reserved for its item and no other.
LEMMA SellPool ==
  ASSUME TypeOK, PoolInOrder, NEW i \in Items, Sell(i)
  PROVE  /\ PoolType' /\ PoolInOrder'
         /\ \A c \in Codes : codeStatus'[c] = "SOLD" =>
               codeFor'[c] = codeFor[c] /\ (codeStatus[c] = "SOLD" \/ codeFor[c] = i)
         /\ \A c \in Codes : codeStatus[c] = "SOLD" =>
               codeStatus'[c] = "SOLD" /\ codeFor'[c] = codeFor[c]
<1>1. \A c \in Codes : c \in Reserved(i) => codeStatus[c] = "RESERVED" /\ codeFor[c] = i
  BY DEF Reserved, HeldBy
<1>2. codeFor' = codeFor
      /\ \A c \in Codes : codeStatus'[c] = IF c \in Reserved(i) THEN "SOLD" ELSE codeStatus[c]
  BY DEF Sell
<1>3. PoolType'
  <2>1. codeStatus' \in [Codes -> {"AVAILABLE", "RESERVED", "SOLD"}]
    BY DEF Sell, TypeOK
  <2> QED BY <1>2, <2>1 DEF TypeOK, PoolType
<1>4. PoolInOrder'
  BY <1>1, <1>2 DEF PoolInOrder
<1> QED BY <1>1, <1>2, <1>3, <1>4

-----------------------------------------------------------------------------
\* What was delivered.

\* The provider never takes a delivery back, so a step that claims nothing new
\* keeps every claim true.
LEMMA ClaimsKept ==
  ASSUME TypeOK, NothingClaimedUndelivered, performed \subseteq performed',
         \A c \in Codes : codeStatus'[c] = "SOLD" =>
            codeFor'[c] = codeFor[c] /\ (codeStatus[c] = "SOLD" \/ Delivered(codeFor[c])),
         \A i \in Items : fulfillment'[i] = "SUCCEEDED" =>
            fulfillment[i] = "SUCCEEDED" \/ Delivered(i),
         \A d \in Deliveries : verdict'[d] = "COMPLETED" =>
            verdict[d] = "COMPLETED" \/ \A i \in ItemsOf(OrderOfJob[d]) : Delivered(i)
  PROVE  NothingClaimedUndelivered'
<1>1. ASSUME NEW i, Delivered(i) PROVE Delivered(i)'
  BY <1>1 DEF Delivered
<1>2. ASSUME NEW c \in Codes, codeStatus'[c] = "SOLD" PROVE \E k \in performed' : k[1] = codeFor'[c]
  BY <1>2 DEF NothingClaimedUndelivered, Delivered
<1>3. ASSUME NEW i \in Items, fulfillment'[i] = "SUCCEEDED" PROVE Delivered(i)'
  BY <1>1, <1>3 DEF NothingClaimedUndelivered
<1>4. ASSUME NEW d \in Deliveries, verdict'[d] = "COMPLETED"
      PROVE  \A i \in ItemsOf(OrderOfJob[d]) : Delivered(i)'
  BY <1>1, <1>4 DEF NothingClaimedUndelivered
<1> QED BY <1>2, <1>3, <1>4 DEF NothingClaimedUndelivered, Delivered, ItemsOf

-----------------------------------------------------------------------------
\* One lemma per step of a delivery.

LEMMA StepBegin ==
  ASSUME FulfillmentInv, NEW d \in Deliveries, Begin(d) \/ Decline(d) \/ PickUp(d)
  PROVE  FulfillmentInv'
<1> USE DEF FulfillmentInv
<1>1. UNCHANGED <<rowVars, codeVars, transactions, performed>>
  BY DEF Begin, Decline, PickUp
<1>2. /\ \A e \in Deliveries : verdict'[e] = "COMPLETED" => verdict[e] = "COMPLETED"
      /\ TypeOK' /\ WorkInv'
  <2>1. CASE Begin(d)
    <3> DEFINE o == OrderOfJob[d]
               found == {i \in ItemsOf(o) : fulfillment[i] \in Unresolved}
               counts == [i \in Items |-> IF i \in found THEN attemptCount[i] ELSE 0]
    <3>1. PICK p \in {"visiting", "picking"} : pc' = [pc EXCEPT ![d] = p]
      BY <2>1 DEF Begin
    <3>2. todo' = [todo EXCEPT ![d] = found] /\ found \in SUBSET Items
      BY <2>1 DEF Begin, ItemsOf
    <3>3. todo'[d] = found
      BY <3>2 DEF TypeOK
    <3>4. seen' = [seen EXCEPT ![d] = counts]
      BY <2>1, <3>3 DEF Begin
    <3>5. counts \in [Items -> Nat]
      BY DEF TypeOK
    <3>6. o \in Orders
      BY Constants DEF ConstantFacts
    <3>7. overlapped' \in {overlapped, overlapped \cup {o}}
      BY <2>1 DEF Begin
    <3>8. UNCHANGED <<orderStatus, item, verdict, readStatus>>
      BY <2>1 DEF Begin
    <3> HIDE DEF found, counts, o
    <3>9. TypeOK'
      BY <1>1, <3>1, <3>2, <3>4, <3>5, <3>6, <3>7, <3>8 DEF TypeOK, rowVars, codeVars
    <3>10. /\ pc'[d] = p
           /\ \A e \in Deliveries : e # d => pc'[e] = pc[e] /\ seen'[e] = seen[e]
      BY <3>1, <3>4 DEF TypeOK
    <3>11. WorkInv'
      BY <1>1, <3>8, <3>10 DEF WorkInv, Key
    <3> QED BY <3>8, <3>9, <3>11
  <2>2. CASE Decline(d)
    <3>1. Stop(d) /\ UNCHANGED <<orderStatus, overlapped>>
      BY <2>2 DEF Decline
    <3>2. TypeOK' /\ WorkInv' /\ verdict'[d] = None
          /\ \A e \in Deliveries : e # d => verdict'[e] = verdict[e]
      BY <1>1, <3>1, StopShape DEF TypeOK, rowVars, codeVars
    <3> QED BY <3>2, Constants DEF ConstantFacts, OrderStatus
  <2>3. CASE PickUp(d) /\ Stop(d)
    <3>1. orderStatus' \in [Orders -> OrderStatus] /\ overlapped' = overlapped
      BY <2>3 DEF PickUp, Move, Refused, TypeOK, OrderStatus
    <3>2. TypeOK' /\ WorkInv' /\ verdict'[d] = None
          /\ \A e \in Deliveries : e # d => verdict'[e] = verdict[e]
      BY <1>1, <2>3, <3>1, StopShape DEF TypeOK, rowVars, codeVars
    <3> QED BY <3>2, Constants DEF ConstantFacts, OrderStatus
  <2>4. CASE PickUp(d) /\ ~Stop(d)
    <3>1. /\ orderStatus' \in [Orders -> OrderStatus] /\ overlapped' = overlapped
          /\ pc' = [pc EXCEPT ![d] = "visiting"]
          /\ UNCHANGED <<todo, seen, item, verdict, readStatus>>
      BY <2>4 DEF PickUp, Move, Refused, TypeOK, OrderStatus
    <3>2. TypeOK'
      BY <1>1, <3>1 DEF TypeOK, rowVars, codeVars
    <3>3. pc'[d] = "visiting" /\ \A e \in Deliveries : e # d => pc'[e] = pc[e]
      BY <3>1 DEF TypeOK
    <3>4. WorkInv'
      BY <1>1, <3>1, <3>3 DEF WorkInv, Key
    <3> QED BY <3>1, <3>2, <3>4
  <2> QED BY <2>1, <2>2, <2>3, <2>4
<1>3. PoolInOrder'
  BY <1>1 DEF codeVars, PoolInOrder
<1>4. NothingClaimedUndelivered'
  BY <1>1, <1>2, ClaimsKept DEF rowVars, codeVars
<1> QED BY <1>2, <1>3, <1>4

LEMMA StepVisit ==
  ASSUME FulfillmentInv, NEW d \in Deliveries, NEW i \in Items, SkipItem(d, i) \/ TryItem(d, i)
  PROVE  FulfillmentInv'
<1> USE DEF FulfillmentInv
<1>1. PICK s \in {"MANUAL_REVIEW", "IN_PROGRESS"} : fulfillment' = [fulfillment EXCEPT ![i] = s]
  BY DEF SkipItem, TryItem
<1>2. /\ todo' = [todo EXCEPT ![d] = @ \ {i}]
      /\ attemptCount' \in {attemptCount, [attemptCount EXCEPT ![i] = @ + 1]}
      /\ UNCHANGED <<orderStatus, codeVars, transactions, performed, seen, verdict, readStatus,
                     overlapped>>
  BY DEF SkipItem, TryItem
<1>3. PICK p \in {"visiting", "reserving", "calling"}, j \in Items \cup {None} :
          /\ pc' = [pc EXCEPT ![d] = p] /\ item' = [item EXCEPT ![d] = j]
          /\ p \in {"reserving", "calling"} => j \in Items
          /\ p = "reserving" => j \in CodeItems
  <2>1. CASE SkipItem(d, i)
    <3>1. pc' = [pc EXCEPT ![d] = "visiting"] /\ item' = [item EXCEPT ![d] = item[d]]
      BY <2>1 DEF SkipItem, TypeOK
    <3> QED BY <3>1 DEF TypeOK
  <2>2. CASE TryItem(d, i)
    BY <2>2 DEF TryItem
  <2> QED BY <2>1, <2>2
<1>4. TypeOK'
  <2>1. fulfillment' \in [Items -> FulfillmentStatus]
    BY <1>1 DEF TypeOK, FulfillmentStatus
  <2>2. attemptCount' \in [Items -> Nat]
    BY <1>2 DEF TypeOK
  <2>3. todo' \in [Deliveries -> SUBSET Items]
    BY <1>2 DEF TypeOK
  <2> QED BY <1>2, <1>3, <2>1, <2>2, <2>3 DEF TypeOK, codeVars
<1>5. WorkInv'
  <2>1. pc'[d] = p /\ item'[d] = j
        /\ \A e \in Deliveries : e # d => pc'[e] = pc[e] /\ item'[e] = item[e]
    BY <1>3 DEF TypeOK
  <2> QED BY <1>2, <1>3, <2>1 DEF WorkInv, Key
<1>6. PoolInOrder'
  BY <1>2 DEF codeVars, PoolInOrder
<1>7. \A k \in Items : fulfillment'[k] = "SUCCEEDED" => fulfillment[k] = "SUCCEEDED"
  BY <1>1 DEF TypeOK
<1>8. NothingClaimedUndelivered'
  BY <1>2, <1>7, ClaimsKept DEF codeVars
<1> QED BY <1>4, <1>5, <1>6, <1>8

LEMMA StepReserve ==
  ASSUME FulfillmentInv, NEW d \in Deliveries, Reserve(d)
  PROVE  FulfillmentInv'
<1> USE DEF FulfillmentInv
<1>1. /\ UNCHANGED <<orderStatus, rowVars, transactions, performed, todo, seen, item,
                     readStatus, overlapped>>
      /\ pc[d] = "reserving"
  BY DEF Reserve
<1>2. /\ pc' \in [Deliveries -> {"idle", "picking", "visiting", "reserving", "calling",
                            "settling", "releasing", "marking", "deciding", "closing", "ended"}]
      /\ verdict' \in [Deliveries -> Answers \cup FulfillmentStatus \cup OrderStatus \cup {None}]
      /\ WorkInv'
      /\ \A e \in Deliveries : verdict'[e] = "COMPLETED" => verdict[e] = "COMPLETED"
  <2>1. CASE Catch(d, "FAILED")
    BY <1>1, <2>1, CatchShape
  <2>2. CASE ~Catch(d, "FAILED")
    <3>1. \/ pc' = [pc EXCEPT ![d] = "calling"] /\ verdict' = verdict
          \/ pc' = [pc EXCEPT ![d] = "marking"] /\ verdict' = [verdict EXCEPT ![d] = "MANUAL_REVIEW"]
      BY <2>2 DEF Reserve
    <3>2. CASE pc' = [pc EXCEPT ![d] = "calling"] /\ verdict' = verdict
      <4>1. pc'[d] = "calling" /\ \A e \in Deliveries : e # d => pc'[e] = pc[e]
        BY <3>2 DEF TypeOK
      <4>2. WorkInv'
        BY <1>1, <3>2, <4>1 DEF WorkInv, Key
      <4> QED BY <3>2, <4>2 DEF TypeOK
    <3>3. CASE pc' = [pc EXCEPT ![d] = "marking"]
               /\ verdict' = [verdict EXCEPT ![d] = "MANUAL_REVIEW"]
      <4>1. /\ pc'[d] = "marking" /\ verdict'[d] = "MANUAL_REVIEW"
            /\ \A e \in Deliveries : e # d => pc'[e] = pc[e] /\ verdict'[e] = verdict[e]
        BY <3>3 DEF TypeOK
      <4>2. WorkInv'
        BY <1>1, <4>1 DEF WorkInv, Key
      <4> QED BY <3>3, <4>1, <4>2 DEF TypeOK, FulfillmentStatus
    <3> QED BY <3>1, <3>2, <3>3
  <2> QED BY <2>1, <2>2
<1>3. /\ PoolType' /\ PoolInOrder'
      /\ \A c \in Codes : codeStatus'[c] = "SOLD" => codeStatus[c] = "SOLD" /\ codeFor'[c] = codeFor[c]
  BY ReservePool
<1>4. TypeOK'
  BY <1>1, <1>2, <1>3 DEF TypeOK, PoolType, rowVars
<1>5. NothingClaimedUndelivered'
  BY <1>1, <1>2, <1>3, ClaimsKept DEF rowVars
<1> QED BY <1>2, <1>3, <1>4, <1>5

LEMMA StepCall ==
  ASSUME FulfillmentInv, NEW d \in Deliveries, Call(d)
  PROVE  FulfillmentInv'
<1> USE DEF FulfillmentInv
<1>1. /\ UNCHANGED <<orderStatus, rowVars, codeVars, transactions, todo, seen, item,
                     readStatus, overlapped>>
      /\ pc[d] = "calling" /\ performed' \in {performed, performed \cup {Key(d)}}
  BY DEF Call, MayDeliver
<1>2. performed' \subseteq Keys /\ performed \subseteq performed'
  <2>1. item[d] \in Items /\ seen[d] \in [Items -> Nat]
    BY <1>1 DEF TypeOK, WorkInv
  <2>2. Key(d) \in Keys
    BY <2>1 DEF Key, Keys
  <2> QED BY <1>1, <2>2 DEF TypeOK
<1>3. /\ pc' \in [Deliveries -> {"idle", "picking", "visiting", "reserving", "calling",
                            "settling", "releasing", "marking", "deciding", "closing", "ended"}]
      /\ verdict' \in [Deliveries -> Answers \cup FulfillmentStatus \cup OrderStatus \cup {None}]
      /\ WorkInv'
      /\ \A e \in Deliveries : verdict'[e] = "COMPLETED" => verdict[e] = "COMPLETED"
  <2>1. CASE Catch(d, "FAILED") \/ Catch(d, "MANUAL_REVIEW")
    BY <1>1, <1>2, <2>1, CatchShape
  <2>2. CASE ~(Catch(d, "FAILED") \/ Catch(d, "MANUAL_REVIEW"))
    <3>1. PICK answer \in Answers : /\ answer = "succeeded" => Key(d) \in performed'
                                    /\ verdict' = [verdict EXCEPT ![d] = answer]
                                    /\ pc' = [pc EXCEPT ![d] = "settling"]
      BY <2>2 DEF Call
    <3>2. /\ pc'[d] = "settling" /\ verdict'[d] = answer
          /\ \A e \in Deliveries : e # d => pc'[e] = pc[e] /\ verdict'[e] = verdict[e]
      BY <3>1 DEF TypeOK
    <3>3. WorkInv'
      BY <1>1, <1>2, <3>1, <3>2 DEF WorkInv, Key
    <3> QED BY <3>1, <3>2, <3>3 DEF TypeOK, Answers
  <2> QED BY <2>1, <2>2
<1>4. TypeOK'
  BY <1>1, <1>2, <1>3 DEF TypeOK, rowVars, codeVars
<1>5. PoolInOrder'
  BY <1>1 DEF codeVars, PoolInOrder
<1>6. NothingClaimedUndelivered'
  BY <1>1, <1>2, <1>3, ClaimsKept DEF rowVars, codeVars
<1> QED BY <1>3, <1>4, <1>5, <1>6

\* The transaction that stores the answer, and the steps that follow when it
\* or the call has failed.
LEMMA StepSettle ==
  ASSUME FulfillmentInv, NEW d \in Deliveries, Settle(d)
  PROVE  FulfillmentInv'
<1> USE DEF FulfillmentInv
<1>1. /\ UNCHANGED <<orderStatus, attemptCount, performed, todo, seen, readStatus, overlapped>>
      /\ pc[d] = "settling" /\ item[d] \in Items /\ transactions' = transactions \cup {Key(d)}
  BY DEF Settle, WorkInv
<1>2. transactions' \subseteq Keys
  <2>1. seen[d] \in [Items -> Nat] /\ Key(d) \in Keys
    BY <1>1 DEF TypeOK, Key, Keys
  <2> QED BY <1>1, <2>1 DEF TypeOK
<1>3. PICK s \in {"SUCCEEDED", "MANUAL_REVIEW", "FAILED"} :
         /\ NextItem(d, s)
         /\ s = "SUCCEEDED" => verdict[d] = "succeeded"
         /\ \/ Sell(item[d]) /\ s = "SUCCEEDED"
            \/ ReleaseCode(item[d])
            \/ UNCHANGED codeVars
  BY DEF Settle
<1>4. s \in FulfillmentStatus
  BY DEF FulfillmentStatus
<1>5. /\ pc' \in [Deliveries -> {"idle", "picking", "visiting", "reserving", "calling",
                            "settling", "releasing", "marking", "deciding", "closing", "ended"}]
      /\ fulfillment' \in [Items -> FulfillmentStatus]
      /\ item' \in [Deliveries -> Items \cup {None}]
      /\ verdict' \in [Deliveries -> Answers \cup FulfillmentStatus \cup OrderStatus \cup {None}]
      /\ WorkInv'
      /\ verdict'[d] = None /\ \A e \in Deliveries : e # d => verdict'[e] = verdict[e]
      /\ fulfillment'[item[d]] = s
      /\ \A i \in Items : i # item[d] => fulfillment'[i] = fulfillment[i]
  BY <1>1, <1>3, <1>4, NextItemShape
<1>6. s = "SUCCEEDED" => Delivered(item[d])
  <2>1. ASSUME s = "SUCCEEDED" PROVE Key(d) \in performed
    BY <1>1, <1>3, <2>1 DEF WorkInv
  <2> QED BY <2>1 DEF Delivered, Key
<1>7. /\ PoolType' /\ PoolInOrder'
      /\ \A c \in Codes : codeStatus'[c] = "SOLD" =>
            codeFor'[c] = codeFor[c]
              /\ (codeStatus[c] = "SOLD" \/ (codeFor[c] = item[d] /\ s = "SUCCEEDED"))
  <2>1. CASE Sell(item[d]) /\ s = "SUCCEEDED"
    BY <1>1, <2>1, SellPool
  <2>2. CASE ReleaseCode(item[d])
    BY <1>1, <2>2, ReleasePool
  <2>3. CASE UNCHANGED codeVars
    BY <2>3 DEF codeVars, PoolType, PoolInOrder, TypeOK
  <2> QED BY <1>3, <2>1, <2>2, <2>3
<1>8. TypeOK'
  BY <1>1, <1>2, <1>5, <1>7 DEF TypeOK, PoolType
<1>9. NothingClaimedUndelivered'
  <2>1. \A c \in Codes : codeStatus'[c] = "SOLD" =>
           codeFor'[c] = codeFor[c] /\ (codeStatus[c] = "SOLD" \/ Delivered(codeFor[c]))
    BY <1>6, <1>7
  <2>2. \A i \in Items : fulfillment'[i] = "SUCCEEDED" => fulfillment[i] = "SUCCEEDED" \/ Delivered(i)
    BY <1>5, <1>6
  <2>3. \A e \in Deliveries : verdict'[e] = "COMPLETED" => verdict[e] = "COMPLETED"
    BY <1>5, Constants DEF ConstantFacts, OrderStatus
  <2> QED BY <1>1, <2>1, <2>2, <2>3, ClaimsKept
<1> QED BY <1>5, <1>7, <1>8, <1>9

LEMMA StepFailed ==
  ASSUME FulfillmentInv, NEW d \in Deliveries, SettleThrows(d) \/ Release(d) \/ Mark(d)
  PROVE  FulfillmentInv'
<1> USE DEF FulfillmentInv
<1>1. CASE SettleThrows(d)
  <2>1. /\ UNCHANGED <<orderStatus, rowVars, codeVars, transactions, performed, todo, seen,
                       item, readStatus, overlapped>>
        /\ pc[d] = "settling" /\ Catch(d, "FAILED")
    BY <1>1 DEF SettleThrows
  <2>2. TypeOK' /\ WorkInv' /\ verdict'[d] = "FAILED"
        /\ \A e \in Deliveries : e # d => verdict'[e] = verdict[e]
    BY <2>1, CatchShape DEF TypeOK, rowVars, codeVars
  <2>3. PoolInOrder'
    BY <2>1 DEF codeVars, PoolInOrder
  <2>4. \A e \in Deliveries : verdict'[e] = "COMPLETED" => verdict[e] = "COMPLETED"
    BY <2>2
  <2>5. NothingClaimedUndelivered'
    BY <2>1, <2>4, ClaimsKept DEF rowVars, codeVars
  <2> QED BY <2>2, <2>3, <2>5
<1>2. CASE Release(d)
  <2>1. /\ UNCHANGED <<orderStatus, rowVars, transactions, performed, todo, seen, item, verdict,
                       readStatus, overlapped>>
        /\ pc[d] = "releasing" /\ item[d] \in Items
        /\ pc' = [pc EXCEPT ![d] = "marking"] /\ ReleaseCode(item[d])
    BY <1>2 DEF Release, WorkInv
  <2>2. /\ PoolType' /\ PoolInOrder'
        /\ \A c \in Codes : codeStatus'[c] = "SOLD" => codeStatus[c] = "SOLD" /\ codeFor'[c] = codeFor[c]
    BY <2>1, ReleasePool
  <2>3. TypeOK'
    BY <2>1, <2>2 DEF TypeOK, PoolType, rowVars
  <2>4. pc'[d] = "marking" /\ \A e \in Deliveries : e # d => pc'[e] = pc[e]
    BY <2>1 DEF TypeOK
  <2>5. WorkInv'
    BY <2>1, <2>4 DEF WorkInv, Key
  <2>6. NothingClaimedUndelivered'
    BY <2>1, <2>2, ClaimsKept DEF rowVars
  <2> QED BY <2>2, <2>3, <2>5, <2>6
<1>3. CASE Mark(d)
  <2>1. /\ UNCHANGED <<orderStatus, attemptCount, codeVars, transactions, performed, todo, seen,
                       readStatus, overlapped>>
        /\ pc[d] = "marking" /\ item[d] \in Items /\ NextItem(d, verdict[d])
        /\ verdict[d] \in {"FAILED", "MANUAL_REVIEW"}
    BY <1>3 DEF Mark, WorkInv
  <2>2. verdict[d] \in FulfillmentStatus
    BY <2>1 DEF FulfillmentStatus
  <2>3. TypeOK' /\ WorkInv' /\ verdict'[d] = None
        /\ (\A e \in Deliveries : e # d => verdict'[e] = verdict[e])
        /\ fulfillment'[item[d]] = verdict[d]
        /\ \A i \in Items : i # item[d] => fulfillment'[i] = fulfillment[i]
    BY <2>1, <2>2, NextItemShape DEF TypeOK, codeVars
  <2>4. PoolInOrder'
    BY <2>1 DEF codeVars, PoolInOrder
  <2>5. \A e \in Deliveries : verdict'[e] = "COMPLETED" => verdict[e] = "COMPLETED"
    BY <2>3, Constants DEF ConstantFacts, OrderStatus
  <2>6. \A i \in Items : fulfillment'[i] = "SUCCEEDED" => fulfillment[i] = "SUCCEEDED"
    BY <2>1, <2>3
  <2>7. NothingClaimedUndelivered'
    BY <2>1, <2>5, <2>6, ClaimsKept DEF codeVars
  <2> QED BY <2>3, <2>4, <2>7
<1> QED BY <1>1, <1>2, <1>3

\* Finalisation: it is for COMPLETED only when every item has SUCCEEDED.
LEMMA StepFinalise ==
  ASSUME FulfillmentInv, NEW d \in Deliveries, Judge(d) \/ Decide(d) \/ Close(d) \/ Crash(d)
  PROVE  FulfillmentInv'
<1> USE DEF FulfillmentInv
<1> DEFINE o == OrderOfJob[d]
<1>1. /\ UNCHANGED <<rowVars, codeVars, transactions, overlapped>>
      /\ performed \subseteq performed' /\ performed' \subseteq Keys
      /\ orderStatus' \in [Orders -> OrderStatus]
  <2>1. UNCHANGED <<rowVars, codeVars, transactions, overlapped>>
    BY DEF Judge, Decide, Close, Crash
  <2>2. performed' = performed \/ (pc[d] = "calling" /\ performed' = performed \cup {Key(d)})
    BY DEF Judge, Decide, Close, Crash, MayDeliver
  <2>3. ASSUME pc[d] = "calling" PROVE Key(d) \in Keys
    <3>1. item[d] \in Items /\ seen[d] \in [Items -> Nat]
      BY <2>3 DEF TypeOK, WorkInv
    <3> QED BY <3>1 DEF Key, Keys
  <2>4. orderStatus' \in [Orders -> OrderStatus]
    <3>1. CASE orderStatus' = orderStatus
      BY <3>1 DEF TypeOK
    <3>2. CASE orderStatus' # orderStatus
      <4>1. pc[d] = "closing" /\ orderStatus' = [orderStatus EXCEPT ![o] = verdict[d]]
        BY <3>2 DEF Judge, Decide, Close, Crash, Move, Refused
      <4>2. verdict[d] \in OrderStatus
        BY <4>1 DEF WorkInv
      <4> QED BY <4>1, <4>2 DEF TypeOK
    <3> QED BY <3>1, <3>2
  <2> QED BY <2>1, <2>2, <2>3, <2>4 DEF TypeOK
<1>2. /\ TypeOK' /\ WorkInv'
      /\ \A e \in Deliveries : verdict'[e] = "COMPLETED" =>
            verdict[e] = "COMPLETED" \/ \A i \in ItemsOf(OrderOfJob[e]) : fulfillment[i] = "SUCCEEDED"
  <2>1. CASE Stop(d)
    <3>1. TypeOK' /\ WorkInv' /\ verdict'[d] = None
          /\ \A e \in Deliveries : e # d => verdict'[e] = verdict[e]
      BY <1>1, <2>1, StopShape DEF TypeOK, rowVars, codeVars
    <3> QED BY <3>1, Constants DEF ConstantFacts, OrderStatus
  <2>2. CASE Judge(d) /\ ~Stop(d)
    <3>1. /\ UNCHANGED <<performed, orderStatus, todo, seen, item, readStatus>>
          /\ verdict' = [verdict EXCEPT ![d] = Target(o)]
          /\ pc' = [pc EXCEPT ![d] = "deciding"]
      BY <2>2 DEF Judge
    <3>2. Target(o) \in OrderStatus
      BY DEF Target, OrderStatus
    <3>3. Target(o) = "COMPLETED" => \A i \in ItemsOf(o) : fulfillment[i] = "SUCCEEDED"
      BY DEF Target
    <3>4. /\ pc'[d] = "deciding" /\ verdict'[d] = Target(o)
          /\ \A e \in Deliveries : e # d => pc'[e] = pc[e] /\ verdict'[e] = verdict[e]
      BY <3>1 DEF TypeOK
    <3> HIDE DEF o
    <3>5. WorkInv'
      BY <3>1, <3>2, <3>4 DEF WorkInv, Key
    <3>6. TypeOK'
      BY <1>1, <3>1, <3>2 DEF TypeOK, rowVars, codeVars
    <3> QED BY <3>3, <3>4, <3>5, <3>6 DEF o
  <2>3. CASE Decide(d) /\ ~Stop(d)
    <3>1. /\ UNCHANGED <<performed, orderStatus, todo, seen, item, verdict>>
          /\ readStatus' = [readStatus EXCEPT ![d] = orderStatus[o]]
          /\ pc' = [pc EXCEPT ![d] = "closing"] /\ pc[d] = "deciding"
      BY <2>3 DEF Decide
    <3>2. orderStatus[o] \in OrderStatus
      BY Constants DEF ConstantFacts, TypeOK
    <3>3. pc'[d] = "closing" /\ \A e \in Deliveries : e # d => pc'[e] = pc[e]
      BY <3>1 DEF TypeOK
    <3>4. WorkInv'
      BY <3>1, <3>3 DEF WorkInv, Key
    <3>5. TypeOK'
      BY <1>1, <3>1, <3>2 DEF TypeOK, rowVars, codeVars
    <3> QED BY <3>1, <3>4, <3>5
  <2>4. Close(d) \/ Crash(d) => Stop(d)
    BY DEF Close, Refused, Crash
  <2> QED BY <2>1, <2>2, <2>3, <2>4
<1>3. PoolInOrder'
  BY <1>1 DEF codeVars, PoolInOrder
<1>4. \A e \in Deliveries : verdict'[e] = "COMPLETED" =>
         verdict[e] = "COMPLETED" \/ \A i \in ItemsOf(OrderOfJob[e]) : Delivered(i)
  BY <1>2 DEF NothingClaimedUndelivered, ItemsOf
<1>5. NothingClaimedUndelivered'
  BY <1>1, <1>4, ClaimsKept DEF rowVars, codeVars
<1> QED BY <1>2, <1>3, <1>5

\* The reconciliation and the administrators claim no delivery.
LEMMA StepOthers ==
  ASSUME FulfillmentInv,
         (\E i \in Items : Reconcile(i)) \/ (\E o \in Orders : Intervene(o))
  PROVE  FulfillmentInv'
<1> USE DEF FulfillmentInv
<1>1. /\ UNCHANGED <<attemptCount, codeVars, transactions, performed, jobVars, overlapped>>
  BY DEF Reconcile, Intervene, rowVars
<1>2. /\ fulfillment' \in [Items -> FulfillmentStatus]
      /\ \A i \in Items : fulfillment'[i] = "SUCCEEDED" => fulfillment[i] = "SUCCEEDED"
  BY DEF Reconcile, Intervene, rowVars, TypeOK, FulfillmentStatus
<1>3. orderStatus' \in [Orders -> OrderStatus]
  <2>1. ASSUME NEW o \in Orders, Intervene(o) PROVE orderStatus' \in [Orders -> OrderStatus]
    <3>1. PICK to \in AdminManualTransitions(orderStatus[o]) \cup {"REFUND_PENDING"} :
              orderStatus' = [orderStatus EXCEPT ![o] = to]
      BY <2>1 DEF Intervene
    <3>2. to \in OrderStatus
      BY DEF AdminManualTransitions, OrderStatus
    <3> QED BY <3>1, <3>2 DEF TypeOK
  <2>2. ASSUME NEW i \in Items, Reconcile(i) PROVE orderStatus' \in [Orders -> OrderStatus]
    BY <2>2 DEF Reconcile, TypeOK
  <2> QED BY <2>1, <2>2
<1>4. TypeOK' /\ WorkInv' /\ PoolInOrder'
  BY <1>1, <1>2, <1>3 DEF TypeOK, WorkInv, Key, PoolInOrder, codeVars, jobVars
<1>5. NothingClaimedUndelivered'
  BY <1>1, <1>2, ClaimsKept DEF codeVars, jobVars
<1> QED BY <1>4, <1>5

-----------------------------------------------------------------------------
LEMMA StepFulfillment == FulfillmentInv /\ [Next]_vars => FulfillmentInv'
<1> SUFFICES ASSUME FulfillmentInv, [Next]_vars PROVE FulfillmentInv'
  OBVIOUS
<1>1. CASE UNCHANGED vars
  BY <1>1 DEF vars, rowVars, codeVars, jobVars, FulfillmentInv, TypeOK, WorkInv, Key, PoolInOrder,
              NothingClaimedUndelivered, Delivered, ItemsOf
<1>2. ASSUME NEW d \in Deliveries, Delivery(d) \/ Crash(d) PROVE FulfillmentInv'
  BY <1>2, StepBegin, StepVisit, StepReserve, StepCall, StepSettle, StepFailed, StepFinalise
     DEF Delivery
<1>3. CASE (\E i \in Items : Reconcile(i)) \/ (\E o \in Orders : Intervene(o))
  BY <1>3, StepOthers
<1> QED BY <1>1, <1>2, <1>3 DEF Next

LEMMA FulfillmentInvariant == Spec => []FulfillmentInv
  BY InitFulfillment, StepFulfillment, PTL DEF Spec

\* Every variable keeps its type.
THEOREM FulfillmentTypes == Spec => []TypeOK
<1>1. FulfillmentInv => TypeOK
  BY DEF FulfillmentInv
<1> QED BY <1>1, FulfillmentInvariant, PTL

\* A code is free exactly when no item has it, and no item has two, whatever
\* deliveries of processFulfillmentJob overlap and wherever they die.
THEOREM PoolStaysInOrder == Spec => []PoolInOrder
<1>1. FulfillmentInv => PoolInOrder
  BY DEF FulfillmentInv
<1> QED BY <1>1, FulfillmentInvariant, PTL

\* No code is sold, no item counts as SUCCEEDED and no delivery decides for
\* COMPLETED unless the provider has delivered.
THEOREM OnlyDeliveredIsClaimed == Spec => []NothingClaimedUndelivered
<1>1. FulfillmentInv => NothingClaimedUndelivered
  BY DEF FulfillmentInv
<1> QED BY <1>1, FulfillmentInvariant, PTL

\* A code that was sold stays sold to the same item.
THEOREM SoldCodesStay == Spec => SoldForGood
<1> DEFINE Kept == \A c \in Codes : codeStatus[c] = "SOLD" =>
                      codeStatus'[c] = "SOLD" /\ codeFor'[c] = codeFor[c]
<1>1. ASSUME FulfillmentInv, Next PROVE Kept
  <2>1. CASE UNCHANGED codeVars
    BY <2>1 DEF codeVars
  <2>2. ASSUME NEW d \in Deliveries, Reserve(d) PROVE Kept
    BY <1>1, <2>2, ReservePool DEF FulfillmentInv
  <2>3. ASSUME NEW d \in Deliveries, Settle(d) \/ Release(d) PROVE Kept
    <3>1. item[d] \in Items
      BY <1>1, <2>3 DEF Settle, Release, FulfillmentInv, WorkInv
    <3>2. Sell(item[d]) \/ ReleaseCode(item[d]) \/ UNCHANGED codeVars
      BY <2>3 DEF Settle, Release
    <3> QED BY <1>1, <2>1, <3>1, <3>2, SellPool, ReleasePool DEF FulfillmentInv
  <2>4. \/ UNCHANGED codeVars
        \/ \E d \in Deliveries : Reserve(d) \/ Settle(d) \/ Release(d)
    BY <1>1 DEF Next, Delivery, Begin, Decline, PickUp, SkipItem, TryItem, Call, SettleThrows,
                Mark, Judge, Decide, Close, Crash, Reconcile, Intervene
  <2> QED BY <2>1, <2>2, <2>3, <2>4
<1>2. FulfillmentInv /\ [Next]_vars => [Kept]_vars
  BY <1>1
<1> QED BY <1>2, FulfillmentInvariant, PTL DEF Spec, SoldForGood

-----------------------------------------------------------------------------
(***************************************************************************)
(* One delivery at a time.  An order's deliveries may die and be replaced  *)
(* any number of times; as long as no two are at work at once, a delivery  *)
(* is the only one that writes to its items.                               *)
(***************************************************************************)
InHand == {"reserving", "calling", "settling", "releasing", "marking"}

Solo ==
  \A d, e \in Deliveries :
    AtWork(d) /\ AtWork(e) /\ OrderOfJob[d] = OrderOfJob[e] /\ OrderOfJob[d] \notin overlapped
      => d = e

\* The items of a delivery are its order's, and it takes up each of them once.
WorkList(d) ==
  /\ todo[d] \subseteq ItemsOf(OrderOfJob[d])
  /\ ~AtWork(d) => todo[d] = {}
  /\ pc[d] \in InHand => item[d] \in ItemsOf(OrderOfJob[d]) \ todo[d]

\* What it has still to do is not done, and it calls the provider with a code
\* in hand.
Unfinished(d) ==
  /\ \A i \in todo[d] : fulfillment[i] # "SUCCEEDED"
  /\ pc[d] \in InHand => fulfillment[item[d]] # "SUCCEEDED"
  /\ pc[d] \in {"calling", "settling"} /\ item[d] \in CodeItems => HeldBy(item[d]) # {}

ServedWithCode(o) ==
  \A i \in CodeItems : OrderOf[i] = o /\ fulfillment[i] = "SUCCEEDED" =>
    \E c \in HeldBy(i) : codeStatus[c] = "SOLD"

AloneInv ==
  /\ Solo
  /\ \A d \in Deliveries : WorkList(d) /\ (OrderOfJob[d] \notin overlapped => Unfinished(d))
  /\ \A o \in Orders \ overlapped : ServedWithCode(o)

LEMMA InitAlone == Init => AloneInv
BY Constants DEF Init, AloneInv, Solo, WorkList, Unfinished, ServedWithCode, AtWork, InHand, ConstantFacts

\* A step of a delivery at work touches its own work list, the items of its
\* order and their codes; another delivery sees that only if it overlaps.
LEMMA AloneStep ==
  ASSUME FulfillmentInv, AloneInv, NEW d \in Deliveries, AtWork(d), overlapped' = overlapped,
         \A e \in Deliveries : e # d => pc'[e] = pc[e] /\ todo'[e] = todo[e] /\ item'[e] = item[e],
         \A i \in Items : OrderOf[i] # OrderOfJob[d] =>
            fulfillment'[i] = fulfillment[i] /\ HeldBy(i) \subseteq HeldBy(i)',
         \A c \in Codes : codeStatus[c] = "SOLD" => codeStatus'[c] = "SOLD",
         WorkList(d)',
         OrderOfJob[d] \notin overlapped => Unfinished(d)' /\ ServedWithCode(OrderOfJob[d])'
  PROVE  AloneInv'
<1> DEFINE o == OrderOfJob[d]
<1>1. \A e \in Deliveries : AtWork(e)' => AtWork(e)
  BY DEF AtWork
<1>2. Solo'
  BY <1>1 DEF Solo, AloneInv
<1>3. ASSUME NEW e \in Deliveries, e # d
      PROVE  WorkList(e)' /\ (OrderOfJob[e] \notin overlapped' => Unfinished(e)')
  <2>1. WorkList(e) /\ (OrderOfJob[e] \notin overlapped => Unfinished(e))
    BY DEF AloneInv
  <2>2. WorkList(e)'
    BY <1>3, <2>1 DEF WorkList, AtWork, ItemsOf
  <2>3. ASSUME OrderOfJob[e] \notin overlapped PROVE Unfinished(e)'
    <3>1. CASE AtWork(e)
      <4>1. OrderOfJob[e] # o
        BY <1>3, <2>3, <3>1 DEF AloneInv, Solo
      <4>2. \A i \in ItemsOf(OrderOfJob[e]) :
               fulfillment'[i] = fulfillment[i] /\ HeldBy(i) \subseteq HeldBy(i)'
        BY <4>1 DEF ItemsOf
      <4>3. \A i \in todo[e] : fulfillment'[i] # "SUCCEEDED"
        BY <2>1, <2>3, <4>2 DEF WorkList, Unfinished
      <4>4. ASSUME pc[e] \in InHand
            PROVE  /\ fulfillment'[item[e]] # "SUCCEEDED"
                   /\ pc[e] \in {"calling", "settling"} /\ item[e] \in CodeItems =>
                         {c \in Codes : codeFor'[c] = item[e]} # {}
        <5>1. item[e] \in ItemsOf(OrderOfJob[e]) /\ fulfillment[item[e]] # "SUCCEEDED"
          BY <2>1, <2>3, <4>4 DEF WorkList, Unfinished
        <5>2. HeldBy(item[e]) \subseteq {c \in Codes : codeFor'[c] = item[e]}
          BY <4>2, <5>1 DEF HeldBy
        <5>3. fulfillment'[item[e]] # "SUCCEEDED"
          BY <4>2, <5>1
        <5> QED BY <2>1, <2>3, <5>2, <5>3 DEF Unfinished
      <4> QED BY <1>3, <4>3, <4>4 DEF Unfinished, InHand, HeldBy
    <3>2. CASE ~AtWork(e)
      BY <1>3, <2>1, <3>2 DEF WorkList, Unfinished, AtWork, InHand
    <3> QED BY <3>1, <3>2
  <2> QED BY <2>2, <2>3
<1>4. ASSUME NEW p \in Orders \ overlapped', p # o PROVE ServedWithCode(p)'
  <2>1. ServedWithCode(p)
    BY DEF AloneInv
  <2>2. ASSUME NEW i \in CodeItems, OrderOf[i] = p, fulfillment'[i] = "SUCCEEDED"
        PROVE  \E c \in HeldBy(i)' : codeStatus'[c] = "SOLD"
    <3>1. i \in Items
      BY Constants DEF ConstantFacts
    <3>2. fulfillment[i] = "SUCCEEDED" /\ HeldBy(i) \subseteq HeldBy(i)'
      BY <1>4, <2>2, <3>1
    <3>3. PICK c \in HeldBy(i) : codeStatus[c] = "SOLD"
      BY <2>1, <2>2, <3>2 DEF ServedWithCode
    <3> QED BY <3>2, <3>3 DEF HeldBy
  <2> QED BY <2>2 DEF ServedWithCode
<1>5. ASSUME NEW p \in Orders \ overlapped' PROVE ServedWithCode(p)'
  BY <1>4
<1> QED BY <1>2, <1>3, <1>5 DEF AloneInv

\* A step that leaves rows and codes alone and has no item in hand afterwards.
LEMMA AloneAtRest ==
  ASSUME FulfillmentInv, AloneInv, NEW d \in Deliveries, AtWork(d),
         UNCHANGED <<rowVars, codeVars, overlapped>>,
         \A e \in Deliveries : e # d => pc'[e] = pc[e] /\ todo'[e] = todo[e] /\ item'[e] = item[e],
         pc'[d] \notin InHand,
         todo'[d] = {} \/ (todo'[d] = todo[d] /\ AtWork(d)')
  PROVE  AloneInv'
<1>1. UNCHANGED <<fulfillment, codeStatus, codeFor>>
  BY DEF rowVars, codeVars
<1>2. WorkList(d) /\ (OrderOfJob[d] \notin overlapped => Unfinished(d)) /\ OrderOfJob[d] \in Orders
  BY Constants DEF AloneInv, ConstantFacts
<1>3. WorkList(d)'
  BY <1>2 DEF WorkList, ItemsOf
<1>4. ASSUME OrderOfJob[d] \notin overlapped PROVE Unfinished(d)' /\ ServedWithCode(OrderOfJob[d])'
  <2>1. Unfinished(d)'
    BY <1>1, <1>2, <1>4 DEF Unfinished, InHand
  <2>2. ServedWithCode(OrderOfJob[d])
    BY <1>2, <1>4 DEF AloneInv
  <2> QED BY <1>1, <2>1, <2>2 DEF ServedWithCode, HeldBy
<1> QED BY <1>1, <1>3, <1>4, AloneStep DEF HeldBy

LEMMA AloneBegin ==
  ASSUME FulfillmentInv, AloneInv, NEW d \in Deliveries, Begin(d)
  PROVE  AloneInv'
<1> DEFINE o == OrderOfJob[d]
           found == {i \in ItemsOf(o) : fulfillment[i] \in Unresolved}
<1>1. /\ UNCHANGED <<rowVars, codeVars, item>>
      /\ pc[d] = "idle"
      /\ overlapped' = IF \E e \in Deliveries : AtWork(e) /\ OrderOfJob[e] = o
                       THEN overlapped \cup {o} ELSE overlapped
  BY DEF Begin
<1>2. /\ pc'[d] \in {"visiting", "picking"} /\ todo'[d] = found
      /\ \A e \in Deliveries : e # d => pc'[e] = pc[e] /\ todo'[e] = todo[e]
  <2>1. pc \in [Deliveries -> {"idle", "picking", "visiting", "reserving", "calling",
                    "settling", "releasing", "marking", "deciding", "closing", "ended"}]
        /\ todo \in [Deliveries -> SUBSET Items]
    BY DEF FulfillmentInv, TypeOK
  <2>2. todo' = [todo EXCEPT ![d] = found]
    BY DEF Begin
  <2>3. pc' = [pc EXCEPT ![d] = "visiting"] \/ pc' = [pc EXCEPT ![d] = "picking"]
    BY DEF Begin
  <2> QED BY <2>1, <2>2, <2>3
<1>3. UNCHANGED <<fulfillment, codeStatus, codeFor>>
  BY <1>1 DEF rowVars, codeVars
<1>4. Solo'
  <2> SUFFICES ASSUME NEW e \in Deliveries, NEW f \in Deliveries, AtWork(e)', AtWork(f)',
                      OrderOfJob[e] = OrderOfJob[f], OrderOfJob[e] \notin overlapped', e # f
               PROVE  FALSE
    BY DEF Solo
  <2>1. CASE e # d /\ f # d
    BY <1>1, <1>2, <2>1 DEF AloneInv, Solo, AtWork
  <2>2. CASE e = d
    <3>1. AtWork(f) /\ OrderOfJob[f] = o
      BY <1>2, <2>2 DEF AtWork
    <3> QED BY <1>1, <2>2, <3>1
  <2>3. CASE f = d
    <3>1. AtWork(e) /\ OrderOfJob[e] = o
      BY <1>2, <2>3 DEF AtWork
    <3> QED BY <1>1, <2>3, <3>1
  <2> QED BY <2>1, <2>2, <2>3
<1>5. WorkList(d)' /\ Unfinished(d)'
  BY <1>2, <1>3 DEF WorkList, Unfinished, AtWork, InHand, Unresolved, ItemsOf
<1>6. ASSUME NEW e \in Deliveries, e # d
      PROVE  WorkList(e)' /\ (OrderOfJob[e] \notin overlapped' => Unfinished(e)')
  <2>1. WorkList(e) /\ (OrderOfJob[e] \notin overlapped => Unfinished(e))
    BY DEF AloneInv
  <2> QED BY <1>1, <1>2, <1>3, <1>6, <2>1 DEF WorkList, Unfinished, AtWork, ItemsOf, HeldBy
<1>7. \A p \in Orders \ overlapped' : ServedWithCode(p)'
  BY <1>1, <1>3 DEF AloneInv, ServedWithCode, HeldBy
<1> QED BY <1>4, <1>5, <1>6, <1>7 DEF AloneInv

LEMMA AloneDecline ==
  ASSUME FulfillmentInv, AloneInv, NEW d \in Deliveries, Decline(d)
  PROVE  AloneInv'
<1>1. UNCHANGED <<fulfillment, codeStatus, codeFor, overlapped>>
  BY DEF Decline, rowVars, codeVars
<1>2. /\ pc'[d] = "ended" /\ todo'[d] = {}
      /\ \A e \in Deliveries : e # d => pc'[e] = pc[e] /\ todo'[e] = todo[e] /\ item'[e] = item[e]
  BY DEF Decline, Stop, FulfillmentInv, TypeOK
<1>3. Solo'
  BY <1>1, <1>2 DEF AloneInv, Solo, AtWork
<1>4. \A e \in Deliveries : WorkList(e)' /\ (OrderOfJob[e] \notin overlapped' => Unfinished(e)')
  BY <1>1, <1>2 DEF AloneInv, WorkList, Unfinished, AtWork, InHand, ItemsOf, HeldBy
<1>5. \A p \in Orders \ overlapped' : ServedWithCode(p)'
  BY <1>1 DEF AloneInv, ServedWithCode, HeldBy
<1> QED BY <1>3, <1>4, <1>5 DEF AloneInv

\* Steps without an item in hand.
LEMMA AloneControl ==
  ASSUME FulfillmentInv, AloneInv, NEW d \in Deliveries,
         PickUp(d) \/ Judge(d) \/ Decide(d) \/ Close(d) \/ Crash(d)
  PROVE  AloneInv'
<1>1. AtWork(d) /\ UNCHANGED <<rowVars, codeVars, overlapped>>
  BY DEF PickUp, Judge, Decide, Close, Crash, AtWork, AllVisited
<1>2. CASE Stop(d)
  <2>1. /\ pc'[d] = "ended" /\ todo'[d] = {}
        /\ \A e \in Deliveries : e # d => pc'[e] = pc[e] /\ todo'[e] = todo[e] /\ item'[e] = item[e]
    BY <1>2 DEF Stop, FulfillmentInv, TypeOK
  <2> QED BY <1>1, <2>1, AloneAtRest DEF InHand
<1>3. CASE ~Stop(d)
  <2>1. PICK p \in {"visiting", "deciding", "closing"} : pc' = [pc EXCEPT ![d] = p]
    BY <1>3 DEF PickUp, Judge, Decide, Close, Crash, Refused
  <2>2. UNCHANGED <<todo, item>>
    BY <1>3 DEF PickUp, Judge, Decide, Close, Crash, Refused
  <2>3. pc'[d] = p /\ \A e \in Deliveries : e # d => pc'[e] = pc[e]
    BY <2>1 DEF FulfillmentInv, TypeOK
  <2> QED BY <1>1, <2>2, <2>3, AloneAtRest DEF InHand, AtWork
<1> QED BY <1>2, <1>3

LEMMA AloneVisit ==
  ASSUME FulfillmentInv, AloneInv, NEW d \in Deliveries, NEW i \in Items,
         SkipItem(d, i) \/ TryItem(d, i)
  PROVE  AloneInv'
<1>1. /\ pc[d] = "visiting" /\ AtWork(d) /\ i \in todo[d]
      /\ UNCHANGED <<codeStatus, codeFor, overlapped>>
  BY DEF SkipItem, TryItem, AtWork, codeVars
<1>2. /\ todo'[d] = todo[d] \ {i}
      /\ fulfillment'[i] # "SUCCEEDED"
      /\ \A j \in Items : j # i => fulfillment'[j] = fulfillment[j]
      /\ pc'[d] = "visiting" \/ (pc'[d] \in {"reserving", "calling"} /\ item'[d] = i
                                   /\ (pc'[d] = "calling" => i \notin CodeItems))
      /\ \A e \in Deliveries : e # d => pc'[e] = pc[e] /\ todo'[e] = todo[e] /\ item'[e] = item[e]
  BY <1>1 DEF SkipItem, TryItem, FulfillmentInv, TypeOK
<1>3. WorkList(d) /\ (OrderOfJob[d] \notin overlapped => Unfinished(d)) /\ OrderOfJob[d] \in Orders
  BY Constants DEF AloneInv, ConstantFacts
<1>4. i \in ItemsOf(OrderOfJob[d])
  BY <1>1, <1>3 DEF WorkList
<1>5. WorkList(d)'
  BY <1>2, <1>3, <1>4 DEF WorkList, InHand, AtWork, ItemsOf
<1>6. ASSUME OrderOfJob[d] \notin overlapped PROVE Unfinished(d)' /\ ServedWithCode(OrderOfJob[d])'
  <2>1. \A j \in todo'[d] : fulfillment'[j] # "SUCCEEDED"
    BY <1>2, <1>3, <1>6 DEF Unfinished, WorkList, ItemsOf
  <2>2. Unfinished(d)'
    BY <1>2, <2>1 DEF Unfinished, InHand
  <2>3. ServedWithCode(OrderOfJob[d])
    BY <1>3, <1>6 DEF AloneInv
  <2>4. \A j \in CodeItems : fulfillment'[j] = "SUCCEEDED" => fulfillment[j] = "SUCCEEDED"
    BY <1>2, Constants DEF ConstantFacts
  <2> QED BY <1>1, <2>2, <2>3, <2>4 DEF ServedWithCode, HeldBy
<1> QED BY <1>1, <1>2, <1>4, <1>5, <1>6, AloneStep DEF ItemsOf, HeldBy

\* The steps with an item in hand that store no result.
LEMMA AloneHandled ==
  ASSUME FulfillmentInv, AloneInv, NEW d \in Deliveries,
         Reserve(d) \/ Call(d) \/ SettleThrows(d) \/ Release(d)
  PROVE  AloneInv'
<1>1. /\ pc[d] \in InHand /\ AtWork(d)
      /\ UNCHANGED <<fulfillment, todo, item, overlapped>>
  BY DEF Reserve, Call, SettleThrows, Release, InHand, AtWork, rowVars
<1>2. /\ pc'[d] \in InHand
      /\ \A e \in Deliveries : e # d => pc'[e] = pc[e]
  BY DEF Reserve, Call, SettleThrows, Release, Catch, InHand, FulfillmentInv, TypeOK
<1>3. WorkList(d) /\ (OrderOfJob[d] \notin overlapped => Unfinished(d)) /\ OrderOfJob[d] \in Orders
  BY Constants DEF AloneInv, ConstantFacts
<1>4. WorkList(d)' /\ item[d] \in Items /\ OrderOf[item[d]] = OrderOfJob[d]
  BY <1>1, <1>2, <1>3 DEF WorkList, InHand, AtWork, ItemsOf
<1>5. /\ \A c \in Codes : codeStatus[c] = "SOLD" => codeStatus'[c] = "SOLD" /\ codeFor'[c] = codeFor[c]
      /\ \A i \in Items : i # item[d] => HeldBy(i) \subseteq HeldBy(i)'
      /\ pc'[d] \in {"calling", "settling"} /\ item[d] \in CodeItems /\ OrderOfJob[d] \notin overlapped
           => {c \in Codes : codeFor'[c] = item[d]} # {}
  <2>1. CASE UNCHANGED codeVars
    <3>1. pc'[d] \in {"calling", "settling"} /\ item[d] \in CodeItems =>
            pc[d] \in {"calling", "settling"}
      BY <2>1, Constants DEF Reserve, Call, SettleThrows, Release, Catch, FulfillmentInv, TypeOK, 
        codeVars, Free, ConstantFacts
    <3> QED BY <1>3, <2>1, <3>1 DEF Unfinished, HeldBy, codeVars
  <2>2. CASE Reserve(d) /\ ~UNCHANGED codeVars
    <3>1. PICK c \in Free : codeFor' = [codeFor EXCEPT ![c] = item[d]]
                            /\ codeStatus' = [codeStatus EXCEPT ![c] = "RESERVED"]
      BY <2>2 DEF Reserve
    <3>2. c \in Codes /\ codeFor[c] = None /\ codeStatus[c] = "AVAILABLE"
      BY DEF Free, FulfillmentInv, PoolInOrder
    <3>3. codeFor'[c] = item[d] /\ \A k \in Codes : k # c =>
             codeFor'[k] = codeFor[k] /\ codeStatus'[k] = codeStatus[k]
      BY <3>1, <3>2 DEF FulfillmentInv, TypeOK
    <3> QED BY <3>2, <3>3, Constants DEF HeldBy, ConstantFacts
  <2>3. CASE Release(d)
    <3>1. pc'[d] = "marking" /\ ReleaseCode(item[d])
      BY <2>3 DEF Release, FulfillmentInv, TypeOK
    <3>2. \A c \in Codes : codeFor[c] # item[d] \/ codeStatus[c] # "RESERVED" =>
             codeFor'[c] = codeFor[c] /\ codeStatus'[c] = codeStatus[c]
      BY <3>1 DEF ReleaseCode, Reserved, HeldBy
    <3> QED BY <3>1, <3>2 DEF HeldBy
  <2> QED BY <2>1, <2>2, <2>3 DEF Call, SettleThrows
<1>6. ASSUME OrderOfJob[d] \notin overlapped PROVE Unfinished(d)' /\ ServedWithCode(OrderOfJob[d])'
  <2>1. Unfinished(d)'
    BY <1>1, <1>3, <1>5, <1>6 DEF Unfinished, HeldBy
  <2>2. ServedWithCode(OrderOfJob[d])
    BY <1>3, <1>6 DEF AloneInv
  <2> QED BY <1>1, <1>5, <2>1, <2>2 DEF ServedWithCode, HeldBy
<1> QED BY <1>1, <1>2, <1>4, <1>5, <1>6, AloneStep

\* The steps that store an item's result.
LEMMA AloneStored ==
  ASSUME FulfillmentInv, AloneInv, NEW d \in Deliveries, Settle(d) \/ Mark(d)
  PROVE  AloneInv'
<1>1. /\ pc[d] \in InHand /\ AtWork(d) /\ item[d] \in Items
      /\ UNCHANGED <<todo, overlapped>>
  BY DEF Settle, Mark, InHand, AtWork, FulfillmentInv, WorkInv
<1>2. /\ pc'[d] = "visiting"
      /\ \A e \in Deliveries : e # d => pc'[e] = pc[e] /\ item'[e] = item[e]
      /\ \A j \in Items : j # item[d] => fulfillment'[j] = fulfillment[j]
  BY DEF Settle, Mark, NextItem, FulfillmentInv, TypeOK
<1>3. WorkList(d) /\ (OrderOfJob[d] \notin overlapped => Unfinished(d)) /\ OrderOfJob[d] \in Orders
  BY Constants DEF AloneInv, ConstantFacts
<1>4. item[d] \notin todo[d] /\ OrderOf[item[d]] = OrderOfJob[d]
  BY <1>1, <1>3 DEF WorkList, ItemsOf
<1>5. WorkList(d)'
  BY <1>1, <1>2, <1>3 DEF WorkList, InHand, AtWork, ItemsOf
<1>6. \A c \in Codes : codeStatus[c] = "SOLD" => codeStatus'[c] = "SOLD" /\ codeFor'[c] = codeFor[c]
  BY <1>1, SellPool, ReleasePool DEF Settle, Mark, FulfillmentInv, codeVars
<1>7. \A i \in Items : i # item[d] => HeldBy(i) \subseteq HeldBy(i)'
  <2>1. \A c \in Codes : codeFor[c] # item[d] => codeFor'[c] = codeFor[c]
    BY DEF Settle, Mark, Sell, ReleaseCode, Reserved, HeldBy, codeVars
  <2> QED BY <2>1 DEF HeldBy
<1>8. ASSUME OrderOfJob[d] \notin overlapped PROVE Unfinished(d)' /\ ServedWithCode(OrderOfJob[d])'
  <2>1. Unfinished(d)'
    BY <1>1, <1>2, <1>3, <1>4, <1>8 DEF Unfinished, WorkList, ItemsOf, InHand
  <2>2. ServedWithCode(OrderOfJob[d])
    BY <1>3, <1>8 DEF AloneInv
  <2>3. ASSUME NEW i \in CodeItems, i = item[d], fulfillment'[i] = "SUCCEEDED"
        PROVE  \E c \in Codes : codeFor'[c] = i /\ codeStatus'[c] = "SOLD"
    <3>1. pc[d] = "settling" /\ Sell(i)
      BY <1>1, <2>3 DEF Settle, Mark, NextItem, FulfillmentInv, WorkInv, TypeOK
    <3>2. PICK c \in Codes : codeFor[c] = i
      BY <1>3, <1>8, <2>3, <3>1 DEF Unfinished, HeldBy
    <3>3. codeStatus[c] \in {"RESERVED", "SOLD"}
      <4>1. codeStatus[c] \in {"AVAILABLE", "RESERVED", "SOLD"}
        BY DEF FulfillmentInv, TypeOK
      <4>2. codeStatus[c] # "AVAILABLE"
        BY <2>3, <3>2, Constants DEF FulfillmentInv, PoolInOrder, ConstantFacts
      <4> QED BY <4>1, <4>2
    <3> QED BY <3>1, <3>2, <3>3 DEF Sell, Reserved, HeldBy
  <2>4. ASSUME NEW i \in CodeItems, i # item[d], fulfillment'[i] = "SUCCEEDED",
               OrderOf[i] = OrderOfJob[d]
        PROVE  \E c \in Codes : codeFor'[c] = i /\ codeStatus'[c] = "SOLD"
    <3>1. fulfillment[i] = "SUCCEEDED"
      BY <1>2, <2>4, Constants DEF ConstantFacts
    <3> QED BY <1>6, <2>2, <2>4, <3>1 DEF ServedWithCode, HeldBy
  <2> QED BY <2>1, <2>3, <2>4 DEF ServedWithCode, HeldBy
<1> QED BY <1>1, <1>2, <1>4, <1>5, <1>6, <1>7, <1>8, AloneStep

LEMMA AloneOthers ==
  ASSUME FulfillmentInv, AloneInv,
         (\E i \in Items : Reconcile(i)) \/ (\E o \in Orders : Intervene(o)) \/ UNCHANGED vars
  PROVE  AloneInv'
<1>1. UNCHANGED <<pc, todo, item, codeStatus, codeFor, overlapped>>
  BY DEF Reconcile, Intervene, vars, jobVars, codeVars
<1>2. \A i \in Items : fulfillment'[i] = "SUCCEEDED" => fulfillment[i] = "SUCCEEDED"
  BY DEF Reconcile, Intervene, rowVars, vars, FulfillmentInv, TypeOK
<1>3. Solo'
  BY <1>1 DEF AloneInv, Solo, AtWork
<1>4. \A d \in Deliveries : WorkList(d)' /\ (OrderOfJob[d] \notin overlapped' => Unfinished(d)')
  BY <1>1, <1>2 DEF AloneInv, WorkList, Unfinished, AtWork, InHand, ItemsOf, HeldBy
<1>5. \A p \in Orders \ overlapped' : ServedWithCode(p)'
  BY <1>1, <1>2, Constants DEF AloneInv, ServedWithCode, HeldBy, ConstantFacts
<1> QED BY <1>3, <1>4, <1>5 DEF AloneInv

LEMMA StepAlone == FulfillmentInv /\ AloneInv /\ [Next]_vars => AloneInv'
<1> SUFFICES ASSUME FulfillmentInv, AloneInv, [Next]_vars PROVE AloneInv'
  OBVIOUS
<1>1. ASSUME NEW d \in Deliveries, Delivery(d) \/ Crash(d) PROVE AloneInv'
  BY <1>1, AloneBegin, AloneDecline, AloneControl, AloneVisit, AloneHandled, AloneStored DEF Delivery
<1>2. CASE (\E i \in Items : Reconcile(i)) \/ (\E o \in Orders : Intervene(o)) \/ UNCHANGED vars
  BY <1>2, AloneOthers
<1> QED BY <1>1, <1>2 DEF Next

LEMMA AloneInvariant == Spec => [](FulfillmentInv /\ AloneInv)
  BY InitFulfillment, StepFulfillment, InitAlone, StepAlone, PTL DEF Spec

\* While no two deliveries of its order work at once, an item that counts as
\* SUCCEEDED has its code, however often processFulfillmentJob died on the way.
THEOREM SucceededItemsHaveCodes == Spec => []SucceededHasItsCode
<1>1. FulfillmentInv /\ AloneInv => SucceededHasItsCode
  BY Constants DEF AloneInv, ServedWithCode, SucceededHasItsCode, ConstantFacts
<1> QED BY <1>1, AloneInvariant, PTL

\* ... and no later delivery, reconciliation or administrator takes that back.
THEOREM SucceededStays == Spec => SucceededForGood
<1> DEFINE Kept == \A i \in Items : OrderOf[i] \notin overlapped' /\ fulfillment[i] = "SUCCEEDED" =>
                      fulfillment'[i] = "SUCCEEDED"
<1>1. ASSUME FulfillmentInv, AloneInv, Next PROVE Kept
  <2> SUFFICES ASSUME NEW i \in Items, OrderOf[i] \notin overlapped', fulfillment[i] = "SUCCEEDED"
               PROVE  fulfillment'[i] = "SUCCEEDED"
    OBVIOUS
  <2>1. ASSUME NEW d \in Deliveries, NEW j \in Items, SkipItem(d, j) \/ TryItem(d, j)
        PROVE  fulfillment'[i] = "SUCCEEDED"
    <3>1. WorkList(d) /\ j \in todo[d] /\ overlapped' = overlapped
      BY <1>1, <2>1 DEF AloneInv, SkipItem, TryItem
    <3>2. i # j
      BY <1>1, <3>1 DEF WorkList, ItemsOf, AloneInv, Unfinished
    <3> QED BY <1>1, <2>1, <3>2 DEF SkipItem, TryItem, FulfillmentInv, TypeOK
  <2>2. ASSUME NEW d \in Deliveries, Settle(d) \/ Mark(d) PROVE fulfillment'[i] = "SUCCEEDED"
    <3>1. WorkList(d) /\ pc[d] \in InHand /\ overlapped' = overlapped
      BY <1>1, <2>2 DEF AloneInv, Settle, Mark, InHand
    <3>2. i # item[d]
      BY <1>1, <3>1 DEF WorkList, ItemsOf, AloneInv, Unfinished
    <3> QED BY <1>1, <2>2, <3>2 DEF Settle, Mark, NextItem, FulfillmentInv, TypeOK
  <2>3. ASSUME NEW j \in Items, Reconcile(j) PROVE fulfillment'[i] = "SUCCEEDED"
    BY <1>1, <2>3 DEF Reconcile, FulfillmentInv, TypeOK
  <2>4. \/ fulfillment' = fulfillment
        \/ \E d \in Deliveries : \/ \E j \in Items : SkipItem(d, j) \/ TryItem(d, j)
                                 \/ Settle(d) \/ Mark(d)
        \/ \E j \in Items : Reconcile(j)
    BY <1>1 DEF Next, Delivery, Begin, Decline, PickUp, Reserve, Call, SettleThrows, Release,
                Judge, Decide, Close, Crash, Intervene, rowVars
  <2> QED BY <2>1, <2>2, <2>3, <2>4
<1>2. FulfillmentInv /\ AloneInv /\ [Next]_vars => [Kept]_vars
  BY <1>1
<1> QED BY <1>2, AloneInvariant, PTL DEF Spec, SucceededForGood
=============================================================================
