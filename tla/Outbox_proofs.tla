---------------------------- MODULE Outbox_proofs ----------------------------
(***************************************************************************)
(* Outbox, for any number of rows and dispatchers and any batch size: no   *)
(* row is ever in two hands, every stamped row is accounted for, and the   *)
(* dispatchers relay each committed event at most once (EventRelay).       *)
(***************************************************************************)
EXTENDS Outbox, TLAPS

\* Where a row can be.  Its lock, the stamp and the memory of the runs follow
\* one another, so nobody who has claimed a row shares it with another run,
\* with the queue or with the rows that were lost.
RowInv ==
  /\ \A d \in Dispatchers :
       /\ pc[d] = "idle" => claimed[d] = {}
       /\ \A r \in Rows :
            /\ r \in claimed[d] /\ pc[d] = "claiming" =>
                 lock[r] = d /\ r \notin published /\ Exists(r)
            /\ r \in claimed[d] /\ pc[d] = "adding" =>
                 r \in published /\ adds[r] = 0 /\ r \notin dropped
  /\ \A r \in Rows :
       /\ r \notin published => adds[r] = 0 /\ r \notin dropped
       /\ adds[r] <= 1
       /\ r \in published => Exists(r) /\ lock[r] = None
       /\ r \in dropped => adds[r] = 0

OutboxInv == TypeOK /\ OneHolder /\ RowInv /\ StampedIsAccountedFor

LEMMA InitOutbox == Init => OutboxInv
  BY NoneAssumption DEF Init, OutboxInv, TypeOK, OneHolder, RowInv, StampedIsAccountedFor,
     Exists

-----------------------------------------------------------------------------
\* A new row is in nobody's hands.
LEMMA InsertStep == ASSUME OutboxInv, NEW r \in Rows, Insert(r) PROVE OutboxInv'
<1> USE DEF OutboxInv
<1>1. TypeOK'
  BY DEF TypeOK, Insert
<1>2. OneHolder'
  BY DEF OneHolder, Insert
<1>3. \A s \in Rows : Exists(s) => Exists(s)'
  BY DEF Exists, Insert, TypeOK
<1>4. RowInv'
  BY <1>3 DEF RowInv, Insert
<1>5. StampedIsAccountedFor'
  BY DEF StampedIsAccountedFor, Insert
<1> QED BY <1>1, <1>2, <1>4, <1>5

\* A run only selects rows that nobody else holds.
LEMMA SelectStep == ASSUME OutboxInv, NEW d \in Dispatchers, Select(d) PROVE OutboxInv'
<1> USE NoneAssumption DEF OutboxInv
<1>1. PICK batch \in SUBSET Available \ {{}} :
        /\ OldestBatch(batch)
        /\ claimed' = [claimed EXCEPT ![d] = batch]
        /\ lock' = [r \in Rows |-> IF r \in batch THEN d ELSE lock[r]]
  BY DEF Select
<1>2. \A r \in batch : r \in Rows /\ Exists(r) /\ r \notin published /\ lock[r] = None
  BY DEF Available
<1>3. pc[d] = "idle" /\ pc' = [pc EXCEPT ![d] = "claiming"]
      /\ UNCHANGED <<createdAt, clock, published, adds, dropped>>
  BY DEF Select
<1>4. TypeOK'
  BY <1>1, <1>2, <1>3 DEF TypeOK
<1>5. \A e \in Dispatchers \ {d}, r \in batch : r \notin claimed[e]
  BY <1>2 DEF RowInv, TypeOK
<1>6. OneHolder'
  BY <1>1, <1>5 DEF OneHolder, TypeOK
<1>7. \A r \in Rows : Exists(r)' = Exists(r)
  BY <1>3 DEF Exists
<1>8. RowInv'
  BY <1>1, <1>2, <1>3, <1>5, <1>7 DEF RowInv, TypeOK
<1>9. StampedIsAccountedFor'
  <2>1. \A r \in Rows : (\E e \in Dispatchers : pc[e] = "adding" /\ r \in claimed[e])'
                        = (\E e \in Dispatchers : pc[e] = "adding" /\ r \in claimed[e])
    BY <1>1, <1>3 DEF TypeOK
  <2> QED BY <1>3, <2>1 DEF StampedIsAccountedFor, TypeOK
<1> QED BY <1>4, <1>6, <1>8, <1>9

\* The stamp moves a run's rows from locked to published; nobody else has them.
LEMMA ClaimStep == ASSUME OutboxInv, NEW d \in Dispatchers, Claim(d) PROVE OutboxInv'
<1> USE NoneAssumption DEF OutboxInv
<1>1. TypeOK'
  BY DEF TypeOK, Claim, Unlocked
<1>2. OneHolder'
  BY DEF OneHolder, Claim
<1>3. \A r \in Rows : Exists(r)' = Exists(r)
  BY DEF Exists, Claim
<1>4. \A r \in claimed[d] : r \in Rows /\ lock[r] = d /\ r \notin published /\ Exists(r)
                            /\ adds[r] = 0 /\ r \notin dropped
  BY DEF Claim, RowInv, TypeOK
<1>5. \A e \in Dispatchers \ {d}, r \in claimed[d] : r \notin claimed[e]
  BY DEF OneHolder
<1>6. RowInv'
  BY <1>3, <1>4, <1>5 DEF RowInv, Claim, Unlocked, TypeOK
<1>7. StampedIsAccountedFor'
  <2> SUFFICES ASSUME NEW r \in published'
               PROVE  /\ adds'[r] <= 1
                      /\ LET queued == adds'[r] = 1
                             held   == \E e \in Dispatchers :
                                         pc'[e] = "adding" /\ r \in claimed'[e]
                             lost   == r \in dropped'
                         IN /\ queued \/ held \/ lost
                            /\ ~(queued /\ held) /\ ~(queued /\ lost) /\ ~(held /\ lost)
    BY DEF StampedIsAccountedFor
  <2>1. CASE r \in claimed[d]
    BY <1>4, <2>1 DEF Claim, TypeOK
  <2>2. CASE r \notin claimed[d]
    BY <2>2 DEF Claim, StampedIsAccountedFor, TypeOK
  <2> QED BY <2>1, <2>2
<1> QED BY <1>1, <1>2, <1>6, <1>7

\* A call of queue.add takes a row out of the run's memory.
LEMMA AddStep == ASSUME OutboxInv, NEW d \in Dispatchers, Add(d) PROVE OutboxInv'
<1> USE DEF OutboxInv
<1>1. PICK r \in claimed[d] :
        /\ adds' = [adds EXCEPT ![r] = @ + 1]
        /\ claimed' = [claimed EXCEPT ![d] = @ \ {r}]
        /\ pc' = [pc EXCEPT ![d] = IF claimed[d] = {r} THEN "idle" ELSE "adding"]
  BY DEF Add
<1>2. pc[d] = "adding" /\ UNCHANGED <<createdAt, clock, published, lock, dropped>>
  BY DEF Add
<1>3. r \in Rows /\ r \in published /\ adds[r] = 0 /\ r \notin dropped
  BY <1>2 DEF RowInv, TypeOK
<1>4. TypeOK'
  BY <1>1, <1>2, <1>3 DEF TypeOK
<1>5. OneHolder'
  BY <1>1 DEF OneHolder, TypeOK
<1>6. \A s \in Rows : Exists(s)' = Exists(s)
  BY <1>2 DEF Exists
<1>7. \A e \in Dispatchers \ {d} : r \notin claimed[e]
  BY DEF OneHolder
<1>8. RowInv'
  BY <1>1, <1>2, <1>3, <1>6, <1>7 DEF RowInv, TypeOK
<1>9. StampedIsAccountedFor'
  <2> SUFFICES ASSUME NEW s \in published'
               PROVE  /\ adds'[s] <= 1
                      /\ LET queued == adds'[s] = 1
                             held   == \E e \in Dispatchers :
                                         pc'[e] = "adding" /\ s \in claimed'[e]
                             lost   == s \in dropped'
                         IN /\ queued \/ held \/ lost
                            /\ ~(queued /\ held) /\ ~(queued /\ lost) /\ ~(held /\ lost)
    BY DEF StampedIsAccountedFor
  <2>1. CASE s = r
    BY <1>1, <1>2, <1>3, <1>7, <2>1 DEF TypeOK
  <2>2. CASE s # r
    <3>1. (\E e \in Dispatchers : pc'[e] = "adding" /\ s \in claimed'[e])
          = (\E e \in Dispatchers : pc[e] = "adding" /\ s \in claimed[e])
      BY <1>1, <1>2, <2>2 DEF TypeOK
    <3> QED BY <1>1, <1>2, <2>2, <3>1 DEF StampedIsAccountedFor, TypeOK
  <2> QED BY <2>1, <2>2
<1> QED BY <1>4, <1>5, <1>8, <1>9

\* Rolled back, a run gives its rows up for others to select.
LEMMA ClaimCrashStep ==
  ASSUME OutboxInv, NEW d \in Dispatchers, ClaimCrash(d) PROVE OutboxInv'
<1> USE NoneAssumption DEF OutboxInv
<1>1. TypeOK'
  BY DEF TypeOK, ClaimCrash, Unlocked
<1>2. OneHolder'
  BY DEF OneHolder, ClaimCrash, TypeOK
<1>3. \A r \in Rows : Exists(r)' = Exists(r)
  BY DEF Exists, ClaimCrash
<1>4. RowInv'
  BY <1>3 DEF RowInv, ClaimCrash, Unlocked, TypeOK
<1>5. StampedIsAccountedFor'
  <2>1. \A r \in Rows : (\E e \in Dispatchers : pc[e] = "adding" /\ r \in claimed[e])'
                        = (\E e \in Dispatchers : pc[e] = "adding" /\ r \in claimed[e])
    BY DEF ClaimCrash, TypeOK
  <2> QED BY <2>1 DEF ClaimCrash, StampedIsAccountedFor, TypeOK
<1> QED BY <1>1, <1>2, <1>4, <1>5

\* A run that dies later takes its rows with it.
LEMMA AddCrashStep ==
  ASSUME OutboxInv, NEW d \in Dispatchers, AddCrash(d) PROVE OutboxInv'
<1> USE DEF OutboxInv
<1>1. TypeOK'
  BY DEF TypeOK, AddCrash
<1>2. OneHolder'
  BY DEF OneHolder, AddCrash, TypeOK
<1>3. \A r \in Rows : Exists(r)' = Exists(r)
  BY DEF Exists, AddCrash
<1>4. \A e \in Dispatchers \ {d}, r \in claimed[d] : r \notin claimed[e]
  BY DEF OneHolder
<1>5. \A r \in claimed[d] : r \in Rows /\ r \in published /\ adds[r] = 0
  BY DEF AddCrash, RowInv, TypeOK
<1>6. RowInv'
  BY <1>3, <1>4, <1>5 DEF RowInv, AddCrash, TypeOK
<1>7. StampedIsAccountedFor'
  <2> SUFFICES ASSUME NEW s \in published'
               PROVE  /\ adds'[s] <= 1
                      /\ LET queued == adds'[s] = 1
                             held   == \E e \in Dispatchers :
                                         pc'[e] = "adding" /\ s \in claimed'[e]
                             lost   == s \in dropped'
                         IN /\ queued \/ held \/ lost
                            /\ ~(queued /\ held) /\ ~(queued /\ lost) /\ ~(held /\ lost)
    BY DEF StampedIsAccountedFor
  <2>1. CASE s \in claimed[d]
    BY <1>4, <1>5, <2>1 DEF AddCrash, TypeOK
  <2>2. CASE s \notin claimed[d]
    BY <2>2 DEF AddCrash, StampedIsAccountedFor, TypeOK
  <2> QED BY <2>1, <2>2
<1> QED BY <1>1, <1>2, <1>6, <1>7

LEMMA StepOutbox == OutboxInv /\ [Next]_vars => OutboxInv'
<1> SUFFICES ASSUME OutboxInv, [Next]_vars PROVE OutboxInv'
  OBVIOUS
<1>1. CASE UNCHANGED vars
  BY <1>1 DEF vars, OutboxInv, TypeOK, OneHolder, RowInv, StampedIsAccountedFor, Exists
<1>2. CASE Next
  BY <1>2, InsertStep, SelectStep, ClaimStep, AddStep, ClaimCrashStep, AddCrashStep DEF Next
<1> QED BY <1>1, <1>2

LEMMA OutboxInvariant == Spec => []OutboxInv
  BY InitOutbox, StepOutbox, PTL DEF Spec

-----------------------------------------------------------------------------
\* The tables, the locks and the memory of the runs keep their types.
THEOREM OutboxTypes == Spec => []TypeOK
<1>1. OutboxInv => TypeOK
  BY DEF OutboxInv
<1> QED BY <1>1, OutboxInvariant, PTL

\* However many replicas and overlapping ticks there are, no two runs hold one
\* row (dispatchPendingOutboxEvents).
THEOREM NoRowInTwoHands == Spec => []OneHolder
<1>1. OutboxInv => OneHolder
  BY DEF OutboxInv
<1> QED BY <1>1, OutboxInvariant, PTL

\* A stamped row is on the queue, in the memory of exactly one live run, or was
\* lost with a run that died: nothing else can happen to it.
THEOREM EveryRowAccountedFor == Spec => []StampedIsAccountedFor
<1>1. OutboxInv => StampedIsAccountedFor
  BY DEF OutboxInv
<1> QED BY <1>1, OutboxInvariant, PTL

-----------------------------------------------------------------------------
\* Refinement of EventRelay.
LEMMA InitRelays == Init => Promise!Init
  BY DEF Init, Promise!Init, Exists

LEMMA InsertRelays ==
  ASSUME OutboxInv, NEW r \in Rows, Insert(r) PROVE Promise!Commit(r)
<1>1. adds' = adds
  BY DEF Insert
<1>2. {s \in Rows : Exists(s)}' = {s \in Rows : Exists(s)} \cup {r}
  BY DEF Insert, Exists, OutboxInv, TypeOK
<1> QED BY <1>1, <1>2 DEF Promise!Commit, Insert

LEMMA AddRelays ==
  ASSUME OutboxInv, NEW d \in Dispatchers, Add(d) PROVE \E r \in Rows : Promise!Relay(r)
<1>1. PICK r \in claimed[d] : adds' = [adds EXCEPT ![r] = @ + 1]
  BY DEF Add
<1>2. r \in Rows /\ Exists(r) /\ adds[r] = 0
  BY DEF Add, OutboxInv, RowInv, TypeOK
<1>3. adds' = [adds EXCEPT ![r] = 1]
  BY <1>1, <1>2
<1>4. {s \in Rows : Exists(s)}' = {s \in Rows : Exists(s)}
  BY DEF Add, Exists
<1>5. Promise!Relay(r)
  BY <1>2, <1>3, <1>4 DEF Promise!Relay
<1> QED BY <1>2, <1>5

\* Every other step changes neither what is committed nor how often anything
\* was relayed.
LEMMA OthersStutter ==
  ASSUME UNCHANGED <<createdAt, adds>> PROVE UNCHANGED Promise!vars
  BY DEF Promise!vars, Exists

LEMMA StepRelays == OutboxInv /\ [Next]_vars => [Promise!Next]_(Promise!vars)
<1> SUFFICES ASSUME OutboxInv, [Next]_vars PROVE [Promise!Next]_(Promise!vars)
  OBVIOUS
<1>1. ASSUME NEW r \in Rows, Insert(r) PROVE Promise!Next
  BY <1>1, InsertRelays DEF Promise!Next
<1>2. ASSUME NEW d \in Dispatchers, Add(d) PROVE Promise!Next
  BY <1>2, AddRelays DEF Promise!Next
<1>3. ASSUME NEW d \in Dispatchers, Select(d) \/ Claim(d) \/ ClaimCrash(d) \/ AddCrash(d)
      PROVE UNCHANGED Promise!vars
  BY <1>3, OthersStutter DEF Select, Claim, ClaimCrash, AddCrash
<1>4. CASE UNCHANGED vars
  BY <1>4, OthersStutter DEF vars
<1> QED BY <1>1, <1>2, <1>3, <1>4 DEF Next

\* The dispatchers implement the safe half of what an outbox promises: queue.add
\* is called for committed events only, and never twice for one event, whatever
\* dies on the way.
THEOREM OutboxRelaysAtMostOnce == Spec => RelaysAtMostOnce
  BY InitRelays, StepRelays, OutboxInvariant, PTL DEF Spec, RelaysAtMostOnce,
     Promise!AtMostOnce
=============================================================================
