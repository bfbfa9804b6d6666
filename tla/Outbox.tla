------------------------------- MODULE Outbox -------------------------------
(***************************************************************************)
(* The outbox table and the dispatchers that relay its rows to the         *)
(* fulfilment queue (apps/worker/src/outbox/outbox-dispatcher.ts).  A      *)
(* dispatcher is one run of dispatchPendingOutboxEvents: replicas run them *)
(* side by side, and so does one worker whose interval fires while an      *)
(* earlier run is not over.  Claiming is a transaction (select and lock,   *)
(* stamp, commit); the calls of queue.add come after it, one by one, from  *)
(* the run's memory.                                                       *)
(***************************************************************************)
EXTENDS Naturals, FiniteSets

CONSTANTS
  Rows,         \* the ids of outbox events
  Dispatchers,  \* runs of the dispatcher
  BatchSize,    \* how many rows a run claims at most
  None          \* no lock

ASSUME BatchSizeAssumption == BatchSize \in Nat \ {0}
ASSUME NoneAssumption == None \notin Dispatchers

VARIABLES
  createdAt,  \* OutboxEvent.createdAt, 0 while the row does not exist
  clock,      \* the latest createdAt
  published,  \* the rows whose publishedAt is set
  lock,       \* the run whose open transaction has locked the row
  pc,         \* where each run stands
  claimed,    \* the rows a run has claimed and not added yet
  adds,       \* how often queue.add was called for the row
  dropped     \* rows that were in the memory of a run that died (history)

vars == <<createdAt, clock, published, lock, pc, claimed, adds, dropped>>

TypeOK ==
  /\ createdAt \in [Rows -> Nat]
  /\ clock \in Nat
  /\ published \in SUBSET Rows
  /\ lock \in [Rows -> Dispatchers \cup {None}]
  /\ pc \in [Dispatchers -> {"idle", "claiming", "adding"}]
  /\ claimed \in [Dispatchers -> SUBSET Rows]
  /\ adds \in [Rows -> Nat]
  /\ dropped \in SUBSET Rows

Init ==
  /\ createdAt = [r \in Rows |-> 0]
  /\ clock = 0
  /\ published = {}
  /\ lock = [r \in Rows |-> None]
  /\ pc = [d \in Dispatchers |-> "idle"]
  /\ claimed = [d \in Dispatchers |-> {}]
  /\ adds = [r \in Rows |-> 0]
  /\ dropped = {}

Exists(r) == createdAt[r] > 0

\* A webhook transaction commits with its outbox event (PaymentsService).
Insert(r) ==
  /\ ~Exists(r)
  /\ clock' = clock + 1
  /\ createdAt' = [createdAt EXCEPT ![r] = clock + 1]
  /\ UNCHANGED <<published, lock, pc, claimed, adds, dropped>>

\* Mutants: no FOR UPDATE SKIP LOCKED; no test of publishedAt.
MutantLockedToo    == {r \in Rows : Exists(r) /\ r \notin published}
MutantPublishedToo == {r \in Rows : Exists(r) /\ lock[r] = None}

\* WHERE publishedAt IS NULL ... FOR UPDATE SKIP LOCKED
Available == {r \in Rows : Exists(r) /\ r \notin published /\ lock[r] = None}

\* ORDER BY createdAt ASC LIMIT batchSize
OldestBatch(batch) ==
  /\ batch \subseteq Available
  /\ \A r \in batch, s \in Available \ batch : createdAt[r] < createdAt[s]
  /\ \/ Cardinality(batch) = BatchSize
     \/ Cardinality(batch) < BatchSize /\ batch = Available

\* A run that finds nothing commits an empty transaction and is over.
Select(d) ==
  /\ pc[d] = "idle"
  /\ \E batch \in SUBSET Available \ {{}} :
       /\ OldestBatch(batch)
       /\ claimed' = [claimed EXCEPT ![d] = batch]
       /\ lock' = [r \in Rows |-> IF r \in batch THEN d ELSE lock[r]]
  /\ pc' = [pc EXCEPT ![d] = "claiming"]
  /\ UNCHANGED <<createdAt, clock, published, adds, dropped>>

\* Mutant: the locks stay.
MutantStaysLocked(d) == lock

Unlocked(d) == [r \in Rows |-> IF lock[r] = d THEN None ELSE lock[r]]

\* The stamp, and the commit that releases the locks.
Claim(d) ==
  /\ pc[d] = "claiming"
  /\ published' = published \cup claimed[d]
  /\ lock' = Unlocked(d)
  /\ pc' = [pc EXCEPT ![d] = "adding"]
  /\ UNCHANGED <<createdAt, clock, claimed, adds, dropped>>

\* queue.add for the next row, oldest first.
Add(d) ==
  /\ pc[d] = "adding"
  /\ \E r \in claimed[d] :
       /\ \A s \in claimed[d] : createdAt[r] <= createdAt[s]
       /\ adds' = [adds EXCEPT ![r] = @ + 1]
       /\ claimed' = [claimed EXCEPT ![d] = @ \ {r}]
       /\ pc' = [pc EXCEPT ![d] = IF claimed[d] = {r} THEN "idle" ELSE "adding"]
  /\ UNCHANGED <<createdAt, clock, published, lock, dropped>>

\* The process dies, or its connection does, before the commit: rolled back.
ClaimCrash(d) ==
  /\ pc[d] = "claiming"
  /\ lock' = Unlocked(d)
  /\ pc' = [pc EXCEPT ![d] = "idle"]
  /\ claimed' = [claimed EXCEPT ![d] = {}]
  /\ UNCHANGED <<createdAt, clock, published, adds, dropped>>

\* The process dies, or queue.add rejects and the loop only logs it: the rows
\* not added yet are forgotten, and nothing selects them again.
AddCrash(d) ==
  /\ pc[d] = "adding"
  /\ dropped' = dropped \cup claimed[d]
  /\ pc' = [pc EXCEPT ![d] = "idle"]
  /\ claimed' = [claimed EXCEPT ![d] = {}]
  /\ UNCHANGED <<createdAt, clock, published, lock, adds>>

Next ==
  \/ \E r \in Rows : Insert(r)
  \/ \E d \in Dispatchers :
       Select(d) \/ Claim(d) \/ Add(d) \/ ClaimCrash(d) \/ AddCrash(d)

Spec == Init /\ [][Next]_vars

\* The interval fires for ever, runs go on, and not every claim dies before
\* its commit.
Fairness ==
  \A d \in Dispatchers : WF_vars(Select(d)) /\ SF_vars(Claim(d)) /\ WF_vars(Add(d))

FairSpec == Spec /\ Fairness

-----------------------------------------------------------------------------
(***************************************************************************)
(* Properties.                                                             *)
(***************************************************************************)

\* No row is ever in the hands of two runs, so replicas and overlapping ticks
\* never enqueue an event twice (SKIP LOCKED and the stamp together).
OneHolder ==
  \A d, e \in Dispatchers : d # e => claimed[d] \cap claimed[e] = {}

\* A stamped row is in exactly one place: on the queue, in the memory of the
\* run that stamped it, or lost with a run that died.
StampedIsAccountedFor ==
  \A r \in published :
    LET queued == adds[r] = 1
        held   == \E d \in Dispatchers : pc[d] = "adding" /\ r \in claimed[d]
        lost   == r \in dropped
    IN  /\ adds[r] <= 1
        /\ queued \/ held \/ lost
        /\ ~(queued /\ held) /\ ~(queued /\ lost) /\ ~(held /\ lost)

\* Refinement: queue.add is called for committed events only, and for none of
\* them a second time, by whichever run.
Promise == INSTANCE EventRelay WITH
             Events <- Rows, committed <- {r \in Rows : Exists(r)}, relays <- adds

RelaysAtMostOnce == Promise!AtMostOnce

\* Oldest first and in batches, every committed event is claimed in the end,
\* however many arrive, whichever runs die.
EveryEventIsClaimed == \A r \in Rows : Exists(r) ~> r \in published

\* The dispatcher "will always eventually find and relay any event that was
\* committed, even after a crash" (docs/ARCHITECTURE.md).
EveryEventIsRelayed == Promise!EventuallyRelayed
=============================================================================
