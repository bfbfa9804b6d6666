------------------------ MODULE CircuitBreaker_proofs ------------------------
(***************************************************************************)
(* CircuitBreaker, for any number of jobs, any threshold and any duration: *)
(* its state and its failure count always agree.                           *)
(***************************************************************************)
EXTENDS CircuitBreaker, TLAPS

\* Both together are inductive: that a half-open breaker has its count at the
\* threshold is what makes a late failure reopen it and never close it.
BreakerInv == TypeOK /\ ClosedBelowThreshold

\* A breaker starts closed with no failures.
LEMMA InitBreaker == Init => BreakerInv
  BY ThresholdAssumption, DurationAssumption DEF Init, BreakerInv, TypeOK,
     ClosedBelowThreshold

\* Every call of a method, and the passing of time, keeps the two in step.
LEMMA StepBreaker == BreakerInv /\ [Next]_vars => BreakerInv'
<1> SUFFICES ASSUME BreakerInv, [Next]_vars PROVE BreakerInv'
  OBVIOUS
<1> USE ThresholdAssumption, DurationAssumption DEF BreakerInv, TypeOK,
        ClosedBelowThreshold
<1>1. ASSUME NEW c \in Callers, CanAttempt(c) PROVE BreakerInv'
  BY <1>1 DEF CanAttempt, Cooled
<1>2. ASSUME NEW c \in Callers, RecordSuccess(c) PROVE BreakerInv'
  BY <1>2 DEF RecordSuccess
<1>3. ASSUME NEW c \in Callers, RecordFailure(c) PROVE BreakerInv'
  <2>1. CountedFailures \in 0 .. FailureThreshold
    BY DEF CountedFailures
  <2>2. CASE Trips
    <3>1. CountedFailures = FailureThreshold
      BY <2>2 DEF Trips, CountedFailures
    <3> QED BY <1>3, <2>2, <3>1 DEF RecordFailure
  <2>3. CASE ~Trips
    <3>1. CountedFailures < FailureThreshold
      BY <2>1, <2>3 DEF Trips
    <3>2. state = "closed"
      BY <2>3, <3>1 DEF Trips, CountedFailures
    <3> QED BY <1>3, <2>1, <2>3, <3>1, <3>2 DEF RecordFailure
  <2> QED BY <2>2, <2>3
<1>4. ASSUME NEW c \in Callers, MoveOn(c) PROVE BreakerInv'
  BY <1>4 DEF MoveOn
<1>5. CASE Tick
  BY <1>5 DEF Tick, Cooled
<1>6. CASE UNCHANGED vars
  BY <1>6 DEF vars
<1> QED BY <1>1, <1>2, <1>3, <1>4, <1>5, <1>6 DEF Next

\* Whatever late answers come in and in whatever order, the breaker is closed
\* exactly while fewer than FailureThreshold failures have been recorded since
\* the last success (CircuitBreaker.recordFailure and recordSuccess).
THEOREM StateMatchesCount == Spec => []ClosedBelowThreshold
<1>1. BreakerInv => ClosedBelowThreshold
  BY DEF BreakerInv
<1> QED BY <1>1, InitBreaker, StepBreaker, PTL DEF Spec

\* The breaker's variables keep their types: the count and the clock never
\* leave their ranges.
THEOREM BreakerTypes == Spec => []TypeOK
<1>1. BreakerInv => TypeOK
  BY DEF BreakerInv
<1> QED BY <1>1, InitBreaker, StepBreaker, PTL DEF Spec
=============================================================================
