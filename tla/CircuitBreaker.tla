--------------------------- MODULE CircuitBreaker ---------------------------
(***************************************************************************)
(* The circuit breaker of a fulfilment provider                            *)
(* (apps/worker/src/common/circuit-breaker.ts) and the jobs of one worker  *)
(* process that share it (process-fulfillment-job.ts; the worker runs five *)
(* at a time).  The breaker lives in memory and its methods do not wait,   *)
(* so each is one step; what a job does between asking and reporting takes *)
(* as long as the provider likes, and the breaker may have changed by      *)
(* then.  Real time is elapsed, which counts up to OpenDuration, the only  *)
(* value the code compares it with; the failure count likewise stops at    *)
(* FailureThreshold.                                                       *)
(***************************************************************************)
EXTENDS Naturals, FiniteSets

CONSTANTS
  Callers,           \* the jobs a worker processes side by side
  FailureThreshold,  \* options.failureThreshold
  OpenDuration       \* options.openDurationMs, in ticks

ASSUME ThresholdAssumption == FailureThreshold \in Nat \ {0}
ASSUME DurationAssumption == OpenDuration \in Nat \ {0}

VARIABLES
  state,                \* this.state
  consecutiveFailures,  \* this.consecutiveFailures, up to FailureThreshold
  elapsed,              \* now() - this.openedAt, up to OpenDuration
  pc                    \* what each job is doing; a "probing" job was let
                        \* through by a half-open breaker

vars == <<state, consecutiveFailures, elapsed, pc>>

TypeOK ==
  /\ state \in {"closed", "open", "half-open"}
  /\ consecutiveFailures \in 0 .. FailureThreshold
  /\ elapsed \in 0 .. OpenDuration
  /\ pc \in [Callers -> {"idle", "calling", "probing", "recorded"}]

Init ==
  /\ state = "closed"
  /\ consecutiveFailures = 0
  /\ elapsed = 0
  /\ pc = [c \in Callers |-> "idle"]

-----------------------------------------------------------------------------
Cooled == elapsed = OpenDuration

\* Mutant: an attempt that is turned away starts the cool-down again.
MutantRefusalRestarts(c) ==
  /\ pc[c] = "idle"
  /\ IF state = "open"
     THEN IF Cooled THEN /\ pc' = [pc EXCEPT ![c] = "probing"]
                         /\ state' = "half-open"
                         /\ UNCHANGED elapsed
                    ELSE /\ elapsed' = 0
                         /\ UNCHANGED <<pc, state>>
     ELSE /\ pc' = [pc EXCEPT ![c] = "calling"]
          /\ UNCHANGED <<state, elapsed>>
  /\ UNCHANGED consecutiveFailures

\* canAttempt() answers true.  When it answers false nothing changes and the
\* job sends its item to manual review.
CanAttempt(c) ==
  /\ pc[c] = "idle"
  /\ \/ /\ state = "closed"
        /\ pc' = [pc EXCEPT ![c] = "calling"]
        /\ UNCHANGED state
     \/ /\ state = "half-open" \/ (state = "open" /\ Cooled)
        /\ pc' = [pc EXCEPT ![c] = "probing"]
        /\ state' = "half-open"
  /\ UNCHANGED <<consecutiveFailures, elapsed>>

InFlight(c) == pc[c] \in {"calling", "probing"}

\* Mutant: a success clears the count but does not close the breaker.
MutantStaysHalfOpen(c) ==
  /\ InFlight(c)
  /\ consecutiveFailures' = 0
  /\ pc' = [pc EXCEPT ![c] = "recorded"]
  /\ UNCHANGED <<state, elapsed>>

\* The provider has answered, whatever the answer was.
RecordSuccess(c) ==
  /\ InFlight(c)
  /\ consecutiveFailures' = 0
  /\ state' = "closed"
  /\ pc' = [pc EXCEPT ![c] = "recorded"]
  /\ UNCHANGED elapsed

CountedFailures ==
  IF consecutiveFailures < FailureThreshold THEN consecutiveFailures + 1
                                            ELSE FailureThreshold

\* Mutant: one failure too many.
MutantTripsLate ==
  state = "half-open" \/ consecutiveFailures = FailureThreshold

Trips == state = "half-open" \/ CountedFailures = FailureThreshold

\* The reservation or the provider threw, or the transaction that stores an
\* answer did, after recordSuccess.
RecordFailure(c) ==
  /\ InFlight(c) \/ pc[c] = "recorded"
  /\ consecutiveFailures' = CountedFailures
  /\ state' = IF Trips THEN "open" ELSE state
  /\ elapsed' = IF Trips THEN 0 ELSE elapsed
  /\ pc' = [pc EXCEPT ![c] = "idle"]

\* The job goes on to its next item: the answer is stored, or there was no
\* code to reserve and the breaker hears nothing of the attempt.
MoveOn(c) ==
  /\ pc[c] # "idle"
  /\ pc' = [pc EXCEPT ![c] = "idle"]
  /\ UNCHANGED <<state, consecutiveFailures, elapsed>>

\* Time passes.
Tick ==
  /\ state = "open"
  /\ ~Cooled
  /\ elapsed' = elapsed + 1
  /\ UNCHANGED <<state, consecutiveFailures, pc>>

Next == Tick \/ \E c \in Callers :
                  CanAttempt(c) \/ RecordSuccess(c) \/ RecordFailure(c) \/ MoveOn(c)

Spec == Init /\ [][Next]_vars

\* Time passes, jobs keep coming, every attempt ends, and not every attempt
\* ends before the provider is asked.
Fairness ==
  /\ WF_vars(Tick)
  /\ \A c \in Callers :
       /\ WF_vars(CanAttempt(c))
       /\ SF_vars(RecordSuccess(c) \/ (InFlight(c) /\ RecordFailure(c)))
       /\ WF_vars(RecordFailure(c) \/ MoveOn(c))

FairSpec == Spec /\ Fairness

-----------------------------------------------------------------------------
(***************************************************************************)
(* Properties.                                                             *)
(***************************************************************************)

\* The state and the count never disagree, in whatever order late answers of
\* several jobs come in: the breaker is closed exactly while fewer than
\* FailureThreshold failures have been recorded since the last success.
ClosedBelowThreshold == state = "closed" <=> consecutiveFailures < FailureThreshold

\* An open breaker does not stay shut: late failures of the calls still in
\* flight may start its cool-down again, but not for ever.
OpeningEnds == state = "open" ~> state # "open"

\* Unless failures keep coming, the breaker ends up closed for good.
HealthyProviderClosesIt ==
  []<><<\E c \in Callers : RecordFailure(c)>>_vars \/ <>[](state = "closed")

\* After the cool-down the breaker "lets a single probe through (half-open)"
\* (circuit-breaker.ts).
SingleProbe == Cardinality({c \in Callers : pc[c] = "probing"}) <= 1
=============================================================================
