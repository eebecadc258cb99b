--------------------------- MODULE CircuitBreaker ---------------------------
(***************************************************************************)
(* CircuitBreaker of src/infrastructure/resilience/circuit_breaker.py,     *)
(* shared by concurrent calls of execute.  A call suspends in func only:   *)
(* _can_execute runs in the step that admits it, and the record of its     *)
(* outcome in the step that ends it, when the breaker may have changed.    *)
(* A rejected call changes nothing.                                        *)
(***************************************************************************)
EXTENDS Integers, FiniteSets

CONSTANTS
    Calls,               \* tasks that call execute, one call after another
    FailureThreshold, SuccessThreshold, HalfOpenMaxCalls,
    MaxCancels           \* bound of the model: how many calls are cancelled

(* The configuration has no such check; its defaults are 5, 2 and 3.       *)
ASSUME ConfigAssumption ==
    /\ FailureThreshold \in Nat \ {0} /\ SuccessThreshold \in Nat \ {0}
    /\ HalfOpenMaxCalls \in Nat /\ SuccessThreshold <= HalfOpenMaxCalls
    /\ MaxCancels \in Nat /\ IsFiniteSet(Calls)

VARIABLES
    state,
    failures,        \* _failure_count, up to FailureThreshold
    successes,       \* _success_count
    halfOpenCalls,   \* _half_open_calls
    elapsed,         \* has the timeout passed since _last_failure_time?
    inCall,          \* calls suspended in func
    probes,          \* history: those admitted in the present HALF_OPEN period
    lost,            \* history: the probes of this period that were cancelled
    cancels

counters == <<failures, successes, halfOpenCalls>>
vars == <<state, counters, elapsed, inCall, probes, lost, cancels>>

TypeOK ==
    /\ state \in {"CLOSED", "OPEN", "HALF_OPEN"}
    /\ failures \in 0 .. FailureThreshold
    /\ successes \in 0 .. SuccessThreshold
    /\ halfOpenCalls \in 0 .. HalfOpenMaxCalls
    /\ elapsed \in BOOLEAN
    /\ inCall \subseteq Calls /\ probes \subseteq inCall
    /\ lost \in Nat /\ cancels \in Nat

Init ==
    /\ state = "CLOSED"
    /\ failures = 0 /\ successes = 0 /\ halfOpenCalls = 0
    /\ elapsed = FALSE
    /\ inCall = {} /\ probes = {} /\ lost = 0 /\ cancels = 0

(* _record_failure adds one for ever; beyond the threshold nothing looks   *)
(* at the number again.                                                    *)
OneMoreFailure == IF failures < FailureThreshold THEN failures + 1 ELSE failures

-----------------------------------------------------------------------------

(* _check_timeout, when it makes the breaker HALF_OPEN.                    *)
TimeoutOver == state = "OPEN" /\ elapsed

AdmitClosed(c) ==
    /\ state = "CLOSED" /\ c \notin inCall
    /\ inCall' = inCall \cup {c}
    /\ UNCHANGED <<state, counters, elapsed, probes, lost, cancels>>

(* Wrong variant: the call that ends OPEN takes no permit.                 *)
AdmitFirstProbeUncounted(c) ==
    /\ TimeoutOver /\ c \notin inCall
    /\ state' = "HALF_OPEN" /\ successes' = 0 /\ halfOpenCalls' = 0
    /\ inCall' = inCall \cup {c}
    /\ probes' = {c} /\ lost' = 0
    /\ UNCHANGED <<failures, elapsed, cancels>>

AdmitFirstProbe(c) ==
    /\ TimeoutOver /\ c \notin inCall
    /\ state' = "HALF_OPEN" /\ successes' = 0 /\ halfOpenCalls' = 1
    /\ inCall' = inCall \cup {c}
    /\ probes' = {c} /\ lost' = 0
    /\ UNCHANGED <<failures, elapsed, cancels>>

AdmitProbe(c) ==
    /\ state = "HALF_OPEN" /\ c \notin inCall
    /\ halfOpenCalls < HalfOpenMaxCalls
    /\ halfOpenCalls' = halfOpenCalls + 1
    /\ inCall' = inCall \cup {c} /\ probes' = probes \cup {c}
    /\ UNCHANGED <<state, failures, successes, elapsed, lost, cancels>>

(* Somebody reads the state property.                                      *)
ReadState ==
    /\ TimeoutOver
    /\ state' = "HALF_OPEN" /\ successes' = 0 /\ halfOpenCalls' = 0
    /\ probes' = {} /\ lost' = 0
    /\ UNCHANGED <<failures, elapsed, inCall, cancels>>

Leave(c) == inCall' = inCall \ {c} /\ probes' = probes \ {c}

(* Wrong variant: the failure counter is not reset when the breaker closes. *)
RecordSuccessKeepsFailures ==
    IF state = "HALF_OPEN"
    THEN /\ successes' = IF successes + 1 >= SuccessThreshold THEN 0 ELSE successes + 1
         /\ state' = IF successes + 1 >= SuccessThreshold THEN "CLOSED" ELSE state
         /\ UNCHANGED failures
    ELSE failures' = 0 /\ UNCHANGED <<state, successes>>

(* Whichever call it is of: one that was admitted while CLOSED and returns *)
(* late counts in HALF_OPEN like a probe.                                  *)
RecordSuccess ==
    IF state # "HALF_OPEN"
    THEN failures' = 0 /\ UNCHANGED <<state, successes>>
    ELSE IF successes + 1 >= SuccessThreshold
    THEN state' = "CLOSED" /\ failures' = 0 /\ successes' = 0
    ELSE successes' = successes + 1 /\ UNCHANGED <<state, failures>>

(* Wrong variant: a failed probe does not open the breaker again.          *)
RecordFailureOnlyCounts ==
    /\ failures' = OneMoreFailure
    /\ elapsed' = FALSE
    /\ state' = IF state = "CLOSED" /\ failures' >= FailureThreshold THEN "OPEN" ELSE state

RecordFailure ==
    /\ failures' = OneMoreFailure
    /\ elapsed' = FALSE
    /\ state' = IF state = "HALF_OPEN" \/ OneMoreFailure >= FailureThreshold
                THEN "OPEN" ELSE state

Succeeds(c) ==
    /\ c \in inCall
    /\ RecordSuccess /\ Leave(c)
    /\ UNCHANGED <<halfOpenCalls, elapsed, lost, cancels>>

Fails(c) ==
    /\ c \in inCall
    /\ RecordFailure /\ Leave(c)
    /\ UNCHANGED <<successes, halfOpenCalls, lost, cancels>>

(* CancelledError is no Exception: nothing is recorded, and a half-open    *)
(* permit is not given back.                                               *)
Cancel(c) ==
    /\ c \in inCall /\ cancels < MaxCancels
    /\ cancels' = cancels + 1
    /\ lost' = IF c \in probes THEN lost + 1 ELSE lost
    /\ Leave(c)
    /\ UNCHANGED <<state, counters, elapsed>>

TimeoutPasses ==
    /\ ~elapsed /\ elapsed' = TRUE
    /\ UNCHANGED <<state, counters, inCall, probes, lost, cancels>>

Admit(c) == AdmitClosed(c) \/ AdmitFirstProbe(c) \/ AdmitProbe(c)
Return(c) == Succeeds(c) \/ Fails(c)

Next ==
    \/ \E c \in Calls : Admit(c) \/ Return(c) \/ Cancel(c)
    \/ ReadState \/ TimeoutPasses

Spec == Init /\ [][Next]_vars

-----------------------------------------------------------------------------
(* Properties.                                                             *)

(* A breaker lets calls through only on evidence: CLOSED means fewer       *)
(* failures than the threshold since the last success, HALF_OPEN fewer     *)
(* successes than it takes to close, however late calls of an earlier      *)
(* period record theirs.                                                   *)
CountersMatchState ==
    /\ state = "CLOSED" => failures < FailureThreshold
    /\ state = "HALF_OPEN" => successes < SuccessThreshold

(* A recovering service sees at most half_open_max_calls probes at a time, *)
(* and those that were lost count as well.                                 *)
ProbesBounded ==
    state = "HALF_OPEN" => Cardinality(probes) + lost <= HalfOpenMaxCalls

(* The breaker is never stuck: it leaves OPEN, and it leaves HALF_OPEN     *)
(* unless so many probes were cancelled that the rest cannot close it.     *)
NeverStuck ==
    /\ state = "OPEN" ~> state # "OPEN"
    /\ state = "HALF_OPEN" ~>
          (state # "HALF_OPEN" \/ lost > HalfOpenMaxCalls - SuccessThreshold)
=============================================================================
