----------------------------- MODULE Resilience -----------------------------
(***************************************************************************)
(* The composition of src/infrastructure/resilience that                   *)
(* docs/layers/infrastructure/resilience.md calls ResilientClient: a       *)
(* circuit breaker around a Retry around a Timeout around a Bulkhead, next *)
(* to calls that use the same breaker by itself.  A call suspends while it *)
(* waits for a permit of the bulkhead, in func and in the backoff of the   *)
(* retry.  The semaphore is that of asyncio: it hands a permit to the      *)
(* waiter that came first, who has it before it runs again.                *)
(***************************************************************************)
EXTENDS CircuitBreaker, Sequences, SequencesExt

CONSTANTS
    Layered,         \* the calls that pass all layers
    MaxConcurrent,   \* of the bulkhead
    MaxAttempts      \* of the retry

ASSUME LayersAssumption ==
    Layered \subseteq Calls /\ MaxConcurrent \in Nat /\ MaxAttempts \in Nat \ {0}

VARIABLES
    place,       \* where each layered call is suspended
    attempt,     \* the attempt of its retry
    current,     \* _current_concurrent
    free,        \* the value of the semaphore
    waiters,     \* calls that wait for a permit, in the order they came,
    granted,     \* and those among them that have been handed one
    failedInRow  \* history: calls in a row, up to the threshold, that failed
                 \* for their callers while the breaker was CLOSED

bulkheadVars == <<current, free, waiters, granted>>
layerVars == <<place, attempt, bulkheadVars>>
resilienceVars == <<vars, layerVars, failedInRow>>

ResilienceTypeOK ==
    /\ TypeOK
    /\ place \in [Layered -> {"out", "queue", "func", "sleep"}]
    /\ attempt \in [Layered -> 0 .. MaxAttempts]
    /\ current \in Nat /\ free \in Nat
    /\ waiters \in Seq(Layered) /\ granted \subseteq Layered
    /\ failedInRow \in 0 .. FailureThreshold

ResilienceInit ==
    /\ Init
    /\ place = [c \in Layered |-> "out"] /\ attempt = [c \in Layered |-> 0]
    /\ current = 0 /\ free = MaxConcurrent /\ waiters = <<>> /\ granted = {}
    /\ failedInRow = 0

Goes(c, p) == place' = [place EXCEPT ![c] = p]

-----------------------------------------------------------------------------
(* Bulkhead.                                                               *)

(* _wake_up_next, with v permits, q the calls that wait and g those that   *)
(* have one already: the first that has none gets it.                      *)
WakeUpNext(v, q, g) ==
    \/ /\ \A i \in DOMAIN q : q[i] \in g
       /\ free' = v /\ granted' = g
    \/ \E i \in DOMAIN q :
          /\ q[i] \notin g /\ \A j \in 1 .. i - 1 : q[j] \in g
          /\ free' = v - 1 /\ granted' = g \cup {q[i]}

(* c takes itself off the queue, which becomes rest.                       *)
QueueWithout(c, rest) ==
    \E i \in DOMAIN waiters : waiters[i] = c /\ rest = RemoveAt(waiters, i)

(* acquire: at once when a permit is free and nobody waits.                *)
Acquire(c) ==
    IF free > 0 /\ waiters = <<>>
    THEN /\ Goes(c, "func")
         /\ free' = free - 1 /\ current' = current + 1
         /\ UNCHANGED <<waiters, granted>>
    ELSE /\ Goes(c, "queue") /\ waiters' = Append(waiters, c)
         /\ UNCHANGED <<current, free, granted>>

(* release, in the finally of acquire_context.                             *)
Release ==
    IF current > 0
    THEN /\ current' = current - 1 /\ WakeUpNext(free + 1, waiters, granted)
         /\ UNCHANGED waiters
    ELSE UNCHANGED bulkheadVars

(* A wait that is cut short gives a permit it was handed to the next.      *)
LeaveQueue(c) ==
    /\ QueueWithout(c, waiters')
    /\ IF c \in granted THEN WakeUpNext(free + 1, waiters', granted \ {c})
       ELSE UNCHANGED <<free, granted>>
    /\ UNCHANGED current

(* Wrong variant: a call that is cancelled in func keeps its permit.       *)
CutShortUnreleased(c) ==
    \/ place[c] = "queue" /\ LeaveQueue(c)
    \/ place[c] \in {"func", "sleep"} /\ UNCHANGED bulkheadVars

(* CancelledError, of the call or from the time limit of Timeout.          *)
CutShort(c) ==
    \/ place[c] = "queue" /\ LeaveQueue(c)
    \/ place[c] = "func" /\ Release
    \/ place[c] = "sleep" /\ UNCHANGED bulkheadVars

-----------------------------------------------------------------------------
(* Retry and Timeout.                                                      *)

(* What the caller of the breaker gets is good, or holds an Err.           *)
Noted(good) ==
    failedInRow' =
        IF good \/ state # "CLOSED" \/ state' # "CLOSED" THEN 0
        ELSE IF failedInRow < FailureThreshold THEN failedInRow + 1 ELSE failedInRow

(* Neither Retry nor Timeout raises: whatever they return, the breaker     *)
(* records a success.                                                      *)
StackReturns(c, good) ==
    /\ Succeeds(c) /\ Noted(good)
    /\ Goes(c, "out") /\ attempt' = [attempt EXCEPT ![c] = 0]

(* An exception, of func or BulkheadRejectedError, passes Timeout and      *)
(* makes Retry wait for its next attempt, unless it was the last.          *)
AttemptRaises(c) ==
    \/ /\ attempt[c] < MaxAttempts
       /\ Goes(c, "sleep") /\ UNCHANGED <<vars, attempt, failedInRow>>
    \/ attempt[c] = MaxAttempts /\ StackReturns(c, FALSE)

BeginLayered(c) ==
    /\ Admit(c)
    /\ Acquire(c) /\ attempt' = [attempt EXCEPT ![c] = 1]
    /\ UNCHANGED failedInRow

(* Who comes while a call is still to take its permit waits behind it,     *)
(* even if another permit is free: the call that runs passes that one on.  *)
PermitArrives(c) ==
    /\ place[c] = "queue" /\ c \in granted
    /\ Goes(c, "func") /\ current' = current + 1
    /\ QueueWithout(c, waiters')
    /\ IF free > 0 THEN WakeUpNext(free, waiters', granted \ {c})
       ELSE granted' = granted \ {c} /\ UNCHANGED free
    /\ UNCHANGED <<vars, attempt, failedInRow>>

(* max_wait_seconds are over, perhaps as the permit comes.                 *)
WaitTimesOut(c) ==
    /\ place[c] = "queue"
    /\ LeaveQueue(c) /\ AttemptRaises(c)

FuncReturns(c) ==
    /\ place[c] = "func"
    /\ Release /\ StackReturns(c, TRUE)

FuncRaises(c) ==
    /\ place[c] = "func"
    /\ Release /\ AttemptRaises(c)

(* Timeout answers Err, which Retry takes for a result; a TimeoutError of  *)
(* func is taken for one of its own.                                       *)
TimeLimit(c) ==
    /\ place[c] \in {"queue", "func"}
    /\ CutShort(c) /\ StackReturns(c, FALSE)

BackoffEnds(c) ==
    /\ place[c] = "sleep"
    /\ Acquire(c) /\ attempt' = [attempt EXCEPT ![c] = @ + 1]
    /\ UNCHANGED <<vars, failedInRow>>

CancelLayered(c) ==
    /\ Cancel(c) /\ CutShort(c)
    /\ Goes(c, "out") /\ attempt' = [attempt EXCEPT ![c] = 0]
    /\ UNCHANGED failedInRow

FuncEnds(c) == FuncReturns(c) \/ FuncRaises(c)

LayeredStep(c) ==
    \/ BeginLayered(c) \/ PermitArrives(c) \/ WaitTimesOut(c) \/ FuncEnds(c)
    \/ TimeLimit(c) \/ BackoffEnds(c) \/ CancelLayered(c)

-----------------------------------------------------------------------------

BeginDirect(c) == Admit(c) /\ UNCHANGED <<layerVars, failedInRow>>

DirectReturns(c) ==
    /\ \/ Succeeds(c) /\ Noted(TRUE)
       \/ Fails(c) /\ Noted(FALSE)
    /\ UNCHANGED layerVars

CancelDirect(c) == Cancel(c) /\ UNCHANGED <<layerVars, failedInRow>>

StateIsRead == ReadState /\ UNCHANGED <<layerVars, failedInRow>>

TimePasses == TimeoutPasses /\ UNCHANGED <<layerVars, failedInRow>>

ResilienceNext ==
    \/ \E c \in Layered : LayeredStep(c)
    \/ \E c \in Calls \ Layered : BeginDirect(c) \/ DirectReturns(c) \/ CancelDirect(c)
    \/ StateIsRead \/ TimePasses

ResilienceSpec == ResilienceInit /\ [][ResilienceNext]_resilienceVars

Proceeds(c) == BeginLayered(c) \/ PermitArrives(c) \/ FuncEnds(c) \/ BackoffEnds(c)
ProceedsDirect(c) == BeginDirect(c) \/ DirectReturns(c)

(* Calls keep coming, func ends and time passes.  Waits need not time out: *)
(* the permits that others give back must be enough.                       *)
FairResilience ==
    /\ ResilienceSpec /\ WF_resilienceVars(TimePasses)
    /\ \A c \in Layered : WF_resilienceVars(Proceeds(c))
    /\ \A c \in Calls \ Layered : WF_resilienceVars(ProceedsDirect(c))

-----------------------------------------------------------------------------
(* Properties.                                                             *)

(* Counter and semaphore stay in step, however waits end as a permit       *)
(* arrives: every permit is free, handed over or with a call in func,      *)
(* which the counter counts, and none stays free while a call waits for    *)
(* one, unless a call about to take its permit will pass it on.            *)
PermitsInStep ==
    /\ current = Cardinality({c \in Layered : place[c] = "func"})
    /\ free + Cardinality(granted) + current = MaxConcurrent
    /\ granted \subseteq {c \in Layered : place[c] = "queue"}
    /\ free > 0 /\ granted = {} => \A c \in Layered : place[c] # "queue"

(* "failure_threshold: int = 5  # Failures to open": after that many       *)
(* failed calls in a row the breaker of a ResilientClient is not CLOSED.   *)
OpensOnFailures == state = "CLOSED" => failedInRow < FailureThreshold
=============================================================================
