----------------------------- MODULE RedisClient -----------------------------
(***************************************************************************)
(* RedisOperations over RedisConnection, of src/infrastructure/redis: each *)
(* command asks the client's circuit breaker, and goes to Redis or to the  *)
(* fallback in memory; a command that fails goes to the fallback as well.  *)
(* A task suspends only while Redis has its command: the breaker and the   *)
(* fallback never wait for their locks.  The connection is up, which it    *)
(* stays once connect has succeeded.  One key is modelled, with the values *)
(* it may hold; Redis is external.                                         *)
(***************************************************************************)
EXTENDS Integers, FiniteSets

CONSTANTS
    Tasks, Values, NoValue,
    FailureThreshold, HalfOpenMaxCalls,
    MaxRedisFaults, MaxExpiries
        \* bounds of the model: commands that fail, values that expire

ASSUME RedisAssumption ==
    /\ NoValue \notin Values
    /\ FailureThreshold \in Nat \ {0} /\ HalfOpenMaxCalls \in Nat
    /\ MaxRedisFaults \in Nat /\ MaxExpiries \in Nat

VARIABLES
    circuit,        \* _state of the breaker,
    failures,       \* _failure_count, up to the threshold,
    halfOpenCalls,  \* _half_open_calls
    elapsed,        \* OPEN, has reset_timeout passed since the last failure?
    copy,           \* what Redis and the fallback hold
    command,        \* the command each task awaits
    argument,       \* the value it sets
    acted,          \* tasks whose command Redis has carried out
    answer,         \* what it answered to a get still to return
    probes,         \* history: tasks let through in this HALF_OPEN period,
    lost,           \* and how many of them were cancelled
    redisFaults, expiries

breakerVars == <<circuit, failures, halfOpenCalls, elapsed, probes, lost>>
commandVars == <<command, argument, acted, answer>>
redisVars == <<breakerVars, copy, commandVars, redisFaults, expiries>>

Copies == {"redis", "fallback"}
Commands == {"get", "set", "delete", "deleteOther"}

RedisTypeOK ==
    /\ circuit \in {"CLOSED", "OPEN", "HALF_OPEN"}
    /\ failures \in 0 .. FailureThreshold /\ halfOpenCalls \in Nat /\ elapsed \in BOOLEAN
    /\ copy \in [Copies -> Values \cup {NoValue}]
    /\ command \in [Tasks -> Commands \cup {"none"}]
    /\ argument \in [Tasks -> Values \cup {NoValue}]
    /\ acted \subseteq Tasks /\ answer \in [Tasks -> Values \cup {NoValue}]
    /\ probes \subseteq Tasks /\ lost \in Nat
    /\ redisFaults \in Nat /\ expiries \in Nat

RedisInit ==
    /\ circuit = "CLOSED" /\ failures = 0 /\ halfOpenCalls = 0 /\ elapsed = FALSE
    /\ copy = [c \in Copies |-> NoValue]
    /\ command = [t \in Tasks |-> "none"] /\ argument = [t \in Tasks |-> NoValue]
    /\ acted = {} /\ answer = [t \in Tasks |-> NoValue]
    /\ probes = {} /\ lost = 0 /\ redisFaults = 0 /\ expiries = 0

-----------------------------------------------------------------------------
(* The breaker.                                                            *)

ResetOver == circuit = "OPEN" /\ elapsed

CanExecute ==
    \/ circuit = "CLOSED"
    \/ ResetOver
    \/ circuit = "HALF_OPEN" /\ halfOpenCalls < HalfOpenMaxCalls

(* Wrong variant: the probes of an earlier period are still counted.       *)
AdmitWithOldCount(t) ==
    \/ circuit = "CLOSED" /\ UNCHANGED breakerVars
    \/ /\ ResetOver
       /\ circuit' = "HALF_OPEN" /\ elapsed' = FALSE
       /\ probes' = {t} /\ lost' = 0
       /\ UNCHANGED <<failures, halfOpenCalls>>
    \/ /\ circuit = "HALF_OPEN" /\ halfOpenCalls < HalfOpenMaxCalls
       /\ halfOpenCalls' = halfOpenCalls + 1 /\ probes' = probes \cup {t}
       /\ UNCHANGED <<circuit, failures, elapsed, lost>>

(* can_execute lets t through.  The call that ends OPEN is not counted.    *)
Admit(t) ==
    \/ circuit = "CLOSED" /\ UNCHANGED breakerVars
    \/ /\ ResetOver
       /\ circuit' = "HALF_OPEN" /\ halfOpenCalls' = 0 /\ elapsed' = FALSE
       /\ probes' = {t} /\ lost' = 0
       /\ UNCHANGED failures
    \/ /\ circuit = "HALF_OPEN" /\ halfOpenCalls < HalfOpenMaxCalls
       /\ halfOpenCalls' = halfOpenCalls + 1 /\ probes' = probes \cup {t}
       /\ UNCHANGED <<circuit, failures, elapsed, lost>>

(* Any late success closes a HALF_OPEN breaker; OPEN ignores it.           *)
RecordSuccess(t) ==
    /\ circuit' = IF circuit = "HALF_OPEN" THEN "CLOSED" ELSE circuit
    /\ failures' = IF circuit = "OPEN" THEN failures ELSE 0
    /\ probes' = probes \ {t}
    /\ UNCHANGED <<halfOpenCalls, elapsed, lost>>

RecordFailure(t) ==
    LET count == IF failures < FailureThreshold THEN failures + 1 ELSE failures
    IN  /\ failures' = count /\ elapsed' = FALSE
        /\ circuit' = IF \/ circuit = "HALF_OPEN"
                         \/ circuit = "CLOSED" /\ count >= FailureThreshold
                      THEN "OPEN" ELSE circuit
        /\ probes' = probes \ {t}
        /\ UNCHANGED <<halfOpenCalls, lost>>

(* Whichever failure opens the breaker starts the clock anew.              *)
TimeoutPasses ==
    /\ circuit = "OPEN" /\ ~elapsed /\ elapsed' = TRUE
    /\ UNCHANGED <<circuit, failures, halfOpenCalls, probes, lost, copy, commandVars,
                   redisFaults, expiries>>

-----------------------------------------------------------------------------
(* Commands.                                                               *)

(* What command op does to one copy.                                       *)
After(op, held, v) ==
    CASE op = "set" -> v [] op = "delete" -> NoValue [] OTHER -> held

(* A get served by the fallback returns what it holds.                     *)
OnFallback(op, v) == copy' = [copy EXCEPT !["fallback"] = After(op, @, v)]

(* A command starts, and is served by the fallback at once when the        *)
(* breaker does not let it through.                                        *)
StartCommand(t, op, v) ==
    /\ command[t] = "none"
    /\ IF CanExecute
       THEN /\ Admit(t)
            /\ command' = [command EXCEPT ![t] = op] /\ argument' = [argument EXCEPT ![t] = v]
            /\ UNCHANGED copy
       ELSE OnFallback(op, v) /\ UNCHANGED <<breakerVars, command, argument>>
    /\ UNCHANGED <<acted, answer, redisFaults, expiries>>

(* Redis carries the command out; a get sees what it will return.          *)
RedisActs(t) ==
    /\ command[t] # "none" /\ t \notin acted
    /\ acted' = acted \cup {t}
    /\ copy' = [copy EXCEPT !["redis"] = After(command[t], @, argument[t])]
    /\ answer' = IF command[t] = "get" THEN [answer EXCEPT ![t] = copy["redis"]] ELSE answer
    /\ UNCHANGED <<breakerVars, command, argument, redisFaults, expiries>>

Ends(t) ==
    /\ command' = [command EXCEPT ![t] = "none"] /\ argument' = [argument EXCEPT ![t] = NoValue]
    /\ acted' = acted \ {t} /\ answer' = [answer EXCEPT ![t] = NoValue]

(* Wrong variant: a delete that reached Redis leaves the fallback as it is. *)
CommandReturnsKeepsFallback(t) ==
    /\ t \in acted
    /\ Ends(t) /\ RecordSuccess(t)
    /\ copy' = IF command[t] = "set"
               THEN [copy EXCEPT !["fallback"] = argument[t]] ELSE copy
    /\ UNCHANGED <<redisFaults, expiries>>

(* The answer arrives.  A set and a delete are repeated on the fallback, a *)
(* get leaves it alone.                                                    *)
CommandReturns(t) ==
    /\ t \in acted
    /\ Ends(t) /\ RecordSuccess(t)
    /\ OnFallback(command[t], argument[t])
    /\ UNCHANGED <<redisFaults, expiries>>

(* The client raises, whether Redis had acted or not.                      *)
CommandFails(t) ==
    /\ command[t] # "none" /\ redisFaults < MaxRedisFaults
    /\ redisFaults' = redisFaults + 1
    /\ Ends(t) /\ RecordFailure(t)
    /\ OnFallback(command[t], argument[t])
    /\ UNCHANGED expiries

(* CancelledError is no Exception: the breaker records nothing.            *)
CancelCommand(t) ==
    /\ command[t] # "none"
    /\ Ends(t)
    /\ lost' = IF t \in probes THEN lost + 1 ELSE lost
    /\ probes' = probes \ {t}
    /\ UNCHANGED <<circuit, failures, halfOpenCalls, elapsed, copy, redisFaults, expiries>>

(* A time to live ends, or the fallback evicts its oldest entry.           *)
Expires(c) ==
    /\ copy[c] # NoValue /\ expiries < MaxExpiries
    /\ expiries' = expiries + 1
    /\ copy' = [copy EXCEPT ![c] = NoValue]
    /\ UNCHANGED <<breakerVars, commandVars, redisFaults>>

-----------------------------------------------------------------------------
(* Properties.                                                             *)

(* While HALF_OPEN, the counter says how many calls were let through in    *)
(* this period, the one that ended OPEN left out: calls of earlier periods *)
(* that end late do not disturb it.  The breaker refuses a call only while *)
(* one that it let through is still at Redis, or for ever, when all of     *)
(* them were cancelled.                                                    *)
ProbesAccounted ==
    circuit = "HALF_OPEN" =>
       /\ halfOpenCalls = Cardinality(probes) + lost - 1
       /\ CanExecute \/ probes # {} \/ lost = HalfOpenMaxCalls + 1
       /\ \A t \in probes : command[t] # "none"

(* half_open_max_calls is the "Max calls allowed in half-open state".      *)
ProbeLimitDocumented ==
    circuit = "HALF_OPEN" => Cardinality(probes) + lost <= HalfOpenMaxCalls
=============================================================================
