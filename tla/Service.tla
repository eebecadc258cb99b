------------------------------- MODULE Service -------------------------------
(***************************************************************************)
(* A service put together from the repository's parts: HTTP requests pass  *)
(* ShutdownMiddleware and then IdempotencyMiddleware, whose call_next runs *)
(* PlaceOrderUseCase.execute; an endpoint the middleware leaves alone      *)
(* calls execute_idempotent around the use case itself.  The endpoint      *)
(* answers 2xx for Ok and an error status for Err.  The server, and        *)
(* whether an endpoint can read a request a second time, are external.     *)
(***************************************************************************)
EXTENDS Shutdown

CONSTANTS
    Direct, Keys, KeyOf, Hashes, NoRecord, \* see Idempotency
    MaxRedisFaults, MaxLosses, MaxServiceFaults,
    MaxCancels,       \* bounds of the model: cancelled requests,
    MaxFaultKinds     \* and kinds of trouble in one behaviour

ASSUME ServiceAssumption ==
    /\ Direct \subseteq Requests /\ KeyOf \in [Requests -> Keys]
    /\ NoRecord \notin Requests
    /\ {MaxRedisFaults, MaxLosses, MaxServiceFaults, MaxCancels, MaxFaultKinds} \subseteq Nat

Orders == Requests \X {1, 2}   \* the first and the second run of the operation

VARIABLES
    hash, at, record, answer, excuse, redisFaults, losses,\* of Idempotency
    step, held, charged, created, doubt, serviceFaults,  \* of PlaceOrder
    cancels

I == INSTANCE Idempotency WITH Users <- Requests
P == INSTANCE PlaceOrder

keyVars == <<hash, at, record, answer, excuse, redisFaults, losses>>
orderVars == <<step, held, charged, created, doubt, serviceFaults>>
serviceVars == <<shutdownVars, keyVars, orderVars, cancels>>

ServiceInit == ShutdownInit /\ I!IdempotencyInit /\ P!OrderInit /\ cancels = 0

(* The execution a request is running.                                     *)
Running(r) == <<r, IF at[r] = "again" THEN 2 ELSE 1>>

-----------------------------------------------------------------------------

RequestArrives(r) ==
    /\ Enter(r) \/ Reject(r)
    /\ UNCHANGED <<keyVars, orderVars, cancels>>

RequestLooksUp(r) ==
    /\ r \in serving /\ I!Look(r)
    /\ UNCHANGED <<shutdownVars, orderVars, cancels>>

(* The call that ends the execution also ends call_next.                   *)
OrderRuns(r) ==
    /\ at[r] \in {"run", "again"}
    /\ \E o \in {Running(r)} :
          /\ P!Execute(o)
          /\ \/ step'[o] = "ok" /\ I!OperationReturns(r, TRUE)
             \/ step'[o] = "err" /\ I!OperationReturns(r, FALSE)
             \/ step'[o] = "raised" /\ I!OperationRaises(r)
             \/ step'[o] \in P!Calls /\ UNCHANGED keyVars
    /\ UNCHANGED <<shutdownVars, cancels>>

(* The body was read by the first call: the endpoint is not reached again. *)
SecondCallFails(r) ==
    /\ at[r] = "again" /\ step[<<r, 2>>] = "check"
    /\ I!OperationRaises(r)
    /\ UNCHANGED <<shutdownVars, orderVars, cancels>>

AnswerIsKept(r) ==
    /\ I!Finish(r)
    /\ UNCHANGED <<shutdownVars, orderVars, cancels>>

(* The middleware's finally runs however the request ended.                *)
RequestDeparts(r) ==
    /\ at[r] \in I!Over /\ Leave(r)
    /\ UNCHANGED <<keyVars, orderVars, cancels>>

RequestIsCancelled(r) ==
    /\ cancels < MaxCancels /\ cancels' = cancels + 1
    /\ I!CancelRequest(r)
    /\ \E o \in {Running(r)} :
          \/ P!CancelOrder(o)
          \/ step[o] \notin P!Calls /\ UNCHANGED orderVars
    /\ UNCHANGED shutdownVars

RecordIsLost(k) == I!RecordGone(k) /\ UNCHANGED <<shutdownVars, orderVars, cancels>>

HandlerActs == HandlerStep /\ UNCHANGED <<keyVars, orderVars, cancels>>

(* Failed calls of Redis, lost records, failed service calls, cancelled    *)
(* requests, hooks removed or added late.                                  *)
Troubles == <<redisFaults, losses, serviceFaults, cancels, Cardinality(removed) + late>>

ServiceNext ==
    /\ state # "SHUTDOWN"
    /\ \/ \E r \in Requests :
             \/ RequestArrives(r) \/ RequestLooksUp(r) \/ OrderRuns(r)
             \/ SecondCallFails(r) \/ AnswerIsKept(r)
             \/ RequestIsCancelled(r) \/ RequestDeparts(r)
       \/ \E k \in Keys : RecordIsLost(k)
       \/ HandlerActs
    /\ Cardinality({i \in DOMAIN Troubles : Troubles'[i] > 0}) <= MaxFaultKinds

ServiceSpec == ServiceInit /\ [][ServiceNext]_serviceVars

-----------------------------------------------------------------------------
(* Properties.                                                             *)

(* Every part is in a state of its type.                                   *)
ServiceTypeOK ==
    /\ ShutdownTypeOK /\ I!IdempotencyTypeOK /\ P!OrderTypeOK /\ cancels \in Nat

RolledBack == P!RolledBack

(* Whatever fails and is rolled back in between, the executions under one  *)
(* key leave at most one payment standing, unless two requests overlapped, *)
(* the record could not be read or written or was lost, the middleware ran *)
(* the operation again, a request was cancelled, or a payment or refund    *)
(* failed without telling whether it took place.                           *)
ChargedOnce ==
    \A k \in Keys :
       LET paid == {o \in charged : KeyOf[o[1]] = k}
       IN  \/ Cardinality(paid) <= 1
           \/ excuse[k] # {}
           \/ \E o \in paid : doubt[o] \cap {"pay", "refund"} # {}

(* A replayed answer tells the truth: it is that of an execution for the   *)
(* same content, which had placed its order or, for a direct caller, had   *)
(* failed.                                                                 *)
ReplayIsBacked ==
    \A r \in Requests : at[r] = "replayed" =>
       LET o == <<answer[r], 1>>
       IN  /\ hash[answer[r]] = hash[r] /\ KeyOf[answer[r]] = KeyOf[r]
           /\ \/ step[o] = "ok" /\ o \in held \cap charged \cap created
              \/ step[o] = "err" /\ answer[r] \in Direct
=============================================================================
