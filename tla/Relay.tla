-------------------------------- MODULE Relay --------------------------------
(***************************************************************************)
(* Workers of one RetryQueue whose handler forwards the message in hand to *)
(* Kafka, all through one TransactionalKafkaProducer.  The handler itself  *)
(* is external: it succeeds when its transaction does, and reports the     *)
(* exception of transaction() in any of the ways process_message knows.    *)
(***************************************************************************)
EXTENDS RetryQueue

CONSTANTS NoMessage, MaxSendFaults,
          MaxTroubles   \* bound of the model: faults and requeues together

ASSUME RelayAssumption ==
    NoMessage \notin Messages /\ MaxSendFaults \in Nat /\ MaxTroubles \in Nat

VARIABLES inTransaction, kafka, pending, committed, context, payload,
          overlapped, cut, sendFaults   \* of KafkaTransaction

K == INSTANCE KafkaTransaction WITH Tasks <- Workers

txVars == <<inTransaction, kafka, pending, committed, context, payload,
            overlapped, cut, sendFaults>>
relayVars == <<queueVars, txVars>>

RelayInit == QueueInit /\ K!ProducerInit(NoMessage)

QueueActs == QueueStep /\ UNCHANGED txVars

WorkerActs(w) == WorkerStep(w) /\ UNCHANGED txVars

HandlerStarts(w) ==
    /\ pc[w] = "handling" /\ K!EnterContext(w, InHand(w))
    /\ UNCHANGED queueVars

ProducerActs(w) == K!TransactionStep(w) /\ UNCHANGED queueVars

HandlerEnds(w) ==
    /\ K!LeaveContext(w)
    /\ \/ context[w] = "success" /\ HandlerSucceeds(w)
       \/ context[w] = "failure" /\ \E how \in {"raised", "failed", "hopeless"} : HandlerFails(w, how)

WorkerIsStopped(w) ==
    /\ StopWorker(w)
    /\ \/ context[w] = "out" /\ UNCHANGED txVars
       \/ K!CancelContext(w)

BrokerActs == K!KafkaEnds /\ UNCHANGED queueVars

RelayNext ==
    /\ \/ QueueActs
       \/ \E w \in Workers : \/ WorkerActs(w) \/ HandlerStarts(w) \/ ProducerActs(w)
                             \/ HandlerEnds(w) \/ WorkerIsStopped(w)
       \/ BrokerActs
    /\ used'["requeue"] + used'["hook"] + used'["stop"] + sendFaults' <= MaxTroubles

RelaySpec == RelayInit /\ [][RelayNext]_relayVars

-----------------------------------------------------------------------------
(* Properties.                                                             *)

(* A message a handler succeeded with is in a committed transaction,       *)
(* whatever aborts, retries and cancelled tasks came before: one lost to   *)
(* another task's abort was sent while two tasks were in the context.      *)
CompletedIsCommitted ==
    \A m \in handled : m \in committed \cup overlapped

(* Both halves of what the producer promises.                              *)
TransactionsAreSound == CompletedIsCommitted /\ K!FlagHasOwner

RelayTypeOK == QueueTypeOK /\ K!ProducerTypeOK(Messages \cup {NoMessage})
=============================================================================
