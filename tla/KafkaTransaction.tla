--------------------------- MODULE KafkaTransaction ---------------------------
(***************************************************************************)
(* TransactionalKafkaProducer.transaction of                               *)
(* src/infrastructure/kafka/transaction.py: tasks that share one producer  *)
(* enter the context, send a message and leave it.  The producer tells     *)
(* whether it is in a transaction by a flag of its own, set after begin    *)
(* was awaited and reset when a commit or an abort returns, by whichever   *)
(* task.  aiokafka is external: it begins in READY only, sends and ends a  *)
(* transaction in IN only, and raises otherwise; a send or a commit may    *)
(* also raise by itself and leaves a transaction that can be aborted.  An  *)
(* error after which aiokafka refuses everything, an abort that raises by  *)
(* itself, start and stop, and the state kept for reports are left out.    *)
(***************************************************************************)
EXTENDS Integers

CONSTANTS
    Tasks,
    MaxSendFaults   \* bound of the model: sends and commits that raise

VARIABLES
    inTransaction,  \* _in_transaction
    kafka,          \* the state of aiokafka's transaction
    pending,        \* what was sent in it,
    committed,      \* and in transactions that were committed
    context,        \* where each task is in transaction()
    payload,        \* what each task sends
    overlapped,     \* history: what was sent by tasks in the context at a time
    cut,            \* history: a task was cancelled in the context
    sendFaults

producerVars == <<inTransaction, kafka, pending, committed, context, payload,
                  overlapped, cut, sendFaults>>

Contexts == {"out", "beginning", "open", "sent", "committing", "aborting", "success", "failure"}
Within == {"beginning", "open", "sent", "committing", "aborting"}

ProducerTypeOK(Payloads) ==
    /\ inTransaction \in BOOLEAN
    /\ kafka \in {"READY", "IN", "COMMITTING", "ABORTING"}
    /\ pending \subseteq Payloads /\ committed \subseteq Payloads
    /\ context \in [Tasks -> Contexts] /\ payload \in [Tasks -> Payloads]
    /\ overlapped \subseteq Payloads /\ cut \in BOOLEAN /\ sendFaults \in Nat

ProducerInit(none) ==
    /\ inTransaction = FALSE /\ kafka = "READY"
    /\ pending = {} /\ committed = {}
    /\ context = [t \in Tasks |-> "out"] /\ payload = [t \in Tasks |-> none]
    /\ overlapped = {} /\ cut = FALSE /\ sendFaults = 0

Moves(t, c) == context' = [context EXCEPT ![t] = c]

-----------------------------------------------------------------------------

(* The flag is looked at, and begin_transaction awaited.                   *)
EnterContext(t, what) ==
    /\ context[t] = "out" /\ payload' = [payload EXCEPT ![t] = what]
    /\ IF inTransaction
       THEN Moves(t, "failure") /\ UNCHANGED overlapped
       ELSE LET others == {u \in Tasks : context[u] \in Within}
            IN  /\ Moves(t, "beginning")
                /\ overlapped' = IF others = {} THEN overlapped
                                 ELSE overlapped \cup {what} \cup {payload[u] : u \in others}
    /\ UNCHANGED <<inTransaction, kafka, pending, committed, cut, sendFaults>>

(* The except clause of transaction(): _abort_transaction, whosever the    *)
(* transaction is.  When aiokafka refuses, the flag is reset all the same. *)
FailInto(t) ==
    IF kafka = "IN"
    THEN kafka' = "ABORTING" /\ Moves(t, "aborting") /\ UNCHANGED inTransaction
    ELSE inTransaction' = FALSE /\ Moves(t, "failure") /\ UNCHANGED kafka

Begin(t) ==
    /\ context[t] = "beginning"
    /\ IF kafka = "READY"
       THEN kafka' = "IN" /\ inTransaction' = TRUE /\ Moves(t, "open")
       ELSE FailInto(t)
    /\ UNCHANGED <<pending, committed, payload, overlapped, cut, sendFaults>>

(* send_in_transaction, in whichever transaction is open.                  *)
Send(t) ==
    /\ context[t] = "open"
    /\ IF inTransaction /\ kafka = "IN"
       THEN /\ pending' = pending \cup {payload[t]} /\ Moves(t, "sent")
            /\ UNCHANGED <<inTransaction, kafka>>
       ELSE FailInto(t) /\ UNCHANGED pending
    /\ UNCHANGED <<committed, payload, overlapped, cut, sendFaults>>

SendFails(t) ==
    /\ context[t] = "open" /\ sendFaults < MaxSendFaults
    /\ sendFaults' = sendFaults + 1
    /\ FailInto(t)
    /\ UNCHANGED <<pending, committed, payload, overlapped, cut>>

Commit(t) ==
    /\ context[t] = "sent"
    /\ IF inTransaction /\ kafka = "IN"
       THEN kafka' = "COMMITTING" /\ Moves(t, "committing") /\ UNCHANGED inTransaction
       ELSE FailInto(t)
    /\ UNCHANGED <<pending, committed, payload, overlapped, cut, sendFaults>>

(* The finally clauses of _commit_transaction and _abort_transaction.      *)
CommitReturns(t) ==
    /\ context[t] = "committing" /\ kafka # "COMMITTING"
    /\ inTransaction' = FALSE /\ Moves(t, "success")
    /\ UNCHANGED <<kafka, pending, committed, payload, overlapped, cut, sendFaults>>

(* commit_transaction raises: the flag is reset by the finally clause, and *)
(* the except clause of transaction() aborts.                              *)
CommitFails(t) ==
    /\ context[t] = "committing" /\ kafka = "COMMITTING"
    /\ sendFaults < MaxSendFaults /\ sendFaults' = sendFaults + 1
    /\ inTransaction' = FALSE
    /\ kafka' = "ABORTING" /\ Moves(t, "aborting")
    /\ UNCHANGED <<pending, committed, payload, overlapped, cut>>

(* Wrong variant: an abort leaves the flag set.                            *)
AbortReturnsFlagged(t) ==
    /\ context[t] = "aborting" /\ kafka # "ABORTING"
    /\ Moves(t, "failure")
    /\ UNCHANGED <<inTransaction, kafka, pending, committed, payload, overlapped, cut, sendFaults>>

AbortReturns(t) ==
    /\ context[t] = "aborting" /\ kafka # "ABORTING"
    /\ inTransaction' = FALSE /\ Moves(t, "failure")
    /\ UNCHANGED <<kafka, pending, committed, payload, overlapped, cut, sendFaults>>

(* The broker ends the transaction.                                        *)
KafkaEnds ==
    /\ kafka \in {"COMMITTING", "ABORTING"}
    /\ committed' = IF kafka = "COMMITTING" THEN committed \cup pending ELSE committed
    /\ pending' = {} /\ kafka' = "READY"
    /\ UNCHANGED <<inTransaction, context, payload, overlapped, cut, sendFaults>>

(* CancelledError passes the except clause by: nothing is aborted and the  *)
(* flag stays, unless the task was awaiting a commit or an abort.          *)
CancelContext(t) ==
    /\ context[t] \in Within
    /\ inTransaction' = (inTransaction /\ context[t] \notin {"committing", "aborting"})
    /\ Moves(t, "out") /\ cut' = TRUE
    /\ UNCHANGED <<kafka, pending, committed, payload, overlapped, sendFaults>>

LeaveContext(t) ==
    /\ context[t] \in {"success", "failure"} /\ Moves(t, "out")
    /\ UNCHANGED <<inTransaction, kafka, pending, committed, payload, overlapped, cut, sendFaults>>

TransactionStep(t) ==
    \/ Begin(t) \/ Send(t) \/ SendFails(t)
    \/ Commit(t) \/ CommitReturns(t) \/ CommitFails(t) \/ AbortReturns(t)

-----------------------------------------------------------------------------
(* Properties.                                                             *)

(* The producer does not refuse every transaction for ever: the flag is    *)
(* set only while a task is in the context, unless one was cancelled.      *)
FlagHasOwner ==
    inTransaction => cut \/ \E t \in Tasks : context[t] \in Within \ {"beginning"}
=============================================================================
