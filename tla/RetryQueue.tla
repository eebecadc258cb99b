----------------------------- MODULE RetryQueue -----------------------------
(***************************************************************************)
(* RetryQueue and InMemoryQueueBackend of                                  *)
(* src/infrastructure/messaging/retry_queue.py, with workers that call     *)
(* process_batch one after another (start is that loop, process_one a      *)
(* batch of one).  The backend never suspends; a worker does in the hooks  *)
(* and in the handler, which is external.  The queue, the dead-letter list *)
(* and the batches hold the same message objects: what one worker writes   *)
(* to a message the others see.                                            *)
(***************************************************************************)
EXTENDS Integers, Sequences, FiniteSets, SequencesExt

CONSTANTS
    Messages, Workers,
    BatchSize, MaxRetries,
    MaxRequeues, MaxHookFaults, MaxStops
        \* bounds of the model: messages taken back from the dead letters,
        \* hooks that raise, workers cancelled in an await

ASSUME QueueAssumption ==
    /\ IsFiniteSet(Messages) /\ BatchSize \in Nat \ {0} /\ MaxRetries \in Nat
    /\ MaxRequeues \in Nat /\ MaxHookFaults \in Nat /\ MaxStops \in Nat

VARIABLES
    queue, dlq,   \* _queue and _dlq
    status, retries,
    due,          \* has next_retry_at passed?
    pc,           \* where each worker is suspended
    batch,        \* what it has left of its batch, the message in hand first
    handled,      \* history: messages a handler succeeded with,
    orphaned,     \* and those whose worker left them PROCESSING
    used          \* requeues, hooks that raised, cancelled workers

messageVars == <<queue, dlq, status, retries, due>>
queueVars == <<messageVars, pc, batch, handled, orphaned, used>>

Uses == {"requeue", "hook", "stop"}

QueueTypeOK ==
    /\ queue \in Seq(Messages) /\ dlq \in Seq(Messages)
    /\ status \in [Messages -> {"NEW", "PENDING", "PROCESSING", "COMPLETED", "DEAD_LETTER"}]
    /\ retries \in [Messages -> 0 .. MaxRetries] /\ due \in [Messages -> BOOLEAN]
    /\ pc \in [Workers -> {"idle", "before", "handling", "parked", "parkedAgain", "after"}]
    /\ batch \in [Workers -> Seq(Messages)]
    /\ handled \subseteq Messages /\ orphaned \subseteq Messages
    /\ used \in [Uses -> Nat]

QueueInit ==
    /\ queue = <<>> /\ dlq = <<>>
    /\ status = [m \in Messages |-> "NEW"] /\ retries = [m \in Messages |-> 0]
    /\ due = [m \in Messages |-> TRUE]
    /\ pc = [w \in Workers |-> "idle"] /\ batch = [w \in Workers |-> <<>>]
    /\ handled = {} /\ orphaned = {} /\ used = [u \in Uses |-> 0]

InHand(w) == Head(batch[w])
At(w, place) == pc' = [pc EXCEPT ![w] = place]
Spend(u, limit) == used[u] < limit /\ used' = [used EXCEPT ![u] = @ + 1]

-----------------------------------------------------------------------------

Enqueue(m) ==
    /\ status[m] = "NEW"
    /\ queue' = Append(queue, m) /\ status' = [status EXCEPT ![m] = "PENDING"]
    /\ UNCHANGED <<dlq, retries, due, pc, batch, handled, orphaned, used>>

(* Worker w goes on with batch b: the next message becomes PROCESSING      *)
(* whatever it has become since dequeue.                                   *)
Continue(w, b) ==
    IF b = <<>>
    THEN At(w, "idle") /\ batch' = [batch EXCEPT ![w] = <<>>] /\ UNCHANGED status
    ELSE /\ At(w, "before") /\ batch' = [batch EXCEPT ![w] = b]
         /\ status' = [status EXCEPT ![Head(b)] = "PROCESSING"]

(* The numbers of S in increasing order, and the elements of the queue at  *)
(* the first n of them.                                                    *)
InOrder(S) ==
    {at \in [1 .. Cardinality(S) -> S] : \A i, j \in DOMAIN at : i < j => at[i] < at[j]}
FromQueue(at, n) == [i \in 1 .. n |-> queue[at[i]]]

Ready(m) == status[m] = "PENDING" /\ due[m]

(* dequeue claims nothing; the first message is taken up at once.          *)
Dequeue(w) ==
    LET ready == {i \in DOMAIN queue : Ready(queue[i])}
        size == Cardinality(ready)
    IN  /\ pc[w] = "idle" /\ ready # {}
        /\ \E at \in InOrder(ready) :
              Continue(w, FromQueue(at, IF size < BatchSize THEN size ELSE BatchSize))
        /\ UNCHANGED <<queue, dlq, retries, due, handled, orphaned, used>>

BeforeHookReturns(w) ==
    /\ pc[w] = "before"
    /\ At(w, "handling")
    /\ UNCHANGED <<messageVars, batch, handled, orphaned, used>>

(* An exception that leaves _process_message ends the batch.  The message  *)
(* in hand stays as it is: PROCESSING if before_process raised.            *)
Abandon(w) ==
    /\ At(w, "idle") /\ batch' = [batch EXCEPT ![w] = <<>>]
    /\ orphaned' = IF pc[w] \in {"before", "handling"} THEN orphaned \cup {InHand(w)} ELSE orphaned
    /\ UNCHANGED <<messageVars, handled>>

HookRaises(w) ==
    /\ pc[w] \in {"before", "parkedAgain", "after"}
    /\ Spend("hook", MaxHookFaults)
    /\ Abandon(w)

StopWorker(w) == pc[w] # "idle" /\ Spend("stop", MaxStops) /\ Abandon(w)

(* The two ways out of a failed attempt.                                   *)
Retry(m) ==
    /\ retries[m] < MaxRetries
    /\ retries' = [retries EXCEPT ![m] = @ + 1]
    /\ status' = [status EXCEPT ![m] = "PENDING"]
    /\ due' = [due EXCEPT ![m] = FALSE]
    /\ UNCHANGED <<queue, dlq>>

(* The queue is rebuilt from what is not m.                                *)
Without(m) ==
    LET others == {i \in DOMAIN queue : queue[i] # m}
    IN  \E at \in InOrder(others) : queue' = FromQueue(at, Cardinality(others))

(* Wrong variant: the message leaves the queue and is kept nowhere.        *)
MoveToNowhere(m) ==
    /\ status' = [status EXCEPT ![m] = "DEAD_LETTER"]
    /\ Without(m)
    /\ UNCHANGED <<dlq, retries, due>>

MoveToDlq(m) ==
    /\ status' = [status EXCEPT ![m] = "DEAD_LETTER"]
    /\ Without(m) /\ dlq' = Append(dlq, m)
    /\ UNCHANGED <<retries, due>>

HandlerSucceeds(w) ==
    /\ pc[w] = "handling"
    /\ status' = [status EXCEPT ![InHand(w)] = "COMPLETED"]
    /\ handled' = handled \cup {InHand(w)} /\ At(w, "after")
    /\ UNCHANGED <<queue, dlq, retries, due, batch, orphaned, used>>

(* It returns a failure, which says whether to retry, or raises.  The      *)
(* on_dlq hook runs inside the try block only in the first case.           *)
HandlerFails(w, how) ==
    /\ pc[w] = "handling"
    /\ \/ how # "hopeless" /\ Retry(InHand(w)) /\ At(w, "after")
       \/ /\ how = "hopeless" \/ retries[InHand(w)] >= MaxRetries
          /\ MoveToDlq(InHand(w))
          /\ At(w, IF how = "raised" THEN "parkedAgain" ELSE "parked")
    /\ UNCHANGED <<batch, handled, orphaned, used>>

DlqHookReturns(w) ==
    /\ pc[w] \in {"parked", "parkedAgain"}
    /\ At(w, "after")
    /\ UNCHANGED <<messageVars, batch, handled, orphaned, used>>

(* on_dlq raises inside the try block: the message that was just moved is  *)
(* retried, PENDING but not in the queue, or moved a second time.          *)
DlqHookRaises(w) ==
    /\ pc[w] = "parked"
    /\ Spend("hook", MaxHookFaults)
    /\ \/ Retry(InHand(w)) /\ At(w, "after")
       \/ /\ retries[InHand(w)] >= MaxRetries
          /\ MoveToDlq(InHand(w)) /\ At(w, "parkedAgain")
    /\ UNCHANGED <<batch, handled, orphaned>>

AfterHookReturns(w) ==
    /\ pc[w] = "after"
    /\ Continue(w, Tail(batch[w]))
    /\ UNCHANGED <<queue, dlq, retries, due, handled, orphaned, used>>

(* requeue_from_dlq takes the first entry of m.                            *)
RequeueFromDlq(m) ==
    /\ \E i \in DOMAIN dlq :
          /\ dlq[i] = m /\ \A j \in 1 .. i - 1 : dlq[j] # m
          /\ dlq' = RemoveAt(dlq, i)
    /\ Spend("requeue", MaxRequeues)
    /\ queue' = Append(queue, m)
    /\ status' = [status EXCEPT ![m] = "PENDING"]
    /\ retries' = [retries EXCEPT ![m] = 0] /\ due' = [due EXCEPT ![m] = TRUE]
    /\ UNCHANGED <<pc, batch, handled, orphaned>>

RetryTimeComes(m) ==
    /\ ~due[m] /\ due' = [due EXCEPT ![m] = TRUE]
    /\ UNCHANGED <<queue, dlq, status, retries, pc, batch, handled, orphaned, used>>

(* What a worker does outside its handler.                                 *)
WorkerStep(w) ==
    \/ Dequeue(w) \/ BeforeHookReturns(w) \/ HookRaises(w)
    \/ DlqHookReturns(w) \/ DlqHookRaises(w) \/ AfterHookReturns(w)

QueueStep == \E m \in Messages : Enqueue(m) \/ RequeueFromDlq(m) \/ RetryTimeComes(m)

-----------------------------------------------------------------------------
(* Properties.                                                             *)

(* A message is not forgotten, although two workers may have it in hand    *)
(* and overwrite what the other made of it: until a handler succeeds with  *)
(* it, it is among the dead letters, or in the queue and PENDING or in     *)
(* hand.  The exception is one whose worker was cancelled or whose         *)
(* before_process hook raised.                                             *)
NotForgotten ==
    \A m \in Messages :
       status[m] # "NEW" /\ m \notin handled \cup orphaned =>
          \/ m \in Range(dlq)
          \/ /\ m \in Range(queue)
             /\ \/ status[m] = "PENDING"
                \/ \E w \in Workers : pc[w] \in {"before", "handling"} /\ InHand(w) = m
=============================================================================
