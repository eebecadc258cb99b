------------------------------- MODULE Outbox -------------------------------
(***************************************************************************)
(* The transactional outbox of src/infrastructure/messaging/outbox: an     *)
(* in-memory repository of message objects, and the publishers that poll   *)
(* it.  A publisher's task runs without interruption between two awaits    *)
(* that suspend: the model lets another task run before each message of a  *)
(* batch and while publish_fn is awaited.  A message object is shared by   *)
(* the repository and by every batch that holds it, so its fields are      *)
(* functions of the message and a batch is a sequence of references.       *)
(* A publisher has a publish_fn: without one nothing is ever sent, and the *)
(* same steps mark messages published.                                     *)
(***************************************************************************)
EXTENDS Integers, Sequences, FiniteSets, Functions

CONSTANTS
    Messages,    \* the message objects an application creates
    Pollers,     \* OutboxPublisher instances, each with its polling task
    Callers,     \* tasks that call publish_one
    Keys,        \* idempotency keys
    NoKey,       \* the key of a message whose idempotency_key is None
    KeyOf,       \* the idempotency key of each message
    CreatedAt,   \* the creation time of each message
    BatchSize,   \* batch_size of the publishers, and limit of a redrive
    MaxRetries,  \* max_retries of the messages
    Faults,      \* what may go wrong around publish_fn, see FaultKinds
    Budget       \* bound of the model: how often each operator call is made

(* "raises": publish_fn raises and nothing was sent; "ack_lost": it raises *)
(* after the broker took the event; "callback": on_publish raises.         *)
FaultKinds == {"raises", "ack_lost", "callback"}
OperatorCalls == {"publish_one", "retry_dead_letters", "delete", "stop", "cancel"}
Tasks == Pollers \cup Callers
Statuses == {"PENDING", "PROCESSING", "PUBLISHED", "FAILED", "DEAD_LETTER"}

ASSUME TaskAssumption == Callers \cap Pollers = {}
ASSUME KeyAssumption == KeyOf \in [Messages -> Keys \cup {NoKey}] /\ NoKey \notin Keys
ASSUME SizeAssumption ==
    /\ BatchSize \in Nat \ {0} /\ MaxRetries \in Nat \ {0}
    /\ CreatedAt \in [Messages -> Nat]
ASSUME FaultAssumption == Faults \subseteq FaultKinds /\ Budget \in [OperatorCalls -> Nat]

VARIABLES
    stored,      \* OutboxRepository._messages, in insertion order
    processed,   \* OutboxRepository._processed_keys
    status, retries,
    due,         \* has next_retry_at passed (or is it None)?
    running,     \* the publishers whose polling task exists
    batch,       \* what is left of each task's batch, its head the current message
    inFlight,    \* tasks suspended in publish_fn
    delivered,   \* history: how often the broker took each message
    stranded,    \* history: messages whose attempt was cancelled in publish_fn
    used         \* operator calls made so far

message == <<status, retries, due>>
repository == <<stored, processed, message>>
vars == <<repository, running, batch, inFlight, delivered, stranded, used>>

InRepository(m) == m \in Range(stored)
KeySet(m) == {KeyOf[m]} \ {NoKey}
Current(t) == Head(batch[t])
Idle(t) == batch[t] = <<>>
Holding(m) == {t \in Tasks : m \in Range(batch[t])}
Publishing(m) == {t \in inFlight : Current(t) = m}

TypeOK ==
    /\ stored \in Seq(Messages) /\ processed \subseteq Keys
    /\ status \in [Messages -> Statuses]
    /\ retries \in [Messages -> Nat] /\ due \in [Messages -> BOOLEAN]
    /\ running \subseteq Pollers
    /\ batch \in [Tasks -> Seq(Messages)]
    /\ inFlight \subseteq {t \in Tasks : ~Idle(t)}
    /\ delivered \in [Messages -> Nat] /\ stranded \subseteq Messages
    /\ used \in [OperatorCalls -> Nat]

Init ==
    /\ stored = <<>> /\ processed = {}
    /\ status = [m \in Messages |-> "PENDING"]
    /\ retries = [m \in Messages |-> 0] /\ due = [m \in Messages |-> TRUE]
    /\ running = {} /\ batch = [t \in Tasks |-> <<>>] /\ inFlight = {}
    /\ delivered = [m \in Messages |-> 0] /\ stranded = {}
    /\ used = [c \in OperatorCalls |-> 0]

Call(c) == used[c] < Budget[c] /\ used' = [used EXCEPT ![c] = @ + 1]

-----------------------------------------------------------------------------
(* The repository's operations, as the publisher's steps use them.         *)

(* What is left keeps its order.                                           *)
Remove(old) ==
    LET kept == {i \in DOMAIN stored : stored[i] \notin old}
    IN  \E at \in [1 .. Cardinality(kept) -> kept] :
           /\ \A i, j \in DOMAIN at : i < j => at[i] < at[j]
           /\ stored' = [i \in 1 .. Cardinality(kept) |-> stored[at[i]]]

Upsert(m) == stored' = IF InRepository(m) THEN stored ELSE Append(stored, m)

(* Wrong variant: the key is not recorded.                               *)
MarkProcessedNoKey(m) ==
    /\ status' = IF InRepository(m) THEN [status EXCEPT ![m] = "PUBLISHED"] ELSE status
    /\ UNCHANGED processed

(* mark_processed: nothing is recorded for a message that is gone.         *)
MarkProcessed(m) ==
    IF InRepository(m)
    THEN /\ status' = [status EXCEPT ![m] = "PUBLISHED"]
         /\ processed' = processed \cup KeySet(m)
    ELSE UNCHANGED <<status, processed>>

(* Wrong variant: the counter is compared before it is incremented.      *)
MarkFailedOffByOne(m) ==
    IF InRepository(m)
    THEN /\ retries' = [retries EXCEPT ![m] = @ + 1]
         /\ status' = [status EXCEPT ![m] =
                          IF retries[m] >= MaxRetries THEN "DEAD_LETTER" ELSE "FAILED"]
         /\ due' = [due EXCEPT ![m] = FALSE]
    ELSE UNCHANGED message

MarkFailed(m) ==
    IF InRepository(m)
    THEN /\ retries' = [retries EXCEPT ![m] = @ + 1]
         /\ status' = [status EXCEPT ![m] =
                          IF retries[m] + 1 >= MaxRetries THEN "DEAD_LETTER" ELSE "FAILED"]
         /\ due' = [due EXCEPT ![m] = FALSE]
    ELSE UNCHANGED message

(* Wrong variant: failed messages are not taken up again.                *)
ReadyFresh(m) == status[m] = "PENDING"
(* Wrong variant: dead letters are taken up again.                       *)
ReadyOrParked(m) ==
    status[m] \in {"PENDING", "DEAD_LETTER"} \/ (status[m] = "FAILED" /\ due[m])

Ready(m) ==
    \/ status[m] = "PENDING"
    \/ status[m] = "FAILED" /\ retries[m] < MaxRetries /\ due[m]

(* The first ready messages of the repository, a batch at most ...         *)
FirstReady ==
    {stored[i] : i \in {j \in DOMAIN stored :
        /\ Ready(stored[j])
        /\ Cardinality({k \in 1 .. (j - 1) : Ready(stored[k])}) < BatchSize}}

(* ... and the batches that list a set of them by creation time.           *)
ByCreation(S) ==
    {b \in [1 .. Cardinality(S) -> S] :
        \A i, j \in DOMAIN b : i < j => b[i] # b[j] /\ CreatedAt[b[i]] <= CreatedAt[b[j]]}

(* get_dead_letters sorts before it cuts.                                  *)
OldestDead ==
    LET dead == {i \in DOMAIN stored : status[stored[i]] = "DEAD_LETTER"}
        Before(i, j) ==
            \/ CreatedAt[stored[i]] < CreatedAt[stored[j]]
            \/ CreatedAt[stored[i]] = CreatedAt[stored[j]] /\ i < j
    IN  {stored[j] : j \in {k \in dead : Cardinality({i \in dead : Before(i, k)}) < BatchSize}}

-----------------------------------------------------------------------------
(* The application.                                                        *)

Save(m) ==
    /\ status[m] = "PENDING" /\ ~InRepository(m)
    /\ Upsert(m)
    /\ UNCHANGED <<processed, message, running, batch, inFlight, delivered, stranded, used>>

PublishOne(c, m) ==
    /\ c \in Callers /\ Idle(c) /\ InRepository(m)
    /\ Call("publish_one")
    /\ batch' = [batch EXCEPT ![c] = <<m>>]
    /\ UNCHANGED <<repository, running, inFlight, delivered, stranded>>

RetryDeadLetters ==
    /\ OldestDead # {}
    /\ Call("retry_dead_letters")
    /\ retries' = [m \in Messages |-> IF m \in OldestDead THEN 0 ELSE retries[m]]
    /\ status' = [m \in Messages |-> IF m \in OldestDead THEN "PENDING" ELSE status[m]]
    /\ due' = [m \in Messages |-> m \in OldestDead \/ due[m]]
    /\ UNCHANGED <<stored, processed, running, batch, inFlight, delivered, stranded>>

Delete(m) ==
    /\ InRepository(m)
    /\ Call("delete")
    /\ Remove({m})
    /\ UNCHANGED <<processed, message, running, batch, inFlight, delivered, stranded>>

(* cleanup_processed: the cutoff splits the published messages anywhere.   *)
CleanupProcessed(old) ==
    /\ old # {} /\ \A m \in old : InRepository(m) /\ status[m] = "PUBLISHED"
    /\ Remove(old)
    /\ UNCHANGED <<processed, message, running, batch, inFlight, delivered, stranded, used>>

BackoffElapses(m) ==
    /\ ~due[m]
    /\ due' = [due EXCEPT ![m] = TRUE]
    /\ UNCHANGED <<stored, processed, status, retries, running, batch, inFlight,
                   delivered, stranded, used>>

-----------------------------------------------------------------------------
(* The publishers.                                                         *)

Start(p) ==
    /\ p \in Pollers \ running
    /\ running' = running \cup {p}
    /\ UNCHANGED <<repository, batch, inFlight, delivered, stranded, used>>

GetPending(p) ==
    /\ p \in running /\ Idle(p)
    /\ \E b \in ByCreation(FirstReady) :
          b # <<>> /\ batch' = [batch EXCEPT ![p] = b]
    /\ UNCHANGED <<repository, running, inFlight, delivered, stranded, used>>

(* Wrong variant: the attempt does not end.                              *)
AdvanceStillInFlight(t) ==
    batch' = [batch EXCEPT ![t] = Tail(@)] /\ UNCHANGED inFlight

(* The task goes to the next message of its batch.                         *)
Advance(t) ==
    /\ batch' = [batch EXCEPT ![t] = Tail(@)]
    /\ inFlight' = inFlight \ {t}

(* Wrong variant: no duplicate check.                                    *)
NeverDuplicate(m) == m \notin Messages
IsDuplicate(m) == KeySet(m) \cap processed # {}

SkipDuplicate(t) ==
    /\ ~Idle(t) /\ t \notin inFlight
    /\ IsDuplicate(Current(t))
    /\ MarkProcessed(Current(t))
    /\ Advance(t)
    /\ UNCHANGED <<stored, retries, due, running, delivered, stranded, used>>

(* Wrong variant: marked published before publish_fn is awaited.         *)
BeginPublishMarkedFirst(t) ==
    /\ ~Idle(t) /\ t \notin inFlight
    /\ ~IsDuplicate(Current(t))
    /\ status' = [status EXCEPT ![Current(t)] = "PUBLISHED"]
    /\ Upsert(Current(t))
    /\ inFlight' = inFlight \cup {t}
    /\ UNCHANGED <<processed, retries, due, running, batch, delivered, stranded, used>>

(* The status of the message is not read again: a batch may be stale.      *)
BeginPublish(t) ==
    /\ ~Idle(t) /\ t \notin inFlight
    /\ ~IsDuplicate(Current(t))
    /\ status' = [status EXCEPT ![Current(t)] = "PROCESSING"]
    /\ Upsert(Current(t))
    /\ inFlight' = inFlight \cup {t}
    /\ UNCHANGED <<processed, retries, due, running, batch, delivered, stranded, used>>

BrokerTakes(m) == delivered' = [delivered EXCEPT ![m] = @ + 1]

Published(t) ==
    /\ t \in inFlight
    /\ BrokerTakes(Current(t))
    /\ MarkProcessed(Current(t))
    /\ Advance(t)
    /\ UNCHANGED <<stored, retries, due, running, stranded, used>>

(* on_publish runs inside the try block: when it raises, a message that    *)
(* mark_processed has just recorded is marked failed.                      *)
PublishedCallbackRaises(t) ==
    /\ t \in inFlight /\ "callback" \in Faults
    /\ BrokerTakes(Current(t))
    /\ processed' = IF InRepository(Current(t)) THEN processed \cup KeySet(Current(t))
                                                ELSE processed
    /\ MarkFailed(Current(t))
    /\ Advance(t)
    /\ UNCHANGED <<stored, running, stranded, used>>

(* Wrong variant: no handler around publish_fn.                          *)
PublishRaisesUnhandled(t) ==
    /\ t \in inFlight
    /\ Advance(t)
    /\ UNCHANGED <<repository, delivered, running, stranded, used>>

PublishRaises(t) ==
    /\ t \in inFlight
    /\ \/ "raises" \in Faults /\ UNCHANGED delivered
       \/ "ack_lost" \in Faults /\ BrokerTakes(Current(t))
    /\ MarkFailed(Current(t))
    /\ Advance(t)
    /\ UNCHANGED <<stored, processed, running, stranded, used>>

(* A task cancelled where it is suspended drops its batch.  CancelledError *)
(* is no Exception: the handler that marks the message failed is skipped,  *)
(* and the broker may have taken the event or not.                         *)
Interrupted(t) ==
    /\ batch' = [batch EXCEPT ![t] = <<>>]
    /\ inFlight' = inFlight \ {t}
    /\ IF t \in inFlight
       THEN /\ stranded' = stranded \cup {Current(t)}
            /\ UNCHANGED delivered \/ BrokerTakes(Current(t))
       ELSE UNCHANGED <<stranded, delivered>>
    /\ UNCHANGED repository

(* stop cancels the polling task.                                          *)
Stop(p) ==
    /\ p \in running
    /\ Call("stop")
    /\ running' = running \ {p}
    /\ Interrupted(p)

(* The task that awaits publish_one is cancelled by its owner.             *)
CancelCaller(c) ==
    /\ c \in Callers /\ ~Idle(c)
    /\ Call("cancel")
    /\ Interrupted(c)
    /\ UNCHANGED running

Finish(t) == Published(t) \/ PublishedCallbackRaises(t) \/ PublishRaises(t)

Next ==
    \/ RetryDeadLetters
    \/ \E m \in Messages : Save(m) \/ Delete(m) \/ BackoffElapses(m)
    \/ \E c \in Callers, m \in Messages : PublishOne(c, m)
    \/ \E c \in Callers : CancelCaller(c)
    \/ \E old \in SUBSET Messages : CleanupProcessed(old)
    \/ \E p \in Pollers : Start(p) \/ GetPending(p) \/ Stop(p)
    \/ \E t \in Tasks : SkipDuplicate(t) \/ BeginPublish(t) \/ Finish(t)

Spec == Init /\ [][Next]_vars

(* The event loop runs every task that can run, publish_fn returns or      *)
(* raises in the end, the clock advances, and a publisher that was stopped *)
(* is started again.                                                       *)
Fairness ==
    /\ \A m \in Messages : WF_vars(BackoffElapses(m))
    /\ \A p \in Pollers : WF_vars(Start(p)) /\ WF_vars(GetPending(p))
    /\ \A t \in Tasks : /\ WF_vars(SkipDuplicate(t) \/ BeginPublish(t))
                        /\ WF_vars(Finish(t))

FairSpec == Spec /\ Fairness

-----------------------------------------------------------------------------
(* Properties.                                                             *)

SameEvent(m) == {n \in Messages : n = m \/ (KeyOf[m] = KeyOf[n] /\ KeyOf[m] # NoKey)}
HandedOff(m) == \E n \in SameEvent(m) : delivered[n] > 0

(* No event is lost by being written off: a message is PUBLISHED, and a    *)
(* key is in _processed_keys, only when the broker took the message or one *)
(* with its key, however attempts, failures, deletions, stops and          *)
(* cancelled callers mix.                                                  *)
PublishedWasHandedOff ==
    /\ \A m \in Messages : status[m] = "PUBLISHED" => HandedOff(m)
    /\ \A k \in processed : \E m \in Messages : KeyOf[m] = k /\ delivered[m] > 0

(* get_pending never returns a PROCESSING message, so one that no attempt  *)
(* is working on is out of reach: only a cancellation in publish_fn, by    *)
(* stop() or of a task that awaits publish_one, leaves a stored message    *)
(* so.  No failure, stale batch, redrive or second attempt does.           *)
ProcessingIsOwned ==
    \A m \in Messages : status[m] = "PROCESSING" /\ InRepository(m) =>
        Publishing(m) # {} \/ m \in stranded

(* What dedup rests on: the key of a PUBLISHED message is recorded.        *)
PublishedKeysRecorded ==
    \A m \in Messages : status[m] = "PUBLISHED" => KeySet(m) \subseteq processed

(* The retry counter and the status agree in spite of attempts that race   *)
(* and redrives: FAILED has attempts left, DEAD_LETTER has none, PENDING   *)
(* starts from zero.                                                       *)
RetriesMatchStatus ==
    \A m \in Messages :
        /\ status[m] = "FAILED" => retries[m] \in 1 .. (MaxRetries - 1)
        /\ status[m] = "DEAD_LETTER" => retries[m] >= MaxRetries
        /\ status[m] = "PENDING" => retries[m] = 0

(* Once a keyed message is PUBLISHED and nobody is in publish_fn with it,  *)
(* nothing publishes it again or takes its status back.                    *)
PublishedIsFinal ==
    [][\A m \in Messages :
        status[m] = "PUBLISHED" /\ KeyOf[m] # NoKey /\ Publishing(m) = {} =>
            status'[m] = "PUBLISHED" /\ delivered'[m] = delivered[m]]_vars

(* A dead letter that no task still holds is not taken up by a publisher,  *)
(* and it leaves its status only through retry_dead_letters, with its      *)
(* retry counter reset.                                                    *)
ParkedUntilRedriven ==
    [][\A m \in Messages :
        status[m] = "DEAD_LETTER" /\ Holding(m) = {} =>
            /\ \A p \in Pollers : m \notin Range(batch'[p])
            /\ \/ status'[m] = "DEAD_LETTER"
               \/ /\ status'[m] = "PENDING" /\ retries'[m] = 0
                  /\ used'["retry_dead_letters"] > used["retry_dead_letters"]]_vars

(* With one publisher and a publish_fn whose failures are honest, and      *)
(* no stop, cancelled caller or delete, the broker takes each keyed event  *)
(* once, though messages share keys, metrics callbacks raise and dead      *)
(* letters are redriven.                                                   *)
KeyDeliveredOnce ==
    \A m, n \in Messages :
        n \in SameEvent(m) /\ KeyOf[m] # NoKey /\ delivered[m] > 0 =>
            delivered[m] = 1 /\ (n # m => delivered[n] = 0)

(* Every stored message is published, parked or removed in the end.        *)
EventuallySettled ==
    \A m \in Messages : InRepository(m) ~>
        (~InRepository(m) \/ status[m] \in {"PUBLISHED", "DEAD_LETTER"})

(* What OutboxMessage promises: a stored event reaches the broker, unless  *)
(* it is parked as a dead letter or removed.                               *)
AtLeastOnce ==
    \A m \in Messages : InRepository(m) ~>
        (HandedOff(m) \/ ~InRepository(m) \/ status[m] = "DEAD_LETTER")
=============================================================================
