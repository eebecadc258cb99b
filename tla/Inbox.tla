-------------------------------- MODULE Inbox --------------------------------
(***************************************************************************)
(* The inbox of src/infrastructure/messaging/inbox.py: InboxService over   *)
(* InMemoryInboxRepository.  Every call of receive or receive_and_process  *)
(* creates an entry object of its own, named here by the delivery it       *)
(* serves.  The repository does not suspend, so a call runs up to the      *)
(* handler's await in one step, and from there to its end in another.      *)
(***************************************************************************)
EXTENDS Integers, FiniteSets

CONSTANTS
    Deliveries,    \* calls of receive, one entry object each
    Ids,           \* message ids of the transport
    Keys,          \* idempotency keys, given or hashed from the message
    None,          \* no entry, no id
    IdOf, KeyOf,   \* the id and the key of each delivery
    MaxFailures,   \* bound of the model: how often the handler raises
    MaxCancels     \* bound of the model: how often a call is cancelled

(* An id names one message: the same id comes with the same key.           *)
ASSUME SameIdSameKey ==
    /\ IdOf \in [Deliveries -> Ids] /\ KeyOf \in [Deliveries -> Keys]
    /\ \A d, e \in Deliveries : IdOf[d] = IdOf[e] => KeyOf[d] = KeyOf[e]
ASSUME NoneAssumption == None \notin Deliveries \cup Ids
ASSUME FaultBounds == MaxFailures \in Nat /\ MaxCancels \in Nat

VARIABLES
    entries,       \* InMemoryInboxRepository._entries
    byKey,         \* InMemoryInboxRepository._by_idempotency_key
    entryStatus,   \* status of the entry of each delivery, "NONE" before it is made
    handling,      \* deliveries whose call is suspended in handler.handle
    effects,       \* history: how often the handler completed for each key
    faults         \* failures and cancellations so far

vars == <<entries, byKey, entryStatus, handling, effects, faults>>

EntryStatuses == {"NONE", "DUPLICATE", "PENDING", "PROCESSING", "PROCESSED", "FAILED"}

TypeOK ==
    /\ entries \in [Ids -> Deliveries \cup {None}]
    /\ byKey \in [Keys -> Ids \cup {None}]
    /\ entryStatus \in [Deliveries -> EntryStatuses]
    /\ handling \subseteq {d \in Deliveries : entryStatus[d] = "PROCESSING"}
    /\ effects \in [Keys -> Nat]
    /\ faults \in [{"raise", "cancel"} -> Nat]

Init ==
    /\ entries = [i \in Ids |-> None] /\ byKey = [k \in Keys |-> None]
    /\ entryStatus = [d \in Deliveries |-> "NONE"] /\ handling = {}
    /\ effects = [k \in Keys |-> 0]
    /\ faults = [f \in {"raise", "cancel"} |-> 0]

(* Wrong variant: only processed entries count as known.                 *)
EntryByKeyDoneOnly(k) ==
    IF byKey[k] = None \/ entries[byKey[k]] = None THEN None
    ELSE IF entryStatus[entries[byKey[k]]] = "PROCESSED" THEN entries[byKey[k]] ELSE None
(* get_by_idempotency_key                                                  *)
EntryByKey(k) == IF byKey[k] = None THEN None ELSE entries[byKey[k]]

Save(d) ==
    /\ entries' = [entries EXCEPT ![IdOf[d]] = d]
    /\ byKey' = [byKey EXCEPT ![KeyOf[d]] = IdOf[d]]

(* update stores the object again under its id.                            *)
Update(d, s) ==
    /\ entryStatus' = [entryStatus EXCEPT ![d] = s]
    /\ entries' = [entries EXCEPT ![IdOf[d]] = d]
    /\ UNCHANGED byKey

(* receive: the new entry is PENDING until somebody processes it.  A       *)
(* delivery whose key is known gets the entry there is; its own is         *)
(* dropped.                                                                *)
Receive(d) ==
    /\ entryStatus[d] = "NONE"
    /\ EntryByKey(KeyOf[d]) = None
    /\ Save(d)
    /\ entryStatus' = [entryStatus EXCEPT ![d] = "PENDING"]
    /\ UNCHANGED <<handling, effects, faults>>

ReceiveDuplicate(d) ==
    /\ entryStatus[d] = "NONE"
    /\ EntryByKey(KeyOf[d]) # None
    /\ entryStatus' = [entryStatus EXCEPT ![d] = "DUPLICATE"]
    /\ UNCHANGED <<entries, byKey, handling, effects, faults>>

(* Wrong variant: failed entries are processed again.                    *)
MayProcessUnfinished(d) == entryStatus[d] \in {"PENDING", "FAILED"}
(* process refuses every entry that is not PENDING.                        *)
MayProcess(d) == entryStatus[d] = "PENDING"

(* Wrong variant: the entry is not marked before the handler runs.       *)
ProcessUnmarked(d) ==
    /\ MayProcess(d)
    /\ handling' = handling \cup {d}
    /\ UNCHANGED <<entries, byKey, entryStatus, effects, faults>>

Process(d) ==
    /\ MayProcess(d)
    /\ Update(d, "PROCESSING")
    /\ handling' = handling \cup {d}
    /\ UNCHANGED <<effects, faults>>

(* receive_and_process runs both without suspending in between.            *)
ReceiveAndProcess(d) ==
    /\ entryStatus[d] = "NONE"
    /\ EntryByKey(KeyOf[d]) = None
    /\ Save(d)
    /\ entryStatus' = [entryStatus EXCEPT ![d] = "PROCESSING"]
    /\ handling' = handling \cup {d}
    /\ UNCHANGED <<effects, faults>>

HandlerReturns(d) ==
    /\ d \in handling
    /\ Update(d, "PROCESSED")
    /\ handling' = handling \ {d}
    /\ effects' = [effects EXCEPT ![KeyOf[d]] = @ + 1]
    /\ UNCHANGED faults

HandlerRaises(d) ==
    /\ d \in handling /\ faults["raise"] < MaxFailures
    /\ Update(d, "FAILED")
    /\ handling' = handling \ {d}
    /\ faults' = [faults EXCEPT !["raise"] = @ + 1]
    /\ UNCHANGED effects

(* A call cancelled in the handler's await leaves its entry PROCESSING.    *)
Cancel(d) ==
    /\ d \in handling /\ faults["cancel"] < MaxCancels
    /\ handling' = handling \ {d}
    /\ faults' = [faults EXCEPT !["cancel"] = @ + 1]
    /\ UNCHANGED <<entries, byKey, entryStatus, effects>>

Stored == {entries[i] : i \in Ids} \ {None}

(* delete_processed: the cutoff splits the processed entries anywhere.     *)
(* Wrong variant: cleanup does not look at the status.                   *)
CleanupAnyStatus(old) ==
    /\ old # {} /\ old \subseteq Stored
    /\ entries' = [i \in Ids |-> IF entries[i] \in old THEN None ELSE entries[i]]
    /\ byKey' = [k \in Keys |-> IF \E d \in old : KeyOf[d] = k THEN None ELSE byKey[k]]
    /\ UNCHANGED <<entryStatus, handling, effects, faults>>

Cleanup(old) ==
    /\ old # {} /\ old \subseteq Stored /\ \A d \in old : entryStatus[d] = "PROCESSED"
    /\ entries' = [i \in Ids |-> IF entries[i] \in old THEN None ELSE entries[i]]
    /\ byKey' = [k \in Keys |-> IF \E d \in old : KeyOf[d] = k THEN None ELSE byKey[k]]
    /\ UNCHANGED <<entryStatus, handling, effects, faults>>

Deliver(d) == Receive(d) \/ ReceiveDuplicate(d) \/ ReceiveAndProcess(d)
Handle(d) == Process(d) \/ HandlerReturns(d) \/ HandlerRaises(d) \/ Cancel(d)

Next ==
    \/ \E d \in Deliveries : Deliver(d) \/ Handle(d)
    \/ \E old \in SUBSET Deliveries : Cleanup(old)

Spec == Init /\ [][Next]_vars

-----------------------------------------------------------------------------
(* Properties.                                                             *)

Unsettled(d) == entryStatus[d] \in {"PENDING", "PROCESSING"}

(* The inbox is a window of remembered keys: however deliveries, failures, *)
(* cancellations and cleanups mix, a remembered key is not admitted again, *)
(* and each admission has at most one effect.                              *)
Dedup == INSTANCE DedupWindow WITH
    window <- {k \in Keys : EntryByKey(k) # None},
    open <- {k \in Keys : \E d \in Deliveries : KeyOf[d] = k /\ Unsettled(d)}
ImplementsDedup == Dedup!Spec

(* Two calls never run the handler for the same key at the same time.      *)
OneHandlerPerKey ==
    \A d, e \in handling : KeyOf[d] = KeyOf[e] => d = e

(* Both indexes agree: the entry a key leads to has that key, and an entry *)
(* that has not had its outcome can be found by its key.                   *)
IndexesAgree ==
    /\ \A k \in Keys : EntryByKey(k) # None => KeyOf[EntryByKey(k)] = k
    /\ \A d \in Deliveries : Unsettled(d) => EntryByKey(KeyOf[d]) = d
=============================================================================
