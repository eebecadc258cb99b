----------------------------- MODULE Idempotency -----------------------------
(***************************************************************************)
(* IdempotencyMiddleware.dispatch and IdempotencyHandler, of               *)
(* src/infrastructure/idempotency.  A request that carries a key looks for *)
(* a record, runs the operation and stores a record of what it answered;   *)
(* between these nothing holds the key.  Redis is external: a read of it   *)
(* may fail, which the handler takes for no record, and so may a write.    *)
(* The middleware runs the operation a second time when anything raises    *)
(* after the first, and stores nothing then.                               *)
(***************************************************************************)
EXTENDS Integers

CONSTANTS
    Users,       \* requests that carry an idempotency key
    Direct,      \* those that call execute_idempotent and not the middleware
    Keys, KeyOf, \* the key of each request
    Hashes,      \* hashes of a request's content
    NoRecord,
    MaxRedisFaults, MaxLosses  \* bounds of the model: failed calls, lost records

VARIABLES
    hash,        \* what each request contains
    at,          \* how far each request is
    record,      \* record[k]: whose answer Redis holds for key k
    answer,      \* the request whose stored answer each request was given
    excuse,      \* history: why a key's operation may have run again
    redisFaults, losses

idempotencyVars == <<hash, at, record, answer, excuse, redisFaults, losses>>

Places == {"out", "run", "store", "again", "answered", "replayed", "conflict", "raised", "cancelled"}
Over == {"answered", "replayed", "conflict", "raised", "cancelled"}
Excuses == {"overlap", "unread", "unstored", "lost", "again", "cancelled"}

IdempotencyTypeOK ==
    /\ hash \in [Users -> Hashes] /\ at \in [Users -> Places]
    /\ record \in [Keys -> Users \cup {NoRecord}]
    /\ answer \in [Users -> Users \cup {NoRecord}]
    /\ excuse \in [Keys -> SUBSET Excuses]
    /\ redisFaults \in Nat /\ losses \in Nat

IdempotencyInit ==
    /\ hash \in [Users -> Hashes]
    /\ at = [u \in Users |-> "out"]
    /\ record = [k \in Keys |-> NoRecord]
    /\ answer = [u \in Users |-> NoRecord]
    /\ excuse = [k \in Keys |-> {}]
    /\ redisFaults = 0 /\ losses = 0

Goes(u, p) == at' = [at EXCEPT ![u] = p] /\ UNCHANGED hash
Excused(k, why) == excuse' = [excuse EXCEPT ![k] = @ \cup why]
RedisFails == redisFaults < MaxRedisFaults /\ redisFaults' = redisFaults + 1

Busy(k) == \E u \in Users : KeyOf[u] = k /\ at[u] \in {"run", "store", "again"}

-----------------------------------------------------------------------------

(* No record: the operation will run, whoever else is running it.          *)
LookAndRun(u) ==
    /\ at[u] = "out" /\ record[KeyOf[u]] = NoRecord
    /\ Goes(u, "run")
    /\ Excused(KeyOf[u], IF Busy(KeyOf[u]) THEN {"overlap"} ELSE {})
    /\ UNCHANGED <<record, answer, redisFaults, losses>>

(* get_record answers None for a failure as well.                          *)
LookFails(u) ==
    /\ at[u] = "out" /\ RedisFails
    /\ Goes(u, "run") /\ Excused(KeyOf[u], {"unread"})
    /\ UNCHANGED <<record, answer, losses>>

(* _handle_cached_record, and the first half of execute_idempotent.        *)
LookAndReplay(u) ==
    LET r == record[KeyOf[u]] IN
    /\ at[u] = "out" /\ r # NoRecord
    /\ IF hash[r] = hash[u]
       THEN Goes(u, "replayed") /\ answer' = [answer EXCEPT ![u] = r]
       ELSE Goes(u, "conflict") /\ UNCHANGED answer
    /\ UNCHANGED <<record, excuse, redisFaults, losses>>

Look(u) == LookAndRun(u) \/ LookFails(u) \/ LookAndReplay(u)

(* Wrong variant: the middleware stores any answer.                        *)
OperationReturnsStored(u, success) ==
    /\ at[u] \in {"run", "again"}
    /\ Goes(u, IF at[u] = "run" THEN "store" ELSE "answered")
    /\ UNCHANGED <<record, answer, excuse, redisFaults, losses>>

(* The operation answers.  The middleware stores a 2xx answer only,        *)
(* execute_idempotent any.                                                 *)
OperationReturns(u, success) ==
    /\ at[u] \in {"run", "again"}
    /\ Goes(u, IF at[u] = "run" /\ (success \/ u \in Direct) THEN "store" ELSE "answered")
    /\ UNCHANGED <<record, answer, excuse, redisFaults, losses>>

(* The operation raises: the middleware calls it again, a direct caller    *)
(* sees the exception.                                                     *)
OperationRaises(u) ==
    /\ at[u] \in {"run", "again"}
    /\ IF at[u] = "run" /\ u \notin Direct
       THEN Goes(u, "again") /\ Excused(KeyOf[u], {"again"})
       ELSE Goes(u, "raised") /\ UNCHANGED excuse
    /\ UNCHANGED <<record, answer, redisFaults, losses>>

(* The body of a 2xx answer is read and decoded before it is stored.       *)
BodyUnreadable(u) ==
    /\ at[u] = "store" /\ u \notin Direct /\ RedisFails
    /\ Goes(u, "again") /\ Excused(KeyOf[u], {"again"})
    /\ UNCHANGED <<record, answer, losses>>

(* setex overwrites whatever is there.                                     *)
Written(u) == record' = [record EXCEPT ![KeyOf[u]] = u]

Store(u) ==
    /\ at[u] = "store"
    /\ Written(u) /\ Goes(u, "answered")
    /\ UNCHANGED <<answer, excuse, redisFaults, losses>>

(* store_record swallows the failure, of a write that may have been made.  *)
StoreFails(u) ==
    /\ at[u] = "store" /\ RedisFails
    /\ Written(u) \/ UNCHANGED record
    /\ Goes(u, "answered") /\ Excused(KeyOf[u], {"unstored"})
    /\ UNCHANGED <<answer, losses>>

Finish(u) == BodyUnreadable(u) \/ Store(u) \/ StoreFails(u)

CancelRequest(u) ==
    /\ at[u] \in {"run", "store", "again"}
    /\ Goes(u, "cancelled") /\ Excused(KeyOf[u], {"cancelled"})
    /\ UNCHANGED record \/ (at[u] = "store" /\ Written(u))
    /\ UNCHANGED <<answer, redisFaults, losses>>

(* delete_record, or the end of the record's time to live.                 *)
RecordGone(k) ==
    /\ record[k] # NoRecord /\ losses < MaxLosses
    /\ losses' = losses + 1
    /\ record' = [record EXCEPT ![k] = NoRecord]
    /\ Excused(k, {"lost"})
    /\ UNCHANGED <<hash, at, answer, redisFaults>>
=============================================================================
