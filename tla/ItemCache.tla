------------------------------ MODULE ItemCache ------------------------------
(***************************************************************************)
(* ItemExampleUseCase.get, update and delete of                            *)
(* src/application/examples/item/use_cases/use_case.py, for one item, over *)
(* CacheService and the Redis client.  A reader that misses reads the      *)
(* database and fills the cache; a writer commits, publishes and then      *)
(* invalidates.  The database is external: the item's versions, one commit *)
(* after another.                                                          *)
(***************************************************************************)
EXTENDS RedisClient

CONSTANTS
    Readers, Writers,
    MaxVersion, MaxCancels,  \* bounds of the model: commits, cancelled calls,
    MaxTroubles              \* and faults, expiries and cancelled calls together

ASSUME ItemAssumption ==
    /\ Tasks = Readers \cup Writers /\ Readers \cap Writers = {}
    /\ Values = 1 .. MaxVersion /\ MaxVersion \in Nat \ {0} /\ MaxCancels \in Nat
    /\ MaxTroubles \in Nat

VARIABLES
    version, deleted,   \* the item in the database
    pc,                 \* where each call of the use case is suspended
    seen,               \* the version a reader has read
    why,                \* history: what may have left each copy stale
    cancels

itemVars == <<version, deleted, pc, seen, cancels>>
cacheVars == <<redisVars, itemVars, why>>

Current == IF deleted THEN NoValue ELSE version
Reasons == {"late fill", "missed delete", "cut short"}

ItemTypeOK ==
    /\ version \in Values /\ deleted \in BOOLEAN
    /\ pc \in [Tasks -> {"idle", "lookup", "read", "fill", "invalidate", "invalidateList"}]
    /\ seen \in [Tasks -> Values \cup {NoValue}]
    /\ why \in [Copies -> SUBSET Reasons] /\ cancels \in Nat

ItemInit ==
    /\ RedisInit
    /\ version = 1 /\ deleted = FALSE
    /\ pc = [t \in Tasks |-> "idle"] /\ seen = [t \in Tasks |-> NoValue]
    /\ why = [c \in Copies |-> {}] /\ cancels = 0

Goto(t, p) == pc' = [pc EXCEPT ![t] = p]

(* Once the command of t is over, t goes on to p.                          *)
WhenOver(t, p) == IF command'[t] = "none" THEN Goto(t, p) ELSE UNCHANGED pc

(* The reasons a copy may be stale, after a step that wrote it or not; a   *)
(* delete Redis did not see leaves its copy behind.                        *)
Explain(missed) ==
    why' = [c \in Copies |->
              IF copy'[c] \in {NoValue, Current} THEN {}
              ELSE IF copy'[c] # copy[c] THEN {"late fill"}
              ELSE IF c = "redis" /\ missed THEN why[c] \cup {"missed delete"} ELSE why[c]]

-----------------------------------------------------------------------------

(* Reader.                                                                 *)
AfterLookup(found) == IF found = NoValue THEN "read" ELSE "idle"

BeginGet(t) ==
    /\ pc[t] = "idle" /\ StartCommand(t, "get", NoValue)
    /\ Goto(t, IF command'[t] = "none" THEN AfterLookup(copy["fallback"]) ELSE "lookup")
    /\ UNCHANGED <<version, deleted, seen, cancels, why>>

ReadDatabase(t) ==
    /\ pc[t] = "read"
    /\ Goto(t, IF deleted THEN "idle" ELSE "fill")
    /\ seen' = [seen EXCEPT ![t] = Current]
    /\ UNCHANGED <<redisVars, version, deleted, cancels, why>>

(* What was read is set, whatever has been committed since.                *)
BeginFill(t) ==
    /\ pc[t] = "fill" /\ StartCommand(t, "set", seen[t])
    /\ WhenOver(t, "idle")
    /\ seen' = [seen EXCEPT ![t] = NoValue]
    /\ Explain(FALSE) /\ UNCHANGED <<version, deleted, cancels>>

(* Writer.                                                                 *)
CommitUpdate(t) ==
    /\ pc[t] = "idle" /\ ~deleted /\ version < MaxVersion
    /\ version' = version + 1 /\ Goto(t, "invalidate")
    /\ UNCHANGED <<redisVars, deleted, seen, cancels, why>>

CommitDelete(t) ==
    /\ pc[t] = "idle" /\ ~deleted
    /\ deleted' = TRUE /\ Goto(t, "invalidate")
    /\ UNCHANGED <<redisVars, version, seen, cancels, why>>

(* invalidate deletes the item's key, then that of the list, under which   *)
(* nothing is ever set.                                                    *)
BeginInvalidate(t) ==
    /\ \/ /\ pc[t] = "invalidate" /\ StartCommand(t, "delete", NoValue)
          /\ WhenOver(t, "invalidateList")
          /\ Explain(command'[t] = "none")
       \/ /\ pc[t] = "invalidateList" /\ StartCommand(t, "deleteOther", NoValue)
          /\ WhenOver(t, "idle") /\ UNCHANGED why
    /\ UNCHANGED <<version, deleted, seen, cancels>>

(* Commands on their way, of readers and writers alike.                    *)
NextPlace(t, found) ==
    CASE pc[t] = "lookup" -> AfterLookup(found)
      [] pc[t] = "invalidate" -> "invalidateList"
      [] OTHER -> "idle"

RedisCarriesOut(t) ==
    /\ RedisActs(t) /\ Explain(FALSE) /\ UNCHANGED itemVars

CommandIsOver(t) ==
    /\ \/ /\ CommandReturns(t) /\ Goto(t, NextPlace(t, answer[t]))
          /\ Explain(FALSE)
       \/ /\ CommandFails(t) /\ Goto(t, NextPlace(t, copy["fallback"]))
          /\ Explain(command[t] = "delete" /\ t \notin acted)
    /\ UNCHANGED <<version, deleted, seen, cancels>>

(* A call is cancelled, or the database fails under it, after the commit   *)
(* too: one cut short before it has invalidated leaves both copies behind. *)
CallIsCutShort(t) ==
    /\ pc[t] # "idle" /\ cancels < MaxCancels /\ cancels' = cancels + 1
    /\ IF command[t] # "none" THEN CancelCommand(t) ELSE UNCHANGED redisVars
    /\ Goto(t, "idle") /\ seen' = [seen EXCEPT ![t] = NoValue]
    /\ why' = [c \in Copies |->
                 IF pc[t] = "invalidate" /\ copy[c] \notin {NoValue, Current}
                 THEN why[c] \cup {"cut short"} ELSE why[c]]
    /\ UNCHANGED <<version, deleted>>

CacheLosesValue(c) ==
    /\ Expires(c)
    /\ Explain(FALSE) /\ UNCHANGED itemVars

TimePasses == TimeoutPasses /\ UNCHANGED <<itemVars, why>>

ItemNext ==
    /\ \/ \E t \in Readers : BeginGet(t) \/ ReadDatabase(t) \/ BeginFill(t)
       \/ \E t \in Writers : CommitUpdate(t) \/ CommitDelete(t) \/ BeginInvalidate(t)
       \/ \E t \in Tasks : RedisCarriesOut(t) \/ CommandIsOver(t) \/ CallIsCutShort(t)
       \/ \E c \in Copies : CacheLosesValue(c)
       \/ TimePasses
    /\ redisFaults' + expiries' + cancels' <= MaxTroubles

ItemSpec == ItemInit /\ [][ItemNext]_cacheVars

-----------------------------------------------------------------------------
(* Properties.                                                             *)

(* A copy of the item is older than the database only while the writer is  *)
(* still to invalidate it, or because a reader set what it had read before *)
(* the commit, a delete never reached Redis, or a writer was cut short     *)
(* between commit and invalidation.  The fallback misses no delete.        *)
StaleIsExplained ==
    /\ \A c \in Copies :
          copy[c] \notin {NoValue, Current} =>
             why[c] # {} \/ \E t \in Writers : pc[t] = "invalidate"
    /\ "missed delete" \notin why["fallback"]
=============================================================================
