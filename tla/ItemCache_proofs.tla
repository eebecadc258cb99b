--------------------------- MODULE ItemCache_proofs ---------------------------
(***************************************************************************)
(* Safety of the cached item and of the Redis client below it, for any     *)
(* readers, writers, versions, thresholds and bounds: probes are accounted *)
(* for, and a copy is stale only for one of the known reasons.             *)
(***************************************************************************)
EXTENDS ItemCache, FiniteSetTheorems, TLAPS

(***************************************************************************)
(* The client.                                                             *)
(***************************************************************************)

(* Whoever probes, or waits for an answer Redis has given, is in a command, *)
(* and the probes are those the counter has counted, the first one apart,  *)
(* and less those cancelled.                                               *)
InCommand == \A t \in acted \cup probes : command[t] # "none"

ProbesCounted ==
    /\ IsFiniteSet(probes) /\ halfOpenCalls <= HalfOpenMaxCalls
    /\ circuit = "HALF_OPEN" => Cardinality(probes) + lost = halfOpenCalls + 1

ClientInv == RedisTypeOK /\ InCommand /\ ProbesCounted

LEMMA ClientInitially == RedisInit => ClientInv
<1> SUFFICES ASSUME RedisInit PROVE ClientInv
  OBVIOUS
<1>1. RedisTypeOK
  <2>1. failures \in 0 .. FailureThreshold
    BY RedisAssumption DEF RedisInit
  <2>2. QED
    BY <2>1 DEF RedisInit, RedisTypeOK
<1>2. InCommand
  BY DEF RedisInit, InCommand
<1>3. ProbesCounted
  BY FS_EmptySet, RedisAssumption DEF RedisInit, ProbesCounted
<1>4. QED
  BY <1>1, <1>2, <1>3 DEF ClientInv

LEMMA CopyTyped ==
    ASSUME RedisTypeOK, NEW c \in Copies, NEW v \in Values \cup {NoValue},
           NEW op \in Commands
    PROVE  [copy EXCEPT ![c] = After(op, @, v)] \in [Copies -> Values \cup {NoValue}]
BY DEF RedisTypeOK, After

(* The breaker lets a call through: the first of a period starts the count. *)
LEMMA AdmitCounts ==
    ASSUME ClientInv, NEW t \in Tasks, command[t] = "none", Admit(t)
    PROVE  /\ circuit' \in {"CLOSED", "OPEN", "HALF_OPEN"}
           /\ failures' = failures /\ halfOpenCalls' \in Nat /\ elapsed' \in BOOLEAN
           /\ lost' \in Nat /\ probes' \subseteq probes \cup {t}
           /\ ProbesCounted'
<1> USE DEF ClientInv, RedisTypeOK, ProbesCounted
<1>1. CASE circuit = "CLOSED" /\ UNCHANGED breakerVars
  <2>1. UNCHANGED <<circuit, failures, halfOpenCalls, elapsed, probes, lost>>
    BY <1>1 DEF breakerVars
  <2>2. ProbesCounted'
    BY <2>1, <1>1
  <2>3. QED
    BY <2>1, <2>2
<1>2. CASE ResetOver /\ circuit' = "HALF_OPEN" /\ halfOpenCalls' = 0 /\ elapsed' = FALSE
           /\ probes' = {t} /\ lost' = 0 /\ UNCHANGED failures
  <2>1. IsFiniteSet({t}) /\ Cardinality({t}) = 1
    BY FS_Singleton
  <2>2. IsFiniteSet(probes') /\ Cardinality(probes') = 1
    BY <1>2, <2>1
  <2>3. ProbesCounted'
    BY <1>2, <2>2, RedisAssumption
  <2>4. QED
    BY <1>2, <2>3
<1>3. CASE /\ circuit = "HALF_OPEN" /\ halfOpenCalls < HalfOpenMaxCalls
           /\ halfOpenCalls' = halfOpenCalls + 1 /\ probes' = probes \cup {t}
           /\ UNCHANGED <<circuit, failures, elapsed, lost>>
  <2>1. t \notin probes
    BY DEF InCommand
  <2>2. IsFiniteSet(probes \cup {t}) /\ Cardinality(probes \cup {t}) = Cardinality(probes) + 1
    BY <2>1, FS_AddElement
  <2>3. Cardinality(probes) \in Nat
    BY FS_CardinalityType
  <2>4. QED
    BY <1>3, <2>2, <2>3, RedisAssumption
<1>4. QED
  BY <1>1, <1>2, <1>3 DEF Admit

LEMMA StartKeeps ==
    ASSUME ClientInv, NEW t \in Tasks, NEW op \in Commands,
           NEW v \in Values \cup {NoValue}, StartCommand(t, op, v)
    PROVE  ClientInv'
<1> USE DEF StartCommand
<1>1. CASE CanExecute
  <2>1. /\ circuit' \in {"CLOSED", "OPEN", "HALF_OPEN"}
        /\ failures' = failures /\ halfOpenCalls' \in Nat /\ elapsed' \in BOOLEAN
        /\ lost' \in Nat /\ probes' \subseteq probes \cup {t} /\ ProbesCounted'
    BY <1>1, AdmitCounts
  <2>2. /\ command' \in [Tasks -> Commands \cup {"none"}]
        /\ argument' \in [Tasks -> Values \cup {NoValue}]
    BY <1>1 DEF ClientInv, RedisTypeOK
  <2>3. RedisTypeOK'
    BY <1>1, <2>1, <2>2 DEF ClientInv, RedisTypeOK
  <2>4. InCommand'
    BY <1>1, <2>1 DEF ClientInv, RedisTypeOK, InCommand, Commands
  <2>5. QED
    BY <2>1, <2>3, <2>4 DEF ClientInv
<1>2. CASE ~CanExecute
  <2>1. copy' \in [Copies -> Values \cup {NoValue}]
    BY <1>2, CopyTyped DEF ClientInv, OnFallback, Copies
  <2>2. QED
    BY <1>2, <2>1 DEF ClientInv, RedisTypeOK, InCommand, ProbesCounted, breakerVars
<1>3. QED
  BY <1>1, <1>2

LEMMA ActsKeeps ==
    ASSUME ClientInv, NEW t \in Tasks, RedisActs(t)
    PROVE  ClientInv'
<1>1. command[t] \in Commands /\ argument[t] \in Values \cup {NoValue}
  BY DEF ClientInv, RedisTypeOK, RedisActs
<1>2. copy' \in [Copies -> Values \cup {NoValue}]
  BY <1>1, CopyTyped DEF ClientInv, RedisActs, Copies
<1>3. answer' \in [Tasks -> Values \cup {NoValue}]
  BY DEF ClientInv, RedisTypeOK, RedisActs, Copies
<1>4. QED
  BY <1>2, <1>3 DEF ClientInv, RedisTypeOK, InCommand, ProbesCounted, RedisActs, breakerVars

(* What every end of a command has in common.                              *)
LEMMA EndsTypes ==
    ASSUME ClientInv, NEW t \in Tasks, Ends(t)
    PROVE  /\ command' \in [Tasks -> Commands \cup {"none"}]
           /\ argument' \in [Tasks -> Values \cup {NoValue}]
           /\ acted' \subseteq Tasks /\ answer' \in [Tasks -> Values \cup {NoValue}]
           /\ \A u \in Tasks \ {t} : command'[u] = command[u]
           /\ command'[t] = "none" /\ t \notin acted'
BY DEF ClientInv, RedisTypeOK, Ends

LEMMA EndsInCommand ==
    ASSUME ClientInv, NEW t \in Tasks, Ends(t), probes' = probes \ {t}
    PROVE  InCommand'
BY EndsTypes DEF ClientInv, RedisTypeOK, InCommand, Ends

(* Taking a probe away, which was counted.                                 *)
LEMMA ProbeLeaves ==
    ASSUME ClientInv, NEW t \in Tasks, probes' = probes \ {t}
    PROVE  /\ IsFiniteSet(probes') /\ Cardinality(probes) \in Nat
           /\ Cardinality(probes') =
                IF t \in probes THEN Cardinality(probes) - 1 ELSE Cardinality(probes)
BY FS_RemoveElement, FS_CardinalityType DEF ClientInv, ProbesCounted

LEMMA ReturnsKeeps ==
    ASSUME ClientInv, NEW t \in Tasks, CommandReturns(t)
    PROVE  ClientInv'
<1> USE DEF CommandReturns, RecordSuccess
<1>1. command[t] \in Commands /\ argument[t] \in Values \cup {NoValue}
  BY DEF ClientInv, RedisTypeOK, InCommand
<1>2. copy' \in [Copies -> Values \cup {NoValue}]
  BY <1>1, CopyTyped DEF ClientInv, OnFallback, Copies
<1>3. failures' \in 0 .. FailureThreshold /\ circuit' \in {"CLOSED", "OPEN", "HALF_OPEN"}
  BY RedisAssumption DEF ClientInv, RedisTypeOK
<1>4. RedisTypeOK'
  <2>1. /\ command' \in [Tasks -> Commands \cup {"none"}]
        /\ argument' \in [Tasks -> Values \cup {NoValue}]
        /\ acted' \subseteq Tasks /\ answer' \in [Tasks -> Values \cup {NoValue}]
    BY EndsTypes
  <2>2. QED
    BY <1>2, <1>3, <2>1 DEF ClientInv, RedisTypeOK
<1>5. ProbesCounted'
  <2>1. IsFiniteSet(probes')
    BY ProbeLeaves
  <2>2. circuit' # "HALF_OPEN" /\ halfOpenCalls' = halfOpenCalls
    OBVIOUS
  <2>3. QED
    BY <2>1, <2>2 DEF ClientInv, ProbesCounted
<1>6. QED
  BY <1>4, <1>5, EndsInCommand DEF ClientInv

LEMMA FailsKeeps ==
    ASSUME ClientInv, NEW t \in Tasks, CommandFails(t)
    PROVE  ClientInv'
<1> USE DEF CommandFails, RecordFailure
<1>1. command[t] \in Commands /\ argument[t] \in Values \cup {NoValue}
  BY DEF ClientInv, RedisTypeOK
<1>2. copy' \in [Copies -> Values \cup {NoValue}]
  BY <1>1, CopyTyped DEF ClientInv, OnFallback, Copies
<1>3. failures' \in 0 .. FailureThreshold /\ circuit' \in {"CLOSED", "OPEN", "HALF_OPEN"}
  BY RedisAssumption DEF ClientInv, RedisTypeOK
<1>4. RedisTypeOK'
  <2>1. /\ command' \in [Tasks -> Commands \cup {"none"}]
        /\ argument' \in [Tasks -> Values \cup {NoValue}]
        /\ acted' \subseteq Tasks /\ answer' \in [Tasks -> Values \cup {NoValue}]
    BY EndsTypes
  <2>2. /\ redisFaults' \in Nat /\ probes' \subseteq Tasks /\ elapsed' = FALSE
        /\ UNCHANGED <<halfOpenCalls, lost, expiries>>
    BY DEF ClientInv, RedisTypeOK
  <2>3. QED
    BY <1>2, <1>3, <2>1, <2>2 DEF ClientInv, RedisTypeOK
<1>5. ProbesCounted'
  <2>1. IsFiniteSet(probes')
    BY ProbeLeaves
  <2>2. circuit' # "HALF_OPEN" /\ halfOpenCalls' = halfOpenCalls
    BY DEF ClientInv, RedisTypeOK
  <2>3. QED
    BY <2>1, <2>2 DEF ClientInv, ProbesCounted
<1>6. QED
  BY <1>4, <1>5, EndsInCommand DEF ClientInv

(* A cancelled probe moves from the probes to the lost ones.               *)
LEMMA CancelKeeps ==
    ASSUME ClientInv, NEW t \in Tasks, CancelCommand(t)
    PROVE  ClientInv'
<1> USE DEF CancelCommand
<1>1. RedisTypeOK'
  <2>1. /\ command' \in [Tasks -> Commands \cup {"none"}]
        /\ argument' \in [Tasks -> Values \cup {NoValue}]
        /\ acted' \subseteq Tasks /\ answer' \in [Tasks -> Values \cup {NoValue}]
    BY EndsTypes
  <2>2. lost' \in Nat /\ probes' \subseteq Tasks
    BY DEF ClientInv, RedisTypeOK
  <2>3. UNCHANGED <<circuit, failures, halfOpenCalls, elapsed, copy, redisFaults, expiries>>
    OBVIOUS
  <2>4. QED
    BY <2>1, <2>2, <2>3 DEF ClientInv, RedisTypeOK
<1>2. ProbesCounted'
  <2>1. IsFiniteSet(probes') /\ Cardinality(probes') + lost' = Cardinality(probes) + lost
    <3>1. lost \in Nat
      BY DEF ClientInv, RedisTypeOK
    <3>2. CASE t \in probes
      <4>1. Cardinality(probes') = Cardinality(probes) - 1 /\ Cardinality(probes) \in Nat
        BY <3>2, ProbeLeaves
      <4>2. lost' = lost + 1
        BY <3>2
      <4>3. QED
        BY <3>1, <4>1, <4>2, ProbeLeaves
    <3>3. CASE t \notin probes
      <4>1. Cardinality(probes') = Cardinality(probes)
        BY <3>3, ProbeLeaves
      <4>2. QED
        BY <3>3, <4>1, ProbeLeaves
    <3>4. QED
      BY <3>2, <3>3
  <2>2. QED
    BY <2>1 DEF ClientInv, ProbesCounted
<1>3. QED
  BY <1>1, <1>2, EndsInCommand DEF ClientInv

LEMMA ExpiryKeeps ==
    ASSUME ClientInv, NEW c \in Copies, Expires(c)
    PROVE  ClientInv'
BY DEF ClientInv, RedisTypeOK, InCommand, ProbesCounted, Expires, breakerVars, commandVars

LEMMA TimeoutKeeps ==
    ASSUME ClientInv, TimeoutPasses
    PROVE  ClientInv'
BY DEF ClientInv, RedisTypeOK, InCommand, ProbesCounted, TimeoutPasses, commandVars

LEMMA NothingKeeps ==
    ASSUME ClientInv, UNCHANGED redisVars
    PROVE  ClientInv'
BY DEF ClientInv, RedisTypeOK, InCommand, ProbesCounted, redisVars, breakerVars, commandVars

(***************************************************************************)
(* The calls of the use case.                                              *)
(***************************************************************************)

Places == {"idle", "lookup", "read", "fill", "invalidate", "invalidateList"}

PlaceOf(op) ==
    CASE op = "get" -> "lookup" [] op = "set" -> "fill"
      [] op = "delete" -> "invalidate" [] op = "deleteOther" -> "invalidateList"

(* A call waits where the command it awaits belongs.                       *)
InPlace ==
    \A t \in Tasks :
       /\ command[t] # "none" => pc[t] = PlaceOf(command[t])
       /\ pc[t] = "lookup" => command[t] = "get"
       /\ pc[t] = "invalidate" => t \in Writers

(* A copy is still to be invalidated by t: of Redis, until Redis has       *)
(* carried out the delete, although the call does not know it yet.         *)
Pending(c, t) == pc[t] = "invalidate" /\ (c = "redis" => t \notin acted)

(* StaleIsExplained alone would not survive the return of a delete that    *)
(* Redis had carried out before the next commit.                           *)
Explained(c) == copy[c] \notin {NoValue, Current} => why[c] # {} \/ \E t \in Writers : Pending(c, t)

ItemInv ==
    /\ ItemTypeOK /\ InPlace
    /\ \A c \in Copies : Explained(c)
    /\ "missed delete" \notin why["fallback"]

CacheInv == ClientInv /\ ItemInv

LEMMA CacheInitially == ItemInit => CacheInv
<1> SUFFICES ASSUME ItemInit PROVE CacheInv
  OBVIOUS
<1>1. ClientInv
  BY ClientInitially DEF ItemInit
<1>2. ItemTypeOK
  <2>1. version \in Values
    BY ItemAssumption DEF ItemInit
  <2>2. QED
    BY <2>1 DEF ItemInit, ItemTypeOK
<1>3. InPlace
  BY DEF ItemInit, RedisInit, InPlace
<1>4. \A c \in Copies : Explained(c)
  BY DEF ItemInit, RedisInit, Explained
<1>5. "missed delete" \notin why["fallback"]
  BY DEF ItemInit, Copies
<1>6. QED
  BY <1>1, <1>2, <1>3, <1>4, <1>5 DEF CacheInv, ItemInv

LEMMA GotoOne ==
    ASSUME ItemTypeOK, NEW t \in Tasks, NEW p \in Places, Goto(t, p)
    PROVE  /\ pc' \in [Tasks -> Places] /\ pc'[t] = p
           /\ \A u \in Tasks \ {t} : pc'[u] = pc[u]
BY DEF ItemTypeOK, Goto, Places

(* A command that starts is either on its way to Redis or done with the    *)
(* fallback.                                                               *)
LEMMA StartOne ==
    ASSUME RedisTypeOK, NEW t \in Tasks, NEW op \in Commands,
           NEW v \in Values \cup {NoValue}, StartCommand(t, op, v)
    PROVE  /\ command[t] = "none" /\ acted' = acted
           /\ \A u \in Tasks \ {t} : command'[u] = command[u]
           /\ \/ command'[t] = op /\ copy' = copy
              \/ /\ command'[t] = "none" /\ copy'["redis"] = copy["redis"]
                 /\ copy'["fallback"] = After(op, copy["fallback"], v)
BY DEF RedisTypeOK, StartCommand, OnFallback, Copies

(* Explain keeps every reason that still holds.                            *)
LEMMA ExplainTypes ==
    ASSUME ItemTypeOK, NEW missed \in BOOLEAN, Explain(missed)
    PROVE  /\ why' \in [Copies -> SUBSET Reasons]
           /\ "missed delete" \notin why["fallback"] => "missed delete" \notin why'["fallback"]
BY DEF ItemTypeOK, Explain, Reasons, Copies

(* A writer whose call ends without having removed the copy must be the    *)
(* one whose delete was missed.                                            *)
LEMMA ExplainKeeps ==
    ASSUME ItemTypeOK, NEW missed \in BOOLEAN, Explain(missed), NEW c \in Copies,
           Explained(c), UNCHANGED <<version, deleted>>,
           \A t \in Writers : Pending(c, t) =>
              Pending(c, t)' \/ copy'[c] = NoValue \/ (c = "redis" /\ missed)
    PROVE  Explained(c)'
<1> SUFFICES ASSUME copy'[c] \notin {NoValue, Current}, why'[c] = {}
             PROVE  \E t \in Writers : Pending(c, t)'
  BY DEF Explained, Current
<1>1. /\ copy'[c] = copy[c] /\ ~(c = "redis" /\ missed)
      /\ why'[c] = why[c]
  BY DEF Explain, Current
<1>2. PICK t \in Writers : Pending(c, t)
  BY <1>1 DEF Explained, Current
<1>3. QED
  BY <1>1, <1>2

(* Nothing about the copies changes.                                       *)
LEMMA CopiesKeep ==
    ASSUME NEW c \in Copies, Explained(c), UNCHANGED <<version, deleted, copy, why>>,
           \A t \in Writers : Pending(c, t) => Pending(c, t)'
    PROVE  Explained(c)'
BY DEF Explained, Current

(* From here on: one lemma per action, each step under the facts that      *)
(* every action needs.                                                     *)
LEMMA BeginGetKeeps ==
    ASSUME CacheInv, NEW t \in Readers, BeginGet(t)
    PROVE  ItemInv'
<1> USE DEF CacheInv, ClientInv, ItemInv
<1>1. t \in Tasks /\ t \notin Writers /\ "get" \in Commands /\ NoValue \in Values \cup {NoValue}
  BY ItemAssumption DEF Commands
<1>2. /\ command[t] = "none" /\ acted' = acted /\ copy' = copy
      /\ \A u \in Tasks \ {t} : command'[u] = command[u]
      /\ command'[t] \in {"get", "none"}
  <2>1. StartCommand(t, "get", NoValue)
    BY DEF BeginGet
  <2>2. copy' = copy
    BY <2>1 DEF StartCommand, OnFallback, After, RedisTypeOK, Copies
  <2>3. QED
    BY <1>1, <2>1, <2>2, StartOne
<1>3. PICK p \in Places : /\ Goto(t, p) /\ p \in {"lookup", "read", "idle"}
                          /\ command'[t] = "get" <=> p = "lookup"
  BY <1>2 DEF BeginGet, AfterLookup, Places
<1>4. /\ pc' \in [Tasks -> Places] /\ pc'[t] = p
      /\ \A u \in Tasks \ {t} : pc'[u] = pc[u]
  BY <1>1, <1>3, GotoOne
<1>5. UNCHANGED <<version, deleted, seen, cancels, why>> /\ pc[t] = "idle"
  BY DEF BeginGet
<1>6. ItemTypeOK'
  BY <1>4, <1>5 DEF ItemTypeOK, Places
<1>7. InPlace'
  BY <1>2, <1>3, <1>4 DEF InPlace, PlaceOf
<1>8. ASSUME NEW c \in Copies PROVE Explained(c)'
  <2>1. \A u \in Writers : Pending(c, u) => Pending(c, u)'
    BY <1>2, <1>4, <1>1, ItemAssumption DEF Pending
  <2>2. QED
    BY <1>2, <1>5, <2>1, CopiesKeep
<1>9. QED
  BY <1>5, <1>6, <1>7, <1>8

LEMMA ReadDatabaseKeeps ==
    ASSUME CacheInv, NEW t \in Readers, ReadDatabase(t)
    PROVE  ItemInv'
<1> USE DEF CacheInv, ItemInv
<1>1. t \in Tasks /\ t \notin Writers
  BY ItemAssumption
<1>2. PICK p \in Places : Goto(t, p) /\ p \in {"idle", "fill"}
  BY DEF ReadDatabase, Places
<1>3. /\ pc' \in [Tasks -> Places] /\ pc'[t] = p
      /\ \A u \in Tasks \ {t} : pc'[u] = pc[u]
  BY <1>1, <1>2, GotoOne
<1>4. /\ UNCHANGED <<version, deleted, cancels, why, copy, command, acted>>
      /\ pc[t] = "read"
  BY DEF ReadDatabase, redisVars, commandVars
<1>5. ItemTypeOK'
  <2>1. seen' \in [Tasks -> Values \cup {NoValue}]
    BY DEF ReadDatabase, ItemTypeOK, Current
  <2>2. QED
    BY <1>3, <1>4, <2>1 DEF ItemTypeOK, Places
<1>6. command[t] = "none"
  BY <1>1, <1>4 DEF InPlace, PlaceOf, ClientInv, RedisTypeOK, Commands
<1>7. InPlace'
  BY <1>2, <1>3, <1>4, <1>6 DEF InPlace, PlaceOf
<1>8. ASSUME NEW c \in Copies PROVE Explained(c)'
  <2>1. \A u \in Writers : Pending(c, u) => Pending(c, u)'
    BY <1>1, <1>3, <1>4, ItemAssumption DEF Pending
  <2>2. QED
    BY <1>4, <2>1, CopiesKeep
<1>9. QED
  BY <1>4, <1>5, <1>7, <1>8

(* What was read is set, and explained as a late fill if it is stale.      *)
LEMMA BeginFillKeeps ==
    ASSUME CacheInv, NEW t \in Readers, BeginFill(t)
    PROVE  ItemInv'
<1> USE DEF CacheInv, ClientInv, ItemInv
<1>1. t \in Tasks /\ t \notin Writers /\ "set" \in Commands /\ seen[t] \in Values \cup {NoValue}
  BY ItemAssumption DEF Commands, ItemTypeOK
<1>2. /\ command[t] = "none" /\ acted' = acted
      /\ \A u \in Tasks \ {t} : command'[u] = command[u]
      /\ command'[t] \in {"set", "none"}
  BY <1>1, StartOne DEF BeginFill
<1>3. /\ UNCHANGED <<version, deleted, cancels>> /\ pc[t] = "fill"
      /\ Explain(FALSE) /\ WhenOver(t, "idle") /\ seen' = [seen EXCEPT ![t] = NoValue]
  BY DEF BeginFill
<1>4. /\ pc' \in [Tasks -> Places] /\ pc'[t] \in {"fill", "idle"}
      /\ \A u \in Tasks \ {t} : pc'[u] = pc[u]
      /\ command'[t] = "set" => pc'[t] = "fill"
  <2>1. CASE command'[t] = "none"
    BY <1>1, <1>3, <2>1, GotoOne DEF WhenOver, Places
  <2>2. CASE command'[t] # "none"
    BY <1>1, <1>2, <1>3, <2>2 DEF WhenOver, ItemTypeOK, Places
  <2>3. QED
    BY <2>1, <2>2
<1>5. ItemTypeOK' /\ "missed delete" \notin why'["fallback"]
  <2>1. seen' \in [Tasks -> Values \cup {NoValue}]
    BY <1>3 DEF ItemTypeOK
  <2>2. why' \in [Copies -> SUBSET Reasons] /\ "missed delete" \notin why'["fallback"]
    BY <1>3, ExplainTypes
  <2>3. QED
    BY <1>3, <1>4, <2>1, <2>2 DEF ItemTypeOK, Places
<1>6. InPlace'
  BY <1>2, <1>4 DEF InPlace, PlaceOf
<1>7. ASSUME NEW c \in Copies PROVE Explained(c)'
  <2>1. \A u \in Writers : Pending(c, u) => Pending(c, u)'
    BY <1>1, <1>2, <1>4, ItemAssumption DEF Pending
  <2>2. QED
    BY <1>3, <2>1, ExplainKeeps
<1>8. QED
  BY <1>5, <1>6, <1>7

LEMMA NextVersion ==
    ASSUME NEW m \in Nat, NEW v \in 1 .. m, v < m
    PROVE  v + 1 \in 1 .. m
OBVIOUS

(* A commit leaves its writer to invalidate both copies.                   *)
LEMMA CommitKeeps ==
    ASSUME CacheInv, NEW t \in Writers, CommitUpdate(t) \/ CommitDelete(t)
    PROVE  ItemInv'
<1> USE DEF CacheInv, ItemInv
<1>1. t \in Tasks
  BY ItemAssumption
<1>2. Goto(t, "invalidate") /\ "invalidate" \in Places
  BY DEF CommitUpdate, CommitDelete, Places
<1>3. /\ pc' \in [Tasks -> Places] /\ pc'[t] = "invalidate"
      /\ \A u \in Tasks \ {t} : pc'[u] = pc[u]
  BY <1>1, <1>2, GotoOne
<1>4. UNCHANGED <<seen, cancels, why, copy, command, acted>> /\ pc[t] = "idle"
  BY DEF CommitUpdate, CommitDelete, redisVars, commandVars
<1>5. ItemTypeOK'
  <2>1. version' \in Values /\ deleted' \in BOOLEAN
    <3>1. CASE CommitUpdate(t)
      <4>1. version \in 1 .. MaxVersion /\ deleted \in BOOLEAN /\ MaxVersion \in Nat
        BY ItemAssumption DEF ItemTypeOK
      <4>2. version < MaxVersion /\ version' = version + 1 /\ deleted' = deleted
        BY <3>1 DEF CommitUpdate
      <4>3. version + 1 \in 1 .. MaxVersion
        BY <4>1, <4>2, NextVersion
      <4>4. QED
        BY <4>1, <4>2, <4>3, ItemAssumption
    <3>2. CASE CommitDelete(t)
      BY <3>2 DEF CommitDelete, ItemTypeOK
    <3>3. QED
      BY <3>1, <3>2
  <2>2. QED
    BY <1>3, <1>4, <2>1 DEF ItemTypeOK, Places
<1>6. command[t] = "none"
  BY <1>1, <1>4 DEF InPlace, PlaceOf, ClientInv, RedisTypeOK, Commands
<1>7. InPlace'
  BY <1>3, <1>4, <1>6 DEF InPlace, PlaceOf
<1>8. ASSUME NEW c \in Copies PROVE Explained(c)'
  <2>1. Pending(c, t)'
    BY <1>3, <1>4, <1>6 DEF Pending, ClientInv, InCommand
  <2>2. QED
    BY <2>1 DEF Explained
<1>9. QED
  BY <1>4, <1>5, <1>7, <1>8

(* The delete of the item's key starts, or is served by the fallback alone *)
(* and missed by Redis; the delete of the list's key touches no copy.      *)
LEMMA BeginInvalidateKeeps ==
    ASSUME CacheInv, NEW t \in Writers, BeginInvalidate(t)
    PROVE  ItemInv'
<1> USE DEF CacheInv, ClientInv, ItemInv
<1>1. /\ t \in Tasks /\ NoValue \in Values \cup {NoValue}
      /\ "delete" \in Commands /\ "deleteOther" \in Commands
  BY ItemAssumption DEF Commands
<1>2. UNCHANGED <<version, deleted, seen, cancels>>
  BY DEF BeginInvalidate
<1>3. CASE /\ pc[t] = "invalidate" /\ StartCommand(t, "delete", NoValue)
           /\ WhenOver(t, "invalidateList") /\ Explain(command'[t] = "none")
  <2>1. /\ command[t] = "none" /\ acted' = acted
        /\ \A u \in Tasks \ {t} : command'[u] = command[u]
        /\ \/ command'[t] = "delete" /\ copy' = copy
           \/ command'[t] = "none" /\ copy'["fallback"] = NoValue
    BY <1>1, <1>3, StartOne DEF After
  <2>2. /\ pc' \in [Tasks -> Places] /\ pc'[t] \in {"invalidate", "invalidateList"}
        /\ \A u \in Tasks \ {t} : pc'[u] = pc[u]
        /\ command'[t] = "delete" => pc'[t] = "invalidate"
    <3>1. CASE command'[t] = "none"
      BY <1>1, <1>3, <3>1, GotoOne DEF WhenOver, Places
    <3>2. CASE command'[t] # "none"
      BY <1>1, <1>3, <2>1, <3>2 DEF WhenOver, ItemTypeOK, Places
    <3>3. QED
      BY <3>1, <3>2
  <2>3. ItemTypeOK' /\ "missed delete" \notin why'["fallback"]
    <3>1. why' \in [Copies -> SUBSET Reasons] /\ "missed delete" \notin why'["fallback"]
      BY <1>3, ExplainTypes
    <3>2. QED
      BY <1>2, <2>2, <3>1 DEF ItemTypeOK, Places
  <2>4. InPlace'
    BY <2>1, <2>2 DEF InPlace, PlaceOf
  <2>5. ASSUME NEW c \in Copies PROVE Explained(c)'
    <3>1. ASSUME NEW u \in Writers, Pending(c, u)
          PROVE  \/ Pending(c, u)' \/ copy'[c] = NoValue
                 \/ c = "redis" /\ command'[t] = "none"
      <4>1. CASE u # t
        BY <1>1, <2>1, <2>2, <3>1, <4>1, ItemAssumption DEF Pending
      <4>2. CASE u = t /\ command'[t] = "delete"
        BY <2>1, <2>2, <3>1, <4>2 DEF Pending
      <4>3. CASE command'[t] = "none"
        BY <2>1, <4>3 DEF Copies
      <4>4. QED
        BY <2>1, <4>1, <4>2, <4>3
    <3>2. QED
      BY <1>2, <1>3, <3>1, ExplainKeeps
  <2>6. QED
    BY <2>3, <2>4, <2>5
<1>4. CASE /\ pc[t] = "invalidateList" /\ StartCommand(t, "deleteOther", NoValue)
           /\ WhenOver(t, "idle") /\ UNCHANGED why
  <2>1. /\ command[t] = "none" /\ acted' = acted
        /\ \A u \in Tasks \ {t} : command'[u] = command[u]
        /\ command'[t] \in {"deleteOther", "none"}
    BY <1>1, <1>4, StartOne
  <2>2. copy' = copy
    BY <1>4 DEF StartCommand, OnFallback, After, RedisTypeOK, Copies
  <2>3. /\ pc' \in [Tasks -> Places] /\ pc'[t] \in {"invalidateList", "idle"}
        /\ \A u \in Tasks \ {t} : pc'[u] = pc[u]
        /\ command'[t] = "deleteOther" => pc'[t] = "invalidateList"
    <3>1. CASE command'[t] = "none"
      BY <1>1, <1>4, <3>1, GotoOne DEF WhenOver, Places
    <3>2. CASE command'[t] # "none"
      BY <1>1, <1>4, <2>1, <3>2 DEF WhenOver, ItemTypeOK, Places
    <3>3. QED
      BY <3>1, <3>2
  <2>4. ItemTypeOK'
    BY <1>2, <1>4, <2>3 DEF ItemTypeOK, Places
  <2>5. InPlace'
    BY <2>1, <2>3 DEF InPlace, PlaceOf
  <2>6. ASSUME NEW c \in Copies PROVE Explained(c)'
    <3>1. \A u \in Writers : Pending(c, u) => Pending(c, u)'
      BY <1>1, <1>4, <2>1, <2>3, ItemAssumption DEF Pending
    <3>2. QED
      BY <1>2, <1>4, <2>2, <3>1, CopiesKeep
  <2>7. QED
    BY <1>4, <2>4, <2>5, <2>6
<1>5. QED
  BY <1>3, <1>4 DEF BeginInvalidate

(* Redis carries a delete out: its copy is gone, and nobody's concern.     *)
LEMMA CarriesOutKeeps ==
    ASSUME CacheInv, NEW t \in Tasks, RedisCarriesOut(t)
    PROVE  ItemInv'
<1> USE DEF CacheInv, ClientInv, ItemInv
<1>1. /\ command[t] # "none" /\ acted' = acted \cup {t} /\ command' = command
      /\ copy'["redis"] = After(command[t], copy["redis"], argument[t])
      /\ Explain(FALSE) /\ UNCHANGED <<version, deleted, pc, seen, cancels>>
  BY DEF RedisCarriesOut, RedisActs, itemVars, RedisTypeOK, Copies
<1>2. ItemTypeOK' /\ "missed delete" \notin why'["fallback"]
  BY <1>1, ExplainTypes DEF ItemTypeOK
<1>3. InPlace'
  BY <1>1 DEF InPlace
<1>4. ASSUME NEW c \in Copies PROVE Explained(c)'
  <2>1. ASSUME NEW u \in Writers, Pending(c, u)
        PROVE  Pending(c, u)' \/ copy'[c] = NoValue
    <3>1. CASE c = "redis" /\ u = t
      <4>1. command[t] = "delete"
        BY <1>1, <2>1, <3>1 DEF Pending, InPlace, PlaceOf, RedisTypeOK, Commands
      <4>2. QED
        BY <1>1, <3>1, <4>1 DEF After
    <3>2. CASE c # "redis" \/ u # t
      BY <1>1, <2>1, <3>2 DEF Pending
    <3>3. QED
      BY <3>1, <3>2
  <2>2. QED
    BY <1>1, <2>1, ExplainKeeps
<1>5. QED
  BY <1>2, <1>3, <1>4

(* A delete that returns or fails clears the fallback, and Redis if it got *)
(* there; if it did not, that is what explains the copy.                   *)
LEMMA IsOverKeeps ==
    ASSUME CacheInv, NEW t \in Tasks, CommandIsOver(t)
    PROVE  ItemInv'
<1> USE DEF CacheInv, ClientInv, ItemInv
<1> DEFINE missed == command[t] = "delete" /\ t \notin acted
<1>1. /\ command[t] # "none" /\ Ends(t) /\ OnFallback(command[t], argument[t])
      /\ UNCHANGED <<version, deleted, seen, cancels>>
  BY DEF CommandIsOver, CommandReturns, CommandFails, InCommand
<1>2. Explain(missed)
  <2>1. CASE CommandReturns(t) /\ Explain(FALSE)
    <3>1. missed = FALSE
      BY <2>1 DEF CommandReturns
    <3>2. QED
      BY <2>1, <3>1
  <2>2. CASE Explain(missed)
    BY <2>2
  <2>3. QED
    BY <2>1, <2>2 DEF CommandIsOver
<1>3. PICK p \in Places : Goto(t, p) /\ p \in {"read", "idle", "invalidateList"}
  <2>1. \A found : NextPlace(t, found) \in {"read", "idle", "invalidateList"}
    BY DEF NextPlace, AfterLookup
  <2>2. \E found : Goto(t, NextPlace(t, found))
    BY DEF CommandIsOver
  <2>3. QED
    BY <2>1, <2>2 DEF Places
<1>4. /\ pc' \in [Tasks -> Places] /\ pc'[t] = p
      /\ \A u \in Tasks \ {t} : pc'[u] = pc[u]
  BY <1>3, GotoOne
<1>5. /\ \A u \in Tasks \ {t} : command'[u] = command[u]
      /\ command'[t] = "none" /\ acted' = acted \ {t}
  BY <1>1, EndsTypes DEF Ends
<1>6. ItemTypeOK' /\ "missed delete" \notin why'["fallback"]
  <2>1. missed \in BOOLEAN
    OBVIOUS
  <2>2. why' \in [Copies -> SUBSET Reasons] /\ "missed delete" \notin why'["fallback"]
    BY <1>2, <2>1, ExplainTypes
  <2>3. QED
    BY <1>1, <1>4, <2>2 DEF ItemTypeOK, Places
<1>7. InPlace'
  BY <1>3, <1>4, <1>5 DEF InPlace
<1>8. ASSUME NEW c \in Copies PROVE Explained(c)'
  <2>1. ASSUME NEW u \in Writers, Pending(c, u)
        PROVE  Pending(c, u)' \/ copy'[c] = NoValue \/ (c = "redis" /\ missed)
    <3>1. CASE u # t
      BY <1>4, <1>5, <2>1, <3>1, ItemAssumption DEF Pending
    <3>2. CASE u = t
      <4>1. command[t] = "delete"
        BY <1>1, <2>1, <3>2 DEF Pending, InPlace, PlaceOf, RedisTypeOK, Commands
      <4>2. copy'["fallback"] = NoValue
        BY <1>1, <4>1 DEF OnFallback, After, RedisTypeOK, Copies
      <4>3. QED
        BY <2>1, <3>2, <4>1, <4>2 DEF Pending, Copies
    <3>3. QED
      BY <3>1, <3>2
  <2>2. missed \in BOOLEAN
    OBVIOUS
  <2>3. QED
    BY <1>1, <1>2, <2>1, <2>2, ExplainKeeps
<1>9. QED
  BY <1>6, <1>7, <1>8

(* A call that is cut short while it has both copies to invalidate says so. *)
LEMMA CutShortKeeps ==
    ASSUME CacheInv, NEW t \in Tasks, CallIsCutShort(t)
    PROVE  ItemInv'
<1> USE DEF CacheInv, ClientInv, ItemInv
<1>1. /\ Goto(t, "idle") /\ cancels' = cancels + 1 /\ seen' = [seen EXCEPT ![t] = NoValue]
      /\ why' = [c \in Copies |->
                   IF pc[t] = "invalidate" /\ copy[c] \notin {NoValue, Current}
                   THEN why[c] \cup {"cut short"} ELSE why[c]]
      /\ UNCHANGED <<version, deleted>>
  BY DEF CallIsCutShort
<1>2. /\ pc' \in [Tasks -> Places] /\ pc'[t] = "idle"
      /\ \A u \in Tasks \ {t} : pc'[u] = pc[u]
  BY <1>1, GotoOne DEF Places
<1>3. /\ \A u \in Tasks \ {t} : command'[u] = command[u] /\ (u \in acted' <=> u \in acted)
      /\ command'[t] = "none" /\ copy' = copy
  <2>1. CASE command[t] # "none"
    <3>1. CancelCommand(t)
      BY <2>1 DEF CallIsCutShort
    <3>2. QED
      BY <3>1, EndsTypes DEF CancelCommand, Ends
  <2>2. CASE command[t] = "none"
    BY <2>2 DEF CallIsCutShort, redisVars, commandVars
  <2>3. QED
    BY <2>1, <2>2
<1>4. ItemTypeOK' /\ "missed delete" \notin why'["fallback"]
  <2>1. why' \in [Copies -> SUBSET Reasons] /\ "missed delete" \notin why'["fallback"]
    BY <1>1 DEF ItemTypeOK, Reasons, Copies
  <2>2. seen' \in [Tasks -> Values \cup {NoValue}]
    BY <1>1 DEF ItemTypeOK
  <2>3. cancels' \in Nat
    <3>1. cancels \in Nat
      BY DEF ItemTypeOK
    <3>2. cancels' = cancels + 1
      BY <1>1
    <3> HIDE DEF CacheInv, ClientInv, ItemInv
    <3>3. QED
      BY <3>1, <3>2
  <2>4. QED
    BY <1>1, <1>2, <2>1, <2>2, <2>3 DEF ItemTypeOK, Places
<1>5. InPlace'
  BY <1>2, <1>3 DEF InPlace
<1>6. ASSUME NEW c \in Copies PROVE Explained(c)'
  <2>1. why[c] \subseteq why'[c]
    BY <1>1
  <2>2. SUFFICES ASSUME copy[c] \notin {NoValue, Current}, why'[c] = {}
                 PROVE  \E u \in Writers : Pending(c, u)'
    BY <1>1, <1>3 DEF Explained, Current
  <2>3. PICK u \in Writers : Pending(c, u)
    BY <2>1, <2>2 DEF Explained
  <2>4. pc[t] # "invalidate"
    BY <1>1, <2>2
  <2>5. u # t /\ u \in Tasks
    BY <2>3, <2>4, ItemAssumption DEF Pending
  <2>6. QED
    BY <1>2, <1>3, <2>3, <2>5 DEF Pending
<1>7. QED
  BY <1>4, <1>5, <1>6

LEMMA LosesValueKeeps ==
    ASSUME CacheInv, NEW c \in Copies, CacheLosesValue(c)
    PROVE  ItemInv'
<1> USE DEF CacheInv, ClientInv, ItemInv
<1>1. /\ Explain(FALSE) /\ UNCHANGED <<version, deleted, pc, seen, cancels, command, acted>>
  BY DEF CacheLosesValue, Expires, itemVars, commandVars
<1>2. ItemTypeOK' /\ "missed delete" \notin why'["fallback"]
  BY <1>1, ExplainTypes DEF ItemTypeOK
<1>3. InPlace'
  BY <1>1 DEF InPlace
<1>4. ASSUME NEW d \in Copies PROVE Explained(d)'
  <2>1. \A u \in Writers : Pending(d, u) => Pending(d, u)'
    BY <1>1 DEF Pending
  <2>2. QED
    BY <1>1, <2>1, ExplainKeeps
<1>5. QED
  BY <1>2, <1>3, <1>4

(* Time passes, or nothing happens at all.                                 *)
LEMMA StandsStill ==
    ASSUME CacheInv, UNCHANGED <<itemVars, why, copy, commandVars>>
    PROVE  ItemInv'
<1> USE DEF CacheInv, ItemInv
<1>1. UNCHANGED <<version, deleted, pc, seen, cancels, why, copy, command, acted>>
  BY DEF itemVars, commandVars
<1>2. ItemTypeOK' /\ InPlace'
  BY <1>1 DEF ItemTypeOK, InPlace
<1>3. ASSUME NEW c \in Copies PROVE Explained(c)'
  <2>1. \A u \in Writers : Pending(c, u) => Pending(c, u)'
    BY <1>1 DEF Pending
  <2>2. QED
    BY <1>1, <2>1, CopiesKeep
<1>4. QED
  BY <1>1, <1>2, <1>3

-----------------------------------------------------------------------------

(* Each action of the use case makes at most one step of the client.       *)
LEMMA ClientSteps ==
    ASSUME CacheInv, [ItemNext]_cacheVars
    PROVE  ClientInv'
<1> USE DEF CacheInv, ClientInv
<1>0. NoValue \in Values \cup {NoValue} /\ {"get", "set", "delete", "deleteOther"} = Commands
  BY DEF Commands
<1>1. ASSUME NEW t \in Readers, BeginGet(t) \/ ReadDatabase(t) \/ BeginFill(t)
      PROVE  ClientInv'
  <2>1. t \in Tasks /\ seen[t] \in Values \cup {NoValue}
    BY ItemAssumption DEF ItemInv, ItemTypeOK
  <2>2. CASE BeginGet(t)
    BY <1>0, <2>1, <2>2, StartKeeps DEF BeginGet
  <2>3. CASE ReadDatabase(t)
    BY <2>3, NothingKeeps DEF ReadDatabase
  <2>4. CASE BeginFill(t)
    BY <1>0, <2>1, <2>4, StartKeeps DEF BeginFill
  <2>5. QED
    BY <1>1, <2>2, <2>3, <2>4
<1>2. ASSUME NEW t \in Writers, CommitUpdate(t) \/ CommitDelete(t) \/ BeginInvalidate(t)
      PROVE  ClientInv'
  <2>1. t \in Tasks
    BY ItemAssumption
  <2>2. CASE CommitUpdate(t) \/ CommitDelete(t)
    BY <2>2, NothingKeeps DEF CommitUpdate, CommitDelete
  <2>3. CASE BeginInvalidate(t)
    BY <1>0, <2>1, <2>3, StartKeeps DEF BeginInvalidate
  <2>4. QED
    BY <1>2, <2>2, <2>3
<1>3. ASSUME NEW t \in Tasks, RedisCarriesOut(t) \/ CommandIsOver(t) \/ CallIsCutShort(t)
      PROVE  ClientInv'
  BY <1>3, ActsKeeps, ReturnsKeeps, FailsKeeps, CancelKeeps, NothingKeeps
     DEF RedisCarriesOut, CommandIsOver, CallIsCutShort
<1>4. ASSUME NEW c \in Copies, CacheLosesValue(c) PROVE ClientInv'
  BY <1>4, ExpiryKeeps DEF CacheLosesValue
<1>5. CASE TimePasses
  BY <1>5, TimeoutKeeps DEF TimePasses
<1>6. CASE UNCHANGED cacheVars
  BY <1>6, NothingKeeps DEF cacheVars
<1>7. QED
  BY <1>1, <1>2, <1>3, <1>4, <1>5, <1>6 DEF ItemNext

LEMMA CacheInductive ==
    ASSUME CacheInv, [ItemNext]_cacheVars
    PROVE  CacheInv'
<1>1. ASSUME NEW t \in Readers, BeginGet(t) \/ ReadDatabase(t) \/ BeginFill(t)
      PROVE  ItemInv'
  BY <1>1, BeginGetKeeps, ReadDatabaseKeeps, BeginFillKeeps
<1>2. ASSUME NEW t \in Writers, CommitUpdate(t) \/ CommitDelete(t) \/ BeginInvalidate(t)
      PROVE  ItemInv'
  BY <1>2, CommitKeeps, BeginInvalidateKeeps
<1>3. ASSUME NEW t \in Tasks, RedisCarriesOut(t) \/ CommandIsOver(t) \/ CallIsCutShort(t)
      PROVE  ItemInv'
  BY <1>3, CarriesOutKeeps, IsOverKeeps, CutShortKeeps
<1>4. ASSUME NEW c \in Copies, CacheLosesValue(c) PROVE ItemInv'
  BY <1>4, LosesValueKeeps
<1>5. ASSUME TimePasses \/ UNCHANGED cacheVars PROVE ItemInv'
  <2>1. UNCHANGED itemVars /\ UNCHANGED <<why, copy>> /\ UNCHANGED commandVars
    BY <1>5 DEF TimePasses, TimeoutPasses, cacheVars, redisVars, commandVars
  <2>2. UNCHANGED <<itemVars, why, copy, commandVars>>
    BY <2>1
  <2>3. QED
    BY <2>2, StandsStill
<1>6. ItemInv'
  BY <1>1, <1>2, <1>3, <1>4, <1>5 DEF ItemNext
<1>7. QED
  BY <1>6, ClientSteps DEF CacheInv

(* The inductive invariant, of client and use case together: ItemCache     *)
(* needs no word of the breaker, and the breaker none of the item.         *)
THEOREM CacheInvariance == ItemSpec => []CacheInv
<1>1. ItemInit => CacheInv
  BY CacheInitially
<1>2. CacheInv /\ [ItemNext]_cacheVars => CacheInv'
  BY CacheInductive
<1>3. QED
  BY <1>1, <1>2, PTL DEF ItemSpec

(* Commands, counters and copies stay within their types.                  *)
THEOREM CacheTypes == ItemSpec => [](RedisTypeOK /\ ItemTypeOK)
<1>1. CacheInv => RedisTypeOK /\ ItemTypeOK
  BY DEF CacheInv, ClientInv, ItemInv
<1>2. QED
  BY <1>1, CacheInvariance, PTL

(* A copy of the item is stale only while a writer is still to invalidate  *)
(* it, or for a late fill, a delete Redis missed or a writer cut short.    *)
THEOREM StalenessExplained == ItemSpec => []StaleIsExplained
<1>1. CacheInv => StaleIsExplained
  BY DEF CacheInv, ItemInv, Explained, Pending, StaleIsExplained
<1>2. QED
  BY <1>1, CacheInvariance, PTL

(* The half-open counter is short of the calls that probe a recovering     *)
(* Redis by exactly the first one, and the breaker refuses all others only *)
(* while one of them is out or after every one was cancelled.              *)
THEOREM ProbesAreAccounted == ItemSpec => []ProbesAccounted
<1>1. CacheInv => ProbesAccounted
  <2> SUFFICES ASSUME CacheInv, circuit = "HALF_OPEN" PROVE ProbesAccounted
    BY DEF ProbesAccounted
  <2>1. /\ Cardinality(probes) + lost = halfOpenCalls + 1
        /\ halfOpenCalls <= HalfOpenMaxCalls
        /\ halfOpenCalls \in Nat /\ lost \in Nat /\ Cardinality(probes) \in Nat
    BY FS_CardinalityType DEF CacheInv, ClientInv, RedisTypeOK, ProbesCounted
  <2>2. halfOpenCalls = Cardinality(probes) + lost - 1
    BY <2>1
  <2>3. ASSUME probes = {}, ~CanExecute
        PROVE  lost = HalfOpenMaxCalls + 1
    <3>1. Cardinality(probes) = 0
      BY <2>3, FS_EmptySet
    <3>2. ~(halfOpenCalls < HalfOpenMaxCalls)
      BY <2>3 DEF CanExecute
    <3>3. QED
      BY <2>1, <3>1, <3>2, RedisAssumption
  <2>4. \A t \in probes : command[t] # "none"
    BY DEF CacheInv, ClientInv, InCommand
  <2>5. QED
    BY <2>2, <2>3, <2>4 DEF ProbesAccounted
<1>2. QED
  BY <1>1, CacheInvariance, PTL
=============================================================================
