----------------------------- MODULE Inbox_proofs -----------------------------
(***************************************************************************)
(* The inbox, for any deliveries, ids and keys in which an id names one    *)
(* message: its indexes agree, a key has one handler at a time, and it     *)
(* implements the window of remembered keys of DedupWindow.                *)
(***************************************************************************)
EXTENDS Inbox, TLAPS

(* A stored entry is where its id says, its key leads to it, and it is one *)
(* that was received, not a dropped duplicate.                             *)
EntriesIndexed ==
    \A i \in Ids : entries[i] # None =>
        /\ IdOf[entries[i]] = i
        /\ byKey[KeyOf[entries[i]]] = i
        /\ entryStatus[entries[i]] \notin {"NONE", "DUPLICATE"}

(* A key the index knows leads to an entry with that key.  The code keeps  *)
(* the two maps together by hand; nothing else makes this so.              *)
KeysLead ==
    \A k \in Keys : byKey[k] # None =>
        entries[byKey[k]] # None /\ KeyOf[entries[byKey[k]]] = k

(* An entry without its outcome is stored: it is never replaced.           *)
UnsettledStored == \A d \in Deliveries : Unsettled(d) => entries[IdOf[d]] = d

Inv == TypeOK /\ EntriesIndexed /\ KeysLead /\ UnsettledStored

(* A key the inbox does not know has no stored entry, and the id of a      *)
(* delivery with that key is free: saving it replaces nothing.             *)
LEMMA UnknownKeyIsFree ==
    ASSUME Inv, NEW d \in Deliveries, EntryByKey(KeyOf[d]) = None
    PROVE  /\ byKey[KeyOf[d]] = None
           /\ entries[IdOf[d]] = None
           /\ \A i \in Ids : entries[i] # None => KeyOf[entries[i]] # KeyOf[d]
BY SameIdSameKey, NoneAssumption DEF Inv, TypeOK, EntriesIndexed, KeysLead, EntryByKey

(* The entry an unsettled delivery's key leads to is its own, so two       *)
(* unsettled deliveries have different keys.                               *)
LEMMA UnsettledFound ==
    ASSUME Inv, NEW d \in Deliveries, Unsettled(d)
    PROVE  /\ entries[IdOf[d]] = d /\ byKey[KeyOf[d]] = IdOf[d]
           /\ EntryByKey(KeyOf[d]) = d
BY SameIdSameKey, NoneAssumption DEF Inv, TypeOK, EntriesIndexed, UnsettledStored, EntryByKey

(* Nothing is stored at first.                                             *)
LEMMA InitInv == Init => Inv
BY SameIdSameKey, NoneAssumption, FaultBounds
DEF Init, Inv, TypeOK, EntryStatuses, EntriesIndexed, KeysLead, UnsettledStored, Unsettled

(* A new entry takes a free id and a free key.                             *)
LEMMA SaveStep ==
    ASSUME Inv, NEW d \in Deliveries, Receive(d) \/ ReceiveAndProcess(d)
    PROVE  Inv'
<1>1. EntryByKey(KeyOf[d]) = None /\ entryStatus[d] = "NONE" /\ Save(d)
  BY DEF Receive, ReceiveAndProcess
<1>2. PICK s \in {"PENDING", "PROCESSING"} :
         /\ entryStatus' = [entryStatus EXCEPT ![d] = s]
         /\ handling' \subseteq (IF s = "PROCESSING" THEN handling \cup {d} ELSE handling)
         /\ UNCHANGED <<effects, faults>>
  BY DEF Receive, ReceiveAndProcess
<1>3. TypeOK'
  BY <1>1, <1>2, SameIdSameKey DEF Inv, TypeOK, Save, EntryStatuses
<1>4. /\ byKey[KeyOf[d]] = None /\ entries[IdOf[d]] = None
      /\ \A i \in Ids : entries[i] # None => KeyOf[entries[i]] # KeyOf[d]
  BY <1>1, UnknownKeyIsFree
<1> DEFINE i == IdOf[d]
           k == KeyOf[d]
<1>5. i \in Ids /\ k \in Keys /\ d # None /\ i # None
  BY SameIdSameKey, NoneAssumption
<1>6. /\ entries'[i] = d /\ \A j \in Ids \ {i} : entries'[j] = entries[j]
      /\ byKey'[k] = i /\ \A l \in Keys \ {k} : byKey'[l] = byKey[l]
  BY <1>1, <1>5 DEF Inv, TypeOK, Save
<1>7. /\ entryStatus'[d] \in {"PENDING", "PROCESSING"}
      /\ \A e \in Deliveries \ {d} : entryStatus'[e] = entryStatus[e]
  BY <1>2 DEF Inv, TypeOK
<1>8. EntriesIndexed'
  <2> SUFFICES ASSUME NEW j \in Ids, entries'[j] # None
               PROVE  /\ IdOf[entries'[j]] = j
                      /\ byKey'[KeyOf[entries'[j]]] = j
                      /\ entryStatus'[entries'[j]] \notin {"NONE", "DUPLICATE"}
    BY DEF EntriesIndexed
  <2>1. CASE j = i
    BY <1>5, <1>6, <1>7, <2>1
  <2>2. CASE j # i
    BY <1>1, <1>4, <1>6, <1>7, <2>2, SameIdSameKey DEF Inv, TypeOK, EntriesIndexed
  <2>3. QED
    BY <2>1, <2>2
<1>9. KeysLead'
  BY <1>4, <1>5, <1>6 DEF Inv, TypeOK, KeysLead
<1>10. UnsettledStored'
  BY <1>4, <1>5, <1>6, <1>7, SameIdSameKey, NoneAssumption
  DEF Inv, TypeOK, UnsettledStored, Unsettled
<1>11. QED
  BY <1>3, <1>8, <1>9, <1>10 DEF Inv

(* Storing an unsettled entry again puts it where it is.                   *)
LEMMA UpdateStores ==
    ASSUME Inv, NEW d \in Deliveries, Unsettled(d), NEW s, Update(d, s)
    PROVE  UNCHANGED <<entries, byKey>>
BY UnsettledFound, SameIdSameKey DEF Inv, TypeOK, Update

(* A stored entry moves on to another status of a received entry.          *)
LEMMA UpdateStep ==
    ASSUME Inv, NEW d \in Deliveries, Unsettled(d),
           NEW s \in {"PROCESSING", "PROCESSED", "FAILED"}, Update(d, s)
    PROVE  /\ entryStatus' \in [Deliveries -> EntryStatuses]
           /\ EntriesIndexed' /\ KeysLead' /\ UnsettledStored'
<1>1. UNCHANGED <<entries, byKey>>
  BY UpdateStores
<1>2. entryStatus' = [entryStatus EXCEPT ![d] = s]
  BY DEF Update
<1>3. QED
  BY <1>1, <1>2, UnsettledFound, SameIdSameKey, NoneAssumption
  DEF Inv, TypeOK, EntryStatuses, EntriesIndexed, KeysLead, UnsettledStored, Unsettled

(* The steps of a handler: it begins, ends either way or is cancelled.     *)
LEMMA HandleStep ==
    ASSUME Inv, NEW d \in Deliveries, Handle(d)
    PROVE  Inv'
<1>1. Unsettled(d)
  BY DEF Inv, TypeOK, Handle, Process, MayProcess, HandlerReturns, HandlerRaises, Cancel, Unsettled
<1>2. CASE Process(d)
  <2>1. Update(d, "PROCESSING") /\ handling' = handling \cup {d} /\ UNCHANGED <<effects, faults>>
    BY <1>2 DEF Process
  <2>2. /\ entryStatus' \in [Deliveries -> EntryStatuses]
        /\ EntriesIndexed' /\ KeysLead' /\ UnsettledStored'
        /\ UNCHANGED <<entries, byKey>>
    BY <1>1, <2>1, UpdateStep, UpdateStores
  <2>3. handling' \subseteq {e \in Deliveries : entryStatus'[e] = "PROCESSING"}
    BY <2>1 DEF Inv, TypeOK, Update
  <2>4. QED
    BY <2>1, <2>2, <2>3 DEF Inv, TypeOK
<1>3. CASE HandlerReturns(d) \/ HandlerRaises(d)
  <2>1. PICK s \in {"PROCESSED", "FAILED"} : Update(d, s)
    BY <1>3 DEF HandlerReturns, HandlerRaises
  <2>2. /\ entryStatus' \in [Deliveries -> EntryStatuses]
        /\ EntriesIndexed' /\ KeysLead' /\ UnsettledStored'
        /\ UNCHANGED <<entries, byKey>>
    BY <1>1, <2>1, UpdateStep, UpdateStores
  <2>3. /\ effects' \in [Keys -> Nat]
        /\ faults' \in [{"raise", "cancel"} -> Nat]
    BY <1>3, SameIdSameKey DEF Inv, TypeOK, HandlerReturns, HandlerRaises
  <2>4. handling' \subseteq {e \in Deliveries : entryStatus'[e] = "PROCESSING"}
    BY <1>3, <2>1 DEF Inv, TypeOK, HandlerReturns, HandlerRaises, Update
  <2>5. QED
    BY <2>2, <2>3, <2>4 DEF Inv, TypeOK
<1>4. CASE Cancel(d)
  BY <1>4 DEF Inv, TypeOK, EntriesIndexed, KeysLead, UnsettledStored, Unsettled, Cancel
<1>5. QED
  BY <1>2, <1>3, <1>4 DEF Handle

(* The keys of the entries a cleanup deletes are the keys it forgets: no   *)
(* other entry has one of them, and no such entry waits for an outcome.    *)
LEMMA CleanupRemoves ==
    ASSUME Inv, NEW old \in SUBSET Deliveries, Cleanup(old)
    PROVE  /\ \A d \in old : entries[IdOf[d]] = d /\ byKey[KeyOf[d]] = IdOf[d]
           /\ \A i \in Ids : entries[i] # None /\ entries[i] \notin old =>
                 \A d \in old : KeyOf[entries[i]] # KeyOf[d]
           /\ \A d \in Deliveries : Unsettled(d) => d \notin old
<1>1. \A d \in old : entries[IdOf[d]] = d /\ byKey[KeyOf[d]] = IdOf[d]
  BY NoneAssumption DEF Inv, TypeOK, EntriesIndexed, Cleanup, Stored
<1>2. QED
  BY <1>1 DEF Inv, TypeOK, EntriesIndexed, Cleanup, Unsettled

(* A cleanup takes entries out of both indexes.                            *)
LEMMA CleanupStep ==
    ASSUME Inv, NEW old \in SUBSET Deliveries, Cleanup(old)
    PROVE  Inv'
<1>1. /\ entries' = [i \in Ids |-> IF entries[i] \in old THEN None ELSE entries[i]]
      /\ byKey' = [k \in Keys |-> IF \E d \in old : KeyOf[d] = k THEN None ELSE byKey[k]]
      /\ UNCHANGED <<entryStatus, handling, effects, faults>>
  BY DEF Cleanup
<1>2. TypeOK'
  BY <1>1 DEF Inv, TypeOK
<1>3. EntriesIndexed'
  BY <1>1, CleanupRemoves, SameIdSameKey, NoneAssumption DEF Inv, TypeOK, EntriesIndexed
<1>4. KeysLead'
  BY <1>1, CleanupRemoves, SameIdSameKey, NoneAssumption DEF Inv, TypeOK, KeysLead
<1>5. UnsettledStored'
  BY <1>1, CleanupRemoves, SameIdSameKey DEF Inv, TypeOK, UnsettledStored, Unsettled
<1>6. QED
  BY <1>2, <1>3, <1>4, <1>5 DEF Inv

(* No step leaves the invariant.                                           *)
LEMMA NextInv == Inv /\ [Next]_vars => Inv'
<1> SUFFICES ASSUME Inv, [Next]_vars PROVE Inv'
  OBVIOUS
<1>1. ASSUME NEW d \in Deliveries, Receive(d) \/ ReceiveAndProcess(d) PROVE Inv'
  BY <1>1, SaveStep
<1>2. ASSUME NEW d \in Deliveries, ReceiveDuplicate(d) PROVE Inv'
  BY <1>2 DEF Inv, TypeOK, EntryStatuses, EntriesIndexed, KeysLead, UnsettledStored,
              Unsettled, ReceiveDuplicate
<1>3. ASSUME NEW d \in Deliveries, Handle(d) PROVE Inv'
  BY <1>3, HandleStep
<1>4. ASSUME NEW old \in SUBSET Deliveries, Cleanup(old) PROVE Inv'
  BY <1>4, CleanupStep
<1>5. CASE UNCHANGED vars
  BY <1>5 DEF vars, Inv, TypeOK, EntriesIndexed, KeysLead, UnsettledStored, Unsettled
<1>6. QED
  BY <1>1, <1>2, <1>3, <1>4, <1>5 DEF Next, Deliver

(* The strengthened invariant holds in every reachable state.              *)
THEOREM InboxInvariance == Spec => []Inv
BY InitInv, NextInv, PTL DEF Spec

(* The inbox's variables have their types; only entries being processed    *)
(* have a handler.                                                         *)
THEOREM InboxTypes == Spec => []TypeOK
<1>1. Inv => TypeOK
  BY DEF Inv
<1>2. QED
  BY <1>1, InboxInvariance, PTL

(* The two indexes agree and every entry without its outcome can be found, *)
(* through redeliveries, failures, cancellations and cleanups.             *)
THEOREM IndexesAgreeAlways == Spec => []IndexesAgree
<1>1. Inv => IndexesAgree
  BY UnsettledFound, NoneAssumption DEF Inv, KeysLead, IndexesAgree, EntryByKey
<1>2. QED
  BY <1>1, InboxInvariance, PTL

(* However many copies of a message arrive, its handler never runs twice   *)
(* at the same time.                                                       *)
THEOREM OneHandlerAlways == Spec => []OneHandlerPerKey
<1>1. Inv => OneHandlerPerKey
  BY UnsettledFound DEF Inv, TypeOK, OneHandlerPerKey, Unsettled
<1>2. QED
  BY <1>1, InboxInvariance, PTL
-----------------------------------------------------------------------------
(* The refinement of DedupWindow.                                          *)

(* What stands for the variables of DedupWindow.                           *)
Window == {k \in Keys : EntryByKey(k) # None}
Open == {k \in Keys : \E d \in Deliveries : KeyOf[d] = k /\ Unsettled(d)}

(* A remembered key is one with an index entry, given the invariant.       *)
LEMMA WindowIsIndex == Inv => Window = {k \in Keys : byKey[k] # None}
BY DEF Inv, KeysLead, Window, EntryByKey

(* A new entry admits its key.                                             *)
LEMMA AdmitMaps ==
    ASSUME Inv, Inv', NEW d \in Deliveries, Receive(d) \/ ReceiveAndProcess(d)
    PROVE  Dedup!Admit(KeyOf[d])
<1> DEFINE k == KeyOf[d]
<1>1. /\ k \in Keys /\ k \notin Window /\ IdOf[d] # None
      /\ byKey' = [byKey EXCEPT ![k] = IdOf[d]]
      /\ effects' = effects
  BY SameIdSameKey, NoneAssumption DEF Receive, ReceiveAndProcess, Save, Window
<1>2. Window' = Window \cup {k}
  <2>1. Window' = {l \in Keys : byKey'[l] # None}
    BY DEF Inv, KeysLead, Window, EntryByKey
  <2>2. \A l \in Keys : byKey'[l] # None <=> (byKey[l] # None \/ l = k)
    BY <1>1 DEF Inv, TypeOK
  <2>3. QED
    BY <1>1, <2>1, <2>2, WindowIsIndex
<1>3. PICK s \in {"PENDING", "PROCESSING"} : entryStatus' = [entryStatus EXCEPT ![d] = s]
  BY DEF Receive, ReceiveAndProcess
<1>4. \A e \in Deliveries : Unsettled(e)' <=> (Unsettled(e) \/ e = d)
  BY <1>3 DEF Inv, TypeOK, Unsettled
<1>5. Open' = Open \cup {k}
  BY <1>1, <1>4 DEF Open
<1>6. QED
  BY <1>1, <1>2, <1>5 DEF Dedup!Admit, Window, Open

(* An entry that gets its outcome closes the admission of its key, since   *)
(* no other unsettled delivery has the key.                                *)
LEMMA SettleMaps ==
    ASSUME Inv, NEW d \in Deliveries, HandlerReturns(d) \/ HandlerRaises(d)
    PROVE  Dedup!Apply(KeyOf[d]) \/ Dedup!Drop(KeyOf[d])
<1> DEFINE k == KeyOf[d]
<1>1. k \in Keys /\ Unsettled(d)
  BY SameIdSameKey DEF Inv, TypeOK, HandlerReturns, HandlerRaises, Unsettled
<1>2. PICK s \in {"PROCESSED", "FAILED"} : Update(d, s)
  BY DEF HandlerReturns, HandlerRaises
<1>3. UNCHANGED <<entries, byKey>>
  BY <1>1, <1>2, UpdateStores
<1>4. Window' = Window
  BY <1>3 DEF Window, EntryByKey
<1>5. \A e \in Deliveries : Unsettled(e)' <=> (Unsettled(e) /\ e # d)
  BY <1>2 DEF Inv, TypeOK, Update, Unsettled
<1>6. \A e \in Deliveries : Unsettled(e) /\ KeyOf[e] = k => e = d
  BY <1>1, UnsettledFound
<1>7. k \in Open /\ Open' = Open \ {k}
  BY <1>1, <1>5, <1>6 DEF Open
<1>8. \/ effects' = [effects EXCEPT ![k] = @ + 1]
      \/ effects' = effects
  BY DEF HandlerReturns, HandlerRaises
<1>9. QED
  BY <1>4, <1>7, <1>8 DEF Dedup!Apply, Dedup!Drop, Window, Open

(* A cleanup forgets the keys of the entries it deletes, none of them open.*)
LEMMA CleanupMaps ==
    ASSUME Inv, Inv', NEW old \in SUBSET Deliveries, Cleanup(old)
    PROVE  Dedup!Forget({KeyOf[d] : d \in old})
<1> DEFINE gone == {KeyOf[d] : d \in old}
<1>1. /\ byKey' = [k \in Keys |-> IF \E d \in old : KeyOf[d] = k THEN None ELSE byKey[k]]
      /\ UNCHANGED <<entryStatus, effects>>
  BY DEF Cleanup
<1>2. Window' = Window \ gone
  <2>1. Window' = {l \in Keys : byKey'[l] # None}
    BY DEF Inv, KeysLead, Window, EntryByKey
  <2>2. \A l \in Keys : byKey'[l] # None <=> (byKey[l] # None /\ l \notin gone)
    BY <1>1
  <2>3. QED
    BY <2>1, <2>2, WindowIsIndex
<1>3. gone \subseteq Window
  BY CleanupRemoves, WindowIsIndex, SameIdSameKey, NoneAssumption DEF Inv
<1>4. \A d \in old, e \in Deliveries : Unsettled(e) => KeyOf[e] # KeyOf[d]
  BY CleanupRemoves, UnsettledFound
<1>5. gone \cap Open = {}
  BY <1>4 DEF Open
<1>6. Open' = Open
  BY <1>1 DEF Open, Unsettled
<1>7. QED
  BY <1>1, <1>2, <1>3, <1>5, <1>6 DEF Dedup!Forget, Window, Open

(* A call that takes the entry there is, one that begins its handler and   *)
(* one that is cancelled change nothing the window shows.                  *)
LEMMA SilentSteps ==
    ASSUME Inv, NEW d \in Deliveries, ReceiveDuplicate(d) \/ Process(d) \/ Cancel(d)
    PROVE  UNCHANGED <<Window, Open, effects>>
<1>1. UNCHANGED <<entries, byKey, effects>>
  <2>1. CASE Process(d)
    <3>1. Unsettled(d) /\ Update(d, "PROCESSING") /\ effects' = effects
      BY <2>1 DEF Process, MayProcess, Unsettled
    <3>2. QED
      BY <3>1, UpdateStores
  <2>2. QED
    BY <2>1 DEF ReceiveDuplicate, Cancel
<1>2. \A e \in Deliveries : Unsettled(e)' <=> Unsettled(e)
  BY DEF Inv, TypeOK, ReceiveDuplicate, Process, MayProcess, Update, Cancel, Unsettled
<1>3. QED
  BY <1>1, <1>2 DEF Window, Open, EntryByKey

(* Every step of the inbox is a step of the window or leaves it alone.     *)
LEMMA StepMaps == Inv /\ Inv' /\ [Next]_vars => [Dedup!Next]_(Dedup!vars)
<1> SUFFICES ASSUME Inv, Inv', [Next]_vars PROVE Dedup!Next \/ UNCHANGED Dedup!vars
  OBVIOUS
<1>1. ASSUME NEW d \in Deliveries, Receive(d) \/ ReceiveAndProcess(d) PROVE Dedup!Next
  BY <1>1, AdmitMaps, SameIdSameKey DEF Dedup!Next
<1>2. ASSUME NEW d \in Deliveries, HandlerReturns(d) \/ HandlerRaises(d) PROVE Dedup!Next
  BY <1>2, SettleMaps, SameIdSameKey DEF Dedup!Next
<1>3. ASSUME NEW d \in Deliveries, ReceiveDuplicate(d) \/ Process(d) \/ Cancel(d)
      PROVE  UNCHANGED Dedup!vars
  BY <1>3, SilentSteps DEF Dedup!vars, Window, Open
<1>4. ASSUME NEW old \in SUBSET Deliveries, Cleanup(old) PROVE Dedup!Next
  <2>1. {KeyOf[d] : d \in old} \in SUBSET Keys
    BY SameIdSameKey
  <2>2. QED
    BY <1>4, <2>1, CleanupMaps DEF Dedup!Next
<1>5. CASE UNCHANGED vars
  <2>1. UNCHANGED <<Window, Open, effects>>
    BY <1>5 DEF vars, Window, Open, EntryByKey, Unsettled
  <2>2. QED
    BY <2>1 DEF Dedup!vars, Window, Open
<1>6. QED
  BY <1>1, <1>2, <1>3, <1>4, <1>5 DEF Next, Deliver, Handle

(* At first nothing is remembered.                                         *)
LEMMA InitMaps == Init => Dedup!Init
BY DEF Init, Dedup!Init, EntryByKey, Unsettled

(* The inbox implements the window of remembered keys: for any deliveries, *)
(* a remembered key is not admitted again, an admission has at most one    *)
(* effect, and only a key whose admission had its outcome is forgotten.    *)
THEOREM InboxImplementsDedup == Spec => ImplementsDedup
BY InitMaps, StepMaps, InboxInvariance, PTL DEF Spec, ImplementsDedup, Dedup!Spec
=============================================================================
