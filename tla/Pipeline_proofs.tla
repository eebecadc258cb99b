--------------------------- MODULE Pipeline_proofs ---------------------------
(***************************************************************************)
(* Safety of the outbox for any number of messages, publishers and         *)
(* callers: no event is written off unsent, no message is stuck in         *)
(* PROCESSING but through a cancellation, published keyed events are final *)
(* and one publisher delivers them once.  Then the pipeline: outbox, inbox *)
(* keep their invariants behind the broker, and effects are backed.        *)
(***************************************************************************)
EXTENDS Pipeline, FiniteSetTheorems, SequenceTheorems, TLAPS

(***************************************************************************)
(* The outbox.                                                             *)
(***************************************************************************)

(* The conjuncts are checked by TLC too (Outbox.cfg), but for              *)
(* PublishedKeysRecorded, which the last action property rests on.         *)
(* Together they are inductive: PublishedWasHandedOff needs what processed *)
(* means, and the ownership of PROCESSING that only busy tasks are in      *)
(* flight.                                                                 *)
Inv ==
    /\ TypeOK
    /\ PublishedWasHandedOff
    /\ PublishedKeysRecorded
    /\ ProcessingIsOwned
    /\ RetriesMatchStatus

(* Removing entries leaves a sequence of entries there were before.        *)
LEMMA RemoveShrinks ==
    ASSUME stored \in Seq(Messages), NEW old, Remove(old)
    PROVE  /\ stored' \in Seq(Messages)
           /\ \A m : InRepository(m)' => InRepository(m)
<1> DEFINE kept == {i \in DOMAIN stored : stored[i] \notin old}
<1>1. Cardinality(kept) \in Nat
  <2>1. IsFiniteSet(DOMAIN stored)
    BY FS_Interval
  <2>2. IsFiniteSet(kept)
    BY <2>1, FS_Subset
  <2>3. QED
    BY <2>2, FS_CardinalityType
<1>2. PICK at \in [1 .. Cardinality(kept) -> kept] :
         stored' = [i \in 1 .. Cardinality(kept) |-> stored[at[i]]]
  BY DEF Remove
<1>3. \A i \in 1 .. Cardinality(kept) : at[i] \in DOMAIN stored
  BY <1>2
<1>4. \A i \in DOMAIN stored : stored[i] \in Messages
  OBVIOUS
<1>5. stored' \in [1 .. Cardinality(kept) -> Messages]
  BY <1>2, <1>3, <1>4
<1>6. \A m : InRepository(m)' => InRepository(m)
  BY <1>2, <1>3 DEF InRepository, Range
<1> HIDE DEF kept
<1>7. stored' \in Seq(Messages)
  BY <1>1, <1>5
<1>8. QED
  BY <1>6, <1>7

(* Upsert adds its message and nothing else.                               *)
LEMMA UpsertAdds ==
    ASSUME stored \in Seq(Messages), NEW m \in Messages, Upsert(m)
    PROVE  /\ stored' \in Seq(Messages)
           /\ \A n : InRepository(n)' <=> InRepository(n) \/ n = m
<1>1. CASE InRepository(m)
  BY <1>1 DEF Upsert, InRepository
<1>2. CASE ~InRepository(m)
  <2>1. stored' = Append(stored, m)
    BY <1>2 DEF Upsert
  <2>2. stored' \in Seq(Messages) /\ Len(stored') = Len(stored) + 1
    BY <2>1
  <2>3. \A i \in 1 .. Len(stored) : stored'[i] = stored[i]
    BY <2>1
  <2>4. stored'[Len(stored) + 1] = m
    BY <2>1
  <2>5. QED
    BY <2>2, <2>3, <2>4 DEF InRepository, Range
<1>3. QED
  BY <1>1, <1>2

(* A batch that get_pending may return is a sequence of messages.          *)
LEMMA BatchesAreSequences ==
    ASSUME stored \in Seq(Messages), NEW b \in ByCreation(FirstReady)
    PROVE  b \in Seq(Messages)
<1>1. FirstReady \subseteq Range(stored)
  BY DEF FirstReady, Range
<1>2. IsFiniteSet(Range(stored)) /\ Range(stored) \subseteq Messages
  <2>1. IsFiniteSet(DOMAIN stored)
    BY FS_Interval
  <2>2. stored \in Surjection(DOMAIN stored, Range(stored))
    BY DEF Surjection, Range
  <2>3. QED
    BY <2>1, <2>2, FS_Surjection DEF Range
<1>3. Cardinality(FirstReady) \in Nat
  BY <1>1, <1>2, FS_Subset, FS_CardinalityType
<1>4. b \in [1 .. Cardinality(FirstReady) -> Messages]
  BY <1>1, <1>2 DEF ByCreation
<1>5. QED
  BY <1>3, <1>4

(* The current message of a busy task is a message of its batch.           *)
LEMMA CurrentType ==
    ASSUME TypeOK, NEW t \in Tasks, ~Idle(t)
    PROVE  /\ Current(t) \in Messages
           /\ Tail(batch[t]) \in Seq(Messages)
BY DEF TypeOK, Idle, Current

(* A task that leaves its current message is in flight no more, and other  *)
(* tasks keep what they are publishing.                                    *)
LEMMA AdvanceLeaves ==
    ASSUME TypeOK, NEW t \in Tasks, ~Idle(t), Advance(t)
    PROVE  /\ batch' \in [Tasks -> Seq(Messages)]
           /\ inFlight' \subseteq {u \in Tasks : ~Idle(u)'}
           /\ \A m \in Messages :
                 Publishing(m)' = Publishing(m) \ {t}
<1>1. \A u \in Tasks \ {t} : batch'[u] = batch[u]
  BY DEF Advance, TypeOK
<1>2. batch' \in [Tasks -> Seq(Messages)]
  BY CurrentType DEF Advance, TypeOK
<1>3. QED
  BY <1>1, <1>2 DEF Advance, TypeOK, Idle, Publishing, Current

(* Counting a delivery keeps the type of the history.                      *)
LEMMA BrokerTakesType ==
    ASSUME TypeOK, NEW m \in Messages, BrokerTakes(m)
    PROVE  delivered' \in [Messages -> Nat]
<1>1. delivered \in [Messages -> Nat]
  BY DEF TypeOK
<1>2. QED
  BY <1>1 DEF BrokerTakes

(* mark_processed and mark_failed keep the types of what they assign.      *)
LEMMA MarkProcessedType ==
    ASSUME TypeOK, NEW m \in Messages, MarkProcessed(m)
    PROVE  status' \in [Messages -> Statuses] /\ processed' \subseteq Keys
<1>1. CASE InRepository(m)
  <2>1. processed' \subseteq Keys
    <3>1. processed' = processed \cup KeySet(m)
      BY <1>1 DEF MarkProcessed
    <3>2. QED
      BY <3>1, KeyAssumption DEF KeySet, TypeOK
  <2>2. status' \in [Messages -> Statuses]
    BY <1>1 DEF MarkProcessed, TypeOK, Statuses
  <2>3. QED
    BY <2>1, <2>2
<1>2. CASE ~InRepository(m)
  BY <1>2 DEF MarkProcessed, TypeOK
<1>3. QED
  BY <1>1, <1>2

LEMMA MarkFailedType ==
    ASSUME TypeOK, NEW m \in Messages, MarkFailed(m)
    PROVE  /\ status' \in [Messages -> Statuses]
           /\ retries' \in [Messages -> Nat] /\ due' \in [Messages -> BOOLEAN]
<1>1. CASE InRepository(m)
  <2>1. retries' \in [Messages -> Nat]
    <3>1. retries \in [Messages -> Nat]
      BY DEF TypeOK
    <3>2. retries' = [retries EXCEPT ![m] = @ + 1]
      BY <1>1 DEF MarkFailed
    <3>3. QED
      BY <3>1, <3>2
  <2>2. due' \in [Messages -> BOOLEAN]
    BY <1>1 DEF MarkFailed, TypeOK
  <2>3. status' \in [Messages -> Statuses]
    BY <1>1 DEF MarkFailed, TypeOK, Statuses
  <2>4. QED
    BY <2>1, <2>2, <2>3
<1>2. CASE ~InRepository(m)
  BY <1>2 DEF MarkFailed, TypeOK, message
<1>3. QED
  BY <1>1, <1>2

(* A cancelled task leaves the types alone.                                *)
LEMMA InterruptedType ==
    ASSUME TypeOK, NEW t \in Tasks, Interrupted(t)
    PROVE  /\ batch' \in [Tasks -> Seq(Messages)]
           /\ inFlight' \subseteq {u \in Tasks : ~Idle(u)'}
           /\ stranded' \subseteq Messages /\ delivered' \in [Messages -> Nat]
           /\ UNCHANGED <<stored, processed, status, retries, due>>
<1>1. stranded' \subseteq Messages /\ delivered' \in [Messages -> Nat]
  <2>1. CASE t \in inFlight
    <3>1. Current(t) \in Messages
      BY <2>1, CurrentType DEF TypeOK
    <3>2. stranded' = stranded \cup {Current(t)}
      BY <2>1 DEF Interrupted
    <3>3. delivered' = delivered \/ BrokerTakes(Current(t))
      BY <2>1 DEF Interrupted
    <3>4. QED
      BY <3>1, <3>2, <3>3, BrokerTakesType DEF TypeOK
  <2>2. CASE t \notin inFlight
    BY <2>2 DEF Interrupted, TypeOK
  <2>3. QED
    BY <2>1, <2>2
<1>2. batch' \in [Tasks -> Seq(Messages)] /\ inFlight' \subseteq {u \in Tasks : ~Idle(u)'}
  BY DEF Interrupted, TypeOK, Idle
<1>3. QED
  BY <1>1, <1>2 DEF Interrupted, repository, message

(* The initial state satisfies the invariant.                              *)
LEMMA InitInv == Init => Inv
<1> SUFFICES ASSUME Init PROVE Inv
  OBVIOUS
<1>1. TypeOK
  BY DEF Init, TypeOK, Idle, Statuses
<1>2. QED
  BY <1>1 DEF Init, Inv, PublishedWasHandedOff, PublishedKeysRecorded,
              ProcessingIsOwned, RetriesMatchStatus

(* Every step keeps the types.                                             *)
LEMMA TypeStep == TypeOK /\ [Next]_vars => TypeOK'
<1> SUFFICES ASSUME TypeOK, [Next]_vars PROVE TypeOK'
  OBVIOUS
<1> USE DEF vars, repository, message
<1>1. ASSUME NEW c \in OperatorCalls, Call(c)
      PROVE  used' \in [OperatorCalls -> Nat]
  BY <1>1 DEF Call, TypeOK
<1>2. CASE RetryDeadLetters
  BY <1>2, <1>1 DEF RetryDeadLetters, TypeOK, Statuses, OperatorCalls, Idle
<1>3. ASSUME NEW m \in Messages, Save(m)
      PROVE  TypeOK'
  BY <1>3, UpsertAdds DEF Save, TypeOK, Idle
<1>4. ASSUME NEW m \in Messages, Delete(m)
      PROVE  TypeOK'
  BY <1>4, <1>1, RemoveShrinks DEF Delete, TypeOK, Idle, OperatorCalls
<1>5. ASSUME NEW m \in Messages, BackoffElapses(m)
      PROVE  TypeOK'
  BY <1>5 DEF BackoffElapses, TypeOK, Idle
<1>6. ASSUME NEW c \in Callers, NEW m \in Messages, PublishOne(c, m)
      PROVE  TypeOK'
  <2>1. <<m>> \in Seq(Messages) /\ <<m>> # <<>>
    OBVIOUS
  <2>2. c \in Tasks
    BY DEF Tasks
  <2>3. batch' \in [Tasks -> Seq(Messages)]
    BY <1>6, <2>1, <2>2 DEF PublishOne, TypeOK
  <2>4. inFlight' \subseteq {t \in Tasks : ~Idle(t)'}
    BY <1>6, <2>1, <2>2 DEF PublishOne, TypeOK, Idle
  <2>5. QED
    BY <1>6, <1>1, <2>3, <2>4 DEF PublishOne, TypeOK, OperatorCalls
<1>7. ASSUME NEW old \in SUBSET Messages, CleanupProcessed(old)
      PROVE  TypeOK'
  BY <1>7, RemoveShrinks DEF CleanupProcessed, TypeOK, Idle
<1>8. ASSUME NEW p \in Pollers, Start(p)
      PROVE  TypeOK'
  BY <1>8 DEF Start, TypeOK, Idle
<1>9. ASSUME NEW p \in Pollers, GetPending(p)
      PROVE  TypeOK'
  <2>1. PICK b \in ByCreation(FirstReady) :
           b # <<>> /\ batch' = [batch EXCEPT ![p] = b]
    BY <1>9 DEF GetPending
  <2>2. b \in Seq(Messages) /\ p \in Tasks
    BY BatchesAreSequences DEF TypeOK, Tasks
  <2>3. QED
    BY <1>9, <2>1, <2>2 DEF GetPending, TypeOK, Idle
<1>10. ASSUME NEW p \in Pollers, Stop(p)
       PROVE  TypeOK'
  BY <1>10, <1>1, InterruptedType DEF Stop, TypeOK, OperatorCalls, Tasks
<1>16. ASSUME NEW c \in Callers, CancelCaller(c)
       PROVE  TypeOK'
  BY <1>16, <1>1, InterruptedType DEF CancelCaller, TypeOK, OperatorCalls, Tasks
<1>11. ASSUME NEW t \in Tasks, SkipDuplicate(t)
       PROVE  TypeOK'
  <2>1. ~Idle(t) /\ Current(t) \in Messages /\ Advance(t)
    BY <1>11, CurrentType DEF SkipDuplicate
  <2>2. status' \in [Messages -> Statuses] /\ processed' \subseteq Keys
    BY <1>11, <2>1, MarkProcessedType DEF SkipDuplicate
  <2>3. batch' \in [Tasks -> Seq(Messages)] /\ (inFlight \subseteq {u \in Tasks : ~Idle(u)})'
    BY <2>1, AdvanceLeaves
  <2>4. QED
    BY <1>11, <2>2, <2>3 DEF SkipDuplicate, TypeOK
<1>12. ASSUME NEW t \in Tasks, BeginPublish(t)
       PROVE  TypeOK'
  BY <1>12, CurrentType, UpsertAdds DEF BeginPublish, TypeOK, Statuses, Idle
<1>13. ASSUME NEW t \in Tasks, Finish(t)
       PROVE  TypeOK'
  <2>1. t \in inFlight /\ ~Idle(t) /\ Advance(t)
    BY <1>13 DEF Finish, Published, PublishedCallbackRaises, PublishRaises, TypeOK
  <2>2. Current(t) \in Messages
    BY <2>1, CurrentType
  <2>3. delivered' \in [Messages -> Nat]
    BY <1>13, <2>2, BrokerTakesType
    DEF Finish, Published, PublishedCallbackRaises, PublishRaises, TypeOK
  <2>4. batch' \in [Tasks -> Seq(Messages)] /\ (inFlight \subseteq {u \in Tasks : ~Idle(u)})'
    BY <2>1, AdvanceLeaves
  <2>5. status' \in [Messages -> Statuses] /\ processed' \subseteq Keys
    BY <1>13, <2>2, MarkProcessedType, MarkFailedType, KeyAssumption
    DEF Finish, Published, PublishedCallbackRaises, PublishRaises, KeySet, TypeOK
  <2>6. retries' \in [Messages -> Nat] /\ due' \in [Messages -> BOOLEAN]
    BY <1>13, <2>2, MarkFailedType
    DEF Finish, Published, PublishedCallbackRaises, PublishRaises, TypeOK
  <2>7. QED
    BY <1>13, <2>3, <2>4, <2>5, <2>6
    DEF Finish, Published, PublishedCallbackRaises, PublishRaises, TypeOK
<1>14. CASE UNCHANGED vars
  BY <1>14 DEF TypeOK, Idle
<1>15. QED
  BY <1>2, <1>3, <1>4, <1>5, <1>6, <1>7, <1>8, <1>9, <1>10, <1>11, <1>12,
     <1>13, <1>14, <1>16 DEF Next

(* The specification is type correct.                                      *)
THEOREM TypeCorrect == Spec => []TypeOK
<1>1. Init => TypeOK
  BY InitInv DEF Inv
<1>2. QED
  BY <1>1, TypeStep, PTL DEF Spec

-----------------------------------------------------------------------------

(* The steps that touch neither a message's status nor its deliveries.     *)
Quiet ==
    \/ \E m \in Messages : Save(m) \/ Delete(m) \/ BackoffElapses(m)
    \/ \E c \in Callers, m \in Messages : PublishOne(c, m)
    \/ \E old \in SUBSET Messages : CleanupProcessed(old)
    \/ \E p \in Pollers : Start(p) \/ GetPending(p)
    \/ UNCHANGED vars

(* What a quiet step leaves alone.                                         *)
LEMMA QuietFrame ==
    ASSUME TypeOK, Quiet
    PROVE  /\ UNCHANGED <<processed, status, retries, inFlight, delivered, stranded>>
           /\ \A t \in inFlight : batch'[t] = batch[t]
           /\ \A m \in Messages : InRepository(m)' =>
                 InRepository(m) \/ status[m] = "PENDING"
<1> USE DEF vars, repository, message
<1>1. ASSUME NEW m \in Messages, Save(m)
      PROVE  \A n : InRepository(n)' => InRepository(n) \/ n = m
  BY <1>1, UpsertAdds DEF Save, TypeOK
<1>2. ASSUME NEW m \in Messages, Delete(m)
      PROVE  \A n : InRepository(n)' => InRepository(n)
  BY <1>2, RemoveShrinks DEF Delete, TypeOK
<1>3. ASSUME NEW old \in SUBSET Messages, CleanupProcessed(old)
      PROVE  \A n : InRepository(n)' => InRepository(n)
  BY <1>3, RemoveShrinks DEF CleanupProcessed, TypeOK
<1>4. CASE \E m \in Messages : Save(m) \/ Delete(m) \/ BackoffElapses(m)
  BY <1>4, <1>1, <1>2 DEF Save, Delete, BackoffElapses, InRepository
<1>5. CASE \E c \in Callers, m \in Messages : PublishOne(c, m)
  BY <1>5 DEF PublishOne, TypeOK, Idle, InRepository
<1>6. CASE \E old \in SUBSET Messages : CleanupProcessed(old)
  BY <1>6, <1>3 DEF CleanupProcessed
<1>7. CASE \E p \in Pollers : Start(p) \/ GetPending(p)
  BY <1>7 DEF Start, GetPending, TypeOK, Idle, InRepository
<1>8. CASE UNCHANGED vars
  BY <1>8 DEF InRepository
<1>9. QED
  BY <1>4, <1>5, <1>6, <1>7, <1>8 DEF Quiet

(* A task is cancelled: a poller by stop(), a caller by its owner.         *)
Interruption(t) == Interrupted(t) /\ (Call("stop") \/ Call("cancel"))

(* The steps of Next, the quiet ones together.                             *)
LEMMA Steps ==
    ASSUME [Next]_vars
    PROVE  \/ Quiet
           \/ RetryDeadLetters
           \/ \E t \in Tasks : Interruption(t)
           \/ \E t \in Tasks : SkipDuplicate(t) \/ BeginPublish(t) \/ Finish(t)
BY DEF Next, Quiet, Stop, CancelCaller, Interruption, Tasks

(* What a task does when publish_fn has returned: it leaves its message,   *)
(* and marks it published after a delivery, or failed.                     *)
LEMMA FinishEffect ==
    ASSUME TypeOK, NEW t \in Tasks, Finish(t)
    PROVE  /\ t \in inFlight /\ ~Idle(t) /\ Advance(t)
           /\ Current(t) \in Messages
           /\ UNCHANGED <<stored, stranded>>
           /\ \/ /\ BrokerTakes(Current(t)) /\ MarkProcessed(Current(t))
                 /\ UNCHANGED <<retries, due>>
              \/ /\ MarkFailed(Current(t))
                 /\ UNCHANGED delivered \/ BrokerTakes(Current(t))
                 /\ \/ UNCHANGED processed
                    \/ /\ BrokerTakes(Current(t))
                       /\ processed' = processed \cup KeySet(Current(t))
<1>1. t \in inFlight /\ Advance(t) /\ UNCHANGED <<stored, stranded>>
  BY DEF Finish, Published, PublishedCallbackRaises, PublishRaises
<1>2. ~Idle(t) /\ Current(t) \in Messages
  BY <1>1, CurrentType DEF TypeOK
<1>3. CASE Published(t)
  BY <1>1, <1>2, <1>3 DEF Published
<1>4. CASE PublishedCallbackRaises(t)
  BY <1>1, <1>2, <1>4 DEF PublishedCallbackRaises
<1>5. CASE PublishRaises(t)
  BY <1>1, <1>2, <1>5 DEF PublishRaises
<1>6. QED
  BY <1>3, <1>4, <1>5 DEF Finish

-----------------------------------------------------------------------------

(* A delivery is never forgotten by the history.                           *)
LEMMA DeliveredGrows ==
    ASSUME TypeOK, [Next]_vars
    PROVE  \A m \in Messages : delivered'[m] >= delivered[m]
<1>1. ASSUME NEW n \in Messages, BrokerTakes(n)
      PROVE  \A m \in Messages : delivered'[m] >= delivered[m]
  <2>1. delivered \in [Messages -> Nat]
    BY DEF TypeOK
  <2>2. QED
    BY <1>1, <2>1 DEF BrokerTakes
<1>2. CASE UNCHANGED delivered
  BY <1>2 DEF TypeOK
<1>3. CASE \E t \in Tasks : Interruption(t)
  <2>1. PICK p \in Tasks : Interruption(p)
    BY <1>3
  <2>2. p \in inFlight => Current(p) \in Messages
    BY CurrentType DEF TypeOK
  <2>3. QED
    BY <2>1, <2>2, <1>1, <1>2 DEF Interruption, Interrupted
<1>4. CASE \E t \in Tasks : Finish(t)
  BY <1>4, <1>1, <1>2, FinishEffect
<1>5. QED
  BY <1>2, <1>3, <1>4, Steps, QuietFrame DEF RetryDeadLetters, SkipDuplicate, BeginPublish

(* Nothing is written off unsent by any step.                              *)
LEMMA HandedOffStep ==
    ASSUME TypeOK, PublishedWasHandedOff, [Next]_vars
    PROVE  PublishedWasHandedOff'
<1>0. \A m \in Messages : delivered[m] > 0 => delivered'[m] > 0
  <2>1. delivered' \in [Messages -> Nat]
    BY TypeStep DEF TypeOK
  <2>2. QED
    BY <2>1, DeliveredGrows DEF TypeOK
<1>1. \A m \in Messages : HandedOff(m) => HandedOff(m)'
  BY <1>0 DEF HandedOff, SameEvent
<1>2. \A k : (\E m \in Messages : KeyOf[m] = k /\ delivered[m] > 0)
                => (\E m \in Messages : KeyOf[m] = k /\ delivered'[m] > 0)
  BY <1>0
<1>3. ASSUME NEW n \in Messages, BrokerTakes(n)
      PROVE  delivered'[n] > 0
  BY <1>3 DEF BrokerTakes, TypeOK
<1>4. SUFFICES
        ASSUME \/ \A m \in Messages : status'[m] = "PUBLISHED" =>
                                         status[m] = "PUBLISHED"
               \/ \E n \in Messages :
                    /\ HandedOff(n)'
                    /\ \A m \in Messages \ {n} : status'[m] = status[m],
               \/ processed' \subseteq processed
               \/ \E n \in Messages : delivered'[n] > 0 /\ processed' = processed \cup KeySet(n)
        PROVE  PublishedWasHandedOff'
  <2>1. CASE Quiet
    BY <1>4, <2>1, QuietFrame
  <2>2. CASE RetryDeadLetters
    BY <1>4, <2>2 DEF RetryDeadLetters
  <2>3. CASE \E t \in Tasks : Interruption(t)
    BY <1>4, <2>3 DEF Interruption, Interrupted, repository, message
  <2>4. ASSUME NEW t \in Tasks, SkipDuplicate(t)
        PROVE  PublishedWasHandedOff'
    <3>1. Current(t) \in Messages
      BY <2>4, CurrentType DEF SkipDuplicate
    <3>2. HandedOff(Current(t))
      BY <2>4, <3>1 DEF SkipDuplicate, IsDuplicate, KeySet, PublishedWasHandedOff,
                        HandedOff, SameEvent
    <3>3. KeySet(Current(t)) \subseteq processed
      BY <2>4, <3>1 DEF SkipDuplicate, IsDuplicate, KeySet
    <3>4. processed' \subseteq processed
      BY <2>4, <3>3 DEF SkipDuplicate, MarkProcessed
    <3>5. \A m \in Messages \ {Current(t)} : status'[m] = status[m]
      BY <2>4 DEF SkipDuplicate, MarkProcessed, TypeOK
    <3>6. QED
      BY <1>1, <1>4, <3>1, <3>2, <3>4, <3>5
  <2>5. ASSUME NEW t \in Tasks, BeginPublish(t)
        PROVE  PublishedWasHandedOff'
    <3>1. \A m \in Messages : status'[m] = "PUBLISHED" => status[m] = "PUBLISHED"
      BY <2>5 DEF BeginPublish, TypeOK
    <3>2. processed' \subseteq processed
      BY <2>5 DEF BeginPublish
    <3>3. QED
      BY <1>4, <3>1, <3>2
  <2>6. ASSUME NEW t \in Tasks, Finish(t)
        PROVE  PublishedWasHandedOff'
    <3>1. PICK n \in Messages : n = Current(t)
      BY <2>6, FinishEffect
    <3>2. CASE BrokerTakes(n) /\ MarkProcessed(n)
      <4>1. delivered'[n] > 0
        BY <1>3, <3>1, <3>2
      <4>2. HandedOff(n)'
        BY <3>1, <4>1 DEF HandedOff, SameEvent
      <4>3. \A m \in Messages \ {n} : status'[m] = status[m]
        BY <3>2 DEF MarkProcessed, TypeOK
      <4>4. processed' = processed \/ processed' = processed \cup KeySet(n)
        BY <3>2 DEF MarkProcessed
      <4>5. QED
        BY <1>4, <3>1, <4>1, <4>2, <4>3, <4>4
    <3>3. CASE MarkFailed(n)
      <4>1. \A m \in Messages : status'[m] = "PUBLISHED" => status[m] = "PUBLISHED"
        BY <3>3 DEF MarkFailed, TypeOK, message
      <4>2. \/ processed' \subseteq processed
            \/ BrokerTakes(n) /\ processed' = processed \cup KeySet(n)
            \/ BrokerTakes(n) /\ MarkProcessed(n)
        BY <2>6, <3>1, FinishEffect
      <4>3. QED
        BY <1>3, <1>4, <3>1, <3>2, <4>1, <4>2
    <3>4. QED
      BY <2>6, <3>1, <3>2, <3>3, FinishEffect
  <2>7. QED
    BY <2>1, <2>2, <2>3, <2>4, <2>5, <2>6, Steps
<1>5. \A m \in Messages : status'[m] = "PUBLISHED" => HandedOff(m)'
  BY <1>1, <1>4 DEF PublishedWasHandedOff
<1>6. \A k \in processed' : \E m \in Messages : KeyOf[m] = k /\ delivered'[m] > 0
  BY <1>2, <1>4 DEF PublishedWasHandedOff, KeySet
<1>7. QED
  BY <1>5, <1>6 DEF PublishedWasHandedOff

(* The key of a published message stays recorded.                          *)
LEMMA KeysRecordedStep ==
    ASSUME TypeOK, PublishedKeysRecorded, [Next]_vars
    PROVE  PublishedKeysRecorded'
<1>1. SUFFICES
        ASSUME processed \subseteq processed',
               \A m \in Messages : status'[m] = "PUBLISHED" =>
                   status[m] = "PUBLISHED" \/ KeySet(m) \subseteq processed'
        PROVE  PublishedKeysRecorded'
  <2>1. ASSUME NEW n \in Messages, MarkProcessed(n)
        PROVE  PublishedKeysRecorded'
    BY <1>1, <2>1 DEF MarkProcessed, TypeOK
  <2>2. ASSUME NEW n \in Messages, MarkFailed(n), processed \subseteq processed'
        PROVE  PublishedKeysRecorded'
    BY <1>1, <2>2 DEF MarkFailed, message, TypeOK
  <2>3. ASSUME NEW t \in Tasks, SkipDuplicate(t)
        PROVE  PublishedKeysRecorded'
    BY <2>1, <2>3, CurrentType DEF SkipDuplicate
  <2>4. ASSUME NEW t \in Tasks, BeginPublish(t)
        PROVE  PublishedKeysRecorded'
    BY <1>1, <2>4 DEF BeginPublish, TypeOK
  <2>5. ASSUME NEW t \in Tasks, Finish(t)
        PROVE  PublishedKeysRecorded'
    BY <2>1, <2>2, <2>5, FinishEffect
  <2>6. CASE Quiet \/ RetryDeadLetters \/ \E t \in Tasks : Interruption(t)
    BY <1>1, <2>6, QuietFrame DEF RetryDeadLetters, Interruption, Interrupted, repository, message
  <2>7. QED
    BY <2>3, <2>4, <2>5, <2>6, Steps
<1>2. QED
  BY <1>1 DEF PublishedKeysRecorded, KeySet

(* The retry counter and the status move together.                         *)
LEMMA RetriesStep ==
    ASSUME TypeOK, RetriesMatchStatus, [Next]_vars
    PROVE  RetriesMatchStatus'
<1> USE DEF RetriesMatchStatus, message, repository
<1>1. ASSUME NEW n \in Messages, MarkProcessed(n), UNCHANGED retries
      PROVE  RetriesMatchStatus'
  BY <1>1 DEF MarkProcessed, TypeOK
<1>2. ASSUME NEW n \in Messages, MarkFailed(n)
      PROVE  RetriesMatchStatus'
  <2>1. CASE InRepository(n)
    <3>1. /\ retries' = [retries EXCEPT ![n] = @ + 1]
          /\ status' = [status EXCEPT ![n] =
                          IF retries[n] + 1 >= MaxRetries THEN "DEAD_LETTER" ELSE "FAILED"]
      BY <1>2, <2>1 DEF MarkFailed
    <3>2. /\ retries \in [Messages -> Nat]
          /\ status \in [Messages -> Statuses]
      BY DEF TypeOK
    <3>3. \A m \in Messages \ {n} : retries'[m] = retries[m] /\ status'[m] = status[m]
      BY <3>1, <3>2
    <3>4. retries[n] \in Nat /\ retries'[n] = retries[n] + 1
      BY <3>1, <3>2
    <3>5. status'[n] = IF retries[n] + 1 >= MaxRetries THEN "DEAD_LETTER" ELSE "FAILED"
      BY <3>1, <3>2
    <3>6. CASE retries[n] + 1 >= MaxRetries
      BY <3>3, <3>4, <3>5, <3>6
    <3>7. CASE ~(retries[n] + 1 >= MaxRetries)
      BY <3>3, <3>4, <3>5, <3>7, SizeAssumption
    <3>8. QED
      BY <3>6, <3>7
  <2>2. CASE ~InRepository(n)
    BY <1>2, <2>2 DEF MarkFailed
  <2>3. QED
    BY <2>1, <2>2
<1>3. ASSUME NEW t \in Tasks, SkipDuplicate(t)
      PROVE  RetriesMatchStatus'
  BY <1>1, <1>3, CurrentType DEF SkipDuplicate
<1>4. ASSUME NEW t \in Tasks, BeginPublish(t)
      PROVE  RetriesMatchStatus'
  BY <1>4 DEF BeginPublish, TypeOK
<1>5. ASSUME NEW t \in Tasks, Finish(t)
      PROVE  RetriesMatchStatus'
  BY <1>1, <1>2, <1>5, FinishEffect
<1>6. CASE RetryDeadLetters
  BY <1>6 DEF RetryDeadLetters, TypeOK
<1>7. CASE Quiet \/ \E t \in Tasks : Interruption(t)
  BY <1>7, QuietFrame DEF Interruption, Interrupted
<1>8. QED
  BY <1>3, <1>4, <1>5, <1>6, <1>7, Steps

(* A message becomes PROCESSING with an attempt of its own, and an attempt *)
(* that ends takes a stored message out of PROCESSING, or strands it.      *)
LEMMA OwnedStep ==
    ASSUME TypeOK, ProcessingIsOwned, [Next]_vars
    PROVE  ProcessingIsOwned'
<1> USE DEF ProcessingIsOwned, message, repository
<1>1. CASE Quiet
  <2>1. \A m \in Messages : Publishing(m)' = Publishing(m)
    BY <1>1, QuietFrame DEF Publishing, Current
  <2>2. QED
    BY <1>1, <2>1, QuietFrame
<1>2. CASE RetryDeadLetters
  <2>1. \A m \in Messages : Publishing(m)' = Publishing(m) /\ (InRepository(m)' <=> InRepository(m))
    BY <1>2 DEF RetryDeadLetters, Publishing, Current, InRepository
  <2>2. \A m \in Messages : status'[m] = "PROCESSING" => status[m] = "PROCESSING"
    BY <1>2 DEF RetryDeadLetters
  <2>3. stranded' = stranded
    BY <1>2 DEF RetryDeadLetters
  <2>4. QED
    BY <2>1, <2>2, <2>3
<1>3. ASSUME NEW p \in Tasks, Interruption(p)
      PROVE  ProcessingIsOwned'
  <2>1. /\ status' = status /\ stranded \subseteq stranded'
        /\ \A m \in Messages : InRepository(m)' <=> InRepository(m)
    BY <1>3 DEF Interruption, Interrupted, InRepository
  <2>2. \A m \in Messages : Publishing(m) \ {p} \subseteq Publishing(m)'
    BY <1>3 DEF Interruption, Interrupted, Publishing, Current, TypeOK
  <2>3. \A m \in Messages : p \in Publishing(m) => m \in stranded'
    BY <1>3 DEF Interruption, Interrupted, Publishing
  <2>4. QED
    BY <2>1, <2>2, <2>3
<1>4. ASSUME NEW t \in Tasks, NEW n \in Messages, n = Current(t), ~Idle(t), Advance(t),
             UNCHANGED <<stored, stranded>>,
             InRepository(n) => status'[n] # "PROCESSING",
             \A m \in Messages \ {n} : status'[m] = status[m]
      PROVE  ProcessingIsOwned'
  <2>1. \A m \in Messages \ {n} : Publishing(m)' = Publishing(m)
    BY <1>4, AdvanceLeaves DEF Publishing
  <2>2. \A m \in Messages : InRepository(m)' <=> InRepository(m)
    BY <1>4 DEF InRepository
  <2>3. QED
    BY <1>4, <2>1, <2>2
<1>5. ASSUME NEW t \in Tasks, SkipDuplicate(t)
      PROVE  ProcessingIsOwned'
  <2>1. ~Idle(t) /\ Advance(t) /\ MarkProcessed(Current(t)) /\ UNCHANGED <<stored, stranded>>
    BY <1>5 DEF SkipDuplicate
  <2>2. Current(t) \in Messages
    BY <2>1, CurrentType
  <2>3. InRepository(Current(t)) => status'[Current(t)] # "PROCESSING"
    BY <2>1, <2>2 DEF MarkProcessed, TypeOK
  <2>4. \A m \in Messages \ {Current(t)} : status'[m] = status[m]
    BY <2>1, <2>2 DEF MarkProcessed, TypeOK
  <2>5. QED
    BY <1>4, <2>1, <2>2, <2>3, <2>4
<1>6. ASSUME NEW t \in Tasks, BeginPublish(t)
      PROVE  ProcessingIsOwned'
  <2>1. Current(t) \in Messages
    BY <1>6, CurrentType DEF BeginPublish
  <2>2. \A m \in Messages : Publishing(m) \subseteq Publishing(m)'
    BY <1>6 DEF BeginPublish, Publishing, Current
  <2>3. \A m \in Messages : m = Current(t) => Publishing(m)' # {}
    BY <1>6 DEF BeginPublish, Publishing, Current
  <2>4. \A m \in Messages : m # Current(t) => status'[m] = status[m]
    BY <1>6 DEF BeginPublish, TypeOK
  <2>5. \A m \in Messages : m # Current(t) => (InRepository(m)' <=> InRepository(m))
    BY <1>6, <2>1, UpsertAdds DEF BeginPublish, TypeOK
  <2>6. stranded' = stranded
    BY <1>6 DEF BeginPublish
  <2>7. QED
    BY <2>2, <2>3, <2>4, <2>5, <2>6
<1>7. ASSUME NEW t \in Tasks, Finish(t)
      PROVE  ProcessingIsOwned'
  <2>1. ~Idle(t) /\ Advance(t) /\ Current(t) \in Messages /\ UNCHANGED <<stored, stranded>>
    BY <1>7, FinishEffect
  <2>2. MarkProcessed(Current(t)) \/ MarkFailed(Current(t))
    BY <1>7, FinishEffect
  <2>3. InRepository(Current(t)) => status'[Current(t)] # "PROCESSING"
    BY <2>1, <2>2 DEF MarkProcessed, MarkFailed, TypeOK
  <2>4. \A m \in Messages \ {Current(t)} : status'[m] = status[m]
    BY <2>1, <2>2 DEF MarkProcessed, MarkFailed, TypeOK
  <2>5. QED
    BY <1>4, <2>1, <2>3, <2>4
<1>8. QED
  BY <1>1, <1>2, <1>3, <1>5, <1>6, <1>7, Steps

(* The invariant holds in every reachable state.                           *)
THEOREM Invariance == Spec => []Inv
<1>1. Inv /\ [Next]_vars => Inv'
  BY TypeStep, HandedOffStep, KeysRecordedStep, OwnedStep, RetriesStep DEF Inv
<1>2. QED
  BY <1>1, InitInv, PTL DEF Spec

(* No event is written off unsent.                                         *)
THEOREM NoEventWrittenOff == Spec => []PublishedWasHandedOff
BY Invariance, PTL DEF Inv

(* is_duplicate knows the key of every event that was published.           *)
THEOREM KeysRecorded == Spec => []PublishedKeysRecorded
BY Invariance, PTL DEF Inv

(* Only a cancellation in publish_fn leaves a stored message PROCESSING.   *)
THEOREM ProcessingOwned == Spec => []ProcessingIsOwned
BY Invariance, PTL DEF Inv

(* The retry counter always agrees with the status.                        *)
THEOREM RetriesAgree == Spec => []RetriesMatchStatus
BY Invariance, PTL DEF Inv

-----------------------------------------------------------------------------

(* A status changes only under a task that works on the message, by a      *)
(* redrive of a dead letter, or, when its key is not recorded, by a task   *)
(* that begins to publish it.                                              *)
LEMMA StatusChanges ==
    ASSUME TypeOK, [Next]_vars, NEW m \in Messages, Publishing(m) = {}
    PROVE  /\ delivered'[m] = delivered[m]
           /\ \/ status'[m] = status[m]
              \/ /\ status[m] = "DEAD_LETTER" /\ status'[m] = "PENDING"
                 /\ retries'[m] = 0
                 /\ used'["retry_dead_letters"] > used["retry_dead_letters"]
              \/ \E t \in Tasks :
                    /\ ~Idle(t) /\ Current(t) = m
                    /\ \/ status'[m] = "PUBLISHED"
                       \/ status'[m] = "PROCESSING" /\ ~IsDuplicate(m)
<1> USE DEF message, repository
<1>1. ASSUME NEW n \in Messages, n # m
      PROVE  /\ MarkProcessed(n) \/ MarkFailed(n) => status'[m] = status[m]
             /\ BrokerTakes(n) => delivered'[m] = delivered[m]
  BY <1>1 DEF MarkProcessed, MarkFailed, BrokerTakes, TypeOK
<1>2. CASE Quiet
  BY <1>2, QuietFrame
<1>3. CASE RetryDeadLetters
  <2>1. delivered' = delivered
    BY <1>3 DEF RetryDeadLetters
  <2>2. used'["retry_dead_letters"] > used["retry_dead_letters"]
    BY <1>3 DEF RetryDeadLetters, Call, TypeOK, OperatorCalls
  <2>3. m \in OldestDead => status'[m] = "PENDING" /\ retries'[m] = 0
    BY <1>3 DEF RetryDeadLetters
  <2>4. m \in OldestDead => status[m] = "DEAD_LETTER"
    BY DEF OldestDead
  <2>5. m \notin OldestDead => status'[m] = status[m]
    BY <1>3 DEF RetryDeadLetters
  <2>6. QED
    BY <2>1, <2>2, <2>3, <2>4, <2>5
<1>4. ASSUME NEW p \in Tasks, Interruption(p)
      PROVE  status' = status /\ delivered'[m] = delivered[m]
  <2>1. p \in inFlight => Current(p) \in Messages /\ Current(p) # m
    BY CurrentType DEF TypeOK, Publishing
  <2>2. QED
    BY <1>1, <1>4, <2>1 DEF Interruption, Interrupted
<1>5. ASSUME NEW t \in Tasks, SkipDuplicate(t)
      PROVE  /\ delivered' = delivered
             /\ \/ status'[m] = status[m]
                \/ ~Idle(t) /\ Current(t) = m /\ status'[m] = "PUBLISHED"
  <2>1. ~Idle(t) /\ Current(t) \in Messages /\ MarkProcessed(Current(t))
    BY <1>5, CurrentType DEF SkipDuplicate
  <2>2. status'[Current(t)] \in {"PUBLISHED", status[Current(t)]}
    BY <2>1 DEF MarkProcessed, TypeOK
  <2>3. QED
    BY <1>1, <1>5, <2>1, <2>2 DEF SkipDuplicate
<1>6. ASSUME NEW t \in Tasks, BeginPublish(t)
      PROVE  /\ delivered' = delivered
             /\ \/ status'[m] = status[m]
                \/ /\ ~Idle(t) /\ Current(t) = m
                   /\ status'[m] = "PROCESSING" /\ ~IsDuplicate(m)
  BY <1>6 DEF BeginPublish, TypeOK
<1>7. ASSUME NEW t \in Tasks, Finish(t)
      PROVE  status'[m] = status[m] /\ delivered'[m] = delivered[m]
  <2>1. Current(t) \in Messages /\ Current(t) # m
    BY <1>7, FinishEffect DEF Publishing
  <2>2. QED
    BY <1>1, <1>7, <2>1, FinishEffect
<1>8. QED
  BY <1>2, <1>3, <1>4, <1>5, <1>6, <1>7, Steps

(* A published event with a key that nobody is publishing stays published, *)
(* and the broker does not take it again.                                  *)
THEOREM PublishedFinal == Spec => PublishedIsFinal
<1>1. ASSUME Inv, [Next]_vars, NEW m \in Messages,
             status[m] = "PUBLISHED", KeyOf[m] # NoKey, Publishing(m) = {}
      PROVE  status'[m] = "PUBLISHED" /\ delivered'[m] = delivered[m]
  <2>1. IsDuplicate(m)
    BY <1>1 DEF Inv, PublishedKeysRecorded, IsDuplicate, KeySet
  <2>2. QED
    BY <1>1, <2>1, StatusChanges DEF Inv
<1>2. Inv /\ [Next]_vars =>
        [\A m \in Messages :
            status[m] = "PUBLISHED" /\ KeyOf[m] # NoKey /\ Publishing(m) = {} =>
                status'[m] = "PUBLISHED" /\ delivered'[m] = delivered[m]]_vars
  BY <1>1
<1>3. QED
  BY <1>2, Invariance, PTL DEF Spec, PublishedIsFinal

(* A poller takes up only what get_pending returns: no dead letter gets    *)
(* into a batch that does not hold it yet.                                 *)
LEMMA NotTakenUp ==
    ASSUME TypeOK, [Next]_vars, NEW m \in Messages, status[m] = "DEAD_LETTER",
           NEW p \in Pollers, m \notin Range(batch[p])
    PROVE  m \notin Range(batch'[p])
<1> DEFINE Free(b) == m \notin Range(b)
<1> SUFFICES Free(batch'[p])
  OBVIOUS
<1>1. p \in Tasks /\ batch \in [Tasks -> Seq(Messages)]
  BY DEF Tasks, TypeOK
<1>2. ASSUME NEW t \in Tasks, ~Idle(t), batch' = [batch EXCEPT ![t] = Tail(@)]
      PROVE  Free(batch'[p])
  <2>1. CASE t = p
    <3>1. batch[p] \in Seq(Messages) /\ batch[p] # <<>>
      BY <1>1, <1>2, <2>1 DEF Idle
    <3>2. batch'[p] = Tail(batch[p])
      BY <1>1, <1>2, <2>1
    <3>3. \A i \in DOMAIN Tail(batch[p]) :
             i + 1 \in DOMAIN batch[p] /\ Tail(batch[p])[i] = batch[p][i + 1]
      BY <3>1
    <3>4. QED
      BY <3>2, <3>3 DEF Range
  <2>2. CASE t # p
    BY <1>1, <1>2, <2>2
  <2>3. QED
    BY <2>1, <2>2
<1>3. ASSUME NEW c \in Callers, NEW n \in Messages, PublishOne(c, n)
      PROVE  Free(batch'[p])
  <2>1. c # p
    BY <1>3, TaskAssumption
  <2>2. QED
    BY <1>1, <1>3, <2>1 DEF PublishOne
<1>4. ASSUME NEW q \in Pollers, GetPending(q)
      PROVE  Free(batch'[p])
  <2>1. PICK b \in ByCreation(FirstReady) : batch' = [batch EXCEPT ![q] = b]
    BY <1>4 DEF GetPending
  <2>2. m \notin FirstReady
    BY DEF FirstReady, Ready
  <2>3. Free(b)
    BY <2>1, <2>2 DEF ByCreation, Range
  <2>4. QED
    BY <1>1, <2>1, <2>3
<1>5. ASSUME NEW q \in Tasks, Interruption(q)
      PROVE  Free(batch'[p])
  BY <1>1, <1>5 DEF Interruption, Interrupted, Range
<1>6. ASSUME NEW t \in Tasks, SkipDuplicate(t) \/ Finish(t)
      PROVE  Free(batch'[p])
  <2>1. ~Idle(t) /\ Advance(t)
    BY <1>6, FinishEffect DEF SkipDuplicate
  <2>2. QED
    BY <1>2, <2>1 DEF Advance
<1>7. CASE UNCHANGED batch
  BY <1>7
<1> HIDE DEF Free
<1>8. CASE Quiet
  <2>1. \/ UNCHANGED batch
        \/ \E c \in Callers, n \in Messages : PublishOne(c, n)
        \/ \E q \in Pollers : GetPending(q)
    BY <1>8 DEF Quiet, Save, Delete, BackoffElapses, CleanupProcessed, Start, vars
  <2>2. QED
    BY <2>1, <1>3, <1>4, <1>7
<1>9. CASE RetryDeadLetters
  BY <1>7, <1>9 DEF RetryDeadLetters
<1>10. ASSUME NEW t \in Tasks, BeginPublish(t)
       PROVE  Free(batch'[p])
  BY <1>7, <1>10 DEF BeginPublish
<1>11. QED
  BY <1>5, <1>6, <1>8, <1>9, <1>10, Steps

(* A dead letter that no task holds is left to retry_dead_letters.         *)
THEOREM ParkedStays == Spec => ParkedUntilRedriven
<1> DEFINE Parked(m) == status[m] = "DEAD_LETTER" /\ Holding(m) = {}
           Left(m) ==
               /\ \A p \in Pollers : m \notin Range(batch'[p])
               /\ \/ status'[m] = "DEAD_LETTER"
                  \/ /\ status'[m] = "PENDING" /\ retries'[m] = 0
                     /\ used'["retry_dead_letters"] > used["retry_dead_letters"]
<1>1. ASSUME TypeOK, [Next]_vars, NEW m \in Messages, Parked(m)
      PROVE  Left(m)
  <2>1. \A t \in Tasks : m \notin Range(batch[t])
    BY <1>1 DEF Holding
  <2>2. \A t \in Tasks : ~Idle(t) => Current(t) # m
    BY <1>1, <2>1 DEF Range, TypeOK, Idle, Current
  <2>3. Publishing(m) = {}
    <3>1. \A t \in inFlight : t \in Tasks /\ ~Idle(t)
      BY <1>1 DEF TypeOK
    <3>2. QED
      BY <2>2, <3>1 DEF Publishing
  <2>4. \A p \in Pollers : m \notin Range(batch'[p])
    BY <1>1, <2>1, NotTakenUp DEF Tasks
  <2>5. QED
    BY <1>1, <2>2, <2>3, <2>4, StatusChanges
<1>2. TypeOK /\ [Next]_vars => [\A m \in Messages : Parked(m) => Left(m)]_vars
  BY <1>1
<1>3. QED
  BY <1>2, TypeCorrect, PTL DEF Spec, ParkedUntilRedriven

-----------------------------------------------------------------------------

(* One publisher whose publish_fn tells the truth, and nobody who takes a  *)
(* message away from it: what KeyDeliveredOnce is about.                   *)
OnePublisher ==
    /\ \A t, u \in Tasks : t = u
    /\ "ack_lost" \notin Faults /\ Budget["stop"] = 0
    /\ Budget["cancel"] = 0 /\ Budget["delete"] = 0

(* The message in publish_fn stays in the repository and its key is new;   *)
(* the key of what the broker took is recorded.                            *)
OnceInv ==
    /\ \A t \in inFlight : /\ InRepository(Current(t)) /\ status[Current(t)] = "PROCESSING"
                           /\ ~IsDuplicate(Current(t))
    /\ \A m \in Messages : KeyOf[m] # NoKey /\ delivered[m] > 0 => KeyOf[m] \in processed
    /\ KeyDeliveredOnce

(* What is not removed is still there.                                     *)
LEMMA RemoveKeeps ==
    ASSUME stored \in Seq(Messages), NEW old, Remove(old), NEW m, InRepository(m), m \notin old
    PROVE  InRepository(m)'
<1> DEFINE kept == {i \in DOMAIN stored : stored[i] \notin old}
           n == Cardinality(kept)
<1>1. IsFiniteSet(kept) /\ n \in Nat /\ kept \in SUBSET Nat
  <2>1. IsFiniteSet(DOMAIN stored) /\ DOMAIN stored \in SUBSET Nat
    BY FS_Interval
  <2>2. QED
    BY <2>1, FS_Subset, FS_CardinalityType
<1>2. PICK at \in [1 .. n -> kept] :
         /\ \A i, j \in DOMAIN at : i < j => at[i] < at[j]
         /\ stored' = [i \in 1 .. n |-> stored[at[i]]]
  BY DEF Remove
<1>3. PICK k \in kept : stored[k] = m
  BY DEF InRepository, Range
<1> HIDE DEF kept
<1>4. \A i, j \in 1 .. n : at[i] = at[j] => i = j
  <2>1. SUFFICES ASSUME NEW i \in 1 .. n, NEW j \in 1 .. n, at[i] = at[j], i # j PROVE FALSE
    OBVIOUS
  <2>2. i < j \/ j < i
    BY <1>1, <2>1
  <2>3. at[i] \in Nat /\ at[j] \in Nat
    BY <1>1, <1>2
  <2>4. QED
    BY <1>2, <2>1, <2>2, <2>3
<1>5. at \in Surjection(1 .. n, kept)
  <2>1. at \in Injection(1 .. n, kept)
    BY <1>2, <1>4 DEF Injection, IsInjective
  <2>2. IsFiniteSet(1 .. n) /\ Cardinality(1 .. n) = n
    BY <1>1, FS_Interval
  <2>3. QED
    BY <1>1, <2>1, <2>2, FS_Injection
<1>6. PICK i \in 1 .. n : at[i] = k
  BY <1>3, <1>5 DEF Surjection
<1>7. QED
  BY <1>2, <1>3, <1>6 DEF InRepository, Range

(* Nothing removes the message that is in publish_fn.                      *)
LEMMA QuietOnce ==
    ASSUME OnePublisher, TypeOK, OnceInv, Quiet
    PROVE  OnceInv'
<1>1. /\ UNCHANGED <<processed, status, inFlight, delivered>>
      /\ \A t \in inFlight : batch'[t] = batch[t]
  BY QuietFrame
<1>2. ASSUME NEW m \in Messages, status[m] = "PROCESSING", InRepository(m)
      PROVE  InRepository(m)'
  <2>1. CASE \E n \in Messages : Save(n) \/ Delete(n) \/ BackoffElapses(n)
    <3>1. PICK n \in Messages : Save(n) \/ Delete(n) \/ BackoffElapses(n)
      BY <2>1
    <3>2. CASE Save(n)
      BY <1>2, <3>2, UpsertAdds DEF Save, TypeOK
    <3>3. ~Delete(n)
      BY DEF Delete, Call, OnePublisher, TypeOK, OperatorCalls
    <3>4. CASE BackoffElapses(n)
      BY <1>2, <3>4 DEF BackoffElapses, InRepository
    <3>5. QED
      BY <3>1, <3>2, <3>3, <3>4
  <2>2. ASSUME NEW old \in SUBSET Messages, CleanupProcessed(old) PROVE InRepository(m)'
    BY <1>2, <2>2, RemoveKeeps DEF CleanupProcessed, TypeOK
  <2>3. CASE UNCHANGED stored
    BY <1>2, <2>3 DEF InRepository
  <2>4. QED
    BY <2>1, <2>2, <2>3 DEF Quiet, PublishOne, Start, GetPending, vars, repository
<1>3. \A t \in inFlight : Current(t) \in Messages /\ Current(t)' = Current(t)
  BY <1>1, CurrentType DEF TypeOK, Current
<1>4. ASSUME NEW t \in inFlight'
      PROVE  InRepository(Current(t))' /\ (status[Current(t)] = "PROCESSING")'
             /\ ~IsDuplicate(Current(t))'
  <2>1. PICK m \in Messages : m = Current(t) /\ Current(t)' = m /\ t \in inFlight
    BY <1>1, <1>3, <1>4
  <2>2. InRepository(m) /\ status[m] = "PROCESSING" /\ ~IsDuplicate(m)
    BY <2>1 DEF OnceInv
  <2>3. InRepository(m)' /\ status'[m] = "PROCESSING" /\ ~IsDuplicate(m)'
    BY <1>1, <1>2, <2>2 DEF IsDuplicate
  <2>4. QED
    BY <2>1, <2>3 DEF InRepository, IsDuplicate
<1>5. QED
  BY <1>1, <1>4 DEF OnceInv, KeyDeliveredOnce

(* The broker takes an event of a key that is new, or an event without a   *)
(* key, and its key is recorded with it.                                   *)
LEMMA TakenOnce ==
    ASSUME TypeOK, OnceInv, NEW m \in Messages, ~IsDuplicate(m), BrokerTakes(m),
           processed' = processed \cup KeySet(m)
    PROVE  /\ KeyDeliveredOnce'
           /\ \A n \in Messages : KeyOf[n] # NoKey /\ delivered'[n] > 0 => KeyOf[n] \in processed'
<1>1. delivered \in [Messages -> Nat] /\ delivered' = [delivered EXCEPT ![m] = @ + 1]
  BY DEF TypeOK, BrokerTakes
<1>2. delivered'[m] = delivered[m] + 1 /\ \A n \in Messages \ {m} : delivered'[n] = delivered[n]
  BY <1>1
<1>3. KeyOf[m] # NoKey =>
        /\ KeyOf[m] \notin processed
        /\ \A n \in SameEvent(m) : delivered[n] = 0
  <2>1. KeyOf[m] # NoKey => KeyOf[m] \notin processed
    BY DEF IsDuplicate, KeySet
  <2>2. ASSUME KeyOf[m] # NoKey, NEW n \in SameEvent(m) PROVE delivered[n] = 0
    <3>1. n \in Messages /\ KeyOf[n] = KeyOf[m] /\ delivered[n] \in Nat
      BY <1>1, <2>2 DEF SameEvent
    <3>2. QED
      BY <2>1, <2>2, <3>1 DEF OnceInv
  <2>3. QED
    BY <2>1, <2>2
<1>4. ASSUME NEW u \in Messages, NEW v \in SameEvent(u), KeyOf[u] # NoKey, delivered'[u] > 0
      PROVE  delivered'[u] = 1 /\ (v # u => delivered'[v] = 0)
  <2>1. v \in Messages /\ KeyOf[v] = KeyOf[u]
    BY <1>4 DEF SameEvent
  <2>2. CASE KeyOf[u] = KeyOf[m]
    <3>1. u \in SameEvent(m) /\ v \in SameEvent(m) /\ m \in SameEvent(m)
      BY <1>4, <2>1, <2>2 DEF SameEvent
    <3>2. delivered[u] = 0 /\ delivered[v] = 0 /\ delivered[m] = 0
      BY <1>3, <1>4, <2>2, <3>1
    <3>3. u = m
      BY <1>2, <1>4, <3>2
    <3>4. QED
      BY <1>2, <2>1, <3>2, <3>3
  <2>3. CASE KeyOf[u] # KeyOf[m]
    <3>1. delivered'[u] = delivered[u] /\ delivered'[v] = delivered[v]
      BY <1>2, <2>1, <2>3
    <3>2. QED
      BY <1>4, <2>1, <3>1 DEF OnceInv, KeyDeliveredOnce
  <2>4. QED
    BY <2>2, <2>3
<1>5. ASSUME NEW n \in Messages, KeyOf[n] # NoKey, delivered'[n] > 0
      PROVE  KeyOf[n] \in processed'
  <2>1. CASE n = m
    BY <1>5, <2>1 DEF KeySet
  <2>2. CASE n # m
    BY <1>2, <1>5, <2>2 DEF OnceInv
  <2>3. QED
    BY <2>1, <2>2
<1>6. QED
  BY <1>4, <1>5 DEF KeyDeliveredOnce, SameEvent

(* No step of the one publisher delivers an event of a recorded key.       *)
LEMMA OnceStep ==
    ASSUME OnePublisher, TypeOK, OnceInv, [Next]_vars
    PROVE  OnceInv'
<1>1. CASE RetryDeadLetters
  <2>1. UNCHANGED <<stored, processed, batch, inFlight, delivered>>
    BY <1>1 DEF RetryDeadLetters
  <2>2. \A m \in Messages : status[m] = "PROCESSING" => status'[m] = "PROCESSING"
    BY <1>1 DEF RetryDeadLetters, OldestDead
  <2>3. \A t \in inFlight : Current(t) \in Messages
    BY CurrentType DEF TypeOK
  <2>4. QED
    BY <2>1, <2>2, <2>3
    DEF OnceInv, KeyDeliveredOnce, Current, InRepository, IsDuplicate
<1>2. ~ \E t \in Tasks : Interruption(t)
  BY DEF Interruption, Call, OnePublisher, TypeOK, OperatorCalls
<1>3. ASSUME NEW t \in Tasks, SkipDuplicate(t) PROVE OnceInv'
  <2>1. inFlight' = {}
    BY <1>3 DEF SkipDuplicate, Advance, OnePublisher, TypeOK
  <2>2. UNCHANGED delivered /\ processed \subseteq processed'
    BY <1>3 DEF SkipDuplicate, MarkProcessed
  <2>3. QED
    BY <2>1, <2>2 DEF OnceInv, KeyDeliveredOnce
<1>4. ASSUME NEW t \in Tasks, BeginPublish(t) PROVE OnceInv'
  <2>1. PICK m \in Messages : m = Current(t)
    BY <1>4, CurrentType DEF BeginPublish
  <2>2. /\ inFlight' = {t} /\ Current(t)' = m
        /\ UNCHANGED <<processed, delivered>>
    BY <1>4, <2>1 DEF BeginPublish, OnePublisher, TypeOK, Current
  <2>3. InRepository(m)' /\ status'[m] = "PROCESSING" /\ ~IsDuplicate(m)
    BY <1>4, <2>1, UpsertAdds DEF BeginPublish, TypeOK
  <2>4. QED
    BY <2>2, <2>3 DEF OnceInv, KeyDeliveredOnce, InRepository, IsDuplicate
<1>5. ASSUME NEW t \in Tasks, Finish(t) PROVE OnceInv'
  <2>1. inFlight' = {}
    BY <1>5, FinishEffect DEF Advance, OnePublisher, TypeOK
  <2>2. PICK m \in Messages : m = Current(t) /\ InRepository(m) /\ ~IsDuplicate(m)
    BY <1>5, FinishEffect DEF OnceInv
  <2>3. CASE PublishRaises(t)
    <3>1. UNCHANGED <<processed, delivered>>
      BY <2>3 DEF PublishRaises, OnePublisher
    <3>2. QED
      BY <2>1, <3>1 DEF OnceInv, KeyDeliveredOnce
  <2>4. CASE Published(t) \/ PublishedCallbackRaises(t)
    <3>1. BrokerTakes(m) /\ processed' = processed \cup KeySet(m)
      BY <2>2, <2>4 DEF Published, PublishedCallbackRaises, MarkProcessed
    <3>2. QED
      BY <2>1, <2>2, <3>1, TakenOnce DEF OnceInv
  <2>5. QED
    BY <1>5, <2>3, <2>4 DEF Finish
<1>6. QED
  BY <1>1, <1>2, <1>3, <1>4, <1>5, Steps, QuietOnce

(* With one honest publisher the broker takes each keyed event once,       *)
(* however many messages, keys, retries and redrives there are.            *)
THEOREM DeliveredOnce ==
    ASSUME OnePublisher
    PROVE  Spec => []KeyDeliveredOnce
<1>1. Init => OnceInv
  BY DEF Init, OnceInv, KeyDeliveredOnce
<1>2. TypeOK /\ OnceInv /\ [Next]_vars => OnceInv'
  BY OnceStep
<1>3. OnceInv => KeyDeliveredOnce
  BY DEF OnceInv
<1>4. QED
  BY <1>1, <1>2, <1>3, TypeCorrect, PTL DEF Spec

(***************************************************************************)
(* Outbox, broker and inbox.                                               *)
(***************************************************************************)

(* The inbox's theorems, for the deliveries of the pipeline.               *)
IP == INSTANCE Inbox_proofs WITH
    Ids <- Messages,
    Keys <- InboxKeys,
    IdOf <- [d \in Deliveries |-> d[1]],
    KeyOf <- [d \in Deliveries |-> EventKey[d[1]]]

(* Copies of a message have its id, so they have one key.                  *)
LEMMA InboxAssumptions == IP!SameIdSameKey /\ IP!NoneAssumption /\ IP!FaultBounds
<1>1. IP!SameIdSameKey
  BY DeliveryAssumption DEF IP!SameIdSameKey, Deliveries
<1>2. IP!NoneAssumption
  BY DeliveryAssumption DEF IP!NoneAssumption, Deliveries
<1>3. IP!FaultBounds
  BY DeliveryAssumption DEF IP!FaultBounds
<1>4. QED
  BY <1>1, <1>2, <1>3

(* A step of the pipeline is a step of the outbox or of the inbox, and the *)
(* other one stands still.                                                 *)
LEMMA PipelineSteps ==
    ASSUME [PipelineNext]_pipeline
    PROVE  [Next]_vars /\ [IP!Next]_(IP!vars)
<1>1. CASE OutboxStep
  BY <1>1 DEF OutboxStep, inbox, IP!vars
<1>2. ASSUME NEW d \in Deliveries, BrokerDelivers(d) PROVE UNCHANGED vars /\ IP!Next
  <2>1. I!Deliver(d) => IP!Deliver(d)
    BY DEF I!Deliver, I!Receive, I!ReceiveDuplicate, I!ReceiveAndProcess, I!Save, I!EntryByKey,
           IP!Deliver, IP!Receive, IP!ReceiveDuplicate, IP!ReceiveAndProcess, IP!Save, IP!EntryByKey
  <2>2. QED
    BY <1>2, <2>1 DEF BrokerDelivers, IP!Next
<1>3. ASSUME NEW d \in Deliveries, ConsumerStep(d) PROVE UNCHANGED vars /\ IP!Next
  <2>1. I!Handle(d) => IP!Handle(d)
    BY DEF I!Handle, I!Process, I!MayProcess, I!HandlerReturns, I!HandlerRaises, I!Cancel, I!Update,
           IP!Handle, IP!Process, IP!MayProcess, IP!HandlerReturns, IP!HandlerRaises, IP!Cancel, IP!Update
  <2>2. QED
    BY <1>3, <2>1 DEF ConsumerStep, IP!Next
<1>4. ASSUME NEW old \in SUBSET Deliveries, InboxCleanup(old) PROVE UNCHANGED vars /\ IP!Next
  <2>1. I!Cleanup(old) => IP!Cleanup(old)
    BY DEF I!Cleanup, I!Stored, IP!Cleanup, IP!Stored
  <2>2. QED
    BY <1>4, <2>1 DEF InboxCleanup, IP!Next
<1>5. CASE UNCHANGED pipeline
  BY <1>5 DEF pipeline, inbox, IP!vars
<1>6. QED
  BY <1>1, <1>2, <1>3, <1>4, <1>5 DEF PipelineNext

LEMMA PipelineInitially == PipelineInit => Init /\ IP!Init
BY DEF PipelineInit, I!Init, IP!Init

(* Each side keeps its invariant in the pipeline.                          *)
THEOREM SidesKeepTheirs == PipelineSpec => [](Inv /\ IP!Inv)
<1>1. PipelineInit => Inv /\ IP!Inv
  BY PipelineInitially, InboxAssumptions, InitInv, IP!InitInv
<1>2. Inv /\ [Next]_vars => Inv'
  BY TypeStep, HandedOffStep, KeysRecordedStep, OwnedStep, RetriesStep DEF Inv
<1>3. IP!Inv /\ [IP!Next]_(IP!vars) => IP!Inv'
  BY InboxAssumptions, IP!NextInv
<1>4. Inv /\ IP!Inv /\ [PipelineNext]_pipeline => Inv' /\ IP!Inv'
  BY <1>2, <1>3, PipelineSteps
<1>5. QED
  BY <1>1, <1>4, PTL DEF PipelineSpec

(* Behind the broker the inbox is a window of remembered keys still.       *)
THEOREM PipelineRemembers == PipelineSpec => IP!ImplementsDedup
<1>1. IP!Spec => IP!ImplementsDedup
  BY InboxAssumptions, IP!InboxImplementsDedup
<1>2. PipelineInit => IP!Init
  BY PipelineInitially
<1>3. [PipelineNext]_pipeline => [IP!Next]_(IP!vars)
  BY PipelineSteps
<1>4. PipelineSpec => IP!Spec
  BY <1>2, <1>3, PTL DEF PipelineSpec, IP!Spec
<1>5. QED
  BY <1>1, <1>4, PTL

(* The broker delivers what it took, an effect leaves a PROCESSED entry,   *)
(* and a second one finds the first entry gone.                            *)
Did(k) == {d \in Deliveries : EventKey[d[1]] = k /\ entryStatus[d] = "PROCESSED"}

EffectsInv ==
    /\ \A d \in Deliveries : entryStatus[d] # "NONE" => delivered[d[1]] > 0
    /\ \A k \in InboxKeys :
          /\ effects[k] > 0 => Did(k) # {}
          /\ effects[k] > 1 => ~(Did(k) \subseteq I!Stored)

(* A step of the inbox concerns one delivery, whose entry had no outcome   *)
(* yet, and stores no other entry.                                         *)
Concerns(d) ==
    /\ entryStatus[d] \notin {"PROCESSED", "FAILED", "DUPLICATE"}
    /\ entryStatus' = [entryStatus EXCEPT ![d] = entryStatus'[d]]
    /\ I!Stored' \subseteq I!Stored \cup {d}

LEMMA StepConcerns ==
    ASSUME IP!Inv, NEW d \in Deliveries, BrokerDelivers(d) \/ ConsumerStep(d)
    PROVE  /\ Concerns(d) /\ UNCHANGED delivered
           /\ \/ UNCHANGED effects /\ entryStatus'[d] # "PROCESSED"
              \/ /\ I!HandlerReturns(d) /\ entryStatus[d] = "PROCESSING"
                 /\ entryStatus'[d] = "PROCESSED"
           /\ entryStatus[d] = "NONE" => delivered[d[1]] > 0
<1>1. /\ entries \in [Messages -> Deliveries \cup {None}] /\ d[1] \in Messages
      /\ entryStatus \in [Deliveries -> IP!EntryStatuses]
      /\ handling \subseteq {e \in Deliveries : entryStatus[e] = "PROCESSING"}
  BY DEF IP!Inv, IP!TypeOK, Deliveries
<1>2. entries' = [entries EXCEPT ![d[1]] = d] \/ entries' = entries
         => I!Stored' \subseteq I!Stored \cup {d}
  BY <1>1 DEF I!Stored
<1>3. UNCHANGED delivered
  BY DEF BrokerDelivers, ConsumerStep, vars
<1>4. CASE BrokerDelivers(d)
  <2>1. PICK s \in {"PENDING", "DUPLICATE", "PROCESSING"} :
           entryStatus' = [entryStatus EXCEPT ![d] = s]
    BY <1>4 DEF BrokerDelivers, I!Deliver, I!Receive, I!ReceiveDuplicate, I!ReceiveAndProcess
  <2>2. /\ entries' = [entries EXCEPT ![d[1]] = d] \/ entries' = entries
        /\ entryStatus[d] = "NONE" /\ UNCHANGED effects /\ delivered[d[1]] > 0
    BY <1>4 DEF BrokerDelivers, I!Deliver, I!Receive, I!ReceiveDuplicate, I!ReceiveAndProcess,
                I!Save
  <2>3. QED
    BY <1>1, <1>2, <1>3, <2>1, <2>2 DEF Concerns
<1>5. CASE I!Process(d) \/ I!HandlerReturns(d) \/ I!HandlerRaises(d)
  <2>1. PICK s \in {"PROCESSING", "PROCESSED", "FAILED"} :
           /\ entryStatus' = [entryStatus EXCEPT ![d] = s]
           /\ s = "PROCESSED" <=> I!HandlerReturns(d)
    BY <1>1, <1>5 DEF I!Process, I!HandlerReturns, I!HandlerRaises, I!Update, I!MayProcess
  <2>2. /\ entries' = [entries EXCEPT ![d[1]] = d]
        /\ entryStatus[d] \in {"PENDING", "PROCESSING"}
        /\ I!HandlerReturns(d) \/ UNCHANGED effects
        /\ I!HandlerReturns(d) => entryStatus[d] = "PROCESSING"
    BY <1>1, <1>5 DEF I!Process, I!HandlerReturns, I!HandlerRaises, I!Update, I!MayProcess
  <2>3. QED
    BY <1>1, <1>2, <1>3, <2>1, <2>2 DEF Concerns
<1>6. CASE I!Cancel(d)
  <2>1. entryStatus[d] = "PROCESSING" /\ UNCHANGED <<entries, entryStatus, effects>>
    BY <1>1, <1>6 DEF I!Cancel
  <2>2. QED
    BY <1>1, <1>2, <1>3, <2>1 DEF Concerns
<1>7. QED
  BY <1>4, <1>5, <1>6 DEF ConsumerStep, I!Handle

(* Who processed the key before d leaves d no entry of its own to find:    *)
(* while an entry under the key is stored, the key is known.               *)
LEMMA OthersForgotten ==
    ASSUME IP!Inv, NEW d \in Deliveries, entryStatus[d] = "PROCESSING",
           NEW e \in Did(EventKey[d[1]])
    PROVE  e \notin I!Stored
<1> SUFFICES ASSUME e \in I!Stored PROVE FALSE
  OBVIOUS
<1>1. e \in Deliveries /\ EventKey[e[1]] = EventKey[d[1]] /\ e # d
  BY DEF Did
<1>2. PICK i \in Messages : entries[i] = e /\ e # None
  BY DEF I!Stored
<1>3. e[1] = i /\ byKey[EventKey[e[1]]] = i
  BY <1>1, <1>2 DEF IP!Inv, IP!EntriesIndexed
<1>4. entries[d[1]] = d /\ byKey[EventKey[d[1]]] = d[1]
  BY InboxAssumptions, IP!UnsettledFound DEF IP!Unsettled
<1>5. QED
  BY <1>1, <1>2, <1>3, <1>4

LEMMA EffectsStep ==
    ASSUME TypeOK, IP!Inv, EffectsInv, [PipelineNext]_pipeline
    PROVE  EffectsInv'
<1>0. /\ entryStatus \in [Deliveries -> IP!EntryStatuses] /\ effects \in [InboxKeys -> Nat]
      /\ delivered \in [Messages -> Nat]
      /\ \A d \in Deliveries : d[1] \in Messages /\ EventKey[d[1]] \in InboxKeys
  BY DeliveryAssumption DEF IP!Inv, IP!TypeOK, TypeOK, Deliveries
<1>1. ASSUME UNCHANGED inbox PROVE EffectsInv'
  <2>1. \A m \in Messages : delivered'[m] \in Nat /\ delivered'[m] >= delivered[m]
    BY PipelineSteps, TypeStep, DeliveredGrows DEF TypeOK
  <2>2. UNCHANGED <<entries, entryStatus, effects>>
    BY <1>1 DEF inbox
  <2>3. \A d \in Deliveries : entryStatus[d] # "NONE" => delivered'[d[1]] > 0
    BY <1>0, <2>1 DEF EffectsInv
  <2>4. QED
    BY <2>2, <2>3 DEF EffectsInv, Did, I!Stored
<1>2. ASSUME NEW old \in SUBSET Deliveries, InboxCleanup(old) PROVE EffectsInv'
  <2>1. UNCHANGED <<delivered, entryStatus, effects>>
    BY <1>2 DEF InboxCleanup, I!Cleanup, vars
  <2>2. I!Stored' \subseteq I!Stored
    BY <1>2 DEF InboxCleanup, I!Cleanup, I!Stored
  <2>3. QED
    BY <2>1, <2>2 DEF EffectsInv, Did
<1>3. ASSUME NEW d \in Deliveries, BrokerDelivers(d) \/ ConsumerStep(d) PROVE EffectsInv'
  <2>1. /\ Concerns(d) /\ UNCHANGED delivered
        /\ \/ UNCHANGED effects /\ entryStatus'[d] # "PROCESSED"
           \/ /\ I!HandlerReturns(d) /\ entryStatus[d] = "PROCESSING"
              /\ entryStatus'[d] = "PROCESSED"
        /\ entryStatus[d] = "NONE" => delivered[d[1]] > 0
    BY <1>3, StepConcerns
  <2>2. /\ \A e \in Deliveries \ {d} : entryStatus'[e] = entryStatus[e]
        /\ I!Stored' \subseteq I!Stored \cup {d} /\ entryStatus[d] # "PROCESSED"
    BY <1>0, <2>1 DEF Concerns
  <2>3. \A e \in Deliveries : entryStatus'[e] # "NONE" => delivered'[e[1]] > 0
    BY <2>1, <2>2 DEF EffectsInv
  <2>4. \A k \in InboxKeys : Did(k) \subseteq Did(k)' /\ d \notin Did(k)
    BY <2>2 DEF Did
  <2>5. \A k \in InboxKeys : ~(Did(k) \subseteq I!Stored) => ~(Did(k)' \subseteq I!Stored')
    BY <2>2, <2>4
  <2>6. CASE UNCHANGED effects
    BY <2>3, <2>4, <2>5, <2>6 DEF EffectsInv
  <2>7. CASE I!HandlerReturns(d) /\ entryStatus[d] = "PROCESSING" /\ entryStatus'[d] = "PROCESSED"
    <3>1. PICK c \in InboxKeys : c = EventKey[d[1]]
      BY <1>0
    <3>2. effects' = [effects EXCEPT ![c] = @ + 1]
      BY <2>7, <3>1 DEF I!HandlerReturns
    <3>3. d \in Did(c)'
      BY <2>7, <3>1 DEF Did
    <3>4. effects[c] > 0 => ~(Did(c) \subseteq I!Stored)
      <4>1. \A e \in Did(c) : e \notin I!Stored
        BY <2>7, <3>1, OthersForgotten
      <4>2. QED
        BY <4>1 DEF EffectsInv
    <3>5. ASSUME NEW k \in InboxKeys
          PROVE  /\ effects'[k] > 0 => Did(k)' # {}
                 /\ effects'[k] > 1 => ~(Did(k)' \subseteq I!Stored')
      <4>1. CASE k = c
        <5>1. effects'[c] = effects[c] + 1
          BY <1>0, <3>2
        <5>2. QED
          BY <1>0, <2>5, <3>3, <3>4, <4>1, <5>1
      <4>2. CASE k # c
        <5>1. effects'[k] = effects[k]
          BY <1>0, <3>2, <4>2
        <5>2. QED
          BY <2>4, <2>5, <5>1 DEF EffectsInv
      <4>3. QED
        BY <4>1, <4>2
    <3>6. QED
      BY <2>3, <3>5 DEF EffectsInv
  <2>8. QED
    BY <2>1, <2>6, <2>7
<1>4. QED
  BY <1>1, <1>2, <1>3 DEF PipelineNext, OutboxStep, pipeline

(* However the outbox retries and the broker repeats and reorders, an      *)
(* effect is that of an event that was handed over, and it is not repeated *)
(* while the inbox remembers the first entry.                              *)
THEOREM EffectsBacked == PipelineSpec => []EffectsAreBacked
<1>1. PipelineInit => EffectsInv
  BY DeliveryAssumption DEF PipelineInit, I!Init, EffectsInv
<1>2. Inv /\ IP!Inv /\ EffectsInv /\ [PipelineNext]_pipeline => EffectsInv'
  BY EffectsStep DEF Inv
<1>3. IP!Inv /\ EffectsInv => EffectsAreBacked
  <2> SUFFICES ASSUME IP!Inv, EffectsInv, NEW m \in Messages, effects[EventKey[m]] > 0
               PROVE  /\ \E n \in Messages : EventKey[n] = EventKey[m] /\ delivered[n] > 0
                      /\ \/ effects[EventKey[m]] = 1
                         \/ \E d \in CopiesOf(m) :
                               entryStatus[d] = "PROCESSED" /\ d \notin I!Stored
    BY DEF EffectsAreBacked
  <2>1. EventKey[m] \in InboxKeys /\ effects[EventKey[m]] \in Nat
    BY DeliveryAssumption DEF IP!Inv, IP!TypeOK
  <2>2. PICK d \in Did(EventKey[m]) : TRUE
    BY <2>1 DEF EffectsInv
  <2>3. d[1] \in Messages /\ EventKey[d[1]] = EventKey[m] /\ delivered[d[1]] > 0
    BY <2>2 DEF Did, Deliveries, EffectsInv
  <2>4. effects[EventKey[m]] = 1 \/ ~(Did(EventKey[m]) \subseteq I!Stored)
    BY <2>1 DEF EffectsInv
  <2>5. QED
    BY <2>3, <2>4 DEF Did, CopiesOf
<1>4. QED
  BY <1>1, <1>2, <1>3, SidesKeepTheirs, PTL DEF PipelineSpec

(* Together: with one honest publisher a keyed event is taken once, also   *)
(* where its copies go through the broker to the inbox.                    *)
THEOREM PipelineDeliversOnce ==
    ASSUME OnePublisher
    PROVE  PipelineSpec => []KeyDeliveredOnce
<1>1. Init => OnceInv
  BY DEF Init, OnceInv, KeyDeliveredOnce
<1>2. TypeOK /\ OnceInv /\ [PipelineNext]_pipeline => OnceInv'
  BY PipelineSteps, OnceStep
<1>3. PipelineInit => OnceInv
  BY <1>1, PipelineInitially
<1>4. Inv => TypeOK
  BY DEF Inv
<1>5. OnceInv => KeyDeliveredOnce
  BY DEF OnceInv
<1>6. QED
  BY <1>2, <1>3, <1>4, <1>5, SidesKeepTheirs, PTL DEF PipelineSpec
=============================================================================
