---------------------------- MODULE Relay_proofs ----------------------------
(***************************************************************************)
(* The safety properties of the retry queue and of the transactional       *)
(* producer, as workers of the one use the other: for any messages,        *)
(* workers, batch size, retries and bounds.                                *)
(***************************************************************************)
EXTENDS Relay, FiniteSetTheorems, SequenceTheorems, TLAPS

(***************************************************************************)
(* The queue.                                                              *)
(***************************************************************************)

(* The numbers of a finite set in order are all of them.                   *)
LEMMA InOrderIsOnto ==
    ASSUME NEW S \in SUBSET Nat, IsFiniteSet(S), NEW at \in InOrder(S)
    PROVE  /\ Cardinality(S) \in Nat
           /\ at \in [1 .. Cardinality(S) -> S]
           /\ \A s \in S : \E i \in 1 .. Cardinality(S) : at[i] = s
<1> DEFINE n == Cardinality(S)
<1>1. n \in Nat
  BY FS_CardinalityType
<1>2. at \in [1 .. n -> S] /\ \A i, j \in 1 .. n : i < j => at[i] < at[j]
  BY DEF InOrder
<1>3. IsFiniteSet(1 .. n) /\ Cardinality(1 .. n) = n
  BY <1>1, FS_Interval
<1>4. at \in Injection(1 .. n, S)
  <2>1. \A i, j \in 1 .. n : at[i] = at[j] => i = j
    <3>1. SUFFICES ASSUME NEW i \in 1 .. n, NEW j \in 1 .. n, at[i] = at[j], i # j PROVE FALSE
      OBVIOUS
    <3>2. i < j \/ j < i
      BY <1>1, <3>1
    <3>3. at[i] \in Nat /\ at[j] \in Nat
      BY <1>2
    <3>4. QED
      BY <1>2, <3>1, <3>2, <3>3
  <2>2. QED
    BY <1>2, <2>1 DEF Injection, IsInjective
<1>5. at \in Surjection(1 .. n, S)
  BY <1>3, <1>4, FS_Injection
<1>6. QED
  BY <1>1, <1>2, <1>5 DEF Surjection

(* What is in hand, waits in a batch or lies in a list has been enqueued.  *)
BatchesKnown ==
    /\ \A w \in Workers : pc[w] # "idle" => batch[w] # <<>>
    /\ \A w \in Workers : \A i \in DOMAIN batch[w] : status[batch[w][i]] # "NEW"

Listed(m) == (\E i \in DOMAIN queue : queue[i] = m) \/ (\E i \in DOMAIN dlq : dlq[i] = m)

(* NotForgotten, with lists read by index.                                 *)
Kept(m) ==
    status[m] # "NEW" =>
       /\ Listed(m)
       /\ \/ m \in handled \cup orphaned \/ \E i \in DOMAIN dlq : dlq[i] = m
          \/ status[m] = "PENDING"
          \/ \E w \in Workers : pc[w] \in {"before", "handling"} /\ InHand(w) = m

(* The queue's part of the invariant: nothing else of the type invariant   *)
(* is needed to find every message.                                        *)
QueueInv ==
    /\ queue \in Seq(Messages) /\ dlq \in Seq(Messages)
    /\ status \in [Messages -> {"NEW", "PENDING", "PROCESSING", "COMPLETED", "DEAD_LETTER"}]
    /\ pc \in [Workers -> {"idle", "before", "handling", "parked", "parkedAgain", "after"}]
    /\ batch \in [Workers -> Seq(Messages)]
    /\ BatchesKnown
    /\ \A m \in Messages : Kept(m)

LEMMA QueueInitially == RelayInit => QueueInv
BY DEF RelayInit, QueueInit, QueueInv, BatchesKnown, Kept

LEMMA QueueInvForgetsNothing == QueueInv => NotForgotten
<1> SUFFICES ASSUME QueueInv, NEW m \in Messages,
                    status[m] # "NEW", m \notin handled \cup orphaned, m \notin Range(dlq)
             PROVE  /\ m \in Range(queue)
                    /\ \/ status[m] = "PENDING"
                       \/ \E w \in Workers : pc[w] \in {"before", "handling"} /\ InHand(w) = m
  BY DEF NotForgotten
<1>1. Kept(m)
  BY DEF QueueInv
<1>2. ~ \E i \in DOMAIN dlq : dlq[i] = m
  BY DEF Range
<1>3. QED
  BY <1>1, <1>2 DEF Kept, Listed, Range

(* What FromQueue collects: elements of the queue at numbers of S, all of  *)
(* them if n is their number.                                              *)
LEMMA Collected ==
    ASSUME queue \in Seq(Messages), NEW S \in SUBSET (DOMAIN queue), NEW at \in InOrder(S),
           NEW n \in 0 .. Cardinality(S)
    PROVE  /\ FromQueue(at, n) \in Seq(Messages) /\ DOMAIN FromQueue(at, n) = 1 .. n
           /\ \A i \in 1 .. n : at[i] \in S /\ FromQueue(at, n)[i] = queue[at[i]]
           /\ n = Cardinality(S) =>
                 \A s \in S : \E i \in 1 .. n : FromQueue(at, n)[i] = queue[s]
<1>1. S \in SUBSET Nat /\ IsFiniteSet(S)
  <2>1. DOMAIN queue = 1 .. Len(queue) /\ Len(queue) \in Nat
    OBVIOUS
  <2>2. IsFiniteSet(1 .. Len(queue))
    BY <2>1, FS_Interval
  <2>3. QED
    BY <2>1, <2>2, FS_Subset
<1>2. /\ Cardinality(S) \in Nat /\ at \in [1 .. Cardinality(S) -> S]
      /\ \A s \in S : \E i \in 1 .. Cardinality(S) : at[i] = s
  BY <1>1, InOrderIsOnto
<1>3. \A i \in 1 .. n : at[i] \in S /\ queue[at[i]] \in Messages
  BY <1>2
<1>4. n \in Nat
  BY <1>2
<1>5. FromQueue(at, n) \in [1 .. n -> Messages] /\ \A i \in 1 .. n : FromQueue(at, n)[i] = queue[at[i]]
  BY <1>3 DEF FromQueue
<1>6. FromQueue(at, n) \in Seq(Messages)
  BY <1>4, <1>5
<1>7. QED
  BY <1>2, <1>3, <1>5, <1>6

(* A worker that goes on with a batch of messages that are known.          *)
LEMMA ContinueKeeps ==
    ASSUME QueueInv, NEW w \in Workers, NEW b \in Seq(Messages),
           \A i \in DOMAIN b : status[b[i]] # "NEW",
           pc[w] \notin {"before", "handling"}, Continue(w, b),
           UNCHANGED <<queue, dlq, handled, orphaned>>
    PROVE  QueueInv'
<1> USE DEF QueueInv
<1>1. CASE b = <<>>
  <2>1. /\ pc' = [pc EXCEPT ![w] = "idle"] /\ batch' = [batch EXCEPT ![w] = <<>>]
        /\ status' = status
    BY <1>1 DEF Continue, At
  <2>2. pc' \in [Workers -> {"idle", "before", "handling", "parked", "parkedAgain", "after"}]
    BY <2>1
  <2>3. batch' \in [Workers -> Seq(Messages)]
    BY <2>1
  <2>4. /\ pc'[w] = "idle" /\ batch'[w] = <<>>
        /\ \A v \in Workers \ {w} : pc'[v] = pc[v] /\ batch'[v] = batch[v]
    BY <2>1
  <2>5. BatchesKnown'
    BY <2>1, <2>4 DEF BatchesKnown
  <2>6. ASSUME NEW m \in Messages PROVE Kept(m)'
    BY <2>1, <2>4 DEF Kept, Listed, InHand
  <2>7. QED
    BY <2>1, <2>2, <2>3, <2>5, <2>6
<1>2. CASE b # <<>>
  <2>1. /\ pc' = [pc EXCEPT ![w] = "before"] /\ batch' = [batch EXCEPT ![w] = b]
        /\ status' = [status EXCEPT ![Head(b)] = "PROCESSING"]
    BY <1>2 DEF Continue, At
  <2>2. Head(b) \in Messages /\ Head(b) = b[1] /\ 1 \in DOMAIN b
    BY <1>2
  <2>3. /\ pc' \in [Workers -> {"idle", "before", "handling", "parked", "parkedAgain", "after"}]
        /\ pc'[w] = "before" /\ \A v \in Workers \ {w} : pc'[v] = pc[v]
    BY <2>1
  <2>4. /\ batch' \in [Workers -> Seq(Messages)]
        /\ batch'[w] = b /\ \A v \in Workers \ {w} : batch'[v] = batch[v]
    BY <2>1
  <2>5. /\ status' \in [Messages -> {"NEW", "PENDING", "PROCESSING", "COMPLETED", "DEAD_LETTER"}]
        /\ \A m \in Messages : status'[m] = IF m = Head(b) THEN "PROCESSING" ELSE status[m]
    BY <2>1, <2>2
  <2>6. BatchesKnown'
    BY <1>2, <2>3, <2>4, <2>5 DEF BatchesKnown
  <2>7. ASSUME NEW m \in Messages PROVE Kept(m)'
    <3>1. CASE m = Head(b)
      <4>1. status[m] # "NEW"
        BY <2>2, <3>1
      <4>2. Listed(m)'
        BY <4>1 DEF Kept, Listed
      <4>3. pc'[w] \in {"before", "handling"} /\ Head(batch'[w]) = m
        BY <2>3, <2>4, <3>1
      <4>4. QED
        BY <4>2, <4>3 DEF Kept, InHand
    <3>2. CASE m # Head(b)
      <4>1. status'[m] = status[m]
        BY <2>5, <3>2
      <4>2. QED
        BY <2>3, <2>4, <4>1 DEF Kept, Listed, InHand
    <3>3. QED
      BY <3>1, <3>2
  <2>8. QED
    BY <2>3, <2>4, <2>5, <2>6, <2>7
<1>3. QED
  BY <1>1, <1>2

(* A worker that leaves its message, which a history records if it was     *)
(* not done with it.                                                       *)
LEMMA AbandonKeeps ==
    ASSUME QueueInv, NEW w \in Workers, Abandon(w)
    PROVE  QueueInv'
<1> USE DEF QueueInv
<1>1. /\ pc' = [pc EXCEPT ![w] = "idle"] /\ batch' = [batch EXCEPT ![w] = <<>>]
      /\ UNCHANGED <<queue, dlq, status, retries, due, handled>>
      /\ orphaned' = IF pc[w] \in {"before", "handling"} THEN orphaned \cup {InHand(w)} ELSE orphaned
  BY DEF Abandon, At, messageVars
<1>2. /\ pc' \in [Workers -> {"idle", "before", "handling", "parked", "parkedAgain", "after"}]
      /\ batch' \in [Workers -> Seq(Messages)]
      /\ pc'[w] = "idle" /\ batch'[w] = <<>>
      /\ \A v \in Workers \ {w} : pc'[v] = pc[v] /\ batch'[v] = batch[v]
  BY <1>1
<1>3. BatchesKnown'
  BY <1>1, <1>2 DEF BatchesKnown
<1>4. ASSUME NEW m \in Messages PROVE Kept(m)'
  BY <1>1, <1>2 DEF Kept, Listed, InHand
<1>5. QED
  BY <1>1, <1>2, <1>3, <1>4

(* A worker at a message it has not finished goes somewhere else with it.  *)
LEMMA MovesKeep ==
    ASSUME QueueInv, NEW w \in Workers,
           NEW p \in {"before", "handling", "parked", "parkedAgain", "after"}, At(w, p),
           pc[w] # "idle", pc[w] \in {"before", "handling"} => p \in {"before", "handling"},
           UNCHANGED <<queue, dlq, status, batch, handled, orphaned>>
    PROVE  QueueInv'
<1> USE DEF QueueInv
<1>1. /\ pc' \in [Workers -> {"idle", "before", "handling", "parked", "parkedAgain", "after"}]
      /\ pc'[w] = p /\ \A v \in Workers \ {w} : pc'[v] = pc[v]
  BY DEF At
<1>2. BatchesKnown'
  BY <1>1 DEF BatchesKnown
<1>3. ASSUME NEW m \in Messages PROVE Kept(m)'
  BY <1>1 DEF Kept, Listed, InHand
<1>4. QED
  BY <1>1, <1>2, <1>3

(* A worker that is not idle has a message in hand that was enqueued.      *)
LEMMA InHandKnown ==
    ASSUME QueueInv, NEW w \in Workers, pc[w] # "idle"
    PROVE  /\ InHand(w) \in Messages /\ status[InHand(w)] # "NEW" /\ Listed(InHand(w))
           /\ Tail(batch[w]) \in Seq(Messages)
           /\ \A i \in DOMAIN Tail(batch[w]) : status[Tail(batch[w])[i]] # "NEW"
<1>1. batch[w] \in Seq(Messages) /\ batch[w] # <<>>
  BY DEF QueueInv, BatchesKnown
<1>2. \A i \in DOMAIN batch[w] : status[batch[w][i]] # "NEW"
  BY DEF QueueInv, BatchesKnown
<1>3. InHand(w) = batch[w][1] /\ 1 \in DOMAIN batch[w] /\ InHand(w) \in Messages
  BY <1>1 DEF InHand
<1>4. status[InHand(w)] # "NEW"
  BY <1>2, <1>3
<1>5. Listed(InHand(w))
  BY <1>3, <1>4 DEF QueueInv, Kept
<1>6. PICK b \in Seq(Messages) : b = batch[w] /\ b # <<>>
  BY <1>1
<1>7. Tail(b) \in Seq(Messages) /\ \A i \in DOMAIN Tail(b) : i + 1 \in DOMAIN b /\ Tail(b)[i] = b[i + 1]
  BY <1>6
<1>8. QED
  BY <1>2, <1>3, <1>4, <1>5, <1>6, <1>7

(* A message leaves a worker's hand with a new status: of the lists, the   *)
(* dead letters only grow, and what leaves the queue is among them.        *)
LEMMA SettledKeeps ==
    ASSUME QueueInv, NEW w \in Workers, pc[w] # "idle",
           NEW p \in {"parked", "parkedAgain", "after"}, At(w, p),
           UNCHANGED <<batch, orphaned>>,
           NEW s \in {"PENDING", "COMPLETED", "DEAD_LETTER"},
           status' = [status EXCEPT ![InHand(w)] = s],
           queue' \in Seq(Messages), dlq' \in Seq(Messages), handled \subseteq handled',
           \A i \in DOMAIN dlq : \E j \in DOMAIN dlq' : dlq'[j] = dlq[i],
           \A i \in DOMAIN queue : queue[i] # InHand(w) =>
               \E j \in DOMAIN queue' : queue'[j] = queue[i],
           Listed(InHand(w))',
           s = "COMPLETED" => InHand(w) \in handled',
           s = "DEAD_LETTER" => \E i \in DOMAIN dlq' : dlq'[i] = InHand(w)
    PROVE  QueueInv'
<1>1. /\ status \in [Messages -> {"NEW", "PENDING", "PROCESSING", "COMPLETED", "DEAD_LETTER"}]
      /\ pc \in [Workers -> {"idle", "before", "handling", "parked", "parkedAgain", "after"}]
      /\ batch \in [Workers -> Seq(Messages)] /\ BatchesKnown
      /\ \A m \in Messages : Kept(m)
  BY DEF QueueInv
<1>2. PICK h \in Messages : h = InHand(w) /\ InHand(w)' = h
  BY InHandKnown DEF InHand
<1>3. /\ status' \in [Messages -> {"NEW", "PENDING", "PROCESSING", "COMPLETED", "DEAD_LETTER"}]
      /\ status'[h] = s /\ \A m \in Messages \ {h} : status'[m] = status[m]
  BY <1>1, <1>2
<1>4. /\ pc' \in [Workers -> {"idle", "before", "handling", "parked", "parkedAgain", "after"}]
      /\ pc'[w] = p /\ \A v \in Workers \ {w} : pc'[v] = pc[v]
  BY <1>1 DEF At
<1>5. BatchesKnown'
  <2>1. \A v \in Workers : pc'[v] # "idle" => batch'[v] # <<>>
    BY <1>1, <1>4 DEF BatchesKnown
  <2>2. ASSUME NEW v \in Workers, NEW i \in DOMAIN batch'[v] PROVE status'[batch'[v][i]] # "NEW"
    <3>1. batch'[v][i] = batch[v][i] /\ batch[v][i] \in Messages /\ status[batch[v][i]] # "NEW"
      BY <1>1, <2>2 DEF BatchesKnown
    <3>2. QED
      BY <1>3, <3>1
  <2>3. QED
    BY <2>1, <2>2 DEF BatchesKnown
<1>6. Listed(h)'
  BY <1>2 DEF Listed
<1>7. Kept(h)'
  <2>1. status'[h] = s /\ h \in Messages
    BY <1>2, <1>3
  <2>2. \/ s = "PENDING" \/ h \in handled' \/ \E i \in DOMAIN dlq' : dlq'[i] = h
    BY <1>2
  <2>3. QED
    BY <1>2, <1>6, <2>1, <2>2 DEF Kept
<1>8. ASSUME NEW m \in Messages, m # h PROVE Kept(m)'
  <2>1. status'[m] = status[m] /\ Kept(m)
    BY <1>1, <1>3, <1>8
  <2>2. Listed(m) => Listed(m)'
    BY <1>2, <1>8 DEF Listed
  <2>3. (\E i \in DOMAIN dlq : dlq[i] = m) => \E i \in DOMAIN dlq' : dlq'[i] = m
    OBVIOUS
  <2>4. ASSUME NEW v \in Workers, pc[v] \in {"before", "handling"}, InHand(v) = m
        PROVE  pc'[v] \in {"before", "handling"} /\ Head(batch'[v]) = m
    BY <1>2, <1>4, <1>8, <2>4 DEF InHand
  <2>5. QED
    BY <2>1, <2>2, <2>3, <2>4 DEF Kept, InHand
<1>9. \A m \in Messages : Kept(m)'
  BY <1>7, <1>8
<1>10. QED
  BY <1>1, <1>3, <1>4, <1>5, <1>9 DEF QueueInv

LEMMA RetryKeeps ==
    ASSUME QueueInv, NEW w \in Workers, pc[w] # "idle", Retry(InHand(w)),
           NEW p \in {"parked", "parkedAgain", "after"}, At(w, p),
           UNCHANGED <<batch, handled, orphaned>>
    PROVE  QueueInv'
<1>1. UNCHANGED <<queue, dlq>> /\ status' = [status EXCEPT ![InHand(w)] = "PENDING"]
  BY DEF Retry
<1>2. queue' \in Seq(Messages) /\ dlq' \in Seq(Messages)
  BY <1>1 DEF QueueInv
<1>3. Listed(InHand(w))'
  <2>1. Listed(InHand(w)) /\ InHand(w)' = InHand(w)
    BY InHandKnown DEF InHand
  <2>2. QED
    BY <1>1, <2>1 DEF Listed
<1>4. QED
  BY <1>1, <1>2, <1>3, SettledKeeps

(* The queue without m holds what it held but m.                           *)
LEMMA WithoutKeeps ==
    ASSUME QueueInv, NEW m \in Messages, Without(m)
    PROVE  /\ queue' \in Seq(Messages)
           /\ \A i \in DOMAIN queue : queue[i] # m => \E j \in DOMAIN queue' : queue'[j] = queue[i]
<1>1. queue \in Seq(Messages)
  BY DEF QueueInv
<1>2. PICK S \in SUBSET (DOMAIN queue) : S = {i \in DOMAIN queue : queue[i] # m}
  OBVIOUS
<1>3. PICK at \in InOrder(S) : queue' = FromQueue(at, Cardinality(S))
  BY <1>2 DEF Without
<1>4. Cardinality(S) \in 0 .. Cardinality(S)
  <2>1. DOMAIN queue = 1 .. Len(queue) /\ Len(queue) \in Nat
    BY <1>1
  <2>2. IsFiniteSet(1 .. Len(queue))
    BY <2>1, FS_Interval
  <2>3. IsFiniteSet(S)
    BY <2>1, <2>2, FS_Subset
  <2>4. QED
    BY <2>3, FS_CardinalityType
<1>5. /\ FromQueue(at, Cardinality(S)) \in Seq(Messages)
      /\ DOMAIN FromQueue(at, Cardinality(S)) = 1 .. Cardinality(S)
      /\ \A s \in S : \E i \in 1 .. Cardinality(S) : FromQueue(at, Cardinality(S))[i] = queue[s]
  BY <1>1, <1>4, Collected
<1>6. QED
  BY <1>2, <1>3, <1>5

LEMMA MoveToDlqKeeps ==
    ASSUME QueueInv, NEW w \in Workers, pc[w] # "idle", MoveToDlq(InHand(w)),
           NEW p \in {"parked", "parkedAgain", "after"}, At(w, p),
           UNCHANGED <<batch, handled, orphaned>>
    PROVE  QueueInv'
<1>1. InHand(w) \in Messages /\ InHand(w)' = InHand(w)
  BY InHandKnown DEF InHand
<1>2. /\ status' = [status EXCEPT ![InHand(w)] = "DEAD_LETTER"]
      /\ Without(InHand(w)) /\ dlq' = Append(dlq, InHand(w))
  BY DEF MoveToDlq
<1>3. /\ queue' \in Seq(Messages)
      /\ \A i \in DOMAIN queue : queue[i] # InHand(w) =>
            \E j \in DOMAIN queue' : queue'[j] = queue[i]
  BY <1>1, <1>2, WithoutKeeps
<1>4. /\ dlq' \in Seq(Messages)
      /\ \A i \in DOMAIN dlq : i \in DOMAIN dlq' /\ dlq'[i] = dlq[i]
      /\ Len(dlq) + 1 \in DOMAIN dlq' /\ dlq'[Len(dlq) + 1] = InHand(w)
  <2>1. dlq \in Seq(Messages)
    BY DEF QueueInv
  <2>2. QED
    BY <1>1, <1>2, <2>1
<1>5. Listed(InHand(w))'
  BY <1>1, <1>4 DEF Listed
<1>6. QED
  BY <1>2, <1>3, <1>4, <1>5, SettledKeeps

LEMMA HandlerSucceedsKeeps ==
    ASSUME QueueInv, NEW w \in Workers, HandlerSucceeds(w)
    PROVE  QueueInv'
<1>1. /\ pc[w] # "idle" /\ At(w, "after") /\ UNCHANGED <<queue, dlq, batch, orphaned>>
      /\ status' = [status EXCEPT ![InHand(w)] = "COMPLETED"]
      /\ handled' = handled \cup {InHand(w)}
  BY DEF HandlerSucceeds
<1>2. queue' \in Seq(Messages) /\ dlq' \in Seq(Messages)
  BY <1>1 DEF QueueInv
<1>3. Listed(InHand(w))'
  <2>1. Listed(InHand(w)) /\ InHand(w)' = InHand(w)
    BY <1>1, InHandKnown DEF InHand
  <2>2. QED
    BY <1>1, <2>1 DEF Listed
<1>4. InHand(w) \in handled' /\ handled \subseteq handled'
  BY <1>1
<1>5. QED
  BY <1>1, <1>2, <1>3, <1>4, SettledKeeps

LEMMA HandlerFailsKeeps ==
    ASSUME QueueInv, NEW w \in Workers, NEW how \in {"raised", "failed", "hopeless"},
           HandlerFails(w, how)
    PROVE  QueueInv'
<1>1. pc[w] # "idle" /\ UNCHANGED <<batch, handled, orphaned>>
  BY DEF HandlerFails
<1>2. CASE Retry(InHand(w)) /\ At(w, "after")
  BY <1>1, <1>2, RetryKeeps
<1>3. CASE MoveToDlq(InHand(w)) /\ At(w, IF how = "raised" THEN "parkedAgain" ELSE "parked")
  <2>1. PICK p \in {"parked", "parkedAgain"} : At(w, p)
    BY <1>3
  <2>2. QED
    BY <1>1, <1>3, <2>1, MoveToDlqKeeps
<1>4. QED
  BY <1>2, <1>3 DEF HandlerFails

(* A message that comes into the queue, new or from the dead letters.      *)
LEMMA ArrivalKeeps ==
    ASSUME QueueInv, NEW m \in Messages, queue' = Append(queue, m),
           status' = [status EXCEPT ![m] = "PENDING"],
           dlq' \in Seq(Messages),
           \A i \in DOMAIN dlq : dlq[i] # m => \E j \in DOMAIN dlq' : dlq'[j] = dlq[i],
           UNCHANGED <<pc, batch, handled, orphaned>>
    PROVE  QueueInv'
<1>1. /\ queue \in Seq(Messages)
      /\ status \in [Messages -> {"NEW", "PENDING", "PROCESSING", "COMPLETED", "DEAD_LETTER"}]
      /\ batch \in [Workers -> Seq(Messages)] /\ BatchesKnown
      /\ \A n \in Messages : Kept(n)
  BY DEF QueueInv
<1>2. /\ queue' \in Seq(Messages)
      /\ \A i \in DOMAIN queue : i \in DOMAIN queue' /\ queue'[i] = queue[i]
      /\ Len(queue) + 1 \in DOMAIN queue' /\ queue'[Len(queue) + 1] = m
  BY <1>1
<1>3. /\ status' \in [Messages -> {"NEW", "PENDING", "PROCESSING", "COMPLETED", "DEAD_LETTER"}]
      /\ status'[m] = "PENDING" /\ \A n \in Messages \ {m} : status'[n] = status[n]
  BY <1>1
<1>4. BatchesKnown'
  <2>1. \A v \in Workers : pc'[v] # "idle" => batch'[v] # <<>>
    BY <1>1 DEF BatchesKnown
  <2>2. ASSUME NEW v \in Workers, NEW i \in DOMAIN batch'[v] PROVE status'[batch'[v][i]] # "NEW"
    <3>1. batch'[v][i] = batch[v][i] /\ batch[v][i] \in Messages /\ status[batch[v][i]] # "NEW"
      BY <1>1, <2>2 DEF BatchesKnown
    <3>2. QED
      BY <1>3, <3>1
  <2>3. QED
    BY <2>1, <2>2 DEF BatchesKnown
<1>5. Kept(m)'
  <2>1. Listed(m)'
    BY <1>2 DEF Listed
  <2>2. QED
    BY <1>3, <2>1 DEF Kept
<1>6. ASSUME NEW n \in Messages, n # m PROVE Kept(n)'
  <2>1. status'[n] = status[n] /\ Kept(n)
    BY <1>1, <1>3, <1>6
  <2>2. Listed(n) => Listed(n)'
    BY <1>2, <1>6 DEF Listed
  <2>3. (\E i \in DOMAIN dlq : dlq[i] = n) => \E i \in DOMAIN dlq' : dlq'[i] = n
    BY <1>6
  <2>4. QED
    BY <2>1, <2>2, <2>3 DEF Kept, InHand
<1>7. \A n \in Messages : Kept(n)'
  BY <1>5, <1>6
<1>8. QED
  BY <1>1, <1>2, <1>3, <1>4, <1>7 DEF QueueInv

(* RemoveAt leaves a list with all it held elsewhere.                      *)
LEMMA RemovedAt ==
    ASSUME NEW s \in Seq(Messages), NEW i \in DOMAIN s
    PROVE  /\ RemoveAt(s, i) \in Seq(Messages)
           /\ \A k \in DOMAIN s : k # i =>
                 \E j \in DOMAIN RemoveAt(s, i) : RemoveAt(s, i)[j] = s[k]
<1>1. i \in 1 .. Len(s) /\ Len(s) \in Nat
  OBVIOUS
<1>2. PICK a \in Seq(Messages) : /\ a = SubSeq(s, 1, i - 1) /\ Len(a) = i - 1
                                /\ \A j \in 1 .. i - 1 : a[j] = s[j]
  <2>1. /\ SubSeq(s, 1, i - 1) \in Seq(Messages) /\ Len(SubSeq(s, 1, i - 1)) = i - 1
        /\ \A j \in 1 .. i - 1 : SubSeq(s, 1, i - 1)[j] = s[j]
    OBVIOUS
  <2>2. QED
    BY <2>1
<1>3. PICK b \in Seq(Messages) : /\ b = SubSeq(s, i + 1, Len(s)) /\ Len(b) = Len(s) - i
                                /\ \A j \in 1 .. Len(s) - i : b[j] = s[i + j]
  <2>1. /\ SubSeq(s, i + 1, Len(s)) \in Seq(Messages)
        /\ Len(SubSeq(s, i + 1, Len(s))) = Len(s) - i
        /\ \A j \in 1 .. Len(s) - i : SubSeq(s, i + 1, Len(s))[j] = s[i + j]
    OBVIOUS
  <2>2. QED
    BY <2>1
<1>4. /\ a \o b \in Seq(Messages) /\ Len(a \o b) = Len(a) + Len(b)
      /\ \A j \in 1 .. Len(a) + Len(b) :
            (a \o b)[j] = IF j <= Len(a) THEN a[j] ELSE b[j - Len(a)]
  BY ConcatProperties
<1>5. RemoveAt(s, i) = a \o b
  BY <1>2, <1>3 DEF RemoveAt
<1>6. Len(a) = i - 1 /\ Len(b) = Len(s) - i /\ DOMAIN (a \o b) = 1 .. Len(s) - 1
  BY <1>1, <1>2, <1>3, <1>4
<1>7. ASSUME NEW k \in DOMAIN s, k # i
      PROVE  \E j \in DOMAIN (a \o b) : (a \o b)[j] = s[k]
  <2>1. CASE k < i
    <3>1. /\ k \in 1 .. i - 1 /\ k \in DOMAIN (a \o b)
          /\ k \in 1 .. Len(a) + Len(b) /\ k <= Len(a)
      BY <1>1, <1>6, <1>7, <2>1
    <3>2. (a \o b)[k] = s[k]
      BY <1>2, <1>4, <3>1
    <3>3. QED
      BY <3>1, <3>2
  <2>2. CASE k > i
    <3>1. /\ k - 1 \in DOMAIN (a \o b) /\ k - 1 \in 1 .. Len(a) + Len(b)
          /\ ~(k - 1 <= Len(a)) /\ k - 1 - Len(a) = k - i /\ k - i \in 1 .. Len(s) - i
          /\ i + (k - i) = k
      <4>1. k \in 1 .. Len(s)
        OBVIOUS
      <4>2. /\ k - 1 \in 1 .. Len(s) - 1 /\ ~(k - 1 <= i - 1) /\ k - 1 - (i - 1) = k - i
            /\ k - i \in 1 .. Len(s) - i /\ i + (k - i) = k
            /\ (i - 1) + (Len(s) - i) = Len(s) - 1
        BY <1>1, <2>2, <4>1
      <4>3. QED
        BY <1>6, <4>2
    <3>2. (a \o b)[k - 1] = b[k - i]
      BY <1>4, <3>1
    <3>3. b[k - i] = s[k]
      BY <1>3, <3>1
    <3>4. QED
      BY <3>1, <3>2, <3>3
  <2>3. QED
    BY <1>1, <1>7, <2>1, <2>2
<1>8. QED
  BY <1>4, <1>5, <1>7

LEMMA QueueStepKeeps ==
    ASSUME QueueInv, QueueStep
    PROVE  QueueInv'
<1>1. ASSUME NEW m \in Messages, Enqueue(m) PROVE QueueInv'
  <2>1. dlq' = dlq /\ dlq \in Seq(Messages)
    BY <1>1 DEF Enqueue, QueueInv
  <2>2. QED
    BY <1>1, <2>1, ArrivalKeeps DEF Enqueue
<1>2. ASSUME NEW m \in Messages, RequeueFromDlq(m) PROVE QueueInv'
  <2>1. PICK i \in DOMAIN dlq : dlq[i] = m /\ dlq' = RemoveAt(dlq, i)
    BY <1>2 DEF RequeueFromDlq
  <2>2. /\ RemoveAt(dlq, i) \in Seq(Messages)
        /\ \A k \in DOMAIN dlq : k # i =>
              \E j \in DOMAIN RemoveAt(dlq, i) : RemoveAt(dlq, i)[j] = dlq[k]
    BY RemovedAt DEF QueueInv
  <2>3. /\ dlq' \in Seq(Messages)
        /\ \A k \in DOMAIN dlq : dlq[k] # m => \E j \in DOMAIN dlq' : dlq'[j] = dlq[k]
    BY <2>1, <2>2
  <2>4. QED
    BY <1>2, <2>3, ArrivalKeeps DEF RequeueFromDlq
<1>3. ASSUME NEW m \in Messages, RetryTimeComes(m) PROVE QueueInv'
  BY <1>3 DEF RetryTimeComes, QueueInv, BatchesKnown, Kept, Listed, InHand
<1>4. QED
  BY <1>1, <1>2, <1>3 DEF QueueStep

LEMMA DequeueKeeps ==
    ASSUME QueueInv, NEW w \in Workers, Dequeue(w)
    PROVE  QueueInv'
<1>1. PICK S \in SUBSET (DOMAIN queue) : S = {i \in DOMAIN queue : Ready(queue[i])}
  OBVIOUS
<1>2. Cardinality(S) \in Nat
  <2>1. DOMAIN queue = 1 .. Len(queue) /\ Len(queue) \in Nat
    BY DEF QueueInv
  <2>2. IsFiniteSet(1 .. Len(queue))
    BY <2>1, FS_Interval
  <2>3. IsFiniteSet(S)
    BY <2>1, <2>2, FS_Subset
  <2>4. QED
    BY <2>3, FS_CardinalityType
<1>3. PICK n \in 0 .. Cardinality(S), at \in InOrder(S) :
         Continue(w, FromQueue(at, n)) /\ pc[w] = "idle"
  <2>1. PICK at \in InOrder(S) :
           Continue(w, FromQueue(at, IF Cardinality(S) < BatchSize THEN Cardinality(S) ELSE BatchSize))
    BY <1>1 DEF Dequeue
  <2>2. (IF Cardinality(S) < BatchSize THEN Cardinality(S) ELSE BatchSize) \in 0 .. Cardinality(S)
    BY <1>2, QueueAssumption
  <2>3. QED
    BY <2>1, <2>2 DEF Dequeue
<1>4. /\ FromQueue(at, n) \in Seq(Messages) /\ DOMAIN FromQueue(at, n) = 1 .. n
      /\ \A i \in 1 .. n : at[i] \in S /\ FromQueue(at, n)[i] = queue[at[i]]
  <2>1. queue \in Seq(Messages)
    BY DEF QueueInv
  <2>2. QED
    BY <2>1, Collected
<1>5. \A i \in DOMAIN FromQueue(at, n) : status[FromQueue(at, n)[i]] # "NEW"
  BY <1>1, <1>4 DEF Ready
<1>6. UNCHANGED <<queue, dlq, handled, orphaned>>
  BY DEF Dequeue
<1>7. pc[w] \notin {"before", "handling"}
  BY <1>3
<1>8. QED
  BY <1>3, <1>4, <1>5, <1>6, <1>7, ContinueKeeps

LEMMA WorkerStepKeeps ==
    ASSUME QueueInv, NEW w \in Workers, WorkerStep(w)
    PROVE  QueueInv'
<1>1. CASE Dequeue(w)
  BY <1>1, DequeueKeeps
<1>2. CASE BeforeHookReturns(w)
  BY <1>2, MovesKeep DEF BeforeHookReturns, messageVars
<1>3. CASE HookRaises(w)
  BY <1>3, AbandonKeeps DEF HookRaises
<1>4. CASE DlqHookReturns(w)
  BY <1>4, MovesKeep DEF DlqHookReturns, messageVars
<1>5. CASE DlqHookRaises(w)
  <2>1. pc[w] # "idle" /\ UNCHANGED <<batch, handled, orphaned>>
    BY <1>5 DEF DlqHookRaises
  <2>2. CASE Retry(InHand(w)) /\ At(w, "after")
    BY <2>1, <2>2, RetryKeeps
  <2>3. CASE MoveToDlq(InHand(w)) /\ At(w, "parkedAgain")
    BY <2>1, <2>3, MoveToDlqKeeps
  <2>4. QED
    BY <1>5, <2>2, <2>3 DEF DlqHookRaises
<1>6. CASE AfterHookReturns(w)
  <2>1. /\ pc[w] # "idle" /\ pc[w] \notin {"before", "handling"}
        /\ Continue(w, Tail(batch[w])) /\ UNCHANGED <<queue, dlq, handled, orphaned>>
    BY <1>6 DEF AfterHookReturns
  <2>2. QED
    BY <2>1, InHandKnown, ContinueKeeps
<1>7. QED
  BY <1>1, <1>2, <1>3, <1>4, <1>5, <1>6 DEF WorkerStep

LEMMA RelayQueueStep == QueueInv /\ [RelayNext]_relayVars => QueueInv'
<1> SUFFICES ASSUME QueueInv, [RelayNext]_relayVars PROVE QueueInv'
  OBVIOUS
<1>1. ASSUME UNCHANGED queueVars PROVE QueueInv'
  BY <1>1 DEF queueVars, messageVars, QueueInv, BatchesKnown, Kept, Listed, InHand
<1>2. CASE QueueActs
  BY <1>2, QueueStepKeeps DEF QueueActs
<1>3. ASSUME NEW w \in Workers, WorkerActs(w) PROVE QueueInv'
  BY <1>3, WorkerStepKeeps DEF WorkerActs
<1>4. ASSUME NEW w \in Workers, HandlerEnds(w) PROVE QueueInv'
  BY <1>4, HandlerSucceedsKeeps, HandlerFailsKeeps DEF HandlerEnds
<1>5. ASSUME NEW w \in Workers, WorkerIsStopped(w) PROVE QueueInv'
  BY <1>5, AbandonKeeps DEF WorkerIsStopped, StopWorker
<1>6. QED
  BY <1>1, <1>2, <1>3, <1>4, <1>5
     DEF RelayNext, relayVars, HandlerStarts, ProducerActs, BrokerActs

(* However many workers have a message in hand, and whatever hooks and     *)
(* handlers raise, it is found where an operator looks for it.             *)
THEOREM NothingForgotten == RelaySpec => []NotForgotten
BY QueueInitially, RelayQueueStep, QueueInvForgetsNothing, PTL DEF RelaySpec

(***************************************************************************)
(* The producer.                                                           *)
(***************************************************************************)

(* How far a task that never met another in the context got with what it   *)
(* sends: the transaction is its own until it has been committed.          *)
Backed(w) ==
    \/ payload[w] \in overlapped
    \/ /\ context[w] = "open" => kafka = "IN"
       /\ context[w] = "sent" => kafka = "IN" /\ payload[w] \in pending
       /\ context[w] = "committing" =>
             payload[w] \in committed \/ (kafka = "COMMITTING" /\ payload[w] \in pending)
       /\ context[w] = "success" => payload[w] \in committed

(* A history remembers those who do meet.                                  *)
Met == \A v, w \in Workers :
          v # w /\ context[v] \in K!Within /\ context[w] \in K!Within
             => payload[v] \in overlapped

(* A worker in the context is in its handler and sends what it has in hand. *)
InHandler == \A w \in Workers :
                context[w] # "out" => pc[w] = "handling" /\ payload[w] = InHand(w)

ProducerTypes ==
    /\ inTransaction \in BOOLEAN /\ cut \in BOOLEAN
    /\ context \in [Workers -> K!Contexts]
    /\ payload \in [Workers -> Messages \cup {NoMessage}]

ProducerInv ==
    /\ ProducerTypes /\ InHandler /\ Met
    /\ \A w \in Workers : Backed(w)
    /\ CompletedIsCommitted /\ K!FlagHasOwner

LEMMA ProducerInitially == RelayInit => ProducerInv
<1> SUFFICES ASSUME RelayInit PROVE ProducerInv
  OBVIOUS
<1>1. /\ inTransaction = FALSE /\ cut = FALSE /\ handled = {}
      /\ context = [w \in Workers |-> "out"] /\ payload = [w \in Workers |-> NoMessage]
  BY DEF RelayInit, QueueInit, K!ProducerInit
<1>2. ProducerTypes
  BY <1>1 DEF ProducerTypes, K!Contexts
<1>3. InHandler /\ Met /\ \A w \in Workers : Backed(w)
  BY <1>1 DEF InHandler, Met, Backed, K!Within
<1>4. CompletedIsCommitted /\ K!FlagHasOwner
  BY <1>1 DEF CompletedIsCommitted, K!FlagHasOwner
<1>5. QED
  BY <1>2, <1>3, <1>4 DEF ProducerInv

(* What a step of the context of w leaves alone.                           *)
LEMMA OnlyOneMoves ==
    ASSUME ProducerInv, NEW w \in Workers, NEW c \in K!Contexts, K!Moves(w, c)
    PROVE  /\ context' \in [Workers -> K!Contexts] /\ context'[w] = c
           /\ \A v \in Workers \ {w} : context'[v] = context[v]
BY DEF ProducerInv, ProducerTypes, K!Moves

(* A step of w within the context, from one place there to another or out  *)
(* of it, which keeps what w itself has reached.                           *)
LEMMA WithinKeeps ==
    ASSUME ProducerInv, NEW w \in Workers, context[w] \in K!Within,
           NEW c \in K!Contexts \ {"out"}, K!Moves(w, c),
           inTransaction' \in BOOLEAN, UNCHANGED <<payload, overlapped, cut, queueVars>>,
           pending \subseteq pending', committed' = committed,
           Backed(w)', K!FlagHasOwner'
    PROVE  ProducerInv'
<1>1. /\ ProducerTypes /\ InHandler /\ Met /\ CompletedIsCommitted
      /\ \A v \in Workers : Backed(v)
  BY DEF ProducerInv
<1>2. /\ context' \in [Workers -> K!Contexts] /\ context'[w] = c
      /\ \A v \in Workers \ {w} : context'[v] = context[v]
  BY OnlyOneMoves
<1>3. UNCHANGED <<pc, batch, handled>>
  BY DEF queueVars
<1>4. ProducerTypes'
  <2>1. cut' \in BOOLEAN /\ payload' \in [Workers -> Messages \cup {NoMessage}]
    BY <1>1 DEF ProducerTypes
  <2>2. QED
    BY <1>2, <2>1, Zenon DEF ProducerTypes
<1>5. InHandler'
  <2>1. context[w] # "out"
    BY DEF K!Within
  <2>2. QED
    BY <1>1, <1>2, <1>3, <2>1 DEF InHandler, InHand
<1>6. Met'
  BY <1>1, <1>2 DEF Met
<1>7. ASSUME NEW v \in Workers PROVE Backed(v)'
  <2>1. CASE v = w
    BY <2>1
  <2>2. CASE v # w /\ context[v] \in K!Within
    <3>1. payload[v] \in overlapped
      BY <1>1, <2>2 DEF Met
    <3>2. QED
      BY <3>1 DEF Backed
  <2>3. CASE v # w /\ context[v] \notin K!Within
    BY <1>1, <1>2, <2>3 DEF Backed, K!Within
  <2>4. QED
    BY <2>1, <2>2, <2>3
<1>8. CompletedIsCommitted'
  BY <1>1, <1>3 DEF CompletedIsCommitted
<1>9. QED
  BY <1>4, <1>5, <1>6, <1>7, <1>8 DEF ProducerInv

(* Whoever is in the context owns the flag while it stays there.           *)
LEMMA OwnerStays ==
    ASSUME ProducerInv, NEW w \in Workers,
           NEW c \in K!Within \ {"beginning"}, K!Moves(w, c), cut' = cut
    PROVE  K!FlagHasOwner'
<1>1. context'[w] = c /\ c \in K!Within \ {"beginning"}
  BY OnlyOneMoves DEF K!Contexts, K!Within
<1>2. \E t \in Workers : context'[t] \in K!Within \ {"beginning"}
  BY <1>1
<1>3. QED
  BY <1>2 DEF K!FlagHasOwner, K!Within

LEMMA FailIntoKeeps ==
    ASSUME ProducerInv, NEW w \in Workers, context[w] \in K!Within, K!FailInto(w),
           UNCHANGED <<payload, overlapped, cut, queueVars, pending, committed>>
    PROVE  ProducerInv'
<1>1. CASE kafka = "IN"
  <2>1. kafka' = "ABORTING" /\ K!Moves(w, "aborting") /\ inTransaction' = inTransaction
    BY <1>1 DEF K!FailInto
  <2>2. "aborting" \in K!Contexts \ {"out"} /\ "aborting" \in K!Within \ {"beginning"}
    BY DEF K!Contexts, K!Within
  <2>3. Backed(w)'
    BY <2>1, <2>2, OnlyOneMoves DEF Backed
  <2>4. inTransaction' \in BOOLEAN
    BY <2>1 DEF ProducerInv, ProducerTypes
  <2>5. K!FlagHasOwner'
    BY <2>1, <2>2, OwnerStays
  <2>6. QED
    BY <2>1, <2>2, <2>3, <2>4, <2>5, WithinKeeps
<1>2. CASE kafka # "IN"
  <2>1. inTransaction' = FALSE /\ K!Moves(w, "failure")
    BY <1>2 DEF K!FailInto
  <2>2. "failure" \in K!Contexts \ {"out"}
    BY DEF K!Contexts
  <2>3. Backed(w)'
    BY <2>1, <2>2, OnlyOneMoves DEF Backed
  <2>4. K!FlagHasOwner'
    BY <2>1 DEF K!FlagHasOwner
  <2>5. QED
    BY <2>1, <2>2, <2>3, <2>4, WithinKeeps
<1>3. QED
  BY <1>1, <1>2

LEMMA TransactionStepKeeps ==
    ASSUME ProducerInv, NEW w \in Workers, K!TransactionStep(w), UNCHANGED queueVars
    PROVE  ProducerInv'
<1>1. /\ {"beginning", "open", "sent", "committing", "aborting"} \subseteq K!Within
      /\ {"open", "sent", "committing"} \subseteq K!Within \ {"beginning"}
      /\ {"open", "sent", "committing", "success", "failure"} \subseteq K!Contexts \ {"out"}
  BY DEF K!Contexts, K!Within
<1>2. Backed(w) /\ inTransaction \in BOOLEAN
  BY DEF ProducerInv, ProducerTypes
<1>3. ASSUME K!FailInto(w), context[w] \in K!Within,
             UNCHANGED <<payload, overlapped, cut, pending, committed>>
      PROVE  ProducerInv'
  BY <1>3, FailIntoKeeps
<1>4. ASSUME inTransaction' = FALSE, NEW c \in {"success", "failure"}, K!Moves(w, c),
             context[w] \in {"committing", "aborting"}, kafka' = kafka,
             UNCHANGED <<payload, overlapped, cut, pending, committed>>,
             c = "success" => context[w] = "committing" /\ kafka # "COMMITTING"
      PROVE  ProducerInv'
  <2>1. context'[w] = c
    BY <1>1, <1>4, OnlyOneMoves
  <2>2. Backed(w)'
    BY <1>2, <1>4, <2>1 DEF Backed
  <2>3. K!FlagHasOwner' /\ inTransaction' \in BOOLEAN
    BY <1>4 DEF K!FlagHasOwner
  <2>4. context[w] \in K!Within /\ c \in K!Contexts \ {"out"}
    BY <1>1, <1>4
  <2>5. QED
    BY <1>4, <2>2, <2>3, <2>4, WithinKeeps
<1>5. CASE K!Begin(w)
  <2>1. context[w] \in K!Within /\ UNCHANGED <<pending, committed, payload, overlapped, cut>>
    BY <1>1, <1>5 DEF K!Begin
  <2>2. CASE kafka = "READY"
    <3>1. kafka' = "IN" /\ inTransaction' = TRUE /\ K!Moves(w, "open")
      BY <1>5, <2>2 DEF K!Begin
    <3>2. Backed(w)'
      BY <1>1, <3>1, OnlyOneMoves DEF Backed
    <3>3. K!FlagHasOwner'
      BY <1>1, <2>1, <3>1, OwnerStays
    <3>4. QED
      BY <1>1, <2>1, <3>1, <3>2, <3>3, WithinKeeps
  <2>3. CASE kafka # "READY"
    BY <1>3, <1>5, <2>1, <2>3 DEF K!Begin
  <2>4. QED
    BY <2>2, <2>3
<1>6. CASE K!Send(w)
  <2>1. /\ context[w] \in K!Within
        /\ UNCHANGED <<committed, payload, overlapped, cut>>
    BY <1>1, <1>6 DEF K!Send
  <2>2. CASE inTransaction /\ kafka = "IN"
    <3>1. /\ pending' = pending \cup {payload[w]} /\ K!Moves(w, "sent")
          /\ kafka' = kafka /\ inTransaction' = inTransaction
      BY <1>6, <2>2 DEF K!Send
    <3>2. Backed(w)'
      <4>1. context'[w] = "sent" /\ payload'[w] \in pending' /\ kafka' = "IN"
        BY <1>1, <2>1, <2>2, <3>1, OnlyOneMoves
      <4>2. QED
        BY <4>1 DEF Backed
    <3>3. K!FlagHasOwner' /\ inTransaction' \in BOOLEAN
      BY <1>1, <1>2, <2>1, <3>1, OwnerStays
    <3>4. QED
      BY <1>1, <2>1, <3>1, <3>2, <3>3, WithinKeeps
  <2>3. CASE ~(inTransaction /\ kafka = "IN")
    BY <1>3, <1>6, <2>1, <2>3 DEF K!Send
  <2>4. QED
    BY <2>2, <2>3
<1>7. CASE K!SendFails(w)
  BY <1>1, <1>3, <1>7 DEF K!SendFails
<1>8. CASE K!Commit(w)
  <2>1. /\ context[w] \in K!Within /\ context[w] = "sent"
        /\ UNCHANGED <<pending, committed, payload, overlapped, cut>>
    BY <1>1, <1>8 DEF K!Commit
  <2>2. CASE inTransaction /\ kafka = "IN"
    <3>1. kafka' = "COMMITTING" /\ K!Moves(w, "committing") /\ inTransaction' = inTransaction
      BY <1>8, <2>2 DEF K!Commit
    <3>2. Backed(w)'
      <4>1. context'[w] = "committing"
        BY <1>1, <3>1, OnlyOneMoves
      <4>2. QED
        BY <1>2, <2>1, <3>1, <4>1 DEF Backed
    <3>3. K!FlagHasOwner' /\ inTransaction' \in BOOLEAN
      BY <1>1, <1>2, <2>1, <3>1, OwnerStays
    <3>4. QED
      BY <1>1, <2>1, <3>1, <3>2, <3>3, WithinKeeps
  <2>3. CASE ~(inTransaction /\ kafka = "IN")
    BY <1>3, <1>8, <2>1, <2>3 DEF K!Commit
  <2>4. QED
    BY <2>2, <2>3
<1>9. CASE K!CommitReturns(w)
  BY <1>4, <1>9 DEF K!CommitReturns
<1>10. CASE K!AbortReturns(w)
  BY <1>4, <1>10 DEF K!AbortReturns
<1>11. CASE K!CommitFails(w)
  <2>1. /\ context[w] \in K!Within /\ inTransaction' = FALSE
        /\ K!Moves(w, "aborting")
        /\ UNCHANGED <<pending, committed, payload, overlapped, cut>>
    BY <1>1, <1>11 DEF K!CommitFails
  <2>2. "aborting" \in K!Contexts \ {"out"}
    BY DEF K!Contexts
  <2>3. Backed(w)'
    BY <2>1, <2>2, OnlyOneMoves DEF Backed
  <2>4. K!FlagHasOwner' /\ inTransaction' \in BOOLEAN
    BY <2>1 DEF K!FlagHasOwner
  <2>5. QED
    BY <2>1, <2>2, <2>3, <2>4, WithinKeeps
<1>12. QED
  BY <1>5, <1>6, <1>7, <1>8, <1>9, <1>10, <1>11 DEF K!TransactionStep

(* A handler that enters the context, and those it meets there.            *)
LEMMA HandlerStartsKeeps ==
    ASSUME ProducerInv, QueueInv, NEW w \in Workers, HandlerStarts(w)
    PROVE  ProducerInv'
<1>1. /\ ProducerTypes /\ InHandler /\ Met /\ CompletedIsCommitted /\ K!FlagHasOwner
      /\ \A v \in Workers : Backed(v)
  BY DEF ProducerInv
<1>2. /\ pc[w] = "handling" /\ context[w] = "out" /\ UNCHANGED queueVars
      /\ payload' = [payload EXCEPT ![w] = InHand(w)]
      /\ UNCHANGED <<inTransaction, kafka, pending, committed, cut>>
  BY DEF HandlerStarts, K!EnterContext
<1>3. UNCHANGED <<pc, batch, handled>>
  BY <1>2 DEF queueVars
<1>4. InHand(w) \in Messages
  BY <1>2, InHandKnown
<1>5. /\ payload' \in [Workers -> Messages \cup {NoMessage}] /\ payload'[w] = InHand(w)
      /\ \A v \in Workers \ {w} : payload'[v] = payload[v]
  BY <1>1, <1>2, <1>4 DEF ProducerTypes
<1>6. PICK c \in {"beginning", "failure"} :
         /\ K!Moves(w, c) /\ overlapped \subseteq overlapped'
         /\ c = "beginning" =>
               \A u \in Workers : context[u] \in K!Within =>
                  payload[u] \in overlapped' /\ InHand(w) \in overlapped'
  <2>1. CASE inTransaction
    BY <2>1 DEF HandlerStarts, K!EnterContext
  <2>2. CASE ~inTransaction
    <3>1. PICK others \in SUBSET Workers : others = {u \in Workers : context[u] \in K!Within}
      OBVIOUS
    <3>2. /\ K!Moves(w, "beginning")
          /\ overlapped' = IF others = {} THEN overlapped
                           ELSE overlapped \cup {InHand(w)} \cup {payload[u] : u \in others}
      BY <2>2, <3>1 DEF HandlerStarts, K!EnterContext
    <3>3. QED
      BY <3>1, <3>2
  <2>3. QED
    BY <2>1, <2>2
<1>7. /\ context' \in [Workers -> K!Contexts] /\ context'[w] = c
      /\ \A v \in Workers \ {w} : context'[v] = context[v]
  BY <1>6, OnlyOneMoves DEF K!Contexts
<1>8. ProducerTypes'
  <2>1. inTransaction' \in BOOLEAN /\ cut' \in BOOLEAN
    BY <1>1, <1>2 DEF ProducerTypes
  <2>2. QED
    BY <1>5, <1>7, <2>1, Zenon DEF ProducerTypes
<1>9. InHandler'
  BY <1>1, <1>2, <1>3, <1>5, <1>7 DEF InHandler, InHand
<1>10. Met'
  BY <1>1, <1>5, <1>6, <1>7 DEF Met, K!Within
<1>11. ASSUME NEW v \in Workers PROVE Backed(v)'
  <2>1. CASE v = w
    BY <1>6, <1>7, <2>1 DEF Backed
  <2>2. CASE v # w
    BY <1>1, <1>2, <1>5, <1>6, <1>7, <2>2 DEF Backed
  <2>3. QED
    BY <2>1, <2>2
<1>12. CompletedIsCommitted'
  BY <1>1, <1>2, <1>3, <1>6 DEF CompletedIsCommitted
<1>13. K!FlagHasOwner'
  BY <1>1, <1>2, <1>7 DEF K!FlagHasOwner, K!Within
<1>14. QED
  BY <1>8, <1>9, <1>10, <1>11, <1>12, <1>13 DEF ProducerInv

(* A worker that is outside afterwards: no claim is made for it.           *)
LEMMA OutsideKeeps ==
    ASSUME ProducerInv, NEW w \in Workers, K!Moves(w, "out"),
           inTransaction' \in BOOLEAN, cut' \in BOOLEAN,
           UNCHANGED <<kafka, pending, committed, payload, overlapped>>,
           \A v \in Workers \ {w} : pc'[v] = pc[v] /\ batch'[v] = batch[v],
           CompletedIsCommitted', K!FlagHasOwner'
    PROVE  ProducerInv'
<1>1. /\ ProducerTypes /\ InHandler /\ Met /\ \A v \in Workers : Backed(v)
  BY DEF ProducerInv
<1>2. /\ context' \in [Workers -> K!Contexts] /\ context'[w] = "out"
      /\ \A v \in Workers \ {w} : context'[v] = context[v]
  BY OnlyOneMoves DEF K!Contexts
<1>3. ProducerTypes'
  <2>1. payload' \in [Workers -> Messages \cup {NoMessage}]
    BY <1>1 DEF ProducerTypes
  <2>2. QED
    BY <1>2, <2>1, Zenon DEF ProducerTypes
<1>4. InHandler'
  BY <1>1, <1>2 DEF InHandler, InHand
<1>5. Met'
  BY <1>1, <1>2 DEF Met, K!Within
<1>6. ASSUME NEW v \in Workers PROVE Backed(v)'
  BY <1>1, <1>2 DEF Backed
<1>7. QED
  BY <1>3, <1>4, <1>5, <1>6 DEF ProducerInv

LEMMA HandlerEndsKeeps ==
    ASSUME ProducerInv, QueueInv, NEW w \in Workers, HandlerEnds(w)
    PROVE  ProducerInv'
<1>1. /\ context[w] \in {"success", "failure"} /\ K!Moves(w, "out")
      /\ UNCHANGED <<inTransaction, kafka, pending, committed, payload, overlapped, cut>>
  BY DEF HandlerEnds, K!LeaveContext
<1>2. PICK p : At(w, p) /\ batch' = batch
  BY DEF HandlerEnds, HandlerSucceeds, HandlerFails
<1>3. \A v \in Workers \ {w} : pc'[v] = pc[v] /\ batch'[v] = batch[v]
  BY <1>2 DEF At, QueueInv
<1>4. CompletedIsCommitted'
  <2>1. CompletedIsCommitted /\ Backed(w) /\ payload[w] = InHand(w)
    BY <1>1 DEF ProducerInv, InHandler
  <2>2. CASE context[w] = "success" /\ HandlerSucceeds(w)
    <3>1. InHand(w) \in committed \cup overlapped
      BY <2>1, <2>2 DEF Backed
    <3>2. handled' = handled \cup {InHand(w)}
      BY <2>2 DEF HandlerSucceeds
    <3>3. QED
      BY <1>1, <2>1, <3>1, <3>2 DEF CompletedIsCommitted
  <2>3. CASE handled' = handled
    BY <1>1, <2>1, <2>3 DEF CompletedIsCommitted
  <2>4. QED
    BY <2>2, <2>3 DEF HandlerEnds, HandlerFails
<1>5. K!FlagHasOwner'
  BY <1>1, OnlyOneMoves DEF ProducerInv, K!FlagHasOwner, K!Within, K!Contexts
<1>6. inTransaction' \in BOOLEAN /\ cut' \in BOOLEAN
  BY <1>1 DEF ProducerInv, ProducerTypes
<1>7. QED
  BY <1>1, <1>3, <1>4, <1>5, <1>6, OutsideKeeps

(* A worker outside the context changes nothing the producer looks at.     *)
LEMMA OutsideActs ==
    ASSUME ProducerInv, NEW w \in Workers, context[w] = "out", UNCHANGED <<txVars, handled>>,
           \A v \in Workers \ {w} : pc'[v] = pc[v] /\ batch'[v] = batch[v]
    PROVE  ProducerInv'
<1>1. UNCHANGED <<inTransaction, kafka, pending, committed, context, payload, overlapped, cut>>
  BY DEF txVars
<1>2. InHandler'
  BY <1>1 DEF ProducerInv, InHandler, InHand
<1>3. ProducerTypes' /\ Met' /\ (\A v \in Workers : Backed(v))'
  BY <1>1 DEF ProducerInv, ProducerTypes, Met, Backed
<1>4. CompletedIsCommitted' /\ K!FlagHasOwner'
  BY <1>1 DEF ProducerInv, CompletedIsCommitted, K!FlagHasOwner
<1>5. QED
  BY <1>2, <1>3, <1>4 DEF ProducerInv

LEMMA WorkerActsKeeps ==
    ASSUME ProducerInv, QueueInv, NEW w \in Workers, WorkerActs(w)
    PROVE  ProducerInv'
<1>1. pc \in [Workers -> {"idle", "before", "handling", "parked", "parkedAgain", "after"}]
      /\ batch \in [Workers -> Seq(Messages)]
  BY DEF QueueInv
<1>2. pc[w] # "handling" /\ handled' = handled
  BY DEF WorkerActs, WorkerStep, Dequeue, BeforeHookReturns, HookRaises, Abandon,
         DlqHookReturns, DlqHookRaises, AfterHookReturns
<1>3. \A v \in Workers \ {w} : pc'[v] = pc[v] /\ batch'[v] = batch[v]
  <2>1. ASSUME NEW b, Continue(w, b)
        PROVE  \A v \in Workers \ {w} : pc'[v] = pc[v] /\ batch'[v] = batch[v]
    BY <1>1, <2>1 DEF Continue, At
  <2>2. CASE Dequeue(w)
    BY <2>1, <2>2 DEF Dequeue
  <2>3. CASE AfterHookReturns(w)
    BY <2>1, <2>3 DEF AfterHookReturns
  <2>4. CASE BeforeHookReturns(w) \/ HookRaises(w) \/ DlqHookReturns(w) \/ DlqHookRaises(w)
    BY <1>1, <2>4 DEF BeforeHookReturns, HookRaises, Abandon, DlqHookReturns, DlqHookRaises, At
  <2>5. QED
    BY <2>2, <2>3, <2>4 DEF WorkerActs, WorkerStep
<1>4. context[w] = "out"
  BY <1>2 DEF ProducerInv, InHandler
<1>5. QED
  BY <1>2, <1>3, <1>4, OutsideActs DEF WorkerActs

(* A cancelled task no longer owns the flag, which cut excuses.            *)
LEMMA StopKeeps ==
    ASSUME ProducerInv, QueueInv, NEW w \in Workers, WorkerIsStopped(w)
    PROVE  ProducerInv'
<1>1. /\ At(w, "idle") /\ batch' = [batch EXCEPT ![w] = <<>>] /\ handled' = handled
  BY DEF WorkerIsStopped, StopWorker, Abandon
<1>2. \A v \in Workers \ {w} : pc'[v] = pc[v] /\ batch'[v] = batch[v]
  BY <1>1 DEF At, QueueInv
<1>3. CASE context[w] = "out" /\ UNCHANGED txVars
  BY <1>1, <1>2, <1>3, OutsideActs
<1>4. CASE K!CancelContext(w)
  <2>1. /\ K!Moves(w, "out") /\ cut' = TRUE
        /\ UNCHANGED <<kafka, pending, committed, payload, overlapped>>
    BY <1>4 DEF K!CancelContext
  <2>2. inTransaction' \in BOOLEAN
    BY <1>4 DEF K!CancelContext
  <2>3. CompletedIsCommitted'
    BY <1>1, <2>1 DEF ProducerInv, CompletedIsCommitted
  <2>4. K!FlagHasOwner'
    BY <2>1 DEF K!FlagHasOwner
  <2>5. QED
    BY <1>2, <2>1, <2>2, <2>3, <2>4, OutsideKeeps
<1>5. QED
  BY <1>3, <1>4 DEF WorkerIsStopped

(* The broker ends a transaction: what was pending under COMMITTING is     *)
(* committed, and under ABORTING none of it was of a task that is alone.   *)
LEMMA BrokerKeeps ==
    ASSUME ProducerInv, BrokerActs
    PROVE  ProducerInv'
<1>1. /\ UNCHANGED <<inTransaction, context, payload, overlapped, cut, pc, batch, handled>>
      /\ kafka \in {"COMMITTING", "ABORTING"} /\ committed \subseteq committed'
      /\ kafka = "COMMITTING" => committed' = committed \cup pending
  BY DEF BrokerActs, K!KafkaEnds, queueVars
<1>2. ASSUME NEW v \in Workers PROVE Backed(v)'
  BY <1>1 DEF ProducerInv, Backed
<1>3. ProducerTypes' /\ InHandler' /\ Met'
  BY <1>1 DEF ProducerInv, ProducerTypes, InHandler, Met, InHand
<1>4. CompletedIsCommitted' /\ K!FlagHasOwner'
  BY <1>1 DEF ProducerInv, CompletedIsCommitted, K!FlagHasOwner
<1>5. QED
  BY <1>2, <1>3, <1>4 DEF ProducerInv

LEMMA RelayProducerStep ==
    QueueInv /\ ProducerInv /\ [RelayNext]_relayVars => ProducerInv'
<1> SUFFICES ASSUME QueueInv, ProducerInv, [RelayNext]_relayVars PROVE ProducerInv'
  OBVIOUS
<1>1. ASSUME UNCHANGED txVars, UNCHANGED <<pc, batch, handled>> PROVE ProducerInv'
  BY <1>1 DEF txVars, ProducerInv, ProducerTypes, InHandler, InHand, Met, Backed,
              CompletedIsCommitted, K!FlagHasOwner
<1>2. CASE QueueActs \/ UNCHANGED relayVars
  BY <1>1, <1>2 DEF QueueActs, QueueStep, Enqueue, RequeueFromDlq, RetryTimeComes,
                    relayVars, queueVars
<1>3. ASSUME NEW w \in Workers,
             \/ WorkerActs(w) \/ HandlerStarts(w) \/ ProducerActs(w)
             \/ HandlerEnds(w) \/ WorkerIsStopped(w)
      PROVE  ProducerInv'
  BY <1>3, WorkerActsKeeps, HandlerStartsKeeps, TransactionStepKeeps, HandlerEndsKeeps,
     StopKeeps DEF ProducerActs
<1>4. CASE BrokerActs
  BY <1>4, BrokerKeeps
<1>5. QED
  BY <1>2, <1>3, <1>4 DEF RelayNext

(* What a handler reports as done is in a committed transaction, or it was *)
(* sent while two tasks shared the producer's one transaction; and the     *)
(* flag is not left set, unless a task was cancelled in the context.       *)
THEOREM RelayedIsCommitted == RelaySpec => []TransactionsAreSound
<1>1. ProducerInv => TransactionsAreSound
  BY DEF ProducerInv, TransactionsAreSound
<1>2. QED
  BY <1>1, QueueInitially, RelayQueueStep, ProducerInitially, RelayProducerStep, PTL
     DEF RelaySpec
=============================================================================
