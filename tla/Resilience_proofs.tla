-------------------------- MODULE Resilience_proofs --------------------------
(***************************************************************************)
(* The safety properties of the circuit breaker, for any number of calls,  *)
(* any thresholds that meet ConfigAssumption and any number of             *)
(* cancellations; that a breaker around retry, time limit and bulkhead     *)
(* implements it and inherits its theorems; and the bulkhead's own.        *)
(***************************************************************************)
EXTENDS Resilience, FiniteSetTheorems, SequenceTheorems, TLAPS

(***************************************************************************)
(* The breaker.                                                            *)
(***************************************************************************)

(* Every permit of a HALF_OPEN period is in use, lost or has recorded its  *)
(* outcome: what ProbesBounded says of the limit holds of the permits that *)
(* were taken, too, and only that is inductive.                            *)
PermitsTaken ==
    state = "HALF_OPEN" => Cardinality(probes) + lost <= halfOpenCalls

Inv == TypeOK /\ CountersMatchState /\ PermitsTaken

(* Adding a call to the probes, or taking it away, moves their number by   *)
(* at most one: the cardinalities every step of the proof needs.           *)
LEMMA ProbeCount ==
    ASSUME TypeOK, NEW c \in Calls
    PROVE  /\ Cardinality(probes) \in Nat
           /\ Cardinality(probes \cup {c}) \in Nat
           /\ Cardinality(probes \cup {c}) <= Cardinality(probes) + 1
           /\ Cardinality(probes \ {c}) \in Nat
           /\ Cardinality(probes \ {c}) <= Cardinality(probes)
           /\ c \in probes => Cardinality(probes \ {c}) = Cardinality(probes) - 1
<1>1. IsFiniteSet(probes)
  BY ConfigAssumption, FS_Subset DEF TypeOK
<1>2. Cardinality(probes) \in Nat
  BY <1>1, FS_CardinalityType
<1>3. /\ IsFiniteSet(probes \cup {c})
      /\ \/ Cardinality(probes \cup {c}) = Cardinality(probes)
         \/ Cardinality(probes \cup {c}) = Cardinality(probes) + 1
  BY <1>1, FS_AddElement
<1>4. /\ IsFiniteSet(probes \ {c})
      /\ \/ Cardinality(probes \ {c}) = Cardinality(probes) /\ c \notin probes
         \/ Cardinality(probes \ {c}) = Cardinality(probes) - 1
  BY <1>1, FS_RemoveElement
<1>5. c \in probes => Cardinality(probes \ {c}) = Cardinality(probes) - 1
  BY <1>1, FS_RemoveElement
<1>6. Cardinality(probes \ {c}) \in Nat
  BY <1>4, FS_CardinalityType
<1> QED
  BY <1>2, <1>3, <1>4, <1>5, <1>6

(* The initial state is closed and counts nothing.                         *)
LEMMA InitInv == Init => Inv
<1> SUFFICES ASSUME Init PROVE Inv
  OBVIOUS
<1>1. TypeOK
  <2>1. elapsed \in BOOLEAN
    BY Zenon DEF Init
  <2>2. QED
    BY <2>1, ConfigAssumption DEF Init, TypeOK
<1>2. CountersMatchState /\ PermitsTaken
  BY ConfigAssumption DEF Init, CountersMatchState, PermitsTaken
<1>3. QED
  BY <1>1, <1>2 DEF Inv

(* An admitted call: it enters as an ordinary call, as the first probe of  *)
(* a new period, or as one more probe under a permit.                      *)
LEMMA AdmitStep ==
    ASSUME Inv, NEW c \in Calls, Admit(c)
    PROVE  Inv'
<1> USE ConfigAssumption DEF Inv, TypeOK, CountersMatchState, PermitsTaken, counters
<1>1. CASE AdmitClosed(c)
  BY <1>1 DEF AdmitClosed
<1>2. CASE AdmitFirstProbe(c)
  <2>1. Cardinality({c}) = 1
    BY FS_Singleton
  <2>2. QED
    BY <1>2, <2>1 DEF AdmitFirstProbe, TimeoutOver
<1>3. CASE AdmitProbe(c)
  BY <1>3, ProbeCount DEF AdmitProbe
<1>4. QED
  BY <1>1, <1>2, <1>3 DEF Admit

(* A returning call records its outcome in whatever period the breaker is  *)
(* by then; the permits only become fewer.                                 *)
LEMMA ReturnStep ==
    ASSUME Inv, NEW c \in Calls, Return(c)
    PROVE  Inv'
<1>1. Inv /\ TypeOK /\ c \in inCall
  BY DEF Inv, Return, Succeeds, Fails
<1>2. CASE Succeeds(c)
  <2>1. TypeOK'
    BY <1>1, <1>2, ConfigAssumption DEF TypeOK, CountersMatchState, Inv, Succeeds, RecordSuccess, Leave
  <2>2. CountersMatchState'
    BY <1>1, <1>2, ConfigAssumption DEF TypeOK, CountersMatchState, Inv, Succeeds, RecordSuccess
  <2>3. PermitsTaken'
    <3>1. state' = "HALF_OPEN" => state = "HALF_OPEN"
      BY <1>2 DEF Succeeds, RecordSuccess
    <3>2. /\ probes' = probes \ {c}
          /\ lost' = lost /\ halfOpenCalls' = halfOpenCalls
      BY <1>2 DEF Succeeds, Leave
    <3>3. QED
      BY <1>1, <3>1, <3>2, ProbeCount, ConfigAssumption DEF PermitsTaken, Inv, TypeOK
  <2>4. QED
    BY <2>1, <2>2, <2>3 DEF Inv
<1>3. CASE Fails(c)
  <2>1. TypeOK'
    <3>1. elapsed' \in BOOLEAN
      BY <1>3, Zenon DEF Fails, RecordFailure
    <3>2. QED
      BY <1>1, <1>3, <3>1, ConfigAssumption
      DEF TypeOK, Fails, RecordFailure, OneMoreFailure, Leave
  <2>2. CountersMatchState' /\ PermitsTaken'
    BY <1>1, <1>3, ConfigAssumption
    DEF TypeOK, Inv, CountersMatchState, PermitsTaken, Fails, RecordFailure, OneMoreFailure
  <2>3. QED
    BY <2>1, <2>2 DEF Inv
<1>4. QED
  BY <1>2, <1>3 DEF Return

(* A cancelled probe turns from one in use into a lost one.                *)
LEMMA CancelStep ==
    ASSUME Inv, NEW c \in Calls, Cancel(c)
    PROVE  Inv'
<1> USE ConfigAssumption DEF Inv, TypeOK, CountersMatchState, PermitsTaken, counters
<1>1. CASE c \in probes
  BY <1>1, ProbeCount DEF Cancel, Leave
<1>2. CASE c \notin probes
  BY <1>2, ProbeCount DEF Cancel, Leave
<1>3. QED
  BY <1>1, <1>2

(* Reading the state may begin a period, without any permit taken.         *)
LEMMA ReadStep ==
    ASSUME Inv, ReadState
    PROVE  Inv'
<1>1. Cardinality({}) = 0
  BY FS_EmptySet
<1>2. QED
  BY <1>1, ConfigAssumption
  DEF Inv, TypeOK, CountersMatchState, PermitsTaken, ReadState, TimeoutOver

(* No step leaves the invariant.                                           *)
LEMMA NextInv == Inv /\ [Next]_vars => Inv'
<1> SUFFICES ASSUME Inv, [Next]_vars PROVE Inv'
  OBVIOUS
<1>1. ASSUME NEW c \in Calls, Admit(c) PROVE Inv'
  BY <1>1, AdmitStep
<1>2. ASSUME NEW c \in Calls, Return(c) PROVE Inv'
  BY <1>2, ReturnStep
<1>3. ASSUME NEW c \in Calls, Cancel(c) PROVE Inv'
  BY <1>3, CancelStep
<1>4. CASE ReadState
  BY <1>4, ReadStep
<1>5. CASE TimeoutPasses
  BY <1>5 DEF TimeoutPasses, Inv, TypeOK, CountersMatchState, PermitsTaken, counters
<1>6. CASE UNCHANGED vars
  BY <1>6 DEF vars, Inv, TypeOK, CountersMatchState, PermitsTaken, counters
<1>7. QED
  BY <1>1, <1>2, <1>3, <1>4, <1>5, <1>6 DEF Next

(* The strengthened invariant holds in every reachable state.              *)
THEOREM BreakerInvariance == Spec => []Inv
BY InitInv, NextInv, PTL DEF Spec

(* The breaker's variables have their types; the counters stay within the  *)
(* thresholds.                                                             *)
THEOREM BreakerTypes == Spec => []TypeOK
<1>1. Inv => TypeOK
  BY DEF Inv
<1>2. QED
  BY <1>1, BreakerInvariance, PTL

(* A closed breaker has fewer failures than its threshold, a half-open one *)
(* fewer successes, for any interleaving of late outcomes.                 *)
THEOREM LetsThroughOnEvidence == Spec => []CountersMatchState
<1>1. Inv => CountersMatchState
  BY DEF Inv
<1>2. QED
  BY <1>1, BreakerInvariance, PTL

(* A recovering service never has more than half_open_max_calls probes of  *)
(* one period, the lost ones included.                                     *)
THEOREM ProbeLimit == Spec => []ProbesBounded
<1>1. Inv => ProbesBounded
  <2> SUFFICES ASSUME Inv, state = "HALF_OPEN"
               PROVE  Cardinality(probes) + lost <= HalfOpenMaxCalls
    BY DEF ProbesBounded
  <2>1. Cardinality(probes) \in Nat
    BY ConfigAssumption, FS_Subset, FS_CardinalityType DEF Inv, TypeOK
  <2>2. QED
    BY <2>1, ConfigAssumption DEF Inv, TypeOK, PermitsTaken
<1>2. QED
  BY <1>1, BreakerInvariance, PTL

(***************************************************************************)
(* The layers.  However many a call passes below the breaker, the breaker  *)
(* sees calls that come, end and are cancelled.                            *)
(***************************************************************************)

(* Initially nothing is different.                                         *)
LEMMA LayersInit == ResilienceInit => Init
BY DEF ResilienceInit

(* What a layered call does is a call's admission, its success or its      *)
(* cancellation, whatever the layers made of its outcome, or no step of    *)
(* the breaker at all.                                                     *)
LEMMA LayeredStepMaps ==
    ASSUME NEW c \in Layered, LayeredStep(c)
    PROVE  Next \/ UNCHANGED vars
<1> c \in Calls
  BY LayersAssumption
<1>1. CASE BeginLayered(c)
  BY <1>1 DEF BeginLayered, Next
<1>2. CASE PermitArrives(c) \/ BackoffEnds(c)
  BY <1>2 DEF PermitArrives, BackoffEnds
<1>3. CASE WaitTimesOut(c) \/ FuncEnds(c) \/ TimeLimit(c)
  <2>1. AttemptRaises(c) \/ \E good \in BOOLEAN : StackReturns(c, good)
    BY <1>3 DEF WaitTimesOut, FuncEnds, FuncReturns, FuncRaises, TimeLimit
  <2>2. Succeeds(c) \/ UNCHANGED vars
    BY <2>1 DEF AttemptRaises, StackReturns
  <2>3. QED
    BY <2>2 DEF Return, Next
<1>4. CASE CancelLayered(c)
  BY <1>4 DEF CancelLayered, Next
<1>5. QED
  BY <1>1, <1>2, <1>3, <1>4 DEF LayeredStep

(* Every step of the layered system is a step of the breaker or leaves it  *)
(* alone.                                                                  *)
LEMMA LayersStep == [ResilienceNext]_resilienceVars => [Next]_vars
<1> SUFFICES ASSUME [ResilienceNext]_resilienceVars PROVE Next \/ UNCHANGED vars
  OBVIOUS
<1>1. ASSUME NEW c \in Layered, LayeredStep(c) PROVE Next \/ UNCHANGED vars
  BY <1>1, LayeredStepMaps
<1>2. ASSUME NEW c \in Calls \ Layered, BeginDirect(c) \/ DirectReturns(c) \/ CancelDirect(c)
      PROVE  Next
  BY <1>2 DEF BeginDirect, DirectReturns, CancelDirect, Return, Next
<1>3. CASE StateIsRead \/ TimePasses
  BY <1>3 DEF StateIsRead, TimePasses, Next
<1>4. CASE UNCHANGED resilienceVars
  BY <1>4 DEF resilienceVars
<1>5. QED
  BY <1>1, <1>2, <1>3, <1>4 DEF ResilienceNext

(* The breaker of a ResilientClient behaves as CircuitBreaker specifies.   *)
THEOREM LayersImplementBreaker == ResilienceSpec => Spec
BY LayersInit, LayersStep, PTL DEF ResilienceSpec, Spec

(* A closed breaker has fewer failures than its threshold and a half-open  *)
(* one fewer successes, under retries, time limits and bulkhead as well.   *)
THEOREM LayersKeepEvidence == ResilienceSpec => []CountersMatchState
BY LayersImplementBreaker, LetsThroughOnEvidence, PTL

(* A call that goes through many attempts is one probe: a recovering       *)
(* service has at most half_open_max_calls layered and direct calls.       *)
THEOREM LayersKeepProbeLimit == ResilienceSpec => []ProbesBounded
BY LayersImplementBreaker, ProbeLimit, PTL

(***************************************************************************)
(* The bulkhead.                                                           *)
(***************************************************************************)

InFunc == {c \in Layered : place[c] = "func"}
InQueue == {c \in Layered : place[c] = "queue"}

(* The queue of the semaphore holds the calls that wait, each once.        *)
QueueIsPlace ==
    /\ waiters \in Seq(Layered)
    /\ \A i, j \in DOMAIN waiters : waiters[i] = waiters[j] => i = j
    /\ \A c \in Layered : c \in InQueue <=> \E i \in DOMAIN waiters : waiters[i] = c

(* PermitsInStep needs to know the queue, and calls only come when they    *)
(* are outside: place and the breaker's inCall agree.                      *)
BulkheadInv ==
    /\ place \in [Layered -> {"out", "queue", "func", "sleep"}]
    /\ current \in Nat /\ free \in Nat
    /\ QueueIsPlace /\ PermitsInStep

PlacesAgree == \A c \in Layered : c \in inCall <=> place[c] # "out"

LEMMA LayeredFinite ==
    /\ IsFiniteSet(Layered)
    /\ \A S \in SUBSET Layered : IsFiniteSet(S) /\ Cardinality(S) \in Nat
BY LayersAssumption, ConfigAssumption, FS_Subset, FS_CardinalityType

LEMMA OneMore ==
    ASSUME NEW S \in SUBSET Layered, NEW c \in Layered
    PROVE  /\ c \notin S => Cardinality(S \cup {c}) = Cardinality(S) + 1
           /\ c \in S => Cardinality(S \ {c}) = Cardinality(S) - 1
BY LayeredFinite, FS_AddElement, FS_RemoveElement

(* What PermitsInStep says, by name.                                       *)
LEMMA InStep ==
    PermitsInStep <=>
      /\ current = Cardinality(InFunc)
      /\ free + Cardinality(granted) + current = MaxConcurrent
      /\ granted \subseteq InQueue
      /\ free > 0 /\ granted = {} => InQueue = {}
BY DEF PermitsInStep, InFunc, InQueue

(* The same of the next state, with what makes up the invariant.           *)
LEMMA Assembled ==
    ASSUME place' \in [Layered -> {"out", "queue", "func", "sleep"}],
           current' \in Nat, free' \in Nat, QueueIsPlace',
           current' = Cardinality(InFunc'),
           free' + Cardinality(granted') + current' = MaxConcurrent,
           granted' \subseteq InQueue',
           free' > 0 /\ granted' = {} => InQueue' = {}
    PROVE  BulkheadInv'
<1>1. PermitsInStep'
  BY DEF PermitsInStep, InFunc, InQueue
<1>2. QED
  BY <1>1 DEF BulkheadInv

LEMMA BulkheadInitially == ResilienceInit => BulkheadInv /\ PlacesAgree
<1> SUFFICES ASSUME ResilienceInit PROVE BulkheadInv /\ PlacesAgree
  OBVIOUS
<1>1. InFunc = {} /\ InQueue = {} /\ granted = {} /\ Cardinality({}) = 0
  BY FS_EmptySet DEF ResilienceInit, InFunc, InQueue
<1>2. place \in [Layered -> {"out", "queue", "func", "sleep"}]
  BY DEF ResilienceInit
<1>3. PermitsInStep
  <2>1. current = 0 /\ free = MaxConcurrent /\ MaxConcurrent \in Nat
    BY LayersAssumption DEF ResilienceInit
  <2>2. QED
    BY <1>1, <2>1, InStep
<1>4. QueueIsPlace
  BY <1>1 DEF ResilienceInit, QueueIsPlace
<1>5. QED
  BY <1>2, <1>3, <1>4, LayersAssumption
     DEF BulkheadInv, PlacesAgree, ResilienceInit, Init

LEMMA RemovedAt ==
    ASSUME NEW S, NEW s \in Seq(S), NEW i \in DOMAIN s
    PROVE  /\ RemoveAt(s, i) \in Seq(S)
           /\ DOMAIN RemoveAt(s, i) = 1 .. Len(s) - 1
           /\ \A j \in 1 .. Len(s) - 1 :
                 RemoveAt(s, i)[j] = IF j < i THEN s[j] ELSE s[j + 1]
<1>1. PICK a \in Seq(S) : /\ a = SubSeq(s, 1, i - 1) /\ Len(a) = i - 1
                          /\ \A j \in 1 .. i - 1 : a[j] = s[j]
  <2>1. /\ SubSeq(s, 1, i - 1) \in Seq(S) /\ Len(SubSeq(s, 1, i - 1)) = i - 1
        /\ \A j \in 1 .. i - 1 : SubSeq(s, 1, i - 1)[j] = s[j]
    OBVIOUS
  <2>2. QED
    BY <2>1
<1>2. PICK b \in Seq(S) : /\ b = SubSeq(s, i + 1, Len(s)) /\ Len(b) = Len(s) - i
                          /\ \A j \in 1 .. Len(s) - i : b[j] = s[i + j]
  <2>1. /\ SubSeq(s, i + 1, Len(s)) \in Seq(S) /\ Len(SubSeq(s, i + 1, Len(s))) = Len(s) - i
        /\ \A j \in 1 .. Len(s) - i : SubSeq(s, i + 1, Len(s))[j] = s[i + j]
    OBVIOUS
  <2>2. QED
    BY <2>1
<1>3. RemoveAt(s, i) = a \o b
  BY <1>1, <1>2 DEF RemoveAt
<1>4. /\ i \in 1 .. Len(s)
      /\ Len(a) = i - 1 /\ \A j \in 1 .. i - 1 : a[j] = s[j]
      /\ Len(b) = Len(s) - i /\ \A j \in 1 .. Len(s) - i : b[j] = s[i + j]
  BY <1>1, <1>2
<1>5. /\ a \o b \in Seq(S) /\ Len(a \o b) = Len(s) - 1
      /\ \A j \in 1 .. Len(s) - 1 : (a \o b)[j] = IF j < i THEN s[j] ELSE s[j + 1]
  <2>1. /\ a \o b \in Seq(S) /\ Len(a \o b) = Len(a) + Len(b)
        /\ \A j \in 1 .. Len(a) + Len(b) :
              (a \o b)[j] = IF j <= Len(a) THEN a[j] ELSE b[j - Len(a)]
    BY ConcatProperties
  <2>2. Len(a) + Len(b) = Len(s) - 1 /\ Len(s) \in Nat
    BY <1>4
  <2>3. ASSUME NEW j \in 1 .. Len(s) - 1
        PROVE  (a \o b)[j] = IF j < i THEN s[j] ELSE s[j + 1]
    <3>1. CASE j < i
      <4>1. j <= Len(a) /\ j \in 1 .. i - 1
        BY <1>4, <2>2, <3>1
      <4>2. QED
        BY <1>4, <2>1, <2>2, <3>1, <4>1
    <3>2. CASE j >= i
      <4>1. j - Len(a) \in 1 .. Len(s) - i /\ i + (j - Len(a)) = j + 1 /\ ~(j <= Len(a))
        <5>1. Len(a) = i - 1 /\ i \in 1 .. Len(s) /\ Len(s) \in Nat
          BY <1>4, <2>2
        <5>2. j - (i - 1) \in 1 .. Len(s) - i /\ i + (j - (i - 1)) = j + 1 /\ ~(j <= i - 1)
          BY <3>2, <5>1
        <5>3. QED
          BY <5>1, <5>2
      <4>2. b[j - Len(a)] = s[j + 1]
        BY <1>4, <4>1
      <4>3. QED
        BY <2>1, <2>2, <3>2, <4>1, <4>2
    <3>3. QED
      BY <2>2, <3>1, <3>2
  <2>4. QED
    BY <2>1, <2>2, <2>3
<1>6. DOMAIN (a \o b) = 1 .. Len(s) - 1
  BY <1>5
<1>7. QED
  BY <1>3, <1>5, <1>6

(* Where a call goes it is, and the others stay where they are.            *)
LEMMA Moved ==
    ASSUME place \in [Layered -> {"out", "queue", "func", "sleep"}],
           NEW c \in Layered, NEW p \in {"out", "queue", "func", "sleep"}, Goes(c, p)
    PROVE  /\ place' \in [Layered -> {"out", "queue", "func", "sleep"}]
           /\ \A d \in Layered : place'[d] = IF d = c THEN p ELSE place[d]
           /\ InFunc' = IF p = "func" THEN InFunc \cup {c} ELSE InFunc \ {c}
           /\ InQueue' = IF p = "queue" THEN InQueue \cup {c} ELSE InQueue \ {c}
<1>1. place' \in [Layered -> {"out", "queue", "func", "sleep"}]
  BY DEF Goes
<1>2. \A d \in Layered : place'[d] = IF d = c THEN p ELSE place[d]
  BY DEF Goes
<1>3. QED
  BY <1>1, <1>2 DEF InFunc, InQueue

(* Waking up the next keeps the permits, and leaves nobody waiting when    *)
(* nobody has one.                                                         *)
LEMMA WokenUp ==
    ASSUME NEW v \in Nat \ {0}, NEW q \in Seq(Layered), NEW g \in SUBSET Layered,
           WakeUpNext(v, q, g), \A c \in g : \E i \in DOMAIN q : q[i] = c
    PROVE  /\ granted' \subseteq Layered /\ free' \in Nat
           /\ \A c \in granted' : \E i \in DOMAIN q : q[i] = c
           /\ free' + Cardinality(granted') = v + Cardinality(g)
           /\ granted' = {} => DOMAIN q = {}
<1>1. Cardinality(g) \in Nat
  BY LayeredFinite
<1>2. CASE (\A i \in DOMAIN q : q[i] \in g) /\ free' = v /\ granted' = g
  BY <1>1, <1>2
<1>3. CASE \E i \in DOMAIN q : q[i] \notin g /\ free' = v - 1 /\ granted' = g \cup {q[i]}
  <2>1. PICK i \in DOMAIN q : q[i] \notin g /\ free' = v - 1 /\ granted' = g \cup {q[i]}
    BY <1>3
  <2>2. q[i] \in Layered
    OBVIOUS
  <2>3. Cardinality(granted') = Cardinality(g) + 1
    BY <2>1, <2>2, OneMore
  <2>4. free' \in Nat /\ free' + Cardinality(granted') = v + Cardinality(g)
    BY <1>1, <2>1, <2>3
  <2>5. QED
    BY <2>1, <2>2, <2>4
<1>4. QED
  BY <1>2, <1>3 DEF WakeUpNext

(* Leaving the queue keeps it a queue.                                     *)
LEMMA QueueLeft ==
    ASSUME BulkheadInv, NEW c \in Layered, QueueWithout(c, waiters')
    PROVE  /\ waiters' \in Seq(Layered)
           /\ \A i, j \in DOMAIN waiters' : waiters'[i] = waiters'[j] => i = j
           /\ \A d \in Layered :
                 (\E i \in DOMAIN waiters' : waiters'[i] = d) <=> d \in InQueue /\ d # c
<1> USE DEF BulkheadInv, QueueIsPlace
<1>1. PICK i \in DOMAIN waiters : waiters[i] = c /\ waiters' = RemoveAt(waiters, i)
  BY DEF QueueWithout
<1>2. /\ waiters' \in Seq(Layered) /\ DOMAIN waiters' = 1 .. Len(waiters) - 1
      /\ \A j \in DOMAIN waiters' :
            waiters'[j] = IF j < i THEN waiters[j] ELSE waiters[j + 1]
  <2>1. /\ RemoveAt(waiters, i) \in Seq(Layered)
        /\ DOMAIN RemoveAt(waiters, i) = 1 .. Len(waiters) - 1
        /\ \A j \in 1 .. Len(waiters) - 1 :
              RemoveAt(waiters, i)[j] = IF j < i THEN waiters[j] ELSE waiters[j + 1]
    BY RemovedAt
  <2>2. QED
    BY <1>1, <2>1
<1>3. \A j, k \in DOMAIN waiters' : waiters'[j] = waiters'[k] => j = k
  BY <1>1, <1>2
<1>4. ASSUME NEW d \in Layered, NEW j \in DOMAIN waiters', waiters'[j] = d
      PROVE  d \in InQueue /\ d # c
  <2>1. PICK k \in DOMAIN waiters : k # i /\ waiters[k] = d
    BY <1>1, <1>2, <1>4
  <2>2. QED
    BY <1>1, <2>1
<1>5. ASSUME NEW d \in Layered, d \in InQueue, d # c
      PROVE  \E j \in DOMAIN waiters' : waiters'[j] = d
  <2>1. PICK k \in DOMAIN waiters : waiters[k] = d /\ k # i
    BY <1>1, <1>5
  <2>2. CASE k < i
    BY <1>1, <1>2, <2>1, <2>2
  <2>3. CASE k > i
    <3>1. k - 1 \in DOMAIN waiters' /\ waiters'[k - 1] = d
      BY <1>1, <1>2, <2>1, <2>3
    <3>2. QED
      BY <3>1
  <2>4. QED
    BY <1>1, <2>1, <2>2, <2>3
<1>6. QED
  BY <1>2, <1>3, <1>4, <1>5

(* The invariant, by name, with the numbers the proofs calculate with.     *)
LEMMA Known ==
    ASSUME BulkheadInv
    PROVE  /\ place \in [Layered -> {"out", "queue", "func", "sleep"}]
           /\ current \in Nat /\ free \in Nat
           /\ granted \subseteq InQueue /\ InQueue \subseteq Layered /\ InFunc \subseteq Layered
           /\ Cardinality(granted) \in Nat /\ Cardinality(InFunc) \in Nat
           /\ current = Cardinality(InFunc)
           /\ free + Cardinality(granted) + current = MaxConcurrent
           /\ free > 0 /\ granted = {} => InQueue = {}
<1>1. InQueue \subseteq Layered /\ InFunc \subseteq Layered
  BY DEF InQueue, InFunc
<1>2. granted \subseteq InQueue
  BY InStep DEF BulkheadInv
<1>3. Cardinality(granted) \in Nat /\ Cardinality(InFunc) \in Nat
  BY <1>1, <1>2, LayeredFinite
<1>4. QED
  BY <1>1, <1>2, <1>3, InStep DEF BulkheadInv

(* A call that takes a permit or joins the queue.                          *)
LEMMA AcquireKeeps ==
    ASSUME BulkheadInv, NEW c \in Layered, place[c] \in {"out", "sleep"}, Acquire(c)
    PROVE  BulkheadInv'
<1>1. c \notin InFunc /\ c \notin InQueue
  BY DEF InFunc, InQueue
<1>2. CASE free > 0 /\ waiters = <<>>
  <2>1. /\ Goes(c, "func") /\ free' = free - 1 /\ current' = current + 1
        /\ waiters' = waiters /\ granted' = granted
    BY <1>2 DEF Acquire
  <2>2. /\ place' \in [Layered -> {"out", "queue", "func", "sleep"}]
        /\ InFunc' = InFunc \cup {c} /\ InQueue' = InQueue
    BY <1>1, <2>1, Known, Moved
  <2>3. Cardinality(InFunc \cup {c}) = Cardinality(InFunc) + 1
    BY <1>1, OneMore, Known
  <2>4. QueueIsPlace'
    BY <2>1, <2>2 DEF BulkheadInv, QueueIsPlace
  <2>5. InQueue = {}
    BY <1>2, Known DEF BulkheadInv, QueueIsPlace
  <2>6. current' \in Nat /\ free' \in Nat
    BY <1>2, <2>1, Known
  <2>7. current' = Cardinality(InFunc')
    BY <2>1, <2>2, <2>3, Known
  <2>8. free' + Cardinality(granted') + current' = MaxConcurrent
    BY <2>1, Known
  <2>9. QED
    BY <2>1, <2>2, <2>4, <2>5, <2>6, <2>7, <2>8, Known, Assembled
<1>3. CASE ~(free > 0 /\ waiters = <<>>)
  <2>1. /\ Goes(c, "queue") /\ waiters' = Append(waiters, c)
        /\ free' = free /\ current' = current /\ granted' = granted
    BY <1>3 DEF Acquire
  <2>2. /\ place' \in [Layered -> {"out", "queue", "func", "sleep"}]
        /\ InFunc' = InFunc /\ InQueue' = InQueue \cup {c}
    <3>1. /\ place' \in [Layered -> {"out", "queue", "func", "sleep"}]
          /\ InFunc' = InFunc \ {c} /\ InQueue' = InQueue \cup {c}
      BY <2>1, Known, Moved
    <3>2. InFunc \ {c} = InFunc
      BY <1>1
    <3>3. QED
      BY <3>1, <3>2
  <2>3. QueueIsPlace'
    <3>1. /\ waiters \in Seq(Layered)
          /\ \A i, j \in DOMAIN waiters : waiters[i] = waiters[j] => i = j
          /\ \A d \in Layered : d \in InQueue <=> \E i \in DOMAIN waiters : waiters[i] = d
      BY DEF BulkheadInv, QueueIsPlace
    <3>2. /\ waiters' \in Seq(Layered) /\ DOMAIN waiters' = 1 .. Len(waiters) + 1
          /\ \A i \in DOMAIN waiters : waiters'[i] = waiters[i]
          /\ waiters'[Len(waiters) + 1] = c
          /\ DOMAIN waiters = 1 .. Len(waiters) /\ Len(waiters) \in Nat
      BY <2>1, <3>1
    <3>3. \A i, j \in DOMAIN waiters' : waiters'[i] = waiters'[j] => i = j
      BY <1>1, <3>1, <3>2
    <3>4. ASSUME NEW d \in Layered
          PROVE  d \in InQueue \cup {c} <=> \E i \in DOMAIN waiters' : waiters'[i] = d
      BY <1>1, <3>1, <3>2
    <3>5. QED
      BY <2>2, <3>2, <3>3, <3>4 DEF QueueIsPlace
  <2>4. free > 0 => granted # {}
    <3>1. SUFFICES ASSUME free > 0, granted = {} PROVE FALSE
      OBVIOUS
    <3>2. InQueue = {}
      BY <3>1, Known
    <3>3. waiters \in Seq(Layered) /\ DOMAIN waiters = {}
      BY <3>2 DEF BulkheadInv, QueueIsPlace
    <3>4. waiters = <<>>
      BY <3>3
    <3>5. QED
      BY <1>3, <3>1, <3>4
  <2>5. QED
    BY <2>1, <2>2, <2>3, <2>4, Known, Assembled
<1>4. QED
  BY <1>2, <1>3

(* A call that leaves func gives its permit to the next.                   *)
LEMMA ReleaseKeeps ==
    ASSUME BulkheadInv, NEW c \in Layered, place[c] = "func",
           NEW p \in {"out", "sleep"}, Release, Goes(c, p)
    PROVE  BulkheadInv'
<1>1. c \in InFunc /\ c \notin InQueue
  BY DEF InFunc, InQueue
<1>2. /\ place' \in [Layered -> {"out", "queue", "func", "sleep"}]
      /\ InFunc' = InFunc \ {c} /\ InQueue' = InQueue
  <2>1. /\ place' \in [Layered -> {"out", "queue", "func", "sleep"}]
        /\ InFunc' = InFunc \ {c} /\ InQueue' = InQueue \ {c}
    BY Known, Moved
  <2>2. InQueue \ {c} = InQueue
    BY <1>1
  <2>3. QED
    BY <2>1, <2>2
<1>3. Cardinality(InFunc \ {c}) = Cardinality(InFunc) - 1
  BY <1>1, OneMore, Known
<1>4. current > 0
  <2>1. Cardinality(InFunc \ {c}) \in Nat
    BY LayeredFinite, Known
  <2>2. QED
    BY <1>3, <2>1, Known
<1>5. current' = current - 1 /\ WakeUpNext(free + 1, waiters, granted) /\ waiters' = waiters
  BY <1>4 DEF Release
<1>6. /\ waiters \in Seq(Layered)
      /\ \A i, j \in DOMAIN waiters : waiters[i] = waiters[j] => i = j
      /\ \A d \in Layered : d \in InQueue <=> \E i \in DOMAIN waiters : waiters[i] = d
  BY DEF BulkheadInv, QueueIsPlace
<1>7. /\ granted' \subseteq Layered /\ free' \in Nat
      /\ \A d \in granted' : \E i \in DOMAIN waiters : waiters[i] = d
      /\ free' + Cardinality(granted') = free + 1 + Cardinality(granted)
      /\ granted' = {} => DOMAIN waiters = {}
  <2>1. free + 1 \in Nat \ {0} /\ granted \in SUBSET Layered
    BY Known
  <2>2. \A d \in granted : \E i \in DOMAIN waiters : waiters[i] = d
    BY <1>6, Known
  <2>3. QED
    BY <1>5, <1>6, <2>1, <2>2, WokenUp
<1>8. granted' \subseteq InQueue /\ (granted' = {} => InQueue = {})
  BY <1>6, <1>7, Known
<1>9. QueueIsPlace'
  BY <1>2, <1>5, <1>6 DEF QueueIsPlace
<1>10. current' \in Nat /\ current' = Cardinality(InFunc')
  BY <1>2, <1>3, <1>4, <1>5, Known
<1>11. free' + Cardinality(granted') + current' = MaxConcurrent
  <2>1. Cardinality(granted') \in Nat
    BY <1>7, LayeredFinite
  <2>2. current' = current - 1 /\ free' + Cardinality(granted') = free + 1 + Cardinality(granted)
    BY <1>5, <1>7
  <2>3. QED
    BY <1>7, <1>10, <2>1, <2>2, Known
<1>12. QED
  BY <1>2, <1>7, <1>8, <1>9, <1>10, <1>11, Assembled

(* Who leaves the queue is on it no more; what the others hold stays.      *)
LEMMA QueueStays ==
    ASSUME BulkheadInv, NEW c \in Layered, place[c] = "queue",
           NEW p \in {"out", "func", "sleep"}, QueueWithout(c, waiters'), Goes(c, p)
    PROVE  /\ place' \in [Layered -> {"out", "queue", "func", "sleep"}]
           /\ InQueue' = InQueue \ {c}
           /\ InFunc' = IF p = "func" THEN InFunc \cup {c} ELSE InFunc
           /\ QueueIsPlace'
           /\ waiters' \in Seq(Layered)
           /\ \A d \in Layered : d \in InQueue \ {c} <=> \E i \in DOMAIN waiters' : waiters'[i] = d
<1>1. c \notin InFunc
  BY DEF InFunc
<1>2. /\ place' \in [Layered -> {"out", "queue", "func", "sleep"}]
      /\ InFunc' = IF p = "func" THEN InFunc \cup {c} ELSE InFunc \ {c}
      /\ InQueue' = InQueue \ {c}
  BY Known, Moved
<1>3. InFunc \ {c} = InFunc
  BY <1>1
<1>4. /\ waiters' \in Seq(Layered)
      /\ \A i, j \in DOMAIN waiters' : waiters'[i] = waiters'[j] => i = j
      /\ \A d \in Layered :
            (\E i \in DOMAIN waiters' : waiters'[i] = d) <=> d \in InQueue /\ d # c
  BY QueueLeft
<1>5. QueueIsPlace'
  BY <1>2, <1>4 DEF QueueIsPlace
<1>6. QED
  BY <1>2, <1>3, <1>4, <1>5

(* A permit that is waiting for a call is passed on when c, which had one, *)
(* gives it up: v permits are there for the others.                        *)
LEMMA PassedOn ==
    ASSUME BulkheadInv, NEW c \in Layered, c \in granted, NEW q \in Seq(Layered),
           \A d \in Layered : d \in InQueue \ {c} <=> \E i \in DOMAIN q : q[i] = d,
           NEW v \in Nat \ {0}, WakeUpNext(v, q, granted \ {c})
    PROVE  /\ granted' \subseteq InQueue \ {c} /\ free' \in Nat
           /\ free' + Cardinality(granted') = v + Cardinality(granted) - 1
           /\ Cardinality(granted') \in Nat
           /\ granted' = {} => InQueue \ {c} = {}
<1>1. Cardinality(granted \ {c}) = Cardinality(granted) - 1
  BY OneMore, Known
<1>2. granted \ {c} \in SUBSET Layered /\ \A d \in granted \ {c} : \E i \in DOMAIN q : q[i] = d
  BY Known
<1>3. /\ granted' \subseteq Layered /\ free' \in Nat
      /\ \A d \in granted' : \E i \in DOMAIN q : q[i] = d
      /\ free' + Cardinality(granted') = v + Cardinality(granted \ {c})
      /\ granted' = {} => DOMAIN q = {}
  BY <1>2, WokenUp
<1>4. Cardinality(granted') \in Nat
  BY <1>3, LayeredFinite
<1>5. granted' \subseteq InQueue \ {c}
  BY <1>3
<1>6. granted' = {} => InQueue \ {c} = {}
  BY <1>3, Known
<1>7. free' + Cardinality(granted') = v + Cardinality(granted) - 1
  BY <1>1, <1>3, <1>4, Known
<1>8. QED
  BY <1>3, <1>4, <1>5, <1>6, <1>7

(* A wait that is cut short.                                               *)
LEMMA LeaveQueueKeeps ==
    ASSUME BulkheadInv, NEW c \in Layered, place[c] = "queue",
           NEW p \in {"out", "sleep"}, LeaveQueue(c), Goes(c, p)
    PROVE  BulkheadInv'
<1>1. QueueWithout(c, waiters') /\ current' = current
  BY DEF LeaveQueue
<1>2. /\ place' \in [Layered -> {"out", "queue", "func", "sleep"}]
      /\ InQueue' = InQueue \ {c} /\ InFunc' = InFunc
      /\ QueueIsPlace' /\ waiters' \in Seq(Layered)
      /\ \A d \in Layered : d \in InQueue \ {c} <=> \E i \in DOMAIN waiters' : waiters'[i] = d
  BY <1>1, QueueStays
<1>3. CASE c \in granted
  <2>1. free + 1 \in Nat \ {0} /\ WakeUpNext(free + 1, waiters', granted \ {c})
    BY <1>3, Known DEF LeaveQueue
  <2>2. /\ granted' \subseteq InQueue \ {c} /\ free' \in Nat
        /\ free' + Cardinality(granted') = free + 1 + Cardinality(granted) - 1
        /\ Cardinality(granted') \in Nat
        /\ granted' = {} => InQueue \ {c} = {}
    BY <1>2, <1>3, <2>1, PassedOn
  <2>3. free' + Cardinality(granted') + current' = MaxConcurrent
    <3>1. free' + Cardinality(granted') = free + Cardinality(granted)
      BY <2>2, Known
    <3>2. QED
      BY <1>1, <2>2, <3>1, Known
  <2>4. QED
    BY <1>1, <1>2, <2>2, <2>3, Known, Assembled
<1>4. CASE c \notin granted
  <2>1. free' = free /\ granted' = granted
    BY <1>4 DEF LeaveQueue
  <2>2. QED
    BY <1>1, <1>2, <1>4, <2>1, Known, Assembled
<1>5. QED
  BY <1>3, <1>4

(* The call that was handed a permit runs.                                 *)
LEMMA PermitArrivesKeeps ==
    ASSUME BulkheadInv, NEW c \in Layered, PermitArrives(c)
    PROVE  BulkheadInv'
<1>1. /\ place[c] = "queue" /\ c \in granted /\ Goes(c, "func")
      /\ QueueWithout(c, waiters') /\ current' = current + 1
  BY DEF PermitArrives
<1>2. /\ place' \in [Layered -> {"out", "queue", "func", "sleep"}]
      /\ InQueue' = InQueue \ {c} /\ InFunc' = InFunc \cup {c}
      /\ QueueIsPlace' /\ waiters' \in Seq(Layered)
      /\ \A d \in Layered : d \in InQueue \ {c} <=> \E i \in DOMAIN waiters' : waiters'[i] = d
  BY <1>1, QueueStays
<1>3. Cardinality(InFunc \cup {c}) = Cardinality(InFunc) + 1
  <2>1. c \notin InFunc
    BY <1>1 DEF InFunc
  <2>2. QED
    BY <2>1, OneMore, Known
<1>4. current' \in Nat /\ current' = Cardinality(InFunc')
  BY <1>1, <1>2, <1>3, Known
<1>5. /\ granted' \subseteq InQueue \ {c} /\ free' \in Nat
      /\ free' + Cardinality(granted') = free + Cardinality(granted) - 1
      /\ Cardinality(granted') \in Nat
      /\ free' > 0 /\ granted' = {} => InQueue \ {c} = {}
  <2>1. CASE free > 0
    <3>1. free \in Nat \ {0} /\ WakeUpNext(free, waiters', granted \ {c})
      BY <2>1, Known DEF PermitArrives
    <3>2. QED
      BY <1>1, <1>2, <3>1, PassedOn
  <2>2. CASE ~(free > 0)
    <3>1. free' = free /\ granted' = granted \ {c} /\ free = 0
      BY <2>2, Known DEF PermitArrives
    <3>2. Cardinality(granted \ {c}) = Cardinality(granted) - 1
      BY <1>1, OneMore, Known
    <3>3. Cardinality(granted \ {c}) \in Nat
      BY LayeredFinite, Known
    <3>4. QED
      BY <3>1, <3>2, <3>3, Known
  <2>3. QED
    BY <2>1, <2>2
<1>6. free' + Cardinality(granted') + current' = MaxConcurrent
  BY <1>1, <1>5, Known
<1>7. QED
  BY <1>2, <1>4, <1>5, <1>6, Assembled

(* A backoff that is cut short concerns the bulkhead not at all.           *)
LEMMA BackoffCutShort ==
    ASSUME BulkheadInv, NEW c \in Layered, place[c] = "sleep",
           Goes(c, "out"), UNCHANGED bulkheadVars
    PROVE  BulkheadInv'
<1>1. c \notin InFunc /\ c \notin InQueue
  BY DEF InFunc, InQueue
<1>2. /\ place' \in [Layered -> {"out", "queue", "func", "sleep"}]
      /\ InFunc' = InFunc \ {c} /\ InQueue' = InQueue \ {c}
  BY Known, Moved
<1>3. InFunc' = InFunc /\ InQueue' = InQueue
  BY <1>1, <1>2
<1>4. UNCHANGED <<current, free, waiters, granted>>
  BY DEF bulkheadVars
<1>5. QueueIsPlace'
  BY <1>3, <1>4 DEF BulkheadInv, QueueIsPlace
<1>6. QED
  BY <1>2, <1>3, <1>4, <1>5, Known, Assembled

(* However a call is cut short, its permit is accounted for.               *)
LEMMA CutShortKeeps ==
    ASSUME BulkheadInv, NEW c \in Layered, CutShort(c), Goes(c, "out")
    PROVE  BulkheadInv'
BY LeaveQueueKeeps, ReleaseKeeps, BackoffCutShort DEF CutShort

LEMMA LayeredStepKeeps ==
    ASSUME BulkheadInv, PlacesAgree, NEW c \in Layered, LayeredStep(c)
    PROVE  BulkheadInv'
<1>1. CASE BeginLayered(c)
  <2>1. place[c] = "out" /\ Acquire(c)
    BY <1>1 DEF BeginLayered, Admit, AdmitClosed, AdmitFirstProbe, AdmitProbe, PlacesAgree
  <2>2. QED
    BY <2>1, AcquireKeeps
<1>2. CASE PermitArrives(c)
  BY <1>2, PermitArrivesKeeps
<1>3. ASSUME AttemptRaises(c) PROVE Goes(c, "sleep") \/ Goes(c, "out")
  BY <1>3 DEF AttemptRaises, StackReturns
<1>4. CASE WaitTimesOut(c)
  BY <1>3, <1>4, LeaveQueueKeeps DEF WaitTimesOut
<1>5. CASE FuncEnds(c)
  BY <1>3, <1>5, ReleaseKeeps DEF FuncEnds, FuncReturns, FuncRaises, StackReturns
<1>6. CASE TimeLimit(c)
  BY <1>6, CutShortKeeps DEF TimeLimit, StackReturns
<1>7. CASE BackoffEnds(c)
  BY <1>7, AcquireKeeps DEF BackoffEnds
<1>8. CASE CancelLayered(c)
  BY <1>8, CutShortKeeps DEF CancelLayered
<1>9. QED
  BY <1>1, <1>2, <1>4, <1>5, <1>6, <1>7, <1>8 DEF LayeredStep

(* A call is in the breaker exactly as long as it is in some layer.        *)
LEMMA LayeredStepAgrees ==
    ASSUME BulkheadInv, PlacesAgree, NEW c \in Layered, LayeredStep(c)
    PROVE  PlacesAgree'
<1>1. place \in [Layered -> {"out", "queue", "func", "sleep"}]
  BY Known
<1>2. ASSUME Goes(c, "out"), inCall' = inCall \ {c} PROVE PlacesAgree'
  BY <1>1, <1>2, Moved DEF PlacesAgree
<1>3. ASSUME NEW p \in {"queue", "func", "sleep"}, Goes(c, p), inCall' = inCall,
             place[c] # "out"
      PROVE  PlacesAgree'
  BY <1>1, <1>3, Moved DEF PlacesAgree
<1>4. CASE BeginLayered(c)
  <2>1. inCall' = inCall \cup {c}
    BY <1>4 DEF BeginLayered, Admit, AdmitClosed, AdmitFirstProbe, AdmitProbe
  <2>2. PICK p \in {"queue", "func"} : Goes(c, p)
    BY <1>4 DEF BeginLayered, Acquire
  <2>3. QED
    BY <1>1, <2>1, <2>2, Moved DEF PlacesAgree
<1>5. CASE PermitArrives(c)
  BY <1>3, <1>5 DEF PermitArrives, vars
<1>6. CASE BackoffEnds(c)
  <2>1. inCall' = inCall /\ place[c] # "out"
    BY <1>6 DEF BackoffEnds, vars
  <2>2. PICK p \in {"queue", "func"} : Goes(c, p)
    BY <1>6 DEF BackoffEnds, Acquire
  <2>3. QED
    BY <1>3, <2>1, <2>2
<1>7. ASSUME NEW good \in BOOLEAN, StackReturns(c, good) PROVE PlacesAgree'
  BY <1>2, <1>7 DEF StackReturns, Succeeds, Leave
<1>8. ASSUME AttemptRaises(c), place[c] # "out" PROVE PlacesAgree'
  <2>1. CASE Goes(c, "sleep") /\ UNCHANGED vars
    BY <1>3, <1>8, <2>1 DEF vars
  <2>2. QED
    BY <1>7, <1>8, <2>1 DEF AttemptRaises
<1>9. CASE WaitTimesOut(c) \/ FuncEnds(c) \/ TimeLimit(c)
  BY <1>7, <1>8, <1>9 DEF WaitTimesOut, FuncEnds, FuncReturns, FuncRaises, TimeLimit
<1>10. CASE CancelLayered(c)
  BY <1>2, <1>10 DEF CancelLayered, Cancel, Leave
<1>11. QED
  BY <1>4, <1>5, <1>6, <1>9, <1>10 DEF LayeredStep

LEMMA BulkheadStep ==
    BulkheadInv /\ PlacesAgree /\ [ResilienceNext]_resilienceVars
        => BulkheadInv' /\ PlacesAgree'
<1> SUFFICES ASSUME BulkheadInv, PlacesAgree, [ResilienceNext]_resilienceVars
             PROVE  BulkheadInv' /\ PlacesAgree'
  OBVIOUS
<1>1. ASSUME NEW c \in Layered, LayeredStep(c) PROVE BulkheadInv' /\ PlacesAgree'
  BY <1>1, LayeredStepKeeps, LayeredStepAgrees
<1>2. ASSUME UNCHANGED layerVars, NEW S \in SUBSET (Calls \ Layered),
             inCall' = inCall \cup S \/ inCall' = inCall \ S
      PROVE  BulkheadInv' /\ PlacesAgree'
  <2>1. UNCHANGED <<place, current, free, waiters, granted>>
    BY <1>2 DEF layerVars, bulkheadVars
  <2>2. InFunc' = InFunc /\ InQueue' = InQueue
    BY <2>1 DEF InFunc, InQueue
  <2>3. QueueIsPlace'
    BY <2>1, <2>2 DEF BulkheadInv, QueueIsPlace
  <2>4. BulkheadInv'
    BY <2>1, <2>2, <2>3, Known, Assembled
  <2>5. PlacesAgree'
    BY <1>2, <2>1 DEF PlacesAgree
  <2>6. QED
    BY <2>4, <2>5
<1>3. ASSUME NEW c \in Calls \ Layered, BeginDirect(c) \/ DirectReturns(c) \/ CancelDirect(c)
      PROVE  BulkheadInv' /\ PlacesAgree'
  <2>1. UNCHANGED layerVars
    BY <1>3 DEF BeginDirect, DirectReturns, CancelDirect
  <2>2. inCall' = inCall \cup {c} \/ inCall' = inCall \ {c}
    BY <1>3 DEF BeginDirect, DirectReturns, CancelDirect, Admit, AdmitClosed,
               AdmitFirstProbe, AdmitProbe, Succeeds, Fails, Cancel, Leave
  <2>3. QED
    BY <1>2, <2>1, <2>2
<1>4. CASE StateIsRead \/ TimePasses \/ UNCHANGED resilienceVars
  <2>1. UNCHANGED layerVars /\ inCall' = inCall
    BY <1>4 DEF StateIsRead, TimePasses, ReadState, TimeoutPasses, resilienceVars, vars
  <2>2. inCall' = inCall \cup {} /\ {} \in SUBSET (Calls \ Layered)
    BY <2>1
  <2>3. QED
    BY <1>2, <2>1, <2>2
<1>5. QED
  BY <1>1, <1>3, <1>4 DEF ResilienceNext

(* Counter and semaphore of the bulkhead stay in step, for every number of *)
(* calls, permits and attempts: no permit is lost or granted twice, however *)
(* waits end, and none is free while a call waits for one, but for those   *)
(* that a call about to take its own will pass on.                         *)
THEOREM PermitsStayInStep == ResilienceSpec => []PermitsInStep
<1>1. BulkheadInv => PermitsInStep
  BY DEF BulkheadInv
<1>2. QED
  BY <1>1, BulkheadInitially, BulkheadStep, PTL DEF ResilienceSpec
=============================================================================
