---------------------------- MODULE Service_proofs ----------------------------
(***************************************************************************)
(* Safety of the service for any requests, keys, hooks and bounds: failed  *)
(* orders are rolled back, answers are not invented, payments not doubled, *)
(* and hooks wait for the requests that were counted.                      *)
(***************************************************************************)
EXTENDS Service, FiniteSetTheorems, SequenceTheorems, TLAPS

(***************************************************************************)
(* Orders.                                                                 *)
(***************************************************************************)

(* What an execution has left behind at the call it waits for; RolledBack  *)
(* says it of executions that are over only.                               *)
LeftAt(o) ==
    /\ step[o] \in {"check", "reserve"} => o \notin held \cup charged \cup created
    /\ step[o] = "pay" => o \in held /\ o \notin charged \cup created
    /\ step[o] = "create" => o \in held \cap charged /\ o \notin created
    /\ step[o] \in {"refund", "release", "err", "raised"} /\ o \in created =>
          "create" \in doubt[o]
    /\ step[o] \in {"release", "err", "raised"} /\ o \in charged =>
          doubt[o] \cap {"pay", "refund"} # {}
    /\ step[o] \in {"err", "raised"} /\ o \in held =>
          doubt[o] \cap {"reserve", "release", "refund"} # {}
    /\ step[o] \in {"notify", "ok"} => o \in held \cap charged \cap created

OrderInv == P!OrderTypeOK /\ \A o \in Orders : LeftAt(o)

OrderStep == \E o \in Orders : P!Execute(o) \/ P!CancelOrder(o)

(* What a call of one execution may touch.                                 *)
LEMMA OrderFrame ==
    ASSUME P!OrderTypeOK, NEW o \in Orders, P!Execute(o) \/ P!CancelOrder(o)
    PROVE  /\ P!OrderTypeOK'
           /\ step[o] \in P!Calls /\ doubt[o] \subseteq doubt'[o]
           /\ \A p \in Orders \ {o} :
                 /\ step'[p] = step[p] /\ doubt'[p] = doubt[p]
                 /\ p \in held' <=> p \in held
                 /\ p \in charged' <=> p \in charged
                 /\ p \in created' <=> p \in created
<1> USE DEF P!OrderTypeOK, P!Goto, P!Fault, P!NoFault, P!With, P!Without, P!Calls
<1>1. CASE P!Check(o)
  BY <1>1 DEF P!Check
<1>2. CASE P!Reserve(o)
  BY <1>2 DEF P!Reserve
<1>3. CASE P!Pay(o)
  BY <1>3 DEF P!Pay
<1>4. CASE P!Create(o)
  BY <1>4 DEF P!Create
<1>5. CASE P!Refund(o)
  BY <1>5 DEF P!Refund
<1>6. CASE P!Release(o)
  BY <1>6 DEF P!Release
<1>7. CASE P!Notify(o)
  BY <1>7 DEF P!Notify
<1>8. CASE P!CancelOrder(o)
  BY <1>8 DEF P!CancelOrder
<1>9. QED
  BY <1>1, <1>2, <1>3, <1>4, <1>5, <1>6, <1>7, <1>8 DEF P!Execute

(* The execution that made the call has left what it may.                  *)
LEMMA OrderLeaves ==
    ASSUME OrderInv, NEW o \in Orders, P!Execute(o) \/ P!CancelOrder(o)
    PROVE  LeftAt(o)'
<1> USE DEF OrderInv, P!OrderTypeOK, P!Goto, P!Fault, P!NoFault, P!With, P!Without, P!Calls, LeftAt
<1>1. CASE P!Check(o)
  BY <1>1 DEF P!Check
<1>2. CASE P!Reserve(o)
  BY <1>2 DEF P!Reserve
<1>3. CASE P!Pay(o)
  BY <1>3 DEF P!Pay
<1>4. CASE P!Create(o)
  BY <1>4 DEF P!Create
<1>5. CASE P!Refund(o)
  BY <1>5 DEF P!Refund
<1>6. CASE P!Release(o)
  BY <1>6 DEF P!Release
<1>7. CASE P!Notify(o)
  BY <1>7 DEF P!Notify
<1>8. CASE P!CancelOrder(o)
  BY <1>8 DEF P!CancelOrder
<1>9. QED
  BY <1>1, <1>2, <1>3, <1>4, <1>5, <1>6, <1>7, <1>8 DEF P!Execute

(* A call of one execution, or none, keeps OrderInv.                       *)
LEMMA OrderInductive ==
    ASSUME OrderInv, OrderStep \/ UNCHANGED orderVars
    PROVE  OrderInv'
<1>1. CASE OrderStep
  <2>1. PICK o \in Orders : P!Execute(o) \/ P!CancelOrder(o)
    BY <1>1 DEF OrderStep
  <2>2. LeftAt(o)'
    BY <2>1, OrderLeaves
  <2>3. \A p \in Orders \ {o} : LeftAt(p)'
    BY <2>1, OrderFrame DEF OrderInv, LeftAt
  <2>4. QED
    BY <2>1, <2>2, <2>3, OrderFrame DEF OrderInv
<1>2. CASE UNCHANGED orderVars
  BY <1>2 DEF orderVars, OrderInv, LeftAt, P!OrderTypeOK
<1>3. QED
  BY <1>1, <1>2

-----------------------------------------------------------------------------

(* No execution has made a call.                                           *)
LEMMA Initially ==
    ASSUME ServiceInit
    PROVE  OrderInv
BY DEF ServiceInit, OrderInv, P!OrderInit, P!OrderTypeOK, P!Calls, LeftAt

(* What a request runs is one of its two executions.                       *)
LEMMA RunningIsOrder ==
    ASSUME NEW r \in Requests
    PROVE  Running(r) \in Orders
BY DEF Running, Orders

(* A step of the service is a call of one execution, or leaves orders be.  *)
LEMMA ServiceOrders ==
    ASSUME [ServiceNext]_serviceVars
    PROVE  OrderStep \/ UNCHANGED orderVars
<1>1. CASE UNCHANGED serviceVars
  BY <1>1 DEF serviceVars
<1>2. ASSUME NEW r \in Requests, RequestArrives(r) \/ RequestLooksUp(r) \/ SecondCallFails(r)
             \/ AnswerIsKept(r) \/ RequestDeparts(r)
      PROVE  UNCHANGED orderVars
  BY <1>2 DEF RequestArrives, RequestLooksUp, SecondCallFails, AnswerIsKept, RequestDeparts
<1>3. ASSUME NEW r \in Requests, OrderRuns(r) \/ RequestIsCancelled(r)
      PROVE  OrderStep \/ UNCHANGED orderVars
  <2>1. Running(r) \in Orders
    BY RunningIsOrder
  <2>2. CASE OrderRuns(r)
    BY <2>1, <2>2 DEF OrderRuns, OrderStep
  <2>3. CASE RequestIsCancelled(r)
    BY <2>1, <2>3 DEF RequestIsCancelled, OrderStep
  <2>4. QED
    BY <1>3, <2>2, <2>3
<1>4. ASSUME NEW k \in Keys, RecordIsLost(k)
      PROVE  UNCHANGED orderVars
  BY <1>4 DEF RecordIsLost
<1>5. CASE HandlerActs
  BY <1>5 DEF HandlerActs
<1>6. QED
  BY <1>1, <1>2, <1>3, <1>4, <1>5 DEF ServiceNext

(* OrderInv holds in every state of the service: whatever execute of       *)
(* PlaceOrderUseCase has done so far, LeftAt says what it has left behind. *)
THEOREM OrderInvariance == ServiceSpec => []OrderInv
<1>1. OrderInv /\ [ServiceNext]_serviceVars => OrderInv'
  BY ServiceOrders, OrderInductive
<1>2. QED
  BY <1>1, Initially, PTL DEF ServiceSpec

(* "If any step fails, previous steps are rolled back": execute of         *)
(* PlaceOrderUseCase leaves behind only what a failed call explains, for   *)
(* any number of requests and of failures.                                 *)
THEOREM OrdersRolledBack == ServiceSpec => []RolledBack
<1>1. OrderInv => RolledBack
  BY DEF OrderInv, LeftAt, RolledBack, P!RolledBack
<1>2. QED
  BY <1>1, OrderInvariance, PTL

(***************************************************************************)
(* Shutdown.                                                               *)
(***************************************************************************)

(* As long as no uncounted request was taken for a counted one, the        *)
(* counter is the number of counted requests in the application; the event *)
(* is set only when it is zero, and then stays zero.                       *)
CountInv ==
    /\ IsFiniteSet(serving) /\ inFlight \in Nat /\ event \in BOOLEAN
    /\ pos \in Nat /\ state \in {"RUNNING", "SHUTTING_DOWN", "SHUTDOWN"}
    /\ waiting \cap (serving \cup counted) = {}
    /\ state = "RUNNING" => serving \subseteq counted /\ cut = {} /\ pos = 0
    /\ "uncounted" \notin cut => inFlight = Cardinality(serving \cap counted)
    /\ event => state # "RUNNING" /\ inFlight = 0
    /\ DrainedBeforeHooks

(* ShutdownHandler starts with nothing in flight.                          *)
LEMMA CountInitially ==
    ASSUME ServiceInit
    PROVE  CountInv
BY FS_EmptySet DEF ServiceInit, ShutdownInit, CountInv, DrainedBeforeHooks

(* A set that a count of zero stands for is empty.                         *)
LEMMA NoneCounted ==
    ASSUME CountInv, "uncounted" \notin cut, inFlight = 0
    PROVE  serving \cap counted = {}
<1>1. IsFiniteSet(serving \cap counted)
  BY FS_Subset DEF CountInv
<1>2. QED
  BY <1>1, FS_EmptySet DEF CountInv

(* request_started, when the middleware lets a request in.                 *)
LEMMA EnterCounts ==
    ASSUME CountInv, state # "SHUTDOWN", NEW r \in Requests, Enter(r)
    PROVE  CountInv'
<1> USE DEF Enter, handlerVars
<1>1. r \notin serving /\ r \notin counted
  BY DEF CountInv
<1>2. IsFiniteSet(serving \cap counted)
  BY FS_Subset DEF CountInv
<1>3. IsFiniteSet(serving')
  BY FS_AddElement DEF CountInv
<1>4. CASE state = "RUNNING"
  <2>1. serving' \cap counted' = (serving \cap counted) \cup {r}
    BY <1>4
  <2>2. Cardinality(serving' \cap counted') = Cardinality(serving \cap counted) + 1
    BY <1>1, <1>2, <2>1, FS_AddElement
  <2>3. QED
    BY <1>3, <1>4, <2>2 DEF CountInv, DrainedBeforeHooks
<1>5. CASE state # "RUNNING"
  <2>1. serving' \cap counted' = serving \cap counted
    BY <1>1, <1>5
  <2>2. QED
    BY <1>3, <1>5, <2>1 DEF CountInv, DrainedBeforeHooks
<1>6. QED
  BY <1>4, <1>5

(* request_finished, of a counted or an uncounted request.                 *)
LEMMA LeaveCounts ==
    ASSUME CountInv, state # "SHUTDOWN", NEW r \in Requests, Leave(r)
    PROVE  CountInv'
<1> USE DEF Leave, handlerVars
<1>1. IsFiniteSet(serving \cap counted) /\ Cardinality(serving \cap counted) \in Nat
  BY FS_Subset, FS_CardinalityType DEF CountInv
<1>2. IsFiniteSet(serving')
  BY FS_RemoveElement DEF CountInv
<1>3. CASE r \in counted
  <2>1. serving' \cap counted' = (serving \cap counted) \ {r} /\ r \in serving \cap counted
    BY <1>3
  <2>2. Cardinality(serving' \cap counted') = Cardinality(serving \cap counted) - 1
    <3> DEFINE S == serving \cap counted
    <3>1. IsFiniteSet(S) /\ r \in S
      BY <1>1, <2>1
    <3>2. Cardinality(S \ {r}) = Cardinality(S) - 1
      <4> HIDE DEF S
      <4>1. QED
        BY <3>1, FS_RemoveElement
    <3>3. QED
      BY <2>1, <3>2
  <2>3. serving' \cap counted' \subseteq serving \cap counted /\ cut' = cut
    BY <1>3, <2>1
  <2>4. Cardinality(serving \cap counted) > 0
    BY <1>1, <2>1, FS_EmptySet
  <2>5. QED
    BY <1>1, <1>2, <1>3, <2>2, <2>3, <2>4 DEF CountInv, DrainedBeforeHooks
<1>4. CASE r \notin counted
  <2>1. state = "SHUTTING_DOWN" /\ "uncounted" \in cut'
    BY <1>4 DEF CountInv
  <2>2. QED
    BY <1>2, <1>4, <2>1 DEF CountInv, DrainedBeforeHooks
<1>5. QED
  BY <1>3, <1>4

(* The handler's own steps: requests stay where they are.                  *)
LEMMA HandlerCounts ==
    ASSUME CountInv, state # "SHUTDOWN", HandlerStep
    PROVE  CountInv'
<1> USE DEF requestVars
<1>1. ASSUME NEW h \in Hooks, AddHook(h) \/ RemoveHook(h)
      PROVE  CountInv'
  <2>1. UNCHANGED <<requestVars, cut, pos, state>>
    BY <1>1, Zenon DEF AddHook, RemoveHook
  <2>2. QED
    BY <2>1 DEF CountInv, DrainedBeforeHooks
<1>2. CASE BeginShutdown
  <2>1. inFlight = 0 => serving \cap counted = {}
    BY <1>2, NoneCounted DEF BeginShutdown, CountInv
  <2>2. QED
    BY <1>2, <2>1 DEF BeginShutdown, RunFrom, CountInv, DrainedBeforeHooks
<1>3. ASSUME NEW why \in {"event", "timeout"}, DrainEnds(why)
      PROVE  CountInv'
  <2>1. why = "event" => serving \cap counted = {} \/ "uncounted" \in cut
    BY <1>3, NoneCounted DEF DrainEnds, CountInv
  <2>2. /\ UNCHANGED requestVars /\ state = "SHUTTING_DOWN"
        /\ cut' = IF why = "timeout" THEN cut \cup {"timeout"} ELSE cut
        /\ RunFrom(1)
    BY <1>3 DEF DrainEnds, Draining
  <2>3. "uncounted" \in cut' <=> "uncounted" \in cut
    BY <2>2
  <2>4. \/ pos' = 1 /\ state' = "SHUTTING_DOWN"
        \/ pos' = 0 /\ state' = "SHUTDOWN"
    BY <2>2 DEF RunFrom
  <2>5. serving \cap counted = {} \/ cut' # {}
    BY <2>1, <2>2
  <2>6. QED
    BY <2>2, <2>3, <2>5, <2>4 DEF CountInv, DrainedBeforeHooks
<1>4. CASE HookEnds
  BY <1>4 DEF HookEnds, RunFrom, CountInv, DrainedBeforeHooks
<1>5. QED
  BY <1>1, <1>2, <1>3, <1>4 DEF HandlerStep

(* No step of the service breaks CountInv.                                 *)
LEMMA CountInductive ==
    ASSUME CountInv, [ServiceNext]_serviceVars
    PROVE  CountInv'
<1>1. CASE UNCHANGED shutdownVars
  BY <1>1 DEF shutdownVars, handlerVars, requestVars, CountInv, DrainedBeforeHooks
<1>2. ASSUME state # "SHUTDOWN", NEW r \in Requests, RequestArrives(r) \/ RequestDeparts(r)
      PROVE  CountInv'
  <2>1. CASE Reject(r)
    BY <2>1 DEF Reject, handlerVars, CountInv, DrainedBeforeHooks
  <2>2. QED
    BY <1>2, <2>1, EnterCounts, LeaveCounts DEF RequestArrives, RequestDeparts
<1>3. ASSUME NEW r \in Requests, RequestLooksUp(r) \/ OrderRuns(r) \/ SecondCallFails(r)
             \/ AnswerIsKept(r) \/ RequestIsCancelled(r)
      PROVE  UNCHANGED shutdownVars
  BY <1>3 DEF RequestLooksUp, OrderRuns, SecondCallFails, AnswerIsKept, RequestIsCancelled
<1>4. ASSUME NEW k \in Keys, RecordIsLost(k)
      PROVE  UNCHANGED shutdownVars
  BY <1>4 DEF RecordIsLost
<1>5. CASE state # "SHUTDOWN" /\ HandlerActs
  BY <1>5, HandlerCounts DEF HandlerActs
<1>6. QED
  BY <1>1, <1>2, <1>3, <1>4, <1>5 DEF ServiceNext, serviceVars

(* Shutdown hooks, which close what requests use, wait for every request   *)
(* that request_started counted, unless the drain times out or an          *)
(* uncounted request finishes during it.                                   *)
THEOREM HooksWait == ServiceSpec => []DrainedBeforeHooks
<1>1. CountInv => DrainedBeforeHooks
  BY DEF CountInv
<1>2. QED
  BY <1>1, CountInitially, CountInductive, PTL DEF ServiceSpec

(***************************************************************************)
(* Hooks.                                                                  *)
(***************************************************************************)

(* A list of hooks that holds each once, those of high priority first.     *)
InPriority(s) ==
    \A i, j \in DOMAIN s : i < j => s[i] # s[j] /\ Priority[s[i]] >= Priority[s[j]]

(* While the loop is at index pos, the hooks that were registered when it  *)
(* began are all in the list it walks, and up to pos they have started;    *)
(* unless one was added, what was started is the list up to pos.           *)
HookInv ==
    /\ hooks \in Seq(Hooks) /\ loop \in Seq(Hooks) /\ started \in Seq(Hooks)
    /\ pos \in Nat /\ late \in Nat /\ detached \in BOOLEAN
    /\ InPriority(hooks) /\ InPriority(loop)
    /\ pos = 0 /\ state # "SHUTDOWN" => started = <<>> /\ ~detached
    /\ pos > 0 =>
          /\ state = "SHUTTING_DOWN" /\ pos <= Len(Walked) /\ began \subseteq Range(Walked)
          /\ \A i \in 1 .. pos : Walked[i] \in began => Walked[i] \in Range(started)
          /\ late = 0 => Len(started) = pos /\ \A i \in 1 .. pos : started[i] = Walked[i]
    /\ HooksComplete

LEMMA HooksInitially == ServiceInit => HookInv
<1> SUFFICES ASSUME ServiceInit PROVE HookInv
  OBVIOUS
<1>1. /\ hooks = InitialHooks /\ loop = <<>> /\ started = <<>> /\ pos = 0 /\ late = 0
      /\ detached = FALSE /\ state = "RUNNING"
  BY DEF ServiceInit, ShutdownInit
<1>2. InitialHooks \in Seq(Hooks) /\ InPriority(InitialHooks)
  BY ShutdownAssumption DEF InPriority, IsInjective
<1>3. InPriority(<<>>)
  BY DEF InPriority
<1>4. HooksComplete
  BY <1>1 DEF HooksComplete
<1>5. hooks \in Seq(Hooks) /\ loop \in Seq(Hooks) /\ started \in Seq(Hooks)
  BY <1>1, <1>2
<1>6. InPriority(hooks) /\ InPriority(loop)
  BY <1>1, <1>2, <1>3
<1>7. pos \in Nat /\ late \in Nat /\ ~(pos > 0)
  BY <1>1
<1>8. started = <<>> /\ ~detached /\ detached \in BOOLEAN
  BY <1>1
<1>9. QED
  BY <1>4, <1>5, <1>6, <1>7, <1>8, Zenon DEF HookInv

(* RemoveAt, element by element.                                           *)
LEMMA RemovedAt ==
    ASSUME NEW S, NEW s \in Seq(S), NEW i \in DOMAIN s
    PROVE  /\ RemoveAt(s, i) \in Seq(S)
           /\ DOMAIN RemoveAt(s, i) = 1 .. Len(s) - 1
           /\ \A j \in 1 .. Len(s) - 1 :
                 RemoveAt(s, i)[j] = IF j < i THEN s[j] ELSE s[j + 1]
<1>1. PICK a \in Seq(S) : /\ a = SubSeq(s, 1, i - 1) /\ Len(a) = i - 1
                          /\ \A j \in 1 .. i - 1 : a[j] = s[j]
  <2>1. /\ SubSeq(s, 1, i - 1) \in Seq(S) /\ Len(SubSeq(s, 1, i - 1)) = i - 1
        /\ \A j \in 1 .. i - 1 : SubSeq(s, 1, i - 1)[j] = s[j]
    OBVIOUS
  <2>2. QED
    BY <2>1
<1>2. PICK b \in Seq(S) : /\ b = SubSeq(s, i + 1, Len(s)) /\ Len(b) = Len(s) - i
                          /\ \A j \in 1 .. Len(s) - i : b[j] = s[i + j]
  <2>1. /\ SubSeq(s, i + 1, Len(s)) \in Seq(S) /\ Len(SubSeq(s, i + 1, Len(s))) = Len(s) - i
        /\ \A j \in 1 .. Len(s) - i : SubSeq(s, i + 1, Len(s))[j] = s[i + j]
    OBVIOUS
  <2>2. QED
    BY <2>1
<1>3. RemoveAt(s, i) = a \o b
  BY <1>1, <1>2 DEF RemoveAt
<1>4. /\ i \in 1 .. Len(s)
      /\ Len(a) = i - 1 /\ \A j \in 1 .. i - 1 : a[j] = s[j]
      /\ Len(b) = Len(s) - i /\ \A j \in 1 .. Len(s) - i : b[j] = s[i + j]
  BY <1>1, <1>2
<1>5. /\ a \o b \in Seq(S) /\ Len(a \o b) = Len(s) - 1
      /\ \A j \in 1 .. Len(s) - 1 : (a \o b)[j] = IF j < i THEN s[j] ELSE s[j + 1]
  <2>1. /\ a \o b \in Seq(S) /\ Len(a \o b) = Len(a) + Len(b)
        /\ \A j \in 1 .. Len(a) + Len(b) :
              (a \o b)[j] = IF j <= Len(a) THEN a[j] ELSE b[j - Len(a)]
    BY ConcatProperties
  <2>2. Len(a) + Len(b) = Len(s) - 1 /\ Len(s) \in Nat
    BY <1>4
  <2>3. ASSUME NEW j \in 1 .. Len(s) - 1
        PROVE  (a \o b)[j] = IF j < i THEN s[j] ELSE s[j + 1]
    <3>1. CASE j < i
      <4>1. j <= Len(a) /\ j \in 1 .. i - 1
        BY <1>4, <2>2, <3>1
      <4>2. QED
        BY <1>4, <2>1, <2>2, <3>1, <4>1
    <3>2. CASE j >= i
      <4>1. j - Len(a) \in 1 .. Len(s) - i /\ i + (j - Len(a)) = j + 1 /\ ~(j <= Len(a))
        <5>1. Len(a) = i - 1 /\ i \in 1 .. Len(s) /\ Len(s) \in Nat
          BY <1>4, <2>2
        <5>2. j - (i - 1) \in 1 .. Len(s) - i /\ i + (j - (i - 1)) = j + 1 /\ ~(j <= i - 1)
          BY <3>2, <5>1
        <5>3. QED
          BY <5>1, <5>2
      <4>2. b[j - Len(a)] = s[j + 1]
        BY <1>4, <4>1
      <4>3. QED
        BY <2>1, <2>2, <3>2, <4>1, <4>2
    <3>3. QED
      BY <2>2, <3>1, <3>2
  <2>4. QED
    BY <2>1, <2>2, <2>3
<1>6. DOMAIN (a \o b) = 1 .. Len(s) - 1
  BY <1>5
<1>7. QED
  BY <1>3, <1>5, <1>6


(* InsertAt, element by element.                                           *)
LEMMA InsertedAt ==
    ASSUME NEW S, NEW s \in Seq(S), NEW i \in 1 .. Len(s) + 1, NEW e \in S
    PROVE  /\ InsertAt(s, i, e) \in Seq(S)
           /\ DOMAIN InsertAt(s, i, e) = 1 .. Len(s) + 1
           /\ \A j \in 1 .. Len(s) + 1 :
                 InsertAt(s, i, e)[j] = IF j < i THEN s[j] ELSE IF j = i THEN e ELSE s[j - 1]
<1>1. PICK a \in Seq(S) : /\ a = SubSeq(s, 1, i - 1) /\ Len(a) = i - 1
                          /\ \A j \in 1 .. i - 1 : a[j] = s[j]
  <2>1. /\ SubSeq(s, 1, i - 1) \in Seq(S) /\ Len(SubSeq(s, 1, i - 1)) = i - 1
        /\ \A j \in 1 .. i - 1 : SubSeq(s, 1, i - 1)[j] = s[j]
    OBVIOUS
  <2>2. QED
    BY <2>1
<1>2. PICK b \in Seq(S) : /\ b = SubSeq(s, i, Len(s)) /\ Len(b) = Len(s) - i + 1
                          /\ \A j \in 1 .. Len(s) - i + 1 : b[j] = s[i + j - 1]
  <2>1. /\ SubSeq(s, i, Len(s)) \in Seq(S) /\ Len(SubSeq(s, i, Len(s))) = Len(s) - i + 1
        /\ \A j \in 1 .. Len(s) - i + 1 : SubSeq(s, i, Len(s))[j] = s[i + j - 1]
    OBVIOUS
  <2>2. QED
    BY <2>1
<1>3. PICK c \in Seq(S) : /\ c = a \o <<e>> /\ Len(c) = i
                          /\ \A j \in 1 .. i : c[j] = IF j < i THEN s[j] ELSE e
  <2>1. /\ a \o <<e>> \in Seq(S) /\ Len(a \o <<e>>) = Len(a) + 1
        /\ \A j \in 1 .. Len(a) + 1 : (a \o <<e>>)[j] = IF j <= Len(a) THEN a[j] ELSE e
    OBVIOUS
  <2>2. Len(a) = i - 1 /\ i \in Nat /\ \A j \in 1 .. i - 1 : a[j] = s[j]
    BY <1>1
  <2>3. \A j \in 1 .. i : (a \o <<e>>)[j] = IF j < i THEN s[j] ELSE e
    <3>1. SUFFICES ASSUME NEW j \in 1 .. i
                   PROVE  (a \o <<e>>)[j] = IF j < i THEN s[j] ELSE e
      OBVIOUS
    <3>2. j \in 1 .. Len(a) + 1 /\ (j <= Len(a) <=> j < i) /\ (j < i => j \in 1 .. i - 1)
      BY <2>2, <3>1
    <3>3. QED
      BY <2>1, <2>2, <3>2
  <2>4. Len(a \o <<e>>) = i
    BY <2>1, <2>2
  <2>5. QED
    BY <2>1, <2>3, <2>4
<1>4. InsertAt(s, i, e) = c \o b
  BY <1>1, <1>2, <1>3 DEF InsertAt
<1>5. /\ c \o b \in Seq(S) /\ Len(c \o b) = Len(c) + Len(b)
      /\ \A j \in 1 .. Len(c) + Len(b) :
            (c \o b)[j] = IF j <= Len(c) THEN c[j] ELSE b[j - Len(c)]
  BY ConcatProperties
<1>6. /\ Len(c) = i /\ Len(b) = Len(s) - i + 1 /\ Len(s) \in Nat /\ i \in 1 .. Len(s) + 1
      /\ \A j \in 1 .. i : c[j] = IF j < i THEN s[j] ELSE e
      /\ \A j \in 1 .. Len(s) - i + 1 : b[j] = s[i + j - 1]
  BY <1>2, <1>3
<1>7. Len(c) + Len(b) = Len(s) + 1
  BY <1>6
<1>8. ASSUME NEW j \in 1 .. Len(s) + 1
      PROVE  (c \o b)[j] = IF j < i THEN s[j] ELSE IF j = i THEN e ELSE s[j - 1]
  <2>1. CASE j <= i
    <3>1. j \in 1 .. i /\ j <= Len(c)
      BY <1>6, <2>1
    <3>2. (c \o b)[j] = c[j]
      BY <1>5, <1>7, <3>1
    <3>3. QED
      BY <1>6, <3>1, <3>2
  <2>2. CASE j > i
    <3>1. j - i \in 1 .. Len(s) - i + 1 /\ i + (j - i) - 1 = j - 1 /\ ~(j <= i)
      BY <1>6, <2>2
    <3>2. (c \o b)[j] = b[j - i]
      BY <1>5, <1>6, <1>7, <3>1
    <3>3. b[j - i] = s[j - 1]
      BY <1>6, <3>1
    <3>4. QED
      BY <2>2, <3>1, <3>2, <3>3
  <2>3. QED
    BY <1>6, <2>1, <2>2
<1>9. DOMAIN (c \o b) = 1 .. Len(s) + 1
  BY <1>5, <1>7
<1>10. QED
  BY <1>4, <1>5, <1>8, <1>9

(* Lists that stay in priority when a hook is removed, or inserted behind  *)
(* those of its priority.                                                  *)
LEMMA StillInPriority ==
    ASSUME NEW s \in Seq(Hooks), InPriority(s)
    PROVE  /\ \A i \in DOMAIN s :
                 RemoveAt(s, i) \in Seq(Hooks) /\ InPriority(RemoveAt(s, i))
           /\ \A i \in 1 .. Len(s) + 1, h \in Hooks :
                 (/\ h \notin Range(s)
                  /\ \A j \in 1 .. i - 1 : Priority[s[j]] >= Priority[h]
                  /\ \A j \in i .. Len(s) : Priority[s[j]] < Priority[h])
                 => InsertAt(s, i, h) \in Seq(Hooks) /\ InPriority(InsertAt(s, i, h))
<1>0. Len(s) \in Nat /\ DOMAIN s = 1 .. Len(s) /\ \A j \in 1 .. Len(s) : s[j] \in Hooks
  OBVIOUS
<1>1. ASSUME NEW i \in DOMAIN s
      PROVE  RemoveAt(s, i) \in Seq(Hooks) /\ InPriority(RemoveAt(s, i))
  <2>1. PICK r \in Seq(Hooks) : /\ r = RemoveAt(s, i) /\ DOMAIN r = 1 .. Len(s) - 1
                               /\ \A j \in 1 .. Len(s) - 1 : r[j] = IF j < i THEN s[j] ELSE s[j + 1]
    BY RemovedAt
  <2>2. ASSUME NEW j \in DOMAIN r, NEW k \in DOMAIN r, j < k
        PROVE  \E m, n \in DOMAIN s : m < n /\ r[j] = s[m] /\ r[k] = s[n]
    <3>1. /\ j \in 1 .. Len(s) - 1 /\ k \in 1 .. Len(s) - 1 /\ i \in 1 .. Len(s)
          /\ r[j] = IF j < i THEN s[j] ELSE s[j + 1]
          /\ r[k] = IF k < i THEN s[k] ELSE s[k + 1]
      BY <1>0, <2>1
    <3>2. CASE k < i
      BY <1>0, <2>2, <3>1, <3>2
    <3>3. CASE j < i /\ ~(k < i)
      <4>1. j < k + 1 /\ k + 1 \in DOMAIN s /\ j \in DOMAIN s
        BY <1>0, <2>2, <3>1, <3>3
      <4>2. QED
        BY <3>1, <3>3, <4>1
    <3>4. CASE ~(j < i)
      <4>1. j + 1 < k + 1 /\ k + 1 \in DOMAIN s /\ j + 1 \in DOMAIN s /\ ~(k < i)
        BY <1>0, <2>2, <3>1, <3>4
      <4>2. QED
        BY <3>1, <3>4, <4>1
    <3>5. QED
      BY <3>2, <3>3, <3>4
  <2>3. InPriority(r)
    BY <2>2 DEF InPriority
  <2>4. QED
    BY <2>1, <2>3
<1>2. ASSUME NEW i \in 1 .. Len(s) + 1, NEW h \in Hooks, h \notin Range(s),
             \A j \in 1 .. i - 1 : Priority[s[j]] >= Priority[h],
             \A j \in i .. Len(s) : Priority[s[j]] < Priority[h]
      PROVE  InsertAt(s, i, h) \in Seq(Hooks) /\ InPriority(InsertAt(s, i, h))
  <2>1. PICK r \in Seq(Hooks) :
           /\ r = InsertAt(s, i, h) /\ DOMAIN r = 1 .. Len(s) + 1
           /\ \A j \in 1 .. Len(s) + 1 :
                 r[j] = IF j < i THEN s[j] ELSE IF j = i THEN h ELSE s[j - 1]
    BY InsertedAt
  <2>2. ASSUME NEW j \in DOMAIN r, NEW k \in DOMAIN r, j < k
        PROVE  r[j] # r[k] /\ Priority[r[j]] >= Priority[r[k]]
    <3>1. /\ j \in 1 .. Len(s) + 1 /\ k \in 1 .. Len(s) + 1 /\ i \in 1 .. Len(s) + 1
          /\ r[j] = IF j < i THEN s[j] ELSE IF j = i THEN h ELSE s[j - 1]
          /\ r[k] = IF k < i THEN s[k] ELSE IF k = i THEN h ELSE s[k - 1]
      BY <2>1
    <3>2. CASE k < i
      BY <1>0, <2>2, <3>1, <3>2 DEF InPriority
    <3>3. CASE k = i
      <4>1. r[k] = h /\ r[j] = s[j] /\ j \in 1 .. i - 1 /\ j \in DOMAIN s
        BY <1>0, <2>2, <3>1, <3>3
      <4>2. s[j] # h
        BY <1>2, <4>1 DEF Range
      <4>3. QED
        BY <1>2, <4>1, <4>2
    <3>4. CASE k > i /\ j = i
      <4>1. r[j] = h /\ r[k] = s[k - 1] /\ k - 1 \in i .. Len(s) /\ k - 1 \in DOMAIN s
        BY <1>0, <2>2, <3>1, <3>4
      <4>2. s[k - 1] # h /\ Priority[s[k - 1]] < Priority[h]
        BY <1>2, <4>1 DEF Range
      <4>3. Priority[s[k - 1]] \in Int /\ Priority[h] \in Int
        BY <1>0, <4>1, ShutdownAssumption
      <4>4. QED
        BY <4>1, <4>2, <4>3
    <3>5. CASE k > i /\ j < i
      <4>1. r[j] = s[j] /\ r[k] = s[k - 1] /\ j < k - 1 /\ j \in DOMAIN s /\ k - 1 \in DOMAIN s
        BY <1>0, <2>2, <3>1, <3>5
      <4>2. QED
        BY <4>1 DEF InPriority
    <3>6. CASE j > i
      <4>1. /\ r[j] = s[j - 1] /\ r[k] = s[k - 1] /\ j - 1 < k - 1
            /\ j - 1 \in DOMAIN s /\ k - 1 \in DOMAIN s
        BY <1>0, <2>2, <3>1, <3>6
      <4>2. QED
        BY <4>1 DEF InPriority
    <3>7. QED
      BY <2>2, <3>1, <3>2, <3>3, <3>4, <3>5, <3>6
  <2>3. InPriority(r)
    BY <2>2 DEF InPriority
  <2>4. QED
    BY <2>1, <2>3
<1>3. QED
  BY <1>1, <1>2

(* The first hook starts, or there is none.                                *)
LEMMA FirstHook ==
    ASSUME HookInv, pos = 0, state # "SHUTDOWN", began' = Range(hooks), RunFrom(1),
           UNCHANGED <<hooks, loop, detached, late>>
    PROVE  HookInv'
<1>1. /\ hooks \in Seq(Hooks) /\ loop \in Seq(Hooks) /\ started = <<>> /\ ~detached
      /\ InPriority(hooks) /\ InPriority(loop) /\ late \in Nat /\ detached \in BOOLEAN
  BY DEF HookInv
<1>2. Walked = hooks /\ Walked' = hooks
  BY <1>1 DEF Walked
<1>3. InPriority(hooks)' /\ InPriority(loop)'
  BY <1>1 DEF InPriority
<1>4. CASE 1 <= Len(hooks)
  <2>1. pos' = 1 /\ started' = Append(<<>>, hooks[1]) /\ state' = "SHUTTING_DOWN"
    BY <1>1, <1>2, <1>4 DEF RunFrom
  <2>2. hooks[1] \in Hooks
    BY <1>1, <1>4
  <2>3. started' \in Seq(Hooks) /\ Len(started') = 1 /\ started'[1] = hooks[1]
    BY <2>1, <2>2
  <2>4. Range(started') = {hooks[1]}
    BY <2>3 DEF Range
  <2>5. HooksComplete'
    BY <2>1, <2>3 DEF HooksComplete
  <2>6. \A i \in 1 .. pos' : i = 1
    BY <2>1
  <2>7. QED
    BY <1>1, <1>2, <1>3, <1>4, <2>1, <2>3, <2>4, <2>5, <2>6 DEF HookInv
<1>5. CASE ~(1 <= Len(hooks))
  <2>1. pos' = 0 /\ state' = "SHUTDOWN" /\ started' = <<>>
    BY <1>1, <1>2, <1>5 DEF RunFrom
  <2>2. Range(hooks) = {}
    BY <1>1, <1>5 DEF Range
  <2>3. HooksComplete'
    BY <2>1, <2>2 DEF HooksComplete
  <2>4. QED
    BY <1>1, <1>3, <2>1, <2>3 DEF HookInv
<1>6. QED
  BY <1>4, <1>5

(* The list the loop walks.                                                *)
LEMMA WalkedList ==
    ASSUME HookInv
    PROVE  Walked \in Seq(Hooks) /\ InPriority(Walked) /\ Len(Walked) \in Nat
<1>1. CASE detached
  BY <1>1 DEF HookInv, Walked
<1>2. CASE ~detached
  BY <1>2 DEF HookInv, Walked
<1>3. QED
  BY <1>1, <1>2

(* A hook ends and the next one starts, or the shutdown is complete.       *)
LEMMA NextHook ==
    ASSUME HookInv, HookEnds
    PROVE  HookInv'
<1>1. /\ pos > 0 /\ pos \in Nat /\ pos <= Len(Walked) /\ began \subseteq Range(Walked)
      /\ started \in Seq(Hooks) /\ late \in Nat
      /\ \A i \in 1 .. pos : Walked[i] \in began => Walked[i] \in Range(started)
      /\ late = 0 => Len(started) = pos /\ \A i \in 1 .. pos : started[i] = Walked[i]
  BY DEF HookInv, HookEnds
<1>2. UNCHANGED <<hooks, loop, detached, began, late>> /\ RunFrom(pos + 1)
  BY DEF HookEnds
<1>3. PICK W \in Seq(Hooks) : W = Walked /\ Walked' = W /\ InPriority(W) /\ Len(W) \in Nat
  BY <1>2, WalkedList DEF Walked
<1>4. /\ hooks' \in Seq(Hooks) /\ loop' \in Seq(Hooks) /\ detached' \in BOOLEAN
      /\ InPriority(hooks)' /\ InPriority(loop)'
  BY <1>2 DEF HookInv, InPriority
<1>5. CASE pos + 1 <= Len(W)
  <2>1. pos' = pos + 1 /\ started' = Append(started, W[pos + 1]) /\ state' = "SHUTTING_DOWN"
    BY <1>2, <1>3, <1>5 DEF RunFrom
  <2>2. W[pos + 1] \in Hooks
    BY <1>1, <1>3, <1>5
  <2>3. PICK n \in Nat : n = Len(started)
    BY <1>1
  <2>4. /\ started' \in Seq(Hooks) /\ Len(started') = n + 1 /\ started'[n + 1] = W[pos + 1]
        /\ DOMAIN started = 1 .. n /\ DOMAIN started' = 1 .. n + 1
        /\ \A i \in 1 .. n : started'[i] = started[i]
    BY <1>1, <2>1, <2>2, <2>3
  <2>5. Range(started) \subseteq Range(started') /\ W[pos + 1] \in Range(started')
    <3>1. n + 1 \in DOMAIN started' /\ \A i \in DOMAIN started : i \in DOMAIN started'
      BY <2>3, <2>4
    <3>2. QED
      BY <2>4, <3>1 DEF Range
  <2>6. ASSUME NEW i \in 1 .. pos + 1, W[i] \in began PROVE W[i] \in Range(started')
    <3>1. i = pos + 1 \/ i \in 1 .. pos
      BY <1>1
    <3>2. QED
      BY <1>1, <1>3, <2>5, <2>6, <3>1
  <2>7. ASSUME late = 0
        PROVE  Len(started') = pos + 1 /\ \A i \in 1 .. pos + 1 : started'[i] = W[i]
    <3>1. n = pos
      BY <1>1, <2>3, <2>7
    <3>2. ASSUME NEW i \in 1 .. pos + 1 PROVE started'[i] = W[i]
      <4>1. i = pos + 1 \/ i \in 1 .. pos
        BY <1>1
      <4>2. QED
        BY <1>1, <1>3, <2>4, <2>7, <3>1, <4>1
    <3>3. QED
      BY <2>4, <3>1, <3>2
  <2>8. HooksComplete'
    <3>1. ASSUME late = 0, NEW i \in DOMAIN started', NEW j \in DOMAIN started', i < j
          PROVE  started'[i] # started'[j] /\ Priority[started'[i]] >= Priority[started'[j]]
      <4>1. /\ i \in 1 .. pos + 1 /\ j \in 1 .. pos + 1
            /\ started'[i] = W[i] /\ started'[j] = W[j]
        <5>1. n = pos
          BY <1>1, <2>3, <3>1
        <5>2. QED
          BY <2>4, <2>7, <3>1, <5>1
      <4>2. i \in DOMAIN W /\ j \in DOMAIN W
        BY <1>1, <1>3, <1>5, <4>1
      <4>3. QED
        BY <1>3, <3>1, <4>1, <4>2 DEF InPriority
    <3>2. QED
      BY <1>2, <2>1, <3>1 DEF HooksComplete
  <2>9. pos' \in Nat /\ pos' <= Len(W) /\ late' = late /\ began' = began
    BY <1>1, <1>2, <1>5, <2>1
  <2>10. QED
    BY <1>1, <1>3, <1>4, <2>1, <2>4, <2>6, <2>7, <2>8, <2>9 DEF HookInv
<1>6. CASE ~(pos + 1 <= Len(W))
  <2>1. pos' = 0 /\ state' = "SHUTDOWN" /\ started' = started
    BY <1>2, <1>3, <1>6 DEF RunFrom
  <2>2. DOMAIN W = 1 .. pos
    BY <1>1, <1>3, <1>6
  <2>3. began \subseteq Range(started)
    BY <1>1, <1>3, <2>2 DEF Range
  <2>4. HooksComplete'
    BY <1>2, <2>1, <2>3 DEF HookInv, HooksComplete
  <2>5. QED
    BY <1>1, <1>2, <1>4, <2>1, <2>4 DEF HookInv
<1>7. QED
  BY <1>5, <1>6

(* remove_hook: the loop, if it runs, goes on with the list it has.        *)
LEMMA HookRemoved ==
    ASSUME HookInv, state # "SHUTDOWN", NEW h \in Hooks, RemoveHook(h)
    PROVE  HookInv'
<1>1. UNCHANGED <<state, pos, began, started, late>>
  BY DEF RemoveHook
<1>2. hooks' \in Seq(Hooks) /\ InPriority(hooks)'
  <2>1. hooks \in Seq(Hooks) /\ InPriority(hooks)
    BY DEF HookInv
  <2>2. CASE hooks' = hooks
    BY <2>1, <2>2 DEF InPriority
  <2>3. CASE \E i \in DOMAIN hooks : hooks' = RemoveAt(hooks, i)
    <3>1. PICK i \in DOMAIN hooks : hooks' = RemoveAt(hooks, i)
      BY <2>3
    <3>2. RemoveAt(hooks, i) \in Seq(Hooks) /\ InPriority(RemoveAt(hooks, i))
      BY <2>1, StillInPriority
    <3>3. QED
      BY <3>1, <3>2 DEF InPriority
  <2>4. QED
    BY <2>2, <2>3 DEF RemoveHook
<1>3. /\ \/ pos > 0 /\ ~detached /\ detached' = TRUE /\ loop' = hooks
         \/ ~(pos > 0 /\ ~detached) /\ detached' = detached /\ loop' = loop
  BY DEF RemoveHook
<1>4. loop' \in Seq(Hooks) /\ InPriority(loop)' /\ detached' \in BOOLEAN
  BY <1>3 DEF HookInv, InPriority
<1>5. pos > 0 => Walked' = Walked
  BY <1>3 DEF Walked
<1>6. HooksComplete'
  BY <1>1 DEF HookInv, HooksComplete
<1>7. pos = 0 => started' = <<>> /\ ~detached'
  BY <1>1, <1>3 DEF HookInv
<1>8. CASE pos > 0
  BY <1>1, <1>2, <1>4, <1>5, <1>6, <1>8 DEF HookInv
<1>9. CASE ~(pos > 0)
  BY <1>1, <1>2, <1>4, <1>6, <1>7, <1>9 DEF HookInv
<1>10. QED
  BY <1>8, <1>9

(* add_hook: a hook inserted before the index makes the loop run the       *)
(* current one again, and none is skipped.                                 *)
LEMMA HookAdded ==
    ASSUME HookInv, state # "SHUTDOWN", NEW h \in Hooks, AddHook(h)
    PROVE  HookInv'
<1>1. UNCHANGED <<state, loop, detached, pos, began, started>>
  BY DEF AddHook
<1>2. hooks \in Seq(Hooks) /\ InPriority(hooks) /\ h \notin Range(hooks)
  BY DEF HookInv, AddHook, Registered
<1>3. PICK i \in 1 .. Len(hooks) + 1 :
         /\ \A j \in 1 .. i - 1 : Priority[hooks[j]] >= Priority[h]
         /\ \A j \in i .. Len(hooks) : Priority[hooks[j]] < Priority[h]
         /\ hooks' = InsertAt(hooks, i, h)
  BY DEF AddHook
<1>4. hooks' \in Seq(Hooks) /\ InPriority(hooks)'
  <2>1. InsertAt(hooks, i, h) \in Seq(Hooks) /\ InPriority(InsertAt(hooks, i, h))
    BY <1>2, <1>3, StillInPriority
  <2>2. QED
    BY <1>3, <2>1 DEF InPriority
<1>5. loop' \in Seq(Hooks) /\ InPriority(loop)' /\ detached' \in BOOLEAN /\ started' \in Seq(Hooks)
  BY <1>1 DEF HookInv, InPriority
<1>6. late' \in Nat /\ (pos > 0 => late' # 0) /\ (pos = 0 => late' = late)
  BY DEF HookInv, AddHook
<1>7. CASE ~(pos > 0)
  <2>1. pos' = 0 /\ pos = 0
    BY <1>1, <1>7 DEF HookInv
  <2>2. started' = <<>> /\ ~detached'
    BY <1>1, <2>1 DEF HookInv
  <2>3. HooksComplete'
    BY <1>1, <2>2 DEF HooksComplete
  <2>4. QED
    BY <1>4, <1>5, <1>6, <2>1, <2>2, <2>3 DEF HookInv
<1>8. CASE pos > 0
  <2>1. HooksComplete'
    BY <1>1, <1>6, <1>8 DEF HooksComplete
  <2>2. /\ pos \in Nat /\ pos <= Len(Walked) /\ began \subseteq Range(Walked)
        /\ \A k \in 1 .. pos : Walked[k] \in began => Walked[k] \in Range(started)
    BY <1>8 DEF HookInv
  <2>3. /\ pos <= Len(Walked') /\ began \subseteq Range(Walked')
        /\ \A k \in 1 .. pos : Walked'[k] \in began => Walked'[k] \in Range(started)
    <3>1. CASE detached
      <4>1. Walked' = Walked
        BY <1>1, <3>1 DEF Walked
      <4>2. QED
        BY <2>2, <4>1
    <3>2. CASE ~detached
      <4>1. Walked = hooks /\ Walked' = hooks'
        BY <1>1, <3>2 DEF Walked
      <4>2. PICK n \in Nat : n = Len(hooks) /\ DOMAIN hooks = 1 .. n /\ i \in 1 .. n + 1
        BY <1>2, <1>3
      <4>3. /\ DOMAIN hooks' = 1 .. n + 1 /\ Len(hooks') = n + 1
            /\ \A k \in 1 .. n + 1 :
                  hooks'[k] = IF k < i THEN hooks[k] ELSE IF k = i THEN h ELSE hooks[k - 1]
        <5>1. /\ DOMAIN InsertAt(hooks, i, h) = 1 .. n + 1
              /\ \A k \in 1 .. n + 1 :
                    InsertAt(hooks, i, h)[k] =
                       IF k < i THEN hooks[k] ELSE IF k = i THEN h ELSE hooks[k - 1]
          <6>1. ASSUME NEW q \in Seq(Hooks), NEW j \in 1 .. Len(q) + 1
                PROVE  /\ DOMAIN InsertAt(q, j, h) = 1 .. Len(q) + 1
                       /\ \A k \in 1 .. Len(q) + 1 :
                             InsertAt(q, j, h)[k] =
                                IF k < j THEN q[k] ELSE IF k = j THEN h ELSE q[k - 1]
            BY InsertedAt
          <6>2. hooks \in Seq(Hooks) /\ n = Len(hooks) /\ i \in 1 .. Len(hooks) + 1
            BY <1>2, <1>3, <4>2
          <6>3. QED
            BY <6>1, <6>2
        <5>2. Len(hooks') = n + 1
          BY <1>3, <1>4, <4>2, <5>1
        <5>3. QED
          BY <1>3, <5>1, <5>2
      <4>4. pos <= Len(hooks')
        BY <2>2, <4>1, <4>2, <4>3
      <4>5. ASSUME NEW g \in began PROVE g \in Range(hooks')
        <5>1. PICK k \in 1 .. n : hooks[k] = g
          BY <2>2, <4>1, <4>2 DEF Range
        <5>2. CASE k < i
          BY <4>2, <4>3, <5>1, <5>2 DEF Range
        <5>3. CASE ~(k < i)
          <6>1. k + 1 \in 1 .. n + 1 /\ ~(k + 1 < i) /\ k + 1 # i /\ (k + 1) - 1 = k
            BY <4>2, <5>3
          <6>2. hooks'[k + 1] = g
            BY <4>3, <5>1, <6>1
          <6>3. QED
            BY <4>3, <6>1, <6>2 DEF Range
        <5>4. QED
          BY <5>2, <5>3
      <4>6. h \notin began
        BY <1>2, <2>2, <4>1
      <4>7. ASSUME NEW k \in 1 .. pos, hooks'[k] \in began PROVE hooks'[k] \in Range(started)
        <5>1. k \in 1 .. n + 1
          BY <2>2, <4>1, <4>2
        <5>2. CASE k < i
          BY <2>2, <4>1, <4>3, <4>7, <5>1, <5>2
        <5>3. CASE k = i
          BY <4>3, <4>6, <4>7, <5>1, <5>3
        <5>4. CASE k > i
          <6>1. k - 1 \in 1 .. pos /\ ~(k < i) /\ k # i
            BY <2>2, <4>2, <5>4
          <6>2. hooks'[k] = hooks[k - 1]
            BY <4>3, <5>1, <6>1
          <6>3. QED
            BY <2>2, <4>1, <4>7, <6>1, <6>2
        <5>5. QED
          BY <4>2, <5>1, <5>2, <5>3, <5>4
      <4>8. QED
        BY <4>1, <4>4, <4>5, <4>7
    <3>3. QED
      BY <3>1, <3>2
  <2>4. QED
    BY <1>1, <1>4, <1>5, <1>6, <1>8, <2>1, <2>2, <2>3 DEF HookInv
<1>9. QED
  BY <1>7, <1>8

(* No step of the service breaks HookInv.                                  *)
LEMMA HooksInductive ==
    ASSUME HookInv, [ServiceNext]_serviceVars
    PROVE  HookInv'
<1>1. ASSUME UNCHANGED handlerVars PROVE HookInv'
  BY <1>1 DEF handlerVars, HookInv, InPriority, Walked, HooksComplete
<1>2. ASSUME NEW r \in Requests,
             \/ RequestArrives(r) \/ RequestLooksUp(r) \/ OrderRuns(r) \/ SecondCallFails(r)
             \/ AnswerIsKept(r) \/ RequestIsCancelled(r) \/ RequestDeparts(r)
      PROVE  UNCHANGED handlerVars
  BY <1>2 DEF RequestArrives, Enter, Reject, RequestLooksUp, OrderRuns, SecondCallFails,
              AnswerIsKept, RequestIsCancelled, RequestDeparts, Leave, shutdownVars
<1>3. ASSUME NEW k \in Keys, RecordIsLost(k) PROVE UNCHANGED handlerVars
  BY <1>3 DEF RecordIsLost, shutdownVars
<1>4. ASSUME state # "SHUTDOWN", HandlerStep PROVE HookInv'
  <2>1. ASSUME NEW h \in Hooks, AddHook(h) \/ RemoveHook(h) PROVE HookInv'
    BY <1>4, <2>1, HookAdded, HookRemoved
  <2>2. CASE BeginShutdown
    <3>1. state = "RUNNING" /\ UNCHANGED <<hooks, loop, detached, late>>
      BY <2>2 DEF BeginShutdown
    <3>2. CASE pos = 0 /\ inFlight = 0
      BY <1>4, <2>2, <3>1, <3>2, FirstHook DEF BeginShutdown
    <3>3. CASE inFlight # 0
      <4>1. state' = "SHUTTING_DOWN" /\ UNCHANGED <<pos, started, began>>
        BY <2>2, <3>3 DEF BeginShutdown
      <4>2. QED
        BY <3>1, <4>1 DEF HookInv, InPriority, Walked, HooksComplete
    <3>4. pos = 0 /\ state # "SHUTDOWN"
      BY <3>1 DEF HookInv
    <3>5. QED
      BY <3>2, <3>3, <3>4
  <2>3. ASSUME NEW why \in {"event", "timeout"}, DrainEnds(why) PROVE HookInv'
    BY <1>4, <2>3, FirstHook DEF DrainEnds, Draining
  <2>4. CASE HookEnds
    BY <2>4, NextHook
  <2>5. QED
    BY <1>4, <2>1, <2>2, <2>3, <2>4 DEF HandlerStep
<1>5. CASE UNCHANGED serviceVars
  BY <1>1, <1>5 DEF serviceVars, shutdownVars
<1>6. QED
  BY <1>1, <1>2, <1>3, <1>4, <1>5 DEF ServiceNext, HandlerActs

(* However many hooks are added and removed while the loop walks its list, *)
(* a completed shutdown has run every hook that was there when it began;   *)
(* and each once, by priority, if none was added.                          *)
THEOREM ShutdownRunsHooks == ServiceSpec => []HooksComplete
<1>1. HookInv => HooksComplete
  BY DEF HookInv
<1>2. QED
  BY <1>1, HooksInitially, HooksInductive, PTL DEF ServiceSpec

(***************************************************************************)
(* Idempotency.                                                            *)
(***************************************************************************)

(* The first execution of u has ended with an answer that may be stored.   *)
Backed(u) == step[<<u, 1>>] = "ok" \/ (step[<<u, 1>>] = "err" /\ u \in Direct)

(* A payment of u stands, and no call of it failed without telling.        *)
Paid(u) == <<u, 1>> \in charged /\ doubt[<<u, 1>>] \cap {"pay", "refund"} = {}

Active(u) == at[u] \in {"run", "store", "again"}

(* How far the executions of u are.                                        *)
Executed(u) ==
    /\ at[u] \in {"out", "replayed", "conflict"} => step[<<u, 1>>] = "check"
    /\ at[u] = "run" => step[<<u, 1>>] \in P!Calls
    /\ at[u] = "store" => Backed(u)
    /\ at[u] = "again" \/ step[<<u, 2>>] # "check" => excuse[KeyOf[u]] # {}

Stored(k) ==
    record[k] # NoRecord =>
       record[k] \in Requests /\ KeyOf[record[k]] = k /\ Backed(record[k])

Replayed(u) ==
    at[u] = "replayed" =>
       /\ answer[u] \in Requests /\ hash[answer[u]] = hash[u]
       /\ KeyOf[answer[u]] = KeyOf[u] /\ Backed(answer[u])

(* Under a key nothing excuses, one request at a time runs the operation,  *)
(* none does while a record is there, and a payment leads to a record.     *)
Once(u) ==
    excuse[KeyOf[u]] = {} =>
       /\ Active(u) => record[KeyOf[u]] = NoRecord
       /\ Paid(u) => Active(u) \/ record[KeyOf[u]] # NoRecord
       /\ \A v \in Requests \ {u} :
             KeyOf[v] = KeyOf[u] => ~(Active(u) /\ Active(v)) /\ ~(Paid(u) /\ Paid(v))

KeyInv ==
    /\ I!IdempotencyTypeOK
    /\ \A u \in Requests : Executed(u) /\ Replayed(u) /\ Once(u)
    /\ \A k \in Keys : Stored(k)

(* No request has looked its key up.                                       *)
LEMMA KeysInitially ==
    ASSUME ServiceInit
    PROVE  KeyInv
<1> USE DEF ServiceInit, I!IdempotencyInit, P!OrderInit
<1>1. I!IdempotencyTypeOK
  BY DEF I!IdempotencyTypeOK, I!Places
<1>2. \A u \in Requests : Executed(u) /\ Replayed(u) /\ Once(u)
  BY ServiceAssumption DEF Executed, Replayed, Once, Paid, Active, Orders, P!Calls
<1>3. \A k \in Keys : Stored(k)
  BY DEF Stored
<1>4. QED
  BY <1>1, <1>2, <1>3 DEF KeyInv

(* Every step keeps the types of the idempotency state.                    *)
LEMMA KeyTypes ==
    ASSUME KeyInv, [ServiceNext]_serviceVars
    PROVE  I!IdempotencyTypeOK'
<1> USE ServiceAssumption DEF KeyInv, I!IdempotencyTypeOK, I!Places, I!Excuses, I!Goes, I!Excused, I!RedisFails, I!Written
<1>1. CASE UNCHANGED keyVars
  BY <1>1 DEF keyVars
<1>2. ASSUME NEW r \in Requests, I!Look(r)
      PROVE  I!IdempotencyTypeOK'
  BY <1>2 DEF I!Look, I!LookAndRun, I!LookFails, I!LookAndReplay
<1>3. ASSUME NEW r \in Requests, NEW success \in BOOLEAN, I!OperationReturns(r, success)
      PROVE  I!IdempotencyTypeOK'
  BY <1>3 DEF I!OperationReturns
<1>4. ASSUME NEW r \in Requests, I!OperationRaises(r)
      PROVE  I!IdempotencyTypeOK'
  BY <1>4 DEF I!OperationRaises
<1>5. ASSUME NEW r \in Requests, I!Finish(r)
      PROVE  I!IdempotencyTypeOK'
  BY <1>5 DEF I!Finish, I!BodyUnreadable, I!Store, I!StoreFails
<1>6. ASSUME NEW r \in Requests, I!CancelRequest(r)
      PROVE  I!IdempotencyTypeOK'
  BY <1>6 DEF I!CancelRequest
<1>7. ASSUME NEW k \in Keys, I!RecordGone(k)
      PROVE  I!IdempotencyTypeOK'
  BY <1>7 DEF I!RecordGone
<1>8. QED
  BY <1>1, <1>2, <1>3, <1>4, <1>5, <1>6, <1>7
     DEF ServiceNext, serviceVars, RequestArrives, RequestLooksUp, OrderRuns, SecondCallFails,
         AnswerIsKept, RequestIsCancelled, RequestDeparts, RecordIsLost, HandlerActs

(* A step that excuses the key it is about keeps Once for all keys.        *)
LEMMA ExcusedOnce ==
    ASSUME KeyInv, NEW k \in Keys, excuse'[k] # {},
           \A u \in Requests : KeyOf[u] # k =>
              /\ Active(u)' <=> Active(u)
              /\ Paid(u)' <=> Paid(u)
              /\ excuse'[KeyOf[u]] = excuse[KeyOf[u]]
              /\ record'[KeyOf[u]] = record[KeyOf[u]]
    PROVE  \A u \in Requests : Once(u)'
<1> TAKE u \in Requests
<1>1. CASE KeyOf[u] = k
  BY <1>1 DEF Once
<1>2. CASE KeyOf[u] # k
  BY <1>2 DEF Once, KeyInv
<1>3. QED
  BY <1>1, <1>2

(* A request looks its key up.                                             *)
LEMMA LookKeeps ==
    ASSUME KeyInv, OrderInv, NEW r \in Requests, I!Look(r), UNCHANGED orderVars,
           I!IdempotencyTypeOK'
    PROVE  KeyInv'
<1> USE ServiceAssumption DEF KeyInv, I!IdempotencyTypeOK, I!Goes, I!Excused, orderVars
<1>1. \A u \in Requests : (Backed(u)' <=> Backed(u)) /\ (Paid(u)' <=> Paid(u))
  BY DEF Backed, Paid
<1>2. at[r] = "out" /\ step[<<r, 1>>] = "check"
  BY DEF I!Look, I!LookAndRun, I!LookFails, I!LookAndReplay, Executed
<1>3. ~Paid(r)
  BY <1>2 DEF OrderInv, LeftAt, Orders, Paid
<1>4. CASE I!LookAndRun(r)
  <2> USE <1>4 DEF I!LookAndRun
  <2>1. ASSUME NEW u \in Requests
        PROVE  Executed(u)' /\ Replayed(u)'
    BY <1>1, <1>2 DEF Executed, Replayed, P!Calls
  <2>2. ASSUME NEW u \in Requests
        PROVE  Once(u)'
    <3>1. \A v \in Requests \ {r} : Active(v)' <=> Active(v)
      BY DEF Active
    <3>2. excuse'[KeyOf[r]] = {} =>
             excuse[KeyOf[r]] = {} /\ \A v \in Requests : KeyOf[v] = KeyOf[r] => ~Active(v)
      BY DEF I!Busy, Active
    <3>3. \A k \in Keys \ {KeyOf[r]} : excuse'[k] = excuse[k]
      OBVIOUS
    <3>4. CASE u = r
      BY <1>1, <1>3, <3>1, <3>2, <3>4 DEF Once
    <3>5. CASE u # r /\ KeyOf[u] = KeyOf[r]
      BY <1>1, <1>3, <3>1, <3>2, <3>5 DEF Once
    <3>6. CASE KeyOf[u] # KeyOf[r]
      BY <1>1, <3>1, <3>3, <3>6 DEF Once
    <3>7. QED
      BY <3>4, <3>5, <3>6
  <2>3. ASSUME NEW k \in Keys
        PROVE  Stored(k)'
    BY <1>1 DEF Stored
  <2>4. QED
    BY <2>1, <2>2, <2>3
<1>5. CASE I!LookFails(r)
  <2> USE <1>5 DEF I!LookFails
  <2>1. ASSUME NEW u \in Requests
        PROVE  Executed(u)' /\ Replayed(u)'
    BY <1>1, <1>2 DEF Executed, Replayed, P!Calls
  <2>2. ASSUME NEW u \in Requests
        PROVE  Once(u)'
    BY <1>1, <1>2, <1>3 DEF Once, Active
  <2>3. ASSUME NEW k \in Keys
        PROVE  Stored(k)'
    BY <1>1 DEF Stored
  <2>4. QED
    BY <2>1, <2>2, <2>3
<1>6. CASE I!LookAndReplay(r)
  <2> USE <1>6 DEF I!LookAndReplay
  <2>1. ASSUME NEW u \in Requests
        PROVE  Executed(u)'
    BY <1>1, <1>2 DEF Executed
  <2>2. ASSUME NEW u \in Requests
        PROVE  Replayed(u)'
    BY <1>1, <1>2 DEF Replayed, Stored
  <2>3. ASSUME NEW u \in Requests
        PROVE  Once(u)'
    BY <1>1, <1>2, <1>3 DEF Once, Active
  <2>4. ASSUME NEW k \in Keys
        PROVE  Stored(k)'
    BY <1>1 DEF Stored
  <2>5. QED
    BY <2>1, <2>2, <2>3, <2>4
<1>7. QED
  BY <1>4, <1>5, <1>6 DEF I!Look

(* A request keeps its answer, or fails to.                                *)
LEMMA FinishKeeps ==
    ASSUME KeyInv, NEW r \in Requests, I!Finish(r), UNCHANGED orderVars,
           I!IdempotencyTypeOK'
    PROVE  KeyInv'
<1> USE ServiceAssumption DEF KeyInv, I!IdempotencyTypeOK, I!Goes, I!Excused, orderVars
<1>1. \A u \in Requests : (Backed(u)' <=> Backed(u)) /\ (Paid(u)' <=> Paid(u))
  BY DEF Backed, Paid
<1>2. at[r] = "store" /\ Backed(r)
  BY DEF I!Finish, I!BodyUnreadable, I!Store, I!StoreFails, Executed
<1>3. ASSUME NEW u \in Requests
      PROVE  Executed(u)' /\ Replayed(u)'
  <2>1. CASE I!BodyUnreadable(r)
    BY <1>1, <1>2, <2>1 DEF I!BodyUnreadable, Executed, Replayed
  <2>2. CASE I!Store(r)
    BY <1>1, <1>2, <2>2 DEF I!Store, Executed, Replayed
  <2>3. CASE I!StoreFails(r)
    BY <1>1, <1>2, <2>3 DEF I!StoreFails, Executed, Replayed
  <2>4. QED
    BY <2>1, <2>2, <2>3 DEF I!Finish
<1>4. ASSUME NEW u \in Requests
      PROVE  Once(u)'
  <2>1. CASE I!Store(r)
    <3> USE <2>1 DEF I!Store, I!Written
    <3>1. ~Active(r)' /\ Active(r) /\ \A v \in Requests \ {r} : Active(v)' <=> Active(v)
      BY <1>2 DEF Active
    <3>2. record'[KeyOf[r]] # NoRecord /\ \A k \in Keys \ {KeyOf[r]} : record'[k] = record[k]
      OBVIOUS
    <3>3. excuse[KeyOf[r]] = {} =>
             \A v \in Requests \ {r} : KeyOf[v] = KeyOf[r] => ~Active(v)
      BY <3>1 DEF Once
    <3>4. CASE KeyOf[u] = KeyOf[r]
      BY <1>1, <3>1, <3>2, <3>3, <3>4 DEF Once
    <3>5. CASE KeyOf[u] # KeyOf[r]
      BY <1>1, <3>1, <3>2, <3>5 DEF Once
    <3>6. QED
      BY <3>4, <3>5
  <2>2. CASE I!BodyUnreadable(r) \/ I!StoreFails(r)
    <3>1. \E why \in {"again", "unstored"} : why \in excuse'[KeyOf[r]]
      BY <2>2 DEF I!BodyUnreadable, I!StoreFails
    <3>2. KeyOf[r] \in Keys /\ excuse'[KeyOf[r]] # {}
      BY <3>1
    <3>3. ASSUME NEW v \in Requests, KeyOf[v] # KeyOf[r]
          PROVE  /\ Active(v)' <=> Active(v)
                 /\ excuse'[KeyOf[v]] = excuse[KeyOf[v]]
                 /\ record'[KeyOf[v]] = record[KeyOf[v]]
      BY <2>2, <3>3 DEF I!BodyUnreadable, I!StoreFails, I!Written, Active
    <3>4. QED
      <4> HIDE DEF KeyInv
      <4>1. QED
        BY <1>1, <3>2, <3>3, ExcusedOnce
  <2>3. QED
    BY <2>1, <2>2 DEF I!Finish
<1>5. ASSUME NEW k \in Keys
      PROVE  Stored(k)'
  BY <1>1, <1>2 DEF I!Finish, I!BodyUnreadable, I!Store, I!StoreFails, I!Written, Stored
<1>6. QED
  BY <1>3, <1>4, <1>5

(* delete_record, or the end of a record's time to live.                   *)
LEMMA LossKeeps ==
    ASSUME KeyInv, NEW k \in Keys, I!RecordGone(k), UNCHANGED orderVars,
           I!IdempotencyTypeOK'
    PROVE  KeyInv'
<1> USE ServiceAssumption DEF KeyInv, I!IdempotencyTypeOK, I!Excused, orderVars, I!RecordGone
<1>1. \A u \in Requests : (Backed(u)' <=> Backed(u)) /\ (Paid(u)' <=> Paid(u))
  BY DEF Backed, Paid
<1>2. ASSUME NEW u \in Requests
      PROVE  Executed(u)' /\ Replayed(u)'
  BY <1>1 DEF Executed, Replayed
<1>3. \A u \in Requests : Once(u)'
  <2>1. \A u \in Requests : Active(u)' <=> Active(u)
    BY DEF Active
  <2>2. "lost" \in excuse'[k]
    OBVIOUS
  <2>3. \A c \in Keys \ {k} : excuse'[c] = excuse[c] /\ record'[c] = record[c]
    OBVIOUS
  <2>4. QED
    <3> HIDE DEF KeyInv
    <3>1. QED
      BY <1>1, <2>1, <2>2, <2>3, ExcusedOnce
<1>4. ASSUME NEW c \in Keys
      PROVE  Stored(c)'
  BY <1>1 DEF Stored
<1>5. QED
  BY <1>2, <1>3, <1>4

(* What a call of an execution of r leaves of every other request.         *)
LEMMA OthersRun ==
    ASSUME OrderInv, NEW r \in Requests, NEW i \in {1, 2}, NEW o, o = <<r, i>>,
           P!Execute(o) \/ P!CancelOrder(o)
    PROVE  /\ step[<<r, i>>] \in P!Calls
           /\ \A j \in {1, 2} \ {i} : step'[<<r, j>>] = step[<<r, j>>]
           /\ i = 2 => (Backed(r)' <=> Backed(r)) /\ (Paid(r)' <=> Paid(r))
           /\ \A u \in Requests \ {r} :
                 /\ step'[<<u, 1>>] = step[<<u, 1>>] /\ step'[<<u, 2>>] = step[<<u, 2>>]
                 /\ Backed(u)' <=> Backed(u)
                 /\ Paid(u)' <=> Paid(u)
<1>1. o \in Orders
  BY DEF Orders
<1>2. \A u \in Requests, j \in {1, 2} : u # r \/ j # i => <<u, j>> \in Orders \ {o}
  BY DEF Orders
<1>3. /\ step[o] \in P!Calls
      /\ \A p \in Orders \ {o} :
            /\ step'[p] = step[p] /\ doubt'[p] = doubt[p]
            /\ p \in charged' <=> p \in charged
  BY <1>1, OrderFrame DEF OrderInv
<1>4. QED
  BY <1>2, <1>3 DEF Backed, Paid

(* While one request runs the operation, nobody else has paid.             *)
LEMMA RunOnce ==
    ASSUME KeyInv, NEW r \in Requests, Active(r), Active(r)' \/ ~Paid(r)',
           UNCHANGED <<record, excuse>>,
           \A u \in Requests \ {r} : (Active(u)' <=> Active(u)) /\ (Paid(u)' <=> Paid(u))
    PROVE  \A u \in Requests : Once(u)'
<1> TAKE u \in Requests
<1>1. CASE KeyOf[u] # KeyOf[r]
  BY <1>1 DEF KeyInv, Once
<1>2. CASE KeyOf[u] = KeyOf[r] /\ excuse[KeyOf[r]] = {}
  <2>1. record[KeyOf[r]] = NoRecord
    BY <1>2 DEF KeyInv, Once
  <2>2. \A v \in Requests \ {r} : KeyOf[v] = KeyOf[r] => ~Active(v) /\ ~Paid(v)
    BY <1>2, <2>1 DEF KeyInv, Once
  <2>3. QED
    BY <1>2, <2>1, <2>2 DEF Once
<1>3. CASE KeyOf[u] = KeyOf[r] /\ excuse[KeyOf[r]] # {}
  BY <1>3 DEF Once
<1>4. QED
  BY <1>1, <1>2, <1>3

(* An execution makes a call.                                              *)
LEMMA RunKeeps ==
    ASSUME KeyInv, OrderInv, OrderInv', NEW r \in Requests, OrderRuns(r),
           I!IdempotencyTypeOK'
    PROVE  KeyInv'
<1> DEFINE i == IF at[r] = "again" THEN 2 ELSE 1
<1>1. PICK o \in {Running(r)} :
         /\ P!Execute(o)
         /\ \/ step'[o] = "ok" /\ I!OperationReturns(r, TRUE)
            \/ step'[o] = "err" /\ I!OperationReturns(r, FALSE)
            \/ step'[o] = "raised" /\ I!OperationRaises(r)
            \/ step'[o] \in P!Calls /\ UNCHANGED keyVars
  BY DEF OrderRuns
<1>2. /\ o = <<r, i>>
      /\ \/ i = 1 /\ at[r] = "run"
         \/ i = 2 /\ at[r] = "again"
  BY <1>1 DEF Running, OrderRuns
<1> HIDE DEF i
<1>3. /\ step[<<r, i>>] \in P!Calls
      /\ \A j \in {1, 2} \ {i} : step'[<<r, j>>] = step[<<r, j>>]
      /\ i = 2 => (Backed(r)' <=> Backed(r)) /\ (Paid(r)' <=> Paid(r))
      /\ \A u \in Requests \ {r} :
            /\ step'[<<u, 1>>] = step[<<u, 1>>] /\ step'[<<u, 2>>] = step[<<u, 2>>]
            /\ Backed(u)' <=> Backed(u)
            /\ Paid(u)' <=> Paid(u)
  BY <1>1, <1>2, OthersRun
<1>4. \A u \in Requests : Backed(u) => Backed(u)'
  <2>1. i = 1 => ~Backed(r)
    BY <1>3 DEF Backed, P!Calls
  <2>2. QED
    BY <1>2, <1>3, <2>1
<1>5. /\ UNCHANGED <<hash, record, answer>>
      /\ \E p \in I!Places :
            /\ at' = [at EXCEPT ![r] = p]
            /\ p \in {"run", "store", "again", "answered", "raised"}
  BY <1>1, <1>2 DEF I!OperationReturns, I!OperationRaises, I!Goes, I!Places, keyVars, KeyInv, I!IdempotencyTypeOK
<1>6. \A u \in Requests \ {r} : at'[u] = at[u] /\ (Active(u)' <=> Active(u))
  BY <1>5 DEF KeyInv, I!IdempotencyTypeOK, Active
<1>7. \A k \in Keys : Stored(k)'
  BY <1>4, <1>5 DEF KeyInv, Stored
<1>8. \A u \in Requests : Replayed(u)'
  <2>1. at'[r] # "replayed"
    BY <1>5 DEF KeyInv, I!IdempotencyTypeOK
  <2>2. \A u \in Requests \ {r} : Replayed(u)'
    BY <1>4, <1>5, <1>6 DEF KeyInv, Replayed
  <2>3. QED
    BY <2>1, <2>2 DEF Replayed
<1>9. CASE i = 2
  <2>1. at[r] = "again" /\ excuse[KeyOf[r]] # {} /\ KeyOf[r] \in Keys
    <3>1. at[r] = "again"
      BY <1>2, <1>9
    <3>2. Executed(r)
      BY DEF KeyInv
    <3>3. QED
      BY <3>1, <3>2, ServiceAssumption DEF Executed
  <2>2. UNCHANGED excuse /\ at'[r] \in {"again", "answered", "raised"}
    BY <1>1, <2>1 DEF I!OperationReturns, I!OperationRaises, I!Goes, keyVars, KeyInv, I!IdempotencyTypeOK
  <2>3. \A u \in Requests : Once(u)'
    BY <1>3, <1>5, <1>6, <2>1, <2>2, ExcusedOnce
  <2>4. \A u \in Requests : Executed(u)'
    BY <1>3, <1>6, <2>1, <2>2 DEF KeyInv, Executed
  <2>5. QED
    BY <1>7, <1>8, <2>3, <2>4 DEF KeyInv
<1>10. CASE i = 1 /\ UNCHANGED excuse
  <2>1. at[r] = "run" /\ Active(r)
    BY <1>2, <1>10 DEF Active
  <2>2. Executed(r)' /\ (Active(r)' \/ step'[<<r, 1>>] \in {"err", "raised"})
    <3>1. CASE step'[o] = "ok" /\ I!OperationReturns(r, TRUE)
      BY <1>2, <1>3, <1>10, <2>1, <3>1
         DEF I!OperationReturns, I!Goes, KeyInv, I!IdempotencyTypeOK, Executed, Backed, Active
    <3>2. CASE step'[o] = "err" /\ I!OperationReturns(r, FALSE)
      BY <1>2, <1>3, <1>10, <2>1, <3>2
         DEF I!OperationReturns, I!Goes, KeyInv, I!IdempotencyTypeOK, Executed, Backed
    <3>3. CASE step'[o] = "raised" /\ I!OperationRaises(r)
      <4>1. /\ at'[r] \in {"again", "raised"}
            /\ at'[r] = "again" => "again" \in excuse'[KeyOf[r]]
        BY <2>1, <3>3, ServiceAssumption
           DEF I!OperationRaises, I!Goes, I!Excused, KeyInv, I!IdempotencyTypeOK
      <4>2. QED
        BY <1>2, <1>3, <1>10, <2>1, <3>3, <4>1 DEF KeyInv, Executed
    <3>4. CASE step'[o] \in P!Calls /\ UNCHANGED keyVars
      BY <1>2, <1>3, <1>10, <2>1, <3>4 DEF keyVars, KeyInv, Executed, Active
    <3>5. QED
      BY <1>1, <3>1, <3>2, <3>3, <3>4
  <2>3. step'[<<r, 1>>] \in {"err", "raised"} => ~Paid(r)'
    BY DEF OrderInv, LeftAt, Orders, Paid
  <2>4. \A u \in Requests : Once(u)'
    BY <1>3, <1>5, <1>6, <1>10, <2>1, <2>2, <2>3, RunOnce
  <2>5. \A u \in Requests \ {r} : Executed(u)'
    BY <1>3, <1>6, <1>10 DEF KeyInv, Executed
  <2>6. QED
    BY <1>7, <1>8, <2>2, <2>4, <2>5 DEF KeyInv
<1>11. CASE i = 1 /\ ~UNCHANGED excuse
  <2>1. I!OperationRaises(r) /\ at[r] = "run" /\ KeyOf[r] \in Keys
    BY <1>1, <1>2, <1>11, ServiceAssumption DEF I!OperationReturns, keyVars
  <2>2. /\ at'[r] = "again" /\ "again" \in excuse'[KeyOf[r]]
        /\ \A k \in Keys \ {KeyOf[r]} : excuse'[k] = excuse[k]
        /\ \A k \in Keys : excuse[k] \subseteq excuse'[k]
    BY <1>11, <2>1 DEF I!OperationRaises, I!Goes, I!Excused, KeyInv, I!IdempotencyTypeOK
  <2>3. \A u \in Requests : KeyOf[u] \in Keys
    BY ServiceAssumption
  <2>4. \A u \in Requests : Once(u)'
    <3>1. excuse'[KeyOf[r]] # {}
      BY <2>2
    <3>2. \A u \in Requests : KeyOf[u] # KeyOf[r] =>
             u # r /\ excuse'[KeyOf[u]] = excuse[KeyOf[u]] /\ record'[KeyOf[u]] = record[KeyOf[u]]
      BY <1>5, <2>2, <2>3
    <3>3. QED
      BY <1>3, <1>6, <2>1, <3>1, <3>2, ExcusedOnce
  <2>5. \A u \in Requests : Executed(u)'
    BY <1>3, <1>6, <2>2, <2>3 DEF KeyInv, Executed
  <2>6. QED
    BY <1>7, <1>8, <2>4, <2>5 DEF KeyInv
<1>12. QED
  BY <1>2, <1>9, <1>10, <1>11

(* The client goes away in the middle of an execution, or of the write.    *)
LEMMA CancelKeeps ==
    ASSUME KeyInv, OrderInv, NEW r \in Requests, RequestIsCancelled(r), I!IdempotencyTypeOK'
    PROVE  KeyInv'
<1> USE ServiceAssumption
<1>1. /\ at[r] \in {"run", "store", "again"}
      /\ UNCHANGED <<hash, answer>>
      /\ at' = [at EXCEPT ![r] = "cancelled"]
      /\ excuse' = [excuse EXCEPT ![KeyOf[r]] = @ \cup {"cancelled"}]
      /\ \/ UNCHANGED record
         \/ at[r] = "store" /\ record' = [record EXCEPT ![KeyOf[r]] = r]
  BY DEF RequestIsCancelled, I!CancelRequest, I!Goes, I!Excused, I!Written
<1>2. /\ at'[r] = "cancelled" /\ \A u \in Requests \ {r} : at'[u] = at[u]
      /\ excuse'[KeyOf[r]] # {}
      /\ \A k \in Keys \ {KeyOf[r]} : excuse'[k] = excuse[k] /\ record'[k] = record[k]
  BY <1>1 DEF KeyInv, I!IdempotencyTypeOK
<1>3. /\ \A u \in Requests : Backed(u) => Backed(u)'
      /\ \A u \in Requests \ {r} :
            /\ step'[<<u, 1>>] = step[<<u, 1>>] /\ step'[<<u, 2>>] = step[<<u, 2>>]
            /\ Backed(u)' <=> Backed(u)
            /\ Paid(u)' <=> Paid(u)
  <2>1. CASE UNCHANGED orderVars
    BY <2>1 DEF orderVars, Backed, Paid
  <2>2. ASSUME NEW o \in {Running(r)}, P!CancelOrder(o)
        PROVE  <1>3
    <3> DEFINE i == IF at[r] = "again" THEN 2 ELSE 1
    <3>1. i \in {1, 2} /\ o = <<r, i>>
      BY <2>2 DEF Running
    <3> HIDE DEF i
    <3>2. /\ step[<<r, i>>] \in P!Calls
          /\ i = 2 => (Backed(r)' <=> Backed(r))
          /\ \A u \in Requests \ {r} :
                /\ step'[<<u, 1>>] = step[<<u, 1>>] /\ step'[<<u, 2>>] = step[<<u, 2>>]
                /\ Backed(u)' <=> Backed(u)
                /\ Paid(u)' <=> Paid(u)
      BY <2>2, <3>1, OthersRun
    <3>3. i = 1 => ~Backed(r)
      BY <3>2 DEF Backed, P!Calls
    <3>4. QED
      BY <3>1, <3>2, <3>3
  <2>3. QED
    BY <2>1, <2>2 DEF RequestIsCancelled
<1>4. ASSUME NEW u \in Requests
      PROVE  Executed(u)' /\ Replayed(u)'
  <2>1. CASE u = r
    BY <1>1, <1>2, <2>1 DEF Executed, Replayed
  <2>2. CASE u # r
    <3>1. excuse[KeyOf[u]] \subseteq excuse'[KeyOf[u]]
      BY <1>1 DEF KeyInv, I!IdempotencyTypeOK
    <3>2. QED
      BY <1>1, <1>2, <1>3, <2>2, <3>1 DEF KeyInv, Executed, Replayed
  <2>3. QED
    BY <2>1, <2>2
<1>5. \A u \in Requests : Once(u)'
  <2>1. \A u \in Requests : KeyOf[u] # KeyOf[r] => (Active(u)' <=> Active(u))
    BY <1>2 DEF Active
  <2>2. \A u \in Requests : KeyOf[u] # KeyOf[r] =>
              /\ Active(u)' <=> Active(u)
              /\ Paid(u)' <=> Paid(u)
              /\ excuse'[KeyOf[u]] = excuse[KeyOf[u]]
              /\ record'[KeyOf[u]] = record[KeyOf[u]]
    BY <1>2, <1>3, <2>1
  <2>3. KeyOf[r] \in Keys /\ excuse'[KeyOf[r]] # {}
    BY <1>2
  <2>4. QED
    BY <2>2, <2>3, ExcusedOnce, Zenon
<1>6. ASSUME NEW k \in Keys
      PROVE  Stored(k)'
  <2>1. at[r] = "store" => Backed(r)
    BY DEF KeyInv, Executed
  <2>2. QED
    BY <1>1, <1>3, <2>1 DEF KeyInv, I!IdempotencyTypeOK, Stored
<1>7. QED
  BY <1>4, <1>5, <1>6 DEF KeyInv

(* The endpoint cannot read the request a second time.                     *)
LEMMA RaiseKeeps ==
    ASSUME KeyInv, NEW r \in Requests, SecondCallFails(r), I!IdempotencyTypeOK'
    PROVE  KeyInv'
<1>1. /\ at[r] = "again" /\ at' = [at EXCEPT ![r] = "raised"]
      /\ UNCHANGED <<hash, record, answer, excuse, orderVars>>
  BY DEF SecondCallFails, I!OperationRaises, I!Goes
<1>2. /\ at'[r] = "raised" /\ \A u \in Requests \ {r} : at'[u] = at[u]
      /\ excuse[KeyOf[r]] # {} /\ KeyOf[r] \in Keys
  BY <1>1, ServiceAssumption DEF KeyInv, I!IdempotencyTypeOK, Executed
<1>3. \A u \in Requests : (Backed(u)' <=> Backed(u)) /\ (Paid(u)' <=> Paid(u))
  BY <1>1 DEF orderVars, Backed, Paid
<1>4. \A u \in Requests : Executed(u)' /\ Replayed(u)'
  BY <1>1, <1>2, <1>3 DEF KeyInv, Executed, Replayed, orderVars
<1>5. \A u \in Requests : Once(u)'
  <2>1. \A u \in Requests : KeyOf[u] # KeyOf[r] => (Active(u)' <=> Active(u))
    BY <1>2 DEF Active
  <2>2. /\ excuse'[KeyOf[r]] # {} /\ KeyOf[r] \in Keys
        /\ \A u \in Requests : excuse'[KeyOf[u]] = excuse[KeyOf[u]] /\ record'[KeyOf[u]] = record[KeyOf[u]]
    BY <1>1, <1>2
  <2>3. \A u \in Requests : KeyOf[u] # KeyOf[r] =>
              /\ Active(u)' <=> Active(u)
              /\ Paid(u)' <=> Paid(u)
              /\ excuse'[KeyOf[u]] = excuse[KeyOf[u]]
              /\ record'[KeyOf[u]] = record[KeyOf[u]]
    BY <1>3, <2>1, <2>2
  <2>4. QED
    BY <2>2, <2>3, ExcusedOnce, Zenon
<1>6. \A k \in Keys : Stored(k)'
  BY <1>1, <1>3 DEF KeyInv, Stored
<1>7. QED
  BY <1>4, <1>5, <1>6 DEF KeyInv

(* No step of the service breaks KeyInv.                                   *)
LEMMA KeyInductive ==
    ASSUME KeyInv, OrderInv, OrderInv', [ServiceNext]_serviceVars
    PROVE  KeyInv'
<1>1. I!IdempotencyTypeOK'
  BY KeyTypes
<1>2. CASE UNCHANGED <<keyVars, orderVars>>
  <2>1. \A u \in Requests : /\ Executed(u)' <=> Executed(u)
                            /\ Replayed(u)' <=> Replayed(u)
                            /\ Once(u)' <=> Once(u)
    BY <1>2 DEF keyVars, orderVars, Executed, Replayed, Once, Backed, Paid, Active
  <2>2. \A k \in Keys : Stored(k)' <=> Stored(k)
    BY <1>2 DEF keyVars, orderVars, Stored, Backed
  <2>3. QED
    BY <1>1, <2>1, <2>2 DEF KeyInv
<1>3. ASSUME NEW r \in Requests, RequestLooksUp(r)
      PROVE  KeyInv'
  BY <1>1, <1>3, LookKeeps DEF RequestLooksUp
<1>4. ASSUME NEW r \in Requests, AnswerIsKept(r)
      PROVE  KeyInv'
  BY <1>1, <1>4, FinishKeeps DEF AnswerIsKept
<1>5. ASSUME NEW r \in Requests, OrderRuns(r) \/ RequestIsCancelled(r) \/ SecondCallFails(r)
      PROVE  KeyInv'
  BY <1>1, <1>5, RunKeeps, CancelKeeps, RaiseKeeps
<1>6. ASSUME NEW k \in Keys, RecordIsLost(k)
      PROVE  KeyInv'
  BY <1>1, <1>6, LossKeeps DEF RecordIsLost
<1>7. ASSUME NEW r \in Requests, RequestArrives(r) \/ RequestDeparts(r)
      PROVE  UNCHANGED <<keyVars, orderVars>>
  BY <1>7 DEF RequestArrives, RequestDeparts
<1>8. CASE HandlerActs
  BY <1>2, <1>8 DEF HandlerActs
<1>9. CASE UNCHANGED serviceVars
  BY <1>2, <1>9 DEF serviceVars
<1>10. QED
  BY <1>2, <1>3, <1>4, <1>5, <1>6, <1>7, <1>8, <1>9 DEF ServiceNext

(* KeyInv holds in every state of the service.                             *)
THEOREM KeyInvariance == ServiceSpec => [](KeyInv /\ OrderInv)
<1>1. ServiceInit => KeyInv /\ OrderInv
  BY KeysInitially, Initially
<1>2. KeyInv /\ OrderInv /\ [ServiceNext]_serviceVars => (KeyInv /\ OrderInv)'
  BY ServiceOrders, OrderInductive, KeyInductive
<1>3. QED
  BY <1>1, <1>2, PTL DEF ServiceSpec

(* A replayed answer is that of an execution for the same content, under   *)
(* the same key, whose order was placed or, for execute_idempotent called  *)
(* directly, had failed.                                                   *)
THEOREM ReplaysBacked == ServiceSpec => []ReplayIsBacked
<1>1. KeyInv /\ OrderInv => ReplayIsBacked
  <2> SUFFICES ASSUME KeyInv, OrderInv, NEW r \in Requests, at[r] = "replayed"
               PROVE  LET o == <<answer[r], 1>>
                      IN  /\ hash[answer[r]] = hash[r] /\ KeyOf[answer[r]] = KeyOf[r]
                          /\ \/ step[o] = "ok" /\ o \in held \cap charged \cap created
                             \/ step[o] = "err" /\ answer[r] \in Direct
    BY DEF ReplayIsBacked
  <2>1. /\ answer[r] \in Requests /\ hash[answer[r]] = hash[r]
        /\ KeyOf[answer[r]] = KeyOf[r] /\ Backed(answer[r])
    BY DEF KeyInv, Replayed
  <2>2. LeftAt(<<answer[r], 1>>)
    BY <2>1 DEF OrderInv, Orders
  <2>3. QED
    BY <2>1, <2>2 DEF Backed, LeftAt
<1>2. QED
  BY <1>1, KeyInvariance, PTL

(* However many requests carry one idempotency key, at most one payment    *)
(* stands for it, unless one of the named reasons let the operation run    *)
(* again or a payment or refund failed without telling its outcome.        *)
THEOREM PaymentsOnce == ServiceSpec => []ChargedOnce
<1>1. KeyInv /\ OrderInv => ChargedOnce
  <2> SUFFICES ASSUME KeyInv, OrderInv, NEW k \in Keys, excuse[k] = {},
                      NEW paid, paid = {o \in charged : KeyOf[o[1]] = k},
                      \A o \in paid : doubt[o] \cap {"pay", "refund"} = {}
               PROVE  Cardinality(paid) <= 1
    BY DEF ChargedOnce
  <2>1. charged \subseteq Orders
    BY DEF OrderInv, P!OrderTypeOK
  <2>2. ASSUME NEW o \in paid
        PROVE  \E u \in Requests : o = <<u, 1>> /\ KeyOf[u] = k /\ Paid(u)
    <3>1. o \in charged /\ KeyOf[o[1]] = k
      BY <2>2
    <3>2. PICK u \in Requests, j \in {1, 2} : o = <<u, j>>
      BY <2>1, <3>1 DEF Orders
    <3>3. step[<<u, 2>>] = "check"
      BY <3>1, <3>2 DEF KeyInv, Executed
    <3>4. <<u, 2>> \notin charged
      BY <3>3 DEF OrderInv, LeftAt, Orders
    <3>5. QED
      BY <2>2, <3>1, <3>2, <3>4 DEF Paid
  <2>3. \A o, p \in paid : o = p
    BY <2>2 DEF KeyInv, Once
  <2>4. paid = {} \/ \E o \in paid : paid = {o}
    BY <2>3
  <2>5. CASE paid = {}
    BY <2>5, FS_EmptySet
  <2>6. CASE \E o \in paid : paid = {o}
    <3>1. PICK o \in paid : paid = {o}
      BY <2>6
    <3>2. Cardinality({o}) = 1
      BY FS_Singleton
    <3>3. QED
      BY <3>1, <3>2
  <2>7. QED
    BY <2>4, <2>5, <2>6
<1>2. QED
  BY <1>1, KeyInvariance, PTL
=============================================================================
