--------------------------- MODULE TaskQueue_proofs ---------------------------
(***************************************************************************)
(* The task queue, for any jobs, priorities, workers and bounds: no job is *)
(* lost, a job is in one place for each retry_task that met it, its        *)
(* handler starts no more often than allowed, its result is final, and     *)
(* process_all leaves a job PENDING only when it meets a stale entry.      *)
(***************************************************************************)
EXTENDS TaskQueue, FiniteSetTheorems, FunctionTheorems, SequenceTheorems, TLAPS

(* A job that was not enqueued is nowhere and was never started.           *)
UnseenIsNowhere ==
    \A t \in Jobs :
        status[t] = "NEW" => Entries(t) = {} /\ Holders(t) = {} /\ attempt[t] = 0

(* A job nobody retried by hand has one holder at most, and its status     *)
(* says what that worker does with it.                                     *)
FreshHeld ==
    \A t \in Jobs : retried[t] = 0 => \A w \in Holders(t) :
        /\ status[t] = IF pc[w] = "handling" THEN "RUNNING" ELSE "RETRYING"
        /\ \A v \in Holders(t) : v = w

Inv == TypeOK /\ NothingIsLost /\ UnseenIsNowhere /\ FreshHeld

-----------------------------------------------------------------------------
(* The queue as a set of entries for each job.                             *)

(* A put adds an entry of the job at the end and leaves the others.        *)
LEMMA PutEntries ==
    ASSUME TypeOK, NEW t \in Jobs, Put(t)
    PROVE  /\ queue' \in Seq(Jobs)
           /\ Entries(t)' = Entries(t) \cup {Len(queue) + 1}
           /\ \A u \in Jobs \ {t} : Entries(u)' = Entries(u)
<1>1. /\ queue' \in Seq(Jobs) /\ Len(queue') = Len(queue) + 1
      /\ \A k \in 1 .. Len(queue) : queue'[k] = queue[k]
      /\ queue'[Len(queue) + 1] = t
  BY AppendProperties DEF TypeOK, Put
<1>2. Len(queue) \in Nat /\ DOMAIN queue = 1 .. Len(queue) /\ DOMAIN queue' = 1 .. Len(queue) + 1
  BY <1>1, LenProperties DEF TypeOK
<1>3. QED
  BY <1>1, <1>2 DEF Entries

(* A pop takes one entry of one job; what is left of every other job's     *)
(* entries moves up without one getting lost.                              *)
LEMMA PopShifts ==
    ASSUME TypeOK, NEW i \in DOMAIN queue, Pop(i)
    PROVE  /\ queue' \in Seq(Jobs)
           /\ queue[i] \in Jobs
           /\ \A u \in Jobs : \A k \in Entries(u)' :
                 (IF k < i THEN k ELSE k + 1) \in Entries(u) \ {i}
           /\ \A u \in Jobs : \A k \in Entries(u) \ {i} :
                 (IF k < i THEN k ELSE k - 1) \in Entries(u)'
<1>1. Len(queue) \in Nat /\ DOMAIN queue = 1 .. Len(queue) /\ i \in 1 .. Len(queue)
  BY LenProperties DEF TypeOK
<1>2. \A k \in 1 .. Len(queue) : queue[k] \in Jobs
  BY ElementOfSeq DEF TypeOK
<1>3. queue' = [k \in 1 .. (Len(queue) - 1) |-> IF k < i THEN queue[k] ELSE queue[k + 1]]
  BY DEF Pop
<1>4. /\ DOMAIN queue' = 1 .. (Len(queue) - 1)
      /\ \A k \in 1 .. (Len(queue) - 1) :
            queue'[k] = IF k < i THEN queue[k] ELSE queue[k + 1]
  BY <1>3
<1>5. queue' \in Seq(Jobs)
  BY <1>1, <1>2, <1>3
<1>6. QED
  BY <1>1, <1>2, <1>4, <1>5 DEF Entries

(* The entries of a job are a finite set.                                  *)
LEMMA EntriesFinite ==
    ASSUME TypeOK, NEW t \in Jobs
    PROVE  IsFiniteSet(Entries(t)) /\ Cardinality(Entries(t)) \in Nat
<1>1. Len(queue) \in Nat /\ DOMAIN queue = 1 .. Len(queue)
  BY LenProperties DEF TypeOK
<1>2. IsFiniteSet(1 .. Len(queue))
  BY <1>1, FS_Interval
<1>3. Entries(t) \in SUBSET (1 .. Len(queue))
  BY <1>1 DEF Entries
<1>4. QED
  BY <1>2, <1>3, FS_Subset, FS_CardinalityType

-----------------------------------------------------------------------------
(* Where the jobs are.                                                     *)

(* A worker that has no job in hand moves about without touching one.      *)
LEMMA FreeMoves ==
    ASSUME TypeOK, NEW w \in Workers, pc[w] \notin Busy,
           NEW l \in {"off", "idle", "waiting"}, InHand(w, l, None)
    PROVE  /\ pc' \in [Workers -> Looking \cup Busy \cup {"off"}]
           /\ job' = job
           /\ \A v \in Workers : pc'[v] \in Busy <=> pc[v] \in Busy
           /\ \A u \in Jobs : /\ Holders(u)' = Holders(u)
                             /\ \A v \in Holders(u) : pc'[v] = pc[v]
<1>1. /\ job[w] = None
      /\ pc' = [pc EXCEPT ![w] = l] /\ job' = [job EXCEPT ![w] = None]
  BY DEF InHand, TypeOK
<1>2. /\ pc' \in [Workers -> Looking \cup Busy \cup {"off"}]
      /\ pc'[w] = l /\ \A v \in Workers \ {w} : pc'[v] = pc[v]
  BY <1>1 DEF TypeOK, Looking, Busy
<1>3. job' = job
  BY <1>1 DEF TypeOK
<1>4. \A u \in Jobs : Holders(u)' = Holders(u) /\ w \notin Holders(u)
  BY <1>1, <1>3, JobAssumption DEF Holders
<1>5. l \notin Busy
  BY DEF Busy
<1>6. QED
  BY <1>2, <1>3, <1>4, <1>5 DEF Holders

(* process_all is called, waits for an entry, or is told that none came.   *)
LEMMA LoopStep ==
    ASSUME Inv, NEW w \in Workers, ProcessAll(w) \/ Wait(w) \/ TimeOut(w)
    PROVE  Inv'
<1>1. /\ UNCHANGED <<queue, status, attempt, retried, orphaned, used>>
      /\ pc[w] \notin Busy
  BY DEF ProcessAll, Wait, TimeOut, Busy
<1>2. PICK l \in {"off", "idle", "waiting"} : InHand(w, l, None)
  BY DEF ProcessAll, Wait, TimeOut, GiveUp
<1>3. TypeOK
  BY DEF Inv
<1>4. /\ pc' \in [Workers -> Looking \cup Busy \cup {"off"}] /\ job' = job
      /\ \A v \in Workers : pc'[v] \in Busy <=> pc[v] \in Busy
      /\ \A u \in Jobs : /\ Holders(u)' = Holders(u)
                        /\ \A v \in Holders(u) : pc'[v] = pc[v]
  BY <1>1, <1>2, <1>3, FreeMoves
<1>5. \A u \in Jobs : Entries(u)' = Entries(u)
  BY <1>1 DEF Entries
<1>6. TypeOK'
  BY <1>1, <1>4 DEF Inv, TypeOK
<1>7. NothingIsLost' /\ UnseenIsNowhere' /\ FreshHeld'
  BY <1>1, <1>4, <1>5 DEF Inv, NothingIsLost, UnseenIsNowhere, FreshHeld
<1>8. QED
  BY <1>6, <1>7 DEF Inv

(* No job was enqueued at first.                                           *)
LEMMA InitInv == Init => Inv
<1> SUFFICES ASSUME Init PROVE Inv
  OBVIOUS
<1>1. TypeOK
  BY JobAssumption DEF Init, TypeOK, Statuses, Looking, Busy
<1>2. \A t \in Jobs : Entries(t) = {} /\ Holders(t) = {} /\ status[t] = "NEW" /\ attempt[t] = 0
  BY JobAssumption DEF Init, Entries, Holders
<1>3. QED
  BY <1>1, <1>2 DEF Inv, NothingIsLost, UnseenIsNowhere, FreshHeld

(* enqueue, cancel_task and retry_task.                                    *)
LEMMA CallStep ==
    ASSUME Inv, NEW t \in Jobs, Enqueue(t) \/ CancelTask(t) \/ RetryTask(t)
    PROVE  Inv'
<1>1. /\ UNCHANGED <<attempt, pc, job, orphaned>>
      /\ \A u \in Jobs : Holders(u)' = Holders(u)
      /\ \A u \in Jobs \ {t} : status'[u] = status[u] /\ retried'[u] = retried[u]
  BY DEF Enqueue, CancelTask, RetryTask, Mark, Holders, Inv, TypeOK
<1>2. \/ Put(t) /\ status'[t] = "PENDING"
      \/ queue' = queue /\ status'[t] = "CANCELLED"
  BY DEF Enqueue, CancelTask, RetryTask, Mark, Inv, TypeOK
<1>3. /\ queue' \in Seq(Jobs)
      /\ \A u \in Jobs \ {t} : Entries(u)' = Entries(u)
      /\ status'[t] = "PENDING" => Entries(t)' # {}
  <2>1. CASE Put(t) /\ status'[t] = "PENDING"
    BY <2>1, PutEntries DEF Inv
  <2>2. CASE queue' = queue /\ status'[t] = "CANCELLED"
    BY <2>2 DEF Inv, TypeOK, Entries
  <2>3. QED
    BY <1>2, <2>1, <2>2
<1>4. TypeOK'
  <2>1. status' \in [Jobs -> Statuses]
    BY DEF Enqueue, CancelTask, RetryTask, Mark, Inv, TypeOK, Statuses
  <2>2. retried' \in [Jobs -> Nat]
    BY DEF Enqueue, CancelTask, RetryTask, Inv, TypeOK
  <2>3. used' \in [{"cancel_task", "stop"} -> Nat]
    BY DEF Enqueue, CancelTask, RetryTask, Inv, TypeOK
  <2>4. QED
    BY <1>1, <1>3, <2>1, <2>2, <2>3 DEF Inv, TypeOK
<1>5. NothingIsLost'
  BY <1>1, <1>2, <1>3 DEF Inv, NothingIsLost
<1>6. UnseenIsNowhere'
  BY <1>1, <1>2, <1>3 DEF Inv, UnseenIsNowhere
<1>7. retried'[t] = 0 => Holders(t) = {}
  BY DEF Enqueue, CancelTask, RetryTask, CanRetry, Inv, TypeOK, UnseenIsNowhere, FreshHeld
<1>8. FreshHeld'
  BY <1>1, <1>7 DEF Inv, FreshHeld
<1>9. QED
  BY <1>4, <1>5, <1>6, <1>8 DEF Inv

(* An entry is popped and dropped, its job being what it was.              *)
LEMMA StaleStep ==
    ASSUME Inv, NEW w \in Workers, NEW i \in DOMAIN queue, DequeueStale(w, i)
    PROVE  Inv'
<1>1. /\ Pop(i) /\ status[queue[i]] # "PENDING"
      /\ UNCHANGED <<status, attempt, retried, orphaned, used>>
      /\ pc[w] \notin Busy /\ InHand(w, "off", None)
  BY DEF DequeueStale, GiveUp, Looking, Busy
<1>2. /\ pc' \in [Workers -> Looking \cup Busy \cup {"off"}] /\ job' = job
      /\ \A v \in Workers : pc'[v] \in Busy <=> pc[v] \in Busy
      /\ \A u \in Jobs : /\ Holders(u)' = Holders(u)
                        /\ \A v \in Holders(u) : pc'[v] = pc[v]
  BY <1>1, FreeMoves DEF Inv
<1>3. /\ queue' \in Seq(Jobs) /\ queue[i] \in Jobs
      /\ \A u \in Jobs : Entries(u) = {} => Entries(u)' = {}
      /\ \A u \in Jobs \ {queue[i]} : Entries(u) # {} => Entries(u)' # {}
  BY <1>1, PopShifts DEF Inv, Entries
<1>4. TypeOK'
  BY <1>1, <1>2, <1>3 DEF Inv, TypeOK
<1>5. NothingIsLost'
  BY <1>1, <1>2, <1>3 DEF Inv, NothingIsLost
<1>6. UnseenIsNowhere' /\ FreshHeld'
  BY <1>1, <1>2, <1>3 DEF Inv, UnseenIsNowhere, FreshHeld
<1>7. QED
  BY <1>4, <1>5, <1>6 DEF Inv

(* A pending job without a handler is popped and marked, in hand of nobody.*)
LEMMA UnhandledStep ==
    ASSUME Inv, NEW w \in Workers, NEW i \in DOMAIN queue, DequeueUnhandled(w, i)
    PROVE  Inv'
<1> DEFINE t == queue[i]
<1>1. /\ Pop(i) /\ t \in Unhandled /\ status[t] = "PENDING"
      /\ status' = [status EXCEPT ![t] = Failed(t)]
      /\ UNCHANGED <<attempt, retried, orphaned, used>>
      /\ pc[w] \notin Busy
  BY DEF DequeueUnhandled, Mark, Looking, Busy
<1>2. /\ pc' \in [Workers -> Looking \cup Busy \cup {"off"}] /\ job' = job
      /\ \A v \in Workers : pc'[v] \in Busy <=> pc[v] \in Busy
      /\ \A u \in Jobs : /\ Holders(u)' = Holders(u)
                        /\ \A v \in Holders(u) : pc'[v] = pc[v]
  <2>1. PICK l \in {"off", "idle", "waiting"} : InHand(w, l, None)
    BY DEF DequeueUnhandled, Done, GiveUp
  <2>2. QED
    BY <1>1, <2>1, FreeMoves DEF Inv
<1>3. /\ queue' \in Seq(Jobs) /\ t \in Jobs
      /\ \A u \in Jobs : Entries(u) = {} => Entries(u)' = {}
      /\ \A u \in Jobs \ {t} : Entries(u) # {} => Entries(u)' # {}
  BY <1>1, PopShifts DEF Inv, Entries
<1>4. /\ status'[t] \in {"RETRYING", "FAILED"}
      /\ \A u \in Jobs \ {t} : status'[u] = status[u]
  BY <1>1, <1>3 DEF Inv, TypeOK, Failed
<1>5. TypeOK'
  BY <1>1, <1>2, <1>3 DEF Inv, TypeOK, Statuses, Failed
<1>6. NothingIsLost'
  BY <1>1, <1>2, <1>3, <1>4 DEF Inv, NothingIsLost
<1>7. retried[t] = 0 => Holders(t) = {}
  BY <1>1, <1>3 DEF Inv, FreshHeld
<1>8. UnseenIsNowhere' /\ FreshHeld'
  BY <1>1, <1>2, <1>3, <1>4, <1>7 DEF Inv, UnseenIsNowhere, FreshHeld
<1>9. QED
  BY <1>5, <1>6, <1>8 DEF Inv

(* A worker takes a pending job: an unretried one was in no other hand.    *)
LEMMA DequeueStep ==
    ASSUME Inv, NEW w \in Workers, NEW i \in DOMAIN queue, Dequeue(w, i)
    PROVE  Inv'
<1>1. PICK t \in Jobs : t = queue[i]
  BY PopShifts DEF Inv, Dequeue
<1>2. /\ Pop(i) /\ status[t] = "PENDING" /\ pc[w] \in Looking
      /\ status' = [status EXCEPT ![t] = "RUNNING"]
      /\ attempt' = [attempt EXCEPT ![t] = @ + 1]
      /\ pc' = [pc EXCEPT ![w] = "handling"] /\ job' = [job EXCEPT ![w] = t]
      /\ UNCHANGED <<retried, orphaned, used>>
  BY <1>1 DEF Dequeue, Mark, InHand
<1>3. /\ queue' \in Seq(Jobs)
      /\ \A u \in Jobs : Entries(u) = {} => Entries(u)' = {}
      /\ \A u \in Jobs \ {t} : Entries(u) # {} => Entries(u)' # {}
  BY <1>1, <1>2, PopShifts DEF Inv, Entries
<1>4. job[w] = None /\ \A u \in Jobs : w \notin Holders(u)
  BY <1>2, JobAssumption DEF Inv, TypeOK, Holders, Looking, Busy
<1>5. /\ job'[w] = t /\ pc'[w] = "handling"
      /\ \A v \in Workers \ {w} : pc'[v] = pc[v] /\ job'[v] = job[v]
  BY <1>2 DEF Inv, TypeOK
<1>6. /\ status'[t] = "RUNNING" /\ attempt'[t] = attempt[t] + 1
      /\ \A u \in Jobs \ {t} : status'[u] = status[u] /\ attempt'[u] = attempt[u]
  BY <1>2, <1>3 DEF Inv, TypeOK
<1>7. /\ Holders(t)' = Holders(t) \cup {w}
      /\ \A u \in Jobs \ {t} : Holders(u)' = Holders(u)
  <2>1. \A v \in Workers : v \in Holders(t)' <=> v \in Holders(t) \/ v = w
    BY <1>5 DEF Holders
  <2>2. \A u \in Jobs \ {t} : \A v \in Workers : v \in Holders(u)' <=> v \in Holders(u)
    BY <1>4, <1>5 DEF Holders
  <2>3. QED
    BY <2>1, <2>2 DEF Holders
<1>8. TypeOK'
  <2>1. /\ status' \in [Jobs -> Statuses] /\ attempt' \in [Jobs -> Nat]
        /\ pc' \in [Workers -> Looking \cup Busy \cup {"off"}]
        /\ job' \in [Workers -> Jobs \cup {None}]
    BY <1>2, <1>3 DEF Inv, TypeOK, Statuses, Busy
  <2>2. \A u \in Jobs : attempt[u] \in Nat /\ (attempt'[u] = attempt[u] \/ attempt'[u] = attempt[u] + 1)
    <3>1. \A u \in Jobs : attempt[u] \in Nat
      BY DEF Inv, TypeOK
    <3>2. QED
      BY <1>6, <3>1
  <2>3. ASSUME NEW v \in Workers
        PROVE  /\ pc'[v] \in Busy <=> job'[v] # None
               /\ pc'[v] \in Busy => attempt'[job'[v]] > 0
    <3>1. CASE v = w
      BY <1>3, <1>5, <1>6, <3>1, JobAssumption DEF Inv, TypeOK, Busy
    <3>2. CASE v # w
      <4>1. /\ pc[v] \in Busy <=> job[v] # None
            /\ pc[v] \in Busy => job[v] \in Jobs /\ attempt[job[v]] > 0
        BY DEF Inv, TypeOK
      <4>2. pc'[v] = pc[v] /\ job'[v] = job[v]
        BY <1>5, <3>2
      <4>3. QED
        BY <2>2, <4>1, <4>2
    <3>3. QED
      BY <3>1, <3>2
  <2>4. QED
    BY <1>2, <1>3, <2>1, <2>3 DEF Inv, TypeOK
<1>9. NothingIsLost'
  <2>1. \A u \in Jobs : \A v \in Holders(u) : pc'[v] = pc[v]
    BY <1>4, <1>5 DEF Holders
  <2>2. \A u \in Jobs \ {t} : status'[u] = status[u] /\ Holders(u)' = Holders(u)
    BY <1>6, <1>7
  <2>3. w \in Holders(t)' /\ pc'[w] = "handling"
    BY <1>5, <1>7
  <2>4. orphaned' = orphaned
    BY <1>2
  <2>5. QED
    BY <1>3, <1>6, <2>1, <2>2, <2>3, <2>4 DEF Inv, NothingIsLost
<1>10. retried[t] = 0 => Holders(t) = {}
  BY <1>2, <1>3 DEF Inv, FreshHeld
<1>11. UnseenIsNowhere' /\ FreshHeld'
  BY <1>2, <1>3, <1>4, <1>5, <1>6, <1>7, <1>10 DEF Inv, UnseenIsNowhere, FreshHeld, Holders
<1>12. QED
  BY <1>8, <1>9, <1>11 DEF Inv

(* A worker ends with the job in its hand: the handler returned or raised, *)
(* the sleep is over.                                                      *)
LEMMA ResumeStep ==
    ASSUME Inv, NEW w \in Workers, Resume(w)
    PROVE  Inv'
<1>1. /\ job[w] \in Jobs /\ pc[w] \in {"handling", "sleeping"} /\ attempt[job[w]] > 0
      /\ UNCHANGED <<attempt, retried, orphaned, used>>
  BY DEF Inv, TypeOK, Busy, Resume, HandlerReturns, HandlerRaises, WakeUp
<1>2. PICK t \in Jobs : t = job[w]
  BY <1>1
<1>3. PICK s \in Statuses, l \in {"idle", "off", "sleeping"} :
        /\ status' = [status EXCEPT ![t] = s]
        /\ InHand(w, l, IF l # "sleeping" THEN None ELSE t)
        /\ \/ pc[w] = "handling" /\ s \in {"COMPLETED", "FAILED"} /\ l # "sleeping" /\ queue' = queue
           \/ pc[w] = "handling" /\ s = "RETRYING" /\ l = "sleeping" /\ queue' = queue
           \/ pc[w] = "sleeping" /\ s = "PENDING" /\ l # "sleeping" /\ Put(t)
  <2>1. CASE HandlerReturns(w)
    BY <1>2, <2>1 DEF HandlerReturns, Mark, Done, GiveUp, Statuses
  <2>2. CASE HandlerRaises(w)
    BY <1>2, <2>2 DEF HandlerRaises, Failed, Mark, Done, GiveUp, Statuses
  <2>3. CASE WakeUp(w)
    BY <1>2, <2>3 DEF WakeUp, Mark, Done, GiveUp, Statuses
  <2>4. QED
    BY <2>1, <2>2, <2>3 DEF Resume
<1>4. /\ pc'[w] = l /\ job'[w] = IF l # "sleeping" THEN None ELSE t
      /\ \A v \in Workers \ {w} : pc'[v] = pc[v] /\ job'[v] = job[v]
  BY <1>3 DEF InHand, Inv, TypeOK
<1>5. /\ status'[t] = s
      /\ \A u \in Jobs \ {t} : status'[u] = status[u]
  BY <1>3 DEF Inv, TypeOK
<1>6. /\ queue' \in Seq(Jobs)
      /\ \A u \in Jobs \ {t} : Entries(u)' = Entries(u)
      /\ s = "PENDING" => Entries(t)' # {}
  <2>1. CASE s # "PENDING"
    BY <1>3, <2>1 DEF Inv, TypeOK, Entries
  <2>2. CASE s = "PENDING"
    BY <1>3, <2>2, PutEntries DEF Inv
  <2>3. QED
    BY <2>1, <2>2
<1>7. /\ w \in Holders(t)
      /\ Holders(t)' = IF l # "sleeping" THEN Holders(t) \ {w} ELSE Holders(t)
      /\ \A u \in Jobs \ {t} : Holders(u)' = Holders(u) /\ w \notin Holders(u)
  <2>1. \A u \in Jobs : u # None
    BY JobAssumption
  <2>2. QED
    BY <1>2, <1>4, <2>1 DEF Holders
<1>8. TypeOK'
  <2>1. /\ status' \in [Jobs -> Statuses]
        /\ pc' \in [Workers -> Looking \cup Busy \cup {"off"}]
        /\ job' \in [Workers -> Jobs \cup {None}]
    BY <1>3 DEF InHand, Inv, TypeOK, Looking, Busy
  <2>2. ASSUME NEW v \in Workers
        PROVE  /\ pc'[v] \in Busy <=> job'[v] # None
               /\ pc'[v] \in Busy => attempt'[job'[v]] > 0
    <3>1. CASE v = w
      BY <1>1, <1>2, <1>4, <3>1, JobAssumption DEF Busy
    <3>2. CASE v # w
      BY <1>1, <1>4, <3>2 DEF Inv, TypeOK
    <3>3. QED
      BY <3>1, <3>2
  <2>3. QED
    BY <1>1, <1>6, <2>1, <2>2 DEF Inv, TypeOK
<1>9. \A u \in Jobs \ {t} : \A v \in Holders(u) : pc'[v] = pc[v]
  BY <1>4, <1>7 DEF Holders
<1>10. NothingIsLost'
  <2>1. \A u \in Jobs \ {t} : status'[u] = status[u] /\ Holders(u)' = Holders(u)
    BY <1>5, <1>7
  <2>2. s # "RUNNING" /\ (s = "RETRYING" => pc'[w] = "sleeping" /\ w \in Holders(t)')
    BY <1>3, <1>4, <1>7
  <2>3. orphaned' = orphaned
    BY <1>1
  <2>4. QED
    BY <1>5, <1>6, <1>9, <2>1, <2>2, <2>3 DEF Inv, NothingIsLost
<1>11. UnseenIsNowhere'
  BY <1>1, <1>3, <1>5, <1>6, <1>7 DEF Inv, UnseenIsNowhere
<1>12. FreshHeld'
  <2>1. retried[t] = 0 => Holders(t) = {w}
    BY <1>7 DEF Inv, FreshHeld
  <2>2. s = "RETRYING" => l = "sleeping"
    BY <1>3
  <2>3. l = "sleeping" => s = "RETRYING"
    BY <1>3
  <2>4. QED
    BY <1>1, <1>4, <1>5, <1>7, <1>9, <2>1, <2>2, <2>3 DEF Inv, FreshHeld
<1>13. QED
  BY <1>8, <1>10, <1>11, <1>12 DEF Inv

(* A worker is cancelled: its job is orphaned.                             *)
LEMMA StopStep ==
    ASSUME Inv, NEW w \in Workers, StopWorker(w)
    PROVE  Inv'
<1>1. CASE pc[w] \notin Busy
  <2>1. /\ job[w] = None /\ orphaned' = orphaned
        /\ UNCHANGED <<queue, status, attempt, retried>>
        /\ used' = [used EXCEPT !["stop"] = @ + 1] /\ InHand(w, "off", None)
    BY <1>1 DEF StopWorker, GiveUp, Inv, TypeOK
  <2>2. /\ pc' \in [Workers -> Looking \cup Busy \cup {"off"}] /\ job' = job
        /\ \A v \in Workers : pc'[v] \in Busy <=> pc[v] \in Busy
        /\ \A u \in Jobs : /\ Holders(u)' = Holders(u)
                          /\ \A v \in Holders(u) : pc'[v] = pc[v]
    BY <1>1, <2>1, FreeMoves DEF Inv
  <2>3. \A u \in Jobs : Entries(u)' = Entries(u)
    BY <2>1 DEF Entries
  <2>4. TypeOK'
    BY <2>1, <2>2 DEF Inv, TypeOK
  <2>5. NothingIsLost' /\ UnseenIsNowhere' /\ FreshHeld'
    BY <2>1, <2>2, <2>3 DEF Inv, NothingIsLost, UnseenIsNowhere, FreshHeld
  <2>6. QED
    BY <2>4, <2>5 DEF Inv
<1>2. CASE pc[w] \in Busy
  <2>1. PICK t \in Jobs : t = job[w]
    BY <1>2 DEF Inv, TypeOK, StopWorker
  <2>2. /\ orphaned' = orphaned \cup {t}
        /\ UNCHANGED <<queue, status, attempt, retried>>
        /\ pc' = [pc EXCEPT ![w] = "off"] /\ job' = [job EXCEPT ![w] = None]
        /\ used' = [used EXCEPT !["stop"] = @ + 1]
    BY <2>1, JobAssumption DEF StopWorker, GiveUp, InHand
  <2>3. /\ pc'[w] = "off" /\ job'[w] = None
        /\ \A v \in Workers \ {w} : pc'[v] = pc[v] /\ job'[v] = job[v]
    BY <2>2 DEF Inv, TypeOK
  <2>4. \A u \in Jobs : Holders(u)' = Holders(u) \ {w}
    BY <2>3, JobAssumption DEF Holders
  <2>5. \A u \in Jobs \ {t} : w \notin Holders(u)
    BY <2>1 DEF Holders
  <2>6. \A u \in Jobs : Entries(u)' = Entries(u)
    BY <2>2 DEF Entries
  <2>7. TypeOK'
    BY <2>1, <2>2, <2>3 DEF Inv, TypeOK, Looking, Busy
  <2>8. \A u \in Jobs : \A v \in Holders(u)' : pc'[v] = pc[v]
    BY <2>3, <2>4 DEF Holders
  <2>9. NothingIsLost'
    BY <2>2, <2>4, <2>5, <2>6, <2>8 DEF Inv, NothingIsLost
  <2>10. UnseenIsNowhere' /\ FreshHeld'
    BY <2>2, <2>4, <2>6, <2>8 DEF Inv, UnseenIsNowhere, FreshHeld
  <2>11. QED
    BY <2>7, <2>9, <2>10 DEF Inv
<1>3. QED
  BY <1>1, <1>2

(* No step leaves the invariant.                                           *)
LEMMA NextInv == Inv /\ [Next]_vars => Inv'
<1> SUFFICES ASSUME Inv, [Next]_vars PROVE Inv'
  OBVIOUS
<1>1. ASSUME NEW t \in Jobs, Enqueue(t) \/ CancelTask(t) \/ RetryTask(t) PROVE Inv'
  BY <1>1, CallStep
<1>2. ASSUME NEW w \in Workers, ProcessAll(w) \/ Look(w) PROVE Inv'
  BY <1>2, LoopStep, StaleStep, UnhandledStep, DequeueStep DEF Look, TakeNext
<1>3. ASSUME NEW w \in Workers, Resume(w) \/ StopWorker(w) PROVE Inv'
  BY <1>3, ResumeStep, StopStep
<1>4. CASE UNCHANGED vars
  BY <1>4 DEF vars, Inv, TypeOK, NothingIsLost, UnseenIsNowhere, FreshHeld, Entries, Holders
<1>5. QED
  BY <1>1, <1>2, <1>3, <1>4 DEF Next

(* The invariant holds in every reachable state.                           *)
THEOREM QueueInvariance == Spec => []Inv
BY InitInv, NextInv, PTL DEF Spec

(* The queue's variables have their types; a busy worker has a job in hand *)
(* that was started.                                                       *)
THEOREM QueueTypes == Spec => []TypeOK
<1>1. Inv => TypeOK
  BY DEF Inv
<1>2. QED
  BY <1>1, QueueInvariance, PTL

(* No job is left behind, whatever workers, retry_task and cancel_task do, *)
(* but by a cancelled worker or a missing handler.                         *)
THEOREM NoJobIsLost == Spec => []NothingIsLost
<1>1. Inv => NothingIsLost
  BY DEF Inv
<1>2. QED
  BY <1>1, QueueInvariance, PTL

(* A job at rest that nobody retried by hand is in nobody's hand, and no   *)
(* step moves the status of a job at rest that is in nobody's hand.        *)
LEMMA RestStays ==
    Inv /\ [Next]_vars =>
        \A t \in Jobs :
            Terminal(t) /\ (retried[t] = 0 \/ Holders(t) = {}) => status'[t] = status[t]
<1> SUFFICES ASSUME Inv, [Next]_vars, NEW t \in Jobs, Terminal(t),
                    retried[t] = 0 \/ Holders(t) = {}
             PROVE  status'[t] = status[t]
  OBVIOUS
<1>1. Holders(t) = {} /\ status[t] \notin {"NEW", "PENDING", "RETRYING"}
  BY DEF Inv, FreshHeld, Terminal
<1>2. ASSUME NEW u \in Jobs, Enqueue(u) \/ CancelTask(u) \/ RetryTask(u)
      PROVE  status'[t] = status[t]
  BY <1>1, <1>2 DEF Enqueue, CancelTask, RetryTask, CanRetry, Mark, Inv, TypeOK
<1>3. ASSUME NEW w \in Workers, TakeNext(w)
      PROVE  status'[t] = status[t]
  BY <1>1, <1>3 DEF TakeNext, DequeueStale, DequeueUnhandled, Dequeue, Mark, Inv, TypeOK
<1>4. ASSUME NEW w \in Workers, Resume(w)
      PROVE  status'[t] = status[t]
  <2>1. job[w] # t
    BY <1>1 DEF Holders
  <2>2. QED
    BY <1>4, <2>1 DEF Resume, HandlerReturns, HandlerRaises, WakeUp, Mark, Inv, TypeOK
<1>5. ASSUME NEW w \in Workers, ProcessAll(w) \/ Wait(w) \/ TimeOut(w) \/ StopWorker(w)
      PROVE  status'[t] = status[t]
  BY <1>5 DEF ProcessAll, Wait, TimeOut, StopWorker
<1>6. CASE UNCHANGED vars
  BY <1>6 DEF vars
<1>7. QED
  BY <1>2, <1>3, <1>4, <1>5, <1>6 DEF Next, Look

(* The result of a job is final, unless retry_task overtook a worker that  *)
(* still has it in hand.                                                   *)
THEOREM ResultsAreFinal == Spec => TerminalIsFinal
BY QueueInvariance, RestStays, PTL DEF Spec, TerminalIsFinal

-----------------------------------------------------------------------------
(* How many copies of a job there are.                                     *)

(* The workers that will put a job back when their sleep is over.          *)
Sleepers(t) == {w \in Holders(t) : pc[w] = "sleeping"}

(* However many workers there are, a job is in finitely many hands.        *)
HoldersFinite == \A t \in Jobs : IsFiniteSet(Holders(t))

(* Once the attempts are used up, no handler that raises puts the job back *)
(* and retry_task refuses it: the starts to come are those of the entries  *)
(* in the queue and of the workers asleep already.                         *)
StartsLeft ==
    \A t \in Jobs : attempt[t] >= MaxAttempts =>
        attempt[t] + Cardinality(Entries(t)) + Cardinality(Sleepers(t))
            <= MaxAttempts + retried[t]

Counted == HoldersFinite /\ OneHolder /\ StartsLeft

(* The numbers the counting is about are natural numbers, and a job has no *)
(* more sleepers than holders.                                             *)
LEMMA Sizes ==
    ASSUME TypeOK, HoldersFinite, NEW t \in Jobs
    PROVE  /\ Cardinality(Entries(t)) \in Nat /\ Cardinality(Holders(t)) \in Nat
           /\ Cardinality(Sleepers(t)) \in Nat
           /\ Cardinality(Sleepers(t)) <= Cardinality(Holders(t))
           /\ IsFiniteSet(Sleepers(t))
           /\ attempt[t] \in Nat /\ retried[t] \in Nat
<1>1. IsFiniteSet(Holders(t)) /\ Sleepers(t) \in SUBSET Holders(t)
  BY DEF HoldersFinite, Sleepers
<1>2. IsFiniteSet(Sleepers(t)) /\ Cardinality(Sleepers(t)) <= Cardinality(Holders(t))
  BY <1>1, FS_Subset
<1>3. QED
  BY <1>1, <1>2, EntriesFinite, FS_CardinalityType DEF TypeOK

(* A put adds one entry of one job.                                        *)
LEMMA PutCounts ==
    ASSUME TypeOK, NEW t \in Jobs, Put(t)
    PROVE  /\ Cardinality(Entries(t)') = Cardinality(Entries(t)) + 1
           /\ \A u \in Jobs \ {t} : Entries(u)' = Entries(u)
<1>1. Len(queue) + 1 \notin Entries(t)
  BY LenProperties DEF TypeOK, Entries
<1>2. QED
  BY <1>1, PutEntries, EntriesFinite, FS_AddElement

(* A pop takes one entry of one job and adds none.                         *)
LEMMA PopCounts ==
    ASSUME TypeOK, NEW i \in DOMAIN queue, Pop(i), NEW u \in Jobs
    PROVE  /\ Cardinality(Entries(u)') \in Nat
           /\ Cardinality(Entries(u)') <= Cardinality(Entries(u))
           /\ u = queue[i] => Cardinality(Entries(u)') <= Cardinality(Entries(u)) - 1
<1> DEFINE new == Entries(u)'
           rest == Entries(u) \ {i}
           f == [k \in new |-> IF k < i THEN k ELSE k + 1]
<1>1. IsFiniteSet(Entries(u)) /\ Cardinality(Entries(u)) \in Nat
  BY EntriesFinite
<1>2. /\ IsFiniteSet(rest)
      /\ Cardinality(rest) <= Cardinality(Entries(u))
      /\ u = queue[i] => Cardinality(rest) = Cardinality(Entries(u)) - 1
  BY <1>1, FS_RemoveElement DEF Entries
<1>3. f \in Injection(new, rest)
  <2>1. f \in [new -> rest]
    BY PopShifts
  <2>2. i \in Int /\ \A k \in new : k \in Int
    <3>1. queue \in Seq(Jobs) /\ queue' \in Seq(Jobs)
      BY PopShifts DEF TypeOK
    <3>2. /\ DOMAIN queue = 1 .. Len(queue) /\ Len(queue) \in Nat
          /\ DOMAIN queue' = 1 .. Len(queue') /\ Len(queue') \in Nat
      BY <3>1, LenProperties
    <3>3. QED
      BY <3>2 DEF Entries
  <2>3. \A k, l \in new : f[k] = f[l] => k = l
    BY <2>2
  <2>4. QED
    BY <2>1, <2>3, Fun_IsInj
<1>4. IsFiniteSet(new) /\ Cardinality(new) <= Cardinality(rest)
  BY <1>2, <1>3, FS_Injection
<1>5. Cardinality(new) \in Nat /\ Cardinality(rest) \in Nat
  BY <1>2, <1>4, FS_CardinalityType
<1>6. QED
  BY <1>1, <1>2, <1>4, <1>5

(* What a step must show of one job for the counts to stay within bounds.  *)
Room(t) ==
    /\ IsFiniteSet(Holders(t))
    /\ Cardinality(Entries(t)) + Cardinality(Holders(t)) <= 1 + retried[t]
    /\ attempt[t] >= MaxAttempts =>
          attempt[t] + Cardinality(Entries(t)) + Cardinality(Sleepers(t))
              <= MaxAttempts + retried[t]

(* The bounds are those of each job.                                       *)
LEMMA CountedIsRoom == Counted <=> \A t \in Jobs : Room(t)
BY DEF Counted, HoldersFinite, OneHolder, StartsLeft, Room

(* At first there is no copy of any job.                                   *)
LEMMA InitCounted == Init => Counted
<1> SUFFICES ASSUME Init, NEW t \in Jobs PROVE Room(t)
  BY CountedIsRoom
<1>1. /\ Entries(t) = {} /\ Holders(t) = {} /\ Sleepers(t) = {}
      /\ attempt[t] = 0 /\ retried[t] = 0
  BY JobAssumption DEF Init, Entries, Holders, Sleepers
<1>2. IsFiniteSet({}) /\ Cardinality({}) = 0
  BY FS_EmptySet
<1>3. QED
  BY <1>1, <1>2, BoundAssumption DEF Room

(* A job that a step does not touch, or loses entries of, stays in bounds. *)
LEMMA UntouchedRoom ==
    ASSUME TypeOK, HoldersFinite, NEW u \in Jobs, Room(u),
           Cardinality(Entries(u)') \in Nat,
           Cardinality(Entries(u)') <= Cardinality(Entries(u)),
           Holders(u)' = Holders(u), Sleepers(u)' = Sleepers(u),
           attempt'[u] = attempt[u], retried'[u] = retried[u]
    PROVE  Room(u)'
BY Sizes, BoundAssumption DEF Room

(* enqueue puts in the first copy, and retry_task one more, while there    *)
(* are attempts left; cancel_task moves nothing.                           *)
LEMMA CallCounted ==
    ASSUME Inv, Counted, NEW t \in Jobs, Enqueue(t) \/ CancelTask(t) \/ RetryTask(t)
    PROVE  Counted'
<1>1. /\ UNCHANGED <<attempt, pc, job>>
      /\ \A u \in Jobs \ {t} : retried'[u] = retried[u]
  BY DEF Enqueue, CancelTask, RetryTask, Inv, TypeOK
<1>2. \A u \in Jobs : Holders(u)' = Holders(u) /\ Sleepers(u)' = Sleepers(u)
  BY <1>1 DEF Holders, Sleepers
<1>3. \A u \in Jobs \ {t} : Entries(u)' = Entries(u)
  BY PutEntries DEF Enqueue, CancelTask, RetryTask, Entries, Inv
<1>4. ASSUME NEW u \in Jobs, u # t PROVE Room(u)'
  BY <1>1, <1>2, <1>3, <1>4, CountedIsRoom, UntouchedRoom, Sizes DEF Inv, Counted
<1>5. Room(t)'
  <2>1. Room(t)
    BY CountedIsRoom
  <2>2. /\ Cardinality(Entries(t)) \in Nat /\ Cardinality(Holders(t)) \in Nat
        /\ Cardinality(Sleepers(t)) \in Nat /\ attempt[t] \in Nat /\ retried[t] \in Nat
    BY Sizes DEF Inv, Counted
  <2>3. CASE Enqueue(t)
    <3>1. Entries(t) = {} /\ Holders(t) = {} /\ attempt[t] = 0 /\ retried'[t] = retried[t]
      BY <2>3 DEF Enqueue, Inv, UnseenIsNowhere
    <3>2. Cardinality(Entries(t)) = 0 /\ Cardinality(Holders(t)) = 0
      BY <3>1, FS_EmptySet
    <3>3. Cardinality(Entries(t)') = Cardinality(Entries(t)) + 1
      BY <2>3, PutCounts DEF Enqueue, Inv
    <3>4. IsFiniteSet(Holders(t)') /\ ~(attempt'[t] >= MaxAttempts)
      BY <1>1, <1>2, <2>1, <3>1, BoundAssumption DEF Room
    <3>5. Cardinality(Entries(t)') + Cardinality(Holders(t)') <= 1 + retried'[t]
      BY <1>2, <2>2, <3>1, <3>2, <3>3
    <3>6. QED
      BY <3>4, <3>5 DEF Room
  <2>4. CASE CancelTask(t)
    <3>1. Entries(t)' = Entries(t) /\ retried'[t] = retried[t]
      BY <2>4 DEF CancelTask, Entries
    <3>2. QED
      BY <1>1, <1>2, <2>1, <3>1 DEF Room
  <2>5. CASE RetryTask(t)
    <3>1. attempt[t] < MaxAttempts /\ retried'[t] = retried[t] + 1
      BY <2>5 DEF RetryTask, CanRetry, Inv, TypeOK
    <3>2. Cardinality(Entries(t)') = Cardinality(Entries(t)) + 1
      BY <2>5, PutCounts DEF RetryTask, Inv
    <3>3. IsFiniteSet(Holders(t)') /\ ~(attempt'[t] >= MaxAttempts)
      BY <1>1, <1>2, <2>1, <2>2, <3>1, BoundAssumption DEF Room
    <3>4. Cardinality(Entries(t)') + Cardinality(Holders(t)') <= 1 + retried'[t]
      BY <1>2, <2>1, <2>2, <3>1, <3>2 DEF Room
    <3>5. QED
      BY <3>3, <3>4 DEF Room
  <2>6. QED
    BY <2>3, <2>4, <2>5
<1>6. \A u \in Jobs : Room(u)'
  BY <1>4, <1>5
<1>7. QED
  BY <1>6 DEF Counted, HoldersFinite, OneHolder, StartsLeft, Room

(* What a worker without a job does leaves the counts where they are, but  *)
(* for the entry it may pop.                                               *)
LEMMA FreeCounted ==
    ASSUME Inv, Counted, NEW w \in Workers, pc[w] \notin Busy,
           NEW l \in {"off", "idle", "waiting"}, InHand(w, l, None),
           UNCHANGED <<attempt, retried>>,
           queue' = queue \/ \E i \in DOMAIN queue : Pop(i)
    PROVE  Counted'
<1>1. \A u \in Jobs : /\ Holders(u)' = Holders(u)
                      /\ \A v \in Holders(u) : pc'[v] = pc[v]
  BY FreeMoves DEF Inv
<1>2. \A u \in Jobs : Sleepers(u)' = Sleepers(u)
  BY <1>1 DEF Sleepers
<1>3. \A u \in Jobs : /\ Cardinality(Entries(u)') \in Nat
                      /\ Cardinality(Entries(u)') <= Cardinality(Entries(u))
  <2>1. CASE queue' = queue
    <3>1. \A u \in Jobs : Entries(u)' = Entries(u) /\ Cardinality(Entries(u)) \in Nat
      BY <2>1, EntriesFinite DEF Entries, Inv
    <3>2. QED
      BY <3>1
  <2>2. CASE \E i \in DOMAIN queue : Pop(i)
    BY <2>2, PopCounts DEF Inv
  <2>3. QED
    BY <2>1, <2>2
<1>4. ASSUME NEW u \in Jobs PROVE Room(u)'
  BY <1>1, <1>2, <1>3, CountedIsRoom, UntouchedRoom DEF Inv, Counted
<1>5. QED
  BY <1>4 DEF Counted, HoldersFinite, OneHolder, StartsLeft, Room

(* process_all is called, waits, ends or is cancelled without a job.       *)
LEMMA LoopCounted ==
    ASSUME Inv, Counted, NEW w \in Workers,
           \/ ProcessAll(w) \/ Wait(w) \/ TimeOut(w)
           \/ StopWorker(w) /\ pc[w] \notin Busy
    PROVE  Counted'
<1>1. PICK l \in {"off", "idle", "waiting"} : InHand(w, l, None)
  BY DEF ProcessAll, Wait, TimeOut, StopWorker, GiveUp
<1>2. pc[w] \notin Busy /\ UNCHANGED <<queue, attempt, retried>>
  BY DEF ProcessAll, Wait, TimeOut, StopWorker, Busy
<1>3. QED
  BY <1>1, <1>2, FreeCounted

(* A pop only takes copies away; a job that starts turns an entry into a   *)
(* holder, and the start counts as an attempt.                             *)
LEMMA TakeCounted ==
    ASSUME Inv, Counted, NEW w \in Workers, TakeNext(w)
    PROVE  Counted'
<1>1. PICK i \in DOMAIN queue : DequeueStale(w, i) \/ DequeueUnhandled(w, i) \/ Dequeue(w, i)
  BY DEF TakeNext
<1>2. Pop(i) /\ retried' = retried /\ pc[w] \in Looking
  BY <1>1 DEF DequeueStale, DequeueUnhandled, Dequeue
<1>3. PICK t \in Jobs : t = queue[i]
  BY <1>2, PopShifts DEF Inv
<1>4. \A u \in Jobs : /\ Cardinality(Entries(u)') \in Nat
                       /\ Cardinality(Entries(u)') <= Cardinality(Entries(u))
  BY <1>2, PopCounts DEF Inv
<1>5. CASE DequeueStale(w, i) \/ DequeueUnhandled(w, i)
  <2>1. PICK l \in {"off", "idle", "waiting"} : InHand(w, l, None)
    BY <1>5 DEF DequeueStale, DequeueUnhandled, Done, GiveUp
  <2>2. pc[w] \notin Busy /\ UNCHANGED <<attempt, retried>>
    BY <1>2, <1>5 DEF DequeueStale, DequeueUnhandled, Looking, Busy
  <2>3. QED
    BY <1>2, <2>1, <2>2, FreeCounted
<1>6. ASSUME Dequeue(w, i), NEW u \in Jobs
      PROVE  Room(u)'
  <2>1. /\ attempt' = [attempt EXCEPT ![t] = @ + 1]
        /\ pc' = [pc EXCEPT ![w] = "handling"] /\ job' = [job EXCEPT ![w] = t]
    BY <1>3, <1>6 DEF Dequeue, InHand
  <2>2. /\ pc'[w] = "handling" /\ job'[w] = t
        /\ \A v \in Workers \ {w} : pc'[v] = pc[v] /\ job'[v] = job[v]
    BY <2>1 DEF Inv, TypeOK
  <2>3. w \notin Holders(u)
    BY <1>2, JobAssumption DEF Inv, TypeOK, Holders, Looking, Busy
  <2>4. /\ Holders(u)' = IF u = t THEN Holders(u) \cup {w} ELSE Holders(u)
        /\ Sleepers(u)' = Sleepers(u)
    BY <2>2, <2>3 DEF Holders, Sleepers
  <2>5. Room(u)
    BY CountedIsRoom
  <2>6. CASE u # t
    <3>1. attempt'[u] = attempt[u]
      BY <2>1, <2>6 DEF Inv, TypeOK
    <3>2. QED
      BY <1>2, <1>4, <2>4, <2>5, <2>6, <3>1, UntouchedRoom DEF Inv, Counted
  <2>7. CASE u = t
    <3>1. Cardinality(Entries(u)') <= Cardinality(Entries(u)) - 1
      BY <1>2, <1>3, <2>7, PopCounts DEF Inv
    <3>2. /\ IsFiniteSet(Holders(u)')
          /\ Cardinality(Holders(u)') = Cardinality(Holders(u)) + 1
      BY <2>3, <2>4, <2>5, <2>7, FS_AddElement DEF Room
    <3>3. /\ Cardinality(Entries(u)) \in Nat /\ Cardinality(Holders(u)) \in Nat
          /\ Cardinality(Sleepers(u)) \in Nat /\ attempt[u] \in Nat /\ retried[u] \in Nat
          /\ Cardinality(Sleepers(u)) <= Cardinality(Holders(u))
      BY Sizes DEF Inv, Counted
    <3>4. attempt'[u] = attempt[u] + 1 /\ retried'[u] = retried[u]
      BY <1>2, <2>1, <2>7 DEF Inv, TypeOK
    <3>5. Cardinality(Entries(u)') + Cardinality(Holders(u)') <= 1 + retried'[u]
      BY <1>4, <2>5, <3>1, <3>2, <3>3, <3>4 DEF Room
    <3>6. attempt'[u] >= MaxAttempts =>
            attempt'[u] + Cardinality(Entries(u)') + Cardinality(Sleepers(u)')
                <= MaxAttempts + retried'[u]
      BY <1>4, <2>4, <2>5, <3>1, <3>3, <3>4, BoundAssumption DEF Room
    <3>7. QED
      BY <3>2, <3>5, <3>6 DEF Room
  <2>8. QED
    BY <2>6, <2>7
<1>7. CASE Dequeue(w, i)
  <2>1. \A u \in Jobs : Room(u)'
    BY <1>6, <1>7
  <2>2. QED
    BY <2>1 DEF Counted, HoldersFinite, OneHolder, StartsLeft, Room
<1>8. QED
  BY <1>1, <1>5, <1>7

(* A worker that is done with a job is no holder of it any more; one that  *)
(* sleeps was a holder and will put back one entry, while attempts are     *)
(* left; one that wakes up turns into that entry.                          *)
LEMMA ResumeCounted ==
    ASSUME Inv, Counted, NEW w \in Workers,
           Resume(w) \/ (StopWorker(w) /\ pc[w] \in Busy)
    PROVE  Counted'
<1>1. PICK t \in Jobs : t = job[w]
  BY DEF Inv, TypeOK, Busy, Resume, HandlerReturns, HandlerRaises, WakeUp, StopWorker
<1>2. UNCHANGED <<attempt, retried>>
  BY DEF Resume, HandlerReturns, HandlerRaises, WakeUp, StopWorker
<1>3. PICK l \in {"idle", "off", "sleeping"} :
        /\ InHand(w, l, IF l # "sleeping" THEN None ELSE t)
        /\ \/ l # "sleeping" /\ queue' = queue
           \/ l = "sleeping" /\ queue' = queue /\ attempt[t] < MaxAttempts
           \/ l # "sleeping" /\ pc[w] = "sleeping" /\ Put(t)
  <2>1. CASE HandlerReturns(w) \/ StopWorker(w)
    BY <1>1, <2>1 DEF HandlerReturns, StopWorker, Done, GiveUp
  <2>2. CASE HandlerRaises(w)
    BY <1>1, <2>2 DEF HandlerRaises, Failed, Done, GiveUp
  <2>3. CASE WakeUp(w)
    BY <1>1, <2>3 DEF WakeUp, Done, GiveUp
  <2>4. QED
    BY <2>1, <2>2, <2>3 DEF Resume
<1>4. /\ pc'[w] = l /\ job'[w] = IF l # "sleeping" THEN None ELSE t
      /\ \A v \in Workers \ {w} : pc'[v] = pc[v] /\ job'[v] = job[v]
  BY <1>3 DEF InHand, Inv, TypeOK
<1>5. ASSUME NEW u \in Jobs, u # t PROVE Room(u)'
  <2>1. u # None /\ w \notin Holders(u)
    BY <1>1, <1>5, JobAssumption DEF Holders
  <2>2. Holders(u)' = Holders(u) /\ Sleepers(u)' = Sleepers(u)
    BY <1>4, <1>5, <2>1 DEF Holders, Sleepers
  <2>3. Entries(u)' = Entries(u)
    BY <1>3, <1>5, PutEntries DEF Inv, Entries
  <2>4. QED
    BY <1>2, <2>2, <2>3, Sizes, CountedIsRoom, UntouchedRoom DEF Inv, Counted
<1>6. Room(t)'
  <2>1. w \in Holders(t) /\ Room(t) /\ t # None
    BY <1>1, CountedIsRoom, JobAssumption DEF Holders
  <2>2. /\ Cardinality(Entries(t)) \in Nat /\ Cardinality(Holders(t)) \in Nat
        /\ Cardinality(Sleepers(t)) \in Nat /\ IsFiniteSet(Sleepers(t))
        /\ attempt[t] \in Nat /\ retried[t] \in Nat
    BY Sizes DEF Inv, Counted
  <2>3. attempt'[t] = attempt[t] /\ retried'[t] = retried[t]
    BY <1>2
  <2>4. CASE l = "sleeping"
    <3>1. Holders(t)' = Holders(t) /\ Entries(t)' = Entries(t) /\ attempt[t] < MaxAttempts
      BY <1>3, <1>4, <2>1, <2>4 DEF Holders, Entries
    <3>2. ~(attempt'[t] >= MaxAttempts)
      BY <2>2, <2>3, <3>1, BoundAssumption
    <3>3. QED
      BY <2>1, <2>3, <3>1, <3>2 DEF Room
  <2>5. CASE l # "sleeping"
    <3>1. /\ Holders(t)' = Holders(t) \ {w}
          /\ Sleepers(t)' = Sleepers(t) \ {w}
      BY <1>4, <2>1, <2>5 DEF Holders, Sleepers
    <3>2. /\ IsFiniteSet(Holders(t)')
          /\ Cardinality(Holders(t)') = Cardinality(Holders(t)) - 1
      BY <2>1, <3>1, FS_RemoveElement DEF Room
    <3>3. /\ Cardinality(Sleepers(t)') <= Cardinality(Sleepers(t))
          /\ pc[w] = "sleeping" => Cardinality(Sleepers(t)') = Cardinality(Sleepers(t)) - 1
          /\ Cardinality(Sleepers(t)') \in Nat
      <4>1. pc[w] = "sleeping" => w \in Sleepers(t)
        BY <2>1 DEF Sleepers
      <4>2. IsFiniteSet(Sleepers(t) \ {w})
        BY <2>2, FS_RemoveElement
      <4>3. QED
        BY <2>2, <3>1, <4>1, <4>2, FS_RemoveElement, FS_CardinalityType
    <3>4. \/ Entries(t)' = Entries(t)
          \/ pc[w] = "sleeping" /\ Cardinality(Entries(t)') = Cardinality(Entries(t)) + 1
      BY <1>3, <2>5, PutCounts DEF Inv, Entries
    <3>5. Cardinality(Entries(t)') + Cardinality(Holders(t)') <= 1 + retried'[t]
      BY <2>1, <2>2, <2>3, <3>2, <3>4 DEF Room
    <3>6. attempt'[t] >= MaxAttempts =>
            attempt'[t] + Cardinality(Entries(t)') + Cardinality(Sleepers(t)')
                <= MaxAttempts + retried'[t]
      BY <2>1, <2>2, <2>3, <3>3, <3>4, BoundAssumption DEF Room
    <3>7. QED
      BY <3>2, <3>5, <3>6 DEF Room
  <2>6. QED
    BY <2>4, <2>5
<1>7. \A u \in Jobs : Room(u)'
  BY <1>5, <1>6
<1>8. QED
  BY <1>7 DEF Counted, HoldersFinite, OneHolder, StartsLeft, Room

(* No step leaves the bounds.                                              *)
LEMMA NextCounted == Inv /\ Counted /\ [Next]_vars => Counted'
<1> SUFFICES ASSUME Inv, Counted, [Next]_vars PROVE Counted'
  OBVIOUS
<1>1. CASE UNCHANGED vars
  BY <1>1 DEF vars, Counted, HoldersFinite, OneHolder, StartsLeft, Entries, Holders, Sleepers
<1>2. QED
  BY <1>1, CallCounted, LoopCounted, TakeCounted, ResumeCounted DEF Next, Look

(* The counts stay within their bounds in every reachable state.           *)
THEOREM CountInvariance == Spec => []Counted
BY InitCounted, NextCounted, QueueInvariance, PTL DEF Spec

(* A job is in one place at a time: each retry_task that overtakes the     *)
(* sleep before an automatic retry makes one more copy of it, never two.   *)
THEOREM OnePlaceEach == Spec => []OneHolder
<1>1. Counted => OneHolder
  BY DEF Counted
<1>2. QED
  BY <1>1, CountInvariance, PTL

(* A handler starts max_attempts times for a job, and at most once more    *)
(* for each retry_task.                                                    *)
THEOREM StartsBounded == Spec => []AttemptsBounded
<1>1. Inv /\ Counted => AttemptsBounded
  <2> SUFFICES ASSUME Inv, Counted, NEW t \in Jobs
               PROVE  attempt[t] <= MaxAttempts + retried[t]
    BY DEF AttemptsBounded
  <2>1. Room(t)
    BY CountedIsRoom
  <2>2. /\ Cardinality(Entries(t)) \in Nat /\ Cardinality(Sleepers(t)) \in Nat
        /\ attempt[t] \in Nat /\ retried[t] \in Nat
    BY Sizes DEF Inv, Counted
  <2>3. QED
    BY <2>1, <2>2, BoundAssumption DEF Room
<1>2. QED
  BY <1>1, QueueInvariance, CountInvariance, PTL

-----------------------------------------------------------------------------
(* What process_all leaves behind.                                         *)

(* An entry of a job nobody retried by hand is stale only if the job was   *)
(* cancelled.                                                              *)
Queued ==
    \A t \in Jobs :
        retried[t] = 0 /\ Entries(t) # {} => status[t] \in {"PENDING", "CANCELLED"}

(* A job nobody retried by hand is in one place, so what takes its entry   *)
(* or has it in hand finds no other entry.                                 *)
LEMMA OneEntry ==
    ASSUME Inv, Counted, NEW t \in Jobs, retried[t] = 0
    PROVE  /\ Cardinality(Entries(t)) \in Nat /\ Cardinality(Entries(t)) <= 1
           /\ Holders(t) # {} => Entries(t) = {}
<1>1. /\ IsFiniteSet(Entries(t)) /\ IsFiniteSet(Holders(t))
      /\ Cardinality(Entries(t)) \in Nat /\ Cardinality(Holders(t)) \in Nat
      /\ Cardinality(Entries(t)) + Cardinality(Holders(t)) <= 1
  BY EntriesFinite, Sizes DEF Inv, Counted, HoldersFinite, OneHolder
<1>2. Holders(t) # {} => Cardinality(Holders(t)) # 0
  BY <1>1, FS_EmptySet
<1>3. Holders(t) # {} => Cardinality(Entries(t)) = 0
  BY <1>1, <1>2
<1>4. QED
  BY <1>1, <1>3, FS_EmptySet

(* No step makes an entry of such a job stale but cancel_task.             *)
LEMMA NextQueued == Inv /\ Counted /\ Queued /\ [Next]_vars => Queued'
<1> SUFFICES ASSUME Inv, Counted, Queued, [Next]_vars, NEW t \in Jobs,
                    retried'[t] = 0, Entries(t)' # {}
             PROVE  status'[t] \in {"PENDING", "CANCELLED"}
  BY DEF Queued
<1>1. ASSUME NEW u \in Jobs, Enqueue(u) \/ CancelTask(u) \/ RetryTask(u)
      PROVE  status'[t] \in {"PENDING", "CANCELLED"}
  <2>1. CASE u = t
    BY <1>1, <2>1 DEF Enqueue, CancelTask, RetryTask, Mark, Inv, TypeOK
  <2>2. CASE u # t
    <3>1. Entries(t)' = Entries(t)
      BY <1>1, <2>2, PutEntries DEF Enqueue, CancelTask, RetryTask, Entries, Inv
    <3>2. status'[t] = status[t] /\ retried'[t] = retried[t]
      BY <1>1, <2>2 DEF Enqueue, CancelTask, RetryTask, Mark, Inv, TypeOK
    <3>3. QED
      BY <3>1, <3>2 DEF Queued
  <2>3. QED
    BY <2>1, <2>2
<1>2. ASSUME NEW w \in Workers, TakeNext(w)
      PROVE  status'[t] \in {"PENDING", "CANCELLED"}
  <2>1. PICK i \in DOMAIN queue : DequeueStale(w, i) \/ DequeueUnhandled(w, i) \/ Dequeue(w, i)
    BY <1>2 DEF TakeNext
  <2>2. Pop(i) /\ retried[t] = 0
    BY <2>1 DEF DequeueStale, DequeueUnhandled, Dequeue
  <2>3. TypeOK
    BY DEF Inv
  <2>4. /\ Entries(t) # {}
        /\ Cardinality(Entries(t)') \in Nat
        /\ t = queue[i] => Cardinality(Entries(t)') <= Cardinality(Entries(t)) - 1
    BY <2>2, <2>3, PopShifts, PopCounts
  <2>5. t = queue[i] => Cardinality(Entries(t)') = 0
    BY <2>2, <2>4, OneEntry
  <2>6. IsFiniteSet(Entries(t)')
    <3>1. TypeOK'
      BY <1>2, StaleStep, UnhandledStep, DequeueStep DEF TakeNext, Inv
    <3>2. Len(queue') \in Nat /\ DOMAIN queue' = 1 .. Len(queue')
      BY <3>1, LenProperties DEF TypeOK
    <3>3. IsFiniteSet(1 .. Len(queue')) /\ Entries(t)' \in SUBSET (1 .. Len(queue'))
      BY <3>2, FS_Interval DEF Entries
    <3>4. QED
      BY <3>3, FS_Subset
  <2>7. t # queue[i]
    BY <2>5, <2>6, FS_EmptySet
  <2>8. status'[t] = status[t]
    BY <2>1, <2>7 DEF DequeueStale, DequeueUnhandled, Dequeue, Mark, Inv, TypeOK
  <2>9. QED
    BY <2>2, <2>4, <2>8 DEF Queued
<1>3. ASSUME NEW w \in Workers, Resume(w)
      PROVE  status'[t] \in {"PENDING", "CANCELLED"}
  <2>1. retried[t] = 0
    BY <1>3 DEF Resume, HandlerReturns, HandlerRaises, WakeUp
  <2>2. CASE job[w] = t
    <3>1. Entries(t) = {}
      BY <2>1, <2>2, OneEntry DEF Holders
    <3>2. queue' # queue
      BY <3>1 DEF Entries
    <3>3. WakeUp(w)
      BY <1>3, <3>2 DEF Resume, HandlerReturns, HandlerRaises
    <3>4. QED
      BY <2>2, <3>3 DEF WakeUp, Mark, Inv, TypeOK
  <2>3. CASE job[w] # t
    <3>1. status'[t] = status[t]
      BY <1>3, <2>3 DEF Resume, HandlerReturns, HandlerRaises, WakeUp, Mark, Inv, TypeOK
    <3>2. job[w] \in Jobs
      BY <1>3 DEF Resume, HandlerReturns, HandlerRaises, WakeUp, Busy, Inv, TypeOK
    <3>3. Entries(t)' = Entries(t)
      BY <1>3, <2>3, <3>2, PutEntries
         DEF Resume, HandlerReturns, HandlerRaises, WakeUp, Entries, Inv
    <3>4. QED
      BY <2>1, <3>1, <3>3 DEF Queued
  <2>4. QED
    BY <2>2, <2>3
<1>4. CASE UNCHANGED <<queue, status, retried>>
  BY <1>4 DEF Entries, Queued
<1>5. ASSUME NEW w \in Workers, ProcessAll(w) \/ Wait(w) \/ TimeOut(w) \/ StopWorker(w)
      PROVE  UNCHANGED <<queue, status, retried>>
  BY <1>5 DEF ProcessAll, Wait, TimeOut, StopWorker
<1>6. UNCHANGED vars => UNCHANGED <<queue, status, retried>>
  BY DEF vars
<1>7. QED
  BY <1>1, <1>2, <1>3, <1>4, <1>5, <1>6 DEF Next, Look

(* A call that finds nothing found the queue empty, and then nothing is    *)
(* PENDING, or it popped a stale entry.                                    *)
LEMMA LookInVain ==
    ASSUME Inv, Counted, Queued, [Next]_vars, NEW w \in Workers, FindsNothing(w)
    PROVE  \/ \A t \in Jobs : status[t] # "PENDING"
           \/ \E t \in Jobs :
                 /\ Cardinality(Entries(t)') < Cardinality(Entries(t))
                 /\ \/ status[t] = "CANCELLED"
                    \/ status[t] # "PENDING" /\ retried[t] > 0
<1>1. pc'[w] # pc[w]
  BY DEF FindsNothing, Looking
<1>2. \/ ProcessAll(w) \/ Wait(w) \/ TimeOut(w) \/ TakeNext(w) \/ Resume(w)
      \/ StopWorker(w)
  <2>1. ~ UNCHANGED vars /\ \A t \in Jobs : ~ (Enqueue(t) \/ CancelTask(t) \/ RetryTask(t))
    BY <1>1 DEF vars, Enqueue, CancelTask, RetryTask
  <2>2. PICK v \in Workers : ProcessAll(v) \/ Look(v) \/ Resume(v) \/ StopWorker(v)
    BY <2>1 DEF Next
  <2>3. \E l \in Looking \cup Busy \cup {"off"} : \E x : InHand(v, l, x)
    BY <2>2 DEF ProcessAll, Look, TakeNext, Wait, TimeOut, DequeueStale, DequeueUnhandled, Dequeue,
                Resume, HandlerReturns, HandlerRaises, WakeUp, StopWorker, Done, GiveUp, Looking, Busy
  <2>4. v = w
    BY <1>1, <2>3 DEF InHand, Inv, TypeOK
  <2>5. QED
    BY <2>2, <2>4 DEF Look
<1>3. CASE pc[w] = "idle" /\ pc'[w] = "waiting"
  <2>1. queue = <<>>
    BY <1>2, <1>3 DEF ProcessAll, Wait, TimeOut, TakeNext, DequeueStale, DequeueUnhandled, Dequeue,
          Resume, HandlerReturns, HandlerRaises, WakeUp, StopWorker, Done, GiveUp, InHand, Inv, TypeOK
  <2>2. \A t \in Jobs : Entries(t) = {}
    BY <2>1 DEF Entries
  <2>3. QED
    BY <2>2 DEF Inv, NothingIsLost
<1>4. CASE pc[w] \in Looking /\ pc'[w] = "off" /\ queue' # queue /\ status' = status
  <2>1. TakeNext(w)
    BY <1>2, <1>4 DEF ProcessAll, Wait, TimeOut, Resume, HandlerReturns, HandlerRaises, WakeUp,
                      StopWorker, Looking
  <2>2. PICK i \in DOMAIN queue : DequeueStale(w, i) \/ DequeueUnhandled(w, i) \/ Dequeue(w, i)
    BY <2>1 DEF TakeNext
  <2>3. PICK t \in Jobs : t = queue[i]
    BY <2>2, PopShifts DEF Inv, DequeueStale, DequeueUnhandled, Dequeue
  <2>4. status[t] = "PENDING" => status'[t] # "PENDING"
    BY <2>2, <2>3 DEF DequeueStale, DequeueUnhandled, Dequeue, Mark, Failed, Inv, TypeOK
  <2>5. Pop(i) /\ status[t] # "PENDING"
    BY <1>4, <2>2, <2>4 DEF DequeueStale, DequeueUnhandled, Dequeue
  <2>6. /\ Cardinality(Entries(t)') \in Nat /\ Cardinality(Entries(t)) \in Nat
        /\ Cardinality(Entries(t)') <= Cardinality(Entries(t)) - 1
    BY <2>3, <2>5, PopCounts, EntriesFinite DEF Inv
  <2>7. retried[t] = 0 => status[t] = "CANCELLED"
    BY <2>3, <2>5 DEF Queued, Entries
  <2>8. retried[t] \in Nat
    BY DEF Inv, TypeOK
  <2>9. Cardinality(Entries(t)') < Cardinality(Entries(t))
    BY <2>6
  <2>10. status[t] = "CANCELLED" \/ retried[t] > 0
    BY <2>7, <2>8
  <2>11. QED
    BY <2>5, <2>9, <2>10
<1>5. QED
  BY <1>3, <1>4 DEF FindsNothing

(* A process_all that ends before max_tasks leaves no job PENDING, unless  *)
(* it popped the entry of a cancelled job, or one of several entries that  *)
(* retry_task brought about.                                               *)
THEOREM PendingExplained == Spec => LeftPendingIsExplained
<1>1. Init => Queued
  BY JobAssumption DEF Init, Queued, Entries
<1>2. Spec => []Queued
  BY <1>1, NextQueued, QueueInvariance, CountInvariance, PTL DEF Spec
<1> DEFINE Explained ==
      \A w \in Workers :
          FindsNothing(w) =>
              \/ \A t \in Jobs : status[t] # "PENDING"
              \/ \E t \in Jobs :
                    /\ Cardinality(Entries(t)') < Cardinality(Entries(t))
                    /\ \/ status[t] = "CANCELLED"
                       \/ status[t] # "PENDING" /\ retried[t] > 0
<1>3. Inv /\ Counted /\ Queued /\ [Next]_vars => [Explained]_vars
  BY LookInVain
<1>4. Spec => [][Explained]_vars
  BY <1>2, <1>3, QueueInvariance, CountInvariance, PTL DEF Spec
<1>5. QED
  BY <1>4 DEF LeftPendingIsExplained
=============================================================================
