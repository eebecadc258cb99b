------------------------------ MODULE TaskQueue ------------------------------
(***************************************************************************)
(* InMemoryTaskQueue of src/infrastructure/tasks: task objects, a priority *)
(* queue of task ids, and workers that run process_all.  A process_all     *)
(* calls process_next until max_tasks jobs were processed or process_next  *)
(* returns None: the wait for an entry timed out, or the entry it got was  *)
(* stale.  Nothing in the code calls it again; the application may, and    *)
(* process_next by itself is a process_all with max_tasks = 1.  The        *)
(* queue's lock is never held across a suspension, so a call suspends only *)
(* in the wait for an entry, in the handler and in the sleep before a      *)
(* retry; dequeue pops an entry and checks its task in one step.           *)
(***************************************************************************)
EXTENDS Integers, Sequences, FiniteSets

CONSTANTS
    Jobs,          \* the task objects an application enqueues
    Workers,       \* asyncio tasks that run process_all, at times
    None,          \* no job
    Unhandled,     \* the jobs whose handler is not registered
    Priority,      \* the priority of each job
    MaxAttempts,   \* max_attempts of the jobs
    MaxRetries,    \* bound of the model: calls of retry_task that requeue
    MaxCancels,    \* bound of the model: calls of cancel_task that cancel
    MaxStops       \* bound of the model: workers cancelled in an await

ASSUME JobAssumption ==
    /\ None \notin Jobs /\ Unhandled \subseteq Jobs
    /\ Priority \in [Jobs -> Int]
ASSUME BoundAssumption ==
    /\ MaxAttempts \in Nat \ {0}
    /\ MaxRetries \in Nat /\ MaxCancels \in Nat /\ MaxStops \in Nat

VARIABLES
    queue,       \* ids in _queue, in the order of their timestamps
    status, attempt,
    pc,          \* where each worker is; "off": in no process_all
    job,         \* the job each worker has in hand
    retried,     \* history: how often retry_task requeued each job
    orphaned,    \* history: jobs in hand of a worker that was cancelled
    used         \* calls of cancel_task and cancelled workers so far

vars == <<queue, status, attempt, pc, job, retried, orphaned, used>>

Looking == {"idle", "waiting"}
Busy == {"handling", "sleeping"}

Statuses == {"NEW", "PENDING", "RUNNING", "COMPLETED", "FAILED", "RETRYING", "CANCELLED"}

TypeOK ==
    /\ queue \in Seq(Jobs)
    /\ status \in [Jobs -> Statuses] /\ attempt \in [Jobs -> Nat]
    /\ pc \in [Workers -> Looking \cup Busy \cup {"off"}]
    /\ job \in [Workers -> Jobs \cup {None}]
    /\ \A w \in Workers : /\ pc[w] \in Busy <=> job[w] # None
                          /\ pc[w] \in Busy => attempt[job[w]] > 0
    /\ retried \in [Jobs -> Nat] /\ orphaned \subseteq Jobs
    /\ used \in [{"cancel_task", "stop"} -> Nat]

Init ==
    /\ queue = <<>>
    /\ status = [t \in Jobs |-> "NEW"] /\ attempt = [t \in Jobs |-> 0]
    /\ pc = [w \in Workers |-> "off"] /\ job = [w \in Workers |-> None]
    /\ retried = [t \in Jobs |-> 0] /\ orphaned = {}
    /\ used = [c \in {"cancel_task", "stop"} |-> 0]

Mark(t, s) == status' = [status EXCEPT ![t] = s]
Put(t) == queue' = Append(queue, t)
InHand(w, l, t) == pc' = [pc EXCEPT ![w] = l] /\ job' = [job EXCEPT ![w] = t]
GiveUp(w) == InHand(w, "off", None)

(* A job was processed: the loop goes on, or max_tasks is reached.         *)
Done(w) == GiveUp(w) \/ InHand(w, "idle", None)

(* Task.can_retry                                                          *)
CanRetry(t) == status[t] = "RETRYING" /\ attempt[t] < MaxAttempts

(* Wrong variant: max_attempts is not looked at.                         *)
FailedAlwaysRetries(t) == "RETRYING"
(* Task.mark_failed                                                        *)
Failed(t) == IF attempt[t] < MaxAttempts THEN "RETRYING" ELSE "FAILED"

-----------------------------------------------------------------------------

Enqueue(t) ==
    /\ status[t] = "NEW"
    /\ Mark(t, "PENDING") /\ Put(t)
    /\ UNCHANGED <<attempt, pc, job, retried, orphaned, used>>

(* The entry of the highest priority, the oldest among equals, is popped.  *)
Pop(i) ==
    /\ \A j \in DOMAIN queue :
          Priority[queue[j]] < Priority[queue[i]]
          \/ (Priority[queue[j]] = Priority[queue[i]] /\ i <= j)
    /\ queue' = [k \in 1 .. (Len(queue) - 1) |-> IF k < i THEN queue[k] ELSE queue[k + 1]]

ProcessAll(w) ==
    /\ pc[w] = "off"
    /\ InHand(w, "idle", None)
    /\ UNCHANGED <<queue, status, attempt, retried, orphaned, used>>

Wait(w) ==
    /\ pc[w] = "idle" /\ queue = <<>>
    /\ InHand(w, "waiting", None)
    /\ UNCHANGED <<queue, status, attempt, retried, orphaned, used>>

(* The timer may run in the turn of the loop in which an entry arrives.    *)
TimeOut(w) ==
    /\ pc[w] = "waiting"
    /\ GiveUp(w)
    /\ UNCHANGED <<queue, status, attempt, retried, orphaned, used>>

(* dequeue drops an entry whose job is not PENDING any more and returns    *)
(* None, as for an empty queue: process_all ends.                          *)
DequeueStale(w, i) ==
    /\ pc[w] \in Looking /\ Pop(i) /\ status[queue[i]] # "PENDING"
    /\ GiveUp(w)
    /\ UNCHANGED <<status, attempt, retried, orphaned, used>>

(* A job without a handler is marked failed, which makes it RETRYING, and  *)
(* it is not put back.                                                     *)
DequeueUnhandled(w, i) ==
    /\ pc[w] \in Looking /\ Pop(i)
    /\ status[queue[i]] = "PENDING" /\ queue[i] \in Unhandled
    /\ Mark(queue[i], Failed(queue[i]))
    /\ Done(w)
    /\ UNCHANGED <<attempt, retried, orphaned, used>>

(* Wrong variant: the attempt is not counted.                            *)
DequeueUncounted(w, i) ==
    /\ pc[w] \in Looking /\ Pop(i)
    /\ status[queue[i]] = "PENDING" /\ queue[i] \notin Unhandled
    /\ Mark(queue[i], "RUNNING")
    /\ InHand(w, "handling", queue[i])
    /\ UNCHANGED <<attempt, retried, orphaned, used>>

Dequeue(w, i) ==
    /\ pc[w] \in Looking /\ Pop(i)
    /\ status[queue[i]] = "PENDING" /\ queue[i] \notin Unhandled
    /\ Mark(queue[i], "RUNNING")
    /\ attempt' = [attempt EXCEPT ![queue[i]] = @ + 1]
    /\ InHand(w, "handling", queue[i])
    /\ UNCHANGED <<retried, orphaned, used>>

HandlerReturns(w) ==
    /\ pc[w] = "handling"
    /\ Mark(job[w], "COMPLETED")
    /\ Done(w)
    /\ UNCHANGED <<queue, attempt, retried, orphaned, used>>

(* Wrong variant: the job is put back before the sleep and after it.     *)
HandlerRaisesQueuedTwice(w) ==
    /\ pc[w] = "handling"
    /\ Mark(job[w], Failed(job[w]))
    /\ IF Failed(job[w]) = "RETRYING"
       THEN InHand(w, "sleeping", job[w]) /\ Put(job[w])
       ELSE Done(w) /\ UNCHANGED queue
    /\ UNCHANGED <<attempt, retried, orphaned, used>>

HandlerRaises(w) ==
    /\ pc[w] = "handling"
    /\ Mark(job[w], Failed(job[w]))
    /\ IF Failed(job[w]) = "RETRYING" THEN InHand(w, "sleeping", job[w]) ELSE Done(w)
    /\ UNCHANGED <<queue, attempt, retried, orphaned, used>>

(* Wrong variant: the job is not put back.                               *)
WakeUpUnqueued(w) ==
    /\ pc[w] = "sleeping"
    /\ Mark(job[w], "PENDING")
    /\ Done(w)
    /\ UNCHANGED <<queue, attempt, retried, orphaned, used>>

(* The status of the job is not read again after the sleep.                *)
WakeUp(w) ==
    /\ pc[w] = "sleeping"
    /\ Mark(job[w], "PENDING") /\ Put(job[w])
    /\ Done(w)
    /\ UNCHANGED <<attempt, retried, orphaned, used>>

(* Wrong variant: running jobs are cancelled too.                        *)
CancelTaskRunningToo(t) ==
    /\ status[t] \in {"PENDING", "RUNNING"} /\ used["cancel_task"] < MaxCancels
    /\ Mark(t, "CANCELLED")
    /\ used' = [used EXCEPT !["cancel_task"] = @ + 1]
    /\ UNCHANGED <<queue, attempt, pc, job, retried, orphaned>>

CancelTask(t) ==
    /\ status[t] = "PENDING" /\ used["cancel_task"] < MaxCancels
    /\ Mark(t, "CANCELLED")
    /\ used' = [used EXCEPT !["cancel_task"] = @ + 1]
    /\ UNCHANGED <<queue, attempt, pc, job, retried, orphaned>>

RetryTask(t) ==
    /\ CanRetry(t) /\ retried[t] < MaxRetries
    /\ Mark(t, "PENDING") /\ Put(t)
    /\ retried' = [retried EXCEPT ![t] = @ + 1]
    /\ UNCHANGED <<attempt, pc, job, orphaned, used>>

(* CancelledError passes process_next and process_all by, in the wait, in  *)
(* the handler and in the sleep.                                           *)
StopWorker(w) ==
    /\ pc[w] # "off" /\ used["stop"] < MaxStops
    /\ orphaned' = orphaned \cup ({job[w]} \ {None})
    /\ GiveUp(w)
    /\ used' = [used EXCEPT !["stop"] = @ + 1]
    /\ UNCHANGED <<queue, status, attempt, retried>>

TakeNext(w) ==
    \E i \in DOMAIN queue : DequeueStale(w, i) \/ DequeueUnhandled(w, i) \/ Dequeue(w, i)
Look(w) == TakeNext(w) \/ Wait(w) \/ TimeOut(w)
Resume(w) == HandlerReturns(w) \/ HandlerRaises(w) \/ WakeUp(w)

Next ==
    \/ \E t \in Jobs : Enqueue(t) \/ CancelTask(t) \/ RetryTask(t)
    \/ \E w \in Workers : ProcessAll(w) \/ Look(w) \/ Resume(w) \/ StopWorker(w)

Spec == Init /\ [][Next]_vars

(* A running process_all gets an entry or times out; handlers end and      *)
(* sleeps are over.  Nobody has to call process_all.                       *)
FairSpec == Spec /\ \A w \in Workers : WF_vars(Look(w)) /\ WF_vars(Resume(w))

-----------------------------------------------------------------------------
(* Properties.                                                             *)

Entries(t) == {i \in DOMAIN queue : queue[i] = t}
Holders(t) == {w \in Workers : job[w] = t}
Terminal(t) == status[t] \in {"COMPLETED", "FAILED", "CANCELLED"}
FindsNothing(w) ==
    \/ pc[w] = "idle" /\ pc'[w] = "waiting"
    \/ pc[w] \in Looking /\ pc'[w] = "off" /\ queue' # queue /\ status' = status

(* No job is left behind: one that is PENDING has an entry in the queue,   *)
(* one that is RUNNING is in a handler, one that is RETRYING has a worker  *)
(* that sleeps before it puts it back.  The two ways to lose one are a     *)
(* worker cancelled in an await and a missing handler.                     *)
NothingIsLost ==
    \A t \in Jobs :
        /\ status[t] = "PENDING" => Entries(t) # {}
        /\ status[t] = "RUNNING" =>
              t \in orphaned \/ \E w \in Holders(t) : pc[w] = "handling"
        /\ status[t] = "RETRYING" =>
              t \in orphaned \cup Unhandled \/ \E w \in Holders(t) : pc[w] = "sleeping"

(* A job is in one place: one entry, or one worker.  Each retry_task that  *)
(* meets a worker asleep before its own retry adds one more, never two.    *)
OneHolder ==
    \A t \in Jobs : Cardinality(Entries(t)) + Cardinality(Holders(t)) <= 1 + retried[t]

(* A handler is started max_attempts times for a job, and at most once     *)
(* more for each retry_task, though a worker that wakes up after its sleep *)
(* does not look at the attempt counter again.                             *)
AttemptsBounded == \A t \in Jobs : attempt[t] <= MaxAttempts + retried[t]

(* The result of a job is final, whatever stale entries the queue still    *)
(* holds: only a worker that retry_task overtook, with the job in hand,    *)
(* may set it again.                                                       *)
TerminalIsFinal ==
    [][\A t \in Jobs :
          Terminal(t) /\ (retried[t] = 0 \/ Holders(t) = {}) => status'[t] = status[t]]_vars

(* process_all, "Process all pending tasks": a call that finds the queue   *)
(* empty, or that ends with the entry it popped, leaves no job PENDING     *)
(* unless that entry was stale; and an entry is only stale when its job    *)
(* was cancelled, or has a second entry or a worker because of retry_task. *)
LeftPendingIsExplained ==
    [][\A w \in Workers :
          FindsNothing(w) =>
              \/ \A t \in Jobs : status[t] # "PENDING"
              \/ \E t \in Jobs :
                    /\ Cardinality(Entries(t)') < Cardinality(Entries(t))
                    /\ \/ status[t] = "CANCELLED"
                       \/ status[t] # "PENDING" /\ retried[t] > 0]_vars

(* As long as the application calls process_all again and again, every job *)
(* with a handler comes to rest in a terminal state, even when retry_task  *)
(* brought a second copy of it into the queue, unless a worker was         *)
(* cancelled with it.                                                      *)
EventuallyAtRest ==
    ([]<>(\E w \in Workers : pc[w] # "off")) =>
        \A t \in Jobs \ Unhandled :
            status[t] # "NEW" ~> (t \in orphaned \/ [](Terminal(t)))
=============================================================================
