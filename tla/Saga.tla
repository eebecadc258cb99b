-------------------------------- MODULE Saga --------------------------------
(***************************************************************************)
(* The orchestrated saga of src/infrastructure/db/saga: concurrent calls   *)
(* of SagaOrchestrator.execute on one registered Saga.  A call suspends in *)
(* the action of a step, in a compensation and in a callback, and runs     *)
(* without interruption between them.  The calls share the step objects:   *)
(* each call resets them all when it starts.                               *)
(***************************************************************************)
EXTENDS Integers, Sequences, FiniteSets

CONSTANTS
    Executions,    \* calls of execute
    N,             \* number of steps of the saga, 1 .. N in order
    Compensable,   \* the steps that have a compensation
    Timed,         \* the steps that have timeout_seconds
    Callbacks,     \* the callbacks the saga was given
    MaxHistory,    \* _max_history of the orchestrator
    MaxCancels     \* bound of the model: how many calls are cancelled

CallbackNames == {"on_complete", "on_compensate", "on_failure"}
Steps == 1 .. N

ASSUME SagaAssumption ==
    /\ N \in Nat \ {0} /\ MaxHistory \in Nat \ {0} /\ MaxCancels \in Nat
    /\ Compensable \subseteq Steps /\ Timed \subseteq Steps
    /\ Callbacks \subseteq CallbackNames

VARIABLES
    pc,          \* where each call is suspended, or how it ended
    at,          \* the step a call is at
    result,      \* SagaResult.status of each call
    undoFailed,  \* the calls with a compensation that failed
    stepStatus,  \* SagaStep.status, shared by the calls
    started,     \* the steps whose SagaStep.started_at is set, shared too
    completed,   \* completed_steps of each call
    acted,       \* history: the steps of a call whose action took effect
    undone,      \* history: the steps of a call whose compensation took effect
    tried,       \* history: the compensations of a call that were started
    notified,    \* history: the calls whose on_failure was called
    overtaken,   \* history: the calls whose step another call reset under them
    history,     \* SagaOrchestrator._history
    cancels

vars == <<pc, at, result, undoFailed, stepStatus, started, completed, acted, undone,
          tried, notified, overtaken, history, cancels>>

Suspended == {"acting", "undoing", "completing", "compensated", "failing", "reporting"}
Ended == {"returned", "raised", "cancelled"}
SagaStatuses == {"RUNNING", "COMPLETED", "COMPENSATING", "COMPENSATED", "FAILED"}
StepStatuses == {"PENDING", "RUNNING", "COMPLETED", "COMPENSATING", "COMPENSATED",
                 "FAILED", "SKIPPED"}

TypeOK ==
    /\ pc \in [Executions -> {"idle"} \cup Suspended \cup Ended]
    /\ at \in [Executions -> Steps]
    /\ result \in [Executions -> SagaStatuses]
    /\ undoFailed \subseteq Executions /\ notified \subseteq Executions
    /\ overtaken \subseteq Executions
    /\ stepStatus \in [Steps -> StepStatuses] /\ started \subseteq Steps
    /\ completed \in [Executions -> SUBSET Steps] /\ acted \in [Executions -> SUBSET Steps]
    /\ undone \in [Executions -> SUBSET Steps] /\ tried \in [Executions -> SUBSET Steps]
    /\ history \in Seq(Executions) /\ Len(history) <= MaxHistory
    /\ cancels \in Nat

Init ==
    /\ pc = [e \in Executions |-> "idle"] /\ at = [e \in Executions |-> 1]
    /\ result = [e \in Executions |-> "RUNNING"]
    /\ undoFailed = {} /\ notified = {} /\ overtaken = {}
    /\ stepStatus = [s \in Steps |-> "PENDING"] /\ started = {}
    /\ completed = [e \in Executions |-> {}] /\ acted = [e \in Executions |-> {}]
    /\ undone = [e \in Executions |-> {}] /\ tried = [e \in Executions |-> {}]
    /\ history = <<>> /\ cancels = 0

-----------------------------------------------------------------------------

Goto(e, l) == pc' = [pc EXCEPT ![e] = l]
Outcome(e, s) == result' = [result EXCEPT ![e] = s]

(* Wrong variant: the history is not trimmed.                            *)
RememberAll(e) == history' = Append(history, e)

(* _add_to_history keeps the newest results.                               *)
Remember(e) ==
    LET all == Append(history, e)
    IN  history' = IF Len(all) > MaxHistory THEN Tail(all) ELSE all

Return(e) == Goto(e, "returned") /\ Remember(e)

Notify(e) ==
    notified' = IF "on_failure" \in Callbacks THEN notified \cup {e} ELSE notified

(* The callback is awaited when there is one; otherwise execute returns.   *)
CallbackOrReturn(e, callback, l) ==
    IF callback \in Callbacks THEN Goto(e, l) /\ UNCHANGED history ELSE Return(e)

(* Every step is reset, whoever is suspended in it; then the first starts. *)
Start(e) ==
    /\ pc[e] = "idle"
    /\ Goto(e, "acting")
    /\ stepStatus' = [s \in Steps |-> IF s = 1 THEN "RUNNING" ELSE "PENDING"]
    /\ started' = {1}
    /\ overtaken' = overtaken \cup {f \in Executions : pc[f] = "acting" /\ at[f] > 1}
    /\ UNCHANGED <<at, result, undoFailed, completed, acted, undone, tried, notified,
                   history, cancels>>

NextStep(e) ==
    /\ at[e] < N
    /\ at' = [at EXCEPT ![e] = @ + 1]
    /\ stepStatus' = [stepStatus EXCEPT ![at[e]] = "COMPLETED", ![at[e] + 1] = "RUNNING"]
    /\ started' = started \cup {at[e] + 1}
    /\ UNCHANGED <<pc, result, history>>

LastStepDone(e) ==
    /\ at[e] = N
    /\ stepStatus' = [stepStatus EXCEPT ![N] = "COMPLETED"]
    /\ Outcome(e, "COMPLETED")
    /\ CallbackOrReturn(e, "on_complete", "completing")
    /\ UNCHANGED <<at, started>>

ActionSucceeds(e) ==
    /\ pc[e] = "acting" /\ at[e] \in started
    /\ acted' = [acted EXCEPT ![e] = @ \cup {at[e]}]
    /\ completed' = [completed EXCEPT ![e] = @ \cup {at[e]}]
    /\ NextStep(e) \/ LastStepDone(e)
    /\ UNCHANGED <<undoFailed, undone, tried, notified, overtaken, cancels>>

(* Wrong variant: compensations run upwards.                             *)
UndoNextForwards(e, i) ==
    LET left == {j \in completed[e] \cap Compensable : j < i}
    IN  IF left = {} THEN 0 ELSE CHOOSE j \in left : \A k \in left : k >= j
(* Wrong variant: the step at hand is compensated again.                 *)
UndoNextAgain(e, i) ==
    LET left == {j \in completed[e] \cap Compensable : j <= i}
    IN  IF left = {} THEN 0 ELSE CHOOSE j \in left : \A k \in left : k <= j

(* _compensate continues below step i: the steps without a compensation    *)
(* are passed over, the next one with a compensation is started, and when  *)
(* there is none (0) the result is decided.                                *)
UndoNext(e, i) ==
    LET left == {j \in completed[e] \cap Compensable : j < i}
    IN  IF left = {} THEN 0 ELSE CHOOSE j \in left : \A k \in left : k <= j

CompensateBelow(e, status, failed) ==
    LET i == at[e]
        j == UndoNext(e, i)
    IN  /\ stepStatus' = [s \in Steps |->
              CASE s = i -> status
                [] s = j -> "COMPENSATING"
                [] s > j /\ s < i -> "SKIPPED"
                [] OTHER -> stepStatus[s]]
        /\ undoFailed' = failed
        /\ IF j > 0
           THEN /\ at' = [at EXCEPT ![e] = j]
                /\ tried' = [tried EXCEPT ![e] = @ \cup {j}]
                /\ Goto(e, "undoing") /\ Outcome(e, "COMPENSATING")
                /\ UNCHANGED <<history, notified>>
           ELSE /\ UNCHANGED <<at, tried>>
                /\ IF e \in failed
                   THEN /\ Outcome(e, "FAILED")
                        /\ CallbackOrReturn(e, "on_failure", "failing")
                        /\ Notify(e)
                   ELSE /\ Outcome(e, "COMPENSATED")
                        /\ CallbackOrReturn(e, "on_compensate", "compensated")
                        /\ UNCHANGED notified

(* The action raises, or wait_for cancels it after timeout_seconds, when   *)
(* its effect may be there already: the step counts as failed and its own  *)
(* compensation is not run.                                                *)
ActionFails(e) ==
    /\ pc[e] = "acting" /\ at[e] \in started
    /\ \/ UNCHANGED acted
       \/ at[e] \in Timed /\ acted' = [acted EXCEPT ![e] = @ \cup {at[e]}]
    /\ CompensateBelow(e, "FAILED", undoFailed)
    /\ UNCHANGED <<started, completed, undone, overtaken, cancels>>

(* Another call's reset took started_at away: whatever the action did, the *)
(* duration cannot be computed, in the try block or in the handler, and    *)
(* the TypeError ends the call in the handler of execute: nothing is       *)
(* compensated.                                                            *)
DurationRaises(e) ==
    /\ pc[e] = "acting" /\ at[e] \notin started
    /\ \/ UNCHANGED acted
       \/ acted' = [acted EXCEPT ![e] = @ \cup {at[e]}]
    /\ stepStatus' = [stepStatus EXCEPT ![at[e]] = "FAILED"]
    /\ Outcome(e, "FAILED")
    /\ CallbackOrReturn(e, "on_failure", "reporting")
    /\ Notify(e)
    /\ UNCHANGED <<at, undoFailed, started, completed, undone, tried, overtaken, cancels>>

CompensationReturns(e) ==
    /\ pc[e] = "undoing"
    /\ undone' = [undone EXCEPT ![e] = @ \cup {at[e]}]
    /\ CompensateBelow(e, "COMPENSATED", undoFailed)
    /\ UNCHANGED <<started, completed, acted, overtaken, cancels>>

(* Wrong variant: a failed compensation is only logged.                  *)
CompensationRaisesForgotten(e) ==
    /\ pc[e] = "undoing"
    /\ CompensateBelow(e, "FAILED", undoFailed)
    /\ UNCHANGED <<started, completed, undone, acted, overtaken, cancels>>

CompensationRaises(e) ==
    /\ pc[e] = "undoing"
    /\ CompensateBelow(e, "FAILED", undoFailed \cup {e})
    /\ UNCHANGED <<started, completed, undone, acted, overtaken, cancels>>

CallbackReturns(e) ==
    /\ pc[e] \in {"completing", "compensated", "failing", "reporting"}
    /\ Return(e)
    /\ UNCHANGED <<at, result, undoFailed, stepStatus, started, completed, acted, undone,
                   tried, notified, overtaken, cancels>>

(* Wrong variant: on_failure is not called when a callback raises.       *)
CallbackRaisesQuietly(e) ==
    /\ pc[e] \in {"completing", "compensated", "failing"}
    /\ Outcome(e, "FAILED")
    /\ Return(e)
    /\ UNCHANGED <<at, undoFailed, stepStatus, started, completed, acted, undone, tried,
                   notified, overtaken, cancels>>

(* execute catches what a callback raises, whatever the outcome was: the   *)
(* result becomes FAILED and on_failure is called, for the second time     *)
(* when it was on_failure that raised.                                     *)
CallbackRaises(e) ==
    /\ pc[e] \in {"completing", "compensated", "failing"}
    /\ Outcome(e, "FAILED")
    /\ CallbackOrReturn(e, "on_failure", "reporting")
    /\ Notify(e)
    /\ UNCHANGED <<at, undoFailed, stepStatus, started, completed, acted, undone, tried,
                   overtaken, cancels>>

(* Nothing catches what on_failure raises in the handler of execute.       *)
ReportRaises(e) ==
    /\ pc[e] = "reporting"
    /\ Goto(e, "raised")
    /\ UNCHANGED <<at, result, undoFailed, stepStatus, started, completed, acted, undone,
                   tried, notified, overtaken, history, cancels>>

(* CancelledError is no Exception: the call ends wherever it is, without a *)
(* compensation, its action or compensation done or not.                   *)
Cancel(e) ==
    /\ pc[e] \in Suspended /\ cancels < MaxCancels
    /\ cancels' = cancels + 1
    /\ Goto(e, "cancelled")
    /\ \/ UNCHANGED <<acted, undone>>
       \/ pc[e] = "acting" /\ acted' = [acted EXCEPT ![e] = @ \cup {at[e]}] /\ UNCHANGED undone
       \/ pc[e] = "undoing" /\ undone' = [undone EXCEPT ![e] = @ \cup {at[e]}] /\ UNCHANGED acted
    /\ UNCHANGED <<at, result, undoFailed, stepStatus, started, completed, tried, notified,
                   overtaken, history>>

Resume(e) ==
    \/ ActionSucceeds(e) \/ ActionFails(e) \/ DurationRaises(e)
    \/ CompensationReturns(e) \/ CompensationRaises(e)
    \/ CallbackReturns(e) \/ CallbackRaises(e) \/ ReportRaises(e)

Next == \E e \in Executions : Start(e) \/ Resume(e) \/ Cancel(e)

Spec == Init /\ [][Next]_vars

(* Actions, compensations and callbacks return or raise in the end.        *)
FairSpec == Spec /\ \A e \in Executions : WF_vars(Resume(e))

-----------------------------------------------------------------------------
(* Properties.                                                             *)

(* What a caller may conclude from the result it gets: COMPLETED means     *)
(* every action took effect and none was undone; COMPENSATED means every   *)
(* completed step that has a compensation was undone, so that what is left *)
(* is that of steps without one, or of the one step that timed out; FAILED *)
(* means that each of them was tried, unless every step was completed (and *)
(* on_complete raised) or another call reset the step this one was in.     *)
ResultIsHonest ==
    \A e \in Executions : pc[e] = "returned" =>
        /\ result[e] \in {"COMPLETED", "COMPENSATED", "FAILED"}
        /\ result[e] = "COMPLETED" => acted[e] = Steps /\ undone[e] = {}
        /\ result[e] = "COMPENSATED" =>
              /\ undone[e] = completed[e] \cap Compensable
              /\ acted[e] \ completed[e] \subseteq Timed
        /\ result[e] = "FAILED" =>
              \/ completed[e] \cap Compensable \subseteq tried[e]
              \/ completed[e] = Steps
              \/ e \in overtaken

(* A call that returns FAILED has told on_failure, whichever of its        *)
(* compensations and callbacks raised, and also when it stumbled over the  *)
(* reset of another call.                                                  *)
FailureIsReported ==
    \A e \in Executions :
        pc[e] = "returned" /\ result[e] = "FAILED" /\ "on_failure" \in Callbacks =>
            e \in notified

(* Compensations run downwards: a step is compensated only when its action *)
(* took effect and the compensation of each later completed step was tried *)
(* before, whether it returned or raised.                                  *)
ReverseOrder ==
    \A e \in Executions : \A s \in tried[e] :
        /\ s \in acted[e]
        /\ \A r \in completed[e] \cap Compensable : r > s => r \in tried[e]

(* Once a call compensates, no action of it takes effect any more, and     *)
(* whatever a compensation does, the call moves on to an earlier step.     *)
NoWayBack ==
    [][\A e \in Executions : pc[e] = "undoing" =>
          /\ acted'[e] = acted[e] /\ pc'[e] # "acting"
          /\ \/ at'[e] < at[e] \/ pc'[e] # "undoing"
             \/ UNCHANGED <<undone[e], e \in undoFailed>>]_vars

(* Every call that starts ends.                                            *)
EventuallyEnds == \A e \in Executions : pc[e] = "acting" ~> pc[e] \in Ended
=============================================================================
