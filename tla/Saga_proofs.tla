----------------------------- MODULE Saga_proofs -----------------------------
(***************************************************************************)
(* The saga, for any number of calls and steps, any of which may have a    *)
(* compensation and a timeout, and any callbacks, though every call resets *)
(* the steps of the others: results are honest, failures are reported, and *)
(* compensations run downwards.                                            *)
(***************************************************************************)
EXTENDS Saga, SequenceTheorems, WellFoundedInduction, TLAPS

(* The steps of a call that have something to compensate.                  *)
ToUndo(e) == completed[e] \cap Compensable

(* A decided call has tried what there was to undo, or had no failed step, *)
(* or lost its step to the reset of another call.                          *)
Accounted(e) ==
    ToUndo(e) \subseteq tried[e] \/ completed[e] = Steps \/ e \in overtaken

(* What a result says of the call it is the result of.                     *)
Verdict(e) ==
    /\ Accounted(e)
    /\ \/ result[e] = "COMPLETED" /\ acted[e] = Steps /\ undone[e] = {}
       \/ /\ result[e] = "COMPENSATED"
          /\ undone[e] = ToUndo(e) /\ acted[e] \ completed[e] \subseteq Timed
       \/ result[e] = "FAILED" /\ ("on_failure" \in Callbacks => e \in notified)

(* What was tried is an upper part of what there is to undo.               *)
Downwards(e) ==
    /\ completed[e] \subseteq acted[e] /\ tried[e] \subseteq ToUndo(e)
    /\ \A s \in tried[e] : \A r \in ToUndo(e) : r > s => r \in tried[e]

(* On its way up, a call has done the steps below the one it is at, and    *)
(* undone none.                                                            *)
Acting(e) ==
    /\ completed[e] = 1 .. (at[e] - 1) /\ acted[e] = completed[e]
    /\ tried[e] = {} /\ undone[e] = {} /\ e \notin undoFailed

(* On its way down, it has tried the compensations down to the one it is   *)
(* at, and unless one of them failed, all above took effect.               *)
Undoing(e) ==
    /\ at[e] \in tried[e] /\ \A s \in tried[e] : s >= at[e]
    /\ e \notin undoFailed => undone[e] = tried[e] \ {at[e]}
    /\ acted[e] \ completed[e] \subseteq Timed

(* The clock of the step a call is in runs, unless another call reset it.  *)
Clocked(e) == at[e] \in started \/ e \in overtaken

Decided == {"completing", "compensated", "failing", "reporting", "returned"}

CallInv(e) ==
    /\ Downwards(e)
    /\ pc[e] = "idle" => at[e] = 1
    /\ pc[e] \in {"idle", "acting"} => Acting(e)
    /\ pc[e] = "acting" => Clocked(e)
    /\ pc[e] = "undoing" => Undoing(e)
    /\ pc[e] \in Decided => Verdict(e)

Inv == TypeOK /\ \A e \in Executions : CallInv(e)

-----------------------------------------------------------------------------
(* The next step to compensate.                                            *)

(* A set of steps that is not empty has a last one.                        *)
LEMMA LastStep ==
    ASSUME NEW S \in SUBSET Steps, S # {}
    PROVE  \E j \in S : \A k \in S : k <= j
<1> DEFINE T == {N - j : j \in S}
<1>1. \A j \in S : j \in Nat /\ N - j \in Nat
  BY SagaAssumption DEF Steps
<1>2. PICK x \in T : \A y \in T : ~ (<<y, x>> \in OpToRel(<, Nat))
  <2>1. T \subseteq Nat /\ T # {}
    BY <1>1
  <2>2. QED
    BY <2>1, NatLessThanWellFounded, WFMin
<1>3. \A y \in T : ~ (y < x)
  BY <1>1, <1>2 DEF OpToRel
<1>4. PICK j \in S : x = N - j
  OBVIOUS
<1>5. ASSUME NEW k \in S PROVE k <= j
  <2>1. N - k \in T /\ j \in Nat /\ k \in Nat /\ N \in Nat
    BY <1>1, SagaAssumption
  <2>2. ~ (N - k < N - j)
    BY <1>3, <1>4, <2>1
  <2>3. QED
    BY <2>1, <2>2
<1>6. QED
  BY <1>5

(* Below step i there is nothing left to undo, or the next to undo is the  *)
(* last one with a compensation.                                           *)
LEMMA NextToUndo ==
    ASSUME TypeOK, NEW e \in Executions, NEW i \in Steps
    PROVE  \/ /\ UndoNext(e, i) = 0
              /\ \A k \in ToUndo(e) : k >= i
           \/ /\ UndoNext(e, i) \in ToUndo(e) /\ UndoNext(e, i) \in Steps
              /\ UndoNext(e, i) < i
              /\ \A k \in ToUndo(e) : k < i => k <= UndoNext(e, i)
<1> DEFINE left == {j \in ToUndo(e) : j < i}
<1>1. left \in SUBSET Steps /\ ToUndo(e) \in SUBSET Steps
  BY DEF TypeOK, ToUndo
<1>2. UndoNext(e, i) = IF left = {} THEN 0 ELSE CHOOSE j \in left : \A k \in left : k <= j
  BY DEF UndoNext, ToUndo
<1>3. CASE left = {}
  BY <1>1, <1>2, <1>3 DEF Steps
<1>4. CASE left # {}
  <2>1. \E j \in left : \A k \in left : k <= j
    BY <1>1, <1>4, LastStep
  <2>2. /\ UndoNext(e, i) \in left
        /\ \A k \in left : k <= UndoNext(e, i)
    BY <1>2, <1>4, <2>1
  <2>3. QED
    BY <1>1, <2>2
<1>5. QED
  BY <1>3, <1>4

-----------------------------------------------------------------------------
(* The steps.                                                              *)

(* Initially every call has done nothing.                                  *)
LEMMA InitInv == Init => Inv
<1> SUFFICES ASSUME Init PROVE Inv
  OBVIOUS
<1>1. TypeOK
  BY SagaAssumption DEF Init, TypeOK, Steps, Suspended, Ended, SagaStatuses, StepStatuses
<1>2. ASSUME NEW e \in Executions PROVE CallInv(e)
  BY DEF Init, CallInv, Downwards, Acting, ToUndo, Decided
<1>3. QED
  BY <1>1, <1>2 DEF Inv

(* What a call is in a step of another one.                                *)
Untouched(e) ==
    /\ UNCHANGED <<pc[e], at[e], result[e], completed[e], acted[e], undone[e], tried[e]>>
    /\ e \in undoFailed' <=> e \in undoFailed
    /\ e \in notified' <=> e \in notified
    /\ e \in overtaken => e \in overtaken'
    /\ pc[e] = "acting" /\ at[e] \in started => at[e] \in started' \/ e \in overtaken'

(* The calls share the step objects, and a reset is recorded.              *)
LEMMA OtherCall ==
    ASSUME NEW e \in Executions, CallInv(e), Untouched(e)
    PROVE  CallInv(e)'
BY DEF Untouched, CallInv, Downwards, Acting, Clocked, Undoing, Verdict, Accounted, ToUndo

(* The history keeps its bound.                                            *)
LEMMA RememberBounds ==
    ASSUME TypeOK, NEW e \in Executions, Remember(e)
    PROVE  history' \in Seq(Executions) /\ Len(history') <= MaxHistory
<1> DEFINE all == Append(history, e)
<1>1. all \in Seq(Executions) /\ all # <<>> /\ Len(all) = Len(history) + 1
  BY AppendProperties DEF TypeOK
<1>2. Tail(all) \in Seq(Executions) /\ Len(Tail(all)) = Len(all) - 1
  BY <1>1, HeadTailProperties
<1>3. Len(history) \in Nat
  BY LenProperties DEF TypeOK
<1>4. QED
  BY <1>1, <1>2, <1>3, SagaAssumption DEF Remember, TypeOK

(* A call that may await a callback waits in it or returns.                *)
LEMMA CallbackTypes ==
    ASSUME TypeOK, NEW e \in Executions, NEW c, NEW l \in Suspended, CallbackOrReturn(e, c, l)
    PROVE  /\ pc' = [pc EXCEPT ![e] = l] \/ pc' = [pc EXCEPT ![e] = "returned"]
           /\ pc' \in [Executions -> {"idle"} \cup Suspended \cup Ended]
           /\ history' \in Seq(Executions) /\ Len(history') <= MaxHistory
<1>1. CASE c \in Callbacks
  BY <1>1 DEF TypeOK, CallbackOrReturn, Goto
<1>2. CASE c \notin Callbacks
  BY <1>2, RememberBounds DEF TypeOK, CallbackOrReturn, Return, Goto, Ended
<1>3. QED
  BY <1>1, <1>2

(* A call begins with its first step.                                      *)
LEMMA StartStep ==
    ASSUME Inv, NEW e \in Executions, Start(e)
    PROVE  Inv'
<1>1. /\ pc[e] = "idle" /\ pc' = [pc EXCEPT ![e] = "acting"]
      /\ stepStatus' = [s \in Steps |-> IF s = 1 THEN "RUNNING" ELSE "PENDING"]
      /\ started' = {1}
      /\ overtaken' = overtaken \cup {f \in Executions : pc[f] = "acting" /\ at[f] > 1}
      /\ UNCHANGED <<at, result, undoFailed, completed, acted, undone, tried, notified,
                     history, cancels>>
  BY DEF Start, Goto
<1>2. TypeOK'
  BY <1>1, SagaAssumption DEF Inv, TypeOK, Suspended, StepStatuses, Steps
<1>3. \A f \in Executions \ {e} : CallInv(f)'
  <2>1. \A f \in Executions : at[f] = 1 \/ at[f] > 1
    BY SagaAssumption DEF Inv, TypeOK, Steps
  <2>2. QED
    BY <1>1, <2>1, OtherCall DEF Inv, TypeOK, Untouched
<1>4. CallInv(e)'
  BY <1>1 DEF Inv, TypeOK, CallInv, Downwards, Acting, Clocked, ToUndo, Decided
<1>5. QED
  BY <1>2, <1>3, <1>4 DEF Inv

(* An action that returns is done; the call goes up a step or is complete. *)
LEMMA ActionSucceedsStep ==
    ASSUME Inv, NEW e \in Executions, ActionSucceeds(e)
    PROVE  Inv'
<1> DEFINE i == at[e]
<1>1. /\ pc[e] = "acting" /\ i \in Steps
      /\ acted' = [acted EXCEPT ![e] = @ \cup {i}]
      /\ completed' = [completed EXCEPT ![e] = @ \cup {i}]
      /\ UNCHANGED <<undoFailed, undone, tried, notified, overtaken, cancels>>
  BY DEF ActionSucceeds, Inv, TypeOK
<1>2. /\ acted' \in [Executions -> SUBSET Steps] /\ completed' \in [Executions -> SUBSET Steps]
      /\ Acting(e) /\ acted'[e] = acted[e] \cup {i} /\ completed'[e] = completed[e] \cup {i}
      /\ tried[e] = {} /\ undone[e] = {} /\ acted'[e] = 1 .. i
      /\ i \in Nat \ {0} /\ i <= N /\ N \in Nat
  BY <1>1, SagaAssumption DEF Inv, TypeOK, CallInv, Acting, Steps
<1>3. CASE NextStep(e)
  <2>1. /\ at' = [at EXCEPT ![e] = i + 1] /\ i + 1 \in Steps
        /\ started' = started \cup {i + 1}
        /\ UNCHANGED <<pc, result, history>>
    BY <1>2, <1>3 DEF NextStep, Inv, TypeOK, Steps
  <2>2. stepStatus' \in [Steps -> StepStatuses]
    BY <1>3 DEF NextStep, Inv, TypeOK, StepStatuses
  <2>3. TypeOK'
    BY <1>1, <1>2, <2>1, <2>2 DEF Inv, TypeOK
  <2>4. \A f \in Executions \ {e} : CallInv(f)'
    BY <1>1, <2>1, OtherCall DEF Inv, TypeOK, Untouched
  <2>5. at'[e] = i + 1 /\ acted'[e] = completed'[e] /\ completed'[e] = 1 .. (at'[e] - 1)
    BY <1>2, <2>1 DEF Inv, TypeOK, Acting
  <2>6. CallInv(e)'
    BY <1>1, <1>2, <2>1, <2>5 DEF CallInv, Downwards, Acting, Clocked, ToUndo, Decided
  <2>7. QED
    BY <2>3, <2>4, <2>6 DEF Inv
<1>4. CASE LastStepDone(e)
  <2>1. /\ i = N /\ at' = at /\ started' = started
        /\ stepStatus' = [stepStatus EXCEPT ![N] = "COMPLETED"]
        /\ result' = [result EXCEPT ![e] = "COMPLETED"]
        /\ CallbackOrReturn(e, "on_complete", "completing")
    BY <1>4 DEF LastStepDone, Outcome
  <2>2. /\ pc' = [pc EXCEPT ![e] = "completing"] \/ pc' = [pc EXCEPT ![e] = "returned"]
        /\ pc' \in [Executions -> {"idle"} \cup Suspended \cup Ended]
        /\ history' \in Seq(Executions) /\ Len(history') <= MaxHistory
    BY <2>1, CallbackTypes DEF Inv, Suspended
  <2>3. TypeOK'
    BY <1>1, <1>2, <2>1, <2>2 DEF Inv, TypeOK, StepStatuses, SagaStatuses
  <2>4. \A f \in Executions \ {e} : CallInv(f)'
    BY <1>1, <2>1, <2>2, OtherCall DEF Inv, TypeOK, Untouched
  <2>5. /\ pc'[e] \in {"completing", "returned"} /\ result'[e] = "COMPLETED"
        /\ acted'[e] = Steps /\ completed'[e] = Steps
    BY <1>2, <2>1, <2>2 DEF Inv, TypeOK, Steps, Acting
  <2>6. CallInv(e)'
    BY <1>1, <1>2, <2>5 DEF CallInv, Downwards, Acting, Verdict, Accounted, ToUndo
  <2>7. QED
    BY <2>3, <2>4, <2>6 DEF Inv
<1>5. QED
  BY <1>3, <1>4 DEF ActionSucceeds

(* What _compensate finds below the step a call is at, whether that step   *)
(* failed or its own compensation is over: every later step with a         *)
(* compensation was tried and, unless one failed, undone.                  *)
Swept(e, failed) ==
    /\ \A k \in tried[e] : k >= at[e]
    /\ \A k \in ToUndo(e) : k >= at[e] => k \in tried[e]
    /\ e \notin failed => undone'[e] = tried[e]
    /\ acted[e] \subseteq acted'[e] /\ acted'[e] \ completed[e] \subseteq Timed

(* The call goes down to the next compensation or is decided: COMPENSATED  *)
(* only when all there was to undo was undone.                             *)
LEMMA CompensateStep ==
    ASSUME Inv, NEW e \in Executions, NEW status \in StepStatuses,
           NEW failed \in SUBSET Executions, CompensateBelow(e, status, failed),
           \A f \in Executions \ {e} : f \in failed <=> f \in undoFailed,
           Swept(e, failed), UNCHANGED <<started, completed, overtaken, cancels>>,
           acted' \in [Executions -> SUBSET Steps], undone' \in [Executions -> SUBSET Steps],
           \A f \in Executions \ {e} : acted'[f] = acted[f] /\ undone'[f] = undone[f]
    PROVE  Inv'
<1>1. PICK j : j = UndoNext(e, at[e])
  OBVIOUS
<1>2. /\ TypeOK /\ at[e] \in Steps /\ \A k \in Steps : k \in Nat /\ k > 0
      /\ \A k \in ToUndo(e) \cup tried[e] : k \in Steps
  BY SagaAssumption DEF Inv, TypeOK, Steps, ToUndo
<1>3. \/ j = 0 /\ \A k \in ToUndo(e) : k >= at[e]
      \/ /\ j \in ToUndo(e) /\ j \in Steps /\ j < at[e] /\ j > 0
         /\ \A k \in ToUndo(e) : k < at[e] => k <= j
  <2>1. \/ /\ UndoNext(e, at[e]) = 0
           /\ \A k \in ToUndo(e) : k >= at[e]
        \/ /\ UndoNext(e, at[e]) \in ToUndo(e) /\ UndoNext(e, at[e]) \in Steps
           /\ UndoNext(e, at[e]) < at[e]
           /\ \A k \in ToUndo(e) : k < at[e] => k <= UndoNext(e, at[e])
    BY <1>2, NextToUndo
  <2>2. QED
    BY <1>1, <1>2, <2>1
<1>4. undoFailed' = failed /\ Downwards(e) /\ completed' = completed
  BY DEF CompensateBelow, Inv, CallInv
<1>5. stepStatus' \in [Steps -> StepStatuses]
  <2>1. stepStatus' = [s \in Steps |-> CASE s = at[e] -> status
                                         [] s = j -> "COMPENSATING"
                                         [] s > j /\ s < at[e] -> "SKIPPED"
                                         [] OTHER -> stepStatus[s]]
    BY <1>1 DEF CompensateBelow
  <2>2. \A s \in Steps : (CASE s = at[e] -> status
                             [] s = j -> "COMPENSATING"
                             [] s > j /\ s < at[e] -> "SKIPPED"
                             [] OTHER -> stepStatus[s]) \in StepStatuses
    BY DEF Inv, TypeOK, StepStatuses
  <2>3. QED
    BY <2>1, <2>2
<1>6. CASE j > 0
  <2>1. /\ at' = [at EXCEPT ![e] = j]
        /\ tried' = [tried EXCEPT ![e] = @ \cup {j}]
        /\ pc' = [pc EXCEPT ![e] = "undoing"] /\ result' = [result EXCEPT ![e] = "COMPENSATING"]
        /\ UNCHANGED <<history, notified>>
    BY <1>1, <1>6 DEF CompensateBelow, Goto, Outcome
  <2>2. TypeOK'
    BY <1>3, <1>4, <1>5, <1>6, <2>1 DEF Inv, TypeOK, Suspended, SagaStatuses
  <2>3. \A f \in Executions \ {e} : CallInv(f)'
    BY <1>4, <2>1, OtherCall DEF Inv, TypeOK, Untouched
  <2>4. /\ at'[e] = j /\ tried'[e] = tried[e] \cup {j} /\ pc'[e] = "undoing"
        /\ ToUndo(e)' = ToUndo(e)
    BY <1>4, <2>1 DEF Inv, TypeOK, ToUndo
  <2>5. Downwards(e)'
    <3>1. completed'[e] \subseteq acted'[e] /\ tried'[e] \subseteq ToUndo(e)'
      BY <1>3, <1>4, <1>6, <2>4 DEF Downwards, Swept
    <3>2. \A r \in ToUndo(e) : r > j => r \in tried[e]
      BY <1>2, <1>3, <1>6 DEF Swept
    <3>3. \A s \in tried'[e] : \A r \in ToUndo(e)' : r > s => r \in tried'[e]
      BY <1>4, <2>4, <3>2 DEF Downwards
    <3>4. QED
      BY <3>1, <3>3 DEF Downwards
  <2>6. Undoing(e)'
    <3>1. \A s \in tried[e] : s \in Nat /\ s > j
      BY <1>2, <1>3, <1>6 DEF Swept
    <3>2. \A s \in tried'[e] : s >= at'[e]
      BY <1>2, <1>3, <1>6, <2>4, <3>1
    <3>3. e \notin undoFailed' => undone'[e] = tried'[e] \ {at'[e]}
      BY <1>2, <1>3, <1>4, <1>6, <2>4, <3>1 DEF Swept
    <3>4. QED
      BY <1>4, <2>4, <3>2, <3>3 DEF Swept, Undoing
  <2>7. CallInv(e)'
    BY <2>4, <2>5, <2>6 DEF CallInv, Decided
  <2>8. QED
    BY <2>2, <2>3, <2>7 DEF Inv
<1>7. CASE j = 0
  <2>1. tried[e] = ToUndo(e)
    <3>1. \A k \in ToUndo(e) : k >= at[e]
      BY <1>3, <1>7
    <3>2. tried[e] \subseteq ToUndo(e)
      BY <1>4 DEF Downwards
    <3>3. QED
      BY <3>1, <3>2 DEF Swept
  <2>2. UNCHANGED <<at, tried>>
    BY <1>1, <1>7 DEF CompensateBelow
  <2>3. PICK c \in CallbackNames, l \in {"failing", "compensated"}, r \in {"FAILED", "COMPENSATED"} :
          /\ CallbackOrReturn(e, c, l) /\ result' = [result EXCEPT ![e] = r]
          /\ r = "FAILED" => e \in failed /\ Notify(e)
          /\ r = "COMPENSATED" => e \notin failed /\ notified' = notified
    BY <1>1, <1>7 DEF CompensateBelow, Outcome, CallbackNames
  <2>4. /\ pc' = [pc EXCEPT ![e] = l] \/ pc' = [pc EXCEPT ![e] = "returned"]
        /\ pc' \in [Executions -> {"idle"} \cup Suspended \cup Ended]
        /\ history' \in Seq(Executions) /\ Len(history') <= MaxHistory
    BY <2>3, CallbackTypes DEF Inv, Suspended
  <2>5. /\ notified' \subseteq Executions
        /\ \A f \in Executions \ {e} : f \in notified' <=> f \in notified
    BY <2>3 DEF Notify, Inv, TypeOK
  <2>6. TypeOK'
    BY <1>4, <1>5, <2>2, <2>3, <2>4, <2>5 DEF Inv, TypeOK, SagaStatuses
  <2>7. \A f \in Executions \ {e} : CallInv(f)'
    BY <1>4, <2>2, <2>3, <2>4, <2>5, OtherCall DEF Inv, TypeOK, Untouched
  <2>8. /\ pc'[e] \in {"failing", "compensated", "returned"} /\ result'[e] = r
        /\ ToUndo(e)' = ToUndo(e) /\ completed'[e] = completed[e] /\ tried'[e] = tried[e]
    BY <1>4, <2>2, <2>3, <2>4 DEF Inv, TypeOK, ToUndo
  <2>9. Verdict(e)'
    BY <2>1, <2>3, <2>8 DEF Verdict, Accounted, Swept, Notify
  <2>10. Downwards(e)'
    BY <1>4, <2>8 DEF Downwards, Swept
  <2>11. CallInv(e)'
    BY <2>8, <2>9, <2>10 DEF CallInv
  <2>12. QED
    BY <2>6, <2>7, <2>11 DEF Inv
<1>8. QED
  BY <1>3, <1>6, <1>7

(* An action that fails, its effect there or not, is followed by the       *)
(* compensations of the steps before it.                                   *)
LEMMA ActionFailsStep ==
    ASSUME Inv, NEW e \in Executions, ActionFails(e)
    PROVE  Inv'
<1>1. PICK failed \in SUBSET Executions : failed = undoFailed
  BY DEF Inv, TypeOK
<1>2. /\ pc[e] = "acting" /\ at[e] \in Steps
      /\ CompensateBelow(e, "FAILED", failed)
      /\ UNCHANGED <<started, completed, undone, overtaken, cancels>>
      /\ \/ acted' = acted
         \/ at[e] \in Timed /\ acted' = [acted EXCEPT ![e] = @ \cup {at[e]}]
  BY <1>1 DEF ActionFails, Inv, TypeOK
<1>3. Acting(e)
  BY <1>2 DEF Inv, CallInv
<1>4. /\ acted' \in [Executions -> SUBSET Steps] /\ undone' \in [Executions -> SUBSET Steps]
      /\ \A f \in Executions \ {e} : acted'[f] = acted[f] /\ undone'[f] = undone[f]
      /\ \/ acted'[e] = acted[e]
         \/ at[e] \in Timed /\ acted'[e] = acted[e] \cup {at[e]}
  <2>1. undone' = undone
    BY <1>2
  <2>2. CASE acted' = acted
    BY <2>1, <2>2 DEF Inv, TypeOK
  <2>3. CASE at[e] \in Timed /\ acted' = [acted EXCEPT ![e] = @ \cup {at[e]}]
    <3>1. acted' \in [Executions -> SUBSET Steps]
      BY <1>2, <2>3 DEF Inv, TypeOK
    <3>2. QED
      BY <2>1, <2>3, <3>1 DEF Inv, TypeOK
  <2>4. QED
    BY <1>2, <2>2, <2>3
<1>5. Swept(e, failed)
  <2>1. \A k \in ToUndo(e) : k < at[e] /\ ~ (k >= at[e])
    BY <1>2, <1>3, SagaAssumption DEF Acting, ToUndo, Steps
  <2>2. QED
    BY <1>2, <1>3, <1>4, <2>1 DEF Acting, Swept
<1>6. QED
  BY <1>1, <1>2, <1>4, <1>5, CompensateStep DEF StepStatuses

(* A call whose step was reset under it ends FAILED, nothing compensated:  *)
(* it tells on_failure, and it was overtaken.                              *)
LEMMA DurationRaisesStep ==
    ASSUME Inv, NEW e \in Executions, DurationRaises(e)
    PROVE  Inv'
<1>1. /\ pc[e] = "acting" /\ at[e] \in Steps /\ at[e] \notin started
      /\ acted' = acted \/ acted' = [acted EXCEPT ![e] = @ \cup {at[e]}]
      /\ stepStatus' = [stepStatus EXCEPT ![at[e]] = "FAILED"]
      /\ result' = [result EXCEPT ![e] = "FAILED"]
      /\ CallbackOrReturn(e, "on_failure", "reporting") /\ Notify(e)
      /\ UNCHANGED <<at, undoFailed, started, completed, undone, tried, overtaken, cancels>>
  BY DEF DurationRaises, Outcome, Inv, TypeOK
<1>2. /\ pc' = [pc EXCEPT ![e] = "reporting"] \/ pc' = [pc EXCEPT ![e] = "returned"]
      /\ pc' \in [Executions -> {"idle"} \cup Suspended \cup Ended]
      /\ history' \in Seq(Executions) /\ Len(history') <= MaxHistory
  BY <1>1, CallbackTypes DEF Inv, Suspended
<1>3. /\ notified' = notified \/ notified' = notified \cup {e}
      /\ "on_failure" \in Callbacks => e \in notified'
  BY <1>1 DEF Notify
<1>4. acted' \in [Executions -> SUBSET Steps] /\ acted[e] \subseteq acted'[e]
  BY <1>1 DEF Inv, TypeOK
<1>5. TypeOK'
  BY <1>1, <1>2, <1>3, <1>4 DEF Inv, TypeOK, StepStatuses, SagaStatuses
<1>6. \A f \in Executions \ {e} : CallInv(f)'
  BY <1>1, <1>2, <1>3, OtherCall DEF Inv, TypeOK, Untouched
<1>7. Acting(e) /\ Clocked(e) /\ Downwards(e)
  BY <1>1 DEF Inv, CallInv
<1>8. pc'[e] \in {"reporting", "returned"} /\ result'[e] = "FAILED" /\ e \in overtaken'
  BY <1>1, <1>2, <1>7 DEF Inv, TypeOK, Clocked
<1>9. CallInv(e)'
  BY <1>1, <1>3, <1>4, <1>7, <1>8 DEF CallInv, Downwards, Verdict, Accounted, ToUndo
<1>10. QED
  BY <1>5, <1>6, <1>9 DEF Inv

(* A compensation that is over, its step undone or not, is followed by the *)
(* next one below.                                                         *)
LEMMA CompensationStep ==
    ASSUME Inv, NEW e \in Executions, CompensationReturns(e) \/ CompensationRaises(e)
    PROVE  Inv'
<1>1. PICK failed \in SUBSET Executions :
        failed = IF CompensationReturns(e) THEN undoFailed ELSE undoFailed \cup {e}
  BY DEF Inv, TypeOK
<1>2. PICK status \in StepStatuses :
        /\ pc[e] = "undoing" /\ at[e] \in Steps
        /\ CompensateBelow(e, status, failed)
        /\ UNCHANGED <<started, completed, acted, overtaken, cancels>>
        /\ \/ undone' = [undone EXCEPT ![e] = @ \cup {at[e]}] /\ failed = undoFailed
           \/ undone' = undone /\ e \in failed
  <2>1. CASE CompensationReturns(e)
    BY <1>1, <2>1 DEF CompensationReturns, Inv, TypeOK, StepStatuses
  <2>2. CASE ~CompensationReturns(e)
    BY <1>1, <2>2 DEF CompensationRaises, Inv, TypeOK, StepStatuses
  <2>3. QED
    BY <2>1, <2>2
<1>3. Undoing(e) /\ Downwards(e)
  BY <1>2 DEF Inv, CallInv
<1>4. /\ acted' \in [Executions -> SUBSET Steps] /\ undone' \in [Executions -> SUBSET Steps]
      /\ \A f \in Executions \ {e} : acted'[f] = acted[f] /\ undone'[f] = undone[f]
      /\ acted'[e] = acted[e]
      /\ \/ undone'[e] = undone[e] \cup {at[e]} /\ failed = undoFailed
         \/ e \in failed
  BY <1>2 DEF Inv, TypeOK
<1>5. Swept(e, failed)
  <2>1. \A k \in ToUndo(e) : k >= at[e] => k \in tried[e]
    <3>1. at[e] \in tried[e] /\ \A k \in ToUndo(e) : k > at[e] => k \in tried[e]
      BY <1>3 DEF Undoing, Downwards
    <3>2. at[e] \in Int /\ \A k \in ToUndo(e) : k \in Int
      BY <1>2, SagaAssumption DEF ToUndo, Steps, Inv, TypeOK
    <3>3. QED
      BY <3>1, <3>2
  <2>2. e \notin failed => undone'[e] = tried[e]
    BY <1>3, <1>4 DEF Undoing
  <2>3. QED
    BY <1>3, <1>4, <2>1, <2>2 DEF Swept, Undoing
<1>6. QED
  <2>1. \A f \in Executions \ {e} : f \in failed <=> f \in undoFailed
    BY <1>1
  <2>2. QED
    BY <1>2, <1>4, <1>5, <2>1, CompensateStep

(* A callback that returns ends the call with the result it had; one that  *)
(* raises makes the result FAILED and tells on_failure; what on_failure    *)
(* raises then ends the call without a result.                             *)
LEMMA CallbackStep ==
    ASSUME Inv, NEW e \in Executions, CallbackReturns(e) \/ CallbackRaises(e) \/ ReportRaises(e)
    PROVE  Inv'
<1>1. /\ pc[e] \in {"completing", "compensated", "failing", "reporting"}
      /\ UNCHANGED <<at, undoFailed, stepStatus, started, completed, acted, undone, tried,
                     overtaken, cancels>>
  BY DEF CallbackReturns, CallbackRaises, ReportRaises
<1>2. \/ /\ pc' = [pc EXCEPT ![e] = "returned"] /\ Remember(e)
         /\ UNCHANGED <<result, notified>>
      \/ /\ CallbackOrReturn(e, "on_failure", "reporting")
         /\ result' = [result EXCEPT ![e] = "FAILED"] /\ Notify(e)
      \/ /\ pc' = [pc EXCEPT ![e] = "raised"]
         /\ UNCHANGED <<history, result, notified>>
  BY DEF CallbackReturns, CallbackRaises, ReportRaises, Return, Goto, Outcome
<1>3. /\ \E l \in {"returned", "reporting", "raised"} : pc' = [pc EXCEPT ![e] = l]
      /\ history' \in Seq(Executions) /\ Len(history') <= MaxHistory
  BY <1>2, RememberBounds, CallbackTypes DEF Inv, TypeOK, Suspended
<1>4. /\ result' = result \/ result' = [result EXCEPT ![e] = "FAILED"]
      /\ notified' = notified \/ notified' = notified \cup {e}
  BY <1>2 DEF Notify
<1>5. TypeOK'
  BY <1>1, <1>3, <1>4 DEF Inv, TypeOK, Suspended, Ended, SagaStatuses
<1>6. \A f \in Executions \ {e} : CallInv(f)'
  BY <1>1, <1>3, <1>4, OtherCall DEF Inv, TypeOK, Untouched
<1>7. pc'[e] = "raised" \/ (pc'[e] \in {"returned", "reporting"} /\ Verdict(e)')
  <2>1. Verdict(e)
    BY <1>1 DEF Inv, CallInv, Decided
  <2>2. CASE Remember(e) /\ UNCHANGED <<result, notified>> /\ pc' = [pc EXCEPT ![e] = "returned"]
    BY <1>1, <2>1, <2>2 DEF Inv, TypeOK, Verdict, Accounted, ToUndo
  <2>3. CASE /\ CallbackOrReturn(e, "on_failure", "reporting")
             /\ result' = [result EXCEPT ![e] = "FAILED"] /\ Notify(e)
    <3>1. result'[e] = "FAILED" /\ ("on_failure" \in Callbacks => e \in notified')
      BY <2>3 DEF Notify, Inv, TypeOK
    <3>2. pc'[e] \in {"returned", "reporting"}
      BY <2>3, CallbackTypes DEF Inv, TypeOK, Suspended
    <3>3. QED
      BY <1>1, <2>1, <3>1, <3>2 DEF Verdict, Accounted, ToUndo
  <2>4. CASE pc' = [pc EXCEPT ![e] = "raised"]
    BY <2>4 DEF Inv, TypeOK
  <2>5. QED
    BY <1>2, <2>2, <2>3, <2>4
<1>8. Downwards(e)'
  BY <1>1 DEF Inv, CallInv, Downwards, ToUndo
<1>9. CallInv(e)'
  BY <1>7, <1>8 DEF CallInv, Decided
<1>10. QED
  BY <1>5, <1>6, <1>9 DEF Inv

(* A cancelled call stops where it is; what it has done stays done.        *)
LEMMA CancelStep ==
    ASSUME Inv, NEW e \in Executions, Cancel(e)
    PROVE  Inv'
<1>1. /\ pc[e] \in Suspended /\ pc' = [pc EXCEPT ![e] = "cancelled"] /\ cancels' = cancels + 1
      /\ UNCHANGED <<at, result, undoFailed, stepStatus, started, completed, tried, notified,
                     overtaken, history>>
      /\ at[e] \in Steps
  BY DEF Cancel, Goto, Inv, TypeOK
<1>2. /\ acted' = acted \/ acted' = [acted EXCEPT ![e] = @ \cup {at[e]}]
      /\ undone' = undone \/ undone' = [undone EXCEPT ![e] = @ \cup {at[e]}]
  BY DEF Cancel
<1>3. acted' \in [Executions -> SUBSET Steps] /\ undone' \in [Executions -> SUBSET Steps]
  BY <1>1, <1>2 DEF Inv, TypeOK
<1>4. TypeOK'
  <2>1. pc' \in [Executions -> {"idle"} \cup Suspended \cup Ended]
    BY <1>1 DEF Inv, TypeOK, Ended
  <2>2. QED
    BY <1>1, <1>3, <2>1 DEF Inv, TypeOK
<1>5. \A f \in Executions \ {e} : CallInv(f)'
  BY <1>1, <1>2, OtherCall DEF Inv, TypeOK, Untouched
<1>6. pc'[e] = "cancelled" /\ acted[e] \subseteq acted'[e]
  BY <1>1, <1>2 DEF Inv, TypeOK
<1>7. CallInv(e)'
  BY <1>1, <1>6 DEF Inv, CallInv, Downwards, ToUndo, Decided
<1>8. QED
  BY <1>4, <1>5, <1>7 DEF Inv

(* No step leaves the invariant.                                           *)
LEMMA NextInv == Inv /\ [Next]_vars => Inv'
<1> SUFFICES ASSUME Inv, [Next]_vars PROVE Inv'
  OBVIOUS
<1>1. ASSUME NEW e \in Executions, Resume(e) PROVE Inv'
  BY <1>1, ActionSucceedsStep, ActionFailsStep, DurationRaisesStep, CompensationStep,
     CallbackStep DEF Resume
<1>2. ASSUME NEW e \in Executions, Start(e) \/ Cancel(e) PROVE Inv'
  BY <1>2, StartStep, CancelStep
<1>3. CASE UNCHANGED vars
  BY <1>3, OtherCall DEF vars, Inv, TypeOK, Untouched
<1>4. QED
  BY <1>1, <1>2, <1>3 DEF Next

(* The strengthened invariant holds in every reachable state.              *)
THEOREM SagaInvariance == Spec => []Inv
BY InitInv, NextInv, PTL DEF Spec

(* The saga's variables have their types; the history keeps its bound.     *)
THEOREM SagaTypes == Spec => []TypeOK
<1>1. Inv => TypeOK
  BY DEF Inv
<1>2. QED
  BY <1>1, SagaInvariance, PTL

(* A caller may believe the result: COMPLETED means that every action took *)
(* effect and none was undone, COMPENSATED that every completed step with  *)
(* a compensation was undone, FAILED that each of them was tried, unless   *)
(* all steps were completed or another call reset the step it was in.      *)
THEOREM HonestResults == Spec => []ResultIsHonest
<1>1. Inv => ResultIsHonest
  BY DEF Inv, CallInv, Decided, Verdict, Accounted, ToUndo, ResultIsHonest
<1>2. QED
  BY <1>1, SagaInvariance, PTL

(* A call that returns FAILED has told on_failure.                         *)
THEOREM FailuresReported == Spec => []FailureIsReported
<1>1. Inv => FailureIsReported
  BY DEF Inv, CallInv, Decided, Verdict, FailureIsReported
<1>2. QED
  BY <1>1, SagaInvariance, PTL

(* Compensations run downwards, and only where an action took effect.      *)
THEOREM UndoneInReverse == Spec => []ReverseOrder
<1>1. Inv => ReverseOrder
  BY DEF Inv, CallInv, Downwards, ToUndo, ReverseOrder
<1>2. QED
  BY <1>1, SagaInvariance, PTL

(* What _compensate does after step i is below it.                         *)
LEMMA CompensateGoesDown ==
    ASSUME Inv, NEW e \in Executions, NEW status, NEW failed, CompensateBelow(e, status, failed)
    PROVE  \/ pc'[e] = "undoing" /\ at'[e] < at[e]
           \/ pc'[e] \notin {"undoing", "acting"}
<1>1. PICK j : j = UndoNext(e, at[e])
  OBVIOUS
<1>2. TypeOK /\ at[e] \in Steps
  BY DEF Inv, TypeOK
<1>3. CASE j > 0
  <2>1. UndoNext(e, at[e]) < at[e]
    <3>1. UndoNext(e, at[e]) # 0
      BY <1>1, <1>3
    <3>2. QED
      BY <1>2, <3>1, NextToUndo
  <2>2. at' = [at EXCEPT ![e] = j] /\ pc' = [pc EXCEPT ![e] = "undoing"]
    BY <1>1, <1>3 DEF CompensateBelow, Goto
  <2>3. QED
    BY <1>1, <2>1, <2>2 DEF Inv, TypeOK
<1>4. CASE ~(j > 0)
  <2>1. PICK c \in CallbackNames, l \in {"failing", "compensated"} : CallbackOrReturn(e, c, l)
    BY <1>1, <1>4 DEF CompensateBelow, CallbackNames
  <2>2. pc' = [pc EXCEPT ![e] = l] \/ pc' = [pc EXCEPT ![e] = "returned"]
    BY <1>2, <2>1, CallbackTypes DEF Suspended
  <2>3. QED
    BY <2>2 DEF Inv, TypeOK
<1>5. QED
  BY <1>3, <1>4

(* A call that goes down moves nothing of another one.                     *)
LEMMA CompensateFrame ==
    ASSUME Inv, NEW e \in Executions, NEW f \in Executions \ {e},
           NEW status, NEW failed, CompensateBelow(f, status, failed)
    PROVE  /\ UNCHANGED <<pc[e], at[e], result[e], tried[e]>>
           /\ e \in notified' <=> e \in notified
           /\ undoFailed' = failed
<1>1. PICK j : j = UndoNext(f, at[f])
  OBVIOUS
<1>2. undoFailed' = failed
  BY DEF CompensateBelow
<1>3. CASE j > 0
  BY <1>1, <1>2, <1>3 DEF CompensateBelow, Goto, Outcome, Inv, TypeOK
<1>4. CASE ~(j > 0)
  <2>1. UNCHANGED <<at, tried>>
    BY <1>1, <1>4 DEF CompensateBelow
  <2>2. PICK c \in CallbackNames, l \in {"failing", "compensated"}, r \in {"FAILED", "COMPENSATED"} :
          /\ CallbackOrReturn(f, c, l) /\ result' = [result EXCEPT ![f] = r]
          /\ Notify(f) \/ notified' = notified
    BY <1>1, <1>4 DEF CompensateBelow, Outcome, CallbackNames
  <2>3. pc' = [pc EXCEPT ![f] = l] \/ pc' = [pc EXCEPT ![f] = "returned"]
    BY <2>2, CallbackTypes DEF Inv, Suspended
  <2>4. e \in notified' <=> e \in notified
    BY <2>2 DEF Notify
  <2>5. QED
    BY <1>2, <2>1, <2>2, <2>3, <2>4 DEF Inv, TypeOK
<1>5. QED
  BY <1>3, <1>4

(* A step of one call leaves the state of the others alone.                *)
LEMMA OwnStateOnly ==
    ASSUME Inv, NEW e \in Executions, NEW f \in Executions \ {e},
           Start(f) \/ Resume(f) \/ Cancel(f)
    PROVE  Untouched(e)
<1>1. CASE Start(f) \/ Cancel(f)
  <2>1. at[e] = 1 \/ at[e] > 1
    BY SagaAssumption DEF Inv, TypeOK, Steps
  <2>2. QED
    BY <1>1, <2>1 DEF Start, Cancel, Goto, Untouched, Inv, TypeOK
<1>2. CASE ActionSucceeds(f)
  <2>1. CASE NextStep(f)
    BY <1>2, <2>1 DEF ActionSucceeds, NextStep, Untouched, Inv, TypeOK
  <2>2. CASE LastStepDone(f)
    <3>1. pc' = [pc EXCEPT ![f] = "completing"] \/ pc' = [pc EXCEPT ![f] = "returned"]
      BY <2>2, CallbackTypes DEF LastStepDone, Inv, Suspended
    <3>2. QED
      BY <1>2, <2>2, <3>1 DEF ActionSucceeds, LastStepDone, Outcome, Untouched, Inv, TypeOK
  <2>3. QED
    BY <1>2, <2>1, <2>2 DEF ActionSucceeds
<1>3. CASE ActionFails(f)
  <2>1. /\ CompensateBelow(f, "FAILED", undoFailed)
        /\ UNCHANGED <<started, completed, undone, overtaken>>
    BY <1>3 DEF ActionFails
  <2>2. /\ UNCHANGED <<pc[e], at[e], result[e], tried[e]>>
        /\ e \in notified' <=> e \in notified
        /\ undoFailed' = undoFailed
    BY <2>1, CompensateFrame
  <2>3. acted'[e] = acted[e]
    BY <1>3 DEF ActionFails, Inv, TypeOK
  <2>4. QED
    BY <2>1, <2>2, <2>3 DEF Untouched
<1>4. CASE CompensationReturns(f) \/ CompensationRaises(f)
  <2>1. PICK status \in {"COMPENSATED", "FAILED"}, failed \in {undoFailed, undoFailed \cup {f}} :
          CompensateBelow(f, status, failed)
    BY <1>4 DEF CompensationReturns, CompensationRaises
  <2>2. /\ UNCHANGED <<pc[e], at[e], result[e], tried[e]>>
        /\ e \in notified' <=> e \in notified
        /\ undoFailed' = failed
    BY <2>1, CompensateFrame
  <2>3. undone'[e] = undone[e] /\ UNCHANGED <<started, completed, acted, overtaken>>
    BY <1>4 DEF CompensationReturns, CompensationRaises, Inv, TypeOK
  <2>4. QED
    BY <2>1, <2>2, <2>3 DEF Untouched
<1>5. CASE CallbackReturns(f) \/ CallbackRaises(f) \/ ReportRaises(f)
  <2>1. UNCHANGED <<at, undoFailed, started, completed, acted, undone, tried, overtaken>>
    BY <1>5 DEF CallbackReturns, CallbackRaises, ReportRaises
  <2>2. \E l \in {"returned", "reporting", "raised"} : pc' = [pc EXCEPT ![f] = l]
    BY <1>5, CallbackTypes
    DEF CallbackReturns, CallbackRaises, ReportRaises, Return, Goto, Inv, Suspended
  <2>3. /\ result' = result \/ result' = [result EXCEPT ![f] = "FAILED"]
        /\ notified' = notified \/ notified' = notified \cup {f}
    BY <1>5 DEF CallbackReturns, CallbackRaises, ReportRaises, Outcome, Notify
  <2>4. QED
    BY <2>1, <2>2, <2>3 DEF Untouched, Inv, TypeOK
<1>6. CASE DurationRaises(f)
  <2>1. pc' = [pc EXCEPT ![f] = "reporting"] \/ pc' = [pc EXCEPT ![f] = "returned"]
    BY <1>6, CallbackTypes DEF DurationRaises, Inv, Suspended
  <2>2. notified' = notified \/ notified' = notified \cup {f}
    BY <1>6 DEF DurationRaises, Notify
  <2>3. QED
    BY <1>6, <2>1, <2>2 DEF DurationRaises, Outcome, Untouched, Inv, TypeOK
<1>7. QED
  BY <1>1, <1>2, <1>3, <1>4, <1>5, <1>6 DEF Resume

(* A compensating call has no action left to take effect and goes down or  *)
(* is decided; a step of another call leaves it where it is.               *)
LEMMA DownStep ==
    Inv /\ [Next]_vars =>
        \A e \in Executions : pc[e] = "undoing" =>
            /\ acted'[e] = acted[e] /\ pc'[e] # "acting"
            /\ \/ at'[e] < at[e] \/ pc'[e] # "undoing"
               \/ UNCHANGED <<undone[e], e \in undoFailed>>
<1> SUFFICES ASSUME Inv, [Next]_vars, NEW e \in Executions, pc[e] = "undoing"
             PROVE  /\ acted'[e] = acted[e] /\ pc'[e] # "acting"
                    /\ \/ at'[e] < at[e] \/ pc'[e] # "undoing"
                       \/ UNCHANGED <<undone[e], e \in undoFailed>>
  BY Zenon
<1>1. CASE CompensationReturns(e) \/ CompensationRaises(e)
  <2>1. acted' = acted
    BY <1>1 DEF CompensationReturns, CompensationRaises
  <2>2. \/ pc'[e] = "undoing" /\ at'[e] < at[e]
        \/ pc'[e] \notin {"undoing", "acting"}
    BY <1>1, CompensateGoesDown DEF CompensationReturns, CompensationRaises
  <2>3. QED
    BY <2>1, <2>2
<1>2. CASE Cancel(e)
  BY <1>2 DEF Cancel, Goto, Inv, TypeOK
<1>3. ASSUME NEW f \in Executions \ {e}, Start(f) \/ Resume(f) \/ Cancel(f)
      PROVE  acted'[e] = acted[e] /\ pc'[e] # "acting" /\ UNCHANGED <<undone[e], e \in undoFailed>>
  <2>1. Untouched(e)
    BY <1>3, OwnStateOnly
  <2>2. acted'[e] = acted[e] /\ pc'[e] = pc[e] /\ undone'[e] = undone[e]
    BY <2>1 DEF Untouched
  <2>3. (e \in undoFailed)' = (e \in undoFailed)
    BY <2>1 DEF Untouched
  <2>4. QED
    BY <2>2, <2>3
<1>4. CASE UNCHANGED vars
  BY <1>4 DEF vars
<1>5. ~Start(e) /\ ~ActionSucceeds(e) /\ ~ActionFails(e) /\ ~DurationRaises(e)
  BY DEF Start, ActionSucceeds, ActionFails, DurationRaises
<1>6. ~CallbackReturns(e) /\ ~CallbackRaises(e) /\ ~ReportRaises(e)
  BY DEF CallbackReturns, CallbackRaises, ReportRaises
<1>7. PICK f \in Executions : \/ Start(f) \/ Resume(f) \/ Cancel(f)
                              \/ UNCHANGED vars
  BY DEF Next
<1>8. QED
  <2>1. CASE f = e
    BY <1>1, <1>2, <1>4, <1>5, <1>6, <1>7, <2>1 DEF Resume
  <2>2. CASE f # e
    BY <1>3, <1>4, <1>7, <2>2
  <2>3. QED
    BY <2>1, <2>2

(* Once a call compensates, no action of it takes effect any more, and     *)
(* whatever a compensation does, the call moves on to an earlier step.     *)
THEOREM NeverUpAgain == Spec => NoWayBack
BY SagaInvariance, DownStep, PTL DEF Spec, NoWayBack
=============================================================================
