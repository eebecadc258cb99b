----------------------------- MODULE PlaceOrder -----------------------------
(***************************************************************************)
(* PlaceOrderUseCase.execute of                                            *)
(* src/application/examples/order/use_cases/place_order.py: a sequence of  *)
(* calls to external services, and the compensations when one fails.  A    *)
(* call that raises may have taken effect, and so may one whose caller is  *)
(* cancelled while it waits; one that refuses has not.                     *)
(***************************************************************************)
EXTENDS Integers, FiniteSets

CONSTANTS
    Orders,           \* executions of the use case
    MaxServiceFaults  \* bound of the model: calls that raise

VARIABLES
    step,             \* the call each execution waits for
    held,             \* executions whose items are reserved,
    charged,          \* whose customer has paid,
    created,          \* whose order is in the repository
    doubt,            \* history: the calls of each execution that failed
    serviceFaults

orderVars == <<step, held, charged, created, doubt, serviceFaults>>

Calls == {"check", "reserve", "pay", "create", "refund", "release", "notify"}

OrderTypeOK ==
    /\ step \in [Orders -> Calls \cup {"ok", "err", "raised", "cancelled"}]
    /\ held \subseteq Orders /\ charged \subseteq Orders /\ created \subseteq Orders
    /\ doubt \in [Orders -> SUBSET Calls]
    /\ serviceFaults \in Nat

OrderInit ==
    /\ step = [o \in Orders |-> "check"]
    /\ held = {} /\ charged = {} /\ created = {}
    /\ doubt = [o \in Orders |-> {}] /\ serviceFaults = 0

Goto(o, s) == step' = [step EXCEPT ![o] = s]

(* The call o waits for raises.                                            *)
Fault(o) ==
    /\ serviceFaults < MaxServiceFaults /\ serviceFaults' = serviceFaults + 1
    /\ doubt' = [doubt EXCEPT ![o] = @ \cup {step[o]}]
NoFault == UNCHANGED <<doubt, serviceFaults>>

With(set, o) == set' = set \cup {o}
Without(set, o) == set' = set \ {o}

-----------------------------------------------------------------------------

(* _validate_input, then _fetch_and_validate_items, which reads the        *)
(* catalog and whose exceptions nothing catches.                           *)
Check(o) ==
    /\ step[o] = "check"
    /\ \/ (Goto(o, "reserve") \/ Goto(o, "err")) /\ NoFault
       \/ Goto(o, "raised") /\ Fault(o)
    /\ UNCHANGED <<held, charged, created>>

Reserve(o) ==
    /\ step[o] = "reserve"
    /\ \/ Goto(o, "pay") /\ With(held, o) /\ NoFault
       \/ Goto(o, "err") /\ UNCHANGED held /\ NoFault
       \/ Goto(o, "err") /\ (With(held, o) \/ UNCHANGED held) /\ Fault(o)
    /\ UNCHANGED <<charged, created>>

(* Wrong variant: a declined payment keeps the items.                      *)
PayOrStop(o) ==
    /\ step[o] = "pay"
    /\ \/ Goto(o, "create") /\ With(charged, o) /\ NoFault
       \/ Goto(o, "err") /\ UNCHANGED charged /\ NoFault
       \/ Goto(o, "release") /\ (With(charged, o) \/ UNCHANGED charged) /\ Fault(o)
    /\ UNCHANGED <<held, created>>

(* A payment that is declined or raises gives the items back; one that     *)
(* raised is not refunded.                                                 *)
Pay(o) ==
    /\ step[o] = "pay"
    /\ \/ Goto(o, "create") /\ With(charged, o) /\ NoFault
       \/ Goto(o, "release") /\ UNCHANGED charged /\ NoFault
       \/ Goto(o, "release") /\ (With(charged, o) \/ UNCHANGED charged) /\ Fault(o)
    /\ UNCHANGED <<held, created>>

(* Wrong variant: an order that cannot be stored only releases the items.  *)
CreateWithoutRefund(o) ==
    /\ step[o] = "create"
    /\ \/ Goto(o, "notify") /\ With(created, o) /\ NoFault
       \/ Goto(o, "release") /\ (With(created, o) \/ UNCHANGED created) /\ Fault(o)
    /\ UNCHANGED <<held, charged>>

Create(o) ==
    /\ step[o] = "create"
    /\ \/ Goto(o, "notify") /\ With(created, o) /\ NoFault
       \/ Goto(o, "refund") /\ (With(created, o) \/ UNCHANGED created) /\ Fault(o)
    /\ UNCHANGED <<held, charged>>

(* What refund_payment returns is not looked at; when it raises, the items *)
(* are not released and the exception leaves execute.                      *)
Refund(o) ==
    /\ step[o] = "refund"
    /\ \/ Goto(o, "release") /\ Without(charged, o) /\ NoFault
       \/ Goto(o, "release") /\ UNCHANGED charged /\ Fault(o)
       \/ Goto(o, "raised") /\ (Without(charged, o) \/ UNCHANGED charged) /\ Fault(o)
    /\ UNCHANGED <<held, created>>

(* _rollback_inventory logs a failure and no more.                         *)
Release(o) ==
    /\ step[o] = "release"
    /\ Goto(o, "err")
    /\ \/ Without(held, o) /\ NoFault
       \/ (Without(held, o) \/ UNCHANGED held) /\ Fault(o)
    /\ UNCHANGED <<charged, created>>

(* _send_notification, whose failure changes nothing.                      *)
Notify(o) ==
    /\ step[o] = "notify"
    /\ Goto(o, "ok")
    /\ NoFault /\ UNCHANGED <<held, charged, created>>

(* CancelledError: no handler of execute sees it, nothing is compensated.  *)
CancelOrder(o) ==
    /\ step[o] \in Calls
    /\ Goto(o, "cancelled")
    /\ \/ UNCHANGED <<held, charged, created>>
       \/ step[o] = "reserve" /\ With(held, o) /\ UNCHANGED <<charged, created>>
       \/ step[o] = "pay" /\ With(charged, o) /\ UNCHANGED <<held, created>>
       \/ step[o] = "create" /\ With(created, o) /\ UNCHANGED <<held, charged>>
       \/ step[o] = "refund" /\ Without(charged, o) /\ UNCHANGED <<held, created>>
       \/ step[o] = "release" /\ Without(held, o) /\ UNCHANGED <<charged, created>>
    /\ NoFault

Execute(o) ==
    \/ Check(o) \/ Reserve(o) \/ Pay(o) \/ Create(o)
    \/ Refund(o) \/ Release(o) \/ Notify(o)

-----------------------------------------------------------------------------
(* Properties.                                                             *)

(* "If any step fails, previous steps are rolled back": an execution that  *)
(* returns Err or raises leaves nothing behind, except where the very call *)
(* that made or should have undone it failed, and except the items kept    *)
(* because a refund raised.  One that returns Ok has done all three.       *)
RolledBack ==
    \A o \in Orders :
       /\ step[o] \in {"err", "raised"} =>
             /\ o \in held => doubt[o] \cap {"reserve", "release", "refund"} # {}
             /\ o \in charged => doubt[o] \cap {"pay", "refund"} # {}
             /\ o \in created => "create" \in doubt[o]
       /\ step[o] = "ok" => o \in held \cap charged \cap created
=============================================================================
