------------------------------ MODULE Pipeline ------------------------------
(***************************************************************************)
(* The outbox of one service and the inbox of another, joined by a broker. *)
(* The consumer hands each event to InboxService under the id and the key  *)
(* of OutboxMessage.to_event_dict; an event without a key gets the hash of *)
(* its content.  The broker is external: it delivers what it took at least *)
(* once, in any order, and may deliver an event again.                     *)
(***************************************************************************)
EXTENDS Outbox

CONSTANTS
    MaxDeliveries,   \* bound of the model: copies of an event the broker delivers
    InboxKeys,       \* the keys the inbox sees
    EventKey,        \* the key it sees for each message
    None, MaxFailures, MaxCancels

ASSUME DeliveryAssumption ==
    /\ MaxDeliveries \in Nat \ {0} /\ MaxFailures \in Nat /\ MaxCancels \in Nat
    /\ None \notin Messages \cup (Messages \X (1 .. MaxDeliveries))
    /\ EventKey \in [Messages -> InboxKeys]
    /\ \A m, n \in Messages :
          KeyOf[m] # NoKey => (EventKey[m] = EventKey[n] <=> KeyOf[m] = KeyOf[n])

VARIABLES entries, byKey, entryStatus, handling, effects, faults

inbox == <<entries, byKey, entryStatus, handling, effects, faults>>
pipeline == <<vars, inbox>>

Deliveries == Messages \X (1 .. MaxDeliveries)

I == INSTANCE Inbox WITH
    Ids <- Messages,
    Keys <- InboxKeys,
    IdOf <- [d \in Deliveries |-> d[1]],
    KeyOf <- [d \in Deliveries |-> EventKey[d[1]]]

PipelineInit == Init /\ I!Init

OutboxStep == Next /\ UNCHANGED inbox

(* Wrong variant: events are seen before they are published.             *)
BrokerDeliversEarly(d) ==
    /\ status[d[1]] # "PENDING"
    /\ d[2] > 1 => entryStatus[<<d[1], d[2] - 1>>] # "NONE"
    /\ I!Deliver(d)
    /\ UNCHANGED vars

(* The broker delivers an event it has taken, copy by copy.                *)
BrokerDelivers(d) ==
    /\ delivered[d[1]] > 0
    /\ d[2] > 1 => entryStatus[<<d[1], d[2] - 1>>] # "NONE"
    /\ I!Deliver(d)
    /\ UNCHANGED vars

ConsumerStep(d) == I!Handle(d) /\ UNCHANGED vars

InboxCleanup(old) == I!Cleanup(old) /\ UNCHANGED vars

PipelineNext ==
    \/ OutboxStep
    \/ \E d \in Deliveries : BrokerDelivers(d) \/ ConsumerStep(d)
    \/ \E old \in SUBSET Deliveries : InboxCleanup(old)

(* Both sides run, and the broker delivers what it took at least once.     *)
PipelineFairness ==
    /\ Fairness
    /\ \A m \in Messages : WF_pipeline(BrokerDelivers(<<m, 1>>))
    /\ \A d \in Deliveries :
          /\ WF_pipeline(I!Process(d) /\ UNCHANGED vars)
          /\ WF_pipeline((I!HandlerReturns(d) \/ I!HandlerRaises(d)) /\ UNCHANGED vars)

PipelineSpec == PipelineInit /\ [][PipelineNext]_pipeline /\ PipelineFairness

-----------------------------------------------------------------------------
(* Properties.                                                             *)

CopiesOf(m) == {d \in Deliveries : EventKey[d[1]] = EventKey[m]}

(* A stored event has its effect at the consumer in the end, unless one of *)
(* the two sides gave it up where an operator can find it: it is a dead    *)
(* letter or deleted, or its entry is FAILED or was cancelled while it was *)
(* PROCESSING.                                                             *)
EndToEnd ==
    \A m \in Messages : InRepository(m) ~>
        \/ effects[EventKey[m]] > 0
        \/ status[m] = "DEAD_LETTER" \/ used["delete"] > 0
        \/ \E d \in CopiesOf(m) :
              \/ entryStatus[d] = "FAILED"
              \/ entryStatus[d] = "PROCESSING" /\ d \notin handling

(* An effect is never that of an event the producer did not hand over, and *)
(* an event repeats its effect only after the inbox forgot it: as long as  *)
(* the first entry is there, effects and copies count one.                 *)
EffectsAreBacked ==
    \A m \in Messages : effects[EventKey[m]] > 0 =>
        /\ \E n \in Messages : EventKey[n] = EventKey[m] /\ delivered[n] > 0
        /\ \/ effects[EventKey[m]] = 1
           \/ \E d \in CopiesOf(m) :
                 entryStatus[d] = "PROCESSED" /\ d \notin I!Stored
=============================================================================
