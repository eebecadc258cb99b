------------------------------ MODULE MCOutbox ------------------------------
(* Instances of Outbox for TLC.                                            *)
EXTENDS Outbox

MCMessages == 1 .. 2
MCKeys == {"k"}

(* One message has a key and the other none.                               *)
KeyOfFirst == [m \in MCMessages |-> IF m = 1 THEN "k" ELSE NoKey]

(* The last message was created first: insertion and creation differ.      *)
CreatedBackwards == [m \in MCMessages |-> 3 - m]

OneOfEach == [c \in OperatorCalls |-> 1]
StopOnly == [c \in OperatorCalls |-> IF c = "stop" THEN 1 ELSE 0]
=============================================================================
