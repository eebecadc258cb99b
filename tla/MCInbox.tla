------------------------------- MODULE MCInbox -------------------------------
(* Deliveries 1, 2 and 3 are copies of one message; delivery 4 is another  *)
(* message that carries the same key.                                      *)
EXTENDS Inbox

MCDeliveries == 1 .. 5
MCIdOf == [d \in MCDeliveries |-> IF d <= 3 THEN 11 ELSE IF d = 4 THEN 12 ELSE 13]
MCKeyOf == [d \in MCDeliveries |-> IF d <= 4 THEN "k" ELSE "l"]
=============================================================================
