----------------------------- MODULE MCPipeline -----------------------------
(* Two events under one idempotency key, each delivered up to twice.       *)
EXTENDS Pipeline

MCMessages == 1 .. 2
MCKeyOf == [m \in MCMessages |-> "k"]
MCEventKey == [m \in MCMessages |-> "k"]
MCCreatedAt == [m \in MCMessages |-> m]
MCBudget == [c \in OperatorCalls |-> IF c = "retry_dead_letters" THEN 1 ELSE 0]
=============================================================================
