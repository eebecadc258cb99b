----------------------------- MODULE MCService ------------------------------
(* Two requests under one key, of the same content or of another, one of   *)
(* them past the middleware.  Two hooks, of which the one with the higher  *)
(* priority may come late.                                                 *)
EXTENDS Service, TLC

MCKeyOf == [r \in Requests |-> "k"]
MCPriority == [h \in Hooks |-> IF h = "high" THEN 1 ELSE 0]
MCInitialHooks == <<"low">>
MCReject == [r \in Requests |-> r = "r1"]
MCSymmetry == Permutations(Hashes)
=============================================================================
