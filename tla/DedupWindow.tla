----------------------------- MODULE DedupWindow -----------------------------
(***************************************************************************)
(* What an inbox promises its handler: while a key is remembered it is     *)
(* admitted once, an admission has at most one effect, and a key is not    *)
(* forgotten while its admission is open.                                  *)
(***************************************************************************)
EXTENDS Naturals

CONSTANT Keys

VARIABLES
    window,    \* keys the inbox remembers
    open,      \* remembered keys whose admission has had no outcome yet
    effects    \* how often the handler completed for each key

vars == <<window, open, effects>>

Init == window = {} /\ open = {} /\ effects = [k \in Keys |-> 0]

Admit(k) ==
    /\ k \notin window
    /\ window' = window \cup {k} /\ open' = open \cup {k}
    /\ UNCHANGED effects

Apply(k) ==
    /\ k \in open
    /\ open' = open \ {k} /\ effects' = [effects EXCEPT ![k] = @ + 1]
    /\ UNCHANGED window

Drop(k) ==
    /\ k \in open
    /\ open' = open \ {k}
    /\ UNCHANGED <<window, effects>>

Forget(old) ==
    /\ old \subseteq window \ open
    /\ window' = window \ old
    /\ UNCHANGED <<open, effects>>

Next ==
    \/ \E k \in Keys : Admit(k) \/ Apply(k) \/ Drop(k)
    \/ \E old \in SUBSET Keys : Forget(old)

Spec == Init /\ [][Next]_vars
=============================================================================
