------------------------------ MODULE MCRelay -------------------------------
(* Two messages and two workers, so that one message may be in two hands   *)
(* and two transactions may meet.                                          *)
EXTENDS Relay, TLC

MCSymmetry == Permutations(Workers) \cup Permutations(Messages)
=============================================================================
