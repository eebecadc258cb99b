---------------------------- MODULE MCResilience ----------------------------
(* Three calls that contend for the permits, and one that uses the breaker *)
(* by itself.                                                              *)
EXTENDS Resilience

MCCalls == 1 .. 4
MCLayered == 1 .. 3
=============================================================================
