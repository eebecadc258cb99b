------------------------------- MODULE MCSaga -------------------------------
(* Four steps: the second and the last have no compensation, the second *)
(* and the third have a timeout.                                           *)
EXTENDS Saga

MCCompensable == {1, 3}
MCTimed == {2, 3}
=============================================================================
