------------------------------- MODULE MCSaga -------------------------------
(***************************************************************************)
(* TLC instances of the saga of one service order.  The state space is     *)
(* finite for every choice of the two constants.                           *)
(***************************************************************************)
EXTENDS SagaInvariant
=============================================================================
