------------------------------ MODULE MCSessions ------------------------------
(***************************************************************************)
(* TLC instances of the transactions over one service order.               *)
(***************************************************************************)
EXTENDS SessionsProperties

CONSTANTS c1, d1, d2, r1, v1, v2, x1
=============================================================================
