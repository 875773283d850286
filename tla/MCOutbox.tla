------------------------------ MODULE MCOutbox ------------------------------
(***************************************************************************)
(* The TLC instance of the outbox: two sagas, two relays.                  *)
(***************************************************************************)
EXTENDS OutboxProperties

CONSTANTS s1, s2, w1, w2
=============================================================================
