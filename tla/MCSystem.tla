------------------------------ MODULE MCSystem ------------------------------
(***************************************************************************)
(* TLC instances of the saga with its participants.                        *)
(***************************************************************************)
EXTENDS SystemProperties
=============================================================================
