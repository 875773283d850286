------------------------------ MODULE MCConsumer ------------------------------
(***************************************************************************)
(* TLC instances of the consumer of os-saga-eventos.                       *)
(***************************************************************************)
EXTENDS ConsumerProperties, TLC

CONSTANTS m1, m2, m3, m4, e1, e2, e3, w1, w2

\* Two copies of one event and another event; the fourth message
\* has no envelope and so no event of its own.
FourMessages == m1 :> e1 @@ m2 :> e1 @@ m3 :> e2 @@ m4 :> e3

WorkerSymmetry == Permutations({w1, w2})
=============================================================================
