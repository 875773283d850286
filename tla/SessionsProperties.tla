-------------------------- MODULE SessionsProperties --------------------------
(***************************************************************************)
(* What must be true of the transactions over one service order.           *)
(***************************************************************************)
EXTENDS SagaSessions

\* The values every variable keeps to; the saga row is locked by the session
\* that is deciding, the order row by the one that is deleting it.
TypeOK ==
  /\ exists \in BOOLEAN
  /\ due \in 0..Never
  /\ over \in BOOLEAN
  /\ order \in {"open", "FINISHED", "CANCELLED", "DELIVERED"}
  /\ pc \in [Session -> {"idle", "saga", "decide", "order", "deliver", "cascade"}]
  /\ \A p \in Session : pc[p] \in {"decide", "order"} => sagaLock = p
  /\ \A p \in Session : pc[p] = "cascade" => orderLock = p
  /\ sagaLock \in Session \union {Nobody}
  /\ orderLock \in Session \union {Nobody}
  /\ stale \subseteq Session
  /\ now \in [Session -> 0..clock]
  /\ clock \in 0..MaxClock

\* What a session decides on is still the row when it commits: no event, no
\* deadline and no retry is applied to a state of the saga that another one
\* has left in the meantime.
DecidesOnCurrentRow ==
  \A p \in Session : pc[p] \in {"decide", "order"} => exists /\ p \notin stale

\* A deadline acts only if the one that is set has expired, however long ago the
\* round of the checker began: an answer that is committed first and moves or
\* clears it wins, and two checkers do not act on one expiry.
ChecksActOnExpired ==
  [][\A p \in Checker :
       pc[p] \in {"decide", "order"} /\ pc'[p] = "idle" /\ due' # due => due <= clock]_vars

\* Although the delivery does not check again under the lock, it only ever
\* follows FINISHED, and nothing the saga still receives takes it back.
DeliveryIsFinal ==
  [][/\ order' = "DELIVERED" => order \in {"FINISHED", "DELIVERED"}
     /\ order = "DELIVERED" => order' = "DELIVERED"]_vars

\* No transaction waits for ever, although the deletion of a client locks the
\* order before the saga and the saga's own transactions do the opposite.
EveryTransactionEnds ==
  \A p \in Session : pc[p] # "idle" ~> pc[p] = "idle"

-----------------------------------------------------------------------------
(* The inductive strengthening.                                            *)

\* The order leaves "open" only with the end of its saga, and what a session
\* saw before it waited still holds.
OrderFacts ==
  /\ order # "open" => over
  /\ \A p \in Session :
       /\ pc[p] = "deliver" => order \in {"FINISHED", "DELIVERED"}
       /\ pc[p] = "order" => ~over
       /\ pc[p] = "order" /\ p \in Checker => due <= now[p]
       /\ pc[p] = "cascade" => exists

SessionsInv ==
  /\ TypeOK
  /\ DecidesOnCurrentRow
  /\ OrderFacts
=============================================================================
