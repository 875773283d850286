----------------------------- MODULE AtLeastOnce -----------------------------
(***************************************************************************)
(* What a transactional outbox promises: a message handed over is          *)
(* delivered, perhaps more than once; a message never handed over is not.  *)
(* Source of the promise: the docstring of app/shared/outbox.py.           *)
(***************************************************************************)
EXTENDS Naturals

CONSTANT Message

VARIABLES
  accepted,  \* the messages handed over
  delivered  \* how many copies of each were delivered

Init == /\ accepted = {}
        /\ delivered = [m \in Message |-> 0]

Accept(m) == /\ m \notin accepted
             /\ accepted' = accepted \union {m}
             /\ UNCHANGED delivered

Deliver(m) == /\ m \in accepted
              /\ delivered' = [delivered EXCEPT ![m] = @ + 1]
              /\ UNCHANGED accepted

Next == \E m \in Message : Accept(m) \/ Deliver(m)

FirstDelivery(m) == delivered[m] = 0 /\ Deliver(m)

Spec == Init /\ [][Next]_<<accepted, delivered>>

FairSpec == Spec /\ \A m \in Message : WF_<<accepted, delivered>>(FirstDelivery(m))
=============================================================================
