--------------------------- MODULE SagaTransaction ---------------------------
(***************************************************************************)
(* What the saga of a service order promises, said without its steps: a    *)
(* business transaction that collects effects in other services and ends   *)
(* either done, with the customer's money and the parts taken, or          *)
(* cancelled, with nothing left behind.                                    *)
(* Source of the promise: docs/adrs/0008, "Compensacao" and "Ponto sem     *)
(* volta", as ServiceOrderSaga keeps it for the effects it was told of.    *)
(***************************************************************************)
CONSTANT Effect

VARIABLES
  phase,  \* forward, committed, done, undoing or cancelled
  held    \* the effects that stand in the other services

Phase == {"forward", "committed", "done", "undoing", "cancelled"}

Init == /\ phase = "forward"
        /\ held = {}

\* A participant reports an effect, or the conversion of one into another.
Advance == /\ phase = "forward"
           /\ held' \in SUBSET Effect
           /\ UNCHANGED phase

\* The repair is queued: the money and the parts must have been taken.
Commit == /\ phase = "forward"
          /\ {"payment", "withdrawal"} \subseteq held
          /\ phase' \in {"committed", "done"}
          /\ UNCHANGED held

Finish == /\ phase = "committed"
          /\ phase' = "done"
          /\ UNCHANGED held

\* A failure starts the undoing; no effect is added from here on.
Abort == /\ phase = "forward"
         /\ phase' = "undoing"
         /\ held' \in SUBSET held

Undo == /\ phase = "undoing"
        /\ held' \in SUBSET held
        /\ UNCHANGED phase

Cancel == /\ phase \in {"forward", "undoing"}
          /\ phase' = "cancelled"
          /\ held' = {}

Next == Advance \/ Commit \/ Finish \/ Abort \/ Undo \/ Cancel

Spec == Init /\ [][Next]_<<phase, held>>
=============================================================================
