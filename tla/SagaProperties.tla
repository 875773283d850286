--------------------------- MODULE SagaProperties ---------------------------
(***************************************************************************)
(* What must be true of the saga of one service order, whatever the events *)
(* and in whatever order they arrive.                                      *)
(***************************************************************************)
EXTENDS ServiceOrderSaga

ConfirmedSet == {confirmed[i] : i \in DOMAIN confirmed}

Plan == { << >>, <<"LiberarPecas">>, <<"CancelarOrcamento", "LiberarPecas">>,
          <<"CancelarCobranca", "CancelarOrcamento", "LiberarPecas">>,
          <<"EstornarPagamento", "CancelarOrcamento", "LiberarPecas">>,
          <<"EstornarPagamento", "CancelarOrcamento", "DevolverPecas">> }

StepCommand == Command \ Compensation

\* The values every variable keeps to: what the columns can hold.
TypeOK ==
  /\ state \in SagaState
  /\ pending_compensations \in Seq(Compensation)
  /\ final_status \in {None, "CANCELLED", "REJECTED"}
  /\ last_command \in Command \union {None}
  /\ attempts \in 0..MaxAttempts
  /\ deadline_at \in {None, "reply", "approval", "payment"}
  /\ data \subseteq {"customer", "vehicle", "problem_description", "diagnosis",
                     "reservation_id", "quote", "charge"}
  /\ status \in ServiceOrderStatus
  /\ stamps \subseteq {"quote_sent_at", "approved_at", "paid_at", "started_at",
                       "finished_at", "delivered_at", "cancelled_at"}
  /\ decision \in [command : Command \union {None},
                   notify_finished : BOOLEAN, ignored : BOOLEAN]
  /\ issued \subseteq StepCommand
  /\ answered \subseteq FlowEvent
  /\ plan \in Plan
  /\ confirmed \in Seq(Compensation)
  /\ retries \in 0..MaxRetries

-----------------------------------------------------------------------------
(* The order the customer sees.                                            *)

\* The table "Estados da saga e status da OS" of docs/saga.md:71-85.
DOCUMENTED_STATUS == [
  ENQUEUING_DIAGNOSIS   |-> {"RECEIVED"},
  AWAITING_DIAGNOSIS    |-> {"RECEIVED", "IN_DIAGNOSIS"},
  RESERVING_PARTS       |-> {"IN_DIAGNOSIS"},
  GENERATING_QUOTE      |-> {"IN_DIAGNOSIS"},
  AWAITING_APPROVAL     |-> {"WAITING_APPROVAL"},
  CREATING_CHARGE       |-> {"WAITING_PAYMENT"},
  AWAITING_PAYMENT      |-> {"WAITING_PAYMENT"},
  CONFIRMING_WITHDRAWAL |-> {"WAITING_PAYMENT"},
  ENQUEUING_REPAIR      |-> {"WAITING_PAYMENT"},
  IN_REPAIR             |-> {"IN_PROGRESS"},
  COMPLETED             |-> {"FINISHED", "DELIVERED"},
  COMPENSATING          |-> {"IN_DIAGNOSIS", "WAITING_APPROVAL", "WAITING_PAYMENT"},
  CANCELLED             |-> {"REJECTED", "CANCELLED"} ]

\* The status of the order is the one documented for the state of its saga,
\* although each handler sets the two separately and most set only one.
StatusFollowsState == status \in DOCUMENTED_STATUS[state]

\* A refusal is told to the customer only if it was the customer's: the order
\* ends REJECTED exactly when OrcamentoRecusado was accepted, and then nothing
\* was approved or paid.
RejectedOnlyByCustomer ==
  state = "CANCELLED" =>
    /\ (status = "REJECTED") <=> ("OrcamentoRecusado" \in answered)
    /\ status = "REJECTED" => {"approved_at", "paid_at"} \cap stamps = {}

\* No repair without money and parts: the order is IN_PROGRESS, or was, only
\* if the customer approved and paid and the stock confirmed the withdrawal.
RepairIsPaidFor ==
  status \in {"IN_PROGRESS", "FINISHED", "DELIVERED"} =>
    /\ {"approved_at", "paid_at"} \subseteq stamps
    /\ {"PecasReservadas", "PagamentoConfirmado", "BaixaConfirmada"} \subseteq answered

-----------------------------------------------------------------------------
(* Deadlines and resends.                                                  *)

AWAITED_COMMAND == [
  ENQUEUING_DIAGNOSIS   |-> "EnfileirarDiagnostico",
  RESERVING_PARTS       |-> "ReservarPecas",
  GENERATING_QUOTE      |-> "GerarOrcamento",
  CREATING_CHARGE       |-> "CriarCobranca",
  CONFIRMING_WITHDRAWAL |-> "ConfirmarBaixa",
  ENQUEUING_REPAIR      |-> "EnfileirarReparo" ]

\* What a deadline or an admin resends is the command the state is waiting
\* an answer to, never one of an earlier step, and in a state that waits for
\* people there is nothing to resend.
ResendsTheAwaitedCommand ==
  /\ state \in AWAITING_REPLY_STATES \ {"COMPENSATING"} =>
       last_command = AWAITED_COMMAND[state]
  /\ state = "COMPENSATING" =>
       pending_compensations # << >> /\ last_command = Head(pending_compensations)
  /\ state \notin AWAITING_REPLY_STATES => last_command = None

Parked == state = "COMPENSATING" /\ deadline_at = None

\* A saga without a deadline is over, or waits for a mechanic, or is a
\* compensation that used up its attempts and that an admin can still retry;
\* and each kind of wait is timed by its own deadline.
NoSilentStall ==
  /\ deadline_at = None =>
       \/ state \in TERMINAL_STATES \union {"AWAITING_DIAGNOSIS", "IN_REPAIR"}
       \/ Parked /\ attempts = MaxAttempts /\ last_command # None
  /\ deadline_at = "approval" <=> state = "AWAITING_APPROVAL"
  /\ deadline_at = "payment" <=> state = "AWAITING_PAYMENT"
  /\ deadline_at = "reply" => state \in AWAITING_REPLY_STATES /\ attempts >= 1

-----------------------------------------------------------------------------
(* Compensation.                                                           *)

\* Compensations are confirmed one at a time and in the order of the plan, and
\* the saga is CANCELLED only when none is left (docs/adrs/0008: it is never
\* marked Cancelada without the confirmation of all of them).
CompensatesInOrder ==
  /\ confirmed \o pending_compensations = plan
  /\ state = "CANCELLED" => pending_compensations = << >>

\* The stock gives the parts back last: while a refund, a charge or a quote is
\* still to be undone, the parts stay reserved for this order.
PartsReturnedLast ==
  \A c \in ConfirmedSet : c \in {"LiberarPecas", "DevolverPecas"} =>
    pending_compensations = << >>

\* A step whose command was sent may have taken effect unless a participant
\* refused it: a cancelled order has undone each such reservation, quote and
\* charge, the quote also ending with the customer's refusal.  This covers
\* the commands that never had an answer.
SentEffectsUndone ==
  state = "CANCELLED" =>
    /\ "ReservarPecas" \in issued /\ "ReservaRecusada" \notin answered =>
         {"LiberarPecas", "DevolverPecas"} \cap ConfirmedSet # {}
    /\ "GerarOrcamento" \in issued
         /\ {"OrcamentoFalhou", "OrcamentoRecusado"} \cap answered = {} =>
         "CancelarOrcamento" \in ConfirmedSet
    /\ "CriarCobranca" \in issued /\ "CobrancaFalhou" \notin answered =>
         {"CancelarCobranca", "EstornarPagamento"} \cap ConfirmedSet # {}
    /\ "paid_at" \in stamps => "EstornarPagamento" \in ConfirmedSet

-----------------------------------------------------------------------------
(* What a step may never do.                                               *)

RANK == [
  ENQUEUING_DIAGNOSIS   |-> 0, AWAITING_DIAGNOSIS  |-> 1, RESERVING_PARTS  |-> 2,
  GENERATING_QUOTE      |-> 3, AWAITING_APPROVAL   |-> 4, CREATING_CHARGE  |-> 5,
  AWAITING_PAYMENT      |-> 6, CONFIRMING_WITHDRAWAL |-> 7, ENQUEUING_REPAIR |-> 8,
  IN_REPAIR             |-> 9, COMPLETED |-> 10, COMPENSATING |-> 11, CANCELLED |-> 12 ]

\* No event, however late or repeated, takes the saga back to an earlier
\* state; from the repair it can only complete, and from the end go nowhere.
NeverMovesBack ==
  [][/\ RANK[state'] >= RANK[state]
     /\ state = "IN_REPAIR" => state' \in {"IN_REPAIR", "COMPLETED"}
     /\ state \in TERMINAL_STATES => UNCHANGED sagaVars]_vars

-----------------------------------------------------------------------------
(* Refinement: the saga is a business transaction over the effects that     *)
(* the participants reported.                                              *)

EFFECT == {"reservation", "withdrawal", "quote", "charge", "payment"}

\* An effect stands from the event that reports it to the one that converts
\* it, or the confirmation that undoes it.
Stands(effect, from, until, undo) ==
  IF from \in answered /\ until \cap answered = {} /\ undo \notin ConfirmedSet
    THEN {effect} ELSE {}

heldBar == UNION {
  Stands("reservation", "PecasReservadas", {"BaixaConfirmada"}, "LiberarPecas"),
  Stands("withdrawal", "BaixaConfirmada", {}, "DevolverPecas"),
  Stands("quote", "OrcamentoGerado", {"OrcamentoRecusado"}, "CancelarOrcamento"),
  Stands("charge", "CobrancaCriada", {"PagamentoConfirmado"}, "CancelarCobranca"),
  Stands("payment", "PagamentoConfirmado", {}, "EstornarPagamento") }

phaseBar == CASE state = "COMPENSATING" -> "undoing"
              [] state = "CANCELLED"    -> "cancelled"
              [] state = "COMPLETED"    -> "done"
              [] state = "IN_REPAIR"    -> "committed"
              [] OTHER                  -> "forward"

Transaction == INSTANCE SagaTransaction
                 WITH Effect <- EFFECT, phase <- phaseBar, held <- heldBar

\* The saga implements the business transaction: nothing is gained once it is
\* being undone, the repair starts only with payment and parts taken, and a
\* cancelled order leaves no reported effect standing.
ImplementsTransaction == Transaction!Spec

-----------------------------------------------------------------------------
(* Liveness, from the deadline thread alone.                               *)

Timed == (AWAITING_REPLY_STATES \ {"COMPENSATING"})
           \union {"AWAITING_APPROVAL", "AWAITING_PAYMENT"}

\* No participant and no customer can hold a saga in a timed step for ever:
\* whether they answer or not, the saga leaves it.
TimedStepsEnd == \A s \in Timed : state = s ~> state # s

\* A compensation ends, or stops where the admin sees it and can retry.
CompensationEndsOrParks ==
  state = "COMPENSATING" ~> (state = "CANCELLED" \/ Parked)

\* The deadline thread alone keeps every order moving: only a mechanic, or an
\* admin who does not retry, can hold one for ever.
DeadlinesKeepItMoving == TimedStepsEnd /\ CompensationEndsOrParks
=============================================================================
