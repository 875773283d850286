-------------------------- MODULE ServiceOrderSaga --------------------------
(***************************************************************************)
(* The saga of one service order: the state machine that takes the order   *)
(* from its opening to the repair, or undoes what was done                 *)
(* (app/saga/domain/saga.py), with the part of the order it writes in the  *)
(* same transaction (app/saga/application/orchestrator.py, _apply).        *)
(*                                                                         *)
(* The environment is arbitrary: any event may arrive in any state, any    *)
(* number of times and in any order, and an armed deadline may fire before *)
(* or after any answer.  A deadline is abstracted to which of the three    *)
(* timers is armed.                                                        *)
(***************************************************************************)
EXTENDS Naturals, Sequences, SagaTypes

CONSTANTS
  MaxAttempts,  \* SagaTimeouts.max_attempts: sends of a command, first included
  MaxRetries    \* bound on the manual retries by an admin

ASSUME BoundsAssumption == /\ MaxAttempts \in Nat \ {0}
                           /\ MaxRetries \in Nat

VARIABLES
  (* The saga row.                                                         *)
  state, pending_compensations, final_status, last_command, attempts,
  deadline_at,   \* which timer is armed: reply, approval, payment or None
  data,          \* which keys of the JSON column are filled in
  (* The order row: its status and which of its *_at columns are set.      *)
  status, stamps,
  (* The Decision the last handler returned to the orchestrator.           *)
  decision,
  (* History: step commands sent, events accepted, the compensations of    *)
  (* the plan in progress and those confirmed, manual retries.             *)
  issued, answered, plan, confirmed, retries

sagaVars == <<state, pending_compensations, final_status, last_command,
              attempts, deadline_at, data>>
orderVars == <<status, stamps>>
historyVars == <<issued, answered, plan, confirmed, retries>>
vars == <<sagaVars, orderVars, decision, historyVars>>

-----------------------------------------------------------------------------
(* Decisions and the helpers that build them.                              *)

Decide(command, notify) ==
  decision' = [command |-> command, notify_finished |-> notify, ignored |-> FALSE]

DecideNothing ==
  decision' = [command |-> None, notify_finished |-> FALSE, ignored |-> TRUE]

\* apply_change: None keeps the status; the columns named are filled in.
OrderChange(newStatus, fields) ==
  /\ status' = IF newStatus = None THEN status ELSE newStatus
  /\ stamps' = stamps \union fields

NoOrderChange == UNCHANGED orderVars

\* _send: the command goes out with a fresh count and a reply deadline.
Send(command, next) ==
  /\ state' = next
  /\ last_command' = command
  /\ attempts' = 1
  /\ deadline_at' = "reply"
  /\ Decide(command, FALSE)

\* Mutant: the last command is left behind.
Wait_KeepsCommand(next, deadline) ==
  /\ state' = next
  /\ deadline_at' = deadline
  /\ attempts' = 0
  /\ UNCHANGED last_command

\* _wait: nothing to resend; at most the deadline given.
Wait(next, deadline) ==
  /\ state' = next
  /\ deadline_at' = deadline
  /\ last_command' = None
  /\ attempts' = 0

\* The next step of the flow: its command is sent in the state that waits
\* for the answer.
SendStep(command, next) ==
  /\ Send(command, next)
  /\ issued' = issued \union {command}
  /\ UNCHANGED <<pending_compensations, final_status, plan, confirmed, retries>>

WaitStep(next, deadline, notify) ==
  /\ Wait(next, deadline)
  /\ Decide(None, notify)
  /\ UNCHANGED <<pending_compensations, final_status, issued, plan, confirmed, retries>>

\* _finish_cancelled
FinishCancelled(final) ==
  /\ Wait("CANCELLED", None)
  /\ Decide(None, FALSE)
  /\ OrderChange(IF final = None THEN "CANCELLED" ELSE final, {"cancelled_at"})

\* _compensate: undo one step at a time, in the order given.
Compensate(compensations, final) ==
  /\ final_status' = final
  /\ pending_compensations' = compensations
  /\ plan' = compensations
  /\ \/ /\ compensations = << >>
        /\ FinishCancelled(final)
     \/ /\ compensations # << >>
        /\ Send(Head(compensations), "COMPENSATING")
        /\ NoOrderChange
  /\ UNCHANGED <<data, issued, confirmed, retries>>

-----------------------------------------------------------------------------
(* begin: the saga starts in the transaction that opens the order.         *)

Init ==
  /\ state = "ENQUEUING_DIAGNOSIS"
  /\ pending_compensations = << >>
  /\ final_status = None
  /\ last_command = "EnfileirarDiagnostico"
  /\ attempts = 1
  /\ deadline_at = "reply"
  /\ data = {"customer", "vehicle", "problem_description"}
  /\ status = "RECEIVED"
  /\ stamps = {}
  /\ decision = [command |-> "EnfileirarDiagnostico",
                 notify_finished |-> FALSE, ignored |-> FALSE]
  /\ issued = {"EnfileirarDiagnostico"}
  /\ answered = {}
  /\ plan = << >>
  /\ confirmed = << >>
  /\ retries = 0

-----------------------------------------------------------------------------
(* Events of the normal flow, one action per handler.                      *)

\* Mutant: the diagnosis has to be acknowledged before it can be concluded.
Expected_InFlowOrder(e) ==
  /\ state \in ACCEPTED_IN[e]
  /\ e = "DiagnosticoConcluido" => state = "AWAITING_DIAGNOSIS"

Expected(e) == state \in ACCEPTED_IN[e]

Accept(e) ==
  /\ Expected(e)
  /\ answered' = answered \union {e}

OnDiagnosticoEnfileirado ==
  /\ Accept("DiagnosticoEnfileirado")
  /\ WaitStep("AWAITING_DIAGNOSIS", None, FALSE)
  /\ NoOrderChange
  /\ UNCHANGED data

\* Mutant: a late DiagnosticoIniciado is not told from a timely one.
OnDiagnosticoIniciado_AnyState ==
  /\ state \notin TERMINAL_STATES \union {"COMPENSATING"}
  /\ answered' = answered \union {"DiagnosticoIniciado"}
  /\ WaitStep("AWAITING_DIAGNOSIS", None, FALSE)
  /\ OrderChange("IN_DIAGNOSIS", {})
  /\ UNCHANGED data

OnDiagnosticoIniciado ==
  /\ Accept("DiagnosticoIniciado")
  /\ WaitStep("AWAITING_DIAGNOSIS", None, FALSE)
  /\ OrderChange("IN_DIAGNOSIS", {})
  /\ UNCHANGED data

\* Mutant: the status is left to DiagnosticoIniciado, which may never come.
OnDiagnosticoConcluido_NoStatus ==
  /\ Accept("DiagnosticoConcluido")
  /\ data' = data \union {"diagnosis"}
  /\ SendStep("ReservarPecas", "RESERVING_PARTS")
  /\ NoOrderChange

OnDiagnosticoConcluido ==
  /\ Accept("DiagnosticoConcluido")
  /\ data' = data \union {"diagnosis"}
  /\ SendStep("ReservarPecas", "RESERVING_PARTS")
  /\ OrderChange("IN_DIAGNOSIS", {})

OnPecasReservadas ==
  /\ Accept("PecasReservadas")
  /\ data' = data \union {"reservation_id"}
  /\ SendStep("GerarOrcamento", "GENERATING_QUOTE")
  /\ NoOrderChange

OnReservaRecusada ==
  /\ Accept("ReservaRecusada")
  /\ Compensate(<< >>, "CANCELLED")

\* Mutant: the customer may take for ever.
OnOrcamentoGerado_NoDeadline ==
  /\ Accept("OrcamentoGerado")
  /\ data' = data \union {"quote"}
  /\ WaitStep("AWAITING_APPROVAL", None, FALSE)
  /\ OrderChange("WAITING_APPROVAL", {"quote_sent_at"})

OnOrcamentoGerado ==
  /\ Accept("OrcamentoGerado")
  /\ data' = data \union {"quote"}
  /\ WaitStep("AWAITING_APPROVAL", "approval", FALSE)
  /\ OrderChange("WAITING_APPROVAL", {"quote_sent_at"})

OnOrcamentoFalhou ==
  /\ Accept("OrcamentoFalhou")
  /\ Compensate(<<"LiberarPecas">>, "CANCELLED")

OnOrcamentoAprovado ==
  /\ Accept("OrcamentoAprovado")
  /\ SendStep("CriarCobranca", "CREATING_CHARGE")
  /\ OrderChange("WAITING_PAYMENT", {"approved_at"})
  /\ UNCHANGED data

OnOrcamentoRecusado ==
  /\ Accept("OrcamentoRecusado")
  /\ Compensate(<<"LiberarPecas">>, "REJECTED")

OnCobrancaCriada ==
  /\ Accept("CobrancaCriada")
  /\ data' = data \union {"charge"}
  /\ WaitStep("AWAITING_PAYMENT", "payment", FALSE)
  /\ NoOrderChange

OnCobrancaFalhou ==
  /\ Accept("CobrancaFalhou")
  /\ Compensate(<<"CancelarOrcamento", "LiberarPecas">>, "CANCELLED")

\* Accepted before CobrancaCriada too: the charge is then taken from it.
OnPagamentoConfirmado ==
  /\ Accept("PagamentoConfirmado")
  /\ data' = data \union {"charge"}
  /\ SendStep("ConfirmarBaixa", "CONFIRMING_WITHDRAWAL")
  /\ OrderChange(None, {"paid_at"})

OnPagamentoRecusado ==
  /\ Accept("PagamentoRecusado")
  /\ Compensate(<<"CancelarCobranca", "CancelarOrcamento", "LiberarPecas">>,
                "CANCELLED")

OnBaixaConfirmada ==
  /\ Accept("BaixaConfirmada")
  /\ SendStep("EnfileirarReparo", "ENQUEUING_REPAIR")
  /\ NoOrderChange
  /\ UNCHANGED data

OnBaixaFalhou ==
  /\ Accept("BaixaFalhou")
  /\ Compensate(<<"EstornarPagamento", "CancelarOrcamento", "LiberarPecas">>,
                "CANCELLED")

\* Mutant: the repair is acknowledged while it is already being undone.
OnReparoEnfileirado_Late ==
  /\ state \notin TERMINAL_STATES
  /\ answered' = answered \union {"ReparoEnfileirado"}
  /\ WaitStep("IN_REPAIR", None, FALSE)
  /\ OrderChange("IN_PROGRESS", {})
  /\ UNCHANGED data

\* The point of no return: from here on nothing is undone automatically.
OnReparoEnfileirado ==
  /\ Accept("ReparoEnfileirado")
  /\ WaitStep("IN_REPAIR", None, FALSE)
  /\ OrderChange("IN_PROGRESS", {})
  /\ UNCHANGED data

\* Mutant: the reservation is released although it was already withdrawn.
OnEnfileiramentoFalhou_Releases ==
  /\ Accept("EnfileiramentoFalhou")
  /\ \/ /\ state = "ENQUEUING_DIAGNOSIS"
        /\ Compensate(<< >>, "CANCELLED")
     \/ /\ state = "ENQUEUING_REPAIR"
        /\ Compensate(<<"EstornarPagamento", "CancelarOrcamento", "LiberarPecas">>,
                      "CANCELLED")

\* Which of the two refusals it is follows from the state alone: the stage
\* named in the payload is not looked at.
OnEnfileiramentoFalhou ==
  /\ Accept("EnfileiramentoFalhou")
  /\ \/ /\ state = "ENQUEUING_DIAGNOSIS"
        /\ Compensate(<< >>, "CANCELLED")
     \/ /\ state = "ENQUEUING_REPAIR"
        /\ Compensate(<<"EstornarPagamento", "CancelarOrcamento", "DevolverPecas">>,
                      "CANCELLED")

OnReparoIniciado ==
  /\ Accept("ReparoIniciado")
  /\ WaitStep("IN_REPAIR", None, FALSE)
  /\ OrderChange("IN_PROGRESS", {"started_at"})
  /\ UNCHANGED data

OnExecucaoFinalizada ==
  /\ Accept("ExecucaoFinalizada")
  /\ WaitStep("COMPLETED", None, TRUE)
  /\ OrderChange("FINISHED", {"finished_at"})
  /\ UNCHANGED data

-----------------------------------------------------------------------------
(* Compensation.                                                           *)

Confirms(e) ==
  /\ state = "COMPENSATING"
  /\ pending_compensations # << >>
  /\ COMPENSATION_CONFIRMATIONS[Head(pending_compensations)] = e

\* _on_compensation_event: the compensation in progress is confirmed.
OnConfirmation(e) ==
  /\ Confirms(e)
  /\ confirmed' = Append(confirmed, Head(pending_compensations))
  /\ pending_compensations' = Tail(pending_compensations)
  /\ \/ /\ Tail(pending_compensations) = << >>
        /\ FinishCancelled(final_status)
     \/ /\ Tail(pending_compensations) # << >>
        /\ Send(Head(Tail(pending_compensations)), "COMPENSATING")
        /\ NoOrderChange
  /\ UNCHANGED <<final_status, data, issued, answered, plan, retries>>

\* handle on an event that nothing in the current state is waiting for.
Ignore(e) ==
  /\ e \in FlowEvent => ~Expected(e)
  /\ ~Confirms(e)
  /\ DecideNothing
  /\ UNCHANGED <<sagaVars, orderVars, historyVars>>

-----------------------------------------------------------------------------
(* Deadlines (on_deadline) and the admin's retry.                          *)

Resend(count) ==
  /\ attempts' = count
  /\ deadline_at' = "reply"
  /\ Decide(last_command, FALSE)
  /\ UNCHANGED <<state, pending_compensations, final_status, last_command, data,
                 orderVars, issued, answered, plan, confirmed>>

\* Mutant: a payment that did not come is taken for one that cannot come.
DeadlineOfClient_KeepsCharge ==
  /\ state \in {"AWAITING_APPROVAL", "AWAITING_PAYMENT"}
  /\ Compensate(<<"CancelarOrcamento", "LiberarPecas">>, "CANCELLED")
  /\ UNCHANGED answered

DeadlineOfClient ==
  /\ \/ /\ state = "AWAITING_APPROVAL"
        /\ Compensate(<<"CancelarOrcamento", "LiberarPecas">>, "CANCELLED")
     \/ /\ state = "AWAITING_PAYMENT"
        /\ Compensate(<<"CancelarCobranca", "CancelarOrcamento", "LiberarPecas">>,
                      "CANCELLED")
  /\ UNCHANGED answered

\* Mutant: one resend too many.
DeadlineResends_OffByOne ==
  /\ state \in AWAITING_REPLY_STATES
  /\ attempts <= MaxAttempts
  /\ Resend(attempts + 1)
  /\ UNCHANGED retries

DeadlineResends ==
  /\ state \in AWAITING_REPLY_STATES
  /\ attempts < MaxAttempts
  /\ Resend(attempts + 1)
  /\ UNCHANGED retries

\* Mutant: a compensation nobody confirms is given up.
DeadlineParks_GivesUp ==
  /\ state = "COMPENSATING"
  /\ attempts >= MaxAttempts
  /\ FinishCancelled(final_status)
  /\ UNCHANGED <<pending_compensations, final_status, data, historyVars>>

\* Mutant: a compensation nobody confirms is retried for ever.
DeadlineParks_Never ==
  /\ state = "COMPENSATING"
  /\ attempts >= MaxAttempts
  /\ Resend(1)
  /\ UNCHANGED retries

\* A compensation is never given up: it stops, visible, for an admin.
DeadlineParks ==
  /\ state = "COMPENSATING"
  /\ attempts >= MaxAttempts
  /\ deadline_at' = None
  /\ DecideNothing
  /\ UNCHANGED <<state, pending_compensations, final_status, last_command, attempts,
                 data, orderVars, historyVars>>

DeadlineGivesUp ==
  /\ state \in AWAITING_REPLY_STATES \ {"COMPENSATING"}
  /\ attempts >= MaxAttempts
  /\ Compensate(TIMEOUT_COMPENSATIONS[state], "CANCELLED")
  /\ UNCHANGED answered

OnDeadline ==
  /\ deadline_at # None
  /\ state \notin TERMINAL_STATES
  /\ \/ DeadlineOfClient
     \/ /\ last_command # None
        /\ DeadlineResends \/ DeadlineParks \/ DeadlineGivesUp

\* POST /service-orders/{id}/saga/retry
Retry ==
  /\ retries < MaxRetries
  /\ state \in AWAITING_REPLY_STATES
  /\ last_command # None
  /\ Resend(1)
  /\ retries' = retries + 1

-----------------------------------------------------------------------------
(* POST /service-orders/{id}/deliver: the one change made by hand.         *)

Deliver ==
  /\ status = "FINISHED"
  /\ OrderChange("DELIVERED", {"delivered_at"})
  /\ UNCHANGED <<sagaVars, decision, historyVars>>

-----------------------------------------------------------------------------

Diagnosis == \/ OnDiagnosticoEnfileirado
             \/ OnDiagnosticoIniciado
             \/ OnDiagnosticoConcluido
Stock == \/ OnPecasReservadas
         \/ OnReservaRecusada
         \/ OnBaixaConfirmada
         \/ OnBaixaFalhou
Quote == \/ OnOrcamentoGerado
         \/ OnOrcamentoFalhou
         \/ OnOrcamentoAprovado
         \/ OnOrcamentoRecusado
Payment == \/ OnCobrancaCriada
           \/ OnCobrancaFalhou
           \/ OnPagamentoConfirmado
           \/ OnPagamentoRecusado
Repair == \/ OnReparoEnfileirado
          \/ OnEnfileiramentoFalhou
          \/ OnReparoIniciado
          \/ OnExecucaoFinalizada

\* handle: terminal states ignore everything, COMPENSATING listens only to
\* the confirmation it waits for, the rest goes to the handler of the event.
Handle == \/ Diagnosis \/ Stock \/ Quote \/ Payment \/ Repair
          \/ \E e \in Confirmation : OnConfirmation(e)
          \/ \E e \in Event : Ignore(e)

Next == Handle \/ OnDeadline \/ Retry \/ Deliver

\* The deadline thread of the worker never stops, and catches what a single
\* saga raises (app/worker.py); nothing else is promised to happen.
Fairness == WF_vars(OnDeadline)

Spec == Init /\ [][Next]_vars
FairSpec == Spec /\ Fairness
=============================================================================
