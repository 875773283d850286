----------------------------- MODULE SagaTypes -----------------------------
(***************************************************************************)
(* The vocabulary of the saga of a service order (OS): its states, the     *)
(* commands the orchestrator sends, the events the participants answer     *)
(* with, and the tables that drive compensation.                           *)
(* Source: app/saga/domain/value_objects.py and                            *)
(* app/service_orders/domain/value_objects.py.                             *)
(***************************************************************************)

None == "None"

SagaState == {
  "ENQUEUING_DIAGNOSIS", "AWAITING_DIAGNOSIS", "RESERVING_PARTS",
  "GENERATING_QUOTE", "AWAITING_APPROVAL", "CREATING_CHARGE",
  "AWAITING_PAYMENT", "CONFIRMING_WITHDRAWAL", "ENQUEUING_REPAIR",
  "IN_REPAIR", "COMPLETED", "COMPENSATING", "CANCELLED" }

TERMINAL_STATES == {"COMPLETED", "CANCELLED"}

\* The states that wait for a participant's answer to a command.
AWAITING_REPLY_STATES == {
  "ENQUEUING_DIAGNOSIS", "RESERVING_PARTS", "GENERATING_QUOTE",
  "CREATING_CHARGE", "CONFIRMING_WITHDRAWAL", "ENQUEUING_REPAIR",
  "COMPENSATING" }

ServiceOrderStatus == {
  "RECEIVED", "IN_DIAGNOSIS", "WAITING_APPROVAL", "WAITING_PAYMENT",
  "IN_PROGRESS", "FINISHED", "DELIVERED", "REJECTED", "CANCELLED" }

\* The participant whose SQS queue receives each command.
COMMAND_DESTINATIONS == [
  EnfileirarDiagnostico |-> "execucao",
  EnfileirarReparo      |-> "execucao",
  ReservarPecas         |-> "estoque",
  ConfirmarBaixa        |-> "estoque",
  LiberarPecas          |-> "estoque",
  DevolverPecas         |-> "estoque",
  GerarOrcamento        |-> "orcamento",
  CancelarOrcamento     |-> "orcamento",
  CriarCobranca         |-> "pagamento",
  CancelarCobranca      |-> "pagamento",
  EstornarPagamento     |-> "pagamento" ]

\* The event that confirms each compensation.
COMPENSATION_CONFIRMATIONS == [
  LiberarPecas      |-> "PecasLiberadas",
  DevolverPecas     |-> "PecasDevolvidas",
  CancelarOrcamento |-> "OrcamentoCancelado",
  CancelarCobranca  |-> "CobrancaCancelada",
  EstornarPagamento |-> "PagamentoEstornado" ]

\* Mutant: the step that had no answer is taken not to have happened.
TIMEOUT_COMPENSATIONS_PreviousStepsOnly == [
  ENQUEUING_DIAGNOSIS   |-> << >>,
  RESERVING_PARTS       |-> << >>,
  GENERATING_QUOTE      |-> <<"LiberarPecas">>,
  CREATING_CHARGE       |-> <<"CancelarOrcamento", "LiberarPecas">>,
  CONFIRMING_WITHDRAWAL |->
    <<"EstornarPagamento", "CancelarOrcamento", "LiberarPecas">>,
  ENQUEUING_REPAIR      |->
    <<"EstornarPagamento", "CancelarOrcamento", "DevolverPecas">> ]

\* What is undone when a participant never answers, by the step that waited.
TIMEOUT_COMPENSATIONS == [
  ENQUEUING_DIAGNOSIS   |-> << >>,
  RESERVING_PARTS       |-> <<"LiberarPecas">>,
  GENERATING_QUOTE      |-> <<"CancelarOrcamento", "LiberarPecas">>,
  CREATING_CHARGE       |->
    <<"CancelarCobranca", "CancelarOrcamento", "LiberarPecas">>,
  CONFIRMING_WITHDRAWAL |->
    <<"EstornarPagamento", "CancelarOrcamento", "LiberarPecas">>,
  ENQUEUING_REPAIR      |->
    <<"EstornarPagamento", "CancelarOrcamento", "DevolverPecas">> ]

Compensation == DOMAIN COMPENSATION_CONFIRMATIONS

Command == DOMAIN COMMAND_DESTINATIONS

\* The states in which each event of the normal flow has a handler that
\* accepts it; in every other state the event is ignored (and, having been
\* received, counts as processed).
ACCEPTED_IN == [
  DiagnosticoEnfileirado |-> {"ENQUEUING_DIAGNOSIS"},
  DiagnosticoIniciado    |-> {"ENQUEUING_DIAGNOSIS", "AWAITING_DIAGNOSIS"},
  DiagnosticoConcluido   |-> {"ENQUEUING_DIAGNOSIS", "AWAITING_DIAGNOSIS"},
  PecasReservadas        |-> {"RESERVING_PARTS"},
  ReservaRecusada        |-> {"RESERVING_PARTS"},
  OrcamentoGerado        |-> {"GENERATING_QUOTE"},
  OrcamentoFalhou        |-> {"GENERATING_QUOTE"},
  OrcamentoAprovado      |-> {"AWAITING_APPROVAL"},
  OrcamentoRecusado      |-> {"AWAITING_APPROVAL"},
  CobrancaCriada         |-> {"CREATING_CHARGE"},
  CobrancaFalhou         |-> {"CREATING_CHARGE"},
  PagamentoConfirmado    |-> {"CREATING_CHARGE", "AWAITING_PAYMENT"},
  PagamentoRecusado      |-> {"CREATING_CHARGE", "AWAITING_PAYMENT"},
  BaixaConfirmada        |-> {"CONFIRMING_WITHDRAWAL"},
  BaixaFalhou            |-> {"CONFIRMING_WITHDRAWAL"},
  ReparoEnfileirado      |-> {"ENQUEUING_REPAIR"},
  EnfileiramentoFalhou   |-> {"ENQUEUING_DIAGNOSIS", "ENQUEUING_REPAIR"},
  ReparoIniciado         |-> {"ENQUEUING_REPAIR", "IN_REPAIR"},
  ExecucaoFinalizada     |-> {"ENQUEUING_REPAIR", "IN_REPAIR"} ]

FlowEvent == DOMAIN ACCEPTED_IN

Confirmation == {COMPENSATION_CONFIRMATIONS[c] : c \in Compensation}

Event == FlowEvent \union Confirmation
=============================================================================
