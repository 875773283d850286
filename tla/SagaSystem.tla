------------------------------ MODULE SagaSystem ------------------------------
(***************************************************************************)
(* The saga of one order together with those it commands: the queues in    *)
(* both directions, the participants that carry commands out, and the      *)
(* customer and the mechanics who act at their pages.  The orchestrator is *)
(* ServiceOrderSaga; the participants are other repositories and keep the  *)
(* contract of docs/saga.md:87-137.                                        *)
(*                                                                         *)
(* A queue delays and reorders; a message that is never received was lost. *)
(* Copies with one message_id are discarded by whoever receives them, and  *)
(* are left out; a resend has an id of its own                             *)
(* (app/saga/application/orchestrator.py:134) and is a copy of its own.    *)
(***************************************************************************)
EXTENDS ServiceOrderSaga

CONSTANT RefusesResend  \* the step commands that are refused when carried out before

Step == Command \ Compensation

ASSUME ContractAssumption == RefusesResend \subseteq Step

VARIABLES
  commands,  \* how many sends of each command are on their way
  events,    \* the events on their way
  stage,     \* what became of each step at its participant
  acts       \* the events people caused at a participant

participantVars == <<stage, acts>>
systemVars == <<vars, commands, events, participantVars>>

-----------------------------------------------------------------------------
(* The contract.                                                           *)

\* "Respostas possíveis": the answers to a step carried out and to one refused.
Done == [
  EnfileirarDiagnostico |-> "DiagnosticoEnfileirado",
  ReservarPecas         |-> "PecasReservadas",
  GerarOrcamento        |-> "OrcamentoGerado",
  CriarCobranca         |-> "CobrancaCriada",
  ConfirmarBaixa        |-> "BaixaConfirmada",
  EnfileirarReparo      |-> "ReparoEnfileirado" ]

Failed == [
  EnfileirarDiagnostico |-> "EnfileiramentoFalhou",
  ReservarPecas         |-> "ReservaRecusada",
  GerarOrcamento        |-> "OrcamentoFalhou",
  CriarCobranca         |-> "CobrancaFalhou",
  ConfirmarBaixa        |-> "BaixaFalhou",
  EnfileirarReparo      |-> "EnfileiramentoFalhou" ]

\* "Compensado por"; the cancellation of a charge that was paid refunds it (187),
\* and the refund of one that was not cancels it.
Undoes == [
  LiberarPecas      |-> {"ReservarPecas"},
  DevolverPecas     |-> {"ReservarPecas", "ConfirmarBaixa"},
  CancelarOrcamento |-> {"GerarOrcamento"},
  CancelarCobranca  |-> {"CriarCobranca"},
  EstornarPagamento |-> {"CriarCobranca"} ]

\* "Eventos sem comando correspondente": what must have been done before, and
\* the acts that must, and must not, have come before.
Act == [
  DiagnosticoIniciado  |-> [at |-> "EnfileirarDiagnostico", after |-> {}, unless |-> {}],
  DiagnosticoConcluido |-> [at |-> "EnfileirarDiagnostico",
                            after |-> {"DiagnosticoIniciado"}, unless |-> {}],
  OrcamentoAprovado    |-> [at |-> "GerarOrcamento", after |-> {},
                            unless |-> {"OrcamentoRecusado"}],
  OrcamentoRecusado    |-> [at |-> "GerarOrcamento", after |-> {},
                            unless |-> {"OrcamentoAprovado"}],
  PagamentoConfirmado  |-> [at |-> "CriarCobranca", after |-> {},
                            unless |-> {"PagamentoRecusado"}],
  PagamentoRecusado    |-> [at |-> "CriarCobranca", after |-> {},
                            unless |-> {"PagamentoConfirmado"}],
  ReparoIniciado       |-> [at |-> "EnfileirarReparo", after |-> {}, unless |-> {}],
  ExecucaoFinalizada   |-> [at |-> "EnfileirarReparo",
                            after |-> {"ReparoIniciado"}, unless |-> {}] ]

-----------------------------------------------------------------------------

SystemInit ==
  /\ Init
  /\ commands = [c \in Command |-> IF c = last_command THEN 1 ELSE 0]
  /\ events = {}
  /\ stage = [s \in Step |-> "none"]
  /\ acts = {}

\* _send_commands: what the saga decided goes to the outbox, and from there to
\* the queue of its participant.
SendsCommands ==
  commands' = IF decision'.command = None THEN commands
              ELSE [commands EXCEPT ![decision'.command] = @ + 1]

\* The handler of each event (getattr on its name).
Handler(e) ==
  \/ e = "DiagnosticoEnfileirado" /\ OnDiagnosticoEnfileirado
  \/ e = "DiagnosticoIniciado" /\ OnDiagnosticoIniciado
  \/ e = "DiagnosticoConcluido" /\ OnDiagnosticoConcluido
  \/ e = "PecasReservadas" /\ OnPecasReservadas
  \/ e = "ReservaRecusada" /\ OnReservaRecusada
  \/ e = "OrcamentoGerado" /\ OnOrcamentoGerado
  \/ e = "OrcamentoFalhou" /\ OnOrcamentoFalhou
  \/ e = "OrcamentoAprovado" /\ OnOrcamentoAprovado
  \/ e = "OrcamentoRecusado" /\ OnOrcamentoRecusado
  \/ e = "CobrancaCriada" /\ OnCobrancaCriada
  \/ e = "CobrancaFalhou" /\ OnCobrancaFalhou
  \/ e = "PagamentoConfirmado" /\ OnPagamentoConfirmado
  \/ e = "PagamentoRecusado" /\ OnPagamentoRecusado
  \/ e = "BaixaConfirmada" /\ OnBaixaConfirmada
  \/ e = "BaixaFalhou" /\ OnBaixaFalhou
  \/ e = "ReparoEnfileirado" /\ OnReparoEnfileirado
  \/ e = "EnfileiramentoFalhou" /\ OnEnfileiramentoFalhou
  \/ e = "ReparoIniciado" /\ OnReparoIniciado
  \/ e = "ExecucaoFinalizada" /\ OnExecucaoFinalizada

Receive(e) ==
  /\ e \in events
  /\ events' = events \ {e}
  /\ Handler(e) \/ OnConfirmation(e) \/ Ignore(e)
  /\ SendsCommands
  /\ UNCHANGED <<participantVars>>

Deadline ==
  /\ OnDeadline
  /\ SendsCommands
  /\ UNCHANGED <<events, participantVars>>

AdminRetries ==
  /\ Retry
  /\ SendsCommands
  /\ UNCHANGED <<events, participantVars>>

-----------------------------------------------------------------------------
(* The participants: an effect and its answer are one transaction.         *)

Takes(c) ==
  /\ commands[c] > 0
  /\ commands' = [commands EXCEPT ![c] = @ - 1]

Answers(e) == events' = events \union {e}

\* The parts can be withdrawn as long as they are reserved.
CarriesOut(s) ==
  /\ Takes(s)
  /\ stage[s] = "none"
  /\ s = "ConfirmarBaixa" => stage["ReservarPecas"] = "done"
  /\ stage' = [stage EXCEPT ![s] = "done"]
  /\ Answers(Done[s])
  /\ UNCHANGED <<vars, acts>>

\* A business reason, which a resend meets again, or saga_ja_compensada.
Refuses(s) ==
  /\ Takes(s)
  /\ stage[s] # "done"
  /\ stage' = [stage EXCEPT ![s] = IF @ = "none" THEN "refused" ELSE @]
  /\ Answers(Failed[s])
  /\ UNCHANGED <<vars, acts>>

AnswersAgain(s) ==
  /\ Takes(s)
  /\ stage[s] = "done"
  /\ Answers(IF s \in RefusesResend THEN Failed[s] ELSE Done[s])
  /\ UNCHANGED <<vars, participantVars>>

\* A compensation is always confirmed; it leaves a mark behind that refuses
\* the step should it come later.  There is no reservation to release once
\* the parts are withdrawn.
Undo(c) ==
  /\ Takes(c)
  /\ stage' = IF c = "LiberarPecas" /\ stage["ConfirmarBaixa"] = "done" THEN stage
              ELSE [s \in Step |-> IF s \in Undoes[c] THEN "undone" ELSE stage[s]]
  /\ Answers(COMPENSATION_CONFIRMATIONS[c])
  /\ UNCHANGED <<vars, acts>>

\* The customer and the mechanics, at the pages of the participants.
Acts(a) ==
  /\ a \notin acts
  /\ stage[Act[a].at] = "done"
  /\ Act[a].after \subseteq acts
  /\ Act[a].unless \cap acts = {}
  /\ acts' = acts \union {a}
  /\ Answers(a)
  /\ UNCHANGED <<vars, commands, stage>>

-----------------------------------------------------------------------------

Perform(c) == \/ c \in Step /\ (CarriesOut(c) \/ Refuses(c) \/ AnswersAgain(c))
              \/ c \in Compensation /\ Undo(c)

SystemNext ==
  \/ \E e \in Event : Receive(e)
  \/ \E c \in Command : Perform(c)
  \/ \E a \in DOMAIN Act : Acts(a)
  \/ Deadline
  \/ AdminRetries

\* The deadlines are looked at for ever.  What a deadline makes up for may be
\* lost, so that of the queues no more is asked than the reports of mechanics.
SystemFairness ==
  /\ WF_systemVars(Deadline)
  /\ \A e \in {"DiagnosticoConcluido", "ExecucaoFinalizada"} :
       WF_systemVars(Receive(e))

SystemSpec == SystemInit /\ [][SystemNext]_systemVars
FairSystemSpec == SystemSpec /\ SystemFairness
=============================================================================
