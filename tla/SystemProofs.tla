----------------------------- MODULE SystemProofs -----------------------------
(***************************************************************************)
(* The saga together with its participants: what a cancelled order leaves  *)
(* behind at them, and what a repair rests on.                             *)
(***************************************************************************)
EXTENDS SystemProperties, SagaProofs

-----------------------------------------------------------------------------
(* The contract, name by name.                                             *)

LEMMA StepSet ==
  /\ Step = {"EnfileirarDiagnostico", "ReservarPecas", "GerarOrcamento",
             "CriarCobranca", "ConfirmarBaixa", "EnfileirarReparo"}
  /\ Step = StepCommand
  /\ Undoable = {"ReservarPecas", "ConfirmarBaixa", "GerarOrcamento", "CriarCobranca"}
  /\ Undoable \subseteq Step
<1>1. Step = StepCommand
  BY DEF Step, StepCommand
<1>2. Undoable = {"ReservarPecas", "ConfirmarBaixa", "GerarOrcamento", "CriarCobranca"}
  BY CommandSets DEF Undoable, Undoes
<1> QED
  BY <1>1, <1>2, CommandSets

LEMMA CommandKinds ==
  /\ Command = Step \union Compensation
  /\ Step \cap Compensation = {}
  /\ None \notin Command
BY StepSet, CommandSets DEF None

LEMMA ActSet ==
  DOMAIN Act = {"DiagnosticoIniciado", "DiagnosticoConcluido", "OrcamentoAprovado",
                "OrcamentoRecusado", "PagamentoConfirmado", "PagamentoRecusado",
                "ReparoIniciado", "ExecucaoFinalizada"}
BY DEF Act

\* No answer can be taken for another one, but for the two refusals to enqueue.
LEMMA AnswersAreDistinct ==
  /\ \A s \in Step : Done[s] \in FlowEvent /\ Failed[s] \in FlowEvent
  /\ \A s, t \in Step : Done[s] = Done[t] => s = t
  /\ \A s, t \in Step : Done[s] # Failed[t]
  /\ \A s \in Undoable, t \in Step : Failed[s] = Failed[t] => s = t
  /\ \A s \in Step : Done[s] \notin DOMAIN Act /\ Failed[s] \notin DOMAIN Act
  /\ DOMAIN Act \subseteq FlowEvent
BY StepSet, ActSet, FlowEventSet DEF Done, Failed

LEMMA ConfirmationsAreDistinct ==
  /\ \A c \in Compensation : COMPENSATION_CONFIRMATIONS[c] \in Confirmation
  /\ \A c, d \in Compensation :
       COMPENSATION_CONFIRMATIONS[c] = COMPENSATION_CONFIRMATIONS[d] => c = d
  /\ Confirmation \cap FlowEvent = {}
<1>1. Confirmation = {"PecasLiberadas", "PecasDevolvidas", "OrcamentoCancelado",
                      "CobrancaCancelada", "PagamentoEstornado"}
  BY CommandSets DEF Confirmation, COMPENSATION_CONFIRMATIONS
<1> QED
  BY <1>1, CommandSets, FlowEventSet DEF COMPENSATION_CONFIRMATIONS, Confirmation

LEMMA ActPlace == \A a \in DOMAIN Act : Act[a].at \in Step
BY ActSet, StepSet DEF Act

-----------------------------------------------------------------------------
(* The saga in the system takes the steps of ServiceOrderSaga and no other. *)

SagaStep == \/ \E e \in Event : Handler(e) \/ OnConfirmation(e) \/ Ignore(e)
            \/ OnDeadline
            \/ Retry

LEMMA HandlerIsHandle ==
  ASSUME NEW e, Handler(e)
  PROVE  Handle
BY DEF Handler, Handle, Diagnosis, Stock, Quote, Payment, Repair

\* The confirmation of a compensation is the event of one.
LEMMA ConfirmationIsOne ==
  ASSUME TypeOK, NEW e, OnConfirmation(e)
  PROVE  e \in Confirmation
BY DEF OnConfirmation, Confirms, TypeOK, Confirmation

LEMMA SagaStepIsNext ==
  ASSUME TypeOK, SagaStep
  PROVE  Next
BY HandlerIsHandle, ConfirmationIsOne DEF SagaStep, Next, Handle

\* An event that a handler accepts is the one that was received.
LEMMA HandlerAnswers ==
  ASSUME NEW e, Handler(e)
  PROVE  answered' = answered \union {e} /\ UNCHANGED confirmed
BY DEF Handler, Accept, OnDiagnosticoEnfileirado, OnDiagnosticoIniciado,
   OnDiagnosticoConcluido, OnPecasReservadas, OnReservaRecusada, OnOrcamentoGerado,
   OnOrcamentoFalhou, OnOrcamentoAprovado, OnOrcamentoRecusado, OnCobrancaCriada,
   OnCobrancaFalhou, OnPagamentoConfirmado, OnPagamentoRecusado, OnBaixaConfirmada,
   OnBaixaFalhou, OnReparoEnfileirado, OnEnfileiramentoFalhou, OnReparoIniciado,
   OnExecucaoFinalizada, WaitStep, SendStep, Compensate

\* What the saga sends: in going forward a step, which then counts as issued;
\* in undoing a compensation.
SendsRightly ==
  /\ issued \subseteq issued'
  /\ Forward' => Forward
  /\ decision'.command \in Compensation => ~Forward'
  /\ decision'.command \in Undoable => decision'.command \in issued'

LEMMA FlowSends ==
  ASSUME FlowStep
  PROVE  SendsRightly
<1>1. Forward
  BY DEF FlowStep, OnDiagnosticoEnfileirado, OnDiagnosticoIniciado, OnDiagnosticoConcluido,
     OnPecasReservadas, OnOrcamentoGerado, OnOrcamentoAprovado, OnCobrancaCriada,
     OnPagamentoConfirmado, OnBaixaConfirmada, OnReparoEnfileirado, OnReparoIniciado,
     OnExecucaoFinalizada, Accept, Expected, ACCEPTED_IN, Forward
<1>2. \/ \E s, d, n : WaitStep(s, d, n)
      \/ \E c \in StepCommand : \E s : SendStep(c, s)
  BY CommandSets DEF FlowStep, OnDiagnosticoEnfileirado, OnDiagnosticoIniciado, OnDiagnosticoConcluido,
     OnPecasReservadas, OnOrcamentoGerado, OnOrcamentoAprovado, OnCobrancaCriada,
     OnPagamentoConfirmado, OnBaixaConfirmada, OnReparoEnfileirado, OnReparoIniciado,
     OnExecucaoFinalizada
<1>3. ASSUME NEW s, NEW d, NEW n, WaitStep(s, d, n)
      PROVE  decision'.command = None /\ issued' = issued
  BY <1>3 DEF WaitStep, Decide
<1>4. ASSUME NEW c \in StepCommand, NEW s, SendStep(c, s)
      PROVE  decision'.command = c /\ issued' = issued \union {c}
  BY <1>4 DEF SendStep, Send, Decide
<1> QED
  BY <1>1, <1>2, <1>3, <1>4, StepSet, CommandKinds DEF SendsRightly

LEMMA UndoSends ==
  ASSUME UndoStep
  PROVE  SendsRightly
<1>1. PICK p \in Plan, f \in {"CANCELLED", "REJECTED"} :
           state \in Cancellable /\ Compensate(p, f)
  BY UndoIsCompensate
<1>2. ~Forward' /\ UNCHANGED issued
  BY <1>1, CompensateEffect, NotForwardAfterUndo
<1>3. decision'.command \in Compensation \union {None}
  <2>1. CASE p = << >>
    BY <1>1, <2>1 DEF Compensate, FinishCancelled, Decide
  <2>2. CASE p # << >>
    <3>1. Head(p) \in Compensation
      BY <2>2, PlanIsSeq
    <3> QED
      BY <1>1, <2>2, <3>1 DEF Compensate, Send, Decide
  <2> QED
    BY <2>1, <2>2
<1> QED
  BY <1>2, <1>3, StepSet, CommandKinds DEF SendsRightly

LEMMA ConfirmationSends ==
  ASSUME TypeOK, NEW e, OnConfirmation(e)
  PROVE  SendsRightly
<1>1. ~Forward' /\ UNCHANGED issued
  BY ConfirmationIsOne, ConfirmationEffect DEF Forward
<1>2. decision'.command \in Compensation \union {None}
  <2>1. CASE Tail(pending_compensations) = << >>
    BY <2>1 DEF OnConfirmation, FinishCancelled, Decide
  <2>2. CASE Tail(pending_compensations) # << >>
    <3>1. Head(Tail(pending_compensations)) \in Compensation
      BY <2>2 DEF OnConfirmation, Confirms, TypeOK
    <3> QED
      BY <2>2, <3>1 DEF OnConfirmation, Send, Decide
  <2> QED
    BY <2>1, <2>2
<1> QED
  BY <1>1, <1>2, StepSet, CommandKinds DEF SendsRightly

\* A resend is of the command that is awaited, which was issued before.
LEMMA ResendSends ==
  ASSUME IndInv, state \in AWAITING_REPLY_STATES, NEW n, Resend(n)
  PROVE  SendsRightly
<1>1. decision'.command = last_command /\ UNCHANGED <<state, issued>>
  BY DEF Resend, Decide
<1>2. CASE state = "COMPENSATING"
  <2>1. last_command \in Compensation
    BY <1>2 DEF IndInv, ResendsTheAwaitedCommand, TypeOK
  <2> QED
    BY <1>1, <1>2, <2>1, StepSet, CommandKinds DEF SendsRightly, Forward
<1>3. CASE state # "COMPENSATING"
  <2>1. last_command = AWAITED_COMMAND[state]
    BY <1>3 DEF IndInv, ResendsTheAwaitedCommand
  <2>2. last_command \in Undoable => last_command \in issued
    BY <1>3, <2>1, StepSet DEF IndInv, ForwardFacts, Forward, AWAITING_REPLY_STATES, RANK,
       AWAITED_COMMAND
  <2>3. last_command \in Step
    BY <1>3, <2>1, StepSet DEF AWAITING_REPLY_STATES, AWAITED_COMMAND
  <2> QED
    BY <1>1, <2>2, <2>3, CommandKinds DEF SendsRightly, Forward
<1> QED
  BY <1>2, <1>3

LEMMA QuietSends ==
  ASSUME DecideNothing, UNCHANGED <<state, issued>>
  PROVE  SendsRightly
BY StepSet, CommandKinds DEF DecideNothing, SendsRightly, Forward

LEMMA SagaSends ==
  ASSUME IndInv, SagaStep
  PROVE  SendsRightly
<1>1. TypeOK
  BY DEF IndInv
<1>2. ASSUME NEW e, Handler(e)
      PROVE  SendsRightly
  <2>1. FlowStep \/ UndoStep
    BY <1>2 DEF Handler, FlowStep, UndoStep
  <2> QED
    BY <2>1, FlowSends, UndoSends
<1>3. ASSUME NEW e, Ignore(e)
      PROVE  SendsRightly
  BY <1>3, QuietSends DEF Ignore, sagaVars, historyVars
<1>4. CASE OnDeadline
  <2>1. CASE DeadlineOfClient \/ DeadlineGivesUp
    BY <2>1, UndoSends DEF UndoStep
  <2>2. CASE DeadlineResends
    BY <2>2, ResendSends DEF DeadlineResends
  <2>3. CASE DeadlineParks
    BY <2>3, QuietSends DEF DeadlineParks, historyVars
  <2> QED
    BY <1>4, <2>1, <2>2, <2>3 DEF OnDeadline
<1>5. CASE Retry
  BY <1>5, ResendSends DEF Retry
<1> QED
  BY <1>1, <1>2, <1>3, <1>4, <1>5, ConfirmationSends DEF SagaStep

-----------------------------------------------------------------------------
(* Steps of the saga: it sends commands and hears events, and the effects  *)
(* at the participants are as they were.                                   *)

SagaPart == (\E e \in Event : Receive(e)) \/ Deadline \/ AdminRetries

\* Nothing is told by hearing it, and nothing is confirmed that was not told.
LEMMA HearsWhatWasTold ==
  ASSUME TypeOK, SagaPart
  PROVE  /\ SagaStep /\ SendsCommands
         /\ UNCHANGED <<stage, acts>>
         /\ events' \subseteq events
         /\ \A x : Told(x)' => Told(x)
         /\ \A c \in Compensation :
              COMPENSATION_CONFIRMATIONS[c] \in events' \/ c \in ConfirmedSet' =>
                COMPENSATION_CONFIRMATIONS[c] \in events \/ c \in ConfirmedSet
<1>1. ASSUME NEW e \in Event, Receive(e)
      PROVE  /\ e \in events /\ events' = events \ {e}
             /\ answered' \subseteq answered \union {e}
             /\ \/ UNCHANGED confirmed
                \/ /\ confirmed' = Append(confirmed, Head(pending_compensations))
                   /\ COMPENSATION_CONFIRMATIONS[Head(pending_compensations)] = e
  BY <1>1, HandlerAnswers DEF Receive, OnConfirmation, Confirms, Ignore, historyVars
<1>2. ASSUME Deadline \/ AdminRetries
      PROVE  UNCHANGED <<events, answered, confirmed>>
  BY <1>2 DEF Deadline, AdminRetries, OnDeadline, DeadlineOfClient, DeadlineResends,
     DeadlineParks, DeadlineGivesUp, Retry, Resend, Compensate, historyVars
<1>3. /\ SagaStep /\ SendsCommands
      /\ UNCHANGED <<stage, acts>>
      /\ events' \subseteq events
  BY <1>1, <1>2 DEF SagaPart, Receive, Deadline, AdminRetries, SagaStep, participantVars
<1>4. \A x : Told(x)' => Told(x)
  BY <1>1, <1>2 DEF SagaPart, Told
<1>5. \/ ConfirmedSet' = ConfirmedSet
      \/ \E c : /\ COMPENSATION_CONFIRMATIONS[c] \in events
                /\ ConfirmedSet' = ConfirmedSet \union {c}
  <2>1. CASE UNCHANGED confirmed
    BY <2>1 DEF ConfirmedSet
  <2>2. CASE \E e \in events :
               /\ confirmed' = Append(confirmed, Head(pending_compensations))
               /\ COMPENSATION_CONFIRMATIONS[Head(pending_compensations)] = e
    <3>1. confirmed \in Seq(Compensation)
      BY DEF TypeOK
    <3>2. ConfirmedSet' = ConfirmedSet \union {Head(pending_compensations)}
      BY <2>2, <3>1 DEF ConfirmedSet
    <3> QED
      BY <2>2, <3>2
  <2> QED
    BY <1>1, <1>2, <2>1, <2>2 DEF SagaPart
<1> QED
  BY <1>3, <1>4, <1>5

LEMMA SendsType ==
  ASSUME SystemTypeOK, TypeOK', SendsCommands
  PROVE  commands' \in [Command -> Nat]
BY DEF SystemTypeOK, SendsCommands, TypeOK

\* Only the command of the decision is sent.
LEMMA SendsOnlyThat ==
  ASSUME SystemTypeOK, SendsCommands, NEW c \in Command, c # decision'.command
  PROVE  commands'[c] = commands[c]
BY DEF SystemTypeOK, SendsCommands

LEMMA SagaPartKeeps ==
  ASSUME SystemInv, SagaPart
  PROVE  SystemInv'
<1>1. /\ IndInv /\ TypeOK
      /\ SagaStep /\ SendsCommands
      /\ UNCHANGED <<stage, acts>>
      /\ events' \subseteq events
      /\ \A x : Told(x)' => Told(x)
      /\ \A c \in Compensation :
           COMPENSATION_CONFIRMATIONS[c] \in events' \/ c \in ConfirmedSet' =>
             COMPENSATION_CONFIRMATIONS[c] \in events \/ c \in ConfirmedSet
  BY HearsWhatWasTold DEF SystemInv, IndInv
<1>2. IndInv' /\ TypeOK'
  BY <1>1, SagaStepIsNext, InvStep DEF IndInv
<1>3. SendsRightly
  BY <1>1, SagaSends
<1>4. SystemTypeOK'
  BY <1>1, <1>2, SendsType DEF SystemInv, SystemTypeOK
<1>5. ReportsAreTrue'
  BY <1>1 DEF SystemInv, ReportsAreTrue, WasDone, IsUndone
<1>6. OnlyIssuedIsDone'
  <2> SUFFICES ASSUME NEW s \in Undoable, s \notin issued'
               PROVE  commands'[s] = 0 /\ stage'[s] \in {"none", "undone"}
    BY DEF OnlyIssuedIsDone
  <2>1. s \notin issued /\ s # decision'.command /\ s \in Command
    BY <1>3, StepSet, CommandKinds DEF SendsRightly
  <2> QED
    BY <1>1, <2>1, SendsOnlyThat DEF SystemInv, OnlyIssuedIsDone
<1>7. ForwardUndoesNothing'
  <2> SUFFICES ASSUME Forward'
               PROVE  /\ \A c \in Compensation : commands'[c] = 0
                      /\ \A s \in Step : stage'[s] # "undone"
    BY DEF ForwardUndoesNothing
  <2>1. Forward /\ decision'.command \notin Compensation
    BY <1>3 DEF SendsRightly
  <2>2. ASSUME NEW c \in Compensation
        PROVE  commands'[c] = commands[c]
    BY <1>1, <2>1, CommandKinds, SendsOnlyThat DEF SystemInv
  <2> QED
    BY <1>1, <2>1, <2>2 DEF SystemInv, ForwardUndoesNothing
<1> QED
  BY <1>2, <1>4, <1>5, <1>6, <1>7 DEF SystemInv

-----------------------------------------------------------------------------
(* Steps of the participants and of people: the saga stays as it is.       *)

LEMMA IndInvStays ==
  ASSUME IndInv, UNCHANGED vars
  PROVE  /\ IndInv'
         /\ UNCHANGED <<issued, answered, ConfirmedSet, Forward>>
<1>1. IndInv'
  BY InvStep
<1> QED
  BY <1>1 DEF vars, sagaVars, historyVars, ConfirmedSet, Forward

LEMMA TakesOne ==
  ASSUME SystemTypeOK, NEW c \in Command, Takes(c)
  PROVE  /\ commands' \in [Command -> Nat]
         /\ commands[c] > 0
         /\ \A d \in Command : commands[d] = 0 => commands'[d] = 0
BY DEF SystemTypeOK, Takes

\* What a participant may do to a step, and what it may say of it.
LEMMA StepPerformed ==
  ASSUME SystemTypeOK, OnlyIssuedIsDone, NEW s \in Step,
         CarriesOut(s) \/ Refuses(s) \/ AnswersAgain(s)
  PROVE  /\ Takes(s) /\ UNCHANGED <<vars, acts>>
         /\ \E v \in {"done", "refused", stage[s]} :
              /\ stage' = [stage EXCEPT ![s] = v]
              /\ v # stage[s] => stage[s] = "none"
         /\ \/ stage'[s] = "done" /\ events' = events \union {Done[s]}
            \/ stage'[s] \in {"refused", "undone"} /\ events' = events \union {Failed[s]}
            \/ s \in RefusesResend /\ events' = events \union {Failed[s]}
<1> USE DEF SystemTypeOK, Stage
<1>1. CASE CarriesOut(s)
  BY <1>1 DEF CarriesOut, Answers
<1>2. CASE Refuses(s)
  BY <1>2 DEF Refuses, Answers
<1>3. CASE AnswersAgain(s)
  BY <1>3 DEF AnswersAgain, Answers, participantVars
<1> QED
  BY <1>1, <1>2, <1>3

LEMMA StepKeeps ==
  ASSUME SystemInv, NEW s \in Step,
         CarriesOut(s) \/ Refuses(s) \/ AnswersAgain(s)
  PROVE  SystemInv'
<1>1. PICK v \in {"done", "refused", stage[s]} :
        /\ stage' = [stage EXCEPT ![s] = v]
        /\ v # stage[s] => stage[s] = "none"
  BY StepPerformed DEF SystemInv
<1>2. /\ Takes(s) /\ UNCHANGED <<vars, acts>>
      /\ \/ stage'[s] = "done" /\ events' = events \union {Done[s]}
         \/ stage'[s] \in {"refused", "undone"} /\ events' = events \union {Failed[s]}
         \/ s \in RefusesResend /\ events' = events \union {Failed[s]}
  BY StepPerformed DEF SystemInv
<1>3. IndInv' /\ UNCHANGED <<issued, answered, ConfirmedSet, Forward>>
  BY <1>2, IndInvStays DEF SystemInv
<1>4. s \in Command /\ stage \in [Step -> Stage]
  BY CommandKinds DEF SystemInv, SystemTypeOK
<1>5. /\ \A t \in Step : WasDone(t) => WasDone(t)'
      /\ \A t \in Step : stage[t] \in {"refused", "undone"} => stage'[t] = stage[t]
      /\ \A t \in Step : stage'[t] = "undone" => stage[t] = "undone"
  BY <1>1, <1>4 DEF WasDone
<1>6. SystemTypeOK'
  <2>1. stage' \in [Step -> Stage]
    BY <1>1, <1>4 DEF Stage
  <2>2. events' \subseteq Event
    BY <1>2, AnswersAreDistinct DEF SystemInv, SystemTypeOK, Event
  <2> QED
    BY <1>2, <1>4, <2>1, <2>2, TakesOne DEF SystemInv, SystemTypeOK
<1>7. ReportsAreTrue'
  <2>1. ASSUME NEW t \in Step, Told(Done[t])'
        PROVE  WasDone(t)'
    BY <1>2, <1>3, <1>5, <2>1, AnswersAreDistinct DEF SystemInv, ReportsAreTrue, Told, WasDone
  <2>2. ASSUME NEW t \in Undoable \ RefusesResend, Told(Failed[t])'
        PROVE  stage'[t] \in {"refused", "undone"}
    BY <1>2, <1>3, <1>5, <2>2, AnswersAreDistinct, StepSet DEF SystemInv, ReportsAreTrue, Told
  <2>3. \A a \in DOMAIN Act : Told(a)' => a \in acts'
    BY <1>2, <1>3, AnswersAreDistinct DEF SystemInv, ReportsAreTrue, Told
  <2>4. \A a \in acts' : WasDone(Act[a].at)'
    BY <1>2, <1>5, ActPlace DEF SystemInv, ReportsAreTrue, SystemTypeOK
  <2>5. ASSUME NEW c \in Compensation,
               COMPENSATION_CONFIRMATIONS[c] \in events' \/ c \in ConfirmedSet'
        PROVE  IsUndone(c)'
    <3>1. IsUndone(c)
      BY <1>2, <1>3, <2>5, AnswersAreDistinct, ConfirmationsAreDistinct
         DEF SystemInv, ReportsAreTrue
    <3>2. Undoes[c] \subseteq Step
      BY StepSet DEF Undoable
    <3> QED
      BY <1>1, <1>4, <1>5, <3>1, <3>2, StepSet DEF IsUndone
  <2> QED
    BY <2>1, <2>2, <2>3, <2>4, <2>5 DEF ReportsAreTrue
<1>8. OnlyIssuedIsDone'
  <2>1. s \in Undoable => s \in issued
    BY <1>2, <1>4, TakesOne DEF SystemInv, OnlyIssuedIsDone
  <2> QED
    BY <1>1, <1>2, <1>3, <1>4, <2>1, TakesOne, StepSet, CommandKinds
       DEF SystemInv, OnlyIssuedIsDone
<1>9. ForwardUndoesNothing'
  BY <1>2, <1>3, <1>4, <1>5, TakesOne, CommandKinds DEF SystemInv, ForwardUndoesNothing
<1> QED
  BY <1>3, <1>6, <1>7, <1>8, <1>9 DEF SystemInv

\* A compensation leaves nothing behind but marks that its steps are undone.
LEMMA UndoEffect ==
  ASSUME SystemTypeOK, NEW c \in Compensation, Undo(c)
  PROVE  /\ Takes(c) /\ UNCHANGED <<vars, acts>>
         /\ events' = events \union {COMPENSATION_CONFIRMATIONS[c]}
         /\ stage' \in [Step -> Stage]
         /\ \A s \in Step : stage'[s] \in {stage[s], "undone"}
         /\ \A d \in Compensation : IsUndone(d) => IsUndone(d)'
         /\ IsUndone(c)'
<1> USE DEF SystemTypeOK, Stage
<1>1. /\ Takes(c) /\ UNCHANGED <<vars, acts>>
      /\ events' = events \union {COMPENSATION_CONFIRMATIONS[c]}
  BY DEF Undo, Answers
<1>2. \A d \in Compensation : Undoes[d] \subseteq Step
  BY StepSet DEF Undoable
<1>3. CASE c = "LiberarPecas" /\ stage["ConfirmarBaixa"] = "done"
  <2>1. stage' = stage
    BY <1>3 DEF Undo
  <2> QED
    BY <1>1, <1>3, <2>1 DEF IsUndone
<1>4. CASE ~(c = "LiberarPecas" /\ stage["ConfirmarBaixa"] = "done")
  <2>1. stage' = [s \in Step |-> IF s \in Undoes[c] THEN "undone" ELSE stage[s]]
    BY <1>4 DEF Undo
  <2>2. stage' \in [Step -> Stage] /\ \A s \in Step : stage'[s] \in {stage[s], "undone"}
    BY <2>1
  <2>3. \A s \in Undoes[c] : stage'[s] = "undone"
    BY <1>2, <2>1
  <2>4. c = "LiberarPecas" => stage'["ReservarPecas"] = "undone"
    BY <2>3 DEF Undoes
  <2>5. ASSUME IsUndone("LiberarPecas")
        PROVE  IsUndone("LiberarPecas")'
    <3>1. CASE "ConfirmarBaixa" \in Undoes[c]
      BY <2>3, <3>1, CommandSets DEF Undoes, IsUndone
    <3>2. CASE "ConfirmarBaixa" \notin Undoes[c]
      BY <2>1, <2>2, <2>5, <3>2, StepSet DEF IsUndone
    <3> QED
      BY <3>1, <3>2
  <2>6. ASSUME NEW d \in Compensation, d # "LiberarPecas", IsUndone(d)
        PROVE  IsUndone(d)'
    BY <1>2, <2>2, <2>6 DEF IsUndone
  <2>7. IsUndone(c)'
    BY <2>3, <2>4 DEF IsUndone
  <2> QED
    BY <1>1, <2>2, <2>5, <2>6, <2>7
<1> QED
  BY <1>3, <1>4

LEMMA UndoKeeps ==
  ASSUME SystemInv, NEW c \in Compensation, Undo(c)
  PROVE  SystemInv'
<1>1. /\ Takes(c) /\ UNCHANGED <<vars, acts>>
      /\ events' = events \union {COMPENSATION_CONFIRMATIONS[c]}
      /\ stage' \in [Step -> Stage]
      /\ \A s \in Step : stage'[s] \in {stage[s], "undone"}
      /\ \A d \in Compensation : IsUndone(d) => IsUndone(d)'
      /\ IsUndone(c)'
  BY UndoEffect DEF SystemInv
<1>2. IndInv' /\ UNCHANGED <<issued, answered, ConfirmedSet, Forward>>
  BY <1>1, IndInvStays DEF SystemInv
<1>3. c \in Command
  BY CommandKinds
<1>4. \A x \in FlowEvent : Told(x)' <=> Told(x)
  BY <1>1, <1>2, ConfirmationsAreDistinct DEF Told
<1>5. SystemTypeOK'
  <2>1. events' \subseteq Event
    BY <1>1, ConfirmationsAreDistinct DEF SystemInv, SystemTypeOK, Event
  <2> QED
    BY <1>1, <1>3, <2>1, TakesOne DEF SystemInv, SystemTypeOK
<1>6. ReportsAreTrue'
  <2>1. \A t \in Step : Told(Done[t])' => WasDone(t)'
    BY <1>1, <1>4, AnswersAreDistinct DEF SystemInv, ReportsAreTrue, WasDone
  <2>2. \A t \in Undoable \ RefusesResend :
          Told(Failed[t])' => stage'[t] \in {"refused", "undone"}
    BY <1>1, <1>4, AnswersAreDistinct, StepSet DEF SystemInv, ReportsAreTrue
  <2>3. \A a \in DOMAIN Act : Told(a)' => a \in acts'
    BY <1>1, <1>4, AnswersAreDistinct DEF SystemInv, ReportsAreTrue
  <2>4. \A a \in acts' : WasDone(Act[a].at)'
    BY <1>1, ActPlace DEF SystemInv, ReportsAreTrue, SystemTypeOK, WasDone
  <2>5. \A d \in Compensation :
          COMPENSATION_CONFIRMATIONS[d] \in events' \/ d \in ConfirmedSet' => IsUndone(d)'
    BY <1>1, <1>2, ConfirmationsAreDistinct DEF SystemInv, ReportsAreTrue
  <2> QED
    BY <2>1, <2>2, <2>3, <2>4, <2>5 DEF ReportsAreTrue
<1>7. OnlyIssuedIsDone'
  BY <1>1, <1>2, <1>3, TakesOne, StepSet, CommandKinds DEF SystemInv, OnlyIssuedIsDone
<1>8. ForwardUndoesNothing'
  BY <1>1, <1>2, <1>3, TakesOne DEF SystemInv, ForwardUndoesNothing
<1> QED
  BY <1>2, <1>5, <1>6, <1>7, <1>8 DEF SystemInv

LEMMA ActsKeeps ==
  ASSUME SystemInv, NEW a \in DOMAIN Act, Acts(a)
  PROVE  SystemInv'
<1>1. /\ UNCHANGED <<vars, commands, stage>>
      /\ acts' = acts \union {a} /\ events' = events \union {a}
      /\ stage[Act[a].at] = "done"
  BY DEF Acts, Answers
<1>2. IndInv' /\ UNCHANGED <<issued, answered, ConfirmedSet, Forward>>
  BY <1>1, IndInvStays DEF SystemInv
<1>3. SystemTypeOK'
  BY <1>1, AnswersAreDistinct DEF SystemInv, SystemTypeOK, Event
<1>4. ReportsAreTrue'
  <2>1. \A x : x # a => (Told(x)' <=> Told(x))
    BY <1>1, <1>2 DEF Told
  <2>2. \A t \in Step : Told(Done[t])' => WasDone(t)'
    BY <1>1, <2>1, AnswersAreDistinct DEF SystemInv, ReportsAreTrue, WasDone
  <2>3. \A t \in Undoable \ RefusesResend :
          Told(Failed[t])' => stage'[t] \in {"refused", "undone"}
    BY <1>1, <2>1, AnswersAreDistinct, StepSet DEF SystemInv, ReportsAreTrue
  <2>4. \A b \in DOMAIN Act : Told(b)' => b \in acts'
    BY <1>1, <2>1 DEF SystemInv, ReportsAreTrue
  <2>5. \A b \in acts' : WasDone(Act[b].at)'
    BY <1>1 DEF SystemInv, ReportsAreTrue, WasDone
  <2>6. \A d \in Compensation :
          COMPENSATION_CONFIRMATIONS[d] \in events' \/ d \in ConfirmedSet' => IsUndone(d)'
    BY <1>1, <1>2, AnswersAreDistinct, ConfirmationsAreDistinct
       DEF SystemInv, ReportsAreTrue, IsUndone
  <2> QED
    BY <2>2, <2>3, <2>4, <2>5, <2>6 DEF ReportsAreTrue
<1>5. OnlyIssuedIsDone' /\ ForwardUndoesNothing'
  BY <1>1, <1>2 DEF SystemInv, OnlyIssuedIsDone, ForwardUndoesNothing
<1> QED
  BY <1>2, <1>3, <1>4, <1>5 DEF SystemInv

-----------------------------------------------------------------------------

LEMMA SystemInvInit ==
  ASSUME SystemInit
  PROVE  SystemInv
<1>1. IndInv
  BY InvInit DEF SystemInit
<1>2. /\ last_command = "EnfileirarDiagnostico"
      /\ issued = {"EnfileirarDiagnostico"} /\ answered = {} /\ ConfirmedSet = {}
  BY DEF SystemInit, Init, ConfirmedSet
<1>3. SystemTypeOK
  BY DEF SystemInit, SystemTypeOK, Stage
<1>4. ReportsAreTrue
  BY <1>2 DEF SystemInit, ReportsAreTrue, Told
<1>5. OnlyIssuedIsDone
  BY <1>2, StepSet, CommandKinds DEF SystemInit, OnlyIssuedIsDone
<1>6. ForwardUndoesNothing
  BY <1>2, StepSet, CommandKinds DEF SystemInit, ForwardUndoesNothing
<1> QED
  BY <1>1, <1>3, <1>4, <1>5, <1>6 DEF SystemInv

LEMMA SystemInvStep ==
  ASSUME SystemInv, [SystemNext]_systemVars
  PROVE  SystemInv'
<1>1. CASE SagaPart
  BY <1>1, SagaPartKeeps
<1>2. ASSUME NEW c \in Command, Perform(c)
      PROVE  SystemInv'
  BY <1>2, StepKeeps, UndoKeeps DEF Perform
<1>3. ASSUME NEW a \in DOMAIN Act, Acts(a)
      PROVE  SystemInv'
  BY <1>3, ActsKeeps
<1>4. CASE UNCHANGED systemVars
  <2>1. /\ UNCHANGED <<commands, events, stage, acts>>
        /\ IndInv' /\ UNCHANGED <<issued, answered, ConfirmedSet, Forward>>
    BY <1>4, IndInvStays DEF systemVars, participantVars, SystemInv
  <2> QED
    BY <2>1 DEF SystemInv, SystemTypeOK, ReportsAreTrue, OnlyIssuedIsDone,
       ForwardUndoesNothing, Told, WasDone, IsUndone
<1> QED
  BY <1>1, <1>2, <1>3, <1>4 DEF SystemNext, SagaPart

\* What the saga knows and what the participants did agree, whatever was lost,
\* delayed, resent or refused on the way: app/saga/application/orchestrator.py
\* with the contract of docs/saga.md.
THEOREM SystemInvHolds == SystemSpec => []SystemInv
<1>1. SystemInit => SystemInv
  BY SystemInvInit
<1>2. SystemInv /\ [SystemNext]_systemVars => SystemInv'
  BY SystemInvStep
<1> QED
  BY <1>1, <1>2, PTL DEF SystemSpec

\* The saga among its participants is a saga: what is true of every behaviour
\* of ServiceOrderSaga, where any event may come at any time, is true of it.
THEOREM SystemImplementsSaga == SystemSpec => Spec
<1>1. SystemInit => Init
  BY DEF SystemInit
<1>2. SystemInv /\ [SystemNext]_systemVars => [Next]_vars
  <2> SUFFICES ASSUME SystemInv, [SystemNext]_systemVars
               PROVE  [Next]_vars
    OBVIOUS
  <2>1. TypeOK
    BY DEF SystemInv, IndInv
  <2>2. CASE SagaPart
    BY <2>1, <2>2, HearsWhatWasTold, SagaStepIsNext
  <2>3. ASSUME NEW c \in Command, Perform(c)
        PROVE  UNCHANGED vars
    BY <2>3 DEF Perform, CarriesOut, Refuses, AnswersAgain, Undo
  <2>4. ASSUME NEW a \in DOMAIN Act, Acts(a)
        PROVE  UNCHANGED vars
    BY <2>4 DEF Acts
  <2>5. CASE UNCHANGED systemVars
    BY <2>5 DEF systemVars
  <2> QED
    BY <2>2, <2>3, <2>4, <2>5 DEF SystemNext, SagaPart
<1> QED
  BY <1>1, <1>2, SystemInvHolds, PTL DEF SystemSpec, Spec

\* Nobody repairs for free, whatever was lost or came late: a repair that runs
\* or ran was paid for, nothing of the payment was given back, and its parts
\* are withdrawn.
THEOREM RepairIsReallyPaidHolds == SystemSpec => []RepairIsReallyPaid
<1>1. SystemInv => RepairIsReallyPaid
  <2> SUFFICES ASSUME SystemInv, state \in {"IN_REPAIR", "COMPLETED"}
               PROVE  Paid /\ stage["ConfirmarBaixa"] = "done"
    BY DEF RepairIsReallyPaid
  <2>1. Forward /\ {"PagamentoConfirmado", "BaixaConfirmada"} \subseteq answered
    BY DEF Forward, SystemInv, IndInv, ForwardFacts, RANK
  <2>2. \A s \in Step : stage[s] # "undone"
    BY <2>1 DEF SystemInv, ForwardUndoesNothing
  <2>3. stage["ConfirmarBaixa"] = "done"
    <3>1. WasDone("ConfirmarBaixa")
      BY <2>1, StepSet DEF SystemInv, ReportsAreTrue, Told, Done
    <3> QED
      BY <2>2, <3>1, StepSet DEF WasDone
  <2>4. "PagamentoConfirmado" \in acts
    BY <2>1, ActSet DEF SystemInv, ReportsAreTrue, Told
  <2>5. stage["CriarCobranca"] = "done"
    <3>1. WasDone("CriarCobranca")
      BY <2>4 DEF SystemInv, ReportsAreTrue, Act
    <3> QED
      BY <2>2, <3>1, StepSet DEF WasDone
  <2> QED
    BY <2>3, <2>4, <2>5 DEF Paid
<1> QED
  BY <1>1, SystemInvHolds, PTL

-----------------------------------------------------------------------------
(* A cancelled order.                                                      *)

\* When it is cancelled the whole plan was confirmed.
LEMMA PlannedIsUndone ==
  ASSUME SystemInv, state = "CANCELLED", NEW c \in Compensation, Planned(c)
  PROVE  IsUndone(c)
<1>1. confirmed = plan
  BY PlanIsSeq DEF SystemInv, IndInv, TypeOK, CompensatesInOrder
<1>2. c \in ConfirmedSet
  BY <1>1 DEF Planned, Occurs, ConfirmedSet
<1> QED
  BY <1>2 DEF SystemInv, ReportsAreTrue

\* A step that was done and not refused is undone by one of the plan.
LEMMA DoneWasIssued ==
  ASSUME SystemInv, NEW s \in Undoable, stage[s] = "done"
  PROVE  s \in issued /\ (s \notin RefusesResend => Failed[s] \notin answered)
BY DEF SystemInv, OnlyIssuedIsDone, ReportsAreTrue, Told

LEMMA ReservationIsLeftToNobody ==
  ASSUME SystemInv, state = "CANCELLED", ~Misreported("ReservarPecas"),
         stage["ReservarPecas"] = "done"
  PROVE  stage["ConfirmarBaixa"] = "done"
<1>1. "ReservarPecas" \in issued /\ "ReservaRecusada" \notin answered
  BY DoneWasIssued, StepSet DEF Misreported, Failed
<1>2. Planned("LiberarPecas") \/ Planned("DevolverPecas")
  BY <1>1 DEF SystemInv, IndInv, UndoingFacts, PlanCoversSent, Forward
<1>3. IsUndone("LiberarPecas") \/ IsUndone("DevolverPecas")
  BY <1>2, PlannedIsUndone, CommandSets
<1> QED
  BY <1>3 DEF IsUndone, Undoes

LEMMA QuoteIsLeftToNobody ==
  ASSUME SystemInv, state = "CANCELLED", ~Misreported("GerarOrcamento"),
         stage["GerarOrcamento"] = "done"
  PROVE  "OrcamentoRecusado" \in acts
<1>1. "GerarOrcamento" \in issued /\ "OrcamentoFalhou" \notin answered
  BY DoneWasIssued, StepSet DEF Misreported, Failed
<1>2. "OrcamentoRecusado" \in answered \/ Planned("CancelarOrcamento")
  BY <1>1 DEF SystemInv, IndInv, UndoingFacts, PlanCoversSent, Forward
<1>3. Planned("CancelarOrcamento") => stage["GerarOrcamento"] = "undone"
  BY PlannedIsUndone, CommandSets DEF IsUndone, Undoes
<1> QED
  BY <1>2, <1>3, ActSet DEF SystemInv, ReportsAreTrue, Told

LEMMA ChargeIsLeftToNobody ==
  ASSUME SystemInv, state = "CANCELLED", ~Misreported("CriarCobranca")
  PROVE  stage["CriarCobranca"] # "done"
<1> SUFFICES ASSUME stage["CriarCobranca"] = "done"
             PROVE  FALSE
  OBVIOUS
<1>1. "CriarCobranca" \in issued /\ "CobrancaFalhou" \notin answered
  BY DoneWasIssued, StepSet DEF Misreported, Failed
<1>2. Planned("CancelarCobranca") \/ Planned("EstornarPagamento")
  BY <1>1 DEF SystemInv, IndInv, UndoingFacts, PlanCoversSent, Forward
<1>3. IsUndone("CancelarCobranca") \/ IsUndone("EstornarPagamento")
  BY <1>2, PlannedIsUndone, CommandSets
<1> QED
  BY <1>3 DEF IsUndone, Undoes

\* A cancelled order leaves no reservation, open quote or charge with anybody,
\* whichever steps are refused when they are resent: the only exception is one
\* whose participant carried it out and had the saga believe that it did not.
THEOREM NothingLeftStandingHolds == SystemSpec => []NothingLeftStanding
<1>1. SystemInv => NothingLeftStanding
  BY ReservationIsLeftToNobody, QuoteIsLeftToNobody, ChargeIsLeftToNobody
     DEF NothingLeftStanding
<1> QED
  BY <1>1, SystemInvHolds, PTL
=============================================================================
