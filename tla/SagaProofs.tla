------------------------------ MODULE SagaProofs ------------------------------
EXTENDS SagaInvariant, TLAPS

-----------------------------------------------------------------------------
(* The constant sets, element by element.                                  *)

LEMMA CommandSets ==
  /\ Compensation = {"LiberarPecas", "DevolverPecas", "CancelarOrcamento",
                     "CancelarCobranca", "EstornarPagamento"}
  /\ StepCommand = {"EnfileirarDiagnostico", "EnfileirarReparo", "ReservarPecas",
                    "ConfirmarBaixa", "GerarOrcamento", "CriarCobranca"}
  /\ Command = Compensation \union StepCommand
BY DEF Compensation, StepCommand, Command, COMMAND_DESTINATIONS,
       COMPENSATION_CONFIRMATIONS

LEMMA FlowEventSet ==
  FlowEvent = {
    "DiagnosticoEnfileirado", "DiagnosticoIniciado", "DiagnosticoConcluido",
    "PecasReservadas", "ReservaRecusada", "OrcamentoGerado", "OrcamentoFalhou",
    "OrcamentoAprovado", "OrcamentoRecusado", "CobrancaCriada", "CobrancaFalhou",
    "PagamentoConfirmado", "PagamentoRecusado", "BaixaConfirmada", "BaixaFalhou",
    "ReparoEnfileirado", "EnfileiramentoFalhou", "ReparoIniciado",
    "ExecucaoFinalizada"}
BY DEF FlowEvent, ACCEPTED_IN

LEMMA PlanIsSeq == \A p \in Plan : p \in Seq(Compensation)
<1>1. ASSUME NEW a \in Compensation, NEW b \in Compensation, NEW c \in Compensation
      PROVE  {<< >>, <<a>>, <<a, b>>, <<a, b, c>>} \subseteq Seq(Compensation)
  OBVIOUS
<1> QED
  BY <1>1, CommandSets DEF Plan

LEMMA TimeoutPlan ==
  \A s \in AWAITING_REPLY_STATES \ {"COMPENSATING"} : TIMEOUT_COMPENSATIONS[s] \in Plan
BY DEF AWAITING_REPLY_STATES, TIMEOUT_COMPENSATIONS, Plan

-----------------------------------------------------------------------------
(* Type correctness.                                                       *)

LEMMA SendType ==
  ASSUME TypeOK, NEW c \in Command, NEW s \in SagaState, Send(c, s)
  PROVE  /\ state' \in SagaState
         /\ last_command' \in Command \union {None}
         /\ attempts' \in 0..MaxAttempts
         /\ deadline_at' \in {None, "reply", "approval", "payment"}
         /\ decision' \in [command : Command \union {None},
                           notify_finished : BOOLEAN, ignored : BOOLEAN]
BY BoundsAssumption DEF Send, Decide

LEMMA WaitType ==
  ASSUME NEW s \in SagaState, NEW d \in {None, "reply", "approval", "payment"},
         Wait(s, d)
  PROVE  /\ state' \in SagaState
         /\ last_command' \in Command \union {None}
         /\ attempts' \in 0..MaxAttempts
         /\ deadline_at' \in {None, "reply", "approval", "payment"}
BY BoundsAssumption DEF Wait

LEMMA DecideType ==
  ASSUME NEW c \in Command \union {None}, NEW n \in BOOLEAN, Decide(c, n)
  PROVE  decision' \in [command : Command \union {None},
                        notify_finished : BOOLEAN, ignored : BOOLEAN]
BY DEF Decide

LEMMA FinishCancelledType ==
  ASSUME TypeOK, NEW f \in {None, "CANCELLED", "REJECTED"}, FinishCancelled(f)
  PROVE  /\ state' \in SagaState
         /\ last_command' \in Command \union {None}
         /\ attempts' \in 0..MaxAttempts
         /\ deadline_at' \in {None, "reply", "approval", "payment"}
         /\ decision' \in [command : Command \union {None},
                           notify_finished : BOOLEAN, ignored : BOOLEAN]
         /\ status' \in ServiceOrderStatus
         /\ stamps' \subseteq {"quote_sent_at", "approved_at", "paid_at", "started_at",
                               "finished_at", "delivered_at", "cancelled_at"}
<1>1. Wait("CANCELLED", None) /\ Decide(None, FALSE)
  BY DEF FinishCancelled
<1>2. "CANCELLED" \in SagaState
  BY DEF SagaState
<1>3. /\ status' \in ServiceOrderStatus
      /\ stamps' \subseteq {"quote_sent_at", "approved_at", "paid_at", "started_at",
                            "finished_at", "delivered_at", "cancelled_at"}
  BY DEF FinishCancelled, OrderChange, TypeOK, ServiceOrderStatus, None
<1> QED
  BY <1>1, <1>2, <1>3, WaitType, DecideType

LEMMA CompensateType ==
  ASSUME TypeOK, NEW p \in Plan, NEW f \in {"CANCELLED", "REJECTED"},
         Compensate(p, f), answered' \subseteq FlowEvent
  PROVE  TypeOK'
<1>1. p \in Seq(Compensation)
  BY PlanIsSeq
<1>2. /\ final_status' \in {None, "CANCELLED", "REJECTED"}
      /\ pending_compensations' \in Seq(Compensation)
      /\ plan' \in Plan
      /\ UNCHANGED <<data, issued, confirmed, retries>>
  BY <1>1 DEF Compensate
<1>3. CASE p = << >>
  <2>1. FinishCancelled(f)
    BY <1>3 DEF Compensate
  <2> QED
    BY <1>2, <2>1, FinishCancelledType DEF TypeOK
<1>4. CASE p # << >>
  <2>1. Send(Head(p), "COMPENSATING") /\ UNCHANGED <<status, stamps>>
    BY <1>4 DEF Compensate, NoOrderChange, orderVars
  <2>2. Head(p) \in Command /\ "COMPENSATING" \in SagaState
    BY <1>1, <1>4, CommandSets DEF SagaState
  <2> QED
    BY <1>2, <2>1, <2>2, SendType DEF TypeOK
<1> QED
  BY <1>3, <1>4

LEMMA StepType ==
  ASSUME TypeOK, NEW e \in FlowEvent, Accept(e)
  PROVE  answered' \subseteq FlowEvent
BY DEF Accept, TypeOK

LEMMA SendStepType ==
  ASSUME TypeOK, NEW c \in StepCommand, NEW s \in SagaState, SendStep(c, s),
         answered' \subseteq FlowEvent,
         data' \subseteq {"customer", "vehicle", "problem_description", "diagnosis",
                         "reservation_id", "quote", "charge"},
         NEW f \in ServiceOrderStatus \union {None},
         NEW k \in SUBSET {"approved_at", "paid_at"},
         OrderChange(f, k) \/ NoOrderChange
  PROVE  TypeOK'
<1>1. c \in Command
  BY CommandSets
<1>2. Send(c, s) /\ issued' \subseteq StepCommand
  BY DEF SendStep, TypeOK
<1>3. UNCHANGED <<pending_compensations, final_status, plan, confirmed, retries>>
  BY DEF SendStep
<1>4. /\ status' \in ServiceOrderStatus
      /\ stamps' \subseteq {"quote_sent_at", "approved_at", "paid_at", "started_at",
                            "finished_at", "delivered_at", "cancelled_at"}
  BY DEF OrderChange, NoOrderChange, orderVars, TypeOK
<1> QED
  BY <1>1, <1>2, <1>3, <1>4, SendType DEF TypeOK

LEMMA WaitStepType ==
  ASSUME TypeOK, NEW s \in SagaState, NEW d \in {None, "reply", "approval", "payment"},
         NEW n \in BOOLEAN, WaitStep(s, d, n),
         answered' \subseteq FlowEvent,
         data' \subseteq {"customer", "vehicle", "problem_description", "diagnosis",
                         "reservation_id", "quote", "charge"},
         NEW f \in ServiceOrderStatus \union {None},
         NEW k \in SUBSET {"quote_sent_at", "started_at", "finished_at"},
         OrderChange(f, k) \/ NoOrderChange
  PROVE  TypeOK'
<1>1. Wait(s, d) /\ Decide(None, n)
  BY DEF WaitStep
<1>2. UNCHANGED <<pending_compensations, final_status, issued, plan, confirmed, retries>>
  BY DEF WaitStep
<1>3. /\ status' \in ServiceOrderStatus
      /\ stamps' \subseteq {"quote_sent_at", "approved_at", "paid_at", "started_at",
                            "finished_at", "delivered_at", "cancelled_at"}
  BY DEF OrderChange, NoOrderChange, orderVars, TypeOK
<1> QED
  BY <1>1, <1>2, <1>3, WaitType, DecideType DEF TypeOK

LEMMA TypeStep == TypeOK /\ [Next]_vars => TypeOK'
<1> SUFFICES ASSUME TypeOK, [Next]_vars PROVE TypeOK'
  OBVIOUS
<1>a. /\ \A s \in {"AWAITING_DIAGNOSIS", "RESERVING_PARTS", "GENERATING_QUOTE",
                   "AWAITING_APPROVAL", "CREATING_CHARGE", "AWAITING_PAYMENT",
                   "CONFIRMING_WITHDRAWAL", "ENQUEUING_REPAIR", "IN_REPAIR",
                   "COMPLETED"} : s \in SagaState
      /\ \A s \in {"IN_DIAGNOSIS", "WAITING_APPROVAL", "WAITING_PAYMENT",
                   "IN_PROGRESS", "FINISHED", "DELIVERED"} : s \in ServiceOrderStatus
  BY DEF SagaState, ServiceOrderStatus
<1>1. CASE OnDiagnosticoEnfileirado
  BY <1>1, <1>a, StepType, WaitStepType, FlowEventSet DEF OnDiagnosticoEnfileirado, TypeOK
<1>2. CASE OnDiagnosticoIniciado
  BY <1>2, <1>a, StepType, WaitStepType, FlowEventSet DEF OnDiagnosticoIniciado, TypeOK
<1>3. CASE OnOrcamentoGerado
  BY <1>3, <1>a, StepType, WaitStepType, FlowEventSet DEF OnOrcamentoGerado, TypeOK
<1>4. CASE OnCobrancaCriada
  BY <1>4, <1>a, StepType, WaitStepType, FlowEventSet DEF OnCobrancaCriada, TypeOK
<1>5. CASE OnReparoEnfileirado
  BY <1>5, <1>a, StepType, WaitStepType, FlowEventSet DEF OnReparoEnfileirado, TypeOK
<1>6. CASE OnReparoIniciado
  BY <1>6, <1>a, StepType, WaitStepType, FlowEventSet DEF OnReparoIniciado, TypeOK
<1>7. CASE OnExecucaoFinalizada
  BY <1>7, <1>a, StepType, WaitStepType, FlowEventSet DEF OnExecucaoFinalizada, TypeOK
<1>8. CASE OnDiagnosticoConcluido
  BY <1>8, <1>a, StepType, SendStepType, FlowEventSet, CommandSets DEF OnDiagnosticoConcluido, TypeOK
<1>9. CASE OnPecasReservadas
  BY <1>9, <1>a, StepType, SendStepType, FlowEventSet, CommandSets DEF OnPecasReservadas, TypeOK
<1>10. CASE OnOrcamentoAprovado
  BY <1>10, <1>a, StepType, SendStepType, FlowEventSet, CommandSets DEF OnOrcamentoAprovado, TypeOK
<1>11. CASE OnPagamentoConfirmado
  BY <1>11, <1>a, StepType, SendStepType, FlowEventSet, CommandSets DEF OnPagamentoConfirmado, TypeOK
<1>12. CASE OnBaixaConfirmada
  BY <1>12, <1>a, StepType, SendStepType, FlowEventSet, CommandSets DEF OnBaixaConfirmada, TypeOK
<1>13. CASE OnReservaRecusada
  BY <1>13, StepType, CompensateType, FlowEventSet DEF OnReservaRecusada, Plan
<1>14. CASE OnOrcamentoFalhou
  BY <1>14, StepType, CompensateType, FlowEventSet DEF OnOrcamentoFalhou, Plan
<1>15. CASE OnOrcamentoRecusado
  BY <1>15, StepType, CompensateType, FlowEventSet DEF OnOrcamentoRecusado, Plan
<1>16. CASE OnCobrancaFalhou
  BY <1>16, StepType, CompensateType, FlowEventSet DEF OnCobrancaFalhou, Plan
<1>17. CASE OnPagamentoRecusado
  BY <1>17, StepType, CompensateType, FlowEventSet DEF OnPagamentoRecusado, Plan
<1>18. CASE OnBaixaFalhou
  BY <1>18, StepType, CompensateType, FlowEventSet DEF OnBaixaFalhou, Plan
<1>19. CASE OnEnfileiramentoFalhou
  BY <1>19, StepType, CompensateType, FlowEventSet DEF OnEnfileiramentoFalhou, Plan
<1>20. ASSUME NEW e \in Confirmation, OnConfirmation(e)
       PROVE  TypeOK'
  <2>1. /\ pending_compensations # << >>
        /\ pending_compensations \in Seq(Compensation)
        /\ confirmed' \in Seq(Compensation)
        /\ pending_compensations' \in Seq(Compensation)
        /\ UNCHANGED <<final_status, data, issued, answered, plan, retries>>
    BY <1>20 DEF OnConfirmation, Confirms, TypeOK
  <2>2. CASE Tail(pending_compensations) = << >>
    <3>1. FinishCancelled(final_status) /\ final_status \in {None, "CANCELLED", "REJECTED"}
      BY <1>20, <2>2 DEF OnConfirmation, TypeOK
    <3> QED
      BY <2>1, <3>1, FinishCancelledType DEF TypeOK
  <2>3. CASE Tail(pending_compensations) # << >>
    <3>1. /\ Send(Head(Tail(pending_compensations)), "COMPENSATING")
          /\ UNCHANGED <<status, stamps>>
      BY <1>20, <2>3 DEF OnConfirmation, NoOrderChange, orderVars
    <3>2. Head(Tail(pending_compensations)) \in Command /\ "COMPENSATING" \in SagaState
      BY <2>1, <2>3, CommandSets DEF SagaState
    <3> QED
      BY <2>1, <3>1, <3>2, SendType DEF TypeOK
  <2> QED
    BY <2>2, <2>3
<1>21. ASSUME NEW e \in Event, Ignore(e)
       PROVE  TypeOK'
  BY <1>21 DEF Ignore, DecideNothing, sagaVars, orderVars, historyVars, TypeOK
<1>22. CASE OnDeadline
  <2>1. CASE DeadlineOfClient
    BY <2>1, CompensateType DEF DeadlineOfClient, Plan, TypeOK
  <2>2. CASE DeadlineResends /\ last_command # None
    BY <2>2, BoundsAssumption DEF DeadlineResends, Resend, Decide, orderVars, TypeOK
  <2>3. CASE DeadlineParks
    BY <2>3 DEF DeadlineParks, DecideNothing, orderVars, historyVars, TypeOK
  <2>4. CASE DeadlineGivesUp
    BY <2>4, TimeoutPlan, CompensateType DEF DeadlineGivesUp, TypeOK
  <2> QED
    BY <1>22, <2>1, <2>2, <2>3, <2>4 DEF OnDeadline
<1>23. CASE Retry
  BY <1>23, BoundsAssumption DEF Retry, Resend, Decide, orderVars, TypeOK
<1>24. CASE Deliver
  BY <1>24, <1>a DEF Deliver, OrderChange, sagaVars, historyVars, TypeOK
<1>25. CASE UNCHANGED vars
  BY <1>25 DEF vars, sagaVars, orderVars, historyVars, TypeOK
<1> QED
  BY <1>1, <1>2, <1>3, <1>4, <1>5, <1>6, <1>7, <1>8, <1>9, <1>10, <1>11, <1>12, <1>13,
     <1>14, <1>15, <1>16, <1>17, <1>18, <1>19, <1>20, <1>21, <1>22, <1>23, <1>24, <1>25
     DEF Next, Handle, Diagnosis, Stock, Quote, Payment, Repair

LEMMA TypeInit == Init => TypeOK
<1> SUFFICES ASSUME Init PROVE TypeOK
  OBVIOUS
<1>1. "EnfileirarDiagnostico" \in Command /\ {"EnfileirarDiagnostico"} \subseteq StepCommand
  BY CommandSets
<1> QED
  BY <1>1, BoundsAssumption DEF Init, TypeOK, SagaState, ServiceOrderStatus, Plan

\* Every column of the saga and of the order keeps to its type.
THEOREM TypeCorrect == Spec => []TypeOK
BY TypeInit, TypeStep, PTL DEF Spec

-----------------------------------------------------------------------------
(* Every step has one of four shapes: a step of the flow, the start of the *)
(* undoing, the confirmation of a compensation, or one that leaves the     *)
(* progress of the saga alone.                                             *)

FlowStep == \/ OnDiagnosticoEnfileirado \/ OnDiagnosticoIniciado
            \/ OnDiagnosticoConcluido \/ OnPecasReservadas \/ OnOrcamentoGerado
            \/ OnOrcamentoAprovado \/ OnCobrancaCriada \/ OnPagamentoConfirmado
            \/ OnBaixaConfirmada \/ OnReparoEnfileirado \/ OnReparoIniciado
            \/ OnExecucaoFinalizada

UndoStep == \/ OnReservaRecusada \/ OnOrcamentoFalhou \/ OnOrcamentoRecusado
            \/ OnCobrancaFalhou \/ OnPagamentoRecusado \/ OnBaixaFalhou
            \/ OnEnfileiramentoFalhou \/ DeadlineOfClient \/ DeadlineGivesUp

progressVars == <<state, pending_compensations, final_status, last_command, issued,
                  answered, plan, confirmed>>

QuietStep == /\ UNCHANGED progressVars
             /\ \/ UNCHANGED <<attempts, deadline_at>>
                \/ /\ state \in AWAITING_REPLY_STATES
                   /\ deadline_at' = "reply"
                   /\ attempts' >= 1
                \/ /\ state = "COMPENSATING"
                   /\ deadline_at' = None
                   /\ attempts' = MaxAttempts
             /\ \/ UNCHANGED <<status, stamps>>
                \/ /\ status = "FINISHED"
                   /\ status' = "DELIVERED"
                   /\ stamps' = stamps \union {"delivered_at"}

LEMMA StepShapes ==
  ASSUME TypeOK, [Next]_vars
  PROVE  \/ FlowStep
         \/ UndoStep
         \/ \E e \in Confirmation : OnConfirmation(e)
         \/ QuietStep
<1>1. ASSUME NEW e \in Event, Ignore(e) PROVE QuietStep
  BY <1>1 DEF Ignore, sagaVars, orderVars, historyVars, QuietStep, progressVars
<1>2. ASSUME OnDeadline PROVE UndoStep \/ QuietStep
  <2>1. CASE DeadlineResends
    BY <2>1 DEF DeadlineResends, Resend, orderVars, QuietStep, progressVars, TypeOK
  <2>2. CASE DeadlineParks
    BY <2>2, BoundsAssumption DEF DeadlineParks, orderVars, historyVars, QuietStep,
       progressVars, TypeOK
  <2> QED
    BY <1>2, <2>1, <2>2 DEF OnDeadline, UndoStep
<1>3. CASE Retry
  BY <1>3 DEF Retry, Resend, orderVars, QuietStep, progressVars
<1>4. CASE Deliver
  BY <1>4 DEF Deliver, OrderChange, sagaVars, historyVars, QuietStep, progressVars, None
<1>5. CASE UNCHANGED vars
  BY <1>5 DEF vars, sagaVars, orderVars, historyVars, QuietStep, progressVars
<1> QED
  BY <1>1, <1>2, <1>3, <1>4, <1>5
     DEF Next, Handle, Diagnosis, Stock, Quote, Payment, Repair, FlowStep, UndoStep

\* The states from which the undoing can start: neither a mechanic's, where
\* there is no deadline and no refusal, nor the repair or later.
Cancellable == {"ENQUEUING_DIAGNOSIS", "RESERVING_PARTS", "GENERATING_QUOTE",
                "AWAITING_APPROVAL", "CREATING_CHARGE", "AWAITING_PAYMENT",
                "CONFIRMING_WITHDRAWAL", "ENQUEUING_REPAIR"}

LEMMA UndoIsCompensate ==
  ASSUME UndoStep
  PROVE  /\ state \in Cancellable
         /\ \E p \in Plan, f \in {"CANCELLED", "REJECTED"} :
              /\ Compensate(p, f)
              /\ state = "ENQUEUING_DIAGNOSIS" => p = << >>
<1>1. CASE OnReservaRecusada
  BY <1>1 DEF OnReservaRecusada, Accept, Expected, ACCEPTED_IN, Cancellable, Plan
<1>2. CASE OnOrcamentoFalhou
  BY <1>2 DEF OnOrcamentoFalhou, Accept, Expected, ACCEPTED_IN, Cancellable, Plan
<1>3. CASE OnOrcamentoRecusado
  BY <1>3 DEF OnOrcamentoRecusado, Accept, Expected, ACCEPTED_IN, Cancellable, Plan
<1>4. CASE OnCobrancaFalhou
  BY <1>4 DEF OnCobrancaFalhou, Accept, Expected, ACCEPTED_IN, Cancellable, Plan
<1>5. CASE OnPagamentoRecusado
  BY <1>5 DEF OnPagamentoRecusado, Accept, Expected, ACCEPTED_IN, Cancellable, Plan
<1>6. CASE OnBaixaFalhou
  BY <1>6 DEF OnBaixaFalhou, Accept, Expected, ACCEPTED_IN, Cancellable, Plan
<1>7. CASE OnEnfileiramentoFalhou
  BY <1>7 DEF OnEnfileiramentoFalhou, Accept, Expected, ACCEPTED_IN, Cancellable, Plan
<1>8. CASE DeadlineOfClient
  BY <1>8 DEF DeadlineOfClient, Cancellable, Plan
<1>9. CASE DeadlineGivesUp
  BY <1>9, TimeoutPlan
     DEF DeadlineGivesUp, AWAITING_REPLY_STATES, TIMEOUT_COMPENSATIONS, Cancellable
<1> QED
  BY <1>1, <1>2, <1>3, <1>4, <1>5, <1>6, <1>7, <1>8, <1>9 DEF UndoStep

\* Where the undoing leads, and what it does to the row.
LEMMA CompensateEffect ==
  ASSUME NEW p \in Plan, NEW f \in {"CANCELLED", "REJECTED"}, Compensate(p, f)
  PROVE  /\ plan' = p /\ pending_compensations' = p /\ final_status' = f
         /\ UNCHANGED <<issued, confirmed>>
         /\ \/ /\ p = << >>
               /\ state' = "CANCELLED" /\ status' = f
               /\ stamps' = stamps \union {"cancelled_at"}
               /\ last_command' = None /\ deadline_at' = None
            \/ /\ p # << >>
               /\ state' = "COMPENSATING" /\ UNCHANGED <<status, stamps>>
               /\ last_command' = Head(p) /\ deadline_at' = "reply" /\ attempts' = 1
BY DEF Compensate, FinishCancelled, Wait, Send, OrderChange, NoOrderChange, orderVars, None

\* Likewise for the confirmation of a compensation.
LEMMA ConfirmationEffect ==
  ASSUME TypeOK, NEW e \in Confirmation, OnConfirmation(e)
  PROVE  /\ state = "COMPENSATING" /\ pending_compensations # << >>
         /\ confirmed' = Append(confirmed, Head(pending_compensations))
         /\ pending_compensations' = Tail(pending_compensations)
         /\ UNCHANGED <<final_status, issued, answered, plan>>
         /\ \/ /\ pending_compensations' = << >>
               /\ state' = "CANCELLED"
               /\ status' = IF final_status = None THEN "CANCELLED" ELSE final_status
               /\ stamps' = stamps \union {"cancelled_at"}
               /\ last_command' = None /\ deadline_at' = None
            \/ /\ pending_compensations' # << >>
               /\ state' = "COMPENSATING" /\ UNCHANGED <<status, stamps>>
               /\ last_command' = Head(pending_compensations')
               /\ deadline_at' = "reply" /\ attempts' = 1
BY DEF OnConfirmation, Confirms, FinishCancelled, Wait, Send, OrderChange, NoOrderChange,
       orderVars, None

-----------------------------------------------------------------------------
(* The status of the order.                                                *)

LEMMA StatusStep ==
  ASSUME TypeOK, StatusFollowsState, [Next]_vars
  PROVE  StatusFollowsState'
<1>1. CASE FlowStep
  <2>1. CASE OnDiagnosticoEnfileirado
    BY <2>1 DEF OnDiagnosticoEnfileirado, Accept, Expected, ACCEPTED_IN, WaitStep, Wait, OrderChange,
       NoOrderChange, orderVars, StatusFollowsState, DOCUMENTED_STATUS, None
  <2>2. CASE OnDiagnosticoIniciado
    BY <2>2 DEF OnDiagnosticoIniciado, Accept, Expected, ACCEPTED_IN, WaitStep, Wait, OrderChange,
       NoOrderChange, orderVars, StatusFollowsState, DOCUMENTED_STATUS, None
  <2>3. CASE OnDiagnosticoConcluido
    BY <2>3 DEF OnDiagnosticoConcluido, Accept, Expected, ACCEPTED_IN, SendStep, Send, OrderChange,
       NoOrderChange, orderVars, StatusFollowsState, DOCUMENTED_STATUS, None
  <2>4. CASE OnPecasReservadas
    BY <2>4 DEF OnPecasReservadas, Accept, Expected, ACCEPTED_IN, SendStep, Send, OrderChange,
       NoOrderChange, orderVars, StatusFollowsState, DOCUMENTED_STATUS, None
  <2>5. CASE OnOrcamentoGerado
    BY <2>5 DEF OnOrcamentoGerado, Accept, Expected, ACCEPTED_IN, WaitStep, Wait, OrderChange,
       NoOrderChange, orderVars, StatusFollowsState, DOCUMENTED_STATUS, None
  <2>6. CASE OnOrcamentoAprovado
    BY <2>6 DEF OnOrcamentoAprovado, Accept, Expected, ACCEPTED_IN, SendStep, Send, OrderChange,
       NoOrderChange, orderVars, StatusFollowsState, DOCUMENTED_STATUS, None
  <2>7. CASE OnCobrancaCriada
    BY <2>7 DEF OnCobrancaCriada, Accept, Expected, ACCEPTED_IN, WaitStep, Wait, OrderChange,
       NoOrderChange, orderVars, StatusFollowsState, DOCUMENTED_STATUS, None
  <2>8. CASE OnPagamentoConfirmado
    BY <2>8 DEF OnPagamentoConfirmado, Accept, Expected, ACCEPTED_IN, SendStep, Send, OrderChange,
       NoOrderChange, orderVars, StatusFollowsState, DOCUMENTED_STATUS, None
  <2>9. CASE OnBaixaConfirmada
    BY <2>9 DEF OnBaixaConfirmada, Accept, Expected, ACCEPTED_IN, SendStep, Send, OrderChange,
       NoOrderChange, orderVars, StatusFollowsState, DOCUMENTED_STATUS, None
  <2>10. CASE OnReparoEnfileirado
    BY <2>10 DEF OnReparoEnfileirado, Accept, Expected, ACCEPTED_IN, WaitStep, Wait, OrderChange,
       NoOrderChange, orderVars, StatusFollowsState, DOCUMENTED_STATUS, None
  <2>11. CASE OnReparoIniciado
    BY <2>11 DEF OnReparoIniciado, Accept, Expected, ACCEPTED_IN, WaitStep, Wait, OrderChange,
       NoOrderChange, orderVars, StatusFollowsState, DOCUMENTED_STATUS, None
  <2>12. CASE OnExecucaoFinalizada
    BY <2>12 DEF OnExecucaoFinalizada, Accept, Expected, ACCEPTED_IN, WaitStep, Wait, OrderChange,
       NoOrderChange, orderVars, StatusFollowsState, DOCUMENTED_STATUS, None
  <2> QED
    BY <1>1, <2>1, <2>2, <2>3, <2>4, <2>5, <2>6, <2>7, <2>8, <2>9, <2>10, <2>11, <2>12
       DEF FlowStep
<1>2. CASE UndoStep
  <2>1. PICK p \in Plan, f \in {"CANCELLED", "REJECTED"} :
             Compensate(p, f) /\ (state = "ENQUEUING_DIAGNOSIS" => p = << >>)
    BY <1>2, UndoIsCompensate
  <2>2. CASE p = << >>
    BY <2>1, <2>2, CompensateEffect DEF StatusFollowsState, DOCUMENTED_STATUS
  <2>3. CASE p # << >>
    <3>1. state' = "COMPENSATING" /\ UNCHANGED status
      BY <2>1, <2>3, CompensateEffect
    <3>2. status \in {"IN_DIAGNOSIS", "WAITING_APPROVAL", "WAITING_PAYMENT"}
      BY <1>2, <2>1, <2>3, UndoIsCompensate
         DEF Cancellable, StatusFollowsState, DOCUMENTED_STATUS
    <3> QED
      BY <3>1, <3>2 DEF StatusFollowsState, DOCUMENTED_STATUS
  <2> QED
    BY <2>2, <2>3
<1>3. CASE \E e \in Confirmation : OnConfirmation(e)
  BY <1>3, ConfirmationEffect DEF StatusFollowsState, DOCUMENTED_STATUS, TypeOK, None
<1>4. CASE QuietStep
  BY <1>4 DEF QuietStep, progressVars, StatusFollowsState, DOCUMENTED_STATUS, TypeOK, SagaState
<1> QED
  BY <1>1, <1>2, <1>3, <1>4, StepShapes

-----------------------------------------------------------------------------
(* Commands and deadlines.                                                 *)

LEMMA DeadlineStep ==
  ASSUME TypeOK, ResendsTheAwaitedCommand, NoSilentStall, [Next]_vars
  PROVE  ResendsTheAwaitedCommand' /\ NoSilentStall'
<1> USE DEF ResendsTheAwaitedCommand, NoSilentStall, Parked, AWAITING_REPLY_STATES,
            TERMINAL_STATES, None
<1>1. CASE FlowStep
  <2>1. CASE OnDiagnosticoEnfileirado
    BY <2>1 DEF OnDiagnosticoEnfileirado, Accept, Expected, ACCEPTED_IN, WaitStep, Wait, AWAITED_COMMAND
  <2>2. CASE OnDiagnosticoIniciado
    BY <2>2 DEF OnDiagnosticoIniciado, Accept, Expected, ACCEPTED_IN, WaitStep, Wait, AWAITED_COMMAND
  <2>3. CASE OnDiagnosticoConcluido
    BY <2>3 DEF OnDiagnosticoConcluido, Accept, Expected, ACCEPTED_IN, SendStep, Send, AWAITED_COMMAND
  <2>4. CASE OnPecasReservadas
    BY <2>4 DEF OnPecasReservadas, Accept, Expected, ACCEPTED_IN, SendStep, Send, AWAITED_COMMAND
  <2>5. CASE OnOrcamentoGerado
    BY <2>5 DEF OnOrcamentoGerado, Accept, Expected, ACCEPTED_IN, WaitStep, Wait, AWAITED_COMMAND
  <2>6. CASE OnOrcamentoAprovado
    BY <2>6 DEF OnOrcamentoAprovado, Accept, Expected, ACCEPTED_IN, SendStep, Send, AWAITED_COMMAND
  <2>7. CASE OnCobrancaCriada
    BY <2>7 DEF OnCobrancaCriada, Accept, Expected, ACCEPTED_IN, WaitStep, Wait, AWAITED_COMMAND
  <2>8. CASE OnPagamentoConfirmado
    BY <2>8 DEF OnPagamentoConfirmado, Accept, Expected, ACCEPTED_IN, SendStep, Send, AWAITED_COMMAND
  <2>9. CASE OnBaixaConfirmada
    BY <2>9 DEF OnBaixaConfirmada, Accept, Expected, ACCEPTED_IN, SendStep, Send, AWAITED_COMMAND
  <2>10. CASE OnReparoEnfileirado
    BY <2>10 DEF OnReparoEnfileirado, Accept, Expected, ACCEPTED_IN, WaitStep, Wait, AWAITED_COMMAND
  <2>11. CASE OnReparoIniciado
    BY <2>11 DEF OnReparoIniciado, Accept, Expected, ACCEPTED_IN, WaitStep, Wait, AWAITED_COMMAND
  <2>12. CASE OnExecucaoFinalizada
    BY <2>12 DEF OnExecucaoFinalizada, Accept, Expected, ACCEPTED_IN, WaitStep, Wait, AWAITED_COMMAND
  <2> QED
    BY <1>1, <2>1, <2>2, <2>3, <2>4, <2>5, <2>6, <2>7, <2>8, <2>9, <2>10, <2>11, <2>12
       DEF FlowStep
<1>2. CASE UndoStep
  <2>1. PICK p \in Plan, f \in {"CANCELLED", "REJECTED"} : Compensate(p, f)
    BY <1>2, UndoIsCompensate
  <2> QED
    BY <2>1, CompensateEffect
<1>3. CASE \E e \in Confirmation : OnConfirmation(e)
  BY <1>3, ConfirmationEffect
<1>4. CASE QuietStep
  <2>1. UNCHANGED <<state, pending_compensations, last_command>>
    BY <1>4 DEF QuietStep, progressVars
  <2>2. ResendsTheAwaitedCommand'
    BY <2>1
  <2>3. state = "COMPENSATING" => last_command # None
    BY CommandSets DEF TypeOK
  <2>4. CASE UNCHANGED <<attempts, deadline_at>>
    BY <2>1, <2>2, <2>4
  <2>5. CASE /\ state \in AWAITING_REPLY_STATES
             /\ deadline_at' = "reply"
             /\ attempts' >= 1
    BY <2>1, <2>2, <2>5
  <2>6. CASE /\ state = "COMPENSATING"
             /\ deadline_at' = None
             /\ attempts' = MaxAttempts
    BY <2>1, <2>2, <2>3, <2>6
  <2> QED
    BY <1>4, <2>4, <2>5, <2>6 DEF QuietStep
<1> QED
  BY <1>1, <1>2, <1>3, <1>4, StepShapes

-----------------------------------------------------------------------------
(* The forward facts, and the order of the compensations.                  *)

LEMMA NotForwardAfterUndo ==
  ASSUME NEW p \in Plan, NEW f \in {"CANCELLED", "REJECTED"}, Compensate(p, f)
  PROVE  ~Forward'
BY CompensateEffect DEF Forward

LEMMA ForwardStep ==
  ASSUME TypeOK, ForwardFacts, [Next]_vars
  PROVE  ForwardFacts'
<1>1. CASE FlowStep
  <2>1. CASE OnDiagnosticoEnfileirado
    BY <2>1 DEF OnDiagnosticoEnfileirado, Accept, Expected, ACCEPTED_IN, WaitStep, Wait, OrderChange,
       NoOrderChange, orderVars, ForwardFacts, Forward, Failure, RANK
  <2>2. CASE OnDiagnosticoIniciado
    BY <2>2 DEF OnDiagnosticoIniciado, Accept, Expected, ACCEPTED_IN, WaitStep, Wait, OrderChange,
       NoOrderChange, orderVars, ForwardFacts, Forward, Failure, RANK
  <2>3. CASE OnDiagnosticoConcluido
    BY <2>3 DEF OnDiagnosticoConcluido, Accept, Expected, ACCEPTED_IN, SendStep, Send, OrderChange,
       NoOrderChange, orderVars, ForwardFacts, Forward, Failure, RANK
  <2>4. CASE OnPecasReservadas
    BY <2>4 DEF OnPecasReservadas, Accept, Expected, ACCEPTED_IN, SendStep, Send, OrderChange,
       NoOrderChange, orderVars, ForwardFacts, Forward, Failure, RANK
  <2>5. CASE OnOrcamentoGerado
    BY <2>5 DEF OnOrcamentoGerado, Accept, Expected, ACCEPTED_IN, WaitStep, Wait, OrderChange,
       NoOrderChange, orderVars, ForwardFacts, Forward, Failure, RANK
  <2>6. CASE OnOrcamentoAprovado
    BY <2>6 DEF OnOrcamentoAprovado, Accept, Expected, ACCEPTED_IN, SendStep, Send, OrderChange,
       NoOrderChange, orderVars, ForwardFacts, Forward, Failure, RANK
  <2>7. CASE OnCobrancaCriada
    BY <2>7 DEF OnCobrancaCriada, Accept, Expected, ACCEPTED_IN, WaitStep, Wait, OrderChange,
       NoOrderChange, orderVars, ForwardFacts, Forward, Failure, RANK
  <2>8. CASE OnPagamentoConfirmado
    BY <2>8 DEF OnPagamentoConfirmado, Accept, Expected, ACCEPTED_IN, SendStep, Send, OrderChange,
       NoOrderChange, orderVars, ForwardFacts, Forward, Failure, RANK
  <2>9. CASE OnBaixaConfirmada
    BY <2>9 DEF OnBaixaConfirmada, Accept, Expected, ACCEPTED_IN, SendStep, Send, OrderChange,
       NoOrderChange, orderVars, ForwardFacts, Forward, Failure, RANK
  <2>10. CASE OnReparoEnfileirado
    BY <2>10 DEF OnReparoEnfileirado, Accept, Expected, ACCEPTED_IN, WaitStep, Wait, OrderChange,
       NoOrderChange, orderVars, ForwardFacts, Forward, Failure, RANK
  <2>11. CASE OnReparoIniciado
    BY <2>11 DEF OnReparoIniciado, Accept, Expected, ACCEPTED_IN, WaitStep, Wait, OrderChange,
       NoOrderChange, orderVars, ForwardFacts, Forward, Failure, RANK
  <2>12. CASE OnExecucaoFinalizada
    BY <2>12 DEF OnExecucaoFinalizada, Accept, Expected, ACCEPTED_IN, WaitStep, Wait, OrderChange,
       NoOrderChange, orderVars, ForwardFacts, Forward, Failure, RANK
  <2> QED
    BY <1>1, <2>1, <2>2, <2>3, <2>4, <2>5, <2>6, <2>7, <2>8, <2>9, <2>10, <2>11, <2>12
       DEF FlowStep
<1>2. CASE UndoStep
  BY <1>2, UndoIsCompensate, NotForwardAfterUndo DEF ForwardFacts
<1>3. CASE \E e \in Confirmation : OnConfirmation(e)
  BY <1>3, ConfirmationEffect DEF ForwardFacts, Forward
<1>4. CASE QuietStep
  BY <1>4 DEF QuietStep, progressVars, ForwardFacts, Forward
<1> QED
  BY <1>1, <1>2, <1>3, <1>4, StepShapes

\* Moving the head of t to the end of s does not change s \o t.
LEMMA MoveHead ==
  ASSUME NEW S, NEW s \in Seq(S), NEW t \in Seq(S), t # << >>
  PROVE  Append(s, Head(t)) \o Tail(t) = s \o t
OBVIOUS

LEMMA OrderStep ==
  ASSUME TypeOK, ForwardFacts, CompensatesInOrder, [Next]_vars
  PROVE  CompensatesInOrder'
<1>1. CASE FlowStep
  <2>1. /\ Forward
        /\ state' # "CANCELLED"
        /\ UNCHANGED <<pending_compensations, plan, confirmed>>
    BY <1>1 DEF FlowStep, OnDiagnosticoEnfileirado, OnDiagnosticoIniciado,
       OnDiagnosticoConcluido, OnPecasReservadas, OnOrcamentoGerado, OnOrcamentoAprovado,
       OnCobrancaCriada, OnPagamentoConfirmado, OnBaixaConfirmada, OnReparoEnfileirado,
       OnReparoIniciado, OnExecucaoFinalizada, Accept, Expected, ACCEPTED_IN, WaitStep,
       Wait, SendStep, Send, Forward
  <2> QED
    BY <2>1 DEF CompensatesInOrder
<1>2. CASE UndoStep
  <2>1. PICK p \in Plan, f \in {"CANCELLED", "REJECTED"} : Compensate(p, f)
    BY <1>2, UndoIsCompensate
  <2>2. confirmed' = << >> /\ plan' = p /\ pending_compensations' = p
    BY <1>2, <2>1, UndoIsCompensate, CompensateEffect DEF ForwardFacts, Forward, Cancellable
  <2>3. state' = "CANCELLED" => p = << >>
    BY <2>1, CompensateEffect
  <2>4. p \in Seq(Compensation)
    BY PlanIsSeq
  <2> QED
    BY <2>2, <2>3, <2>4 DEF CompensatesInOrder
<1>3. CASE \E e \in Confirmation : OnConfirmation(e)
  <2>1. /\ pending_compensations # << >>
        /\ confirmed' = Append(confirmed, Head(pending_compensations))
        /\ pending_compensations' = Tail(pending_compensations)
        /\ UNCHANGED plan
        /\ state' = "CANCELLED" => pending_compensations' = << >>
    BY <1>3, ConfirmationEffect
  <2>2. confirmed \in Seq(Compensation) /\ pending_compensations \in Seq(Compensation)
    BY DEF TypeOK
  <2>3. confirmed' \o pending_compensations' = confirmed \o pending_compensations
    BY <2>1, <2>2, MoveHead
  <2> QED
    BY <2>1, <2>3 DEF CompensatesInOrder
<1>4. CASE QuietStep
  BY <1>4 DEF QuietStep, progressVars, CompensatesInOrder
<1> QED
  BY <1>1, <1>2, <1>3, <1>4, StepShapes

-----------------------------------------------------------------------------
(* The plan of the undoing covers what was done.                           *)

LEMMA PlanContents ==
  /\ Occurs("LiberarPecas", <<"LiberarPecas">>)
  /\ \A c \in {"CancelarOrcamento", "LiberarPecas"} :
       Occurs(c, <<"CancelarOrcamento", "LiberarPecas">>)
  /\ \A c \in {"CancelarCobranca", "CancelarOrcamento", "LiberarPecas"} :
       Occurs(c, <<"CancelarCobranca", "CancelarOrcamento", "LiberarPecas">>)
  /\ \A c \in {"EstornarPagamento", "CancelarOrcamento", "LiberarPecas"} :
       Occurs(c, <<"EstornarPagamento", "CancelarOrcamento", "LiberarPecas">>)
  /\ \A c \in {"EstornarPagamento", "CancelarOrcamento", "DevolverPecas"} :
       Occurs(c, <<"EstornarPagamento", "CancelarOrcamento", "DevolverPecas">>)
<1>1. ASSUME NEW a, NEW b, NEW c
      PROVE  /\ Occurs(a, <<a>>)
             /\ Occurs(a, <<a, b>>) /\ Occurs(b, <<a, b>>)
             /\ Occurs(a, <<a, b, c>>) /\ Occurs(b, <<a, b, c>>) /\ Occurs(c, <<a, b, c>>)
  BY DEF Occurs
<1> QED
  BY <1>1

\* What the start of the undoing leaves alone, whatever the plan.
LEMMA CompensateFrame ==
  ASSUME NEW p \in Plan, NEW f \in {"CANCELLED", "REJECTED"}, Compensate(p, f)
  PROVE  /\ plan' = p /\ final_status' = f /\ issued' = issued
         /\ {"approved_at", "paid_at"} \cap stamps' = {"approved_at", "paid_at"} \cap stamps
         /\ state' = "CANCELLED" => status' = f
BY CompensateEffect

\* A step that starts the undoing settles the verdict and plans enough.
LEMMA UndoCovers ==
  ASSUME TypeOK, ForwardFacts, UndoStep
  PROVE  UndoingFacts'
<1>1. /\ state \in Cancellable
      /\ Forward
  BY UndoIsCompensate DEF Cancellable, Forward
<1> USE PlanContents DEF Planned, PlanCoversSent, PlanCoversReported, Failure, None
<1>2. CASE OnReservaRecusada
  <2> DEFINE p == << >>
  <2>1. state = "RESERVING_PARTS" /\ p \in Plan /\ Compensate(p, "CANCELLED") /\ answered' = answered \union {"ReservaRecusada"}
    BY <1>2 DEF OnReservaRecusada, Accept, Expected, ACCEPTED_IN, Plan
  <2>2. /\ plan' = p /\ final_status' = "CANCELLED" /\ issued' = issued
        /\ {"approved_at", "paid_at"} \cap stamps' = {"approved_at", "paid_at"} \cap stamps
        /\ state' = "CANCELLED" => status' = "CANCELLED"
    BY <2>1, CompensateFrame
  <2> QED
    BY <1>1, <2>1, <2>2 DEF ForwardFacts, UndoingFacts, RANK
<1>3. CASE OnOrcamentoFalhou
  <2> DEFINE p == <<"LiberarPecas">>
  <2>1. state = "GENERATING_QUOTE" /\ p \in Plan /\ Compensate(p, "CANCELLED") /\ answered' = answered \union {"OrcamentoFalhou"}
    BY <1>3 DEF OnOrcamentoFalhou, Accept, Expected, ACCEPTED_IN, Plan
  <2>2. /\ plan' = p /\ final_status' = "CANCELLED" /\ issued' = issued
        /\ {"approved_at", "paid_at"} \cap stamps' = {"approved_at", "paid_at"} \cap stamps
        /\ state' = "CANCELLED" => status' = "CANCELLED"
    BY <2>1, CompensateFrame
  <2> QED
    BY <1>1, <2>1, <2>2 DEF ForwardFacts, UndoingFacts, RANK
<1>4. CASE OnOrcamentoRecusado
  <2> DEFINE p == <<"LiberarPecas">>
  <2>1. state = "AWAITING_APPROVAL" /\ p \in Plan /\ Compensate(p, "REJECTED") /\ answered' = answered \union {"OrcamentoRecusado"}
    BY <1>4 DEF OnOrcamentoRecusado, Accept, Expected, ACCEPTED_IN, Plan
  <2>2. /\ plan' = p /\ final_status' = "REJECTED" /\ issued' = issued
        /\ {"approved_at", "paid_at"} \cap stamps' = {"approved_at", "paid_at"} \cap stamps
        /\ state' = "CANCELLED" => status' = "REJECTED"
    BY <2>1, CompensateFrame
  <2> QED
    BY <1>1, <2>1, <2>2 DEF ForwardFacts, UndoingFacts, RANK
<1>5. CASE OnCobrancaFalhou
  <2> DEFINE p == <<"CancelarOrcamento", "LiberarPecas">>
  <2>1. state = "CREATING_CHARGE" /\ p \in Plan /\ Compensate(p, "CANCELLED") /\ answered' = answered \union {"CobrancaFalhou"}
    BY <1>5 DEF OnCobrancaFalhou, Accept, Expected, ACCEPTED_IN, Plan
  <2>2. /\ plan' = p /\ final_status' = "CANCELLED" /\ issued' = issued
        /\ {"approved_at", "paid_at"} \cap stamps' = {"approved_at", "paid_at"} \cap stamps
        /\ state' = "CANCELLED" => status' = "CANCELLED"
    BY <2>1, CompensateFrame
  <2> QED
    BY <1>1, <2>1, <2>2 DEF ForwardFacts, UndoingFacts, RANK
<1>6. CASE OnPagamentoRecusado
  <2> DEFINE p == <<"CancelarCobranca", "CancelarOrcamento", "LiberarPecas">>
  <2>1. state \in {"CREATING_CHARGE", "AWAITING_PAYMENT"} /\ p \in Plan /\ Compensate(p, "CANCELLED") /\ answered' = answered \union {"PagamentoRecusado"}
    BY <1>6 DEF OnPagamentoRecusado, Accept, Expected, ACCEPTED_IN, Plan
  <2>2. /\ plan' = p /\ final_status' = "CANCELLED" /\ issued' = issued
        /\ {"approved_at", "paid_at"} \cap stamps' = {"approved_at", "paid_at"} \cap stamps
        /\ state' = "CANCELLED" => status' = "CANCELLED"
    BY <2>1, CompensateFrame
  <2> QED
    BY <1>1, <2>1, <2>2 DEF ForwardFacts, UndoingFacts, RANK
<1>7. CASE OnBaixaFalhou
  <2> DEFINE p == <<"EstornarPagamento", "CancelarOrcamento", "LiberarPecas">>
  <2>1. state = "CONFIRMING_WITHDRAWAL" /\ p \in Plan /\ Compensate(p, "CANCELLED") /\ answered' = answered \union {"BaixaFalhou"}
    BY <1>7 DEF OnBaixaFalhou, Accept, Expected, ACCEPTED_IN, Plan
  <2>2. /\ plan' = p /\ final_status' = "CANCELLED" /\ issued' = issued
        /\ {"approved_at", "paid_at"} \cap stamps' = {"approved_at", "paid_at"} \cap stamps
        /\ state' = "CANCELLED" => status' = "CANCELLED"
    BY <2>1, CompensateFrame
  <2> QED
    BY <1>1, <2>1, <2>2 DEF ForwardFacts, UndoingFacts, RANK
<1>8. CASE OnEnfileiramentoFalhou /\ state = "ENQUEUING_DIAGNOSIS"
  <2> DEFINE p == << >>
  <2>1. state = "ENQUEUING_DIAGNOSIS" /\ p \in Plan /\ Compensate(p, "CANCELLED") /\ answered' = answered \union {"EnfileiramentoFalhou"}
    BY <1>8 DEF OnEnfileiramentoFalhou, Accept, Expected, ACCEPTED_IN, Plan
  <2>2. /\ plan' = p /\ final_status' = "CANCELLED" /\ issued' = issued
        /\ {"approved_at", "paid_at"} \cap stamps' = {"approved_at", "paid_at"} \cap stamps
        /\ state' = "CANCELLED" => status' = "CANCELLED"
    BY <2>1, CompensateFrame
  <2> QED
    BY <1>1, <2>1, <2>2 DEF ForwardFacts, UndoingFacts, RANK
<1>9. CASE OnEnfileiramentoFalhou /\ state = "ENQUEUING_REPAIR"
  <2> DEFINE p == <<"EstornarPagamento", "CancelarOrcamento", "DevolverPecas">>
  <2>1. state = "ENQUEUING_REPAIR" /\ p \in Plan /\ Compensate(p, "CANCELLED") /\ answered' = answered \union {"EnfileiramentoFalhou"}
    BY <1>9 DEF OnEnfileiramentoFalhou, Accept, Expected, ACCEPTED_IN, Plan
  <2>2. /\ plan' = p /\ final_status' = "CANCELLED" /\ issued' = issued
        /\ {"approved_at", "paid_at"} \cap stamps' = {"approved_at", "paid_at"} \cap stamps
        /\ state' = "CANCELLED" => status' = "CANCELLED"
    BY <2>1, CompensateFrame
  <2> QED
    BY <1>1, <2>1, <2>2 DEF ForwardFacts, UndoingFacts, RANK
<1>10. CASE DeadlineOfClient /\ state = "AWAITING_APPROVAL"
  <2> DEFINE p == <<"CancelarOrcamento", "LiberarPecas">>
  <2>1. state = "AWAITING_APPROVAL" /\ p \in Plan /\ Compensate(p, "CANCELLED") /\ answered' = answered 
    BY <1>10 DEF DeadlineOfClient, Plan
  <2>2. /\ plan' = p /\ final_status' = "CANCELLED" /\ issued' = issued
        /\ {"approved_at", "paid_at"} \cap stamps' = {"approved_at", "paid_at"} \cap stamps
        /\ state' = "CANCELLED" => status' = "CANCELLED"
    BY <2>1, CompensateFrame
  <2> QED
    BY <1>1, <2>1, <2>2 DEF ForwardFacts, UndoingFacts, RANK
<1>11. CASE DeadlineOfClient /\ state = "AWAITING_PAYMENT"
  <2> DEFINE p == <<"CancelarCobranca", "CancelarOrcamento", "LiberarPecas">>
  <2>1. state = "AWAITING_PAYMENT" /\ p \in Plan /\ Compensate(p, "CANCELLED") /\ answered' = answered 
    BY <1>11 DEF DeadlineOfClient, Plan
  <2>2. /\ plan' = p /\ final_status' = "CANCELLED" /\ issued' = issued
        /\ {"approved_at", "paid_at"} \cap stamps' = {"approved_at", "paid_at"} \cap stamps
        /\ state' = "CANCELLED" => status' = "CANCELLED"
    BY <2>1, CompensateFrame
  <2> QED
    BY <1>1, <2>1, <2>2 DEF ForwardFacts, UndoingFacts, RANK
<1>12. CASE DeadlineGivesUp /\ state = "ENQUEUING_DIAGNOSIS"
  <2> DEFINE p == << >>
  <2>1. state = "ENQUEUING_DIAGNOSIS" /\ p \in Plan /\ Compensate(p, "CANCELLED") /\ answered' = answered 
    BY <1>12 DEF DeadlineGivesUp, TIMEOUT_COMPENSATIONS, Plan
  <2>2. /\ plan' = p /\ final_status' = "CANCELLED" /\ issued' = issued
        /\ {"approved_at", "paid_at"} \cap stamps' = {"approved_at", "paid_at"} \cap stamps
        /\ state' = "CANCELLED" => status' = "CANCELLED"
    BY <2>1, CompensateFrame
  <2> QED
    BY <1>1, <2>1, <2>2 DEF ForwardFacts, UndoingFacts, RANK
<1>13. CASE DeadlineGivesUp /\ state = "RESERVING_PARTS"
  <2> DEFINE p == <<"LiberarPecas">>
  <2>1. state = "RESERVING_PARTS" /\ p \in Plan /\ Compensate(p, "CANCELLED") /\ answered' = answered 
    BY <1>13 DEF DeadlineGivesUp, TIMEOUT_COMPENSATIONS, Plan
  <2>2. /\ plan' = p /\ final_status' = "CANCELLED" /\ issued' = issued
        /\ {"approved_at", "paid_at"} \cap stamps' = {"approved_at", "paid_at"} \cap stamps
        /\ state' = "CANCELLED" => status' = "CANCELLED"
    BY <2>1, CompensateFrame
  <2> QED
    BY <1>1, <2>1, <2>2 DEF ForwardFacts, UndoingFacts, RANK
<1>14. CASE DeadlineGivesUp /\ state = "GENERATING_QUOTE"
  <2> DEFINE p == <<"CancelarOrcamento", "LiberarPecas">>
  <2>1. state = "GENERATING_QUOTE" /\ p \in Plan /\ Compensate(p, "CANCELLED") /\ answered' = answered 
    BY <1>14 DEF DeadlineGivesUp, TIMEOUT_COMPENSATIONS, Plan
  <2>2. /\ plan' = p /\ final_status' = "CANCELLED" /\ issued' = issued
        /\ {"approved_at", "paid_at"} \cap stamps' = {"approved_at", "paid_at"} \cap stamps
        /\ state' = "CANCELLED" => status' = "CANCELLED"
    BY <2>1, CompensateFrame
  <2> QED
    BY <1>1, <2>1, <2>2 DEF ForwardFacts, UndoingFacts, RANK
<1>15. CASE DeadlineGivesUp /\ state = "CREATING_CHARGE"
  <2> DEFINE p == <<"CancelarCobranca", "CancelarOrcamento", "LiberarPecas">>
  <2>1. state = "CREATING_CHARGE" /\ p \in Plan /\ Compensate(p, "CANCELLED") /\ answered' = answered 
    BY <1>15 DEF DeadlineGivesUp, TIMEOUT_COMPENSATIONS, Plan
  <2>2. /\ plan' = p /\ final_status' = "CANCELLED" /\ issued' = issued
        /\ {"approved_at", "paid_at"} \cap stamps' = {"approved_at", "paid_at"} \cap stamps
        /\ state' = "CANCELLED" => status' = "CANCELLED"
    BY <2>1, CompensateFrame
  <2> QED
    BY <1>1, <2>1, <2>2 DEF ForwardFacts, UndoingFacts, RANK
<1>16. CASE DeadlineGivesUp /\ state = "CONFIRMING_WITHDRAWAL"
  <2> DEFINE p == <<"EstornarPagamento", "CancelarOrcamento", "LiberarPecas">>
  <2>1. state = "CONFIRMING_WITHDRAWAL" /\ p \in Plan /\ Compensate(p, "CANCELLED") /\ answered' = answered 
    BY <1>16 DEF DeadlineGivesUp, TIMEOUT_COMPENSATIONS, Plan
  <2>2. /\ plan' = p /\ final_status' = "CANCELLED" /\ issued' = issued
        /\ {"approved_at", "paid_at"} \cap stamps' = {"approved_at", "paid_at"} \cap stamps
        /\ state' = "CANCELLED" => status' = "CANCELLED"
    BY <2>1, CompensateFrame
  <2> QED
    BY <1>1, <2>1, <2>2 DEF ForwardFacts, UndoingFacts, RANK
<1>17. CASE DeadlineGivesUp /\ state = "ENQUEUING_REPAIR"
  <2> DEFINE p == <<"EstornarPagamento", "CancelarOrcamento", "DevolverPecas">>
  <2>1. state = "ENQUEUING_REPAIR" /\ p \in Plan /\ Compensate(p, "CANCELLED") /\ answered' = answered 
    BY <1>17 DEF DeadlineGivesUp, TIMEOUT_COMPENSATIONS, Plan
  <2>2. /\ plan' = p /\ final_status' = "CANCELLED" /\ issued' = issued
        /\ {"approved_at", "paid_at"} \cap stamps' = {"approved_at", "paid_at"} \cap stamps
        /\ state' = "CANCELLED" => status' = "CANCELLED"
    BY <2>1, CompensateFrame
  <2> QED
    BY <1>1, <2>1, <2>2 DEF ForwardFacts, UndoingFacts, RANK
<1> QED
  BY <1>2, <1>3, <1>4, <1>5, <1>6, <1>7, <1>8, <1>9, <1>10, <1>11, <1>12, <1>13, <1>14, <1>15, <1>16, <1>17
     DEF UndoStep, OnEnfileiramentoFalhou, DeadlineOfClient, DeadlineGivesUp, AWAITING_REPLY_STATES

LEMMA UndoingStep ==
  ASSUME TypeOK, ForwardFacts, UndoingFacts, [Next]_vars
  PROVE  UndoingFacts'
<1>1. CASE FlowStep
  <2>1. Forward'
    BY <1>1 DEF FlowStep, OnDiagnosticoEnfileirado, OnDiagnosticoIniciado,
       OnDiagnosticoConcluido, OnPecasReservadas, OnOrcamentoGerado, OnOrcamentoAprovado,
       OnCobrancaCriada, OnPagamentoConfirmado, OnBaixaConfirmada, OnReparoEnfileirado,
       OnReparoIniciado, OnExecucaoFinalizada, WaitStep, Wait, SendStep, Send, Forward
  <2> QED
    BY <2>1 DEF UndoingFacts
<1>2. CASE UndoStep
  BY <1>2, UndoCovers
<1>3. CASE \E e \in Confirmation : OnConfirmation(e)
  <2>1. /\ ~Forward
        /\ UNCHANGED <<final_status, issued, answered, plan>>
        /\ {"approved_at", "paid_at"} \cap stamps' = {"approved_at", "paid_at"} \cap stamps
    BY <1>3, ConfirmationEffect DEF Forward
  <2>2. final_status # None => (state' = "CANCELLED" => status' = final_status)
    BY <1>3, ConfirmationEffect
  <2> QED
    BY <2>1, <2>2 DEF UndoingFacts, PlanCoversSent, PlanCoversReported, Planned
<1>4. CASE QuietStep
  <2>1. /\ UNCHANGED <<state, final_status, issued, answered, plan>>
        /\ {"approved_at", "paid_at"} \cap stamps' = {"approved_at", "paid_at"} \cap stamps
        /\ status' = status \/ status = "FINISHED"
    BY <1>4 DEF QuietStep, progressVars
  <2>2. ~Forward /\ state = "CANCELLED" => status' = status
    BY <2>1 DEF UndoingFacts, TypeOK, None
  <2> QED
    BY <2>1, <2>2
       DEF UndoingFacts, PlanCoversSent, PlanCoversReported, Planned, Forward
<1> QED
  BY <1>1, <1>2, <1>3, <1>4, StepShapes

-----------------------------------------------------------------------------
(* The inductive invariant.                                                *)

LEMMA InvInit == Init => IndInv
<1> SUFFICES ASSUME Init PROVE IndInv
  OBVIOUS
<1>1. TypeOK
  BY TypeInit
<1>2. StatusFollowsState
  BY DEF Init, StatusFollowsState, DOCUMENTED_STATUS
<1>3. ResendsTheAwaitedCommand /\ NoSilentStall
  BY DEF Init, ResendsTheAwaitedCommand, AWAITED_COMMAND, AWAITING_REPLY_STATES,
         NoSilentStall, None
<1>4. CompensatesInOrder
  BY DEF Init, CompensatesInOrder
<1>5. ForwardFacts /\ UndoingFacts
  BY DEF Init, ForwardFacts, UndoingFacts, Forward, RANK
<1> QED
  BY <1>1, <1>2, <1>3, <1>4, <1>5 DEF IndInv

LEMMA InvStep == IndInv /\ [Next]_vars => IndInv'
BY TypeStep, StatusStep, DeadlineStep, OrderStep, ForwardStep, UndoingStep DEF IndInv

\* The inductive invariant holds in every reachable state.
THEOREM IndInvHolds == Spec => []IndInv
BY InvInit, InvStep, PTL DEF Spec

-----------------------------------------------------------------------------
(* What follows from it.                                                   *)

\* The order's status is the one documented for the state of its saga.
THEOREM StatusFollowsStateHolds == Spec => []StatusFollowsState
<1>1. IndInv => StatusFollowsState
  BY DEF IndInv
<1> QED
  BY <1>1, IndInvHolds, PTL

\* A deadline or a retry resends the command whose answer is awaited.
THEOREM ResendsTheAwaitedCommandHolds == Spec => []ResendsTheAwaitedCommand
<1>1. IndInv => ResendsTheAwaitedCommand
  BY DEF IndInv
<1> QED
  BY <1>1, IndInvHolds, PTL

\* A saga with no deadline is over, with a mechanic, or parked for an admin.
THEOREM NoSilentStallHolds == Spec => []NoSilentStall
<1>1. IndInv => NoSilentStall
  BY DEF IndInv
<1> QED
  BY <1>1, IndInvHolds, PTL

\* Compensations are confirmed in the order of the plan, and all of them are
\* confirmed when the saga is CANCELLED.
THEOREM CompensatesInOrderHolds == Spec => []CompensatesInOrder
<1>1. IndInv => CompensatesInOrder
  BY DEF IndInv
<1> QED
  BY <1>1, IndInvHolds, PTL

\* In a cancelled saga the confirmed compensations are those of the plan.
LEMMA CancelledConfirmsPlan ==
  ASSUME TypeOK, CompensatesInOrder, state = "CANCELLED"
  PROVE  confirmed = plan
<1>1. confirmed \o << >> = confirmed
  BY DEF TypeOK
<1> QED
  BY <1>1 DEF CompensatesInOrder

\* A cancelled order has undone every reservation, quote, charge and payment
\* whose command was sent and not refused.
THEOREM SentEffectsUndoneHolds == Spec => []SentEffectsUndone
<1>1. IndInv => SentEffectsUndone
  <2> SUFFICES ASSUME IndInv, state = "CANCELLED"
               PROVE  SentEffectsUndone
    BY DEF SentEffectsUndone
  <2>1. \A c : Planned(c) => c \in ConfirmedSet
    BY CancelledConfirmsPlan DEF IndInv, Planned, Occurs, ConfirmedSet
  <2>2. PlanCoversSent
    BY DEF IndInv, UndoingFacts, Forward
  <2> QED
    BY <2>1, <2>2 DEF SentEffectsUndone, PlanCoversSent
<1> QED
  BY <1>1, IndInvHolds, PTL

\* An order ends REJECTED exactly when the customer refused the quote.
THEOREM RejectedOnlyByCustomerHolds == Spec => []RejectedOnlyByCustomer
<1>1. IndInv => RejectedOnlyByCustomer
  BY DEF IndInv, UndoingFacts, Forward, RejectedOnlyByCustomer
<1> QED
  BY <1>1, IndInvHolds, PTL

\* An order in repair was approved, paid and had its parts withdrawn.
THEOREM RepairIsPaidForHolds == Spec => []RepairIsPaidFor
<1>1. IndInv => RepairIsPaidFor
  <2> SUFFICES ASSUME IndInv, status \in {"IN_PROGRESS", "FINISHED", "DELIVERED"}
               PROVE  RepairIsPaidFor
    BY DEF RepairIsPaidFor
  <2>1. state \in {"IN_REPAIR", "COMPLETED"}
    BY DEF IndInv, TypeOK, SagaState, StatusFollowsState, DOCUMENTED_STATUS
  <2> QED
    BY <2>1 DEF IndInv, ForwardFacts, Forward, RANK, RepairIsPaidFor
<1> QED
  BY <1>1, IndInvHolds, PTL

\* The parts are the last thing a plan returns, and plans are followed in order.
THEOREM PartsReturnedLastHolds == Spec => []PartsReturnedLast
<1>1. ASSUME NEW p \in Plan, NEW i \in 1..Len(p), p[i] \in {"LiberarPecas", "DevolverPecas"}
      PROVE  i = Len(p)
  <2>1. CASE p = << >>
    BY <1>1, <2>1
  <2>2. CASE p = <<"LiberarPecas">>
    BY <1>1, <2>2
  <2>3. CASE p = <<"CancelarOrcamento", "LiberarPecas">>
    BY <1>1, <2>3
  <2>4. CASE p = <<"CancelarCobranca", "CancelarOrcamento", "LiberarPecas">>
    BY <1>1, <2>4
  <2>5. CASE p = <<"EstornarPagamento", "CancelarOrcamento", "LiberarPecas">>
    BY <1>1, <2>5
  <2>6. CASE p = <<"EstornarPagamento", "CancelarOrcamento", "DevolverPecas">>
    BY <1>1, <2>6
  <2> QED
    BY <2>1, <2>2, <2>3, <2>4, <2>5, <2>6 DEF Plan
<1>2. IndInv => PartsReturnedLast
  <2> SUFFICES ASSUME IndInv,
                      NEW i \in DOMAIN confirmed,
                      confirmed[i] \in {"LiberarPecas", "DevolverPecas"}
               PROVE  pending_compensations = << >>
    BY DEF PartsReturnedLast, ConfirmedSet
  <2>1. /\ confirmed \in Seq(Compensation) /\ pending_compensations \in Seq(Compensation)
        /\ plan \in Plan /\ confirmed \o pending_compensations = plan
    BY DEF IndInv, TypeOK, CompensatesInOrder
  <2>2. /\ i \in 1..Len(confirmed)
        /\ Len(plan) = Len(confirmed) + Len(pending_compensations)
        /\ plan[i] = confirmed[i]
    BY <2>1
  <2>3. i = Len(plan)
    <3>1. Len(confirmed) \in Nat /\ Len(pending_compensations) \in Nat
      BY <2>1
    <3> QED
      BY <1>1, <2>1, <2>2, <3>1
  <2>4. Len(pending_compensations) = 0
    BY <2>1, <2>2, <2>3
  <2> QED
    BY <2>1, <2>4
<1> QED
  BY <1>2, IndInvHolds, PTL

-----------------------------------------------------------------------------
(* What a step may never do.                                               *)

\* In a terminal state only Deliver and Ignore are possible.
LEMMA QuietAtTheEnd ==
  ASSUME TypeOK, state \in TERMINAL_STATES, [Next]_vars
  PROVE  UNCHANGED sagaVars
<1>1. \A e \in FlowEvent : ~Expected(e)
  BY DEF TERMINAL_STATES, Expected, ACCEPTED_IN, FlowEvent
<1>2. ~Handle \/ \E e \in Event : Ignore(e)
  BY <1>1, FlowEventSet
     DEF Handle, Diagnosis, Stock, Quote, Payment, Repair, Accept, OnConfirmation, Confirms,
         TERMINAL_STATES, OnDiagnosticoEnfileirado, OnDiagnosticoIniciado,
         OnDiagnosticoConcluido, OnPecasReservadas, OnReservaRecusada, OnOrcamentoGerado,
         OnOrcamentoFalhou, OnOrcamentoAprovado, OnOrcamentoRecusado, OnCobrancaCriada,
         OnCobrancaFalhou, OnPagamentoConfirmado, OnPagamentoRecusado, OnBaixaConfirmada,
         OnBaixaFalhou, OnReparoEnfileirado, OnEnfileiramentoFalhou, OnReparoIniciado,
         OnExecucaoFinalizada
<1> QED
  BY <1>2 DEF Next, OnDeadline, Retry, Deliver, Ignore, TERMINAL_STATES,
     AWAITING_REPLY_STATES, vars

\* The saga never goes back, leaves the repair only by completing it, and
\* never leaves its end.
THEOREM NeverMovesBackHolds == Spec => NeverMovesBack
<1> DEFINE Onward == /\ RANK[state'] >= RANK[state]
                     /\ state = "IN_REPAIR" => state' \in {"IN_REPAIR", "COMPLETED"}
                     /\ state \in TERMINAL_STATES => UNCHANGED sagaVars
<1>1. ASSUME TypeOK, [Next]_vars PROVE Onward \/ UNCHANGED vars
  <2>1. CASE FlowStep
    <3> USE DEF RANK, TERMINAL_STATES, Accept, Expected, ACCEPTED_IN
    <3>1. CASE OnDiagnosticoEnfileirado
      BY <3>1 DEF OnDiagnosticoEnfileirado, WaitStep, Wait
    <3>2. CASE OnDiagnosticoIniciado
      BY <3>2 DEF OnDiagnosticoIniciado, WaitStep, Wait
    <3>3. CASE OnDiagnosticoConcluido
      BY <3>3 DEF OnDiagnosticoConcluido, SendStep, Send
    <3>4. CASE OnPecasReservadas
      BY <3>4 DEF OnPecasReservadas, SendStep, Send
    <3>5. CASE OnOrcamentoGerado
      BY <3>5 DEF OnOrcamentoGerado, WaitStep, Wait
    <3>6. CASE OnOrcamentoAprovado
      BY <3>6 DEF OnOrcamentoAprovado, SendStep, Send
    <3>7. CASE OnCobrancaCriada
      BY <3>7 DEF OnCobrancaCriada, WaitStep, Wait
    <3>8. CASE OnPagamentoConfirmado
      BY <3>8 DEF OnPagamentoConfirmado, SendStep, Send
    <3>9. CASE OnBaixaConfirmada
      BY <3>9 DEF OnBaixaConfirmada, SendStep, Send
    <3>10. CASE OnReparoEnfileirado
      BY <3>10 DEF OnReparoEnfileirado, WaitStep, Wait
    <3>11. CASE OnReparoIniciado
      BY <3>11 DEF OnReparoIniciado, WaitStep, Wait
    <3>12. CASE OnExecucaoFinalizada
      BY <3>12 DEF OnExecucaoFinalizada, WaitStep, Wait
    <3> QED
      BY <2>1, <3>1, <3>2, <3>3, <3>4, <3>5, <3>6, <3>7, <3>8, <3>9, <3>10, <3>11, <3>12
         DEF FlowStep
  <2>2. CASE UndoStep
    <3>1. state \in Cancellable /\ state' \in {"COMPENSATING", "CANCELLED"}
      BY <2>2, UndoIsCompensate, CompensateEffect
    <3> QED
      BY <3>1 DEF Cancellable, RANK, TERMINAL_STATES
  <2>3. CASE \E e \in Confirmation : OnConfirmation(e)
    <3>1. state = "COMPENSATING" /\ state' \in {"COMPENSATING", "CANCELLED"}
      BY <1>1, <2>3, ConfirmationEffect
    <3> QED
      BY <3>1 DEF RANK, TERMINAL_STATES
  <2>4. CASE QuietStep
    <3>1. state' = state /\ RANK[state] \in Nat
      BY <1>1, <2>4 DEF QuietStep, progressVars, RANK, TypeOK, SagaState
    <3>2. state \in TERMINAL_STATES => UNCHANGED sagaVars
      BY <1>1, QuietAtTheEnd
    <3> QED
      BY <3>1, <3>2
  <2> QED
    BY <1>1, <2>1, <2>2, <2>3, <2>4, StepShapes
<1>2. TypeOK /\ [Next]_vars => [Onward]_vars
  BY <1>1
<1> QED
  BY <1>2, TypeCorrect, PTL DEF Spec, NeverMovesBack

-----------------------------------------------------------------------------
(* Refinement: the saga of one service order implements the business       *)
(* transaction of SagaTransaction, under the mapping heldBar, phaseBar of  *)
(* SagaProperties.                                                         *)

TransactionStep == Transaction!Next \/ UNCHANGED <<phaseBar, heldBar>>

LEMMA HeldIsEffects == heldBar \subseteq EFFECT
BY DEF heldBar, Stands, EFFECT

\* An effect stands if it was reported, and neither converted nor undone.
LEMMA HeldMembers ==
  /\ "reservation" \in heldBar <=> /\ "PecasReservadas" \in answered
                                   /\ "BaixaConfirmada" \notin answered
                                   /\ "LiberarPecas" \notin ConfirmedSet
  /\ "withdrawal" \in heldBar <=> /\ "BaixaConfirmada" \in answered
                                  /\ "DevolverPecas" \notin ConfirmedSet
  /\ "quote" \in heldBar <=> /\ "OrcamentoGerado" \in answered
                             /\ "OrcamentoRecusado" \notin answered
                             /\ "CancelarOrcamento" \notin ConfirmedSet
  /\ "charge" \in heldBar <=> /\ "CobrancaCriada" \in answered
                              /\ "PagamentoConfirmado" \notin answered
                              /\ "CancelarCobranca" \notin ConfirmedSet
  /\ "payment" \in heldBar <=> /\ "PagamentoConfirmado" \in answered
                               /\ "EstornarPagamento" \notin ConfirmedSet
BY DEF heldBar, Stands

\* The repair of a transaction that is no longer forward reports no effect.
RepairStep == OnReparoEnfileirado \/ OnReparoIniciado \/ OnExecucaoFinalizada

LEMMA RepairStepImplements ==
  ASSUME IndInv, RepairStep
  PROVE  TransactionStep
<1>1. /\ state \in {"ENQUEUING_REPAIR", "IN_REPAIR"}
      /\ state' \in {"IN_REPAIR", "COMPLETED"}
      /\ UNCHANGED confirmed
      /\ \E e \in {"ReparoEnfileirado", "ReparoIniciado", "ExecucaoFinalizada"} :
           answered' = answered \union {e}
  BY DEF RepairStep, OnReparoEnfileirado, OnReparoIniciado, OnExecucaoFinalizada, Accept,
     Expected, ACCEPTED_IN, WaitStep, Wait
<1>2. UNCHANGED ConfirmedSet
  BY <1>1 DEF ConfirmedSet
<1>3. heldBar' = heldBar
  BY <1>1, <1>2 DEF heldBar, Stands
<1>4. CASE state = "ENQUEUING_REPAIR"
  <2>1. {"PagamentoConfirmado", "BaixaConfirmada"} \subseteq answered /\ confirmed = << >>
    BY <1>4 DEF IndInv, ForwardFacts, Forward, RANK
  <2>2. {"payment", "withdrawal"} \subseteq heldBar
    BY <2>1, HeldMembers DEF ConfirmedSet
  <2>3. phaseBar = "forward" /\ phaseBar' \in {"committed", "done"}
    BY <1>1, <1>4 DEF phaseBar
  <2> QED
    BY <1>3, <2>2, <2>3 DEF TransactionStep, Transaction!Next, Transaction!Commit
<1>5. CASE state = "IN_REPAIR"
  <2>1. phaseBar = "committed" /\ phaseBar' \in {"committed", "done"}
    BY <1>1, <1>5 DEF phaseBar
  <2> QED
    BY <1>3, <2>1 DEF TransactionStep, Transaction!Next, Transaction!Finish
<1> QED
  BY <1>1, <1>4, <1>5

LEMMA FlowStepImplements ==
  ASSUME IndInv, FlowStep
  PROVE  TransactionStep
<1>1. CASE RepairStep
  BY <1>1, RepairStepImplements
<1>2. CASE ~RepairStep
  <2>1. /\ state \notin {"COMPENSATING", "CANCELLED", "COMPLETED", "IN_REPAIR"}
        /\ state' \notin {"COMPENSATING", "CANCELLED", "COMPLETED", "IN_REPAIR"}
    BY <1>2 DEF FlowStep, RepairStep, OnDiagnosticoEnfileirado, OnDiagnosticoIniciado,
       OnDiagnosticoConcluido, OnPecasReservadas, OnOrcamentoGerado, OnOrcamentoAprovado,
       OnCobrancaCriada, OnPagamentoConfirmado, OnBaixaConfirmada, Accept, Expected,
       ACCEPTED_IN, WaitStep, Wait, SendStep, Send
  <2>2. phaseBar = "forward" /\ phaseBar' = "forward"
    BY <2>1 DEF phaseBar
  <2>3. heldBar' \in SUBSET EFFECT
    BY DEF heldBar, Stands, EFFECT
  <2> QED
    BY <2>2, <2>3 DEF TransactionStep, Transaction!Next, Transaction!Advance
<1> QED
  BY <1>1, <1>2

\* A cancelled saga leaves no reported effect standing.
LEMMA NothingHeldWhenCancelled ==
  IndInv /\ state = "CANCELLED" => heldBar = {}
<1> SUFFICES ASSUME IndInv, state = "CANCELLED"
             PROVE  heldBar = {}
  OBVIOUS
<1>1. \A c : Planned(c) => c \in ConfirmedSet
  BY CancelledConfirmsPlan DEF IndInv, Planned, Occurs, ConfirmedSet
<1>2. PlanCoversReported
  BY DEF IndInv, UndoingFacts, Forward
<1>3. \A x \in EFFECT : x \notin heldBar
  BY <1>1, <1>2, HeldMembers DEF PlanCoversReported, EFFECT
<1> QED
  BY <1>3, HeldIsEffects

LEMMA NothingHeldNext == IndInv' /\ (state = "CANCELLED")' => (heldBar = {})'
BY NothingHeldWhenCancelled, PTL

LEMMA UndoStepImplements ==
  ASSUME IndInv, IndInv', UndoStep
  PROVE  TransactionStep
<1>1. PICK p \in Plan, f \in {"CANCELLED", "REJECTED"} :
           state \in Cancellable /\ Compensate(p, f)
  BY UndoIsCompensate
<1>2. /\ phaseBar = "forward"
      /\ UNCHANGED confirmed
      /\ state' \in {"COMPENSATING", "CANCELLED"}
  BY <1>1, CompensateEffect DEF Cancellable, phaseBar
<1>3. /\ answered \subseteq answered'
      /\ answered' \ answered \subseteq Failure
  BY DEF UndoStep, OnReservaRecusada, OnOrcamentoFalhou, OnOrcamentoRecusado,
     OnCobrancaFalhou, OnPagamentoRecusado, OnBaixaFalhou, OnEnfileiramentoFalhou,
     DeadlineOfClient, DeadlineGivesUp, Accept, Failure
<1>4. CASE state' = "COMPENSATING"
  <2>1. heldBar' \in SUBSET heldBar
    <3>1. UNCHANGED ConfirmedSet
      BY <1>2 DEF ConfirmedSet
    <3> QED
      BY <1>3, <3>1 DEF heldBar, Stands, Failure
  <2>2. phaseBar' = "undoing"
    BY <1>4 DEF phaseBar
  <2> QED
    BY <1>2, <2>1, <2>2 DEF TransactionStep, Transaction!Next, Transaction!Abort
<1>5. CASE state' = "CANCELLED"
  <2>1. heldBar' = {} /\ phaseBar' = "cancelled"
    BY <1>5, NothingHeldNext DEF phaseBar
  <2> QED
    BY <1>2, <2>1 DEF TransactionStep, Transaction!Next, Transaction!Cancel
<1> QED
  BY <1>2, <1>4, <1>5

LEMMA ConfirmationImplements ==
  ASSUME IndInv, IndInv', NEW e \in Confirmation, OnConfirmation(e)
  PROVE  TransactionStep
<1>1. /\ state = "COMPENSATING" /\ state' \in {"COMPENSATING", "CANCELLED"}
      /\ pending_compensations # << >>
      /\ confirmed' = Append(confirmed, Head(pending_compensations))
      /\ UNCHANGED answered
  BY ConfirmationEffect DEF IndInv
<1>2. phaseBar = "undoing"
  BY <1>1 DEF phaseBar
<1>3. CASE state' = "COMPENSATING"
  <2>1. confirmed \in Seq(Compensation) /\ Head(pending_compensations) \in Compensation
    BY <1>1 DEF IndInv, TypeOK
  <2>2. ConfirmedSet \subseteq ConfirmedSet'
    BY <1>1, <2>1 DEF ConfirmedSet
  <2>3. heldBar' \in SUBSET heldBar
    BY <1>1, <2>2 DEF heldBar, Stands
  <2>4. phaseBar' = "undoing"
    BY <1>3 DEF phaseBar
  <2> QED
    BY <1>2, <2>3, <2>4 DEF TransactionStep, Transaction!Next, Transaction!Undo
<1>4. CASE state' = "CANCELLED"
  <2>1. heldBar' = {} /\ phaseBar' = "cancelled"
    BY <1>4, NothingHeldNext DEF phaseBar
  <2> QED
    BY <1>2, <2>1 DEF TransactionStep, Transaction!Next, Transaction!Cancel
<1> QED
  BY <1>1, <1>3, <1>4

LEMMA QuietStepImplements ==
  ASSUME QuietStep
  PROVE  TransactionStep
BY DEF QuietStep, progressVars, TransactionStep, phaseBar, heldBar, Stands, ConfirmedSet

LEMMA InitImplements == Init => Transaction!Init
BY DEF Init, Transaction!Init, phaseBar, heldBar, Stands

LEMMA StepImplements == IndInv /\ IndInv' /\ [Next]_vars => TransactionStep
<1> SUFFICES ASSUME IndInv, IndInv', [Next]_vars
             PROVE  TransactionStep
  OBVIOUS
<1>1. \/ FlowStep
      \/ UndoStep
      \/ \E e \in Confirmation : OnConfirmation(e)
      \/ QuietStep
  BY StepShapes DEF IndInv
<1> QED
  BY <1>1, FlowStepImplements, UndoStepImplements, ConfirmationImplements, QuietStepImplements

\* Every behaviour of the saga is one of the business transaction: money and
\* parts are both held when the repair starts, nothing is gained while undoing,
\* and a cancelled order holds no reported effect.
THEOREM SagaImplementsTransaction == Spec => ImplementsTransaction
<1>1. TransactionStep <=> [Transaction!Next]_<<phaseBar, heldBar>>
  BY DEF TransactionStep
<1> QED
  BY <1>1, InitImplements, StepImplements, IndInvHolds, PTL
     DEF Spec, ImplementsTransaction, Transaction!Spec
=============================================================================
