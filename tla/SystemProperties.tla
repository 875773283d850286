--------------------------- MODULE SystemProperties ---------------------------
(***************************************************************************)
(* What must be true of an order across the services.                      *)
(***************************************************************************)
EXTENDS SagaSystem, SagaInvariant

\* The participant that carried a step out called a resend of it refused, and
\* the saga took its word.
Misreported(s) == s \in RefusesResend /\ Failed[s] \in answered

\* No reservation, no quote the customer could still accept and no charge that
\* could still be paid, or was, is left with a participant once the order is
\* cancelled, whatever was lost, resent or answered too late; unless it was the
\* participant itself that denied having it.
NothingLeftStanding ==
  state = "CANCELLED" =>
    /\ stage["ReservarPecas"] = "done" =>
         stage["ConfirmarBaixa"] = "done" \/ Misreported("ReservarPecas")
    /\ stage["GerarOrcamento"] = "done" =>
         "OrcamentoRecusado" \in acts \/ Misreported("GerarOrcamento")
    /\ stage["CriarCobranca"] = "done" => Misreported("CriarCobranca")

Paid == "PagamentoConfirmado" \in acts /\ stage["CriarCobranca"] = "done"

\* Nobody repairs for free, and nobody is refunded for a repair: the repair of
\* an order in repair or finished was paid for and has its parts.
RepairIsReallyPaid ==
  state \in {"IN_REPAIR", "COMPLETED"} => Paid /\ stage["ConfirmarBaixa"] = "done"

\* Who pays, in time or while the payment deadline expires, gets the repair or
\* the money back, or the saga stops where an admin sees it.
PaidIsRepairedOrRefunded ==
  Paid ~> (~Paid \/ state \in {"IN_REPAIR", "COMPLETED"} \/ Parked)

\* The two waits without a deadline are for mechanics only: work they report
\* moves the saga on, whatever it was doing when the report came.
WorkDoneIsSeen ==
  /\ (state = "AWAITING_DIAGNOSIS" /\ "DiagnosticoConcluido" \in acts)
       ~> state # "AWAITING_DIAGNOSIS"
  /\ (state = "IN_REPAIR" /\ "ExecucaoFinalizada" \in acts)
       ~> state # "IN_REPAIR"

-----------------------------------------------------------------------------
(* What the documents say of a cancelled order.                            *)

\* README.md:112, on the point of no return: once the repair is in the queue
\* of the mechanics the saga does not compensate any more.
PointOfNoReturn ==
  stage["EnfileirarReparo"] = "done" => state \notin {"COMPENSATING", "CANCELLED"}

\* docs/regras-negocio.md:32, on a failure between steps 3 and 7: what was done
\* is undone.  A quote the customer refused is closed already.
QuoteIsUndone ==
  state = "CANCELLED" /\ "OrcamentoRecusado" \notin acts => stage["GerarOrcamento"] # "done"

-----------------------------------------------------------------------------
(* Why they hold: what the messages on their way and the participants know. *)

Stage == {"none", "done", "refused", "undone"}

SystemTypeOK ==
  /\ commands \in [Command -> Nat]
  /\ events \subseteq Event
  /\ stage \in [Step -> Stage]
  /\ acts \subseteq DOMAIN Act

\* The steps that leave something behind at a participant to be undone.
Undoable == UNION {Undoes[c] : c \in Compensation}

\* Whoever reported it, the orchestrator has been told, or will be.
Told(e) == e \in events \/ e \in answered

\* What was carried out stays carried out until it is undone.
WasDone(s) == stage[s] \in {"done", "undone"}

\* A compensation that was carried out; a reservation whose parts are withdrawn
\* is not there any more to be released.
IsUndone(c) ==
  IF c = "LiberarPecas"
    THEN stage["ReservarPecas"] = "undone" \/ stage["ConfirmarBaixa"] = "done"
    ELSE \A s \in Undoes[c] : stage[s] = "undone"

\* The events tell the truth.  A refusal is the truth of a step that was
\* never carried out, unless its participant refuses resends.
ReportsAreTrue ==
  /\ \A s \in Step : Told(Done[s]) => WasDone(s)
  /\ \A s \in Undoable \ RefusesResend : Told(Failed[s]) => stage[s] \in {"refused", "undone"}
  /\ \A a \in DOMAIN Act : Told(a) => a \in acts
  /\ \A a \in acts : WasDone(Act[a].at)
  /\ \A c \in Compensation :
       COMPENSATION_CONFIRMATIONS[c] \in events \/ c \in ConfirmedSet => IsUndone(c)

\* No step is carried out that the saga did not ask for.
OnlyIssuedIsDone ==
  \A s \in Undoable : s \notin issued => commands[s] = 0 /\ stage[s] \in {"none", "undone"}

\* As long as the saga goes forward nothing is undone, or is going to be.
ForwardUndoesNothing ==
  Forward => /\ \A c \in Compensation : commands[c] = 0
             /\ \A s \in Step : stage[s] # "undone"

SystemInv ==
  /\ IndInv
  /\ SystemTypeOK
  /\ ReportsAreTrue
  /\ OnlyIssuedIsDone
  /\ ForwardUndoesNothing
=============================================================================
