---------------------------- MODULE SagaInvariant ----------------------------
(***************************************************************************)
(* The strengthening that makes the invariants of the saga inductive: what *)
(* is known while the saga goes forward (everything about its past follows *)
(* from its state), and what is known once it is being undone (the plan    *)
(* covers whatever was done).                                              *)
(***************************************************************************)
EXTENDS SagaProperties

Forward == state \notin {"COMPENSATING", "CANCELLED"}

Failure == {"ReservaRecusada", "OrcamentoFalhou", "OrcamentoRecusado",
            "CobrancaFalhou", "PagamentoRecusado", "BaixaFalhou",
            "EnfileiramentoFalhou"}

\* Going forward: nothing was refused or undone, and which commands were
\* sent, which effects were reported and which columns are set is exactly
\* what the rank of the state says.
ForwardFacts ==
  Forward =>
    /\ pending_compensations = << >> /\ plan = << >> /\ confirmed = << >>
    /\ Failure \cap answered = {}
    /\ "ReservarPecas" \in issued <=> RANK[state] >= 2
    /\ "GerarOrcamento" \in issued <=> RANK[state] >= 3
    /\ "CriarCobranca" \in issued <=> RANK[state] >= 5
    /\ "ConfirmarBaixa" \in issued <=> RANK[state] >= 7
    /\ "PecasReservadas" \in answered <=> RANK[state] >= 3
    /\ "OrcamentoGerado" \in answered <=> RANK[state] >= 4
    /\ "CobrancaCriada" \in answered => RANK[state] >= 6
    /\ "PagamentoConfirmado" \in answered <=> RANK[state] >= 7
    /\ "BaixaConfirmada" \in answered <=> RANK[state] >= 8
    /\ "approved_at" \in stamps <=> RANK[state] >= 5
    /\ "paid_at" \in stamps <=> RANK[state] >= 7

Occurs(c, seq) == \E i \in DOMAIN seq : seq[i] = c

Planned(c) == Occurs(c, plan)

\* The plan undoes every step that may have taken effect.
PlanCoversSent ==
  /\ "ReservarPecas" \in issued /\ "ReservaRecusada" \notin answered =>
       Planned("LiberarPecas") \/ Planned("DevolverPecas")
  /\ "GerarOrcamento" \in issued
       /\ {"OrcamentoFalhou", "OrcamentoRecusado"} \cap answered = {} =>
       Planned("CancelarOrcamento")
  /\ "CriarCobranca" \in issued /\ "CobrancaFalhou" \notin answered =>
       Planned("CancelarCobranca") \/ Planned("EstornarPagamento")
  /\ "paid_at" \in stamps => Planned("EstornarPagamento")

\* The plan undoes every effect that was reported.
PlanCoversReported ==
  /\ "PecasReservadas" \in answered /\ "BaixaConfirmada" \notin answered =>
       Planned("LiberarPecas")
  /\ "BaixaConfirmada" \in answered => Planned("DevolverPecas")
  /\ "OrcamentoGerado" \in answered /\ "OrcamentoRecusado" \notin answered =>
       Planned("CancelarOrcamento")
  /\ "CobrancaCriada" \in answered /\ "PagamentoConfirmado" \notin answered =>
       Planned("CancelarCobranca")
  /\ "PagamentoConfirmado" \in answered => Planned("EstornarPagamento")

\* Going back: the verdict for the customer is settled and the plan complete.
UndoingFacts ==
  ~Forward =>
    /\ final_status # None
    /\ final_status = "REJECTED" <=> "OrcamentoRecusado" \in answered
    /\ "OrcamentoRecusado" \in answered => {"approved_at", "paid_at"} \cap stamps = {}
    /\ state = "CANCELLED" => status = final_status
    /\ PlanCoversSent
    /\ PlanCoversReported

IndInv ==
  /\ TypeOK
  /\ StatusFollowsState
  /\ ResendsTheAwaitedCommand
  /\ NoSilentStall
  /\ CompensatesInOrder
  /\ ForwardFacts
  /\ UndoingFacts
=============================================================================
