-------------------------- MODULE ConsumerProperties --------------------------
(***************************************************************************)
(* What must be true of the events between the queue and the saga.         *)
(***************************************************************************)
EXTENDS EventConsumer

\* The values every variable keeps to; a worker is processing a message
\* exactly when it is not idle, and only messages with an envelope get there.
TypeOK ==
  /\ queue \in [Message -> {"unsent", "visible", "inflight", "deleted", "dead"}]
  /\ holder \in [Message -> Worker \union {NoWorker}]
  /\ receives \in [Message -> 0..MaxReceives]
  /\ hand \in [Worker -> SUBSET Message]
  /\ current \in [Worker -> WellFormed \union {NoMessage}]
  /\ stage \in [Worker -> {"idle", "open", "mail", "delete"}]
  /\ \A w \in Worker : stage[w] = "idle" <=> current[w] = NoMessage
  /\ processed \subseteq EventId
  /\ applied \in [EventId -> Nat]
  /\ mails \in [EventId -> Nat]
  /\ faults \in 0..MaxFaults

\* Exactly-once effect over at-least-once delivery: whatever is delivered
\* again, by a crash, an expired visibility or a second copy, and however many
\* workers meet over it, the saga is advanced once by each event marked as
\* processed and never by one that is not.
AppliedOnce ==
  \A e \in EventId : applied[e] = IF e \in processed \ Orphan THEN 1 ELSE 0

\* No event is lost by deletion: a message leaves the queue only after the
\* transaction of its event committed.
DeletedWasProcessed ==
  \A m \in Message : queue[m] = "deleted" => m \in WellFormed /\ Id[m] \in processed

\* The customer is told at most once that the repair is done, and only when
\* that was committed.
ToldAtMostOnce ==
  \A e \in EventId : mails[e] <= (IF e \in processed THEN 1 ELSE 0)

\* Two workers never have a transaction open for the same event.
OneTransactionPerEvent ==
  \A v, w \in Worker :
    v # w /\ stage[v] = "open" /\ stage[w] = "open" => Id[current[v]] # Id[current[w]]

\* A sound event ends in the dead letter queue only if the infrastructure
\* failed at each of the receives the redrive policy grants: neither a
\* malformed message nor a poisonous one of the same batch takes it there.
DeadHasCause ==
  \A m \in WellFormed :
    queue[m] = "dead" /\ Id[m] \notin Poison => faults >= MaxReceives

\* Every message that was published is, in the end, deleted or set aside for
\* analysis; none goes round for ever.
EveryMessageSettles ==
  \A m \in Message : queue[m] = "visible" ~> queue[m] \in {"deleted", "dead"}

-----------------------------------------------------------------------------
(* The inductive strengthening.                                            *)

\* Whoever is about to send the e-mail of an event committed it itself, and
\* the e-mail has not been sent; whoever deletes a message knows it processed.
StageFacts ==
  \A w \in Worker :
    /\ stage[w] = "open" => Id[current[w]] \notin processed
    /\ stage[w] = "mail" => Id[current[w]] \in processed /\ mails[Id[current[w]]] = 0
    /\ stage[w] = "delete" => Id[current[w]] \in processed
    /\ \A v \in Worker :
         v # w /\ stage[v] = "mail" /\ stage[w] = "mail" =>
           Id[current[v]] # Id[current[w]]

ConsumerInv ==
  /\ TypeOK
  /\ AppliedOnce
  /\ DeletedWasProcessed
  /\ ToldAtMostOnce
  /\ OneTransactionPerEvent
  /\ StageFacts

\* The worker with the last receipt of a message still has it.
InCare(m) ==
  holder[m] # NoWorker /\ m \in hand[holder[m]] \union {current[holder[m]]}

\* A sound message is received once more than there were failures only while
\* a worker takes care of it, or after it was deleted.
FaultsAccounted ==
  /\ \A m \in Message : holder[m] # NoWorker => queue[m] = "inflight"
  /\ \A m \in Message : queue[m] = "dead" => receives[m] = MaxReceives
  /\ \A m \in WellFormed : Id[m] \notin Poison =>
       receives[m] <= faults + (IF InCare(m) \/ queue[m] = "deleted" THEN 1 ELSE 0)
=============================================================================
