---------------------------- MODULE EventConsumer ----------------------------
(***************************************************************************)
(* The consumer of os-saga-eventos: how the events of the participants get *)
(* from the SQS queue to the saga (app/messaging/sqs_consumer.py,          *)
(* app/messaging/dispatcher.py, handle_event of                            *)
(* app/saga/application/orchestrator.py and the loop of app/worker.py).    *)
(*                                                                         *)
(* SQS is external: it may show a message to a consumer again whenever its *)
(* visibility expires, keeps no order, and moves a message to the dead     *)
(* letter queue after MaxReceives receives (infra/aws/messaging.tf).  Two  *)
(* messages with the same id are two copies of one event.  What the saga   *)
(* does with an event is abstracted to "its transaction committed".        *)
(***************************************************************************)
EXTENDS Naturals, FiniteSets

CONSTANTS
  Message,      \* the SQS messages
  NoMessage,    \* what a worker between two messages is processing
  Malformed,    \* bodies parse_body rejects with an error _process catches
  NotAnObject,  \* bodies that are JSON but no object: AttributeError
  EventId,      \* the values of message_id
  Id,           \* the message_id in the envelope of each message
  Orphan,       \* events of no known saga
  Poison,       \* events whose handler always raises
  Finishing,    \* events whose decision is to e-mail the customer
  Worker,       \* the worker processes: one, two while a release rolls out
  NoWorker,     \* the holder of a message nobody is processing
  BatchSize,    \* MaxNumberOfMessages of one receive
  MaxReceives,  \* maxReceiveCount of the redrive policy
  MaxFaults     \* bound on crashes, failed calls and expired visibilities

ASSUME ConsumerAssumption ==
  /\ NoMessage \notin Message
  /\ NoWorker \notin Worker
  /\ Malformed \union NotAnObject \subseteq Message
  /\ Malformed \cap NotAnObject = {}
  /\ Id \in [Message -> EventId]
  /\ Orphan \union Poison \union Finishing \subseteq EventId
  /\ Orphan \cap (Poison \union Finishing) = {}
  /\ BatchSize \in Nat \ {0}
  /\ MaxReceives \in Nat \ {0}
  /\ MaxFaults \in Nat

VARIABLES
  queue,      \* where each message is
  holder,     \* the worker whose receipt of it is the last one
  receives,   \* its ApproximateReceiveCount
  hand,       \* the messages of a worker's batch it has not looked at yet
  current,    \* the message it is processing
  stage,      \* how far it is: transaction open, e-mail to send, to delete
  processed,  \* processed_messages: the ids committed
  applied,    \* history: transactions committed per event
  mails,      \* history: e-mails sent per event
  faults      \* history: what went wrong so far

queueVars == <<queue, holder, receives>>
workerVars == <<hand, current, stage>>
databaseVars == <<processed, applied>>
vars == <<queueVars, workerVars, databaseVars, mails, faults>>

Init == /\ queue = [m \in Message |-> "unsent"]
        /\ holder = [m \in Message |-> NoWorker]
        /\ receives = [m \in Message |-> 0]
        /\ hand = [w \in Worker |-> {}]
        /\ current = [w \in Worker |-> NoMessage]
        /\ stage = [w \in Worker |-> "idle"]
        /\ processed = {}
        /\ applied = [e \in EventId |-> 0]
        /\ mails = [e \in EventId |-> 0]
        /\ faults = 0

Fault == faults < MaxFaults /\ faults' = faults + 1

-----------------------------------------------------------------------------
(* The queue.                                                              *)

Publish(m) ==
  /\ queue[m] = "unsent"
  /\ queue' = [queue EXCEPT ![m] = "visible"]
  /\ UNCHANGED <<holder, receives, workerVars, databaseVars, mails, faults>>

InUse(m) == \E w \in Worker : m \in hand[w] \union {current[w]}

\* The visibility of a message nobody deleted expires; it costs a fault only
\* when a worker was still busy with it.
Expire(m) ==
  /\ queue[m] = "inflight"
  /\ queue' = [queue EXCEPT ![m] = "visible"]
  /\ holder' = [holder EXCEPT ![m] = NoWorker]
  /\ \/ InUse(m) /\ Fault
     \/ ~InUse(m) /\ UNCHANGED faults
  /\ UNCHANGED <<receives, workerVars, databaseVars, mails>>

MoveToDLQ(m) ==
  /\ queue[m] = "visible"
  /\ receives[m] = MaxReceives
  /\ queue' = [queue EXCEPT ![m] = "dead"]
  /\ UNCHANGED <<holder, receives, workerVars, databaseVars, mails, faults>>

-----------------------------------------------------------------------------
(* poll_queue.                                                             *)

Receivable == {m \in Message : queue[m] = "visible" /\ receives[m] < MaxReceives}

Receive(w) ==
  /\ stage[w] = "idle"
  /\ hand[w] = {}
  /\ \E batch \in SUBSET Receivable \ {{}} :
       /\ Cardinality(batch) <= BatchSize
       /\ queue' = [m \in Message |-> IF m \in batch THEN "inflight" ELSE queue[m]]
       /\ holder' = [m \in Message |-> IF m \in batch THEN w ELSE holder[m]]
       /\ receives' = [m \in Message |->
                         IF m \in batch THEN receives[m] + 1 ELSE receives[m]]
       /\ hand' = [hand EXCEPT ![w] = batch]
  /\ UNCHANGED <<current, stage, databaseVars, mails, faults>>

\* Mutant: an error in the body, too, counts as done.
Reject_Deletes(w) ==
  \E m \in hand[w] \cap Malformed :
    /\ hand' = [hand EXCEPT ![w] = @ \ {m}]
    /\ current' = [current EXCEPT ![w] = m]
    /\ stage' = [stage EXCEPT ![w] = "delete"]

\* Mutant: a malformed message ends the batch.
Reject_Escapes(w) ==
  /\ hand[w] \cap Malformed # {}
  /\ hand' = [hand EXCEPT ![w] = {}]
  /\ UNCHANGED <<current, stage>>

\* Mutant: the loop tries the message it cannot parse again, for ever.
Reject_Repeats(w) ==
  /\ hand[w] \cap Malformed # {}
  /\ UNCHANGED workerVars

\* A malformed message stays in the queue and the batch goes on.
Reject(w) ==
  \E m \in hand[w] \cap Malformed :
    /\ hand' = [hand EXCEPT ![w] = @ \ {m}]
    /\ UNCHANGED <<current, stage>>

\* parse_body raises what _process does not catch: the batch is abandoned.
Escape(w) ==
  /\ hand[w] \cap NotAnObject # {}
  /\ hand' = [hand EXCEPT ![w] = {}]
  /\ UNCHANGED <<current, stage>>

WellFormed == Message \ (Malformed \union NotAnObject)

\* The unique key of processed_messages: an uncommitted row with the same id
\* makes the second INSERT wait for the first transaction.
Marking(e) ==
  \E w \in Worker : stage[w] = "open" /\ Id[current[w]] = e

\* mark_processed: ON CONFLICT DO NOTHING; a repetition only has to be deleted.
MarkProcessed(w) ==
  \E m \in hand[w] \cap WellFormed :
    /\ hand' = [hand EXCEPT ![w] = @ \ {m}]
    /\ current' = [current EXCEPT ![w] = m]
    /\ \/ /\ Id[m] \in processed
          /\ stage' = [stage EXCEPT ![w] = "delete"]
       \/ /\ Id[m] \notin processed
          /\ ~Marking(Id[m])
          /\ stage' = [stage EXCEPT ![w] = "open"]

\* _process on one message of the batch, up to the open transaction.
Process(w) ==
  /\ stage[w] = "idle"
  /\ Reject(w) \/ Escape(w) \/ MarkProcessed(w)
  /\ UNCHANGED <<queueVars, databaseVars, mails, faults>>

NextStage(e) == IF e \in Finishing THEN "mail" ELSE "delete"

\* Mutant: the mark is left out of the transaction.
Commit_Unmarked(w) ==
  LET e == Id[current[w]]
  IN  /\ stage[w] = "open"
      /\ e \notin Poison
      /\ applied' = [applied EXCEPT ![e] = IF e \in Orphan THEN @ ELSE @ + 1]
      /\ stage' = [stage EXCEPT ![w] = NextStage(e)]
      /\ UNCHANGED <<queueVars, hand, current, processed, mails, faults>>

\* The mark and what the saga decided are committed together; an event of no
\* saga is only marked.
Commit(w) ==
  LET e == Id[current[w]]
  IN  /\ stage[w] = "open"
      /\ e \notin Poison
      /\ processed' = processed \union {e}
      /\ applied' = [applied EXCEPT ![e] = IF e \in Orphan THEN @ ELSE @ + 1]
      /\ stage' = [stage EXCEPT ![w] = NextStage(e)]
      /\ UNCHANGED <<queueVars, hand, current, mails, faults>>

\* Between two messages.
Idle(w) ==
  /\ current' = [current EXCEPT ![w] = NoMessage]
  /\ stage' = [stage EXCEPT ![w] = "idle"]

\* The transaction is rolled back, the message stays in the queue and the
\* batch goes on.
RollBack(w) ==
  /\ Idle(w)
  /\ UNCHANGED <<queueVars, hand, databaseVars, mails>>

\* Mutant: a message whose handler raised is deleted with the others.
Raises_Deletes(w) ==
  /\ stage[w] = "open"
  /\ Id[current[w]] \in Poison
  /\ stage' = [stage EXCEPT ![w] = "delete"]
  /\ UNCHANGED <<queueVars, hand, current, databaseVars, mails, faults>>

\* The handler cannot take this event, now or later.
Raises(w) ==
  /\ stage[w] = "open"
  /\ Id[current[w]] \in Poison
  /\ RollBack(w)
  /\ UNCHANGED faults

\* The database fails.
Fails(w) ==
  /\ stage[w] = "open"
  /\ Fault
  /\ RollBack(w)

\* Mutant: a failed e-mail is tried again.
Mail_Retries(w) ==
  LET e == Id[current[w]]
      sent == [mails EXCEPT ![e] = @ + 1]
  IN  /\ stage[w] = "mail"
      /\ \/ /\ mails' = sent
            /\ stage' = [stage EXCEPT ![w] = "delete"]
            /\ UNCHANGED faults
         \/ /\ Fault
            /\ mails' \in {mails, sent}
            /\ UNCHANGED stage
      /\ UNCHANGED <<queueVars, hand, current, databaseVars>>

\* _after_commit: one try; a failure, the server having taken the e-mail or
\* not, is only logged.
Mail(w) ==
  LET e == Id[current[w]]
      sent == [mails EXCEPT ![e] = @ + 1]
  IN  /\ stage[w] = "mail"
      /\ \/ mails' = sent /\ UNCHANGED faults
         \/ Fault /\ mails' \in {mails, sent}
      /\ stage' = [stage EXCEPT ![w] = "delete"]
      /\ UNCHANGED <<queueVars, hand, current, databaseVars>>

\* The message is gone if the receipt is its last one; with an older receipt
\* SQS accepts the call and may do nothing.
Delete(w) ==
  LET m == current[w]
  IN  /\ stage[w] = "delete"
      /\ \/ /\ queue[m] \in {"inflight", "visible"}
            /\ queue' = [queue EXCEPT ![m] = "deleted"]
            /\ holder' = [holder EXCEPT ![m] = NoWorker]
         \/ /\ holder[m] # w
            /\ UNCHANGED <<queue, holder>>
      /\ Idle(w)
      /\ UNCHANGED <<receives, hand, databaseVars, mails, faults>>

\* delete_message raises: the rest of the batch is abandoned with it.
DeleteFails(w) ==
  /\ stage[w] = "delete"
  /\ Fault
  /\ hand' = [hand EXCEPT ![w] = {}]
  /\ Idle(w)
  /\ UNCHANGED <<queueVars, databaseVars, mails>>

\* The process ends and its transaction with it; a new one takes its place.
Crash(w) ==
  /\ stage[w] # "idle" \/ hand[w] # {}
  /\ Fault
  /\ hand' = [hand EXCEPT ![w] = {}]
  /\ Idle(w)
  /\ UNCHANGED <<queueVars, databaseVars, mails>>

-----------------------------------------------------------------------------

WorkerStep(w) == Process(w) \/ Commit(w) \/ Raises(w) \/ Mail(w) \/ Delete(w)

Next == \/ \E m \in Message : Publish(m) \/ Expire(m) \/ MoveToDLQ(m)
        \/ \E w \in Worker :
             \/ Receive(w) \/ WorkerStep(w)
             \/ Fails(w) \/ DeleteFails(w) \/ Crash(w)

\* The loop of app/worker.py never stops, after an exception too; SQS shows an
\* abandoned message again, applies its redrive policy and, a message being
\* visible and a worker polling, hands it over.
Fairness ==
  /\ \A w \in Worker : WF_vars(WorkerStep(w)) /\ WF_vars(Receive(w))
  /\ \A m \in Message : WF_vars(Expire(m)) /\ WF_vars(MoveToDLQ(m))

Spec == Init /\ [][Next]_vars
FairSpec == Spec /\ Fairness
=============================================================================
