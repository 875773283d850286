--------------------------- MODULE ConsumerProofs ---------------------------
(***************************************************************************)
(* Proofs about the consumer of os-saga-eventos, for any number of         *)
(* messages, events and workers.  ConsumerInv is inductive: the unique key *)
(* of processed_messages keeps two transactions off one event, an open     *)
(* transaction is for an event not yet marked, and commit marks and        *)
(* applies in one step; so each event is applied once.                     *)
(***************************************************************************)
EXTENDS ConsumerProperties, TLAPS

LEMMA ConsumerInit == Init => ConsumerInv
<1> SUFFICES ASSUME Init PROVE ConsumerInv
  OBVIOUS
<1>1. TypeOK
  BY ConsumerAssumption DEF Init, TypeOK, WellFormed
<1>2. AppliedOnce /\ DeletedWasProcessed /\ ToldAtMostOnce
  BY DEF Init, AppliedOnce, DeletedWasProcessed, ToldAtMostOnce
<1>3. OneTransactionPerEvent /\ StageFacts
  BY DEF Init, OneTransactionPerEvent, StageFacts
<1> QED
  BY <1>1, <1>2, <1>3 DEF ConsumerInv

\* What SQS does on its own touches neither the workers nor the database.
LEMMA QueueKeeps ==
  ASSUME ConsumerInv,
         NEW m \in Message, Publish(m) \/ Expire(m) \/ MoveToDLQ(m)
  PROVE  ConsumerInv'
<1> USE ConsumerAssumption DEF ConsumerInv, TypeOK, WellFormed, Publish,
  Expire, MoveToDLQ, Fault, workerVars, databaseVars
<1>1. TypeOK'
  OBVIOUS
<1>2. AppliedOnce'
  BY <1>1 DEF AppliedOnce
<1>3. DeletedWasProcessed'
  BY <1>1 DEF DeletedWasProcessed
<1>4. ToldAtMostOnce'
  BY <1>1 DEF StageFacts, ToldAtMostOnce
<1>5. OneTransactionPerEvent'
  BY <1>1 DEF OneTransactionPerEvent
<1>6. StageFacts'
  BY <1>1 DEF OneTransactionPerEvent, ToldAtMostOnce, StageFacts
<1> QED
  BY <1>1, <1>2, <1>3, <1>4, <1>5, <1>6 DEF ConsumerInv

\* A receive only fills a hand.
LEMMA ReceiveKeeps ==
  ASSUME ConsumerInv, NEW w \in Worker, Receive(w)
  PROVE  ConsumerInv'
<1> USE ConsumerAssumption DEF ConsumerInv, TypeOK, WellFormed, Receive,
  Receivable, databaseVars
<1>1. TypeOK'
  OBVIOUS
<1>2. AppliedOnce'
  BY <1>1 DEF AppliedOnce
<1>3. DeletedWasProcessed'
  BY <1>1 DEF DeletedWasProcessed
<1>4. ToldAtMostOnce'
  BY <1>1 DEF StageFacts, ToldAtMostOnce
<1>5. OneTransactionPerEvent'
  BY <1>1 DEF OneTransactionPerEvent
<1>6. StageFacts'
  BY <1>1 DEF OneTransactionPerEvent, ToldAtMostOnce, StageFacts
<1> QED
  BY <1>1, <1>2, <1>3, <1>4, <1>5, <1>6 DEF ConsumerInv

\* A transaction is opened for an event nobody has marked or is marking.
LEMMA ProcessKeeps ==
  ASSUME ConsumerInv, NEW w \in Worker, Process(w)
  PROVE  ConsumerInv'
<1> USE ConsumerAssumption DEF ConsumerInv, TypeOK, WellFormed, Process,
  Reject, Escape, MarkProcessed, Marking, queueVars, databaseVars
<1>1. TypeOK'
  OBVIOUS
<1>2. AppliedOnce'
  BY <1>1 DEF AppliedOnce
<1>3. DeletedWasProcessed'
  BY <1>1 DEF DeletedWasProcessed
<1>4. ToldAtMostOnce'
  BY <1>1 DEF StageFacts, ToldAtMostOnce
<1>5. OneTransactionPerEvent'
  BY <1>1 DEF OneTransactionPerEvent
<1>6. StageFacts'
  BY <1>1 DEF OneTransactionPerEvent, ToldAtMostOnce, StageFacts
<1> QED
  BY <1>1, <1>2, <1>3, <1>4, <1>5, <1>6 DEF ConsumerInv

\* The mark and the effect of an event are committed in one step.
LEMMA CommitKeeps ==
  ASSUME ConsumerInv, NEW w \in Worker, Commit(w)
  PROVE  ConsumerInv'
<1> USE ConsumerAssumption DEF ConsumerInv, TypeOK, WellFormed, Commit,
  NextStage, queueVars
<1>1. TypeOK'
  OBVIOUS
<1>2. AppliedOnce'
  BY <1>1 DEF StageFacts, AppliedOnce
<1>3. DeletedWasProcessed'
  BY <1>1 DEF DeletedWasProcessed
<1>4. ToldAtMostOnce'
  BY <1>1 DEF StageFacts, ToldAtMostOnce
<1>5. OneTransactionPerEvent'
  BY <1>1 DEF OneTransactionPerEvent
<1>6. StageFacts'
  BY <1>1 DEF OneTransactionPerEvent, ToldAtMostOnce, StageFacts
<1> QED
  BY <1>1, <1>2, <1>3, <1>4, <1>5, <1>6 DEF ConsumerInv

\* The one e-mail of an event is sent by the worker that committed it.
LEMMA MailKeeps ==
  ASSUME ConsumerInv, NEW w \in Worker, Mail(w)
  PROVE  ConsumerInv'
<1> USE ConsumerAssumption DEF ConsumerInv, TypeOK, WellFormed, Mail, Fault,
  queueVars, databaseVars
<1>1. TypeOK'
  OBVIOUS
<1>2. AppliedOnce'
  BY <1>1 DEF AppliedOnce
<1>3. DeletedWasProcessed'
  BY <1>1 DEF DeletedWasProcessed
<1>4. ToldAtMostOnce'
  BY <1>1 DEF StageFacts, ToldAtMostOnce
<1>5. OneTransactionPerEvent'
  BY <1>1 DEF OneTransactionPerEvent
<1>6. StageFacts'
  BY <1>1 DEF OneTransactionPerEvent, ToldAtMostOnce, StageFacts
<1> QED
  BY <1>1, <1>2, <1>3, <1>4, <1>5, <1>6 DEF ConsumerInv

\* A message is deleted by a worker that knows its event processed.
LEMMA DeleteKeeps ==
  ASSUME ConsumerInv, NEW w \in Worker, Delete(w)
  PROVE  ConsumerInv'
<1> USE ConsumerAssumption DEF ConsumerInv, TypeOK, WellFormed, Delete,
  Idle, databaseVars
<1>1. TypeOK'
  OBVIOUS
<1>2. AppliedOnce'
  BY <1>1 DEF AppliedOnce
<1>3. DeletedWasProcessed'
  BY <1>1 DEF StageFacts, DeletedWasProcessed
<1>4. ToldAtMostOnce'
  BY <1>1 DEF StageFacts, ToldAtMostOnce
<1>5. OneTransactionPerEvent'
  BY <1>1 DEF OneTransactionPerEvent
<1>6. StageFacts'
  BY <1>1 DEF OneTransactionPerEvent, ToldAtMostOnce, StageFacts
<1> QED
  BY <1>1, <1>2, <1>3, <1>4, <1>5, <1>6 DEF ConsumerInv

\* A failure takes an open transaction, a batch or both from a worker.
LEMMA RollBackKeeps ==
  ASSUME ConsumerInv,
         NEW w \in Worker, Raises(w) \/ Fails(w) \/ DeleteFails(w) \/ Crash(w)
  PROVE  ConsumerInv'
<1> USE ConsumerAssumption DEF ConsumerInv, TypeOK, WellFormed, Raises,
  Fails, DeleteFails, Crash, RollBack, Idle, Fault, queueVars, databaseVars
<1>1. TypeOK'
  OBVIOUS
<1>2. AppliedOnce'
  BY <1>1 DEF AppliedOnce
<1>3. DeletedWasProcessed'
  BY <1>1 DEF DeletedWasProcessed
<1>4. ToldAtMostOnce'
  BY <1>1 DEF StageFacts, ToldAtMostOnce
<1>5. OneTransactionPerEvent'
  BY <1>1 DEF OneTransactionPerEvent
<1>6. StageFacts'
  BY <1>1 DEF OneTransactionPerEvent, ToldAtMostOnce, StageFacts
<1> QED
  BY <1>1, <1>2, <1>3, <1>4, <1>5, <1>6 DEF ConsumerInv

LEMMA ConsumerStep == ConsumerInv /\ [Next]_vars => ConsumerInv'
<1> SUFFICES ASSUME ConsumerInv, [Next]_vars PROVE ConsumerInv'
  OBVIOUS
<1>1. CASE UNCHANGED vars
  BY <1>1 DEF ConsumerInv, TypeOK, AppliedOnce, DeletedWasProcessed, ToldAtMostOnce,
     OneTransactionPerEvent, StageFacts, vars, queueVars, workerVars, databaseVars
<1>2. CASE Next
  BY <1>2, QueueKeeps, ReceiveKeeps, ProcessKeeps, CommitKeeps, MailKeeps, DeleteKeeps,
     RollBackKeeps DEF Next, WorkerStep
<1> QED
  BY <1>1, <1>2

\* The inductive invariant of the consumer holds in every reachable state.
THEOREM ConsumerInvHolds == Spec => []ConsumerInv
BY ConsumerInit, ConsumerStep, PTL DEF Spec

\* The queue, the workers and the tables keep to their types.
THEOREM ConsumerTypeCorrect == Spec => []TypeOK
<1>1. ConsumerInv => TypeOK
  BY DEF ConsumerInv
<1> QED
  BY <1>1, ConsumerInvHolds, PTL

\* The saga is advanced once by each processed event, and by no other.
THEOREM AppliedOnceHolds == Spec => []AppliedOnce
<1>1. ConsumerInv => AppliedOnce
  BY DEF ConsumerInv
<1> QED
  BY <1>1, ConsumerInvHolds, PTL

\* A message leaves the queue only when its event was processed.
THEOREM DeletedWasProcessedHolds == Spec => []DeletedWasProcessed
<1>1. ConsumerInv => DeletedWasProcessed
  BY DEF ConsumerInv
<1> QED
  BY <1>1, ConsumerInvHolds, PTL

\* The customer gets at most one e-mail per event, and only after the commit.
THEOREM ToldAtMostOnceHolds == Spec => []ToldAtMostOnce
<1>1. ConsumerInv => ToldAtMostOnce
  BY DEF ConsumerInv
<1> QED
  BY <1>1, ConsumerInvHolds, PTL

\* No two workers have a transaction open for the same event.
THEOREM OneTransactionPerEventHolds == Spec => []OneTransactionPerEvent
<1>1. ConsumerInv => OneTransactionPerEvent
  BY DEF ConsumerInv
<1> QED
  BY <1>1, ConsumerInvHolds, PTL

-----------------------------------------------------------------------------
(* The dead letter queue.                                                  *)

\* An expired visibility is a fault when a worker was busy with the message.
LEMMA QueueAccounts ==
  ASSUME ConsumerInv, FaultsAccounted, NotAnObject = {},
         NEW k \in Message, Publish(k) \/ Expire(k) \/ MoveToDLQ(k)
  PROVE  FaultsAccounted'
<1> USE ConsumerAssumption DEF ConsumerInv, TypeOK, FaultsAccounted, InUse,
  Publish, Expire, MoveToDLQ, Fault, workerVars
<1>1. \A m \in Message : (holder[m] # NoWorker => queue[m] = "inflight")'
  OBVIOUS
<1>2. \A m \in Message : (queue[m] = "dead" => receives[m] = MaxReceives)'
  OBVIOUS
<1>3. ASSUME NEW n \in WellFormed, Id[n] \notin Poison
      PROVE  (receives[n] <= faults
                + (IF InCare(n) \/ queue[n] = "deleted" THEN 1 ELSE 0))'
  BY <1>3 DEF WellFormed, InCare
<1> QED
  BY <1>1, <1>2, <1>3 DEF FaultsAccounted, WellFormed

\* A receive puts the message in the care of the worker.
LEMMA ReceiveAccounts ==
  ASSUME ConsumerInv, FaultsAccounted, NotAnObject = {},
         NEW w \in Worker, Receive(w)
  PROVE  FaultsAccounted'
<1> USE ConsumerAssumption DEF ConsumerInv, TypeOK, FaultsAccounted,
  Receive, Receivable
<1>1. \A m \in Message : (holder[m] # NoWorker => queue[m] = "inflight")'
  OBVIOUS
<1>2. \A m \in Message : (queue[m] = "dead" => receives[m] = MaxReceives)'
  OBVIOUS
<1>3. ASSUME NEW n \in WellFormed, Id[n] \notin Poison
      PROVE  (receives[n] <= faults
                + (IF InCare(n) \/ queue[n] = "deleted" THEN 1 ELSE 0))'
  BY <1>3 DEF WellFormed, InCare
<1> QED
  BY <1>1, <1>2, <1>3 DEF FaultsAccounted, WellFormed

\* With no body that ends the batch, every sound message of it is taken up.
LEMMA ProcessAccounts ==
  ASSUME ConsumerInv, FaultsAccounted, NotAnObject = {},
         NEW w \in Worker, Process(w)
  PROVE  FaultsAccounted'
<1> USE ConsumerAssumption DEF ConsumerInv, TypeOK, FaultsAccounted,
  Process, Reject, Escape, MarkProcessed, queueVars
<1>1. \A m \in Message : (holder[m] # NoWorker => queue[m] = "inflight")'
  OBVIOUS
<1>2. \A m \in Message : (queue[m] = "dead" => receives[m] = MaxReceives)'
  OBVIOUS
<1>3. ASSUME NEW n \in WellFormed, Id[n] \notin Poison
      PROVE  (receives[n] <= faults
                + (IF InCare(n) \/ queue[n] = "deleted" THEN 1 ELSE 0))'
  BY <1>3 DEF WellFormed, InCare
<1> QED
  BY <1>1, <1>2, <1>3 DEF FaultsAccounted, WellFormed

\* A worker keeps the message it commits or mails about.
LEMMA CommitAccounts ==
  ASSUME ConsumerInv, FaultsAccounted, NotAnObject = {},
         NEW w \in Worker, Commit(w) \/ Mail(w)
  PROVE  FaultsAccounted'
<1> USE ConsumerAssumption DEF ConsumerInv, TypeOK, FaultsAccounted, Commit,
  Mail, Fault, queueVars
<1>1. \A m \in Message : (holder[m] # NoWorker => queue[m] = "inflight")'
  OBVIOUS
<1>2. \A m \in Message : (queue[m] = "dead" => receives[m] = MaxReceives)'
  OBVIOUS
<1>3. ASSUME NEW n \in WellFormed, Id[n] \notin Poison
      PROVE  (receives[n] <= faults
                + (IF InCare(n) \/ queue[n] = "deleted" THEN 1 ELSE 0))'
  BY <1>3 DEF WellFormed, InCare
<1> QED
  BY <1>1, <1>2, <1>3 DEF FaultsAccounted, WellFormed

\* The last receipt deletes the message.
LEMMA DeleteAccounts ==
  ASSUME ConsumerInv, FaultsAccounted, NotAnObject = {},
         NEW w \in Worker, Delete(w)
  PROVE  FaultsAccounted'
<1> USE ConsumerAssumption DEF ConsumerInv, TypeOK, FaultsAccounted, Delete,
  Idle
<1>1. \A m \in Message : (holder[m] # NoWorker => queue[m] = "inflight")'
  OBVIOUS
<1>2. \A m \in Message : (queue[m] = "dead" => receives[m] = MaxReceives)'
  OBVIOUS
<1>3. ASSUME NEW n \in WellFormed, Id[n] \notin Poison
      PROVE  (receives[n] <= faults
                + (IF InCare(n) \/ queue[n] = "deleted" THEN 1 ELSE 0))'
  BY <1>3 DEF WellFormed, InCare
<1> QED
  BY <1>1, <1>2, <1>3 DEF FaultsAccounted, WellFormed

\* A failure is counted, unless the message could never be processed.
LEMMA RollBackAccounts ==
  ASSUME ConsumerInv, FaultsAccounted, NotAnObject = {},
         NEW w \in Worker, Raises(w) \/ Fails(w) \/ DeleteFails(w) \/ Crash(w)
  PROVE  FaultsAccounted'
<1> USE ConsumerAssumption DEF ConsumerInv, TypeOK, FaultsAccounted, Raises,
  Fails, DeleteFails, Crash, RollBack, Idle, Fault, queueVars
<1>1. \A m \in Message : (holder[m] # NoWorker => queue[m] = "inflight")'
  OBVIOUS
<1>2. \A m \in Message : (queue[m] = "dead" => receives[m] = MaxReceives)'
  OBVIOUS
<1>3. ASSUME NEW n \in WellFormed, Id[n] \notin Poison
      PROVE  (receives[n] <= faults
                + (IF InCare(n) \/ queue[n] = "deleted" THEN 1 ELSE 0))'
  BY <1>3 DEF WellFormed, InCare
<1> QED
  BY <1>1, <1>2, <1>3 DEF FaultsAccounted, WellFormed

LEMMA AccountsStep ==
  NotAnObject = {} =>
    (ConsumerInv /\ FaultsAccounted /\ [Next]_vars => FaultsAccounted')
<1> SUFFICES ASSUME NotAnObject = {}, ConsumerInv, FaultsAccounted, [Next]_vars
             PROVE  FaultsAccounted'
  OBVIOUS
<1>1. CASE UNCHANGED vars
  BY <1>1 DEF FaultsAccounted, InCare, vars, queueVars, workerVars
<1>2. CASE Next
  BY <1>2, QueueAccounts, ReceiveAccounts, ProcessAccounts, CommitAccounts,
     DeleteAccounts, RollBackAccounts DEF Next, WorkerStep
<1> QED
  BY <1>1, <1>2

\* When every body is an object or fails to parse, a sound event reaches the
\* dead letter queue only through as many failures as receives are granted.
THEOREM DeadHasCauseHolds == NotAnObject = {} => (Spec => []DeadHasCause)
<1> SUFFICES ASSUME NotAnObject = {} PROVE Spec => []DeadHasCause
  OBVIOUS
<1>1. Init => FaultsAccounted
  BY ConsumerAssumption DEF Init, FaultsAccounted, InCare, WellFormed
<1>2. ConsumerInv /\ FaultsAccounted /\ [Next]_vars => FaultsAccounted'
  BY AccountsStep
<1>3. ConsumerInv /\ FaultsAccounted => DeadHasCause
  <2> SUFFICES ASSUME ConsumerInv, FaultsAccounted, NEW m \in WellFormed,
                      queue[m] = "dead", Id[m] \notin Poison
               PROVE  faults >= MaxReceives
    BY DEF DeadHasCause
  <2>1. m \in Message /\ holder[m] = NoWorker /\ receives[m] = MaxReceives
    BY DEF FaultsAccounted, WellFormed
  <2>2. receives[m] <= faults
    BY <2>1, ConsumerAssumption DEF FaultsAccounted, InCare, ConsumerInv, TypeOK
  <2> QED
    BY <2>1, <2>2, ConsumerAssumption DEF ConsumerInv, TypeOK
<1> QED
  BY <1>1, <1>2, <1>3, ConsumerInvHolds, PTL DEF Spec
=============================================================================
