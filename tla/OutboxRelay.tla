----------------------------- MODULE OutboxRelay -----------------------------
(***************************************************************************)
(* The transactional outbox of the orchestrator and the relay that empties *)
(* it (app/shared/outbox.py, app/outbox_relay.py).  A command is a row of  *)
(* outbox_messages, inserted in the transaction that advances its saga;    *)
(* the relay takes the oldest pending rows under row locks, sends them one *)
(* by one to SQS and commits the marks once, at the end of the batch.      *)
(*                                                                         *)
(* A row is its id.  Ids are drawn when the row is inserted, before the    *)
(* transaction commits, so a smaller id may become visible later.          *)
(***************************************************************************)
EXTENDS Naturals, FiniteSets

CONSTANTS
  MaxRow,       \* bound on the rows ever inserted
  Saga,         \* the sagas that send commands
  NoSaga,       \* the owner of a row not yet inserted
  Relay,        \* the relay processes: one replica in k8s/base/outbox-relay.yaml
  BatchSize,    \* rows taken per round
  Unroutable,   \* the rows whose destination has no queue configured
  MaxFailures   \* bound on failed sends and crashes

ASSUME OutboxAssumption ==
  /\ MaxRow \in Nat
  /\ NoSaga \notin Saga
  /\ BatchSize \in Nat \ {0}
  /\ MaxFailures \in Nat
  /\ Unroutable \subseteq 1..MaxRow

Row == 1..MaxRow

RowStatus == {"free", "inserted", "pending", "published", "aborted"}

VARIABLES
  row,       \* the stage of each row; pending is committed, published_at null
  owner,     \* the saga each row belongs to
  batch,     \* the rows each relay holds locked
  todo,      \* those of the batch it has not sent yet
  copies,    \* history: the copies of each row that reached its queue
  failures,  \* history: failed sends and crashes
  overlapped \* history: two relays held batches at the same time

history == <<copies, failures, overlapped>>
vars == <<row, owner, batch, todo, history>>

Init == /\ row = [r \in Row |-> "free"]
        /\ owner = [r \in Row |-> NoSaga]
        /\ batch = [w \in Relay |-> {}]
        /\ todo = [w \in Relay |-> {}]
        /\ copies = [r \in Row |-> 0]
        /\ failures = 0
        /\ overlapped = FALSE

-----------------------------------------------------------------------------
(* The transactions of the orchestrator: the row lock of the saga keeps    *)
(* those of one saga from overlapping.                                     *)

Fresh(r) == row[r] = "free" /\ \A q \in 1..(r - 1) : row[q] # "free"

Writing(s) == \E r \in Row : row[r] = "inserted" /\ owner[r] = s

Insert(s) ==
  /\ ~Writing(s)
  /\ \E r \in Row :
       /\ Fresh(r)
       /\ row' = [row EXCEPT ![r] = "inserted"]
       /\ owner' = [owner EXCEPT ![r] = s]
  /\ UNCHANGED <<batch, todo, history>>

Commit(r) ==
  /\ row[r] = "inserted"
  /\ row' = [row EXCEPT ![r] = "pending"]
  /\ UNCHANGED <<owner, batch, todo, history>>

\* The transaction fails: the command never existed, its id is spent.
Rollback(r) ==
  /\ row[r] = "inserted"
  /\ row' = [row EXCEPT ![r] = "aborted"]
  /\ UNCHANGED <<owner, batch, todo, history>>

-----------------------------------------------------------------------------
(* run_once.                                                               *)

Locked == UNION {batch[w] : w \in Relay}

\* Mutant: rows locked by another relay are not skipped.
Available_IgnoresLocks == {r \in Row : row[r] = "pending"}

\* WHERE published_at IS NULL ... FOR UPDATE SKIP LOCKED
Available == {r \in Row : row[r] = "pending"} \ Locked

\* ORDER BY id LIMIT batch_size
Oldest(rows) == {r \in rows : Cardinality({q \in rows : q < r}) < BatchSize}

Meets(w) == overlapped' = (overlapped \/ \E v \in Relay \ {w} : batch[v] # {})

\* Mutant: the relay waits for a full batch.
Take_FullBatchOnly(w) ==
  /\ batch[w] = {}
  /\ Cardinality(Available) >= BatchSize
  /\ batch' = [batch EXCEPT ![w] = Oldest(Available)]
  /\ todo' = [todo EXCEPT ![w] = Oldest(Available)]
  /\ Meets(w)
  /\ UNCHANGED <<row, owner, copies, failures>>

Take(w) ==
  /\ batch[w] = {}
  /\ Available # {}
  /\ batch' = [batch EXCEPT ![w] = Oldest(Available)]
  /\ todo' = [todo EXCEPT ![w] = Oldest(Available)]
  /\ Meets(w)
  /\ UNCHANGED <<row, owner, copies, failures>>

\* Mutant: the batch is not walked in order.
NextRow_Any(w, r) == r \in todo[w]

NextRow(w, r) == r \in todo[w] /\ \A q \in todo[w] : r <= q

\* Mutant: a row is marked before SQS is asked to take it.
Send_MarksFirst(w) ==
  \E r \in Row :
    /\ NextRow(w, r)
    /\ r \notin Unroutable
    /\ todo' = [todo EXCEPT ![w] = @ \ {r}]
    /\ copies' \in {copies, [copies EXCEPT ![r] = @ + 1]}
    /\ UNCHANGED <<row, owner, batch, failures, overlapped>>

\* The queue accepts the message; the mark is flushed, not committed.
Send(w) ==
  \E r \in Row :
    /\ NextRow(w, r)
    /\ r \notin Unroutable
    /\ todo' = [todo EXCEPT ![w] = @ \ {r}]
    /\ copies' = [copies EXCEPT ![r] = @ + 1]
    /\ UNCHANGED <<row, owner, batch, failures, overlapped>>

\* Mutant: what was left to send is remembered, the locks are not.
Release_KeepsTodo(w) ==
  /\ batch' = [batch EXCEPT ![w] = {}]
  /\ UNCHANGED <<row, owner, todo>>

\* The session is closed without a commit: locks and marks are gone.
Release(w) ==
  /\ batch' = [batch EXCEPT ![w] = {}]
  /\ todo' = [todo EXCEPT ![w] = {}]
  /\ UNCHANGED <<row, owner>>

\* send raises, the queue having accepted the message or not: the exception
\* leaves run_once and the whole batch is rolled back, rows already sent too.
SendFails(w) ==
  \E r \in Row :
    /\ NextRow(w, r)
    /\ failures < MaxFailures
    /\ failures' = failures + 1
    /\ \/ UNCHANGED copies
       \/ r \notin Unroutable /\ copies' = [copies EXCEPT ![r] = @ + 1]
    /\ Release(w)
    /\ UNCHANGED overlapped

\* The relay, or the commit at the end of the batch, fails.
Crash(w) ==
  /\ batch[w] # {}
  /\ failures < MaxFailures
  /\ failures' = failures + 1
  /\ Release(w)
  /\ UNCHANGED <<copies, overlapped>>

CommitBatch(w) ==
  /\ batch[w] # {}
  /\ todo[w] = {}
  /\ row' = [r \in Row |-> IF r \in batch[w] THEN "published" ELSE row[r]]
  /\ batch' = [batch EXCEPT ![w] = {}]
  /\ UNCHANGED <<owner, todo, history>>

-----------------------------------------------------------------------------

RelayStep(w) == Take(w) \/ Send(w) \/ CommitBatch(w)

Next == \/ \E s \in Saga : Insert(s)
        \/ \E r \in Row : Commit(r) \/ Rollback(r)
        \/ \E w \in Relay : RelayStep(w) \/ SendFails(w) \/ Crash(w)

\* The relay loops for ever, after an exception too (app/outbox_relay.py).
Fairness == \A w \in Relay : WF_vars(RelayStep(w))

Spec == Init /\ [][Next]_vars
FairSpec == Spec /\ Fairness
=============================================================================
