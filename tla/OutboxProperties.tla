--------------------------- MODULE OutboxProperties ---------------------------
(***************************************************************************)
(* What must be true of the commands between the commit that decides them  *)
(* and the queue of the participant.                                       *)
(***************************************************************************)
EXTENDS OutboxRelay

\* The values every variable keeps to; a relay only sends what it holds.
TypeOK ==
  /\ row \in [Row -> RowStatus]
  /\ owner \in [Row -> Saga \union {NoSaga}]
  /\ batch \in [Relay -> SUBSET Row]
  /\ todo \in [Relay -> SUBSET Row]
  /\ \A w \in Relay : todo[w] \subseteq batch[w]
  /\ copies \in [Row -> Nat]
  /\ failures \in 0..MaxFailures
  /\ overlapped \in BOOLEAN

\* SKIP LOCKED keeps two relays off the same row, so that more replicas alone
\* would duplicate nothing.
NoRowTakenTwice ==
  \A v, w \in Relay : v # w => batch[v] \cap batch[w] = {}

\* A row is marked as published only if a queue has it: no command is lost,
\* whatever fails between the sends and the commit of the batch.
PublishedWasSent ==
  \A r \in Row : row[r] = "published" => copies[r] >= 1

\* No participant is commanded by a transaction that did not commit: the saga
\* really took the step the command belongs to.
OnlyCommittedIsSent ==
  \A r \in Row : copies[r] > 0 => row[r] \in {"pending", "published"}

\* Every duplicate is paid for by a failure: a relay that does not fail sends
\* each command once.
DuplicatesComeFromFailures ==
  \A r \in Row : copies[r] <= 1 + failures

\* The commands of one saga reach their queues in the order they were decided,
\* as long as no two relays work at the same time (strategy Recreate in
\* k8s/base/outbox-relay.yaml), although ids become visible out of order, sends
\* fail and relays are replaced in the middle of a batch.
SagaOrderKept ==
  ~overlapped =>
    \A i, j \in Row :
      i < j /\ owner[i] = owner[j] /\ copies[j] > 0 =>
        copies[i] > 0 \/ row[i] = "aborted"

Committed == {r \in Row : row[r] \in {"pending", "published"}}

Channel == INSTANCE AtLeastOnce
             WITH Message <- Row, accepted <- Committed, delivered <- copies

\* The outbox implements at-least-once delivery: nothing is delivered that was
\* not committed, and everything committed is delivered.
ImplementsAtLeastOnce == Channel!FairSpec

\* Every committed command is also marked, so that the relay stops sending it.
PendingIsPublished ==
  \A r \in Row : row[r] = "pending" ~> row[r] = "published"

-----------------------------------------------------------------------------
(* The inductive strengthening.                                            *)

\* What a relay holds is committed and unpublished, and is held by it alone.
HeldIsPending ==
  /\ \A w \in Relay : \A r \in batch[w] : row[r] = "pending"
  /\ NoRowTakenTwice

Held(r) == \E w \in Relay : r \in batch[w] /\ r \notin todo[w]

\* A row sent in an open batch has a copy; every further copy of a row that
\* is neither marked nor in a batch was lost to a failure.
CopiesAccounted ==
  /\ \A r \in Row : Held(r) \/ row[r] = "published" => copies[r] >= 1
  /\ \A r \in Row :
       copies[r] <= failures + (IF Held(r) \/ row[r] = "published" THEN 1 ELSE 0)

OutboxInv ==
  /\ TypeOK
  /\ HeldIsPending
  /\ CopiesAccounted
  /\ OnlyCommittedIsSent

Spent(r) == row[r] \in {"published", "aborted"}

\* Ids are drawn in order, and those of one saga by one transaction at a time.
InsertedInOrder ==
  /\ \A i, j \in Row : i < j /\ row[i] = "free" => row[j] = "free"
  /\ \A i, j \in Row :
       i < j /\ owner[i] = owner[j] /\ row[j] # "free" => row[i] # "inserted"

\* A batch is walked from its smallest row.
WalkedInOrder ==
  \A w \in Relay : \A i, j \in batch[w] :
    i < j /\ j \notin todo[w] => i \notin todo[w]

Alone == \A v, w \in Relay : v # w => batch[v] = {} \/ batch[w] = {}

\* A batch that holds a row holds every row before it of the same saga that
\* is still to be sent.
NoRowSkipped ==
  \A w \in Relay : \A i, j \in Row :
    i < j /\ owner[i] = owner[j] /\ j \in batch[w] => i \in batch[w] \/ Spent(i)

\* Why the order is kept.
InOrder ==
  /\ InsertedInOrder
  /\ WalkedInOrder
  /\ ~overlapped => Alone /\ NoRowSkipped
  /\ SagaOrderKept

OrderInv == OutboxInv /\ InOrder
=============================================================================
