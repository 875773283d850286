----------------------------- MODULE OutboxProofs -----------------------------
(***************************************************************************)
(* The safety of the outbox, for any number of rows, sagas, relays and     *)
(* failures, and the order of the commands of a saga while no two relays   *)
(* overlap.                                                                *)
(***************************************************************************)
EXTENDS OutboxProperties, FiniteSetTheorems, TLAPS

LEMMA OldestInside == \A rows : Oldest(rows) \subseteq rows
BY DEF Oldest

LEMMA AvailableIsFree ==
  /\ Available \subseteq {r \in Row : row[r] = "pending"}
  /\ \A w \in Relay : Available \cap batch[w] = {}
BY DEF Available, Locked

-----------------------------------------------------------------------------
(* The invariant of the batches and of the copies.                         *)

LEMMA OutboxInit == Init => OutboxInv
<1> SUFFICES ASSUME Init PROVE OutboxInv
  OBVIOUS
<1>1. overlapped \in BOOLEAN
  BY DEF Init
<1>2. TypeOK
  BY <1>1, OutboxAssumption DEF Init, TypeOK, RowStatus
<1> QED
  BY <1>2 DEF Init, OutboxInv, HeldIsPending, NoRowTakenTwice, CopiesAccounted,
     OnlyCommittedIsSent, Held

LEMMA WriteKeeps ==
  ASSUME OutboxInv,
         NEW r \in Row, row[r] \in {"free", "inserted"},
         NEW st \in {"inserted", "pending", "aborted"},
         row' = [row EXCEPT ![r] = st],
         owner' \in [Row -> Saga \union {NoSaga}],
         UNCHANGED <<batch, todo, history>>
  PROVE  OutboxInv'
<1>1. TypeOK'
  BY DEF OutboxInv, TypeOK, RowStatus, history
<1>2. HeldIsPending'
  BY DEF OutboxInv, TypeOK, HeldIsPending, NoRowTakenTwice
<1>3. \A q \in Row : Held(q)' <=> Held(q)
  BY DEF Held
<1>4. \A q \in Row : (row[q] = "published")' <=> row[q] = "published"
  BY DEF OutboxInv, TypeOK
<1>5. CopiesAccounted'
  BY <1>3, <1>4 DEF OutboxInv, CopiesAccounted, history
<1>6. OnlyCommittedIsSent'
  BY DEF OutboxInv, TypeOK, OnlyCommittedIsSent, history
<1> QED
  BY <1>1, <1>2, <1>5, <1>6 DEF OutboxInv

LEMMA TakeKeeps ==
  ASSUME OutboxInv, NEW w \in Relay, Take(w)
  PROVE  OutboxInv'
<1> DEFINE B == Oldest(Available)
<1>1. /\ B \subseteq Available
      /\ batch' = [batch EXCEPT ![w] = B] /\ todo' = [todo EXCEPT ![w] = B]
      /\ batch[w] = {}
      /\ overlapped' \in {TRUE, FALSE, overlapped}
      /\ UNCHANGED <<row, owner, copies, failures>>
  BY OldestInside DEF Take, Meets
<1> HIDE DEF B
<1>2. B \subseteq Row /\ \A q \in B : row[q] = "pending"
  BY <1>1, AvailableIsFree
<1>3. TypeOK'
  BY <1>1, <1>2 DEF OutboxInv, TypeOK
<1>4. HeldIsPending'
  <2>1. \A v \in Relay : batch[v] \cap B = {}
    BY <1>1, AvailableIsFree
  <2> QED
    BY <1>1, <1>2, <2>1 DEF OutboxInv, TypeOK, HeldIsPending, NoRowTakenTwice
<1>5. \A q \in Row : Held(q)' <=> Held(q)
  BY <1>1 DEF Held, OutboxInv, TypeOK
<1>6. CopiesAccounted' /\ OnlyCommittedIsSent'
  BY <1>1, <1>5 DEF OutboxInv, CopiesAccounted, OnlyCommittedIsSent
<1> QED
  BY <1>3, <1>4, <1>6 DEF OutboxInv

LEMMA SendKeeps ==
  ASSUME OutboxInv, NEW w \in Relay, Send(w)
  PROVE  OutboxInv'
<1>1. PICK r \in Row :
        /\ r \in todo[w]
        /\ todo' = [todo EXCEPT ![w] = @ \ {r}]
        /\ copies' = [copies EXCEPT ![r] = @ + 1]
        /\ UNCHANGED <<row, owner, batch, failures, overlapped>>
  BY DEF Send, NextRow
<1>2. r \in batch[w] /\ row[r] = "pending" /\ ~Held(r)
  BY <1>1 DEF OutboxInv, TypeOK, HeldIsPending, NoRowTakenTwice, Held
<1>3. TypeOK'
  BY <1>1 DEF OutboxInv, TypeOK
<1>4. HeldIsPending'
  BY <1>1 DEF OutboxInv, HeldIsPending, NoRowTakenTwice
<1>5. Held(r)' /\ \A q \in Row \ {r} : Held(q)' <=> Held(q)
  BY <1>1, <1>2 DEF Held, OutboxInv, TypeOK
<1>6. /\ copies'[r] = copies[r] + 1
      /\ \A q \in Row \ {r} : copies'[q] = copies[q]
      /\ \A q \in Row : copies[q] \in Nat
      /\ failures \in Nat
  BY <1>1 DEF OutboxInv, TypeOK
<1>7. copies[r] <= failures
  BY <1>2, <1>6 DEF OutboxInv, CopiesAccounted
<1>8. CopiesAccounted'
  <2>1. \A q \in Row \ {r} : (Held(q) \/ row[q] = "published")' <=> (Held(q) \/ row[q] = "published")
    BY <1>1, <1>5
  <2>2. ASSUME NEW q \in Row PROVE (Held(q) \/ row[q] = "published" => copies[q] >= 1)'
    BY <1>1, <1>5, <1>6, <2>1 DEF OutboxInv, CopiesAccounted
  <2>3. ASSUME NEW q \in Row
        PROVE  (copies[q] <= failures + (IF Held(q) \/ row[q] = "published" THEN 1 ELSE 0))'
    <3>1. CASE q = r
      BY <1>1, <1>5, <1>6, <1>7, <3>1
    <3>2. CASE q # r
      <4>1. copies[q] <= failures + (IF Held(q) \/ row[q] = "published" THEN 1 ELSE 0)
        BY DEF OutboxInv, CopiesAccounted
      <4> QED
        BY <1>1, <1>6, <2>1, <3>2, <4>1
    <3> QED
      BY <3>1, <3>2
  <2> QED
    BY <2>2, <2>3 DEF CopiesAccounted
<1>9. OnlyCommittedIsSent'
  BY <1>1, <1>2, <1>6 DEF OutboxInv, OnlyCommittedIsSent
<1> QED
  BY <1>3, <1>4, <1>8, <1>9 DEF OutboxInv

\* A failure releases the batch, at the price of one more failure.
LEMMA ReleaseKeeps ==
  ASSUME OutboxInv, NEW w \in Relay, Release(w),
         failures < MaxFailures, failures' = failures + 1, UNCHANGED overlapped,
         \/ UNCHANGED copies
         \/ \E r \in todo[w] : copies' = [copies EXCEPT ![r] = @ + 1]
  PROVE  OutboxInv'
<1>1. /\ batch' = [batch EXCEPT ![w] = {}] /\ todo' = [todo EXCEPT ![w] = {}]
      /\ UNCHANGED <<row, owner>>
  BY DEF Release
<1>2. TypeOK'
  BY <1>1, OutboxAssumption DEF OutboxInv, TypeOK
<1>3. HeldIsPending'
  BY <1>1 DEF OutboxInv, TypeOK, HeldIsPending, NoRowTakenTwice
<1>4. \A q \in Row : Held(q)' => Held(q)
  BY <1>1 DEF Held, OutboxInv, TypeOK
<1>5. \A q \in Row : copies[q] \in Nat /\ copies'[q] \in Nat /\ failures \in Nat
  BY <1>2 DEF OutboxInv, TypeOK
<1>6. ASSUME NEW q \in Row
      PROVE  /\ copies'[q] >= copies[q]
             /\ copies'[q] <= failures + 1
             /\ copies'[q] > copies[q] => row[q] = "pending"
  <2>1. copies[q] <= failures + (IF Held(q) \/ row[q] = "published" THEN 1 ELSE 0)
    BY DEF OutboxInv, CopiesAccounted
  <2>2. CASE UNCHANGED copies
    BY <1>5, <2>1, <2>2
  <2>3. ASSUME NEW r \in todo[w], copies' = [copies EXCEPT ![r] = @ + 1]
        PROVE  /\ copies'[q] >= copies[q]
               /\ copies'[q] <= failures + 1
               /\ copies'[q] > copies[q] => row[q] = "pending"
    <3>1. r \in batch[w] /\ row[r] = "pending" /\ ~Held(r)
      BY <2>3 DEF OutboxInv, TypeOK, HeldIsPending, NoRowTakenTwice, Held
    <3>2. copies'[q] = IF q = r THEN copies[q] + 1 ELSE copies[q]
      BY <2>3 DEF OutboxInv, TypeOK
    <3>3. CASE q = r
      BY <1>5, <2>1, <3>1, <3>2, <3>3
    <3>4. CASE q # r
      BY <1>5, <2>1, <3>2, <3>4
    <3> QED
      BY <3>3, <3>4
  <2> QED
    BY <1>5, <2>2, <2>3
<1>7. CopiesAccounted'
  <2>1. ASSUME NEW q \in Row PROVE (Held(q) \/ row[q] = "published" => copies[q] >= 1)'
    BY <1>1, <1>4, <1>5, <1>6 DEF OutboxInv, CopiesAccounted
  <2>2. ASSUME NEW q \in Row
        PROVE  (copies[q] <= failures + (IF Held(q) \/ row[q] = "published" THEN 1 ELSE 0))'
    BY <1>5, <1>6
  <2> QED
    BY <2>1, <2>2 DEF CopiesAccounted
<1>8. OnlyCommittedIsSent'
  BY <1>1, <1>5, <1>6 DEF OutboxInv, OnlyCommittedIsSent
<1> QED
  BY <1>2, <1>3, <1>7, <1>8 DEF OutboxInv

LEMMA CommitBatchKeeps ==
  ASSUME OutboxInv, NEW w \in Relay, CommitBatch(w)
  PROVE  OutboxInv'
<1>1. /\ todo[w] = {}
      /\ row' = [r \in Row |-> IF r \in batch[w] THEN "published" ELSE row[r]]
      /\ batch' = [batch EXCEPT ![w] = {}]
      /\ UNCHANGED <<owner, todo, copies, failures, overlapped>>
  BY DEF CommitBatch, history
<1>2. TypeOK'
  BY <1>1 DEF OutboxInv, TypeOK, RowStatus
<1>3. HeldIsPending'
  <2>1. ASSUME NEW v \in Relay, NEW q \in batch'[v] PROVE row'[q] = "pending"
    BY <1>1, <2>1 DEF OutboxInv, TypeOK, HeldIsPending, NoRowTakenTwice
  <2>2. NoRowTakenTwice'
    BY <1>1 DEF OutboxInv, TypeOK, HeldIsPending, NoRowTakenTwice
  <2> QED
    BY <2>1, <2>2 DEF HeldIsPending
<1>4. \A q \in Row : (Held(q) \/ row[q] = "published")' <=> (Held(q) \/ row[q] = "published")
  BY <1>1 DEF Held, OutboxInv, TypeOK
<1>5. CopiesAccounted'
  BY <1>1, <1>4 DEF OutboxInv, CopiesAccounted
<1>6. OnlyCommittedIsSent'
  BY <1>1 DEF OutboxInv, OnlyCommittedIsSent
<1> QED
  BY <1>2, <1>3, <1>5, <1>6 DEF OutboxInv

LEMMA OutboxStep == OutboxInv /\ [Next]_vars => OutboxInv'
<1> SUFFICES ASSUME OutboxInv, [Next]_vars
             PROVE  OutboxInv'
  OBVIOUS
<1>1. ASSUME NEW s \in Saga, Insert(s) PROVE OutboxInv'
  <2>1. PICK r \in Row : /\ row[r] = "free"
                         /\ row' = [row EXCEPT ![r] = "inserted"]
                         /\ owner' = [owner EXCEPT ![r] = s]
    BY <1>1 DEF Insert, Fresh
  <2> QED
    BY <1>1, <2>1, WriteKeeps DEF Insert, OutboxInv, TypeOK
<1>2. ASSUME NEW r \in Row, Commit(r) \/ Rollback(r) PROVE OutboxInv'
  BY <1>2, WriteKeeps DEF Commit, Rollback, OutboxInv, TypeOK
<1>3. ASSUME NEW w \in Relay, RelayStep(w) PROVE OutboxInv'
  BY <1>3, TakeKeeps, SendKeeps, CommitBatchKeeps DEF RelayStep
<1>4. ASSUME NEW w \in Relay, SendFails(w) PROVE OutboxInv'
  <2>1. \/ UNCHANGED copies
        \/ \E r \in todo[w] : copies' = [copies EXCEPT ![r] = @ + 1]
    BY <1>4 DEF SendFails, NextRow
  <2> QED
    BY <1>4, <2>1, ReleaseKeeps DEF SendFails
<1>5. ASSUME NEW w \in Relay, Crash(w) PROVE OutboxInv'
  BY <1>5, ReleaseKeeps DEF Crash
<1>6. CASE UNCHANGED vars
  BY <1>6 DEF vars, history, OutboxInv, TypeOK, HeldIsPending, NoRowTakenTwice, CopiesAccounted,
     Held, OnlyCommittedIsSent
<1> QED
  BY <1>1, <1>2, <1>3, <1>4, <1>5, <1>6 DEF Next

\* The inductive invariant of the outbox holds in every reachable state.
THEOREM OutboxInvHolds == Spec => []OutboxInv
BY OutboxInit, OutboxStep, PTL DEF Spec

\* Every column and every batch keeps to its type.
THEOREM OutboxTypeCorrect == Spec => []TypeOK
<1>1. OutboxInv => TypeOK
  BY DEF OutboxInv
<1> QED
  BY <1>1, OutboxInvHolds, PTL

\* What a relay holds is pending, and no other relay holds it.
THEOREM HeldIsPendingHolds == Spec => []HeldIsPending
<1>1. OutboxInv => HeldIsPending
  BY DEF OutboxInv
<1> QED
  BY <1>1, OutboxInvHolds, PTL

\* No command is marked as published without having reached its queue.
THEOREM PublishedWasSentHolds == Spec => []PublishedWasSent
<1>1. OutboxInv => PublishedWasSent
  BY DEF OutboxInv, CopiesAccounted, PublishedWasSent
<1> QED
  BY <1>1, OutboxInvHolds, PTL

\* No command of a transaction that did not commit reaches a queue.
THEOREM OnlyCommittedIsSentHolds == Spec => []OnlyCommittedIsSent
<1>1. OutboxInv => OnlyCommittedIsSent
  BY DEF OutboxInv
<1> QED
  BY <1>1, OutboxInvHolds, PTL

\* Every duplicate is paid for by a failure, however many relays run.
THEOREM DuplicatesComeFromFailuresHolds == Spec => []DuplicatesComeFromFailures
<1>1. OutboxInv => DuplicatesComeFromFailures
  <2> SUFFICES ASSUME OutboxInv, NEW r \in Row
               PROVE  copies[r] <= 1 + failures
    BY DEF DuplicatesComeFromFailures
  <2>1. copies[r] \in Nat /\ failures \in Nat
    BY DEF OutboxInv, TypeOK
  <2>2. copies[r] <= failures + (IF Held(r) \/ row[r] = "published" THEN 1 ELSE 0)
    BY DEF OutboxInv, CopiesAccounted
  <2> QED
    BY <2>1, <2>2
<1> QED
  BY <1>1, OutboxInvHolds, PTL

-----------------------------------------------------------------------------
(* The order of the commands of a saga.                                    *)

\* A batch leaves out no row that is older than one it takes.
LEMMA OldestFirst ==
  ASSUME NEW rows \in SUBSET Row, NEW i \in rows, NEW j \in Oldest(rows), i < j
  PROVE  i \in Oldest(rows)
<1> DEFINE I == {q \in rows : q < i}
           J == {q \in rows : q < j}
<1>1. j \in rows /\ Row \subseteq Int
  <2>1. j \in rows
    BY DEF Oldest
  <2> QED
    BY <2>1, OutboxAssumption DEF Row
<1>2. IsFiniteSet(rows)
  <2>1. IsFiniteSet(1..MaxRow)
    BY FS_Interval, OutboxAssumption
  <2> QED
    BY <2>1, FS_Subset DEF Row
<1>3. I \subseteq J /\ J \subseteq rows
  <2>1. ASSUME NEW q \in rows, q < i
        PROVE  q < j
    <3>1. q \in Int /\ i \in Int /\ j \in Int
      BY <1>1
    <3> QED
      BY <2>1, <3>1
  <2> QED
    BY <2>1, Zenon
<1>4. IsFiniteSet(J) /\ IsFiniteSet(I)
  BY <1>2, <1>3, FS_Subset
<1>5. Cardinality(I) <= Cardinality(J)
  BY <1>3, <1>4, FS_Subset
<1>6. Cardinality(I) \in Nat /\ Cardinality(J) \in Nat
  BY <1>4, FS_CardinalityType
<1>7. Cardinality(J) < BatchSize
  BY DEF Oldest
<1>8. Cardinality(I) < BatchSize
  BY <1>5, <1>6, <1>7, OutboxAssumption
<1> QED
  BY <1>8 DEF Oldest

LEMMA OrderInit == Init => InOrder
BY OutboxAssumption DEF Init, InOrder, InsertedInOrder, WalkedInOrder, Alone, NoRowSkipped,
   SagaOrderKept

LEMMA InsertKeepsOrder ==
  ASSUME OrderInv, NEW s \in Saga, Insert(s)
  PROVE  InOrder'
<1>1. PICK r \in Row : /\ Fresh(r)
                       /\ row' = [row EXCEPT ![r] = "inserted"]
                       /\ owner' = [owner EXCEPT ![r] = s]
  BY DEF Insert
<1>2. /\ ~Writing(s)
      /\ UNCHANGED <<batch, todo, copies, overlapped>>
  BY DEF Insert, history
<1>3. /\ row \in [Row -> RowStatus] /\ owner \in [Row -> Saga \union {NoSaga}]
      /\ batch \in [Relay -> SUBSET Row]
  BY DEF OrderInv, OutboxInv, TypeOK
<1>4. /\ row[r] = "free" /\ \A q \in Row : q < r => row[q] # "free"
      /\ \A q \in Row : r < q => row[q] = "free"
      /\ \A q \in Row : q \in Int
  BY <1>1, OutboxAssumption DEF Fresh, OrderInv, InOrder, InsertedInOrder, Row
<1>5. /\ row'[r] = "inserted" /\ owner'[r] = s
      /\ \A q \in Row \ {r} : row'[q] = row[q] /\ owner'[q] = owner[q]
  BY <1>1, <1>3
<1>6. InsertedInOrder'
  <2>1. ASSUME NEW i \in Row, NEW j \in Row, i < j, row'[i] = "free"
        PROVE  row'[j] = "free"
    BY <1>4, <1>5, <2>1 DEF OrderInv, InOrder, InsertedInOrder
  <2>2. ASSUME NEW i \in Row, NEW j \in Row,
               i < j, owner'[i] = owner'[j], row'[j] # "free"
        PROVE  row'[i] # "inserted"
    <3>1. i # r
      BY <1>4, <1>5, <2>2
    <3>2. CASE j = r
      BY <1>2, <1>5, <2>2, <3>1, <3>2 DEF Writing
    <3>3. CASE j # r
      BY <1>5, <2>2, <3>1, <3>3 DEF OrderInv, InOrder, InsertedInOrder
    <3> QED
      BY <3>2, <3>3
  <2> QED
    BY <2>1, <2>2 DEF InsertedInOrder
<1>7. \A w \in Relay : r \notin batch[w]
  BY <1>4 DEF OrderInv, OutboxInv, HeldIsPending
<1>8. WalkedInOrder'
  BY <1>2 DEF OrderInv, InOrder, WalkedInOrder
<1>9. NoRowSkipped => NoRowSkipped'
  <2> SUFFICES ASSUME NoRowSkipped, NEW w \in Relay, NEW i \in Row, NEW j \in Row,
                      i < j, owner'[i] = owner'[j], j \in batch[w]
               PROVE  i \in batch[w] \/ Spent(i)'
    BY <1>2 DEF NoRowSkipped
  <2>1. j # r /\ row[j] # "free"
    BY <1>7 DEF OrderInv, OutboxInv, HeldIsPending
  <2>2. i # r
    BY <1>4, <2>1
  <2>3. i \in batch[w] \/ Spent(i)
    BY <1>5, <2>1, <2>2 DEF NoRowSkipped
  <2> QED
    BY <1>5, <2>2, <2>3 DEF Spent
<1>10. SagaOrderKept'
  <2> SUFFICES ASSUME ~overlapped, NEW i \in Row, NEW j \in Row,
                      i < j, owner'[i] = owner'[j], copies[j] > 0
               PROVE  copies[i] > 0 \/ row'[i] = "aborted"
    BY <1>2 DEF SagaOrderKept
  <2>1. row[j] \in {"pending", "published"}
    BY DEF OrderInv, OutboxInv, OnlyCommittedIsSent
  <2>2. j # r /\ i # r
    BY <1>4, <2>1
  <2>3. copies[i] > 0 \/ row[i] = "aborted"
    BY <1>5, <2>2 DEF OrderInv, InOrder, SagaOrderKept
  <2> QED
    BY <1>5, <2>2, <2>3
<1> QED
  BY <1>2, <1>6, <1>8, <1>9, <1>10 DEF OrderInv, InOrder, Alone

\* The end of the transaction that inserted a row.
LEMMA EndKeepsOrder ==
  ASSUME OrderInv, NEW r \in Row, Commit(r) \/ Rollback(r)
  PROVE  InOrder'
<1>1. /\ row[r] = "inserted"
      /\ row' = [row EXCEPT ![r] = IF Commit(r) THEN "pending" ELSE "aborted"]
      /\ UNCHANGED <<owner, batch, todo, copies, overlapped>>
  BY DEF Commit, Rollback, history
<1>2. /\ row'[r] \in {"pending", "aborted"}
      /\ \A q \in Row \ {r} : row'[q] = row[q]
  BY <1>1 DEF OrderInv, OutboxInv, TypeOK
<1>3. InsertedInOrder'
  BY <1>1, <1>2 DEF OrderInv, InOrder, InsertedInOrder
<1>4. WalkedInOrder'
  BY <1>1 DEF OrderInv, InOrder, WalkedInOrder
<1>5. NoRowSkipped => NoRowSkipped'
  BY <1>1, <1>2 DEF NoRowSkipped, Spent
<1>6. SagaOrderKept'
  BY <1>1, <1>2 DEF OrderInv, InOrder, SagaOrderKept
<1> QED
  BY <1>1, <1>3, <1>4, <1>5, <1>6 DEF OrderInv, InOrder, Alone

LEMMA TakeKeepsOrder ==
  ASSUME OrderInv, NEW w \in Relay, Take(w)
  PROVE  InOrder'
<1> DEFINE B == Oldest(Available)
<1>1. /\ batch[w] = {}
      /\ batch' = [batch EXCEPT ![w] = B] /\ todo' = [todo EXCEPT ![w] = B]
      /\ ~overlapped' <=> ~overlapped /\ \A v \in Relay \ {w} : batch[v] = {}
      /\ UNCHANGED <<row, owner, copies>>
  BY DEF Take, Meets
<1>2. batch \in [Relay -> SUBSET Row] /\ todo \in [Relay -> SUBSET Row]
  BY DEF OrderInv, OutboxInv, TypeOK
<1>3. /\ batch'[w] = B /\ todo'[w] = B
      /\ \A v \in Relay \ {w} : batch'[v] = batch[v] /\ todo'[v] = todo[v]
  BY <1>1, <1>2
<1>4. Available \subseteq Row /\ B \subseteq Available
  BY OldestInside DEF Available
<1>5. InsertedInOrder'
  BY <1>1 DEF OrderInv, InOrder, InsertedInOrder
<1>6. WalkedInOrder'
  <2> HIDE DEF B
  <2> SUFFICES ASSUME NEW v \in Relay, NEW i \in batch'[v], NEW j \in batch'[v],
                      i < j, j \notin todo'[v]
               PROVE  i \notin todo'[v]
    BY DEF WalkedInOrder
  <2>1. CASE v = w
    BY <1>3, <2>1
  <2>2. CASE v # w
    BY <1>3, <2>2 DEF OrderInv, InOrder, WalkedInOrder
  <2> QED
    BY <2>1, <2>2
<1>7. ASSUME ~overlapped' PROVE Alone' /\ NoRowSkipped'
  <2>1. \A v \in Relay \ {w} : batch'[v] = {}
    BY <1>1, <1>3, <1>7
  <2>2. Alone'
    BY <2>1 DEF Alone
  <2>3. Locked = {}
    BY <1>1, <1>7 DEF Locked
  <2>4. ASSUME NEW i \in Row, NEW j \in B, i < j, owner[i] = owner[j]
        PROVE  i \in B \/ Spent(i)
    <3>1. row[j] = "pending" /\ j \in Row
      BY <1>4 DEF Available
    <3>2. row[i] # "free" /\ row[i] # "inserted"
      BY <2>4, <3>1 DEF OrderInv, InOrder, InsertedInOrder
    <3>3. CASE row[i] = "pending"
      <4>1. i \in Available
        BY <2>3, <3>3 DEF Available
      <4> QED
        BY <1>4, <2>4, <4>1, OldestFirst
    <3> QED
      BY <3>2, <3>3 DEF Spent, OrderInv, OutboxInv, TypeOK, RowStatus
  <2> HIDE DEF B
  <2>5. NoRowSkipped'
    BY <1>1, <1>3, <1>4, <2>1, <2>4 DEF NoRowSkipped, Spent
  <2> QED
    BY <2>2, <2>5
<1>8. SagaOrderKept'
  BY <1>1 DEF OrderInv, InOrder, SagaOrderKept
<1> QED
  BY <1>5, <1>6, <1>7, <1>8 DEF InOrder

\* A copy of the oldest row of the batch that is still to be sent comes after
\* one of each row before it of the same saga.
LEMMA NextIsInOrder ==
  ASSUME OrderInv, ~overlapped, NEW w \in Relay, NEW r \in Row, NextRow(w, r),
         NEW i \in Row, i < r, owner[i] = owner[r]
  PROVE  copies[i] > 0 \/ row[i] = "aborted"
<1>1. r \in batch[w]
  BY DEF NextRow, OrderInv, OutboxInv, TypeOK
<1>2. i \in batch[w] \/ Spent(i)
  BY <1>1 DEF OrderInv, InOrder, NoRowSkipped
<1>3. i \notin todo[w]
  BY OutboxAssumption DEF NextRow, Row
<1>4. Held(i) \/ row[i] \in {"published", "aborted"}
  BY <1>2, <1>3 DEF Held, Spent
<1> QED
  BY <1>4 DEF OrderInv, OutboxInv, CopiesAccounted, TypeOK

LEMMA CopyKeepsOrder ==
  ASSUME OrderInv, NEW w \in Relay, NEW r \in Row, NextRow(w, r),
         copies' = [copies EXCEPT ![r] = @ + 1],
         UNCHANGED <<row, owner, overlapped>>
  PROVE  SagaOrderKept'
<1> SUFFICES ASSUME ~overlapped, NEW i \in Row, NEW j \in Row,
                    i < j, owner[i] = owner[j], copies'[j] > 0
             PROVE  copies'[i] > 0 \/ row[i] = "aborted"
  BY DEF SagaOrderKept
<1>1. \A q \in Row : /\ copies[q] \in Nat
                     /\ copies'[q] = IF q = r THEN copies[q] + 1 ELSE copies[q]
  BY DEF OrderInv, OutboxInv, TypeOK
<1>2. copies[i] > 0 \/ row[i] = "aborted"
  <2>1. CASE j = r
    BY <2>1, NextIsInOrder
  <2>2. CASE j # r
    BY <1>1, <2>2 DEF OrderInv, InOrder, SagaOrderKept
  <2> QED
    BY <2>1, <2>2
<1> QED
  BY <1>1, <1>2

LEMMA SendKeepsOrder ==
  ASSUME OrderInv, NEW w \in Relay, Send(w)
  PROVE  InOrder'
<1>1. PICK r \in Row :
        /\ NextRow(w, r)
        /\ todo' = [todo EXCEPT ![w] = @ \ {r}]
        /\ copies' = [copies EXCEPT ![r] = @ + 1]
        /\ UNCHANGED <<row, owner, batch, overlapped>>
  BY DEF Send
<1>2. SagaOrderKept'
  BY <1>1, CopyKeepsOrder
<1>3. WalkedInOrder'
  <2> SUFFICES ASSUME NEW v \in Relay, NEW i \in batch[v], NEW j \in batch[v],
                      i < j, j \notin todo'[v]
               PROVE  i \notin todo'[v]
    BY <1>1 DEF WalkedInOrder
  <2>1. todo'[v] = IF v = w THEN todo[v] \ {r} ELSE todo[v]
    BY <1>1 DEF OrderInv, OutboxInv, TypeOK
  <2>2. i \in Row /\ j \in Row
    BY DEF OrderInv, OutboxInv, TypeOK
  <2>3. CASE v = w /\ j = r
    BY <1>1, <2>1, <2>2, <2>3, OutboxAssumption DEF NextRow, Row
  <2>4. CASE ~(v = w /\ j = r)
    BY <2>1, <2>4 DEF OrderInv, InOrder, WalkedInOrder
  <2> QED
    BY <2>3, <2>4
<1>4. InsertedInOrder' /\ (Alone => Alone') /\ (NoRowSkipped => NoRowSkipped')
  BY <1>1 DEF OrderInv, InOrder, InsertedInOrder, Alone, NoRowSkipped, Spent
<1> QED
  BY <1>1, <1>2, <1>3, <1>4 DEF OrderInv, InOrder

LEMMA ReleaseKeepsOrder ==
  ASSUME OrderInv, NEW w \in Relay, Release(w), UNCHANGED overlapped,
         SagaOrderKept'
  PROVE  InOrder'
<1>1. /\ batch' = [batch EXCEPT ![w] = {}] /\ todo' = [todo EXCEPT ![w] = {}]
      /\ UNCHANGED <<row, owner>>
  BY DEF Release
<1>2. \A v \in Relay : /\ batch'[v] = IF v = w THEN {} ELSE batch[v]
                       /\ todo'[v] = IF v = w THEN {} ELSE todo[v]
  BY <1>1 DEF OrderInv, OutboxInv, TypeOK
<1>3. InsertedInOrder'
  BY <1>1 DEF OrderInv, InOrder, InsertedInOrder
<1>4. WalkedInOrder'
  BY <1>2 DEF OrderInv, InOrder, WalkedInOrder
<1>5. (Alone => Alone') /\ (NoRowSkipped => NoRowSkipped')
  BY <1>1, <1>2 DEF Alone, NoRowSkipped, Spent
<1> QED
  BY <1>3, <1>4, <1>5 DEF OrderInv, InOrder

LEMMA CommitBatchKeepsOrder ==
  ASSUME OrderInv, NEW w \in Relay, CommitBatch(w)
  PROVE  InOrder'
<1>1. /\ row' = [r \in Row |-> IF r \in batch[w] THEN "published" ELSE row[r]]
      /\ batch' = [batch EXCEPT ![w] = {}]
      /\ UNCHANGED <<owner, todo, copies, overlapped>>
  BY DEF CommitBatch, history
<1>2. \A v \in Relay : batch'[v] = IF v = w THEN {} ELSE batch[v]
  BY <1>1 DEF OrderInv, OutboxInv, TypeOK
<1>3. \A q \in Row : /\ row'[q] = row[q] \/ (row[q] = "pending" /\ row'[q] = "published")
                     /\ Spent(q) => Spent(q)'
  <2> SUFFICES ASSUME NEW q \in Row
               PROVE  /\ row'[q] = row[q] \/ (row[q] = "pending" /\ row'[q] = "published")
                      /\ Spent(q) => Spent(q)'
    OBVIOUS
  <2>1. row'[q] = IF q \in batch[w] THEN "published" ELSE row[q]
    BY <1>1
  <2>2. q \in batch[w] => row[q] = "pending"
    BY DEF OrderInv, OutboxInv, HeldIsPending
  <2> QED
    BY <2>1, <2>2 DEF Spent
<1>4. InsertedInOrder'
  BY <1>1, <1>3 DEF OrderInv, InOrder, InsertedInOrder
<1>5. WalkedInOrder'
  BY <1>1, <1>2 DEF OrderInv, InOrder, WalkedInOrder
<1>6. (Alone => Alone') /\ (NoRowSkipped => NoRowSkipped')
  BY <1>1, <1>2, <1>3 DEF Alone, NoRowSkipped
<1>7. SagaOrderKept'
  BY <1>1, <1>3 DEF OrderInv, InOrder, SagaOrderKept
<1> QED
  BY <1>1, <1>4, <1>5, <1>6, <1>7 DEF OrderInv, InOrder

LEMMA OrderStep == OrderInv /\ [Next]_vars => OrderInv'
<1> SUFFICES ASSUME OrderInv, [Next]_vars
             PROVE  InOrder'
  BY OutboxStep DEF OrderInv
<1>1. ASSUME NEW s \in Saga, Insert(s) PROVE InOrder'
  BY <1>1, InsertKeepsOrder
<1>2. ASSUME NEW r \in Row, Commit(r) \/ Rollback(r) PROVE InOrder'
  BY <1>2, EndKeepsOrder
<1>3. ASSUME NEW w \in Relay, RelayStep(w) PROVE InOrder'
  BY <1>3, TakeKeepsOrder, SendKeepsOrder, CommitBatchKeepsOrder DEF RelayStep
<1>4. ASSUME NEW w \in Relay, SendFails(w) PROVE InOrder'
  <2>1. PICK r \in Row : /\ NextRow(w, r)
                         /\ UNCHANGED copies \/ copies' = [copies EXCEPT ![r] = @ + 1]
    BY <1>4 DEF SendFails
  <2>2. Release(w) /\ UNCHANGED <<row, owner, overlapped>>
    BY <1>4 DEF SendFails, Release
  <2>3. CASE UNCHANGED copies
    BY <2>2, <2>3, ReleaseKeepsOrder DEF OrderInv, InOrder, SagaOrderKept
  <2>4. CASE copies' = [copies EXCEPT ![r] = @ + 1]
    BY <2>1, <2>2, <2>4, CopyKeepsOrder, ReleaseKeepsOrder
  <2> QED
    BY <2>1, <2>3, <2>4
<1>5. ASSUME NEW w \in Relay, Crash(w) PROVE InOrder'
  <2>1. Release(w) /\ UNCHANGED <<row, owner, copies, overlapped>>
    BY <1>5 DEF Crash, Release
  <2> QED
    BY <2>1, ReleaseKeepsOrder DEF OrderInv, InOrder, SagaOrderKept
<1>6. CASE UNCHANGED vars
  BY <1>6 DEF vars, history, OrderInv, InOrder, InsertedInOrder, WalkedInOrder, Alone,
     NoRowSkipped, Spent, SagaOrderKept
<1> QED
  BY <1>1, <1>2, <1>3, <1>4, <1>5, <1>6 DEF Next

\* The commands of one saga reach their queues in the order they were decided,
\* in every history in which no two relays held batches at the same time.
THEOREM SagaOrderKeptHolds == Spec => []SagaOrderKept
<1>1. Init => OrderInv
  BY OutboxInit, OrderInit DEF OrderInv
<1>2. OrderInv => SagaOrderKept
  BY DEF OrderInv, InOrder
<1> QED
  BY <1>1, <1>2, OrderStep, PTL DEF Spec

-----------------------------------------------------------------------------
(* The outbox delivers at least once, as far as safety goes.               *)

ChannelStep == Channel!Next \/ UNCHANGED <<Committed, copies>>

LEMMA InitImplements == Init => Channel!Init
BY DEF Init, Channel!Init, Committed

LEMMA WriteImplements ==
  ASSUME OutboxInv, (\E s \in Saga : Insert(s)) \/ (\E r \in Row : Commit(r) \/ Rollback(r))
  PROVE  ChannelStep
<1> copies' = copies
  BY DEF Insert, Commit, Rollback, history
<1>1. row \in [Row -> RowStatus]
  BY DEF OutboxInv, TypeOK
<1>2. ASSUME NEW s \in Saga, Insert(s)
      PROVE  Committed' = Committed
  BY <1>1, <1>2 DEF Insert, Fresh, Committed
<1>3. ASSUME NEW r \in Row, Rollback(r)
      PROVE  Committed' = Committed
  BY <1>1, <1>3 DEF Rollback, Committed
<1>4. ASSUME NEW r \in Row, Commit(r)
      PROVE  Channel!Accept(r)
  BY <1>1, <1>4 DEF Commit, Committed, Channel!Accept
<1> QED
  BY <1>2, <1>3, <1>4 DEF ChannelStep, Channel!Next

\* Whatever a relay does to the rows it holds, none ceases to be committed; a
\* copy is one of a row it holds.
LEMMA RelayImplements ==
  ASSUME OutboxInv, NEW w \in Relay, RelayStep(w) \/ SendFails(w) \/ Crash(w)
  PROVE  ChannelStep
<1>1. row \in [Row -> RowStatus] /\ batch[w] \subseteq Committed /\ todo[w] \subseteq batch[w]
  BY DEF OutboxInv, TypeOK, HeldIsPending, Committed
<1>2. Committed' = Committed
  <2>1. CASE CommitBatch(w)
    BY <1>1, <2>1 DEF CommitBatch, Committed
  <2>2. CASE UNCHANGED row
    BY <2>2 DEF Committed
  <2>3. CommitBatch(w) \/ UNCHANGED row
    BY DEF RelayStep, Take, Send, SendFails, Crash, Release
  <2> QED
    BY <2>1, <2>2, <2>3
<1>3. \/ UNCHANGED copies
      \/ \E r \in todo[w] : copies' = [copies EXCEPT ![r] = @ + 1]
  BY DEF RelayStep, Take, Send, CommitBatch, SendFails, Crash, NextRow, history
<1>4. ASSUME NEW r \in todo[w], copies' = [copies EXCEPT ![r] = @ + 1]
      PROVE  r \in Row /\ Channel!Deliver(r)
  BY <1>1, <1>2, <1>4 DEF Channel!Deliver, Committed
<1> QED
  BY <1>2, <1>3, <1>4 DEF ChannelStep, Channel!Next

LEMMA StepImplements == OutboxInv /\ [Next]_vars => ChannelStep
BY WriteImplements, RelayImplements DEF Next, ChannelStep, vars, history, Committed

\* However many relays fail wherever they do, nothing reaches a queue that was
\* not committed, and what was committed stays so.
THEOREM OutboxImplementsAtLeastOnce == Spec => Channel!Spec
<1>1. ChannelStep <=> [Channel!Next]_<<Committed, copies>>
  BY DEF ChannelStep
<1> QED
  BY <1>1, InitImplements, StepImplements, OutboxInvHolds, PTL DEF Spec, Channel!Spec
=============================================================================
