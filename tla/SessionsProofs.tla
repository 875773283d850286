---------------------------- MODULE SessionsProofs ----------------------------
(***************************************************************************)
(* Proofs about the transactions over one service order, for any number of *)
(* threads and requests.  SessionsInv is inductive: the lock of the saga is *)
(* held from the read to the commit, so a read does not go out of date; the *)
(* order leaves "open" only with its saga over, after which nobody decides, *)
(* so what a delivery saw before it waited still holds.                    *)
(***************************************************************************)
EXTENDS SessionsProperties, TLAPS

LEMMA SessionsInit == Init => SessionsInv
<1> SUFFICES ASSUME Init PROVE SessionsInv
  OBVIOUS
<1> USE SessionsAssumption DEF SessionsAssumption, Init
<1>1. TypeOK
  <2>1. Never \in Nat /\ due \in 0..Never
    BY DEF Never
  <2>2. now \in [Session -> 0..clock] /\ clock \in 0..MaxClock
    OBVIOUS
  <2>3. /\ pc \in [Session -> {"idle", "saga", "decide", "order", "deliver", "cascade"}]
        /\ \A p \in Session : pc[p] \notin {"decide", "order", "cascade"}
    OBVIOUS
  <2>4. stale \subseteq Session /\ exists \in BOOLEAN /\ over \in BOOLEAN
    OBVIOUS
  <2>5. /\ sagaLock \in Session \union {Nobody} /\ orderLock \in Session \union {Nobody}
        /\ order \in {"open", "FINISHED", "CANCELLED", "DELIVERED"}
    OBVIOUS
  <2> HIDE DEF Init
  <2> QED
    BY <2>1, <2>2, <2>3, <2>4, <2>5 DEF TypeOK
<1>2. DecidesOnCurrentRow /\ OrderFacts
  BY DEF DecidesOnCurrentRow, OrderFacts
<1> QED
  BY <1>1, <1>2 DEF SessionsInv

\* Threads that start: nothing is locked yet, but a delivery has seen FINISHED.
LEMMA BeginKeeps ==
  ASSUME SessionsInv, NEW p \in Session, Begin(p) \/ ListDue(p) \/ CheckFinished(p)
  PROVE  SessionsInv'
<1> USE SessionsAssumption DEF SessionsInv, TypeOK, Never, Begin, ListDue, CheckFinished,
  Goto, rowVars, lockVars
<1>1. TypeOK'
  BY DEF DecidesOnCurrentRow
<1>2. DecidesOnCurrentRow'
  BY DEF DecidesOnCurrentRow
<1>3. OrderFacts'
  BY DEF DecidesOnCurrentRow, OrderFacts
<1> QED
  BY <1>1, <1>2, <1>3 DEF SessionsInv

\* The lock is taken with a fresh read of the row, or the row is gone.
LEMMA LockKeeps ==
  ASSUME SessionsInv, NEW p \in Session, LockSaga(p)
  PROVE  SessionsInv'
<1> USE SessionsAssumption DEF SessionsInv, TypeOK, Never, LockSaga, ReadSaga, Unlock, End,
  Goto, rowVars, lockVars
<1>1. TypeOK'
  BY DEF DecidesOnCurrentRow
<1>2. DecidesOnCurrentRow'
  BY DEF DecidesOnCurrentRow
<1>3. OrderFacts'
  BY DEF DecidesOnCurrentRow, OrderFacts
<1> QED
  BY <1>1, <1>2, <1>3 DEF SessionsInv

\* A transaction that ends without writing frees its own locks only.
LEMMA EndKeeps ==
  ASSUME SessionsInv, NEW p \in Session, Ignore(p) \/ Abort(p) \/ Crash(p)
  PROVE  SessionsInv'
<1> USE SessionsAssumption DEF SessionsInv, TypeOK, Never, Ignore, Abort, Crash, InCycle, Unlock, End,
  Goto, rowVars, lockVars
<1>1. TypeOK'
  BY DEF DecidesOnCurrentRow
<1>2. DecidesOnCurrentRow'
  BY DEF DecidesOnCurrentRow
<1>3. OrderFacts'
  BY DEF DecidesOnCurrentRow, OrderFacts
<1> QED
  BY <1>1, <1>2, <1>3 DEF SessionsInv

\* A commit of the saga alone: nobody else is deciding, for p has the lock.
LEMMA CommitKeeps ==
  ASSUME SessionsInv, NEW p \in Session, Commit(p)
  PROVE  SessionsInv'
<1> USE SessionsAssumption DEF SessionsInv, TypeOK, Never, Commit, Decides, Deadlines, SaveSaga, Unlock, End,
  Goto, rowVars, lockVars
<1>1. TypeOK'
  BY DEF DecidesOnCurrentRow
<1>2. DecidesOnCurrentRow'
  BY DEF DecidesOnCurrentRow
<1>3. OrderFacts'
  BY DEF DecidesOnCurrentRow, OrderFacts
<1> QED
  BY <1>1, <1>2, <1>3 DEF SessionsInv

\* The wait for the order keeps the saga locked, and so what was decided.
LEMMA WantOrderKeeps ==
  ASSUME SessionsInv, NEW p \in Session, WantOrder(p)
  PROVE  SessionsInv'
<1> USE SessionsAssumption DEF SessionsInv, TypeOK, Never, WantOrder, Decides,
  Goto, rowVars, lockVars
<1>1. TypeOK'
  BY DEF DecidesOnCurrentRow
<1>2. DecidesOnCurrentRow'
  BY DEF DecidesOnCurrentRow
<1>3. OrderFacts'
  BY DEF DecidesOnCurrentRow, OrderFacts
<1> QED
  BY <1>1, <1>2, <1>3 DEF SessionsInv

\* The order is written by the one session that holds its saga, which is not
\* over, so nobody has yet seen the order finished.
LEMMA CommitWithOrderKeeps ==
  ASSUME SessionsInv, NEW p \in Session, CommitWithOrder(p)
  PROVE  SessionsInv'
<1> USE SessionsAssumption DEF SessionsInv, TypeOK, Never, CommitWithOrder, Deadlines, SaveSaga, Unlock, End,
  Goto, rowVars, lockVars
<1>1. TypeOK'
  <2>1. due' \in 0..Never
    BY DEF Session
  <2>2. order' \in {"open", "FINISHED", "CANCELLED", "DELIVERED"} /\ over' \in BOOLEAN
    OBVIOUS
  <2>3. /\ pc' \in [Session -> {"idle", "saga", "decide", "order", "deliver", "cascade"}]
        /\ \A q \in Session : pc'[q] \in {"decide", "order"} => sagaLock' = q
        /\ \A q \in Session : pc'[q] = "cascade" => orderLock' = q
        /\ sagaLock' \in Session \union {Nobody}
        /\ orderLock' \in Session \union {Nobody}
    OBVIOUS
  <2>4. stale' \subseteq Session
    OBVIOUS
  <2>5. UNCHANGED <<exists, now, clock>>
    OBVIOUS
  <2> QED
    BY <2>1, <2>2, <2>3, <2>4, <2>5
<1>2. DecidesOnCurrentRow'
  BY DEF DecidesOnCurrentRow
<1>3. OrderFacts'
  BY DEF DecidesOnCurrentRow, OrderFacts
<1> QED
  BY <1>1, <1>2, <1>3 DEF SessionsInv

\* A delivery writes on what it saw before it waited.
LEMMA DeliverKeeps ==
  ASSUME SessionsInv, NEW p \in Session, Deliver(p)
  PROVE  SessionsInv'
<1> USE SessionsAssumption DEF SessionsInv, TypeOK, Never, Deliver, Unlock, End,
  Goto, rowVars, lockVars
<1>1. TypeOK'
  BY DEF DecidesOnCurrentRow
<1>2. DecidesOnCurrentRow'
  BY DEF DecidesOnCurrentRow
<1>3. OrderFacts'
  BY DEF DecidesOnCurrentRow, OrderFacts
<1> QED
  BY <1>1, <1>2, <1>3 DEF SessionsInv

\* The deletion has both locks when the rows go.
LEMMA DeleteKeeps ==
  ASSUME SessionsInv, NEW p \in Session, DeleteOrder(p) \/ DeleteSaga(p)
  PROVE  SessionsInv'
<1> USE SessionsAssumption DEF SessionsInv, TypeOK, Never, DeleteOrder, DeleteSaga, Unlock, End,
  Goto, rowVars, lockVars
<1>1. TypeOK'
  BY DEF DecidesOnCurrentRow
<1>2. DecidesOnCurrentRow'
  BY DEF DecidesOnCurrentRow
<1>3. OrderFacts'
  BY DEF DecidesOnCurrentRow, OrderFacts
<1> QED
  BY <1>1, <1>2, <1>3 DEF SessionsInv

LEMMA TickKeeps == ASSUME SessionsInv, Tick PROVE SessionsInv'
BY SessionsAssumption DEF SessionsInv, TypeOK, DecidesOnCurrentRow, OrderFacts, Tick, Never,
   rowVars, lockVars

LEMMA SessionsNext == SessionsInv /\ [Next]_vars => SessionsInv'
<1> SUFFICES ASSUME SessionsInv, [Next]_vars PROVE SessionsInv'
  OBVIOUS
<1>1. CASE \E p \in Session : Begin(p) \/ ListDue(p) \/ CheckFinished(p)
  BY <1>1, BeginKeeps
<1>2. CASE \E p \in Session : LockSaga(p)
  BY <1>2, LockKeeps
<1>3. CASE \E p \in Session : Ignore(p) \/ Abort(p) \/ Crash(p)
  BY <1>3, EndKeeps
<1>4. CASE \E p \in Session : Commit(p)
  BY <1>4, CommitKeeps
<1>5. CASE \E p \in Session : WantOrder(p)
  BY <1>5, WantOrderKeeps
<1>6. CASE \E p \in Session : CommitWithOrder(p)
  BY <1>6, CommitWithOrderKeeps
<1>7. CASE \E p \in Session : Deliver(p)
  BY <1>7, DeliverKeeps
<1>8. CASE \E p \in Session : DeleteOrder(p) \/ DeleteSaga(p)
  BY <1>8, DeleteKeeps
<1>9. CASE Tick
  BY <1>9, TickKeeps
<1>10. CASE UNCHANGED vars
  BY <1>10 DEF vars, rowVars, lockVars, SessionsInv, TypeOK, DecidesOnCurrentRow,
     OrderFacts, Never
<1> QED
  BY <1>1, <1>2, <1>3, <1>4, <1>5, <1>6, <1>7, <1>8, <1>9, <1>10 DEF Next, Proceed

\* SessionsInv holds in every reachable state.
THEOREM SessionsInvHolds == Spec => []SessionsInv
<1> QED
  BY SessionsInit, SessionsNext, PTL DEF Spec

\* Every variable keeps its type, and the locks the sessions that hold them.
THEOREM SessionsTypeCorrect == Spec => []TypeOK
<1>1. SessionsInv => TypeOK
  BY DEF SessionsInv
<1> QED
  BY <1>1, SessionsInvHolds, PTL

\* Whatever threads and requests overlap on a service order, each decides on
\* the row that it then writes.
THEOREM DecidesOnCurrentRowHolds == Spec => []DecidesOnCurrentRow
<1>1. SessionsInv => DecidesOnCurrentRow
  BY DEF SessionsInv
<1> QED
  BY <1>1, SessionsInvHolds, PTL

\* A deadline that was moved or cleared after the checker listed it does not
\* act, however many checkers there are and however long their rounds take.
THEOREM ChecksActOnExpiredHolds == Spec => ChecksActOnExpired
<1>1. SessionsInv /\ [Next]_vars =>
        [\A p \in Checker :
           pc[p] \in {"decide", "order"} /\ pc'[p] = "idle" /\ due' # due => due <= clock]_vars
  <2> SUFFICES ASSUME SessionsInv, Next, NEW p \in Checker,
                      pc[p] \in {"decide", "order"}, pc'[p] = "idle", due' # due
               PROVE  due <= clock
    BY DEF SessionsInv
  <2> USE SessionsAssumption DEF SessionsInv, TypeOK, Goto, rowVars, lockVars, Never
  <2>0. p \in Session
    BY DEF Session
  <2>1. ASSUME NEW q \in Session, Commit(q) PROVE due <= now[p]
    BY <2>0, <2>1 DEF Commit, Decides, End, DecidesOnCurrentRow
  <2>2. ASSUME NEW q \in Session, CommitWithOrder(q) PROVE due <= now[p]
    BY <2>0, <2>2 DEF CommitWithOrder, End, OrderFacts
  <2>3. ASSUME NEW q \in Session,
               \/ Begin(q) \/ ListDue(q) \/ CheckFinished(q) \/ DeleteOrder(q)
               \/ LockSaga(q) \/ Ignore(q) \/ WantOrder(q) \/ Deliver(q)
               \/ DeleteSaga(q) \/ Abort(q) \/ Crash(q)
        PROVE  FALSE
    BY <2>3 DEF Begin, ListDue, CheckFinished, DeleteOrder, LockSaga, ReadSaga, Ignore,
       WantOrder, Deliver, DeleteSaga, Abort, Crash
  <2>4. CASE Tick
    BY <2>4 DEF Tick
  <2>5. now[p] <= clock /\ now[p] \in Nat /\ due \in Nat /\ clock \in Nat
    BY <2>0
  <2> QED
    BY <2>1, <2>2, <2>3, <2>4, <2>5 DEF Next, Proceed
<1> QED
  BY <1>1, SessionsInvHolds, PTL DEF Spec, ChecksActOnExpired

\* An order that was delivered stays so, and only a finished one is: the
\* missing check under the lock can repeat a delivery, it cannot misplace one.
THEOREM DeliveryIsFinalHolds == Spec => DeliveryIsFinal
<1>1. SessionsInv /\ [Next]_vars =>
        [/\ order' = "DELIVERED" => order \in {"FINISHED", "DELIVERED"}
         /\ order = "DELIVERED" => order' = "DELIVERED"]_vars
  <2> DEFINE Fine == \/ order' # "DELIVERED" /\ order = "open"
                     \/ order' = "DELIVERED" /\ order \in {"FINISHED", "DELIVERED"}
  <2> SUFFICES ASSUME SessionsInv, Next, order' # order
               PROVE  Fine
    BY DEF vars, rowVars
  <2> USE DEF SessionsInv, TypeOK, OrderFacts, rowVars
  <2>1. ASSUME NEW q \in Session, CommitWithOrder(q)
        PROVE  Fine
    BY <2>1 DEF CommitWithOrder
  <2>2. ASSUME NEW q \in Session, Deliver(q)
        PROVE  Fine
    BY <2>2 DEF Deliver
  <2>3. ASSUME NEW q \in Session,
               \/ Begin(q) \/ ListDue(q) \/ CheckFinished(q) \/ DeleteOrder(q)
               \/ LockSaga(q) \/ Ignore(q) \/ WantOrder(q) \/ Commit(q)
               \/ DeleteSaga(q) \/ Abort(q) \/ Crash(q)
        PROVE  FALSE
    BY <2>3 DEF Begin, ListDue, CheckFinished, DeleteOrder, LockSaga, Ignore,
       WantOrder, Commit, DeleteSaga, Abort, Crash
  <2>4. Tick => FALSE
    BY DEF Tick
  <2> HIDE DEF Fine, SessionsInv, TypeOK, OrderFacts, rowVars
  <2> QED
    BY <2>1, <2>2, <2>3, <2>4 DEF Next, Proceed
<1> QED
  BY <1>1, SessionsInvHolds, PTL DEF Spec, DeliveryIsFinal
=============================================================================
