---------------------------- MODULE SagaSessions ----------------------------
(***************************************************************************)
(* The transactions that meet over the rows of one service order: its saga *)
(* row and its order row in PostgreSQL (app/saga/application/              *)
(* orchestrator.py, app/saga/adapters/sqlalchemy_uow.py, apply_change of   *)
(* app/service_orders/adapters/sqlalchemy_repository.py, DeliverOrderUseCase *)
(* and the cascade of DELETE /clients and /vehicles).                      *)
(*                                                                         *)
(* A session is a thread with a transaction of its own.  What the state    *)
(* machine decides is abstracted to whether it changes the saga, which     *)
(* deadline it leaves and whether it writes the order (ServiceOrderSaga    *)
(* has the decisions); what is kept is which locks are taken, in which     *)
(* order, and what is read before and used after a lock is held.           *)
(***************************************************************************)
EXTENDS Naturals

CONSTANTS
  Consumer,    \* threads that consume events, one per worker process
  Checker,     \* threads that check deadlines, one per worker process
  Retrier,     \* requests POST /service-orders/{id}/saga/retry
  Deliverer,   \* requests POST /service-orders/{id}/deliver
  Deleter,     \* requests that delete the client or the vehicle of the order
  Nobody,      \* the holder of a lock that is free
  Reply,       \* SagaTimeouts.reply
  MaxClock     \* bound on time

Session == Consumer \union Checker \union Retrier \union Deliverer \union Deleter

ASSUME SessionsAssumption ==
  /\ Nobody \notin Session
  /\ \A p \in Session :
       /\ p \in Consumer => p \notin Checker \union Retrier \union Deliverer \union Deleter
       /\ p \in Checker => p \notin Retrier \union Deliverer \union Deleter
       /\ p \in Retrier => p \notin Deliverer \union Deleter
       /\ p \in Deliverer => p \notin Deleter
  /\ Reply \in Nat \ {0}
  /\ MaxClock \in Nat

\* deadline_at null.
Never == MaxClock + Reply + 1

VARIABLES
  exists,     \* the order and its saga are in the database
  due,        \* the deadline_at of the saga
  over,       \* its state is terminal
  order,      \* the status of the order, as far as deliveries can tell
  sagaLock,   \* the session that has the saga row FOR UPDATE
  orderLock,  \* the session that has the order row FOR UPDATE
  pc,         \* where each session is
  stale,      \* history: sessions whose read of the saga is out of date
  now,        \* the time a checker took before listing what is due
  clock

rowVars == <<exists, due, over, order>>
lockVars == <<sagaLock, orderLock>>
vars == <<rowVars, lockVars, pc, stale, now, clock>>

Init == /\ exists = TRUE
        /\ due = Reply
        /\ over = FALSE
        /\ order = "open"
        /\ sagaLock = Nobody
        /\ orderLock = Nobody
        /\ pc = [p \in Session |-> "idle"]
        /\ stale = {}
        /\ now = [p \in Session |-> 0]
        /\ clock = 0

-----------------------------------------------------------------------------
(* Locks.                                                                  *)

Goto(p, place) == pc' = [pc EXCEPT ![p] = place]

\* Mutant: __exit__ leaves the transaction open.
Unlock_LeftOpen(p) == UNCHANGED lockVars

\* The end of a transaction frees whatever it had locked.
Unlock(p) ==
  /\ sagaLock' = IF sagaLock = p THEN Nobody ELSE sagaLock
  /\ orderLock' = IF orderLock = p THEN Nobody ELSE orderLock

End(p) == Goto(p, "idle") /\ Unlock(p)

\* Mutant: the row is read without FOR UPDATE.
ReadSaga_NoLock(p) ==
  \/ /\ exists
     /\ stale' = stale \ {p}
     /\ Goto(p, "decide")
     /\ UNCHANGED lockVars
  \/ /\ ~exists
     /\ End(p)
     /\ UNCHANGED stale

\* get and get_by_order with for_update: waits for the lock, reads what the
\* last holder committed; with no row there is nothing to do.
ReadSaga(p) ==
  \/ /\ exists
     /\ sagaLock = Nobody
     /\ sagaLock' = p
     /\ stale' = stale \ {p}
     /\ Goto(p, "decide")
     /\ UNCHANGED orderLock
  \/ /\ ~exists
     /\ End(p)
     /\ UNCHANGED stale

-----------------------------------------------------------------------------
(* handle_event, process_deadlines and retry.                              *)

\* An event, a retry: there is always one to come.
Begin(p) ==
  /\ p \in Consumer \union Retrier
  /\ pc[p] = "idle"
  /\ exists
  /\ Goto(p, "saga")
  /\ UNCHANGED <<rowVars, lockVars, stale, now, clock>>

\* list_due, in a transaction of its own, with the time of the whole round.
ListDue(p) ==
  /\ p \in Checker
  /\ pc[p] = "idle"
  /\ exists
  /\ due <= clock
  /\ now' = [now EXCEPT ![p] = clock]
  /\ Goto(p, "saga")
  /\ UNCHANGED <<rowVars, lockVars, stale, clock>>

LockSaga(p) ==
  /\ pc[p] = "saga"
  /\ ReadSaga(p)
  /\ UNCHANGED <<rowVars, now, clock>>

\* Mutant: the events of a saga that is over are handled too.
Decides_OverToo(p) ==
  \/ p \in Consumer
  \/ p \in Retrier /\ ~over /\ due # Never
  \/ p \in Checker /\ ~over /\ due <= now[p]

\* Mutant: what list_due found is not looked at again under the lock.
Decides_NoRecheck(p) ==
  \/ p \in Consumer /\ ~over
  \/ p \in Retrier /\ ~over
  \/ p \in Checker /\ ~over

\* The conditions under which a decision may change the saga: a terminal state
\* ignores all, and a deadline is looked at again under the lock.
Decides(p) ==
  \/ p \in Consumer /\ ~over
  \/ p \in Retrier /\ ~over
  \/ p \in Checker /\ ~over /\ due <= now[p]

\* The deadlines a decision may leave: a checker counts from the time of its
\* round, the others from their own.
Deadlines(p) == {Never, (IF p \in Checker THEN now[p] ELSE clock) + Reply}

\* The row changes under whoever else is deciding on it.
SaveSaga(p) == stale' = stale \union {q \in Session \ {p} : pc[q] \in {"decide", "order"}}

\* Nothing to do: the row is saved as it was read.
Ignore(p) ==
  /\ pc[p] = "decide"
  /\ p \in Checker => ~Decides(p)
  /\ End(p)
  /\ UNCHANGED <<rowVars, stale, now, clock>>

\* The saga changes and the order does not.
Commit(p) ==
  /\ pc[p] = "decide"
  /\ Decides(p)
  /\ due' \in Deadlines(p)
  /\ SaveSaga(p)
  /\ End(p)
  /\ UNCHANGED <<exists, over, order, now, clock>>

\* apply_change: the order is locked as well, after the saga.
WantOrder(p) ==
  /\ pc[p] = "decide"
  /\ p \notin Retrier
  /\ Decides(p)
  /\ Goto(p, "order")
  /\ UNCHANGED <<rowVars, lockVars, stale, now, clock>>

\* The order is written: to another open status, or to the one its saga ends
\* with, and everything is committed at once.
CommitWithOrder(p) ==
  /\ pc[p] = "order"
  /\ orderLock = Nobody
  /\ SaveSaga(p)
  /\ \/ /\ order' = "open"
        /\ due' \in Deadlines(p)
        /\ UNCHANGED over
     \/ /\ order' \in (IF p \in Consumer THEN {"FINISHED", "CANCELLED"} ELSE {"CANCELLED"})
        /\ due' = Never
        /\ over' = TRUE
  /\ End(p)
  /\ UNCHANGED <<exists, now, clock>>

-----------------------------------------------------------------------------
(* Requests that start at the order.                                       *)

\* get_order and ensure_can_deliver: read without a lock.
CheckFinished(p) ==
  /\ p \in Deliverer
  /\ pc[p] = "idle"
  /\ exists
  /\ order = "FINISHED"
  /\ Goto(p, "deliver")
  /\ UNCHANGED <<rowVars, lockVars, stale, now, clock>>

\* apply_change and commit: the row is locked, its status not checked again.
Deliver(p) ==
  /\ pc[p] = "deliver"
  /\ \/ /\ exists
        /\ orderLock = Nobody
        /\ order' = "DELIVERED"
     \/ ~exists /\ UNCHANGED order
  /\ End(p)
  /\ UNCHANGED <<exists, due, over, stale, now, clock>>

\* DELETE of the order row, by the cascade from its client or vehicle.
DeleteOrder(p) ==
  /\ p \in Deleter
  /\ pc[p] = "idle"
  /\ exists
  /\ orderLock = Nobody
  /\ orderLock' = p
  /\ Goto(p, "cascade")
  /\ UNCHANGED <<rowVars, sagaLock, stale, now, clock>>

\* The cascade to the saga row waits for its lock; then all is committed.
DeleteSaga(p) ==
  /\ pc[p] = "cascade"
  /\ sagaLock = Nobody
  /\ exists' = FALSE
  /\ End(p)
  /\ UNCHANGED <<due, over, order, stale, now, clock>>

-----------------------------------------------------------------------------
(* PostgreSQL breaks a cycle of waits by aborting one of its transactions. *)

Waits(p) == pc[p] \in {"saga", "order", "deliver", "cascade"}

\* The session p waits for.
Blocker(p) == IF pc[p] \in {"saga", "cascade"} THEN sagaLock ELSE orderLock

InCycle(p) ==
  /\ Waits(p) /\ Blocker(p) # Nobody
  /\ LET q == Blocker(p)
     IN  Waits(q) /\ Blocker(q) = p

\* The transaction is rolled back; the caller logs it, or answers 500.
Abort(p) ==
  /\ InCycle(p)
  /\ End(p)
  /\ UNCHANGED <<rowVars, stale, now, clock>>

\* The process ends, or its connection does.
Crash(p) ==
  /\ pc[p] # "idle"
  /\ End(p)
  /\ UNCHANGED <<rowVars, stale, now, clock>>

Tick ==
  /\ clock < MaxClock
  /\ clock' = clock + 1
  /\ UNCHANGED <<rowVars, lockVars, pc, stale, now>>

-----------------------------------------------------------------------------

\* A transaction that has begun goes on, alone or once it has its lock.
Proceed(p) == \/ LockSaga(p) \/ Ignore(p) \/ Commit(p) \/ WantOrder(p)
              \/ CommitWithOrder(p) \/ Deliver(p) \/ DeleteSaga(p) \/ Abort(p)

Next == \/ \E p \in Session :
             \/ Begin(p) \/ ListDue(p) \/ CheckFinished(p) \/ DeleteOrder(p)
             \/ Proceed(p) \/ Crash(p)
        \/ Tick

\* Threads run, PostgreSQL grants a lock that stays free, and breaks cycles.
Fairness == \A p \in Session : SF_vars(Proceed(p))

Spec == Init /\ [][Next]_vars
FairSpec == Spec /\ Fairness
=============================================================================
