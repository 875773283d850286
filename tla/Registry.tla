------------------------------ MODULE Registry ------------------------------
(***************************************************************************)
(* The registry of the workshop: clients, vehicles and service orders, and *)
(* the requests that write them (app/clients, app/vehicles and             *)
(* POST /service-orders of app/service_orders).                            *)
(*                                                                         *)
(* An opening is one transaction of several statements, each of which reads *)
(* what is committed when it runs; rows it wrote stay locked until its end. *)
(* A deletion first loads the rows the ORM cascades to and then deletes     *)
(* them, ON DELETE CASCADE taking the rest.  The other requests are one     *)
(* statement.  A request that violates a constraint, or finds that its row  *)
(* is gone, ends in an error and rolls back; one that would wait for a lock *)
(* is not enabled.  Of the columns, only the keys are kept.                *)
(***************************************************************************)

CONSTANTS
  Client, Vehicle, Order,  \* row ids; no id is given out twice
  Document,                \* validated CPF and CNPJ numbers
  Plate,                   \* plates as validate_plate returns them
  Spelling,                \* texts that may be given as a plate
  Norm,                    \* the plate a text stands for, or None
  Request,                 \* openings and deletions in flight
  None                     \* null, and the absence of a row

ASSUME RegistryAssumption ==
  /\ None \notin Client \union Vehicle \union Document \union Spelling \union Request
  /\ Client \cap (Vehicle \union Order) = {}
  /\ Vehicle \cap Order = {}
  /\ Plate \subseteq Spelling
  /\ Norm \in [Spelling -> Plate \union {None}]
  /\ \A p \in Plate : Norm[p] = p

VARIABLES
  document,      \* clients.document_number; None where there is no row
  owner,         \* vehicles.client_id
  spelling,      \* vehicles.license_plate
  orderClient,   \* service_orders.client_id
  orderVehicle,  \* service_orders.vehicle_id
  saga,          \* the orders that have a saga
  outbox,        \* the orders whose first command is in outbox_messages
  spent,         \* ids drawn from the sequences
  pc, txn,       \* the openings: where each is, what it has read and written
  doomed,        \* the deletions: the rows they have loaded
  asked          \* history: the document each order was opened with

tables == <<document, owner, spelling, orderClient, orderVehicle, saga, outbox>>
requests == <<pc, txn, doomed>>
vars == <<tables, spent, requests, asked>>

NoTxn == [document |-> None, plate |-> None, client |-> None, vehicle |-> None,
          keeps |-> FALSE]
NoRows == [client |-> None, vehicles |-> {}, orders |-> {}]

Init == /\ document = [c \in Client |-> None]
        /\ owner = [v \in Vehicle |-> None]
        /\ spelling = [v \in Vehicle |-> None]
        /\ orderClient = [o \in Order |-> None]
        /\ orderVehicle = [o \in Order |-> None]
        /\ saga = {}
        /\ outbox = {}
        /\ spent = {}
        /\ pc = [r \in Request |-> "idle"]
        /\ txn = [r \in Request |-> NoTxn]
        /\ doomed = [r \in Request |-> NoRows]
        /\ asked = [o \in Order |-> None]

-----------------------------------------------------------------------------
(* Rows and their locks.                                                   *)

Goto(r, place) == pc' = [pc EXCEPT ![r] = place]

\* An id drawn for a new row; it stays drawn if the transaction rolls back.
Draw(id) == id \notin spent /\ spent' = spent \union {id}

\* SELECT ... WHERE column = value, on what is committed: the row, or none.
Finds(column, value, row) ==
  \/ row \in DOMAIN column /\ column[row] = value
  \/ row = None /\ \A other \in DOMAIN column : column[other] # value

\* What an opening has written so far: its client, then its vehicle.
WritesClient(r) == pc[r] \in {"find", "vehicle", "order"}
WritesVehicle(r) == pc[r] = "order"

\* The rows it keeps locked, and those of them that are not committed yet.
HoldsClient(r, c) == WritesClient(r) /\ txn[r].client = c
HoldsVehicle(r, v) == WritesVehicle(r) /\ txn[r].vehicle = v
InsertsClient(r) == WritesClient(r) /\ document[txn[r].client] = None
InsertsVehicle(r) == WritesVehicle(r) /\ spelling[txn[r].vehicle] = None

\* Mutant: the column has no unique index.
TakesDocument_Duplicated(r, d) == TRUE

\* The unique index lets r insert the value: no row has it, committed or not.
TakesDocument(r, d) ==
  /\ \A c \in Client : document[c] # d
  /\ \A q \in Request \ {r} : InsertsClient(q) => txn[q].document # d

TakesPlate(r, p) ==
  /\ \A v \in Vehicle : spelling[v] # p
  /\ \A q \in Request \ {r} : InsertsVehicle(q) => txn[q].plate # p

-----------------------------------------------------------------------------
(* POST /service-orders.                                                   *)

\* upsert_client, SELECT.
Begin(r) ==
  /\ pc[r] = "idle"
  /\ \E d \in Document, p \in Plate, c \in Client \union {None} :
       /\ Finds(document, d, c)
       /\ txn' = [txn EXCEPT ![r] = [NoTxn EXCEPT !.document = d, !.plate = p,
                                                  !.client = c]]
  /\ Goto(r, "client")
  /\ UNCHANGED <<tables, spent, doomed, asked>>

\* upsert_client, flush: INSERT, or UPDATE of the row found.
FlushClient(r) ==
  /\ pc[r] = "client"
  /\ \/ /\ txn[r].client # None
        /\ document[txn[r].client] # None
        /\ \A q \in Request \ {r} : ~HoldsClient(q, txn[r].client)
        /\ UNCHANGED <<txn, spent>>
     \/ /\ txn[r].client = None
        /\ TakesDocument(r, txn[r].document)
        /\ \E c \in Client : Draw(c) /\ txn' = [txn EXCEPT ![r].client = c]
  /\ Goto(r, "find")
  /\ UNCHANGED <<tables, doomed, asked>>

\* upsert_vehicle, SELECT: whether client_id will be part of the UPDATE is
\* decided by the value read here.
FindVehicle(r) ==
  /\ pc[r] = "find"
  /\ \E v \in Vehicle \union {None} :
       /\ Finds(spelling, txn[r].plate, v)
       /\ txn' = [txn EXCEPT ![r].vehicle = v,
                             ![r].keeps = v # None /\ owner[v] = txn[r].client]
  /\ Goto(r, "vehicle")
  /\ UNCHANGED <<tables, spent, doomed, asked>>

\* upsert_vehicle, flush.
FlushVehicle(r) ==
  /\ pc[r] = "vehicle"
  /\ \/ /\ txn[r].vehicle # None
        /\ spelling[txn[r].vehicle] # None
        /\ \A q \in Request \ {r} : ~HoldsVehicle(q, txn[r].vehicle)
        /\ UNCHANGED <<txn, spent>>
     \/ /\ txn[r].vehicle = None
        /\ TakesPlate(r, txn[r].plate)
        /\ \E v \in Vehicle : Draw(v) /\ txn' = [txn EXCEPT ![r].vehicle = v]
  /\ Goto(r, "order")
  /\ UNCHANGED <<tables, doomed, asked>>

Done(r) ==
  /\ Goto(r, "idle")
  /\ txn' = [txn EXCEPT ![r] = NoTxn]
  /\ doomed' = [doomed EXCEPT ![r] = NoRows]

\* The client and vehicle rows of the opening become visible.
CommitRows(r) ==
  LET c == txn[r].client
      v == txn[r].vehicle
  IN  /\ document' = [document EXCEPT ![c] = txn[r].document]
      /\ owner' = [owner EXCEPT ![v] = IF txn[r].keeps THEN @ ELSE c]
      /\ spelling' = [spelling EXCEPT ![v] = IF @ = None THEN txn[r].plate ELSE @]

\* Mutant: the saga is started in a transaction of its own, after the commit.
CommitOpening_SagaApart(r) ==
  /\ pc[r] = "order"
  /\ CommitRows(r)
  /\ \E o \in Order :
       /\ Draw(o)
       /\ orderClient' = [orderClient EXCEPT ![o] = txn[r].client]
       /\ orderVehicle' = [orderVehicle EXCEPT ![o] = txn[r].vehicle]
       /\ \/ /\ saga' = saga \union {o}
             /\ outbox' = outbox \union {o}
          \/ UNCHANGED <<saga, outbox>>
       /\ asked' = [asked EXCEPT ![o] = txn[r].document]
  /\ Done(r)

\* Mutant: the order goes to the client the vehicle is registered to.
CommitOpening_OwnerOfVehicle(r) ==
  /\ pc[r] = "order"
  /\ CommitRows(r)
  /\ \E o \in Order :
       /\ Draw(o)
       /\ orderClient' = [orderClient EXCEPT ![o] = owner'[txn[r].vehicle]]
       /\ orderVehicle' = [orderVehicle EXCEPT ![o] = txn[r].vehicle]
       /\ saga' = saga \union {o}
       /\ outbox' = outbox \union {o}
       /\ asked' = [asked EXCEPT ![o] = txn[r].document]
  /\ Done(r)

\* create_order, start_in and the commit: order, saga and first command.
CommitOpening(r) ==
  /\ pc[r] = "order"
  /\ CommitRows(r)
  /\ \E o \in Order :
       /\ Draw(o)
       /\ orderClient' = [orderClient EXCEPT ![o] = txn[r].client]
       /\ orderVehicle' = [orderVehicle EXCEPT ![o] = txn[r].vehicle]
       /\ saga' = saga \union {o}
       /\ outbox' = outbox \union {o}
       /\ asked' = [asked EXCEPT ![o] = txn[r].document]
  /\ Done(r)

\* A constraint is violated, a row is gone, a deadlock is broken, the process
\* ends: nothing of the request is left but the ids it drew.
Rollback(r) ==
  /\ pc[r] # "idle"
  /\ Done(r)
  /\ UNCHANGED <<tables, spent, asked>>

-----------------------------------------------------------------------------
(* POST /clients, POST and PUT /vehicles.                                  *)

PostClient(c, d) ==
  /\ TakesDocument(None, d)
  /\ Draw(c)
  /\ document' = [document EXCEPT ![c] = d]
  /\ UNCHANGED <<owner, spelling, orderClient, orderVehicle, saga, outbox,
                 requests, asked>>

PostVehicle(v, c, p) ==
  /\ document[c] # None
  /\ TakesPlate(None, p)
  /\ Draw(v)
  /\ owner' = [owner EXCEPT ![v] = c]
  /\ spelling' = [spelling EXCEPT ![v] = p]
  /\ UNCHANGED <<document, orderClient, orderVehicle, saga, outbox, requests, asked>>

\* Mutant: the fields a PUT leaves out are written as null.
PutVehicle_NullsOmitted(v, c, p) ==
  /\ spelling[v] # None
  /\ p = spelling[v] \/ TakesPlate(None, p)
  /\ \A r \in Request : ~HoldsVehicle(r, v)
  /\ owner' = [owner EXCEPT ![v] = None]
  /\ spelling' = [spelling EXCEPT ![v] = p]
  /\ UNCHANGED <<document, orderClient, orderVehicle, saga, outbox, spent,
                 requests, asked>>

\* VehicleUpdate has no validators: the plate is stored as it was written.
PutVehicle(v, c, p) ==
  /\ spelling[v] # None
  /\ document[c] # None
  /\ p = spelling[v] \/ TakesPlate(None, p)
  /\ \A r \in Request : ~HoldsVehicle(r, v)
  /\ owner' = [owner EXCEPT ![v] = c]
  /\ spelling' = [spelling EXCEPT ![v] = p]
  /\ UNCHANGED <<document, orderClient, orderVehicle, saga, outbox, spent,
                 requests, asked>>

-----------------------------------------------------------------------------
(* DELETE /clients and DELETE /vehicles.                                   *)

VehiclesOf(c) == {v \in Vehicle : c # None /\ owner[v] = c}

OrdersOf(c, vs) ==
  {o \in Order : orderClient[o] # None /\ (orderClient[o] = c \/ orderVehicle[o] \in vs)}

\* session.delete: the rows of the ORM's cascade are loaded, without a lock.
Load(r, c, vs) ==
  /\ pc[r] = "idle"
  /\ doomed' = [doomed EXCEPT ![r] =
                  [client |-> c, vehicles |-> vs, orders |-> OrdersOf(c, vs)]]
  /\ Goto(r, "delete")
  /\ UNCHANGED <<tables, spent, txn, asked>>

LoadClient(r) == \E c \in Client : document[c] # None /\ Load(r, c, VehiclesOf(c))

LoadVehicle(r) == \E v \in Vehicle : spelling[v] # None /\ Load(r, None, {v})

\* Mutant: only the rows the ORM has loaded are deleted.
Gone_LoadedOnly(r) == doomed[r]

\* What the transaction deletes: the rows loaded, whoever they belong to by
\* now, and the rows that refer to them.
Gone(r) ==
  LET c == doomed[r].client
      vs == doomed[r].vehicles \union VehiclesOf(c)
  IN  [client |-> c, vehicles |-> vs, orders |-> doomed[r].orders \union OrdersOf(c, vs)]

\* column without the rows.
Without(column, rows) ==
  [row \in DOMAIN column |-> IF row \in rows THEN None ELSE column[row]]

Delete(r) ==
  LET gone == Gone(r)
  IN  /\ pc[r] = "delete"
      /\ \A q \in Request : ~HoldsClient(q, gone.client)
      /\ \A q \in Request, v \in gone.vehicles : ~HoldsVehicle(q, v)
      /\ document' = Without(document, {gone.client})
      /\ owner' = Without(owner, gone.vehicles)
      /\ spelling' = Without(spelling, gone.vehicles)
      /\ orderClient' = Without(orderClient, gone.orders)
      /\ orderVehicle' = Without(orderVehicle, gone.orders)
      /\ saga' = saga \ gone.orders
      /\ Done(r)
      /\ UNCHANGED <<outbox, spent, asked>>

-----------------------------------------------------------------------------

Next ==
  \/ \E r \in Request :
       \/ Begin(r) \/ FlushClient(r) \/ FindVehicle(r) \/ FlushVehicle(r)
       \/ CommitOpening(r) \/ Rollback(r)
       \/ LoadClient(r) \/ LoadVehicle(r) \/ Delete(r)
  \/ \E c \in Client, d \in Document : PostClient(c, d)
  \/ \E v \in Vehicle, c \in Client, p \in Plate : PostVehicle(v, c, p)
  \/ \E v \in Vehicle, c \in Client, p \in Spelling : PutVehicle(v, c, p)

Spec == Init /\ [][Next]_vars
=============================================================================
