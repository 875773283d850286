-------------------------- MODULE RegistryProperties --------------------------
(***************************************************************************)
(* What must be true of the registry, whatever requests overlap.           *)
(***************************************************************************)
EXTENDS Registry

Txn == [document : Document \union {None}, plate : Plate \union {None},
        client : Client \union {None}, vehicle : Vehicle \union {None}, keeps : BOOLEAN]

Doomed == [client : Client \union {None}, vehicles : SUBSET Vehicle, orders : SUBSET Order]

\* The values every variable keeps to; the columns of a row are null together.
TypeOK ==
  /\ document \in [Client -> Document \union {None}]
  /\ owner \in [Vehicle -> Client \union {None}]
  /\ spelling \in [Vehicle -> Spelling \union {None}]
  /\ \A v \in Vehicle : spelling[v] = None <=> owner[v] = None
  /\ orderClient \in [Order -> Client \union {None}]
  /\ orderVehicle \in [Order -> Vehicle \union {None}]
  /\ saga \subseteq Order
  /\ outbox \subseteq Order
  /\ spent \subseteq Client \union Vehicle \union Order
  /\ pc \in [Request -> {"idle", "client", "find", "vehicle", "order", "delete"}]
  /\ txn \in [Request -> Txn]
  /\ doomed \in [Request -> Doomed]
  /\ asked \in [Order -> Document \union {None}]

\* However two openings, a POST /clients or a POST /vehicles overlap, one
\* document is one client and one text of a plate is one vehicle: the loser of
\* the race between SELECT and INSERT fails, it does not register a copy.
NoCopies ==
  /\ \A b, c \in Client : document[b] = document[c] /\ document[b] # None => b = c
  /\ \A u, v \in Vehicle : spelling[u] = spelling[v] /\ spelling[u] # None => u = v

\* No row refers to one that is gone, although a deletion loads the rows of
\* its cascade before it locks any of them.
NothingDangles ==
  /\ \A v \in Vehicle : spelling[v] # None => owner[v] # None /\ document[owner[v]] # None
  /\ \A o \in Order : orderClient[o] # None =>
       /\ document[orderClient[o]] # None
       /\ orderVehicle[o] # None
       /\ spelling[orderVehicle[o]] # None

\* "Ou a OS existe com a saga iniciada (e o primeiro comando na outbox), ou
\* nenhum dos dois" (app/service_orders/application/use_cases.py), and they go
\* together too.
OrderWithItsSaga ==
  \A o \in Order : /\ orderClient[o] # None <=> o \in saga
                   /\ o \in saga => o \in outbox

\* An order belongs, for as long as it exists, to the customer who opened it
\* and can be tracked with that document, whoever the vehicle went to since.
BelongsToWhoAsked ==
  \A o \in Order : orderClient[o] # None => document[orderClient[o]] = asked[o]

-----------------------------------------------------------------------------
(* The inductive strengthening.                                            *)

\* Ids of rows were drawn, and none is given out again.
DrawnRows ==
  /\ \A c \in Client : document[c] # None => c \in spent
  /\ \A v \in Vehicle : spelling[v] # None => v \in spent
  /\ \A o \in Order : orderClient[o] # None => o \in spent

\* The client an opening has found, or inserts, was not and will not be
\* anybody else's: the row is still what it was, or gone, and an insert has
\* its document to itself.
ClientsAreSafe ==
  /\ \A r \in Request :
       /\ pc[r] \notin {"idle", "delete"} => txn[r].document # None /\ txn[r].plate # None
       /\ WritesClient(r) => txn[r].client # None
       /\ pc[r] \notin {"idle", "delete"} /\ txn[r].client # None =>
            /\ txn[r].client \in spent
            /\ document[txn[r].client] \in {None, txn[r].document}
       /\ InsertsClient(r) => \A c \in Client : document[c] # txn[r].document
  /\ \A q, r \in Request : q # r =>
       /\ InsertsClient(q) /\ pc[r] = "client" => txn[q].client # txn[r].client
       /\ WritesClient(q) /\ WritesClient(r) => txn[q].client # txn[r].client
       /\ InsertsClient(q) /\ InsertsClient(r) => txn[q].document # txn[r].document

\* The same of its vehicle; one that is inserted does not keep an owner.
VehiclesAreSafe ==
  /\ \A r \in Request :
       /\ txn[r].keeps => pc[r] \in {"vehicle", "order"} /\ txn[r].vehicle # None
       /\ WritesVehicle(r) => txn[r].vehicle # None /\ txn[r].vehicle \in spent
       /\ InsertsVehicle(r) =>
            ~txn[r].keeps /\ \A v \in Vehicle : spelling[v] # txn[r].plate
  /\ \A q, r \in Request : q # r =>
       /\ WritesVehicle(q) /\ WritesVehicle(r) => txn[q].vehicle # txn[r].vehicle
       /\ InsertsVehicle(q) /\ InsertsVehicle(r) => txn[q].plate # txn[r].plate

RegistryInv ==
  /\ TypeOK
  /\ NoCopies
  /\ NothingDangles
  /\ OrderWithItsSaga
  /\ BelongsToWhoAsked
  /\ DrawnRows
  /\ ClientsAreSafe
  /\ VehiclesAreSafe
=============================================================================
