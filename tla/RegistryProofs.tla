---------------------------- MODULE RegistryProofs ----------------------------
(***************************************************************************)
(* Proofs about the registry, for any number of clients, vehicles, orders   *)
(* and overlapping requests.  RegistryInv is inductive: an opening holds    *)
(* what it will write, or has its id and its unique value to itself, so its *)
(* commit neither copies a row nor refers to one that is gone.              *)
(***************************************************************************)
EXTENDS RegistryProperties, TLAPS

LEMMA RegistryInit == Init => RegistryInv
<1> SUFFICES ASSUME Init PROVE RegistryInv
  OBVIOUS
<1> USE RegistryAssumption DEF RegistryAssumption, Init
<1>1. TypeOK
  BY DEF TypeOK, Txn, Doomed, NoTxn, NoRows
<1>2. NoCopies /\ NothingDangles /\ OrderWithItsSaga /\ BelongsToWhoAsked /\ DrawnRows
  BY DEF NoCopies, NothingDangles, OrderWithItsSaga, BelongsToWhoAsked, DrawnRows
<1>3. ClientsAreSafe /\ VehiclesAreSafe
  BY DEF ClientsAreSafe, VehiclesAreSafe, NoTxn, WritesClient, InsertsClient,
     WritesVehicle, InsertsVehicle
<1> QED
  BY <1>1, <1>2, <1>3 DEF RegistryInv

\* A step of an opening changes what that opening has noted.
LEMMA TxnChanges ==
  ASSUME TypeOK, NEW r \in Request, NEW new \in Txn, txn' = [txn EXCEPT ![r] = new]
  PROVE  /\ txn' \in [Request -> Txn]
         /\ txn'[r] = new
         /\ \A q \in Request : q # r => txn'[q] = txn[q]
  BY DEF TypeOK

\* What an opening notes while it runs.
LEMMA VehicleNoted ==
  ASSUME NEW t \in Txn, NEW v \in Vehicle \union {None}, NEW u,
         u = [t EXCEPT !.vehicle = v]
  PROVE  /\ u \in Txn /\ u.client = t.client /\ u.document = t.document
         /\ u.plate = t.plate /\ u.vehicle = v /\ u.keeps = t.keeps
  BY DEF Txn

\* A request that ends has nothing noted.
LEMMA DoneForgets ==
  ASSUME TypeOK, NEW r \in Request, Done(r)
  PROVE  /\ pc' \in [Request -> {"idle", "client", "find", "vehicle", "order", "delete"}]
         /\ txn' \in [Request -> Txn] /\ doomed' \in [Request -> Doomed]
         /\ pc'[r] = "idle" /\ txn'[r].keeps = FALSE
         /\ \A q \in Request : q # r => pc'[q] = pc[q] /\ txn'[q] = txn[q]
<1>1. NoTxn \in Txn /\ NoTxn.keeps = FALSE
  BY DEF NoTxn, Txn
<1>2. NoRows \in Doomed
  BY DEF NoRows, Doomed
<1> QED
  BY <1>1, <1>2 DEF TypeOK, Done, Goto

\* An opening starts with what it found of its client.
LEMMA BeginKeeps ==
  ASSUME RegistryInv, NEW r \in Request, Begin(r)
  PROVE  RegistryInv'
<1> USE RegistryAssumption DEF RegistryAssumption, RegistryInv
<1>1. PICK d \in Document, p \in Plate, c \in Client \union {None} :
        /\ Finds(document, d, c)
        /\ txn' = [txn EXCEPT ![r] = [NoTxn EXCEPT !.document = d, !.plate = p,
                                                   !.client = c]]
  BY DEF Begin
<1> DEFINE new == [NoTxn EXCEPT !.document = d, !.plate = p, !.client = c]
<1>2. /\ new \in Txn
      /\ new.document = d /\ new.plate = p /\ new.client = c
      /\ new.vehicle = None /\ new.keeps = FALSE
  BY DEF Txn, NoTxn
<1> HIDE DEF new
<1>3. /\ txn' \in [Request -> Txn] /\ txn'[r] = new
      /\ \A q \in Request : q # r => txn'[q] = txn[q]
  BY <1>1, <1>2, TxnChanges DEF new
<1>4. /\ pc \in [Request -> {"idle", "client", "find", "vehicle", "order", "delete"}]
      /\ pc' = [pc EXCEPT ![r] = "client"]
      /\ UNCHANGED <<document, owner, spelling, orderClient, orderVehicle, saga, outbox,
                     spent, doomed, asked>>
  BY DEF Begin, Goto, tables, TypeOK
<1>5. /\ pc' \in [Request -> {"idle", "client", "find", "vehicle", "order", "delete"}]
      /\ pc'[r] = "client" /\ \A q \in Request : q # r => pc'[q] = pc[q]
  BY <1>4
<1>6. TypeOK'
  BY <1>3, <1>4, <1>5 DEF TypeOK, Txn, Doomed
<1>7. (NoCopies /\ NothingDangles /\ OrderWithItsSaga /\ BelongsToWhoAsked /\ DrawnRows)'
  BY <1>4 DEF NoCopies, NothingDangles, OrderWithItsSaga, BelongsToWhoAsked, DrawnRows
<1>8. ClientsAreSafe'
  BY <1>1, <1>2, <1>3, <1>4, <1>5
     DEF TypeOK, Finds, DrawnRows, ClientsAreSafe, WritesClient, InsertsClient
<1>9. VehiclesAreSafe'
  BY <1>2, <1>3, <1>4, <1>5
     DEF VehiclesAreSafe, WritesVehicle, InsertsVehicle
<1> QED
  BY <1>6, <1>7, <1>8, <1>9 DEF RegistryInv

\* The client is locked, or inserted under an id and a document of its own.
LEMMA FlushClientKeeps ==
  ASSUME RegistryInv, NEW r \in Request, FlushClient(r)
  PROVE  RegistryInv'
<1> USE RegistryAssumption DEF RegistryAssumption, RegistryInv
<1>1. /\ pc \in [Request -> {"idle", "client", "find", "vehicle", "order", "delete"}]
      /\ pc[r] = "client"
      /\ pc' = [pc EXCEPT ![r] = "find"]
      /\ UNCHANGED <<document, owner, spelling, orderClient, orderVehicle, saga, outbox,
                     doomed, asked>>
  BY DEF FlushClient, Goto, tables, TypeOK
<1>2. /\ pc' \in [Request -> {"idle", "client", "find", "vehicle", "order", "delete"}]
      /\ pc'[r] = "find" /\ \A q \in Request : q # r => pc'[q] = pc[q]
  BY <1>1
<1>3. CASE /\ txn[r].client # None
           /\ document[txn[r].client] # None
           /\ \A q \in Request \ {r} : ~HoldsClient(q, txn[r].client)
           /\ UNCHANGED <<txn, spent>>
  <2>1. TypeOK'
    BY <1>1, <1>2, <1>3 DEF TypeOK, Txn, Doomed
  <2>2. (NoCopies /\ NothingDangles /\ OrderWithItsSaga /\ BelongsToWhoAsked /\ DrawnRows)'
    BY <1>1, <1>3
    DEF NoCopies, NothingDangles, OrderWithItsSaga, BelongsToWhoAsked, DrawnRows
  <2>3. ClientsAreSafe'
    BY <1>1, <1>2, <1>3 DEF ClientsAreSafe, WritesClient, InsertsClient, HoldsClient
  <2>4. VehiclesAreSafe'
    BY <1>1, <1>2, <1>3 DEF VehiclesAreSafe, WritesVehicle, InsertsVehicle
  <2> QED
    BY <2>1, <2>2, <2>3, <2>4 DEF RegistryInv
<1>4. CASE /\ txn[r].client = None
           /\ TakesDocument(r, txn[r].document)
           /\ \E c \in Client : Draw(c) /\ txn' = [txn EXCEPT ![r].client = c]
  <2>1. PICK c \in Client : Draw(c) /\ txn' = [txn EXCEPT ![r].client = c]
    BY <1>4
  <2> DEFINE new == [txn[r] EXCEPT !.client = c]
  <2>2. /\ new \in Txn
        /\ new.client = c /\ new.document = txn[r].document /\ new.plate = txn[r].plate
        /\ new.vehicle = txn[r].vehicle /\ new.keeps = txn[r].keeps
        /\ txn' = [txn EXCEPT ![r] = new]
    BY <2>1 DEF TypeOK, Txn
  <2> HIDE DEF new
  <2>3. /\ txn' \in [Request -> Txn] /\ txn'[r] = new
        /\ \A q \in Request : q # r => txn'[q] = txn[q]
    BY <2>2, TxnChanges
  <2>4. c \notin spent /\ spent' = spent \union {c}
    BY <2>1 DEF Draw
  <2>5. TypeOK'
    BY <1>1, <1>2, <2>3, <2>4 DEF TypeOK, Txn, Doomed
  <2>6. (NoCopies /\ NothingDangles /\ OrderWithItsSaga /\ BelongsToWhoAsked /\ DrawnRows)'
    BY <1>1, <2>4
    DEF NoCopies, NothingDangles, OrderWithItsSaga, BelongsToWhoAsked, DrawnRows
  <2>7. ClientsAreSafe'
    <3>1. document[c] = None
      BY <2>4 DEF DrawnRows
    <3>2. \A d \in Client : document[d] # txn[r].document
      BY <1>4 DEF TakesDocument
    <3>3. \A q \in Request \ {r} : InsertsClient(q) => txn[q].document # txn[r].document
      BY <1>4 DEF TakesDocument
    <3> QED
      BY <1>1, <1>2, <2>2, <2>3, <2>4, <3>1, <3>2, <3>3
         DEF ClientsAreSafe, WritesClient, InsertsClient
  <2>8. VehiclesAreSafe'
    BY <1>1, <1>2, <2>2, <2>3, <2>4 DEF VehiclesAreSafe, WritesVehicle, InsertsVehicle
  <2> QED
    BY <2>5, <2>6, <2>7, <2>8 DEF RegistryInv
<1> QED
  BY <1>3, <1>4 DEF FlushClient

\* What was found of the vehicle; a vehicle that is not there keeps no owner.
LEMMA FindVehicleKeeps ==
  ASSUME RegistryInv, NEW r \in Request, FindVehicle(r)
  PROVE  RegistryInv'
<1> USE RegistryAssumption DEF RegistryAssumption, RegistryInv
<1>1. PICK v \in Vehicle \union {None}, keep \in BOOLEAN :
        /\ keep => v # None
        /\ txn' = [txn EXCEPT ![r].vehicle = v, ![r].keeps = keep]
  BY Zenon DEF FindVehicle
<1> DEFINE new == [[txn[r] EXCEPT !.vehicle = v] EXCEPT !.keeps = keep]
<1>2. keep => v # None
  BY <1>1
<1>3. /\ txn' = [txn EXCEPT ![r] = new]
      /\ new = [[txn[r] EXCEPT !.vehicle = v] EXCEPT !.keeps = keep]
  BY <1>1 DEF TypeOK
<1> HIDE DEF new
<1>4. /\ new \in Txn
      /\ new.client = txn[r].client /\ new.document = txn[r].document
      /\ new.plate = txn[r].plate /\ new.vehicle = v /\ new.keeps = keep
  <2>1. txn[r] \in Txn
    BY DEF TypeOK
  <2> DEFINE w == [txn[r] EXCEPT !.vehicle = v]
  <2>2. w = [txn[r] EXCEPT !.vehicle = v] /\ new = [w EXCEPT !.keeps = keep]
    BY <1>3
  <2> HIDE DEF w
  <2>3. /\ w \in Txn /\ w.client = txn[r].client /\ w.document = txn[r].document
        /\ w.plate = txn[r].plate /\ w.vehicle = v
    BY <2>1, <2>2, VehicleNoted
  <2> QED
    BY <2>2, <2>3 DEF Txn
<1>5. /\ txn' \in [Request -> Txn] /\ txn'[r] = new
      /\ \A q \in Request : q # r => txn'[q] = txn[q]
  BY <1>3, <1>4, TxnChanges
<1>6. /\ pc \in [Request -> {"idle", "client", "find", "vehicle", "order", "delete"}]
      /\ pc[r] = "find"
      /\ pc' = [pc EXCEPT ![r] = "vehicle"]
      /\ UNCHANGED <<document, owner, spelling, orderClient, orderVehicle, saga, outbox,
                     spent, doomed, asked>>
  BY DEF FindVehicle, Goto, tables, TypeOK
<1>7. /\ pc' \in [Request -> {"idle", "client", "find", "vehicle", "order", "delete"}]
      /\ pc'[r] = "vehicle" /\ \A q \in Request : q # r => pc'[q] = pc[q]
  BY <1>6
<1>8. TypeOK'
  BY <1>5, <1>6, <1>7 DEF TypeOK, Txn, Doomed
<1>9. (NoCopies /\ NothingDangles /\ OrderWithItsSaga /\ BelongsToWhoAsked /\ DrawnRows)'
  BY <1>6 DEF NoCopies, NothingDangles, OrderWithItsSaga, BelongsToWhoAsked, DrawnRows
<1>10. ClientsAreSafe'
  BY <1>4, <1>5, <1>6, <1>7 DEF ClientsAreSafe, WritesClient, InsertsClient
<1>11. VehiclesAreSafe'
  BY <1>2, <1>4, <1>5, <1>6, <1>7 DEF VehiclesAreSafe, WritesVehicle, InsertsVehicle
<1> QED
  BY <1>8, <1>9, <1>10, <1>11 DEF RegistryInv

\* The vehicle is locked, or inserted under an id and a plate of its own.
LEMMA FlushVehicleKeeps ==
  ASSUME RegistryInv, NEW r \in Request, FlushVehicle(r)
  PROVE  RegistryInv'
<1> USE RegistryAssumption DEF RegistryAssumption, RegistryInv
<1>1. /\ pc \in [Request -> {"idle", "client", "find", "vehicle", "order", "delete"}]
      /\ pc[r] = "vehicle"
      /\ pc' = [pc EXCEPT ![r] = "order"]
      /\ UNCHANGED <<document, owner, spelling, orderClient, orderVehicle, saga, outbox,
                     doomed, asked>>
  BY DEF FlushVehicle, Goto, tables, TypeOK
<1>2. /\ pc' \in [Request -> {"idle", "client", "find", "vehicle", "order", "delete"}]
      /\ pc'[r] = "order" /\ \A q \in Request : q # r => pc'[q] = pc[q]
  BY <1>1
<1>3. CASE /\ txn[r].vehicle # None
           /\ spelling[txn[r].vehicle] # None
           /\ \A q \in Request \ {r} : ~HoldsVehicle(q, txn[r].vehicle)
           /\ UNCHANGED <<txn, spent>>
  <2>1. TypeOK'
    BY <1>1, <1>2, <1>3 DEF TypeOK, Txn, Doomed
  <2>2. (NoCopies /\ NothingDangles /\ OrderWithItsSaga /\ BelongsToWhoAsked /\ DrawnRows)'
    BY <1>1, <1>3
    DEF NoCopies, NothingDangles, OrderWithItsSaga, BelongsToWhoAsked, DrawnRows
  <2>3. ClientsAreSafe'
    BY <1>1, <1>2, <1>3 DEF ClientsAreSafe, WritesClient, InsertsClient
  <2>4. VehiclesAreSafe'
    <3>1. txn[r].vehicle \in spent
      BY <1>3 DEF TypeOK, Txn, DrawnRows
    <3> QED
      BY <1>1, <1>2, <1>3, <3>1
         DEF VehiclesAreSafe, WritesVehicle, InsertsVehicle, HoldsVehicle
  <2> QED
    BY <2>1, <2>2, <2>3, <2>4 DEF RegistryInv
<1>4. CASE /\ txn[r].vehicle = None
           /\ TakesPlate(r, txn[r].plate)
           /\ \E v \in Vehicle : Draw(v) /\ txn' = [txn EXCEPT ![r].vehicle = v]
  <2>1. PICK v \in Vehicle : Draw(v) /\ txn' = [txn EXCEPT ![r].vehicle = v]
    BY <1>4
  <2> DEFINE new == [txn[r] EXCEPT !.vehicle = v]
  <2>2. /\ new \in Txn
        /\ new.client = txn[r].client /\ new.document = txn[r].document
        /\ new.plate = txn[r].plate /\ new.vehicle = v /\ new.keeps = txn[r].keeps
        /\ txn' = [txn EXCEPT ![r] = new]
    <3>1. txn[r] \in Txn /\ new = [txn[r] EXCEPT !.vehicle = v]
      BY DEF TypeOK
    <3>2. txn' = [txn EXCEPT ![r] = new]
      BY <2>1
    <3> QED
      BY <3>1, <3>2, VehicleNoted
  <2> HIDE DEF new
  <2>3. /\ txn' \in [Request -> Txn] /\ txn'[r] = new
        /\ \A q \in Request : q # r => txn'[q] = txn[q]
    BY <2>2, TxnChanges
  <2>4. v \notin spent /\ spent' = spent \union {v}
    BY <2>1 DEF Draw
  <2>5. TypeOK'
    BY <1>1, <1>2, <2>3, <2>4 DEF TypeOK, Txn, Doomed
  <2>6. (NoCopies /\ NothingDangles /\ OrderWithItsSaga /\ BelongsToWhoAsked /\ DrawnRows)'
    BY <1>1, <2>4
    DEF NoCopies, NothingDangles, OrderWithItsSaga, BelongsToWhoAsked, DrawnRows
  <2>7. ClientsAreSafe'
    BY <1>1, <1>2, <2>2, <2>3, <2>4 DEF ClientsAreSafe, WritesClient, InsertsClient
  <2>8. VehiclesAreSafe'
    <3>1. \A u \in Vehicle : spelling[u] # txn[r].plate
      BY <1>4 DEF TakesPlate
    <3>2. \A q \in Request \ {r} : InsertsVehicle(q) => txn[q].plate # txn[r].plate
      BY <1>4 DEF TakesPlate
    <3>3. ~txn[r].keeps
      BY <1>4 DEF VehiclesAreSafe
    <3> QED
      BY <1>1, <1>2, <2>2, <2>3, <2>4, <3>1, <3>2, <3>3
         DEF VehiclesAreSafe, WritesVehicle, InsertsVehicle
  <2> QED
    BY <2>5, <2>6, <2>7, <2>8 DEF RegistryInv
<1> QED
  BY <1>3, <1>4 DEF FlushVehicle

\* All the rows of an opening become visible at once.
LEMMA CommitKeeps ==
  ASSUME RegistryInv, NEW r \in Request, CommitOpening(r)
  PROVE  RegistryInv'
<1> USE RegistryAssumption DEF RegistryAssumption, RegistryInv
<1> DEFINE c == txn[r].client
           v == txn[r].vehicle
           d == txn[r].document
           p == txn[r].plate
<1>1. pc[r] = "order" /\ Done(r)
  BY DEF CommitOpening
<1>2. /\ c \in Client /\ v \in Vehicle /\ d \in Document /\ p \in Plate
      /\ c \in spent /\ v \in spent /\ document[c] \in {None, d}
      /\ txn[r].keeps \in BOOLEAN
  BY <1>1 DEF TypeOK, Txn, ClientsAreSafe, VehiclesAreSafe, WritesClient, WritesVehicle
<1>3. /\ pc' \in [Request -> {"idle", "client", "find", "vehicle", "order", "delete"}]
      /\ txn' \in [Request -> Txn] /\ doomed' \in [Request -> Doomed]
      /\ pc'[r] = "idle" /\ txn'[r].keeps = FALSE
      /\ \A q \in Request : q # r => pc'[q] = pc[q] /\ txn'[q] = txn[q]
  BY <1>1, DoneForgets
<1>4. /\ document' \in [Client -> Document \union {None}]
      /\ document'[c] = d
      /\ \A b \in Client : b # c => document'[b] = document[b]
      /\ \A b \in Client : document[b] # None => document'[b] = document[b]
  BY <1>2 DEF CommitOpening, CommitRows, TypeOK
<1>5. /\ spelling' \in [Vehicle -> Spelling \union {None}]
      /\ spelling'[v] = IF spelling[v] = None THEN p ELSE spelling[v]
      /\ \A u \in Vehicle : u # v => spelling'[u] = spelling[u]
      /\ \A u \in Vehicle : spelling[u] # None => spelling'[u] = spelling[u]
  BY <1>2 DEF CommitOpening, CommitRows, TypeOK
<1>6. /\ owner' = [owner EXCEPT ![v] = IF txn[r].keeps THEN owner[v] ELSE c]
      /\ owner'[v] = IF txn[r].keeps THEN owner[v] ELSE c
      /\ \A u \in Vehicle : u # v => owner'[u] = owner[u]
  BY <1>2 DEF CommitOpening, CommitRows, TypeOK
<1>7. PICK o \in Order :
        /\ o \notin spent /\ spent' = spent \union {o}
        /\ orderClient' = [orderClient EXCEPT ![o] = c]
        /\ orderVehicle' = [orderVehicle EXCEPT ![o] = v]
        /\ saga' = saga \union {o}
        /\ outbox' = outbox \union {o}
        /\ asked' = [asked EXCEPT ![o] = d]
  BY DEF CommitOpening, Draw
<1>8. txn[r].keeps => spelling[v] # None
  BY <1>1 DEF VehiclesAreSafe, WritesVehicle, InsertsVehicle
<1> HIDE DEF c, v, d, p
<1>9. /\ orderClient'[o] = c /\ orderVehicle'[o] = v /\ asked'[o] = d
      /\ \A other \in Order : other # o =>
           /\ orderClient'[other] = orderClient[other]
           /\ orderVehicle'[other] = orderVehicle[other]
           /\ asked'[other] = asked[other]
  BY <1>7 DEF TypeOK
<1>10. spelling'[v] # None /\ owner'[v] \in Client /\ document'[owner'[v]] # None
  BY <1>2, <1>4, <1>5, <1>6, <1>8 DEF TypeOK, NothingDangles
<1>11. TypeOK'
  <2>1. owner' \in [Vehicle -> Client \union {None}]
    BY <1>2, <1>6 DEF TypeOK
  <2>2. \A u \in Vehicle : spelling'[u] = None <=> owner'[u] = None
    BY <1>2, <1>5, <1>6, <1>10 DEF TypeOK
  <2>3. /\ orderClient' \in [Order -> Client \union {None}]
        /\ orderVehicle' \in [Order -> Vehicle \union {None}]
        /\ asked' \in [Order -> Document \union {None}]
    BY <1>2, <1>7 DEF TypeOK
  <2>4. /\ saga' \subseteq Order /\ outbox' \subseteq Order
        /\ spent' \subseteq Client \union Vehicle \union Order
    BY <1>7 DEF TypeOK
  <2> QED
    BY <1>3, <1>4, <1>5, <2>1, <2>2, <2>3, <2>4 DEF TypeOK
<1>12. NoCopies'
  <2>1. document[c] = None => \A b \in Client : document[b] # d
    BY <1>1 DEF ClientsAreSafe, InsertsClient, WritesClient, c, d
  <2>2. spelling[v] = None => \A u \in Vehicle : spelling[u] # p
    BY <1>1 DEF VehiclesAreSafe, InsertsVehicle, WritesVehicle, v, p
  <2> QED
    BY <1>2, <1>4, <1>5, <2>1, <2>2 DEF NoCopies
<1>13. NothingDangles'
  BY <1>2, <1>4, <1>5, <1>6, <1>7, <1>9, <1>10 DEF TypeOK, NothingDangles
<1>14. OrderWithItsSaga'
  BY <1>2, <1>7, <1>9 DEF TypeOK, OrderWithItsSaga
<1>15. BelongsToWhoAsked'
  <2>1. \A other \in Order : orderClient[other] # None =>
          document[orderClient[other]] # None /\ orderClient[other] \in Client
    BY DEF NothingDangles, TypeOK
  <2> QED
    BY <1>4, <1>9, <2>1 DEF BelongsToWhoAsked
<1>16. DrawnRows'
  BY <1>2, <1>4, <1>5, <1>7, <1>9 DEF DrawnRows
<1>17. ClientsAreSafe'
  <2>1. \A q \in Request : q # r =>
          /\ WritesClient(q) => txn[q].client # c
          /\ document[c] = None /\ pc[q] = "client" => txn[q].client # c
          /\ document[c] = None /\ InsertsClient(q) => txn[q].document # d
    BY <1>1 DEF ClientsAreSafe, WritesClient, InsertsClient, c, d
  <2>2. \A q \in Request : q # r => txn[q].client \in Client \union {None}
    BY DEF TypeOK, Txn
  <2> QED
    BY <1>2, <1>3, <1>4, <1>7, <2>1, <2>2 DEF ClientsAreSafe, WritesClient, InsertsClient
<1>18. VehiclesAreSafe'
  <2>1. \A q \in Request : q # r =>
          /\ WritesVehicle(q) => txn[q].vehicle # v
          /\ spelling[v] = None /\ InsertsVehicle(q) => txn[q].plate # p
    BY <1>1 DEF VehiclesAreSafe, WritesVehicle, InsertsVehicle, v, p
  <2>2. \A q \in Request : q # r => txn[q].vehicle \in Vehicle \union {None}
    BY DEF TypeOK, Txn
  <2> QED
    BY <1>2, <1>3, <1>5, <1>7, <2>1, <2>2 DEF VehiclesAreSafe, WritesVehicle, InsertsVehicle
<1> QED
  BY <1>11, <1>12, <1>13, <1>14, <1>15, <1>16, <1>17, <1>18 DEF RegistryInv

\* Nothing but drawn ids is left of a request that fails.
LEMMA RollbackKeeps ==
  ASSUME RegistryInv, NEW r \in Request, Rollback(r)
  PROVE  RegistryInv'
<1> USE DEF RegistryInv
<1>1. UNCHANGED <<document, owner, spelling, orderClient, orderVehicle, saga, outbox,
                  spent, asked>>
  BY DEF Rollback, tables
<1>2. /\ pc' \in [Request -> {"idle", "client", "find", "vehicle", "order", "delete"}]
      /\ txn' \in [Request -> Txn] /\ doomed' \in [Request -> Doomed]
      /\ pc'[r] = "idle" /\ txn'[r].keeps = FALSE
      /\ \A q \in Request : q # r => pc'[q] = pc[q] /\ txn'[q] = txn[q]
  BY DoneForgets DEF Rollback
<1>3. TypeOK'
  BY <1>1, <1>2 DEF TypeOK
<1>4. (NoCopies /\ NothingDangles /\ OrderWithItsSaga /\ BelongsToWhoAsked /\ DrawnRows)'
  BY <1>1 DEF NoCopies, NothingDangles, OrderWithItsSaga, BelongsToWhoAsked, DrawnRows
<1>5. ClientsAreSafe'
  BY <1>1, <1>2 DEF ClientsAreSafe, WritesClient, InsertsClient
<1>6. VehiclesAreSafe'
  BY <1>1, <1>2 DEF VehiclesAreSafe, WritesVehicle, InsertsVehicle
<1> QED
  BY <1>3, <1>4, <1>5, <1>6 DEF RegistryInv

\* A client registered while openings are in flight takes a document of its own.
LEMMA PostClientKeeps ==
  ASSUME RegistryInv, NEW c \in Client, NEW d \in Document, PostClient(c, d)
  PROVE  RegistryInv'
<1> USE RegistryAssumption DEF RegistryAssumption, RegistryInv, TypeOK, Txn,
  PostClient, Draw, TakesDocument, WritesClient, InsertsClient,
  WritesVehicle, InsertsVehicle, requests
<1>1. TypeOK'
  OBVIOUS
<1>2. NoCopies'
  BY DEF NoCopies
<1>3. NothingDangles'
  BY DEF NothingDangles, DrawnRows
<1>4. OrderWithItsSaga'
  BY DEF OrderWithItsSaga
<1>5. BelongsToWhoAsked'
  BY DEF BelongsToWhoAsked, NothingDangles, DrawnRows
<1>6. DrawnRows'
  BY DEF DrawnRows
<1>7. ClientsAreSafe'
  BY DEF DrawnRows, ClientsAreSafe
<1>8. VehiclesAreSafe'
  BY DEF VehiclesAreSafe
<1> QED
  BY <1>1, <1>2, <1>3, <1>4, <1>5, <1>6, <1>7, <1>8 DEF RegistryInv

\* A vehicle registered for a client that exists takes a plate of its own.
LEMMA PostVehicleKeeps ==
  ASSUME RegistryInv, NEW v \in Vehicle, NEW c \in Client, NEW p \in Plate,
         PostVehicle(v, c, p)
  PROVE  RegistryInv'
<1> USE RegistryAssumption DEF RegistryAssumption, RegistryInv, TypeOK, Txn,
  PostVehicle, Draw, TakesPlate, WritesClient, InsertsClient, WritesVehicle,
  InsertsVehicle, requests
<1>1. TypeOK'
  OBVIOUS
<1>2. NoCopies'
  BY DEF NoCopies
<1>3. NothingDangles'
  BY DEF NothingDangles, DrawnRows
<1>4. OrderWithItsSaga'
  BY DEF OrderWithItsSaga
<1>5. BelongsToWhoAsked'
  BY DEF BelongsToWhoAsked
<1>6. DrawnRows'
  BY DEF DrawnRows
<1>7. ClientsAreSafe'
  BY DEF ClientsAreSafe
<1>8. VehiclesAreSafe'
  BY DEF DrawnRows, VehiclesAreSafe
<1> QED
  BY <1>1, <1>2, <1>3, <1>4, <1>5, <1>6, <1>7, <1>8 DEF RegistryInv

\* A vehicle that changes its owner or its plate is held by no opening.
LEMMA PutVehicleKeeps ==
  ASSUME RegistryInv, NEW v \in Vehicle, NEW c \in Client, NEW p \in Spelling,
         PutVehicle(v, c, p)
  PROVE  RegistryInv'
<1> USE RegistryAssumption DEF RegistryAssumption, RegistryInv, TypeOK, Txn,
  PutVehicle, TakesPlate, WritesClient, InsertsClient, WritesVehicle,
  HoldsVehicle, InsertsVehicle, requests
<1>1. TypeOK'
  OBVIOUS
<1>2. NoCopies'
  BY DEF NoCopies
<1>3. NothingDangles'
  BY DEF NothingDangles, DrawnRows
<1>4. OrderWithItsSaga'
  BY DEF OrderWithItsSaga
<1>5. BelongsToWhoAsked'
  BY DEF BelongsToWhoAsked
<1>6. DrawnRows'
  BY DEF DrawnRows
<1>7. ClientsAreSafe'
  BY DEF ClientsAreSafe
<1>8. VehiclesAreSafe'
  BY DEF DrawnRows, VehiclesAreSafe
<1> QED
  BY <1>1, <1>2, <1>3, <1>4, <1>5, <1>6, <1>7, <1>8 DEF RegistryInv

\* A deletion loads what it will delete.
LEMMA LoadKeeps ==
  ASSUME RegistryInv, NEW r \in Request, LoadClient(r) \/ LoadVehicle(r)
  PROVE  RegistryInv'
<1> USE RegistryAssumption DEF RegistryAssumption, RegistryInv
<1>1. PICK c \in Client \union {None}, vs \in SUBSET Vehicle : Load(r, c, vs)
  BY DEF LoadClient, LoadVehicle, VehiclesOf
<1>2. /\ pc[r] = "idle"
      /\ pc' = [pc EXCEPT ![r] = "delete"]
      /\ doomed' = [doomed EXCEPT ![r] =
                      [client |-> c, vehicles |-> vs, orders |-> OrdersOf(c, vs)]]
      /\ UNCHANGED <<document, owner, spelling, orderClient, orderVehicle, saga, outbox,
                     spent, txn, asked>>
  BY <1>1 DEF Load, Goto, tables
<1>3. /\ pc' \in [Request -> {"idle", "client", "find", "vehicle", "order", "delete"}]
      /\ pc'[r] = "delete" /\ \A q \in Request : q # r => pc'[q] = pc[q]
  BY <1>2 DEF TypeOK
<1>4. [client |-> c, vehicles |-> vs, orders |-> OrdersOf(c, vs)] \in Doomed
  BY DEF OrdersOf, Doomed
<1>5. doomed' \in [Request -> Doomed]
  BY <1>2, <1>4 DEF TypeOK
<1>6. TypeOK'
  BY <1>2, <1>3, <1>5 DEF TypeOK
<1>7. (NoCopies /\ NothingDangles /\ OrderWithItsSaga /\ BelongsToWhoAsked /\ DrawnRows)'
  BY <1>2 DEF NoCopies, NothingDangles, OrderWithItsSaga, BelongsToWhoAsked, DrawnRows
<1>8. ClientsAreSafe'
  BY <1>2, <1>3 DEF ClientsAreSafe, WritesClient, InsertsClient
<1>9. VehiclesAreSafe'
  BY <1>2, <1>3 DEF VehiclesAreSafe, WritesVehicle, InsertsVehicle
<1> QED
  BY <1>6, <1>7, <1>8, <1>9 DEF RegistryInv

\* A deletion takes the client, its vehicles and their orders, and no row that
\* an opening holds.
LEMMA DeleteKeeps ==
  ASSUME RegistryInv, NEW r \in Request, Delete(r)
  PROVE  RegistryInv'
<1> USE RegistryAssumption DEF RegistryAssumption, RegistryInv, TypeOK, Txn, Delete,
  Gone, Without, VehiclesOf, OrdersOf, WritesClient, HoldsClient, InsertsClient,
  WritesVehicle, HoldsVehicle, InsertsVehicle
<1>1. /\ pc' \in [Request -> {"idle", "client", "find", "vehicle", "order", "delete"}]
      /\ txn' \in [Request -> Txn] /\ doomed' \in [Request -> Doomed]
      /\ pc'[r] = "idle" /\ txn'[r].keeps = FALSE
      /\ \A q \in Request : q # r => pc'[q] = pc[q] /\ txn'[q] = txn[q]
  <2>1. Done(r)
    OBVIOUS
  <2> HIDE DEF Txn, Delete
  <2> QED
    BY <2>1, DoneForgets
<1>2. TypeOK'
  BY <1>1 DEF Doomed
<1>3. NoCopies'
  BY DEF NoCopies
<1>4. NothingDangles'
  BY DEF NothingDangles
<1>5. OrderWithItsSaga'
  BY DEF OrderWithItsSaga
<1>6. BelongsToWhoAsked'
  BY DEF BelongsToWhoAsked
<1>7. DrawnRows'
  BY DEF DrawnRows
<1>8. ClientsAreSafe'
  <2>1. /\ \A c \in Client :
             document'[c] = IF c = Gone(r).client THEN None ELSE document[c]
        /\ \A q \in Request : ~HoldsClient(q, Gone(r).client)
        /\ spent' = spent
    OBVIOUS
  <2>2. \A q \in Request : txn[q].client \in Client \union {None}
    OBVIOUS
  <2> HIDE DEF TypeOK, Txn, Delete, Gone, Without, VehiclesOf, OrdersOf
  <2> QED
    BY <1>1, <2>1, <2>2 DEF ClientsAreSafe
<1>9. VehiclesAreSafe'
  <2>1. /\ \A v \in Vehicle :
             spelling'[v] = IF v \in Gone(r).vehicles THEN None ELSE spelling[v]
        /\ \A q \in Request, v \in Gone(r).vehicles : ~HoldsVehicle(q, v)
        /\ spent' = spent
    OBVIOUS
  <2>2. \A q \in Request : txn[q].vehicle \in Vehicle \union {None}
    OBVIOUS
  <2> HIDE DEF TypeOK, Txn, Delete, Gone, Without, VehiclesOf, OrdersOf
  <2> QED
    BY <1>1, <2>1, <2>2 DEF VehiclesAreSafe
<1> QED
  BY <1>2, <1>3, <1>4, <1>5, <1>6, <1>7, <1>8, <1>9 DEF RegistryInv

\* Every request keeps the invariant.
LEMMA RegistryNext == RegistryInv /\ [Next]_vars => RegistryInv'
<1> SUFFICES ASSUME RegistryInv, [Next]_vars PROVE RegistryInv'
  OBVIOUS
<1>1. CASE UNCHANGED vars
  <2>1. UNCHANGED <<document, owner, spelling, orderClient, orderVehicle, saga, outbox,
                    spent, pc, txn, doomed, asked>>
    BY <1>1 DEF vars, tables, requests
  <2>2. (TypeOK /\ NoCopies /\ NothingDangles /\ OrderWithItsSaga)'
    BY <2>1 DEF RegistryInv, TypeOK, NoCopies, NothingDangles, OrderWithItsSaga
  <2>3. (BelongsToWhoAsked /\ DrawnRows)'
    BY <2>1 DEF RegistryInv, BelongsToWhoAsked, DrawnRows
  <2>4. (ClientsAreSafe /\ VehiclesAreSafe)'
    BY <2>1 DEF RegistryInv, ClientsAreSafe, VehiclesAreSafe, WritesClient,
       InsertsClient, WritesVehicle, InsertsVehicle
  <2> QED
    BY <2>2, <2>3, <2>4 DEF RegistryInv
<1>2. ASSUME NEW r \in Request, Begin(r) PROVE RegistryInv'
  BY <1>2, BeginKeeps
<1>3. ASSUME NEW r \in Request, FlushClient(r) PROVE RegistryInv'
  BY <1>3, FlushClientKeeps
<1>4. ASSUME NEW r \in Request, FindVehicle(r) PROVE RegistryInv'
  BY <1>4, FindVehicleKeeps
<1>5. ASSUME NEW r \in Request, FlushVehicle(r) PROVE RegistryInv'
  BY <1>5, FlushVehicleKeeps
<1>6. ASSUME NEW r \in Request, CommitOpening(r) PROVE RegistryInv'
  BY <1>6, CommitKeeps
<1>7. ASSUME NEW r \in Request, Rollback(r) PROVE RegistryInv'
  BY <1>7, RollbackKeeps
<1>8. ASSUME NEW r \in Request, LoadClient(r) \/ LoadVehicle(r) PROVE RegistryInv'
  BY <1>8, LoadKeeps
<1>9. ASSUME NEW r \in Request, Delete(r) PROVE RegistryInv'
  BY <1>9, DeleteKeeps
<1>10. ASSUME NEW c \in Client, NEW d \in Document, PostClient(c, d) PROVE RegistryInv'
  BY <1>10, PostClientKeeps
<1>11. ASSUME NEW v \in Vehicle, NEW c \in Client, NEW p \in Plate, PostVehicle(v, c, p)
       PROVE  RegistryInv'
  BY <1>11, PostVehicleKeeps
<1>12. ASSUME NEW v \in Vehicle, NEW c \in Client, NEW p \in Spelling, PutVehicle(v, c, p)
       PROVE  RegistryInv'
  BY <1>12, PutVehicleKeeps
<1> QED
  BY <1>1, <1>2, <1>3, <1>4, <1>5, <1>6, <1>7, <1>8, <1>9, <1>10, <1>11, <1>12 DEF Next

\* Every part of the invariant holds in every state, whatever requests overlap.
THEOREM RegistryInvHolds == Spec => []RegistryInv
  BY RegistryInit, RegistryNext, PTL DEF Spec

\* Every column, lock and note keeps to its values.
THEOREM RegistryTypeCorrect == Spec => []TypeOK
<1>1. RegistryInv => TypeOK
  BY DEF RegistryInv
<1> QED
  BY <1>1, RegistryInvHolds, PTL

\* Openings and registrations that race never make two clients of one document
\* or two vehicles of one text of a plate.
THEOREM NoCopiesHolds == Spec => []NoCopies
<1>1. RegistryInv => NoCopies
  BY DEF RegistryInv
<1> QED
  BY <1>1, RegistryInvHolds, PTL

\* No deletion leaves a vehicle or an order that refers to a row that is gone.
THEOREM NothingDanglesHolds == Spec => []NothingDangles
<1>1. RegistryInv => NothingDangles
  BY DEF RegistryInv
<1> QED
  BY <1>1, RegistryInvHolds, PTL

\* An order, its saga and its first command exist together or not at all.
THEOREM OrderWithItsSagaHolds == Spec => []OrderWithItsSaga
<1>1. RegistryInv => OrderWithItsSaga
  BY DEF RegistryInv
<1> QED
  BY <1>1, RegistryInvHolds, PTL

\* An order stays with the customer who opened it, whoever the vehicle went to.
THEOREM BelongsToWhoAskedHolds == Spec => []BelongsToWhoAsked
<1>1. RegistryInv => BelongsToWhoAsked
  BY DEF RegistryInv
<1> QED
  BY <1>1, RegistryInvHolds, PTL
=============================================================================
