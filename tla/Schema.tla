-------------------------------- MODULE Schema --------------------------------
(***************************************************************************)
(* The database schema as the revisions of migrations/versions make it, one *)
(* operation of Alembic after the other, and as app/shared/models.py takes *)
(* it to be.  Neither is generated from the other.                         *)
(*                                                                         *)
(* A schema maps its tables to their columns, unique keys, foreign keys and *)
(* indexes.  Of a column only what an INSERT may leave out is kept: it is  *)
(* required, filled in by a default or a sequence, or nullable.            *)
(***************************************************************************)
EXTENDS Naturals, Sequences, TLC

Columns(required, filled, nullable) ==
  [c \in required \union filled \union nullable |->
     CASE c \in required -> "required"
       [] c \in filled   -> "filled"
       [] OTHER          -> "nullable"]

Ref(column, table, rule) == [column |-> column, table |-> table, ondelete |-> rule]

Index(name, column) ==
  [name |-> name, column |-> column, unique |-> FALSE, where |-> "all"]

Table(columns, unique, refs) ==
  [columns |-> columns, unique |-> unique, refs |-> refs, indexes |-> {}]

-----------------------------------------------------------------------------
(* Alembic's operations.  PostgreSQL refuses those that are not possible,   *)
(* and nothing of the transaction is left.                                 *)

create_table(t, table) == [op |-> "create_table", table |-> t, with |-> table]
drop_table(t)          == [op |-> "drop_table", table |-> t]
add_column(t, c, kind) == [op |-> "add_column", table |-> t, column |-> c, kind |-> kind]
drop_column(t, c)      == [op |-> "drop_column", table |-> t, column |-> c]
create_index(t, index) == [op |-> "create_index", table |-> t, with |-> index]
drop_index(t, name)    == [op |-> "drop_index", table |-> t, name |-> name]

IndexNames(s) == UNION {{i.name : i \in s[t].indexes} : t \in DOMAIN s}

Possible(s, o) ==
  CASE o.op = "create_table" ->
         o.table \notin DOMAIN s /\ \A r \in o.with.refs : r.table \in DOMAIN s
    [] o.op = "drop_table" ->
         /\ o.table \in DOMAIN s
         /\ \A t \in DOMAIN s \ {o.table} : \A r \in s[t].refs : r.table # o.table
    [] o.op = "add_column" ->  \* there may be rows already
         /\ o.table \in DOMAIN s
         /\ o.column \notin DOMAIN s[o.table].columns
         /\ o.kind # "required"
    [] o.op = "drop_column" ->
         o.table \in DOMAIN s /\ o.column \in DOMAIN s[o.table].columns
    [] o.op = "create_index" ->
         /\ o.table \in DOMAIN s
         /\ o.with.column \in DOMAIN s[o.table].columns
         /\ o.with.name \notin IndexNames(s)
    [] o.op = "drop_index" ->
         o.table \in DOMAIN s /\ \E i \in s[o.table].indexes : i.name = o.name

\* A table takes its indexes with it, a column those over it.
Applied(s, o) ==
  CASE o.op = "create_table" -> (o.table :> o.with) @@ s
    [] o.op = "drop_table"   -> [t \in DOMAIN s \ {o.table} |-> s[t]]
    [] o.op = "add_column"   ->
         [s EXCEPT ![o.table].columns = (o.column :> o.kind) @@ @]
    [] o.op = "drop_column"  ->
         [s EXCEPT ![o.table].columns = [c \in DOMAIN @ \ {o.column} |-> @[c]],
                   ![o.table].indexes = {i \in @ : i.column # o.column}]
    [] o.op = "create_index" -> [s EXCEPT ![o.table].indexes = @ \union {o.with}]
    [] o.op = "drop_index"   -> [s EXCEPT ![o.table].indexes = {i \in @ : i.name # o.name}]

-----------------------------------------------------------------------------
(* 20260704_0001, the baseline.                                            *)

Upgrade0001 == <<
  create_table("clients", Table(
    Columns({"name"}, {"id", "created_at"},
            {"document_type", "document_number", "email", "phone", "updated_at"}),
    {"document_number"}, {})),
  create_table("parts", Table(
    Columns({"name", "sku", "unit_price"},
            {"id", "stock_quantity", "min_stock_level", "created_at"},
            {"description", "updated_at"}),
    {"sku"}, {})),
  create_table("services_catalog", Table(
    Columns({"name", "base_price", "estimated_minutes"}, {"id", "active", "created_at"},
            {"description", "updated_at"}),
    {}, {})),
  create_table("vehicles", Table(
    Columns({"client_id", "brand", "model", "year", "license_plate"},
            {"id", "created_at"}, {"updated_at"}),
    {"license_plate"}, {Ref("client_id", "clients", "CASCADE")})),
  create_index("vehicles", Index("ix_vehicles_client_id", "client_id")),
  create_table("service_orders", Table(
    Columns({"client_id", "vehicle_id", "status", "problem_description"},
            {"id", "labor_total", "parts_total", "quote_total", "created_at"},
            {"diagnosis_notes", "quote_sent_at", "approved_at", "started_at",
             "finished_at", "delivered_at", "updated_at"}),
    {}, {Ref("client_id", "clients", "CASCADE"), Ref("vehicle_id", "vehicles", "CASCADE")})),
  create_index("service_orders", Index("idx_service_orders_client_id", "client_id")),
  create_index("service_orders", Index("idx_service_orders_status", "status")),
  create_index("service_orders", Index("idx_service_orders_vehicle_id", "vehicle_id")),
  create_table("service_order_parts", Table(
    Columns({"service_order_id", "part_id", "quantity", "unit_price", "subtotal"},
            {"id"}, {}),
    {}, {Ref("part_id", "parts", "RESTRICT"),
         Ref("service_order_id", "service_orders", "CASCADE")})),
  create_table("service_order_services", Table(
    Columns({"service_order_id", "service_id", "quantity", "unit_price", "subtotal"},
            {"id"}, {}),
    {}, {Ref("service_id", "services_catalog", "RESTRICT"),
         Ref("service_order_id", "service_orders", "CASCADE")})) >>

Downgrade0001 == <<
  drop_table("service_order_services"),
  drop_table("service_order_parts"),
  drop_index("service_orders", "idx_service_orders_vehicle_id"),
  drop_index("service_orders", "idx_service_orders_status"),
  drop_index("service_orders", "idx_service_orders_client_id"),
  drop_table("service_orders"),
  drop_index("vehicles", "ix_vehicles_client_id"),
  drop_table("vehicles"),
  drop_table("services_catalog"),
  drop_table("parts"),
  drop_table("clients") >>

-----------------------------------------------------------------------------
(* 20260704_0002, the token of the quote; 20260815_0003, the client status. *)

QuoteToken ==
  [Index("ix_service_orders_quote_token", "quote_token") EXCEPT !.unique = TRUE]

Upgrade0002 == << add_column("service_orders", "quote_token", "nullable"),
                  create_index("service_orders", QuoteToken) >>

Downgrade0002 == << drop_index("service_orders", "ix_service_orders_quote_token"),
                    drop_column("service_orders", "quote_token") >>

Upgrade0003 == << add_column("clients", "status", "filled") >>

Downgrade0003 == << drop_column("clients", "status") >>

-----------------------------------------------------------------------------
(* 20261010_0004: catalogue and parts go, the saga comes.                  *)

Upgrade0004 == <<
  drop_table("service_order_services"),
  drop_table("service_order_parts"),
  drop_table("services_catalog"),
  drop_table("parts"),
  drop_index("service_orders", "ix_service_orders_quote_token"),
  drop_column("service_orders", "quote_token"),
  add_column("service_orders", "paid_at", "nullable"),
  add_column("service_orders", "cancelled_at", "nullable"),
  create_table("service_order_items", Table(
    Columns({"service_order_id", "kind", "item_id", "name", "quantity", "unit_price",
             "subtotal"}, {"id"}, {}),
    {}, {Ref("service_order_id", "service_orders", "CASCADE")})),
  create_index("service_order_items",
    Index("ix_service_order_items_service_order_id", "service_order_id")),
  create_table("service_order_status_history", Table(
    Columns({"service_order_id", "to_status", "reason", "created_at"}, {"id"},
            {"from_status"}),
    {}, {Ref("service_order_id", "service_orders", "CASCADE")})),
  create_index("service_order_status_history",
    Index("ix_service_order_status_history_service_order_id", "service_order_id")),
  create_table("sagas", Table(
    Columns({"id", "order_id", "state", "created_at"},
            {"data", "pending_compensations", "attempts"},
            {"final_status", "failure_reason", "last_command", "deadline_at", "updated_at"}),
    {"order_id"}, {Ref("order_id", "service_orders", "CASCADE")})),
  create_index("sagas", [Index("idx_sagas_deadline", "deadline_at")
                           EXCEPT !.where = "deadline_at IS NOT NULL"]),
  create_table("processed_messages", Table(
    Columns({"message_id", "message_type"}, {"processed_at"}, {}), {}, {})),
  create_table("outbox_messages", Table(
    Columns({"message_id", "message_type", "destination", "envelope"},
            {"id", "trace_headers", "created_at"}, {"published_at"}),
    {"message_id"}, {})),
  create_index("outbox_messages", [Index("idx_outbox_messages_pending", "id")
                                     EXCEPT !.where = "published_at IS NULL"]) >>

Downgrade0004 == <<
  drop_index("outbox_messages", "idx_outbox_messages_pending"),
  drop_table("outbox_messages"),
  drop_table("processed_messages"),
  drop_index("sagas", "idx_sagas_deadline"),
  drop_table("sagas"),
  drop_index("service_order_status_history",
             "ix_service_order_status_history_service_order_id"),
  drop_table("service_order_status_history"),
  drop_index("service_order_items", "ix_service_order_items_service_order_id"),
  drop_table("service_order_items"),
  drop_column("service_orders", "cancelled_at"),
  drop_column("service_orders", "paid_at"),
  add_column("service_orders", "quote_token", "nullable"),
  create_index("service_orders", QuoteToken),
  create_table("parts", Table(
    Columns({"name", "sku", "unit_price"},
            {"id", "stock_quantity", "min_stock_level", "created_at"},
            {"description", "updated_at"}),
    {"sku"}, {})),
  create_table("services_catalog", Table(
    Columns({"name", "base_price", "estimated_minutes"}, {"id", "active", "created_at"},
            {"description", "updated_at"}),
    {}, {})),
  create_table("service_order_parts", Table(
    Columns({"service_order_id", "part_id", "quantity", "unit_price", "subtotal"},
            {"id"}, {}),
    {}, {Ref("part_id", "parts", "RESTRICT"),
         Ref("service_order_id", "service_orders", "CASCADE")})),
  create_table("service_order_services", Table(
    Columns({"service_order_id", "service_id", "quantity", "unit_price", "subtotal"},
            {"id"}, {}),
    {}, {Ref("service_id", "services_catalog", "RESTRICT"),
         Ref("service_order_id", "service_orders", "CASCADE")})) >>

-----------------------------------------------------------------------------
(* The chain of down_revision: a version is the number of revisions that    *)
(* were applied, 0 being Alembic's base.                                   *)

HeadVersion == 4

Version == 0..HeadVersion

Upgrade   == << Upgrade0001, Upgrade0002, Upgrade0003, Upgrade0004 >>
Downgrade == << Downgrade0001, Downgrade0002, Downgrade0003, Downgrade0004 >>

Empty == [t \in {} |-> {}]

\* What a revision makes of schema s: one schema, or none if an operation of it
\* is not possible.
Migrated(s, revision) ==
  LET after[i \in 0..Len(revision)] ==
        IF i = 0 THEN {s}
        ELSE {Applied(t, revision[i]) :
                t \in {u \in after[i - 1] : Possible(u, revision[i])}}
  IN  after[Len(revision)]

\* The schema of each version, as the upgrades make it from an empty database.
SchemaAt[v \in Version] ==
  IF v = 0 THEN {Empty} ELSE UNION {Migrated(s, Upgrade[v]) : s \in SchemaAt[v - 1]}

-----------------------------------------------------------------------------
(* app/shared/models.py.                                                   *)

TimestampMixin(required, filled, nullable) ==
  Columns(required, filled \union {"created_at"}, nullable \union {"updated_at"})

With(table, indexes) == [table EXCEPT !.indexes = indexes]

ItsOrder(column) == {Ref(column, "service_orders", "CASCADE")}

Models == [
  clients |-> Table(
    TimestampMixin({"name"}, {"id", "status"},
                   {"document_type", "document_number", "email", "phone"}),
    {"document_number"}, {}),
  vehicles |-> With(Table(
    TimestampMixin({"client_id", "brand", "model", "year", "license_plate"}, {"id"}, {}),
    {"license_plate"}, {Ref("client_id", "clients", "CASCADE")}),
    {Index("ix_vehicles_client_id", "client_id")}),
  service_orders |-> With(Table(
    TimestampMixin({"client_id", "vehicle_id", "status", "problem_description"},
                   {"id", "labor_total", "parts_total", "quote_total"},
                   {"diagnosis_notes", "quote_sent_at", "approved_at", "paid_at",
                    "started_at", "finished_at", "delivered_at", "cancelled_at"}),
    {}, {Ref("client_id", "clients", "CASCADE"), Ref("vehicle_id", "vehicles", "CASCADE")}),
    {Index("idx_service_orders_status", "status"),
     Index("idx_service_orders_client_id", "client_id"),
     Index("idx_service_orders_vehicle_id", "vehicle_id")}),
  service_order_items |-> With(Table(
    Columns({"service_order_id", "kind", "item_id", "name", "quantity", "unit_price",
             "subtotal"}, {"id"}, {}),
    {}, ItsOrder("service_order_id")),
    {Index("ix_service_order_items_service_order_id", "service_order_id")}),
  service_order_status_history |-> With(Table(
    Columns({"service_order_id", "to_status", "reason", "created_at"}, {"id"},
            {"from_status"}),
    {}, ItsOrder("service_order_id")),
    {Index("ix_service_order_status_history_service_order_id", "service_order_id")}),
  sagas |-> With(Table(
    Columns({"id", "order_id", "state", "created_at"},
            {"data", "pending_compensations", "attempts"},
            {"final_status", "failure_reason", "last_command", "deadline_at", "updated_at"}),
    {"order_id"}, ItsOrder("order_id")),
    {[Index("idx_sagas_deadline", "deadline_at")
        EXCEPT !.where = "deadline_at IS NOT NULL"]}),
  processed_messages |-> Table(
    Columns({"message_id", "message_type"}, {"processed_at"}, {}), {}, {}),
  outbox_messages |-> With(Table(
    Columns({"message_id", "message_type", "destination", "envelope"},
            {"id", "trace_headers", "created_at"}, {"published_at"}),
    {"message_id"}, {}),
    {[Index("idx_outbox_messages_pending", "id") EXCEPT !.where = "published_at IS NULL"]}) ]
=============================================================================
