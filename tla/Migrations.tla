------------------------------ MODULE Migrations ------------------------------
(***************************************************************************)
(* The alembic revisions of src/migrations/versions, run up to the head    *)
(* and down by one (make migrate, make migrate-down) while the program     *)
(* adds rows, against the tables that its models expect.                   *)
(*                                                                         *)
(* env.py runs all the operations of a command in one transaction, and     *)
(* PostgreSQL rolls back DDL.  Continuous integration goes up once, on an  *)
(* empty database; no test goes down, up again, or stops on the way.  The  *)
(* lengths of strings, the precision of numbers and the primary keys are   *)
(* left out.                                                               *)
(***************************************************************************)
EXTENDS Naturals, Sequences, SequencesExt

VARIABLES
    version,   \* alembic_version as committed, 0 for the base
    schema,    \* the schema as committed
    filled,    \* tables with rows
    work,      \* the schema the running command has made, uncommitted
    todo,      \* operations it has still to run
    target,    \* the version it goes to; a command runs when it is not version
    locked     \* tables its operations have locked

vars == <<version, schema, filled, work, todo, target, locked>>

-----------------------------------------------------------------------------
(* Operations of alembic.                                                  *)

\* A table: its columns that must not and that may be null, the enumerated
\* types of its columns, the tables its foreign keys refer to and the columns
\* that are unique.
Table(required, optional, types, refs, unique) ==
    [required |-> required, optional |-> optional, types |-> types, refs |-> refs,
     unique |-> unique]

Op(kind, table, what) == [op |-> kind, table |-> table, what |-> what]

Columns(t) == t.required \cup t.optional

\* With PostgreSQL, create_table also creates the types of its columns: values
\* maps their names to what they enumerate.
CreateTable(name, table, values) == Op("create_table", name, <<table, values>>)
DropTable(name)                  == Op("drop_table", name, {})
CreateIndex(table, index)        == Op("create_index", table, index)
DropIndex(table, index)          == Op("drop_index", table, index)
AddColumn(table, column, nullable) == Op("add_column", table, <<column, nullable>>)
DropColumn(table, column)        == Op("drop_column", table, column)
DropType(type)                   == Op("drop_type", "", type)

NoMap == [x \in {} |-> {}]
Without(f, key) == [x \in DOMAIN f \ {key} |-> f[x]]

EmptySchema == [tables |-> NoMap, types |-> NoMap, indexes |-> {}]

\* Whether the database accepts an operation.  A type that is dropped if it
\* exists must not be in use, and a column that must not be null cannot be added
\* (none is given a default) to a table with rows.
Accepts(s, o) ==
    LET named == o.table \in DOMAIN s.tables
    IN  CASE o.op = "create_table" ->
                /\ ~named
                /\ o.what[1].refs \subseteq DOMAIN s.tables
                /\ DOMAIN o.what[2] \cap DOMAIN s.types = {}
          [] o.op = "drop_table" ->
                /\ named
                /\ \A t \in DOMAIN s.tables \ {o.table} : o.table \notin s.tables[t].refs
          [] o.op = "create_index" -> named /\ <<o.table, o.what>> \notin s.indexes
          [] o.op = "drop_index" -> <<o.table, o.what>> \in s.indexes
          [] o.op = "add_column" ->
                /\ named
                /\ o.what[1] \notin Columns(s.tables[o.table])
                /\ o.what[2] \/ o.table \notin filled
          [] o.op = "drop_column" -> named /\ o.what \in Columns(s.tables[o.table])
          [] o.op = "drop_type" -> \A t \in DOMAIN s.tables : o.what \notin s.tables[t].types

\* The schema after an operation it has accepted.
Applied(s, o) ==
    CASE o.op = "create_table" ->
            [s EXCEPT !.tables = @ @@ (o.table :> o.what[1]), !.types = @ @@ o.what[2]]
      [] o.op = "drop_table" ->
            [s EXCEPT !.tables = Without(@, o.table),
                      !.indexes = {i \in @ : i[1] # o.table}]
      [] o.op = "create_index" -> [s EXCEPT !.indexes = @ \cup {<<o.table, o.what>>}]
      [] o.op = "drop_index" -> [s EXCEPT !.indexes = @ \ {<<o.table, o.what>>}]
      [] o.op = "add_column" ->
            IF o.what[2] THEN [s EXCEPT !.tables[o.table].optional = @ \cup {o.what[1]}]
            ELSE [s EXCEPT !.tables[o.table].required = @ \cup {o.what[1]}]
      [] o.op = "drop_column" ->
            [s EXCEPT !.tables[o.table].optional = @ \ {o.what},
                      !.tables[o.table].required = @ \ {o.what}]
      [] o.op = "drop_type" -> [s EXCEPT !.types = Without(@, o.what)]

-----------------------------------------------------------------------------
(* The revisions.                                                          *)

Revision(upgrade, downgrade) == [upgrade |-> upgrade, downgrade |-> downgrade]

CreateMenuItem == Revision(
    << CreateTable("menu_item",
           Table({"id", "name", "category", "price", "available"}, {}, {"category"}, {}, {}),
           "category" :> {"cookie", "pastry", "bread"}) >>,
    << DropTable("menu_item"), DropType("category") >>)

OrdersTable ==
    Table({"id", "priority_level", "status", "total_price", "placed_at"},
          {"estimated_ready_time"}, {"priority_level", "order_status"}, {}, {})
OrderItemTable ==
    Table({"id", "order_id", "menu_item_id", "quantity", "unit_price"}, {}, {},
          {"orders", "menu_item"}, {})
CreateOrdersUp ==
    << CreateTable("orders", OrdersTable,
           "priority_level" :> {"vip", "app", "walk_in"} @@
           "order_status" :> {"pending_payment", "queued", "baking", "ready", "completed",
                              "cancelled"}),
       CreateTable("order_item", OrderItemTable, NoMap),
       CreateIndex("order_item", "ix_order_item_order_id") >>

\* Mutant: the type that the dropped table leaves behind is forgotten.
MutCreateOrders == Revision(CreateOrdersUp,
    << DropIndex("order_item", "ix_order_item_order_id"),
       DropTable("order_item"), DropTable("orders"), DropType("order_status") >>)

CreateOrders == Revision(CreateOrdersUp,
    << DropIndex("order_item", "ix_order_item_order_id"),
       DropTable("order_item"), DropTable("orders"),
       DropType("order_status"), DropType("priority_level") >>)

\* Mutant: an order may have several payments.
MutPaymentTable ==
    Table({"id", "order_id", "method", "amount", "status", "paid_at"}, {},
          {"payment_method", "payment_status"}, {"orders"}, {})

PaymentTable ==
    Table({"id", "order_id", "method", "amount", "status", "paid_at"}, {},
          {"payment_method", "payment_status"}, {"orders"}, {"order_id"})
CreatePayment == Revision(
    << CreateTable("payment", PaymentTable,
           "payment_method" :> {"cash", "card"} @@
           "payment_status" :> {"confirmed", "failed"}) >>,
    << DropTable("payment"), DropType("payment_status"), DropType("payment_method") >>)

\* Mutant: the downgrade leaves a column.
MutAddOrderTiming == Revision(
    << AddColumn("orders", "started_baking_at", TRUE),
       AddColumn("orders", "ready_at", TRUE),
       AddColumn("orders", "completed_at", TRUE) >>,
    << DropColumn("orders", "completed_at"), DropColumn("orders", "ready_at") >>)

AddOrderTiming == Revision(
    << AddColumn("orders", "started_baking_at", TRUE),
       AddColumn("orders", "ready_at", TRUE),
       AddColumn("orders", "completed_at", TRUE) >>,
    << DropColumn("orders", "completed_at"), DropColumn("orders", "ready_at"),
       DropColumn("orders", "started_baking_at") >>)

\* Mutant: every item has to have a bake time.
MutAddBakeSeconds == Revision(<< AddColumn("menu_item", "bake_seconds", FALSE) >>,
                              << DropColumn("menu_item", "bake_seconds") >>)

AddBakeSeconds == Revision(<< AddColumn("menu_item", "bake_seconds", TRUE) >>,
                           << DropColumn("menu_item", "bake_seconds") >>)

Revisions == <<CreateMenuItem, CreateOrders, CreatePayment, AddOrderTiming, AddBakeSeconds>>
HeadRevision == Len(Revisions)

-----------------------------------------------------------------------------
(* The mapped classes of the program.                                      *)

Models == [
    menu_item |-> Table({"id", "name", "category", "price", "available"},
                        {"bake_seconds"}, {"category"}, {}, {}),
    orders |-> Table({"id", "priority_level", "status", "total_price", "placed_at"},
                     {"estimated_ready_time", "started_baking_at", "ready_at", "completed_at"},
                     {"priority_level", "order_status"}, {}, {}),
    order_item |-> Table({"id", "order_id", "menu_item_id", "quantity", "unit_price"}, {}, {},
                         {"orders", "menu_item"}, {}),
    payment |-> Table({"id", "order_id", "method", "amount", "status", "paid_at"}, {},
                      {"payment_method", "payment_status"}, {"orders"}, {"order_id"})]

\* What values_callable sends for the members of each enumeration.
ModelTypes == [
    category |-> {"cookie", "pastry", "bread"},
    priority_level |-> {"vip", "app", "walk_in"},
    order_status |-> {"pending_payment", "queued", "baking", "ready", "completed", "cancelled"},
    payment_method |-> {"cash", "card"},
    payment_status |-> {"confirmed", "failed"}]

-----------------------------------------------------------------------------

Init ==
    /\ version = 0 /\ target = 0
    /\ schema = EmptySchema /\ work = EmptySchema
    /\ filled = {} /\ locked = {}
    /\ todo = << >>

Running == target # version

\* A command plans its operations and opens the transaction.
Start(to, operations) ==
    /\ ~Running
    /\ target' = to
    /\ todo' = operations
    /\ work' = schema
    /\ UNCHANGED <<version, schema, filled, locked>>

\* alembic upgrade head.
Upgrade ==
    /\ version < HeadRevision
    /\ Start(HeadRevision,
             FlattenSeq([i \in 1..(HeadRevision - version) |-> Revisions[version + i].upgrade]))

\* alembic downgrade -1.
Downgrade ==
    /\ version > 0
    /\ Start(version - 1, Revisions[version].downgrade)

\* The tables an operation locks: its own, and those that foreign keys refer to
\* from a table it creates or drops.
Locks(o) ==
    {o.table} \cup CASE o.op = "create_table" -> o.what[1].refs
                     [] o.op = "drop_table" -> work.tables[o.table].refs
                     [] OTHER -> {}

RunOperation ==
    /\ todo # << >>
    /\ Accepts(work, Head(todo))
    /\ work' = Applied(work, Head(todo))
    /\ locked' = locked \cup Locks(Head(todo))
    /\ todo' = Tail(todo)
    /\ UNCHANGED <<version, schema, filled, target>>

\* The command ends without a commit: it is killed, loses its connection, or
\* the database refuses its next operation.
GiveUp ==
    /\ Running
    /\ target' = version
    /\ todo' = << >>
    /\ work' = schema
    /\ locked' = {}
    /\ UNCHANGED <<version, schema, filled>>

\* Mutant: a version is written that no revision has.
MutCommit ==
    /\ Running
    /\ todo = << >>
    /\ version' = IF target > version THEN target ELSE 2 * version
    /\ target' = version'
    /\ schema' = work
    /\ filled' = filled \cap DOMAIN work.tables
    /\ locked' = {}
    /\ UNCHANGED <<work, todo>>

\* The version is written and everything commits; rows go with their table.
Commit ==
    /\ Running
    /\ todo = << >>
    /\ version' = target
    /\ schema' = work
    /\ filled' = filled \cap DOMAIN work.tables
    /\ locked' = {}
    /\ UNCHANGED <<work, todo, target>>

\* The program adds the first row to a table, which names rows of others; it
\* fills every column its model declares.
AddRow(t) ==
    /\ t \in DOMAIN schema.tables \ filled
    /\ locked \cap ({t} \cup Models[t].refs) = {}
    /\ Columns(Models[t]) \subseteq Columns(schema.tables[t])
    /\ Models[t].refs \subseteq filled
    /\ filled' = filled \cup {t}
    /\ UNCHANGED <<version, schema, work, todo, target, locked>>

Next ==
    \/ Upgrade \/ Downgrade
    \/ RunOperation \/ Commit \/ GiveUp
    \/ \E t \in DOMAIN Models : AddRow(t)

Spec == Init /\ [][Next]_vars

-----------------------------------------------------------------------------
(* Properties.                                                             *)

\* Every variable has its type, and only tables that exist have rows.
TypeOK ==
    /\ version \in 0..HeadRevision
    /\ target \in 0..HeadRevision
    /\ {DOMAIN schema.tables, DOMAIN work.tables} \subseteq SUBSET DOMAIN Models
    /\ {DOMAIN schema.types, DOMAIN work.types} \subseteq SUBSET DOMAIN ModelTypes
    /\ filled \subseteq DOMAIN schema.tables

\* However often the database goes up and down, whatever rows its tables have
\* and however commands are cut short, it refuses no operation of any revision:
\* no type or table is left behind that the next upgrade creates again, none is
\* dropped while another refers to it, and no column is added that the rows
\* cannot do without.
NoOperationRefused == todo # << >> => Accepts(work, Head(todo))

\* The schema that the upgrades lead to, by version.
SchemaAt[v \in 0..HeadRevision] ==
    IF v = 0 THEN EmptySchema ELSE FoldLeft(Applied, SchemaAt[v - 1], Revisions[v].upgrade)

\* The version in the database tells its schema: a downgrade undoes exactly its
\* upgrade, and an interrupted command leaves nothing behind.
VersionTellsSchema == schema = SchemaAt[version]

\* At the head the tables are the ones the program's models declare, column by
\* column, with the values of every enumeration, also after downgrades.
HeadServesTheModels ==
    version = HeadRevision => schema.tables = Models /\ schema.types = ModelTypes

=============================================================================
