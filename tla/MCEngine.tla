------------------------------ MODULE MCEngine ------------------------------
(***************************************************************************)
(* Small instances of Engine.  Every run fixes the same tables, columns    *)
(* and names and varies, through Inputs, the part of the input its         *)
(* question is about.                                                      *)
(***************************************************************************)
EXTENDS Engine

Orders == "public.orders"
Users == "public.users"
SalesOrders == "sales.orders"

MCTables == {Orders, Users, SalesOrders}
MCColumns == {"id", "ssn", "note"}
MCSchemas == {"public", "sales"}
MCDelims == {".", "_"}

MCSchemaOf == [t \in MCTables |-> IF t = SalesOrders THEN "sales" ELSE "public"]
MCTableName == [t \in MCTables |-> IF t = Users THEN "users" ELSE "orders"]

MCNames ==
  {"rr.public.orders", "rr.public.users", "rr.sales.orders", "RAW.orders",
   "rr:orders", "rr_orders", "orders", "users", "rr_public_orders", "rr_public_users", "rr_sales_orders"}

MCRawTopic ==
  [t \in MCTables |-> CASE t = Orders -> "rr.public.orders"
                        [] t = Users  -> "rr.public.users"
                        [] OTHER      -> "rr.sales.orders"]

MCLastSegment ==
  [n \in MCNames |->
     CASE n \in {"rr.public.orders", "rr.sales.orders", "RAW.orders"} -> "orders"
       [] n = "rr.public.users" -> "users"
       [] OTHER -> n]

(* BigQuery's replacer leaves a colon alone. *)
MCBigQueryName ==
  [n \in MCNames |-> CASE n = "rr.public.orders" -> "rr_public_orders"
                       [] n = "rr.public.users"  -> "rr_public_users"
                       [] n = "rr.sales.orders"  -> "rr_sales_orders"
                       [] OTHER -> n]

MCSnowflakeName == [MCBigQueryName EXCEPT !["rr:orders"] = "rr_orders"]

-----------------------------------------------------------------------------
(* Pieces the inputs are put together from.                                *)

UpTo(S, n) == UNION {[1 .. m -> S] : m \in 0 .. n}

RowName(c) == [part |-> "row", delim |-> NoDelim, name |-> c]
ImageName(part, d, c) == [part |-> part, delim |-> d, name |-> c]
MetaName == [part |-> "meta", delim |-> NoDelim, name |-> "id"]
RowNames(cols) == [i \in DOMAIN cols |-> RowName(cols[i])]

Quiet == [type |-> "quiet", conditional |-> FALSE, delim |-> NoDelim,
          renames |-> [n \in MCNames |-> n]]
Renaming(from, to) ==
  [Quiet EXCEPT !.type = "router",
                !.renames = [n \in MCNames |-> IF n \in from THEN to ELSE n]]
Unwrap == [Quiet EXCEPT !.type = "unwrap"]
Flatten(d) == [Quiet EXCEPT !.type = "flatten", !.delim = d]

File == [mysql |-> FALSE, isDebezium |-> TRUE, afterStateOnly |-> "",
         dbInclude |-> {}, dbExclude |-> {},
         tableInclude |-> {}, tableExclude |-> {},
         columnInclude |-> {}, columnExclude |-> {}, transforms |-> <<Unwrap>>]

SinkTable(sink, name, topic, cols) ==
  [sink |-> sink, name |-> name, topic |-> topic, columns |-> cols]

Subscriber(kind, topics) ==
  [kind |-> kind, consumes |-> topics, single |-> NoName,
   explicit |-> [n \in MCNames |-> NoName], routes |-> <<>>, transforms |-> <<>>]

AllColumns == [t \in MCTables |-> MCColumns]

Input(source, columns, file, sinks) ==
  [source |-> source, columns |-> columns, contract |-> file, sinks |-> sinks,
   views |-> <<>>, mappers |-> <<>>, base |-> {}]

Pairs(t, cols) == {<<t, c>> : c \in cols}

-----------------------------------------------------------------------------
(* What the connector captures, then and now, and what a sink asks for.    *)

TableLists ==
  {File, [File EXCEPT !.tableInclude = {{Orders}}],
   [File EXCEPT !.tableInclude = {{Users}, {}}],
   [File EXCEPT !.tableExclude = {{Orders}}],
   [File EXCEPT !.dbInclude = {{"sales"}}],
   [File EXCEPT !.mysql = TRUE, !.dbInclude = {{"sales"}}],
   [File EXCEPT !.mysql = TRUE, !.dbExclude = {{"public"}}]}

ColumnLists(f) ==
  {f, [f EXCEPT !.columnInclude = {Pairs(Orders, {"id"})}],
   [f EXCEPT !.columnInclude = {Pairs(Orders, {"id", "ssn"}), Pairs(Users, {"id"}), {}}],
   [f EXCEPT !.columnExclude = {Pairs(Orders, {"ssn"})}]}

CaptureFiles == UNION {ColumnLists(f) : f \in TableLists}

OrdersNow == {{"id"}, {"id", "ssn"}, {"id", "ssn", "note"}}

CaptureBases ==
  {{}} \cup
  {{[tables |-> ts, columns |-> [t \in MCTables |-> cols], contract |-> c,
     changed |-> changed]} :
     ts \in {{Orders}, {Orders, Users}, {Users}}, cols \in {{"id"}, {"id", "note"}},
     c \in {{}, {File}, {[File EXCEPT !.tableInclude = {{Users}}]}},
     changed \in BOOLEAN}

CaptureSinkColumns ==
  {<<>>, RowNames(<<"id", "ssn">>), <<RowName("note"), MetaName>>}

CaptureInputs ==
  {[Input(<<Orders, Users>>, [t \in MCTables |-> IF t = Orders THEN now ELSE {"id"}],
          f, <<SinkTable("snowflake", "RAW.orders", NoName, cols)>>)
      EXCEPT !.base = b] :
     now \in OrdersNow, f \in CaptureFiles, cols \in CaptureSinkColumns,
     b \in CaptureBases}

-----------------------------------------------------------------------------
(* Transforms on either side, over every kind of name.                     *)

ShapeTransforms ==
  {Quiet, Unwrap, [Unwrap EXCEPT !.conditional = TRUE], Flatten(NoDelim),
   Flatten("_"), [Quiet EXCEPT !.type = "other"]}

ShapeNames ==
  <<RowName("id"), RowName("ssn"), RowName("note"), MetaName,
    ImageName("after", "_", "id"), ImageName("after", ".", "ssn"),
    ImageName("before", "_", "note"), ImageName("envelope", NoDelim, "id"),
    ImageName("block", "_", "id")>>

ShapeFiles ==
  {[f EXCEPT !.afterStateOnly = a, !.transforms = tr] :
     f \in {File, [File EXCEPT !.isDebezium = FALSE],
            [File EXCEPT !.columnInclude = {Pairs(Orders, {"id"})}],
            [File EXCEPT !.tableExclude = {{Orders}}]},
     a \in {"", "true"}, tr \in UpTo(ShapeTransforms, 2)}

ShapeInputs ==
  {[Input(<<Orders>>, [t \in MCTables |-> {"id", "ssn"}], f,
          <<SinkTable("snowflake", "RAW.orders", NoName, ShapeNames)>>)
      EXCEPT !.mappers =
        <<[Subscriber("unknown", {"rr.public.orders"}) EXCEPT !.transforms = tr]>>] :
     f \in ShapeFiles, tr \in UpTo(ShapeTransforms, 1)}

-----------------------------------------------------------------------------
(* Topics, routers, connectors and names.                                  *)

Routings ==
  {<<>>,
   <<Renaming({"rr.public.orders"}, "orders")>>,
   <<Renaming({"rr.public.orders"}, "rr:orders")>>,
   <<Renaming({"rr.public.orders"}, "orders"),
     Renaming({"orders"}, "rr.public.users")>>,
   <<Renaming({"rr.public.orders", "rr.sales.orders"}, "orders")>>}

RoutingMappers ==
  LET topics == {"rr.public.orders", "rr.sales.orders", "rr:orders", "orders"}
  IN  {Subscriber("snowflake", topics),
       [Subscriber("snowflake", topics) EXCEPT
          !.explicit["rr.public.orders"] = "users"],
       [Subscriber("iceberg", topics) EXCEPT
          !.routes = <<[table |-> "users", topics |-> {"rr.public.orders"}],
                       [table |-> "orders", topics |-> topics]>>],
       [Subscriber("iceberg", topics) EXCEPT !.single = "RAW.orders"],
       Subscriber("iceberg", {"rr.public.orders"}),
       Subscriber("bigquery", topics),
       Subscriber("unknown", {"rr.public.users"})}

RoutingSinks ==
  LET cols == RowNames(<<"id", "ssn">>)
  IN  {SinkTable("clickhouse", "orders", "rr.public.orders", cols),
       SinkTable("clickhouse", "users", "orders", cols),
       SinkTable("clickhouse", "users", NoName, cols),
       SinkTable("iceberg", "RAW.orders", NoName, cols),
       SinkTable("snowflake", "rr_sales_orders", NoName, cols),
       SinkTable("snowflake", "rr_orders", NoName, cols),
       SinkTable("bigquery", "rr_orders", NoName, cols),
       SinkTable("snowflake", "users", NoName, cols)}

RoutingSources ==
  {<<Orders>>, <<Orders, SalesOrders>>, <<SalesOrders, Orders>>,
   <<Users, Orders, SalesOrders>>}

RoutingInputs ==
  {[Input(src, AllColumns, [File EXCEPT !.transforms = r, !.tableExclude = {{SalesOrders}}],
          sinks) EXCEPT !.mappers = ms] :
     src \in RoutingSources, r \in Routings, ms \in UpTo(RoutingMappers, 2),
     sinks \in UNION {{<<s>>, <<s, SinkTable("clickhouse", "users", "orders", <<>>)>>} :
                        s \in RoutingSinks}}

-----------------------------------------------------------------------------
(* Views over ClickHouse targets, one of them declared twice.              *)

ViewColumns == {RowNames(cols) : cols \in UpTo({"id", "ssn"}, 2) \cup {<<"id", "ssn", "note">>}}

ViewInputs ==
  {[Input(<<Orders>>, AllColumns, File,
          <<SinkTable("clickhouse", "RAW.orders", NoName, first),
            SinkTable("clickhouse", "orders", NoName, second)>>)
      EXCEPT !.views = <<[target |-> target, refreshable |-> refreshable, columns |-> cols]>>] :
     first \in ViewColumns, second \in ViewColumns, cols \in ViewColumns,
     target \in {"RAW.orders", "orders", "users"}, refreshable \in BOOLEAN}

-----------------------------------------------------------------------------
(* Sink tables that name a topic, one of tables the lists may leave out,   *)
(* renamed or merged.                                                      *)

TopicRoutings ==
  {<<>>, <<Renaming({"rr.public.orders", "rr.sales.orders"}, "orders")>>}

TopicInputs ==
  {Input(src, [t \in MCTables |-> {"id", "ssn"}],
         [f EXCEPT !.transforms = r,
                   !.columnExclude = {Pairs(Orders, {"ssn"}), Pairs(SalesOrders, {"ssn"})}],
         <<SinkTable("clickhouse", "orders", topic, cols)>>) :
     src \in {<<Orders>>, <<Orders, SalesOrders>>}, f \in TableLists,
     r \in TopicRoutings, topic \in {"rr.public.orders", "orders"},
     cols \in {RowNames(<<"id", "ssn">>), <<RowName("note")>>, <<MetaName>>}}

-----------------------------------------------------------------------------
(* Every case above.                                                       *)

EngineInputs ==
  CaptureInputs \cup ShapeInputs \cup RoutingInputs \cup ViewInputs \cup TopicInputs

=============================================================================
