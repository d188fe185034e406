----------------------------- MODULE MCCommand -----------------------------
(***************************************************************************)
(* Small instances of Command: one source table of three columns added in  *)
(* three lines of a migration, one sink table that asks for one or two of  *)
(* them, and one marker at most.                                           *)
(***************************************************************************)
EXTENDS Command, MCEngine

MCFiles == {"0001.sql", "sink.sql", "connector.json"}

LineOf(c) == CASE c = "id" -> 2 [] c = "ssn" -> 3 [] OTHER -> 4

At(file, line) == [file |-> file, line |-> line]

MCSinkAt(i) == At("sink.sql", 1)
MCSinkColumnAt(i, n) == At("sink.sql", LineOf(n.name))
MCSourceColumnAt(tc) == At("0001.sql", LineOf(tc[2]))
MCViewAt(i) == At("sink.sql", 9)
MCConnectorAt == At("connector.json", 1)

CommandFiles ==
  {File, [File EXCEPT !.columnInclude = {Pairs(Orders, {"id"})}],
   [File EXCEPT !.columnExclude = {Pairs(Orders, {"ssn"})}],
   [File EXCEPT !.tableInclude = {{Users}}],
   [File EXCEPT !.transforms = <<Flatten("_")>>]}

CommandBases ==
  {{}} \cup
  {{[tables |-> {Orders}, columns |-> [t \in MCTables |-> cols], contract |-> {},
     changed |-> FALSE]} : cols \in {{"id"}, {"id", "ssn"}}}

CommandInputs ==
  {[Input(<<Orders>>, AllColumns, f, <<SinkTable("clickhouse", "orders", topic, RowNames(cols))>>)
      EXCEPT !.base = b] :
     f \in CommandFiles, b \in CommandBases, cols \in {<<"id">>, <<"id", "ssn">>},
     topic \in {"rr.public.orders", "orders"}}

Marker(at, rules, reasoned) ==
  [file |-> at.file, line |-> at.line, rules |-> rules, reasoned |-> reasoned,
   alone |-> FALSE]

MarkerLists ==
  {<<>>} \cup
  {<<Marker(At("sink.sql", 3), {"sink-column-not-captured"}, r)>> : r \in BOOLEAN} \cup
  {<<Marker(At("sink.sql", 1), {"sink-table-not-captured"}, TRUE)>>,
   <<Marker(At("0001.sql", 4), {"schema-before-connector"}, TRUE)>>,
   <<Marker(At("0001.sql", 4),
            {"schema-before-connector", "source-column-not-captured"}, TRUE)>>,
   <<Marker(At("0001.sql", 4), {"source-column-not-captured"}, TRUE)>>}

CommandOptions ==
  {[disabled |-> d, failOn |-> f, markers |-> ms] :
     d \in {{}, {"schema-before-connector"}, {"source-column-not-captured"},
            {"sink-column-not-captured", "ignore-marker"}, {NotARule}},
     f \in {"error", "warning", "info", "other"}, ms \in MarkerLists}

=============================================================================
