--------------------------- MODULE MCEngineTwice ----------------------------
(***************************************************************************)
(* Small instances of EngineTwice: those of Engine, and inputs there is a  *)
(* second run over, which have sink connectors in every order over two     *)
(* captured tables and one left out.                                       *)
(***************************************************************************)
EXTENDS EngineTwice, MCEngine

TwiceMappers ==
  LET topics == {"rr.public.orders", "rr.public.users", "rr.sales.orders"}
      subscriptions == {topics, {"rr.public.orders"}, {"rr.public.users"}}
  IN  {[Subscriber("iceberg", ts) EXCEPT !.single = single] :
         ts \in subscriptions, single \in {"orders", NoName}}
      \cup {Subscriber("unknown", ts) : ts \in subscriptions}

TwiceInputs ==
  {[Input(src, AllColumns,
          [File EXCEPT !.tableExclude = {{SalesOrders}},
                       !.columnExclude = {Pairs(Users, {"ssn"})}],
          <<SinkTable("iceberg", "RAW.orders", NoName, RowNames(<<"id", "ssn">>))>>)
      EXCEPT !.mappers = ms] :
     src \in {<<Orders, Users>>, <<Users, SalesOrders, Orders>>},
     ms \in UpTo(TwiceMappers, 2)}

AllInputs == EngineInputs \cup TwiceInputs

=============================================================================
