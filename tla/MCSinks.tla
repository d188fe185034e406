------------------------------ MODULE MCSinks -------------------------------
(***************************************************************************)
(* Small instances of Sinks: three names over two schemas.                 *)
(***************************************************************************)
EXTENDS Sinks

MCSchemas == {"home", "other"}
MCNames == {"a", "b", "c"}
MCColumnLists == {<<"x">>, <<"y", "x">>}

MCOneSchemaPerName ==
  {[tables |-> {<<"home", "a">>, <<"other", "b">>, <<"home", "c">>}, views |-> {},
    beyond |-> {}],
   [tables |-> {<<"home", "a">>},
    views |-> {<<"home", "b">>, <<"other", "b">>, <<"home", "c">>}, beyond |-> {}]}

MCBeyond ==
  {[tables |-> {<<"home", "a">>}, views |-> {}, beyond |-> Beyond],
   [tables |-> {<<"other", "a">>, <<"other", "c">>}, views |-> {},
    beyond |-> {"several tables", "renamed by ALTER"}]}

MCUsages == MCOneSchemaPerName \cup MCBeyond

MCSharedName ==
  {[tables |-> {<<"home", "a">>, <<"other", "a">>}, views |-> {}, beyond |-> {}]}

=============================================================================
