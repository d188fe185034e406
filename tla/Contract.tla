------------------------------ MODULE Contract ------------------------------
(***************************************************************************)
(* internal/capture/debezium: what a Debezium source connector's           *)
(* configuration captures, and the topic each table's events land on.      *)
(*                                                                         *)
(* Every list of the configuration is a set of patterns, and a pattern is  *)
(* the set of the names it matches; {} is a list that is absent.  Names    *)
(* are compared without case, so case is left out.                         *)
(***************************************************************************)
EXTENDS EventShape

CONSTANTS
  Schemas,   \* Postgres schemas or MySQL databases
  Tables,    \* qualified source tables, at the base or now
  SchemaOf,  \* the schema of each table
  RawTopic   \* prefix.schema.table for each table

ASSUME ContractAssumption ==
  /\ SchemaOf \in [Tables -> Schemas]
  /\ RawTopic \in [Tables -> Names]

ColumnOf == Tables \X Columns

(***************************************************************************)
(* A configuration file, as its keys say it.  transforms is the list       *)
(* transforms= gives; routers are the entries of it that rename topics.    *)
(***************************************************************************)
Configs ==
  [mysql : BOOLEAN, isDebezium : BOOLEAN, afterStateOnly : {"", "true", "false"},
   dbInclude : SUBSET SUBSET Schemas, dbExclude : SUBSET SUBSET Schemas,
   tableInclude : SUBSET SUBSET Tables, tableExclude : SUBSET SUBSET Tables,
   columnInclude : SUBSET SUBSET ColumnOf,
   columnExclude : SUBSET SUBSET ColumnOf,
   transforms : Seq(Transforms)]

(***************************************************************************)
(* debezium.Parse: the database lists are read for MySQL and MariaDB only. *)
(***************************************************************************)
Parse(file) ==
  [file EXCEPT !.dbInclude = IF file.mysql THEN @ ELSE {},
               !.dbExclude = IF file.mysql THEN @ ELSE {}]

(***************************************************************************)
(* columnListKey and tableListKey.  The key of a table exclude list is not *)
(* kept, so the table setting is the include list whatever the file holds. *)
(***************************************************************************)
ColumnListSetting(c) ==
  IF c.columnInclude = {} /\ c.columnExclude # {}
    THEN "column.exclude.list"
    ELSE "column.include.list"

TableListSetting(c) == "table.include.list"

(***************************************************************************)
(* engine.excludes: whether a setting is an exclude list.                  *)
(***************************************************************************)
Excludes(setting) ==
  setting \in {"column.exclude.list", "table.exclude.list",
               "database.exclude.list"}

Settings == {"column.include.list", "column.exclude.list",
             "table.include.list", "database.include.list",
             "database.exclude.list"}

AnyMatch(list, name) == \E p \in list : name \in p

(***************************************************************************)
(* The two database tests of CapturesTable and TableBlock.                 *)
(***************************************************************************)
DatabaseNotIncluded(c, t) ==
  c.dbInclude # {} /\ ~AnyMatch(c.dbInclude, SchemaOf[t])

DatabaseExcluded(c, t) == AnyMatch(c.dbExclude, SchemaOf[t])

CapturesTable(c, t) ==
  /\ ~DatabaseNotIncluded(c, t)
  /\ ~DatabaseExcluded(c, t)
  /\ IF c.tableInclude # {}
       THEN AnyMatch(c.tableInclude, t)
       ELSE ~AnyMatch(c.tableExclude, t)

CapturesColumn(c, t, col) ==
  IF c.columnInclude # {}
    THEN AnyMatch(c.columnInclude, <<t, col>>)
    ELSE ~AnyMatch(c.columnExclude, <<t, col>>)

(* Faulty: the database filters are tried in one direction only. *)
TableBlockByInclude(c, t) ==
  IF DatabaseNotIncluded(c, t) THEN "database.include.list" ELSE TableListSetting(c)

(***************************************************************************)
(* Contract.TableBlock: the list a finding tells the author to edit so     *)
(* that the table is let in.  The entry to write there is the schema for a *)
(* database list and the table otherwise.                                  *)
(***************************************************************************)
TableBlock(c, t) ==
  IF DatabaseNotIncluded(c, t) THEN "database.include.list"
  ELSE IF DatabaseExcluded(c, t) THEN "database.exclude.list"
  ELSE TableListSetting(c)

(***************************************************************************)
(* Contract.Topic: every RegexRouter in the order transforms= lists them,  *)
(* each applied to what the one before it produced.  A router's predicate  *)
(* is not looked at.                                                       *)
(***************************************************************************)
Routers(c) == SelectSeq(c.transforms, LAMBDA tr : tr.type = "router")

Route(topic, r) == r.renames[topic]

Topic(c, t) == FoldLeft(Route, RawTopic[t], Routers(c))

ValueShape(c) == Apply(c.transforms, Start(c.afterStateOnly, c.isDebezium))

=============================================================================
