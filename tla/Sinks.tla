------------------------------- MODULE Sinks --------------------------------
(***************************************************************************)
(* A warehouse and what the sink DDL reader makes of the files that built  *)
(* it.                                                                     *)
(*                                                                         *)
(* Every statement is one the warehouse accepts where it comes in the      *)
(* files. Unqualified names belong to its default schema. A statement that *)
(* has several actions or names several pairs is met one part at a time.   *)
(* Warehouses accept more than the shape sqlddl.go:1-5 gives; Beyond names *)
(* the statements outside it that the files may have.                      *)
(***************************************************************************)
EXTENDS SinkReader, FiniteSets

CONSTANTS
  Home,        \* the warehouse's default schema
  Usages,      \* the tables, the views and the statements of the files
  ColumnLists, \* the column lists tables are created with
  MaxTables,   \* bounds the tables there are at a time
  MaxViews     \* bounds the views read

Ids == Schemas \X Names

(***************************************************************************)
(* A list glued to the table's name over several lines; CREATE TABLE AS    *)
(* without a list; ADD COLUMN with FIRST or AFTER; ADD or DROP of a column *)
(* without the word COLUMN; DROP TABLE of several; ALTER TABLE RENAME TO.  *)
(***************************************************************************)
Beyond ==
  {"glued list", "no list", "position", "no COLUMN", "several tables", "renamed by ALTER"}

ASSUME SinksAssumption ==
  /\ Home \in Schemas
  /\ Unqualified \notin Schemas
  /\ NoTopic \notin Topics
  /\ Usages \subseteq [tables : SUBSET Ids, views : SUBSET Ids, beyond : SUBSET Beyond]
  /\ MaxViews \in Nat
  /\ ColumnLists \subseteq Seq(Columns)
  /\ \A cols \in ColumnLists : IsInjective(cols)

VARIABLES
  hooked,     \* whether the dialect is ClickHouse
  used,       \* what the files are about and have beyond the shape
  warehouse,  \* the columns and the topic of every table
  current     \* the definition of every view there is

warehouseVars == <<warehouse, current>>
vars == <<readerVars, hooked, used, warehouseVars>>

Init ==
  /\ ReaderInit
  /\ hooked \in BOOLEAN
  /\ used \in Usages
  /\ warehouse = [id \in {} |-> {}]
  /\ current = [id \in {} |-> {}]

-----------------------------------------------------------------------------

Meant(name) == IF name[1] = Unqualified THEN <<Home, name[2]>> ELSE name

TableNames == {name \in Written : Meant(name) \in used.tables}
ViewNames == {name \in Written : Meant(name) \in used.views}

Exists(name) == Meant(name) \in DOMAIN warehouse

With(f, x, y) == [z \in DOMAIN f \cup {x} |-> IF z = x THEN y ELSE f[z]]
Without(f, x) == [z \in DOMAIN f \ {x} |-> f[z]]

ContentOf(name) == warehouse[Meant(name)]

Becomes(w) == warehouse' = w /\ UNCHANGED <<hooked, used, current>>

Has(form) == form \in used.beyond

(***************************************************************************)
(* Where statements are passed over the list can outgrow the warehouse;    *)
(* reading ends there.                                                     *)
(***************************************************************************)
NotOutgrown ==
  /\ Len(list) <= Cardinality(DOMAIN warehouse)
  /\ \A i \in DOMAIN list : Len(list[i].cols) <= Cardinality(Columns)

Running == ~crashed /\ NotOutgrown

CreateForms == {"plain", "if not exists", "or replace", "modified"}
ListForms == {"apart", "glued", "none"}

Create ==
  \E name \in TableNames, cols \in ColumnLists, topic \in Topics \cup {NoTopic},
     form \in CreateForms, columnList \in ListForms :
    /\ Running
    /\ form \in {"plain", "modified"} => ~Exists(name)
    /\ Exists(name) \/ Cardinality(DOMAIN warehouse) < MaxTables
    /\ topic # NoTopic => hooked
    /\ columnList = "glued" => Has("glued list")
    /\ columnList = "none" => Has("no list")
    /\ IF Exists(name) /\ form = "if not exists" THEN Becomes(warehouse)
       ELSE Becomes(With(warehouse, Meant(name),
                         [cols |-> cols, topic |-> topic]))
    /\ CreateTable(name, form, columnList, cols, topic, hooked)

Drop ==
  \E name \in TableNames :
    /\ Running
    /\ Becomes(Without(warehouse, Meant(name)))
    /\ DropTable(name)

Columned(name, cols) ==
  Becomes([warehouse EXCEPT ![Meant(name)].cols = cols])

(***************************************************************************)
(* A table's columns have an order, and none is there twice.               *)
(***************************************************************************)
PlaceOf(cols, c) == CHOOSE i \in DOMAIN cols : cols[i] = c
Added(cols, c) == IF c \in ToSet(cols) THEN cols ELSE Append(cols, c)
Dropped(cols, c) == IF c \in ToSet(cols) THEN RemoveAt(cols, PlaceOf(cols, c)) ELSE cols
Renamed(cols, c, d) == ReplaceAt(cols, PlaceOf(cols, c), d)

Add ==
  \E name \in TableNames, c \in Columns :
    /\ Running
    /\ Exists(name)
    /\ Columned(name, Added(ContentOf(name).cols, c))
    /\ AddColumn(name, c)

AddInPlace ==
  \E name \in TableNames, c \in Columns :
    /\ Running
    /\ Has("position")
    /\ Exists(name)
    /\ c \notin ToSet(ContentOf(name).cols)
    /\ \E i \in DOMAIN ContentOf(name).cols :
         Columned(name, InsertAt(ContentOf(name).cols, i, c))
    /\ AddColumn(name, c)

DropOneColumn ==
  \E name \in TableNames, c \in Columns :
    /\ Running
    /\ Exists(name)
    /\ Columned(name, Dropped(ContentOf(name).cols, c))
    /\ DropColumn(name, c)

RenameOneColumn ==
  \E name \in TableNames, c, d \in Columns :
    /\ Running
    /\ Exists(name)
    /\ c \in ToSet(ContentOf(name).cols) /\ d \notin ToSet(ContentOf(name).cols)
    /\ Columned(name, Renamed(ContentOf(name).cols, c, d))
    /\ RenameColumn(name, c, d)

ColumnWithoutTheWord ==
  \E name \in TableNames, c \in Columns :
    /\ Running
    /\ Has("no COLUMN")
    /\ Exists(name)
    /\ \/ Columned(name, Added(ContentOf(name).cols, c))
       \/ Columned(name, Dropped(ContentOf(name).cols, c))
    /\ PassOver

DropTwo ==
  \E a, b \in TableNames :
    /\ Running
    /\ Has("several tables")
    /\ Meant(a) # Meant(b)
    /\ Becomes(Without(Without(warehouse, Meant(a)), Meant(b)))
    /\ PassOver

RenameByAlter ==
  \E a, b \in TableNames :
    /\ Running
    /\ Has("renamed by ALTER")
    /\ Exists(a) /\ ~Exists(b)
    /\ Becomes(With(Without(warehouse, Meant(a)), Meant(b), ContentOf(a)))
    /\ PassOver

(***************************************************************************)
(* ALTER TABLE IF EXISTS of a table that is not there.                     *)
(***************************************************************************)
AlterMissing ==
  \E name \in TableNames, c \in Columns :
    /\ Running
    /\ ~Exists(name)
    /\ Becomes(warehouse)
    /\ AddColumn(name, c)

Exchange ==
  \E a, b \in TableNames :
    /\ Running
    /\ hooked
    /\ Exists(a) /\ Exists(b)
    /\ Becomes([warehouse EXCEPT ![Meant(a)] = ContentOf(b), ![Meant(b)] = ContentOf(a)])
    /\ ExchangeTables(a, b)

Rename ==
  \E a, b \in TableNames :
    /\ Running
    /\ hooked
    /\ Exists(a) /\ ~Exists(b)
    /\ Becomes(With(Without(warehouse, Meant(a)), Meant(b), ContentOf(a)))
    /\ RenameTable(a, b)

(***************************************************************************)
(* A view is created again by OR REPLACE, or left as it is by IF NOT       *)
(* EXISTS.                                                                 *)
(***************************************************************************)
CreateAView ==
  \E name \in ViewNames, definition \in Definitions, replace \in BOOLEAN :
    /\ Running
    /\ hooked
    /\ Len(views) < MaxViews
    /\ current' = IF Meant(name) \in DOMAIN current /\ ~replace THEN current
                  ELSE With(current, Meant(name), definition)
    /\ CreateView(name, definition)
    /\ UNCHANGED <<hooked, used, warehouse>>

DropAView ==
  \E name \in ViewNames :
    /\ Running
    /\ hooked
    /\ current' = Without(current, Meant(name))
    /\ DropView(name)
    /\ UNCHANGED <<hooked, used, warehouse>>

Next ==
  \/ Create \/ Drop \/ DropTwo
  \/ Add \/ AddInPlace \/ DropOneColumn \/ RenameOneColumn \/ AlterMissing
  \/ ColumnWithoutTheWord
  \/ Exchange \/ Rename \/ RenameByAlter
  \/ CreateAView \/ DropAView

Spec == Init /\ [][Next]_vars

-----------------------------------------------------------------------------

OneSchemaPerName == \A id, other \in used.tables : Last(id) = Last(other) => id = other

OfTheShape == used.beyond = {}

TypeOK ==
  /\ hooked \in BOOLEAN /\ crashed \in BOOLEAN
  /\ used \in Usages
  /\ DOMAIN warehouse \subseteq used.tables
  /\ DOMAIN current \subseteq used.views
  /\ \A i \in DOMAIN list :
       /\ list[i].name \in TableNames
       /\ ToSet(list[i].cols) \subseteq Columns
       /\ OneSchemaPerName /\ OfTheShape => IsInjective(list[i].cols)
       /\ list[i].topic \in Topics \cup {NoTopic}
  /\ \A i \in DOMAIN views : views[i].name \in ViewNames
  /\ Len(views) <= MaxViews

(***************************************************************************)
(* While the files use a last name segment for one table only and keep to  *)
(* the shape of sqlddl.go:1-5, the tables read are the warehouse's: each   *)
(* once, with its columns in their order and its topic, through any        *)
(* replacing, renaming and exchanging, and however their names are spelled *)
(* (sqlddl.go:7-8, clickhouse.go:50-52); and the reader reads on.          *)
(***************************************************************************)
TablesAreTheWarehouses ==
  OneSchemaPerName /\ OfTheShape =>
    /\ ~crashed
    /\ {Meant(list[i].name) : i \in DOMAIN list} = DOMAIN warehouse
    /\ Len(list) = Cardinality(DOMAIN warehouse)
    /\ \A i \in DOMAIN list :
         /\ list[i].cols = ContentOf(list[i].name).cols
         /\ list[i].topic = ContentOf(list[i].name).topic

(***************************************************************************)
(* A view of the warehouse is judged: of the views read one has its name   *)
(* and the definition it has now, whatever else was created or dropped.    *)
(***************************************************************************)
EveryViewIsJudged ==
  \A id \in DOMAIN current :
    \E i \in DOMAIN views :
      Meant(views[i].name) = id /\ views[i].definition = current[id]

(***************************************************************************)
(* sqlddl.go:202, "A later CREATE of the same name replaces the earlier    *)
(* one", the same name being one that Find matches (sqlddl.go:205).        *)
(***************************************************************************)
LaterCreateReplaces == ~crashed

=============================================================================
