------------------------------ MODULE Sources -------------------------------
(***************************************************************************)
(* The migrations a database has run, and what the reader of its dialect   *)
(* (cmd/cdclint/source.go) makes of the same files.                        *)
(*                                                                         *)
(* Every statement is met by the migration tool, which runs it in the      *)
(* database if it belongs to an up half, and by the reader. The migrations *)
(* are ones the database accepts, since a tool stops at the first it       *)
(* refuses. A statement that names several tables or has several actions   *)
(* is met one part at a time, each part one the database would accept      *)
(* after those before it.                                                  *)
(***************************************************************************)
EXTENDS Naturals, Sequences, FiniteSets

CONSTANTS
  Schemas, Names, Columns, Types, NoTable,
  Unqualified, Invented, NoDatabase,
  DefaultSchema, \* Postgres: the schema of an unqualified name
  Home,          \* MySQL: the database the migration tool connects to
  Dialects,      \* the dialects there are, of "postgres" and "mysql"
  ColumnLists,   \* the column lists CREATE TABLE is written with
  Parentheses,   \* whether a CREATE TABLE without one may have a parenthesis
  MaxTables,     \* bounds the tables there are at a time
  MaxColumns,    \* bounds the columns they have between them
  MaxPassed      \* bounds the names an ALTER TABLE mentions past its cursor

ASSUME SourcesAssumption ==
  /\ DefaultSchema \in Schemas /\ Home \in Schemas
  /\ Unqualified \notin Schemas /\ NoDatabase \notin Schemas
  /\ NoTable \notin Schemas \X Names
  /\ Invented \notin Columns
  /\ Dialects \subseteq {"postgres", "mysql"}
  /\ Parentheses \subseteq BOOLEAN
  /\ MaxPassed \in Nat
  /\ ColumnLists \subseteq Seq([name : Columns, type : Types])
  /\ \A cols \in ColumnLists : \A i, j \in DOMAIN cols :
       cols[i].name = cols[j].name => i = j

VARIABLES
  dialect,
  catalog, altered, session, \* the database
  half, skipped, down,       \* the halves of the file
  src, t, passed, lost,      \* the reader
  db, failed,                \* the MySQL reader alone
  since,     \* history: the names mentioned since the cursor was last moved
  excused    \* history: whether the name the cursor was lost on was mentioned

DB     == INSTANCE Catalog
Halves == INSTANCE Migrate
Pg     == INSTANCE PgReader
My     == INSTANCE MySQLReader
List   == INSTANCE TableList

dbVars == <<catalog, altered, session>>
halfVars == <<half, skipped, down>>
readerVars == <<src, t, passed, lost, db, failed>>
history == <<since, excused>>
vars == <<dialect, dbVars, halfVars, readerVars, history>>

(***************************************************************************)
(* The database of a MySQL connector is known if its include list names    *)
(* one (DefaultDatabase), and is then the one the tool connects to.        *)
(***************************************************************************)
Init ==
  /\ dialect \in Dialects
  /\ DB!CatalogInit(IF dialect = "postgres" THEN DefaultSchema ELSE Home)
  /\ Halves!HalvesInit
  /\ List!ListInit
  /\ db \in IF dialect = "mysql" THEN {Home, NoDatabase} ELSE {NoDatabase}
  /\ failed = FALSE
  /\ since = {}
  /\ excused = FALSE

-----------------------------------------------------------------------------

Written == (Schemas \cup {Unqualified}) \X Names

Meant(name) == IF name[1] = Unqualified THEN <<session, name[2]>> ELSE name

Contents(cols) ==
  [c \in {cols[i].name : i \in DOMAIN cols} |->
     cols[CHOOSE i \in DOMAIN cols : cols[i].name = c].type]

(***************************************************************************)
(* One part of a statement, met by the tool and by the reader.             *)
(***************************************************************************)
Meet(inDB, inReader) ==
  /\ ~failed
  /\ IF Halves!Runs THEN inDB ELSE UNCHANGED dbVars
  /\ IF Halves!Read THEN inReader ELSE UNCHANGED readerVars
  /\ UNCHANGED <<dialect, halfVars>>

Postgres == dialect = "postgres"
MySQL == dialect = "mysql"

InPg(step) == step /\ UNCHANGED <<db, failed>>

Between == altered = NoTable /\ t = 0 /\ UNCHANGED history

Room(n) ==
  LET kept == {x \in DB!Ids \X Columns :
                 x[1] \in DOMAIN catalog /\ x[2] \in DOMAIN catalog[x[1]]}
  IN  Cardinality(kept) + n <= MaxColumns

CreateTable ==
  \E name \in Written, cols \in ColumnLists, guarded \in BOOLEAN :
    /\ Between
    /\ Cardinality(DOMAIN catalog) < MaxTables
    /\ Room(Len(cols))
    /\ Meet(DB!Create(Meant(name), Contents(cols), guarded),
            IF Postgres THEN InPg(Pg!CreateTable(name, cols))
                        ELSE My!CreateTable(name, cols))

(***************************************************************************)
(* PARTITION OF and AS SELECT: the migrations do not spell out the         *)
(* columns, and the comments of both readers have them leave the table     *)
(* out.                                                                    *)
(***************************************************************************)
CreateUnlisted ==
  \E name \in Written, parenthesis \in Parentheses :
    /\ Between
    /\ Meant(name) \notin DOMAIN catalog
    /\ Meet(UNCHANGED dbVars,
            IF Postgres THEN InPg(Pg!CreateUnlisted(name, parenthesis))
                        ELSE My!CreateUnlisted(name, parenthesis))

CreateLike ==
  \E name, like \in Written, guarded \in BOOLEAN :
    /\ Between
    /\ MySQL
    /\ Cardinality(DOMAIN catalog) < MaxTables
    /\ Room(1)
    /\ Meet(DB!CreateLike(Meant(name), Meant(like), guarded),
            My!CreateLike(name, like))

DropTable ==
  \E name \in Written, guarded \in BOOLEAN :
    /\ Between
    /\ Meet(DB!Drop(Meant(name), guarded),
            IF Postgres THEN InPg(Pg!DropTable(name)) ELSE My!DropTable(name))

RenameTable ==
  \E name, to \in Written, guarded \in BOOLEAN :
    /\ Between
    /\ MySQL
    /\ Meet(DB!Rename(Meant(name), Meant(to), guarded), My!RenameTable(name, to))

UseDatabase ==
  \E s \in Schemas :
    /\ Between
    /\ MySQL
    /\ Meet(DB!Use(s), My!UseDatabase(s))

-----------------------------------------------------------------------------

BeginAlter ==
  \E name \in Written, guarded \in BOOLEAN :
    /\ Between
    /\ Meet(DB!BeginAlter(Meant(name), guarded),
            IF Postgres THEN InPg(Pg!AlterStart(name)) ELSE My!AlterStart(name))

EndAlter ==
  /\ t # 0
  /\ Meet(DB!EndAlter, IF Postgres THEN InPg(List!AlterEnds) ELSE My!AlterDone)
  /\ since' = {}
  /\ excused' = FALSE

(***************************************************************************)
(* An action of the ALTER TABLE. `mentions`: the names it mentions.        *)
(***************************************************************************)
Acting(mentions) ==
  /\ t # 0
  /\ Len(passed) + Len(mentions) <= MaxPassed

Mentioning(names) == since' = since \cup names /\ UNCHANGED excused

AddColumn ==
  \E c \in Columns, type \in Types, guarded \in BOOLEAN,
     rest \in {<<>>} \cup {<<d>> : d \in Columns} :
    /\ Acting(<<c>> \o rest)
    /\ Room(1)
    /\ Meet(DB!AddColumn(c, type, guarded),
            IF Postgres THEN InPg(Pg!AddColumn(c, type, rest))
            ELSE \E at \in 1..Len(src[t].cols) + 1 : My!AddColumn(c, type, rest, at))
    /\ IF Postgres /\ List!InAltered(c) # 0
       THEN Mentioning({c} \cup {rest[i] : i \in DOMAIN rest})
       ELSE /\ since' = {rest[i] : i \in DOMAIN rest}
            /\ excused' = (excused \/ (lost' /\ ~lost /\ c \in since))

DropColumn ==
  \E c \in Columns, guarded \in BOOLEAN :
    /\ Acting(<<c>>)
    /\ Meet(DB!DropColumn(c, guarded),
            IF Postgres THEN InPg(Pg!DropColumn(c)) ELSE My!DropColumn(c))
    /\ Mentioning({c})

RenameColumn ==
  \E c, d \in Columns :
    /\ Acting(<<c, d>>)
    /\ Meet(DB!RenameColumn(c, d),
            IF Postgres THEN InPg(Pg!RenameColumn(c, d)) ELSE My!RenameColumn(c, d))
    /\ Mentioning({c, d})

ChangeColumn ==
  \E c, d \in Columns, type \in Types :
    /\ MySQL
    /\ Acting(<<c, d>>)
    /\ Meet(DB!ChangeColumn(c, d, type), My!ChangeColumn(c, d, type))
    /\ Mentioning({c, d})

SetColumnType ==
  \E c \in Columns, type \in Types :
    /\ Acting(<<c>>)
    /\ Meet(DB!SetType(c, type),
            IF Postgres THEN InPg(Pg!AlterColumnType(c, type))
                        ELSE My!ModifyColumn(c, type))
    /\ Mentioning({c})

RenameAltered ==
  /\ Acting(<<>>)
  /\ UNCHANGED history
  /\ \/ \E n \in Names :
          /\ Postgres
          /\ Meet(DB!RenameAltered(<<altered[1], n>>), InPg(Pg!RenameTo(n)))
     \/ \E to \in Written :
          /\ MySQL
          /\ Meet(DB!RenameAltered(Meant(to)), My!RenameAltered(to))

-----------------------------------------------------------------------------

NextFile ==
  \E isDown \in BOOLEAN :
    /\ Between
    /\ Halves!OpenFile(isDown)
    /\ UNCHANGED <<dialect, dbVars, readerVars>>

SectionMarker ==
  \E which \in {"up", "down"} :
    /\ Between
    /\ Halves!Marker(which)
    /\ UNCHANGED <<dialect, dbVars, readerVars>>

Next ==
  \/ CreateTable \/ CreateUnlisted \/ CreateLike \/ DropTable \/ RenameTable
  \/ UseDatabase
  \/ BeginAlter \/ EndAlter
  \/ AddColumn \/ DropColumn \/ RenameColumn \/ ChangeColumn \/ SetColumnType
  \/ RenameAltered
  \/ NextFile \/ SectionMarker

Spec == Init /\ [][Next]_vars

-----------------------------------------------------------------------------

TypeOK ==
  /\ dialect \in Dialects
  /\ DB!CatalogTypeOK
  /\ half \in {"up", "down"} /\ skipped \in BOOLEAN /\ down \in BOOLEAN
  /\ \A i \in DOMAIN src : src[i].id \in DB!Ids
  /\ t \in {0} \cup DOMAIN src
  /\ passed \in Seq(Columns) /\ Len(passed) <= MaxPassed
  /\ lost \in BOOLEAN /\ failed \in BOOLEAN
  /\ db \in Schemas \cup {NoDatabase}
  /\ since \subseteq Columns /\ excused \in BOOLEAN

(***************************************************************************)
(* What the rules are judged against is what the database holds: after any *)
(* migrations the database accepts, unless the reader has given up, the    *)
(* tables read are the database's, each with its columns and their types,  *)
(* and the table being altered is the same one (postgres.go:6-8, "the      *)
(* schema this produces is the one the connector sees").                   *)
(***************************************************************************)
SchemaIsTheDatabases ==
  ~failed =>
    /\ List!NoneTwice
    /\ List!AsCatalog = catalog
    /\ t = 0 <=> altered = NoTable
    /\ t # 0 => src[t].id = altered

(***************************************************************************)
(* The MySQL reader gives up rather than place a table in a database of    *)
(* its own choosing: its current database is the session's or unknown      *)
(* (mysql.go:41-43).                                                       *)
(***************************************************************************)
NeverTheWrongDatabase == MySQL => db \in {session, NoDatabase}

(***************************************************************************)
(* A column is placed on the line that adds it, where a marker or a review *)
(* comment is looked for, unless its statement mentions the name in        *)
(* another role after the column added before it (postgres.go:192,         *)
(* mysql.go:345).                                                          *)
(***************************************************************************)
PlacedWhereAdded == lost => excused

(***************************************************************************)
(* mysql.go:236-238, on a CREATE TABLE without a column list: "Leaving the *)
(* table out is better than inventing its columns."                        *)
(***************************************************************************)
NoColumnIsInvented ==
  \A i \in DOMAIN src : \A j \in DOMAIN src[i].cols :
    src[i].cols[j].name # Invented

=============================================================================
