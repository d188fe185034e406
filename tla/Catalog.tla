------------------------------ MODULE Catalog -------------------------------
(***************************************************************************)
(* What a database promises of the statements that shape a table's         *)
(* columns: one action per statement or per part of one, guarded by what   *)
(* the database accepts. A part written IF EXISTS or IF NOT EXISTS, or run *)
(* through a prepared statement that first looks whether it is needed, is  *)
(* `guarded`: it does nothing where it would otherwise be refused.         *)
(*                                                                         *)
(* The catalog holds the tables whose columns the migrations spell out.    *)
(***************************************************************************)
LOCAL INSTANCE Naturals

CONSTANTS
  Schemas,     \* schemas of a Postgres database, or databases of MySQL
  Names,       \* what tables are called
  Columns,
  Types,
  NoTable

Ids == Schemas \X Names

VARIABLES
  catalog,     \* the tables there are, and the type of each column of each
  altered,     \* the table the ALTER TABLE being run is about, or NoTable
  session      \* the schema an unqualified name belongs to

dbVars == <<catalog, altered, session>>

CatalogTypeOK ==
  /\ DOMAIN catalog \subseteq Ids
  /\ \A id \in DOMAIN catalog :
       /\ DOMAIN catalog[id] \subseteq Columns
       /\ catalog[id] \in [DOMAIN catalog[id] -> Types]
  /\ altered \in DOMAIN catalog \cup {NoTable}
  /\ session \in Schemas

CatalogInit(home) ==
  /\ catalog = [id \in {} |-> {}]
  /\ altered = NoTable
  /\ session = home

-----------------------------------------------------------------------------

With(f, x, y) == [z \in DOMAIN f \cup {x} |-> IF z = x THEN y ELSE f[z]]
Without(f, x) == [z \in DOMAIN f \ {x} |-> f[z]]

Create(id, content, guarded) ==
  /\ altered = NoTable
  /\ id \in DOMAIN catalog => guarded
  /\ catalog' = IF id \in DOMAIN catalog THEN catalog ELSE With(catalog, id, content)
  /\ UNCHANGED <<altered, session>>

CreateLike(id, from, guarded) ==
  /\ from \in DOMAIN catalog
  /\ Create(id, catalog[from], guarded)

Drop(id, guarded) ==
  /\ altered = NoTable
  /\ id \notin DOMAIN catalog => guarded
  /\ catalog' = Without(catalog, id)
  /\ UNCHANGED <<altered, session>>

Renamed(id, to) == With(Without(catalog, id), to, catalog[id])

(***************************************************************************)
(* A guarded rename is skipped when it has been made already.              *)
(***************************************************************************)
Rename(id, to, guarded) ==
  /\ altered = NoTable
  /\ to # id
  /\ \/ /\ id \in DOMAIN catalog /\ to \notin DOMAIN catalog
        /\ catalog' = Renamed(id, to)
     \/ /\ guarded /\ id \notin DOMAIN catalog /\ to \in DOMAIN catalog
        /\ UNCHANGED catalog
  /\ UNCHANGED <<altered, session>>

Use(schema) ==
  /\ altered = NoTable
  /\ session' = schema
  /\ UNCHANGED <<catalog, altered>>

-----------------------------------------------------------------------------

BeginAlter(id, guarded) ==
  /\ altered = NoTable
  /\ id \notin DOMAIN catalog => guarded
  /\ altered' = IF id \in DOMAIN catalog THEN id ELSE NoTable
  /\ UNCHANGED <<catalog, session>>

EndAlter ==
  /\ altered # NoTable
  /\ altered' = NoTable
  /\ UNCHANGED <<catalog, session>>

Alter(content) ==
  /\ catalog' = [catalog EXCEPT ![altered] = content]
  /\ UNCHANGED <<altered, session>>

Has(c) == c \in DOMAIN catalog[altered]

AddColumn(c, type, guarded) ==
  /\ altered # NoTable
  /\ Has(c) => guarded
  /\ Alter(IF Has(c) THEN catalog[altered] ELSE With(catalog[altered], c, type))

DropColumn(c, guarded) ==
  /\ altered # NoTable
  /\ ~Has(c) => guarded
  /\ Alter(Without(catalog[altered], c))

(***************************************************************************)
(* MySQL's CHANGE gives the column a type with its new name, and may keep  *)
(* the name it has.                                                        *)
(***************************************************************************)
ChangeColumn(c, d, type) ==
  /\ altered # NoTable
  /\ Has(c)
  /\ d # c => ~Has(d)
  /\ Alter(With(Without(catalog[altered], c), d, type))

RenameColumn(c, d) ==
  /\ altered # NoTable
  /\ d # c
  /\ Has(c)
  /\ ChangeColumn(c, d, catalog[altered][c])

SetType(c, type) ==
  /\ altered # NoTable
  /\ Has(c)
  /\ Alter(With(catalog[altered], c, type))

(***************************************************************************)
(* RENAME TO among the actions of an ALTER TABLE, which goes on about the  *)
(* table under its new name.                                               *)
(***************************************************************************)
RenameAltered(to) ==
  /\ altered # NoTable
  /\ to \notin DOMAIN catalog
  /\ catalog' = Renamed(altered, to)
  /\ altered' = to
  /\ UNCHANGED session

=============================================================================
