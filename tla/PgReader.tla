------------------------------ MODULE PgReader ------------------------------
(***************************************************************************)
(* The Postgres reader (internal/source/postgres): Apply over the          *)
(* statements of a file, one action per statement and per part of an ALTER *)
(* or DROP TABLE. A name is written as a schema, or Unqualified, and a     *)
(* table's name.                                                           *)
(***************************************************************************)
EXTENDS TableList

CONSTANT DefaultSchema

SplitQualified(name) ==
  IF name[1] = Unqualified THEN <<DefaultSchema, name[2]>> ELSE name

(***************************************************************************)
(* CREATE TABLE with or without IF NOT EXISTS keeps the first of a name.   *)
(***************************************************************************)
CreateTable(name, cols) ==
  /\ src' = IF Table(SplitQualified(name)) = 0
            THEN AppendTable(SplitQualified(name), cols)
            ELSE src
  /\ UNCHANGED <<t, passed, lost>>

(***************************************************************************)
(* PARTITION OF and AS SELECT have no column list. The reader takes the    *)
(* first parenthesis after TABLE for one, and only leaves the table out    *)
(* when there is none.                                                     *)
(***************************************************************************)
CreateUnlisted(name, parenthesis) ==
  IF parenthesis THEN CreateTable(name, <<Column(Invented, Invented)>>)
                 ELSE UNCHANGED listVars

DropTable(name) ==
  /\ src' = RemoveTable(SplitQualified(name))
  /\ UNCHANGED <<t, passed, lost>>

AlterStart(name) == AlterTable(SplitQualified(name))

(***************************************************************************)
(* A column that is there already is left alone, and the cursor with it.   *)
(***************************************************************************)
AddColumn(c, type, rest) ==
  IF InAltered(c) = 0
  THEN /\ SetColumns(Append(src[t].cols, Column(c, type)))
       /\ NameLine(c, rest)
  ELSE /\ UNCHANGED <<src, t>>
       /\ Mention(<<c>> \o rest)

DropColumn(c) == DropFound(c)

RenameColumn(c, d) == RenameFound(c, d)

AlterColumnType(c, type) == ReplaceFound(c, Column(c, type), <<c>>)

(***************************************************************************)
(* RENAME TO changes the table's name within its schema.                   *)
(***************************************************************************)
RenameTo(n) ==
  /\ MoveTable(t, <<src[t].id[1], n>>)
  /\ UNCHANGED <<t, passed, lost>>

=============================================================================
