---------------------------- MODULE MySQLReader -----------------------------
(***************************************************************************)
(* The MySQL reader (internal/source/mysql): reader.statement, one action  *)
(* per statement and per part of an ALTER, RENAME or DROP TABLE. The       *)
(* database an unqualified table belongs to is the last USE's, or the      *)
(* connector's.                                                            *)
(***************************************************************************)
EXTENDS TableList

CONSTANT NoDatabase

VARIABLES
  db,        \* the current database, or NoDatabase
  failed     \* whether a table could not be placed in a database

readerVars == <<listVars, db, failed>>

(***************************************************************************)
(* reader.qualify: a name that cannot be placed stops the reading.         *)
(***************************************************************************)
Placed(name) == name[1] # Unqualified \/ db # NoDatabase

(* Faulty: a name without a database is kept as written. *)
QualifiedAsWritten(name) == name

Qualified(name) == IF name[1] = Unqualified THEN <<db, name[2]>> ELSE name

Stop == failed' = TRUE /\ UNCHANGED <<listVars, db>>

Going == UNCHANGED <<db, failed>>

(* Faulty: USE is not read. *)
UseUnread(s) == UNCHANGED readerVars

UseDatabase(s) == db' = s /\ failed' = failed /\ UNCHANGED listVars

CreateTable(name, cols) ==
  IF ~Placed(name) THEN Stop
  ELSE /\ src' = IF Table(Qualified(name)) = 0
                 THEN AppendTable(Qualified(name), cols)
                 ELSE src
       /\ UNCHANGED <<t, passed, lost>>
       /\ Going

CreateUnlisted(name, parenthesis) ==
  IF parenthesis THEN CreateTable(name, <<Column(Invented, Invented)>>)
  ELSE IF ~Placed(name) THEN Stop
  ELSE UNCHANGED readerVars

(***************************************************************************)
(* A table that exists is kept before the other's name is even read.       *)
(***************************************************************************)
CreateLike(name, like) ==
  IF Placed(name) /\ Table(Qualified(name)) # 0 THEN UNCHANGED readerVars
  ELSE IF ~Placed(name) \/ ~Placed(like) THEN Stop
  ELSE LET from == Table(Qualified(like))
       IN  /\ src' = IF from = 0 THEN src
                     ELSE AppendTable(Qualified(name), src[from].cols)
           /\ UNCHANGED <<t, passed, lost>>
           /\ Going

DropTable(name) ==
  IF ~Placed(name) THEN Stop
  ELSE /\ src' = RemoveTable(Qualified(name))
       /\ UNCHANGED <<t, passed, lost>>
       /\ Going

(***************************************************************************)
(* RENAME TABLE: one pair; a table that is not there is passed over before *)
(* its new name is read.                                                   *)
(***************************************************************************)
RenameTable(name, to) ==
  IF ~Placed(name) THEN Stop
  ELSE IF Table(Qualified(name)) = 0 THEN UNCHANGED readerVars
  ELSE IF ~Placed(to) THEN Stop
  ELSE /\ MoveTable(Table(Qualified(name)), Qualified(to))
       /\ UNCHANGED <<t, passed, lost>>
       /\ Going

AlterStart(name) ==
  IF ~Placed(name) THEN Stop ELSE AlterTable(Qualified(name)) /\ Going

AlterDone == AlterEnds /\ Going

(***************************************************************************)
(* ADD: the line is looked for first, even when the column is there and    *)
(* nothing is added; FIRST and AFTER choose its place.                     *)
(***************************************************************************)
AddColumn(c, type, rest, at) ==
  /\ IF InAltered(c) = 0
     THEN SetColumns(InsertAt(src[t].cols, at, Column(c, type)))
     ELSE UNCHANGED <<src, t>>
  /\ NameLine(c, rest)
  /\ Going

DropColumn(c) == DropFound(c) /\ Going

ChangeColumn(c, d, type) == ReplaceFound(c, Column(d, type), <<c, d>>) /\ Going

ModifyColumn(c, type) == ReplaceFound(c, Column(c, type), <<c>>) /\ Going

RenameColumn(c, d) == RenameFound(c, d) /\ Going

(***************************************************************************)
(* RENAME [TO] among the actions of an ALTER TABLE.                        *)
(***************************************************************************)
RenameAltered(to) ==
  IF ~Placed(to) THEN Stop
  ELSE /\ MoveTable(t, Qualified(to))
       /\ UNCHANGED <<t, passed, lost>>
       /\ Going

=============================================================================
