----------------------------- MODULE TableList ------------------------------
(***************************************************************************)
(* The model a migrations reader builds (internal/model): tables in a      *)
(* list, each a list of columns, looked up by name from the front. Names   *)
(* that differ only in case are one name here, as they are to every lookup *)
(* in the code.                                                            *)
(***************************************************************************)
EXTENDS Naturals, SequencesExt

CONSTANTS
  Unqualified, \* stands for the schema a name was written without
  Invented     \* a name no migration gives to a column

VARIABLES
  src,         \* the tables read so far
  t,           \* where in src the table being altered is, or 0
  passed,      \* the column names ALTER TABLE has mentioned after its cursor
  lost         \* whether the cursor was ever moved to an earlier mention

listVars == <<src, t, passed, lost>>

ListInit ==
  /\ src = <<>>
  /\ t = 0
  /\ passed = <<>>
  /\ lost = FALSE

Column(c, type) == [name |-> c, type |-> type]

(***************************************************************************)
(* Source.Table and Table.Column: the first with the name, or 0.           *)
(***************************************************************************)
Table(id) == SelectInSeq(src, LAMBDA tbl : tbl.id = id)
ColumnIn(cols, c) == SelectInSeq(cols, LAMBDA col : col.name = c)

AppendTable(id, cols) == Append(src, [id |-> id, cols |-> cols])

RemoveTable(id) == IF Table(id) = 0 THEN src ELSE RemoveAt(src, Table(id))

RemoveColumn(cols, c) ==
  IF ColumnIn(cols, c) = 0 THEN cols ELSE RemoveAt(cols, ColumnIn(cols, c))

-----------------------------------------------------------------------------

(***************************************************************************)
(* ALTER TABLE.  The pointer `t` stays on its table whatever the actions   *)
(* do to the list.                                                         *)
(***************************************************************************)

AlterTable(id) ==
  /\ t' = Table(id)
  /\ passed' = <<>>
  /\ lost' = FALSE
  /\ UNCHANGED src

AlterEnds ==
  /\ t' = 0
  /\ passed' = <<>>
  /\ lost' = FALSE
  /\ UNCHANGED src

(* Faulty: the name is looked for from the start each time. *)
NameLineFromStart(c, rest) ==
  /\ lost' = (lost \/ \E k \in DOMAIN passed : passed[k] = c)
  /\ passed' = (passed \o <<c>>) \o rest

(***************************************************************************)
(* ddl.NameLine: the cursor moves past the first mention of the name it    *)
(* has not passed, which may be one an earlier action made. The rest of    *)
(* the new column's definition may mention others (AFTER, REFERENCES).     *)
(***************************************************************************)
NameLine(c, rest) ==
  LET at == SelectInSeq(Append(passed, c), LAMBDA x : x = c)
  IN  /\ lost' = (lost \/ at <= Len(passed))
      /\ passed' = SubSeq(Append(passed, c), at + 1, Len(passed) + 1) \o rest

Mention(names) == passed' = passed \o names /\ UNCHANGED lost

SetColumns(cols) == src' = [src EXCEPT ![t].cols = cols] /\ UNCHANGED t

InAltered(c) == ColumnIn(src[t].cols, c)

DropFound(c) ==
  /\ SetColumns(RemoveColumn(src[t].cols, c))
  /\ Mention(<<c>>)

(***************************************************************************)
(* An action on a column that is not there changes nothing.                *)
(***************************************************************************)
ReplaceFound(c, col, names) ==
  /\ SetColumns(IF InAltered(c) = 0 THEN src[t].cols
                ELSE ReplaceAt(src[t].cols, InAltered(c), col))
  /\ Mention(names)

RenameFound(c, d) ==
  LET kept == IF InAltered(c) = 0 THEN Invented ELSE src[t].cols[InAltered(c)].type
  IN  ReplaceFound(c, Column(d, kept), <<c, d>>)

MoveTable(k, id) == src' = [src EXCEPT ![k].id = id]

-----------------------------------------------------------------------------

(***************************************************************************)
(* What the list says, read the way a database's catalog is.               *)
(***************************************************************************)

Described(cols) ==
  [c \in {cols[i].name : i \in DOMAIN cols} |-> cols[ColumnIn(cols, c)].type]

AsCatalog ==
  [id \in {src[i].id : i \in DOMAIN src} |-> Described(src[Table(id)].cols)]

NoneTwice ==
  /\ \A i, j \in DOMAIN src : src[i].id = src[j].id => i = j
  /\ \A k \in DOMAIN src : \A i, j \in DOMAIN src[k].cols :
       src[k].cols[i].name = src[k].cols[j].name => i = j

=============================================================================
