----------------------------- MODULE SinkReader -----------------------------
(***************************************************************************)
(* The reader of a sink's DDL (internal/sink/sqlddl): Apply over the       *)
(* statements of all its files, with ClickHouse's hook                     *)
(* (internal/sink/clickhouse) in front of it. Other dialects have no hook. *)
(* Names are as they were written.                                         *)
(***************************************************************************)
EXTENDS Naturals, SequencesExt

CONSTANTS
  Schemas, Names, Columns, Topics, Definitions,
  Unqualified, NoTopic

VARIABLES
  list,      \* Tables.List
  views,     \* hook.views
  crashed    \* whether a slice was taken out of its bounds

readerVars == <<list, views, crashed>>

ReaderInit == list = <<>> /\ views = <<>> /\ crashed = FALSE

Written == (Schemas \cup {Unqualified}) \X Names

(***************************************************************************)
(* Tables.Find: a table of that full name, else one of that last segment.  *)
(***************************************************************************)
Find(name) ==
  LET full == SelectInSeq(list, LAMBDA tbl : tbl.name = name)
  IN  IF full # 0 THEN full
      ELSE SelectInSeq(list, LAMBDA tbl : Last(tbl.name) = Last(name))

Removed(name) == IF Find(name) = 0 THEN list ELSE RemoveAt(list, Find(name))

Tables(to) == list' = to /\ UNCHANGED <<views, crashed>>

-----------------------------------------------------------------------------

(***************************************************************************)
(* Created keeps the topic of a Kafka engine.                              *)
(***************************************************************************)
NewTable(name, cols, topic, hooked) ==
  [name |-> name, cols |-> cols, topic |-> IF hooked THEN topic ELSE NoTopic]

Crash == crashed' = TRUE /\ UNCHANGED <<list, views>>

(***************************************************************************)
(* A statement no case of the reader is for.                               *)
(***************************************************************************)
PassOver == UNCHANGED readerVars

(***************************************************************************)
(* The words between CREATE and the name are TABLE alone, TABLE IF NOT     *)
(* EXISTS, or modifiers before TABLE. Where the name is taken, the three   *)
(* words before it are looked at: there are only two before the name of a  *)
(* plain CREATE TABLE. A column list over several lines that is glued to   *)
(* the name makes one word with it, in which spaces stand for the ends of  *)
(* lines; the text is searched for that word before anything else, and     *)
(* sliced where it is not found. Without a list no table is read.          *)
(***************************************************************************)
CreateTable(name, form, columnList, cols, topic, hooked) ==
  LET new == NewTable(name, cols, topic, hooked)
  IN  IF columnList = "glued" THEN Crash
      ELSE IF columnList = "none" THEN PassOver
      ELSE IF Find(name) = 0 THEN Tables(Append(list, new))
      ELSE IF form = "plain" THEN Crash
      ELSE IF form = "if not exists" THEN PassOver
      ELSE Tables(Append(Removed(name), new))

DropTable(name) == Tables(Removed(name))

ColumnsOf(name) == list[Find(name)].cols

AlterTable(name, cols) ==
  IF Find(name) = 0 THEN UNCHANGED readerVars
  ELSE Tables([list EXCEPT ![Find(name)].cols = cols])

FindColumn(cols, c) == SelectInSeq(cols, LAMBDA x : x = c)

(* Faulty: a column that is there is added again. *)
WithColumnTwice(cols, c) == Append(cols, c)

WithColumn(cols, c) == IF FindColumn(cols, c) # 0 THEN cols ELSE Append(cols, c)

WithoutColumn(cols, c) ==
  IF FindColumn(cols, c) = 0 THEN cols ELSE RemoveAt(cols, FindColumn(cols, c))

WithColumnRenamed(cols, c, d) ==
  IF FindColumn(cols, c) = 0 THEN cols ELSE ReplaceAt(cols, FindColumn(cols, c), d)

(***************************************************************************)
(* FIRST or AFTER, behind the column's type, is not looked at.             *)
(***************************************************************************)
AddColumn(name, c) == AlterTable(name, WithColumn(ColumnsOf(name), c))
DropColumn(name, c) == AlterTable(name, WithoutColumn(ColumnsOf(name), c))
RenameColumn(name, c, d) ==
  AlterTable(name, WithColumnRenamed(ColumnsOf(name), c, d))

-----------------------------------------------------------------------------

(***************************************************************************)
(* The statements ClickHouse's hook claims.                                *)
(***************************************************************************)

(* Faulty: only one of the two is renamed. *)
ExchangeOneTable(a, b) ==
  LET i == Find(a)
      j == Find(b)
  IN  IF i = 0 \/ j = 0 THEN UNCHANGED readerVars
      ELSE Tables([list EXCEPT ![i].name = list[j].name])

(***************************************************************************)
(* EXCHANGE TABLES a AND b: each entry takes the other's name.             *)
(***************************************************************************)
ExchangeTables(a, b) ==
  LET i == Find(a)
      j == Find(b)
  IN  IF i = 0 \/ j = 0 THEN UNCHANGED readerVars
      ELSE Tables([list EXCEPT ![i].name = list[j].name, ![j].name = list[i].name])

(***************************************************************************)
(* RENAME TABLE: one pair.                                                 *)
(***************************************************************************)
RenameTable(a, b) ==
  IF Find(a) = 0 THEN UNCHANGED readerVars
  ELSE Tables([list EXCEPT ![Find(a)].name = b])

(* Faulty: a name that was read is not read again. *)
CreateViewOnce(name, definition) ==
  /\ views' = IF \E k \in DOMAIN views : views[k].name = name THEN views
              ELSE Append(views, [name |-> name, definition |-> definition])
  /\ UNCHANGED <<list, crashed>>

(***************************************************************************)
(* CREATE [OR REPLACE] MATERIALIZED VIEW [IF NOT EXISTS]: one more entry.  *)
(***************************************************************************)
CreateView(name, definition) ==
  /\ views' = Append(views, [name |-> name, definition |-> definition])
  /\ UNCHANGED <<list, crashed>>

DropView(name) ==
  LET first == SelectInSeq(views, LAMBDA v : v.name = name)
  IN  /\ views' = IF first = 0 THEN views ELSE RemoveAt(views, first)
      /\ UNCHANGED <<list, crashed>>

=============================================================================
