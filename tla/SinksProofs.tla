---------------------------- MODULE SinksProofs ----------------------------
(***************************************************************************)
(* What the sink readers promise, proved for any warehouse and any DDL.    *)
(*                                                                         *)
(* Of the views (Judged): an entry with the present definition is appended *)
(* when a view is created, and only an entry of a view that is gone is     *)
(* taken out (ViewsJudged). Of the tables (WarehouseInv): while no two of  *)
(* them share a last name segment, the entry a name finds is the one of    *)
(* the table it means, so every statement changes the same table in the    *)
(* list and in the warehouse (TablesRead). The types of the list follow    *)
(* from the second (SinksTyped).                                           *)
(***************************************************************************)
EXTENDS Sinks, ListLemmas

(***************************************************************************)
(* What the reader keeps of a view.                                        *)
(***************************************************************************)
Entries == [name : Written, definition : Definitions]

Judged == views \in Seq(Entries) /\ EveryViewIsJudged

-----------------------------------------------------------------------------

(***************************************************************************)
(* The entry DROP VIEW takes out has the name that is dropped.             *)
(***************************************************************************)
LEMMA FirstOfName ==
  ASSUME NEW s \in Seq(Entries), NEW name, NEW i \in 1 .. Len(s), s[i].name = name
  PROVE  LET I == {j \in 1 .. Len(s) : s[j].name = name} IN Min(I) \in I
<1> DEFINE I == {j \in 1 .. Len(s) : s[j].name = name}
<1>1. I \in SUBSET Nat /\ I # {}
  OBVIOUS
<1> HIDE DEF I
<1> QED
  BY <1>1, MinExists DEF I

LEMMA DroppedByName ==
  ASSUME NEW name, views \in Seq(Entries),
         SelectInSeq(views, LAMBDA v : v.name = name) # 0
  PROVE  LET first == SelectInSeq(views, LAMBDA v : v.name = name)
         IN  first \in 1 .. Len(views) /\ views[first].name = name
<1> DEFINE I == {i \in 1 .. Len(views) : views[i].name = name}
<1>1. SelectInSeq(views, LAMBDA v : v.name = name) = IF I # {} THEN Min(I) ELSE 0
  BY Zenon DEF SelectInSeq
<1>2. I # {}
  BY <1>1, Zenon
<1>3. Min(I) \in I
  BY <1>2, FirstOfName, Zenon
<1> QED
  BY <1>1, <1>2, <1>3, Zenon

-----------------------------------------------------------------------------

(***************************************************************************)
(* The entry a CREATE VIEW appends is the view's, and the earlier entries  *)
(* stay for the views that were there.                                     *)
(***************************************************************************)
LEMMA CreateKeepsJudged ==
  ASSUME Judged, CreateAView
  PROVE  Judged'
<1>1. PICK name \in ViewNames, definition \in Definitions, replace \in BOOLEAN :
        /\ current' = IF Meant(name) \in DOMAIN current /\ ~replace THEN current
                      ELSE With(current, Meant(name), definition)
        /\ views' = Append(views, [name |-> name, definition |-> definition])
  BY DEF CreateAView, CreateView
<1> DEFINE new == [name |-> name, definition |-> definition]
<1>2. new \in Entries /\ views \in Seq(Entries)
  BY DEF Entries, ViewNames, Judged
<1>3. /\ views' \in Seq(Entries)
      /\ Len(views') = Len(views) + 1
      /\ views'[Len(views) + 1] = new
      /\ \A i \in 1 .. Len(views) : views'[i] = views[i]
  BY <1>1, <1>2
<1>4. ASSUME NEW id \in DOMAIN current', current'[id] # definition \/ id # Meant(name)
      PROVE  id \in DOMAIN current /\ current'[id] = current[id]
  BY <1>1, <1>4 DEF With
<1>5. ASSUME NEW id \in DOMAIN current'
      PROVE  \E i \in DOMAIN views' :
               Meant(views'[i].name) = id /\ views'[i].definition = current'[id]
  <2>1. CASE id = Meant(name) /\ current'[id] = definition
    BY <1>2, <1>3, <2>1
  <2>2. CASE ~(id = Meant(name) /\ current'[id] = definition)
    <3>1. id \in DOMAIN current /\ current'[id] = current[id]
      BY <1>4, <1>5, <2>2
    <3>2. PICK i \in 1 .. Len(views) :
            Meant(views[i].name) = id /\ views[i].definition = current[id]
      BY <1>2, <3>1 DEF Judged, EveryViewIsJudged
    <3> QED
      BY <1>2, <1>3, <3>1, <3>2
  <2> QED
    BY <2>1, <2>2
<1>6. EveryViewIsJudged'
  BY <1>5 DEF EveryViewIsJudged, Meant
<1> QED
  BY <1>3, <1>6 DEF Judged, Entries, Written

(***************************************************************************)
(* The entry a DROP VIEW takes out is of the view that is gone.            *)
(***************************************************************************)
LEMMA DropKeepsJudged ==
  ASSUME Judged, DropAView
  PROVE  Judged'
<1>1. PICK name \in ViewNames :
        current' = Without(current, Meant(name)) /\ DropView(name)
  BY DEF DropAView
<1> DEFINE first == SelectInSeq(views, LAMBDA v : v.name = name)
<1>2. views \in Seq(Entries) /\ EveryViewIsJudged
  BY DEF Judged
<1>3. \A id \in DOMAIN current' :
        id \in DOMAIN current /\ id # Meant(name) /\ current'[id] = current[id]
  BY <1>1 DEF Without
<1>4. CASE first = 0
  <2>1. views' = views
    BY <1>1, <1>4 DEF DropView
  <2> QED
    BY <1>2, <1>3, <2>1 DEF Judged, EveryViewIsJudged, Meant, Entries, Written
<1>5. CASE first # 0
  <2>1. views' = RemoveAt(views, first)
    BY <1>1, <1>5 DEF DropView
  <2>2. first \in 1 .. Len(views) /\ views[first].name = name
    BY <1>2, <1>5, DroppedByName
  <2> HIDE DEF first
  <2>3. /\ views' \in Seq(Entries)
        /\ \A i \in 1 .. Len(views) :
             i # first => \E j \in 1 .. Len(views') : views'[j] = views[i]
    BY <1>2, <2>1, <2>2, RemoveAtTakesOut DEF TakenOut
  <2>4. ASSUME NEW id \in DOMAIN current'
        PROVE  \E j \in DOMAIN views' :
                 Meant(views'[j].name) = id /\ views'[j].definition = current'[id]
    <3>1. PICK i \in 1 .. Len(views) :
            Meant(views[i].name) = id /\ views[i].definition = current[id]
      BY <1>2, <1>3, <2>4 DEF EveryViewIsJudged
    <3>2. i # first
      BY <1>3, <2>2, <2>4, <3>1
    <3>3. PICK j \in 1 .. Len(views') : views'[j] = views[i]
      BY <2>3, <3>1, <3>2
    <3> QED
      BY <1>3, <2>3, <2>4, <3>1, <3>3
  <2>5. EveryViewIsJudged'
    BY <2>4 DEF EveryViewIsJudged, Meant
  <2> QED
    BY <2>3, <2>5 DEF Judged, Entries, Written
<1> QED
  BY <1>4, <1>5

(***************************************************************************)
(* No statement about tables touches a view.                               *)
(***************************************************************************)
LEMMA TablesKeepViews ==
  ASSUME Next
  PROVE  CreateAView \/ DropAView \/ UNCHANGED <<views, current>>
<1>1. ASSUME Create PROVE UNCHANGED <<views, current>>
  BY <1>1 DEF Create, CreateTable, Crash, PassOver, Tables, Becomes, readerVars
<1>2. ASSUME Drop PROVE UNCHANGED <<views, current>>
  BY <1>2 DEF Drop, DropTable, Tables, Becomes
<1>3. ASSUME Add PROVE UNCHANGED <<views, current>>
  BY <1>3 DEF Add, AddColumn, AlterTable, Columned, Tables, Becomes, readerVars
<1>4. ASSUME DropOneColumn PROVE UNCHANGED <<views, current>>
  BY <1>4 DEF DropOneColumn, DropColumn, AlterTable, Columned, Tables, Becomes, readerVars
<1>5. ASSUME RenameOneColumn PROVE UNCHANGED <<views, current>>
  BY <1>5 DEF RenameOneColumn, RenameColumn, AlterTable, Columned, Tables, Becomes,
              readerVars
<1>6. ASSUME AlterMissing PROVE UNCHANGED <<views, current>>
  BY <1>6 DEF AlterMissing, AddColumn, AlterTable, Tables, Becomes, readerVars
<1>7. ASSUME Exchange PROVE UNCHANGED <<views, current>>
  BY <1>7 DEF Exchange, ExchangeTables, Tables, Becomes, readerVars
<1>8. ASSUME Rename PROVE UNCHANGED <<views, current>>
  BY <1>8 DEF Rename, RenameTable, Tables, Becomes, readerVars
<1>9. ASSUME AddInPlace PROVE UNCHANGED <<views, current>>
  BY <1>9 DEF AddInPlace, AddColumn, AlterTable, Columned, Tables, Becomes, readerVars
<1>10. ASSUME ColumnWithoutTheWord \/ DropTwo \/ RenameByAlter
       PROVE  UNCHANGED <<views, current>>
  BY <1>10 DEF ColumnWithoutTheWord, DropTwo, RenameByAlter, PassOver, Columned, Becomes,
               readerVars
<1> QED
  BY <1>1, <1>2, <1>3, <1>4, <1>5, <1>6, <1>7, <1>8, <1>9, <1>10 DEF Next

(***************************************************************************)
(* Every view of the warehouse is among the views read with the definition *)
(* it has now, for every warehouse and every sequence of statements        *)
(* (clickhouse.go: createView, dropView).                                  *)
(***************************************************************************)
THEOREM ViewsJudged == Spec => []EveryViewIsJudged
<1>1. Init => Judged
  BY DEF Init, ReaderInit, Judged, EveryViewIsJudged
<1>2. Judged /\ [Next]_vars => Judged'
  <2> SUFFICES ASSUME Judged, [Next]_vars PROVE Judged'
    OBVIOUS
  <2>1. CASE UNCHANGED <<views, current>>
    BY <2>1 DEF Judged, EveryViewIsJudged, Meant, Entries, Written
  <2>2. CASE Next
    BY <2>1, <2>2, TablesKeepViews, CreateKeepsJudged, DropKeepsJudged
  <2> QED
    BY <2>1, <2>2 DEF vars, readerVars, warehouseVars
<1>3. Judged => EveryViewIsJudged
  BY DEF Judged
<1> QED
  BY <1>1, <1>2, <1>3, PTL DEF Spec

-----------------------------------------------------------------------------

(***************************************************************************)
(* A table's columns, each read once.                                      *)
(***************************************************************************)
Lists == {cols \in Seq(Columns) : IsInjective(cols)}

LEMMA ColumnFound ==
  ASSUME NEW cols \in Seq(Columns), NEW c
  PROVE  /\ FindColumn(cols, c) \in 0 .. Len(cols)
         /\ FindColumn(cols, c) = 0 <=> c \notin ToSet(cols)
         /\ FindColumn(cols, c) # 0 => cols[FindColumn(cols, c)] = c
<1> DEFINE I == {j \in 1 .. Len(cols) : cols[j] = c}
<1>1. FindColumn(cols, c) = IF I # {} THEN Min(I) ELSE 0
  BY Zenon DEF FindColumn, SelectInSeq
<1>2. I \in SUBSET Nat /\ DOMAIN cols = 1 .. Len(cols) /\ Len(cols) \in Nat
  OBVIOUS
<1>3. I # {} => Min(I) \in I
  <2> HIDE DEF I
  <2> QED
    BY <1>2, MinExists
<1>4. \A j \in I : j # 0
  OBVIOUS
<1>5. I = {} <=> c \notin ToSet(cols)
  BY <1>2 DEF ToSet
<1> QED
  BY <1>1, <1>2, <1>3, <1>4, <1>5

LEMMA ColumnPutIn ==
  ASSUME NEW cols \in Lists, NEW c \in Columns, c \notin ToSet(cols)
  PROVE  Append(cols, c) \in Lists
<1>1. PICK after : after = Append(cols, c)
  OBVIOUS
<1>2. /\ cols \in Seq(Columns) /\ DOMAIN cols = 1 .. Len(cols) /\ Len(cols) \in Nat
      /\ \A i, j \in 1 .. Len(cols) : cols[i] = cols[j] => i = j
      /\ \A i \in 1 .. Len(cols) : cols[i] # c
  BY DEF Lists, IsInjective, ToSet
<1>3. /\ after \in Seq(Columns) /\ DOMAIN after = 1 .. Len(cols) + 1
      /\ after[Len(cols) + 1] = c /\ \A i \in 1 .. Len(cols) : after[i] = cols[i]
  BY <1>1, <1>2
<1>4. \A i \in 1 .. Len(cols) + 1 : i = Len(cols) + 1 \/ i \in 1 .. Len(cols)
  BY <1>2
<1>5. IsInjective(after)
  BY <1>2, <1>3, <1>4 DEF IsInjective
<1> QED
  BY <1>1, <1>3, <1>5 DEF Lists

LEMMA ColumnTakenOut ==
  ASSUME NEW cols \in Lists, NEW n \in 1 .. Len(cols)
  PROVE  RemoveAt(cols, n) \in Lists
<1>1. PICK after : after = RemoveAt(cols, n)
  OBVIOUS
<1>2. /\ cols \in Seq(Columns) /\ DOMAIN cols = 1 .. Len(cols)
      /\ \A i, j \in 1 .. Len(cols) : cols[i] = cols[j] => i = j
  BY DEF Lists, IsInjective
<1>3. after \in Seq(Columns) /\ TakenOut(after, cols, n)
  BY <1>1, <1>2, RemoveAtTakesOut
<1>4. DOMAIN after = 1 .. Len(after)
  BY <1>3
<1>5. ASSUME NEW i \in 1 .. Len(after), NEW j \in 1 .. Len(after), after[i] = after[j]
      PROVE  i = j
  <2>1. PICK p \in 1 .. Len(cols), q \in 1 .. Len(cols) :
          after[i] = cols[p] /\ after[j] = cols[q] /\ (p = q <=> i = j)
    BY <1>3, Zenon DEF TakenOut
  <2> QED
    BY <1>2, <1>5, <2>1
<1>6. IsInjective(after)
  BY <1>4, <1>5 DEF IsInjective
<1> QED
  BY <1>1, <1>3, <1>6 DEF Lists

LEMMA ColumnReplaced ==
  ASSUME NEW cols \in Lists, NEW n \in 1 .. Len(cols), NEW d \in Columns,
         d \notin ToSet(cols)
  PROVE  ReplaceAt(cols, n, d) \in Lists
<1>1. PICK after : after = ReplaceAt(cols, n, d)
  OBVIOUS
<1>2. /\ cols \in Seq(Columns) /\ DOMAIN cols = 1 .. Len(cols)
      /\ \A i, j \in 1 .. Len(cols) : cols[i] = cols[j] => i = j
      /\ \A i \in 1 .. Len(cols) : cols[i] # d
  BY DEF Lists, IsInjective, ToSet
<1>3. /\ after \in Seq(Columns) /\ DOMAIN after = 1 .. Len(cols)
      /\ \A i \in 1 .. Len(cols) : after[i] = IF i = n THEN d ELSE cols[i]
  BY <1>1, <1>2 DEF ReplaceAt
<1>4. IsInjective(after)
  BY <1>2, <1>3 DEF IsInjective
<1> QED
  BY <1>1, <1>3, <1>4 DEF Lists

LEMMA PlaceInList ==
  ASSUME NEW cols \in Lists, NEW n \in 1 .. Len(cols), NEW c, cols[n] = c
  PROVE  PlaceOf(cols, c) = n
<1>1. cols \in Seq(Columns) /\ \A i, j \in 1 .. Len(cols) : cols[i] = cols[j] => i = j
  BY DEF Lists, IsInjective
<1>2. DOMAIN cols = 1 .. Len(cols)
  BY <1>1
<1>3. PICK p : p = PlaceOf(cols, c)
  OBVIOUS
<1>4. p \in DOMAIN cols /\ cols[p] = c
  BY <1>2, <1>3, Zenon DEF PlaceOf
<1>5. p = n
  BY <1>1, <1>2, <1>4
<1> QED
  BY <1>3, <1>5

(***************************************************************************)
(* The reader's edits of a column list are the warehouse's.                *)
(***************************************************************************)
LEMMA ListEdits ==
  ASSUME NEW cols \in Lists, NEW c \in Columns
  PROVE  /\ WithColumn(cols, c) \in Lists
         /\ WithColumn(cols, c) = Added(cols, c)
         /\ WithoutColumn(cols, c) \in Lists
         /\ WithoutColumn(cols, c) = Dropped(cols, c)
         /\ \A d \in Columns : c \in ToSet(cols) /\ d \notin ToSet(cols) =>
              /\ WithColumnRenamed(cols, c, d) \in Lists
              /\ WithColumnRenamed(cols, c, d) = Renamed(cols, c, d)
<1>1. PICK n : n = FindColumn(cols, c)
  OBVIOUS
<1>2. cols \in Seq(Columns) /\ Len(cols) \in Nat
  BY DEF Lists
<1>3. /\ n \in 0 .. Len(cols) /\ (n = 0 <=> c \notin ToSet(cols))
      /\ n # 0 => cols[n] = c
  BY <1>1, <1>2, ColumnFound
<1>4. ASSUME n # 0
      PROVE  n \in 1 .. Len(cols) /\ PlaceOf(cols, c) = n
  <2>1. n \in 1 .. Len(cols) /\ cols[n] = c
    BY <1>2, <1>3, <1>4
  <2> QED
    BY <2>1, PlaceInList
<1>5. WithColumn(cols, c) \in Lists /\ WithColumn(cols, c) = Added(cols, c)
  BY <1>1, <1>3, ColumnPutIn DEF WithColumn, Added
<1>6. WithoutColumn(cols, c) \in Lists /\ WithoutColumn(cols, c) = Dropped(cols, c)
  BY <1>1, <1>3, <1>4, ColumnTakenOut DEF WithoutColumn, Dropped
<1>7. ASSUME NEW d \in Columns, c \in ToSet(cols), d \notin ToSet(cols)
      PROVE  /\ WithColumnRenamed(cols, c, d) \in Lists
             /\ WithColumnRenamed(cols, c, d) = Renamed(cols, c, d)
  <2>1. WithColumnRenamed(cols, c, d) = ReplaceAt(cols, n, d) /\ n # 0
    BY <1>1, <1>3, <1>7 DEF WithColumnRenamed
  <2> QED
    BY <1>3, <1>4, <1>7, <2>1, ColumnReplaced DEF Renamed
<1> QED
  BY <1>5, <1>6, <1>7

-----------------------------------------------------------------------------

(***************************************************************************)
(* The tables read are the warehouse's: each once, under some spelling of  *)
(* its name.                                                               *)
(***************************************************************************)
Rows == [name : TableNames, cols : Lists, topic : Topics \cup {NoTopic}]

Right(row, w) ==
  /\ Meant(row.name) \in DOMAIN w
  /\ w[Meant(row.name)] = [cols |-> row.cols, topic |-> row.topic]

Shows(l, w) ==
  /\ l \in Seq(Rows)
  /\ \A i, j \in 1 .. Len(l) : Meant(l[i].name) = Meant(l[j].name) => i = j
  /\ \A i \in 1 .. Len(l) : Right(l[i], w)
  /\ \A id \in DOMAIN w : \E i \in 1 .. Len(l) : Meant(l[i].name) = id

(***************************************************************************)
(* Only the tables the files are about matter to what a name means to      *)
(* Find.                                                                   *)
(***************************************************************************)
LEMMA NameMeant ==
  ASSUME SinksAssumption, used \in Usages, OneSchemaPerName,
         NEW name \in TableNames, NEW other \in TableNames
  PROVE  /\ Meant(name) \in used.tables
         /\ Last(name) = Last(other) <=> Meant(name) = Meant(other)
<1>1. used.tables \subseteq Ids
  BY DEF SinksAssumption
<1>2. /\ name = <<name[1], name[2]>> /\ other = <<other[1], other[2]>>
      /\ Meant(name) \in used.tables /\ Meant(other) \in used.tables
  BY DEF TableNames, Written
<1>3. /\ Last(name) = name[2] /\ Last(other) = other[2]
      /\ Last(Meant(name)) = name[2] /\ Last(Meant(other)) = other[2]
  BY <1>2 DEF Last, Meant
<1>4. /\ Last(Meant(name)) = Last(Meant(other)) => Meant(name) = Meant(other)
  BY <1>2 DEF OneSchemaPerName
<1> QED
  BY <1>2, <1>3, <1>4

LEMMA Found ==
  ASSUME SinksAssumption, used \in Usages, OneSchemaPerName, Shows(list, warehouse),
         NEW name \in TableNames
  PROVE  /\ Find(name) \in 0 .. Len(list)
         /\ Find(name) = 0 <=> ~Exists(name)
         /\ Find(name) # 0 => /\ Find(name) \in 1 .. Len(list)
                              /\ Meant(list[Find(name)].name) = Meant(name)
<1>1. /\ list \in Seq(Rows) /\ Len(list) \in Nat
      /\ \A i \in 1 .. Len(list) : list[i].name \in TableNames
      /\ \A i \in 1 .. Len(list) : Meant(list[i].name) \in DOMAIN warehouse
      /\ \A id \in DOMAIN warehouse : \E i \in 1 .. Len(list) : Meant(list[i].name) = id
  <2>1. list \in Seq(Rows)
    BY DEF Shows
  <2>2. Len(list) \in Nat /\ \A i \in 1 .. Len(list) : list[i] \in Rows
    BY <2>1
  <2>3. \A i \in 1 .. Len(list) : list[i].name \in TableNames
    BY <2>2 DEF Rows
  <2> QED
    BY <2>1, <2>2, <2>3 DEF Shows, Right
<1> DEFINE I == {j \in 1 .. Len(list) : list[j].name = name}
           J == {j \in 1 .. Len(list) : Last(list[j].name) = Last(name)}
<1>2. /\ SelectInSeq(list, LAMBDA tbl : tbl.name = name)
           = IF I # {} THEN Min(I) ELSE 0
      /\ SelectInSeq(list, LAMBDA tbl : Last(tbl.name) = Last(name))
           = IF J # {} THEN Min(J) ELSE 0
  BY Zenon DEF SelectInSeq
<1>3. I \in SUBSET Nat /\ J \in SUBSET Nat
  OBVIOUS
<1>4. (I # {} => Min(I) \in I) /\ (J # {} => Min(J) \in J)
  <2> HIDE DEF I, J
  <2> QED
    BY <1>3, MinExists
<1>5. \A j \in J : j \in 1 .. Len(list) /\ Meant(list[j].name) = Meant(name)
  BY <1>1, NameMeant
<1>6. \A j \in I : j \in 1 .. Len(list) /\ list[j].name = name
  OBVIOUS
<1>7. \A j \in 1 .. Len(list) : j # 0 /\ j \in 0 .. Len(list)
  BY <1>1
<1>8. Exists(name) => J # {}
  BY <1>1, NameMeant DEF Exists
<1>9. I # {} \/ J # {} => Exists(name)
  BY <1>1, <1>5, <1>6 DEF Exists
<1> HIDE DEF I, J
<1>10. Find(name) = IF I # {} THEN Min(I) ELSE IF J # {} THEN Min(J) ELSE 0
  <2>1. I # {} => Min(I) # 0
    BY <1>4, <1>6, <1>7
  <2> QED
    BY <1>2, <2>1, Zenon DEF Find
<1> QED
  BY <1>1, <1>4, <1>5, <1>6, <1>7, <1>8, <1>9, <1>10

-----------------------------------------------------------------------------

(***************************************************************************)
(* What the warehouse and the list are left with by the steps the          *)
(* statements are made of.                                                 *)
(***************************************************************************)
LEMMA ShowsPutIn ==
  ASSUME NEW l, NEW w, Shows(l, w), NEW row \in Rows, Meant(row.name) \notin DOMAIN w,
         NEW after, after = Append(l, row),
         NEW v, v = With(w, Meant(row.name), [cols |-> row.cols, topic |-> row.topic])
  PROVE  Shows(after, v)
<1>1. PICK id : id = Meant(row.name)
  OBVIOUS
<1>2. l \in Seq(Rows)
  BY DEF Shows
<1>3. PICK n : n = Len(l) + 1
  OBVIOUS
<1>4. after \in Seq(Rows) /\ PutIn(after, l, n, row)
  BY <1>2, <1>3, AppendPutsIn
<1>5. /\ DOMAIN v = DOMAIN w \cup {id}
      /\ v[id] = [cols |-> row.cols, topic |-> row.topic]
      /\ \A other \in DOMAIN w : other # id => v[other] = w[other]
  BY <1>1 DEF With
<1>6. ASSUME NEW i \in 1 .. Len(after), i # n
      PROVE  /\ Meant(after[i].name) \in DOMAIN w /\ Meant(after[i].name) # id
             /\ Right(after[i], v)
  <2>1. PICK p \in 1 .. Len(l) : after[i] = l[p]
    BY <1>4, <1>6, Zenon DEF PutIn
  <2>2. Right(l[p], w)
    BY DEF Shows
  <2>3. Meant(l[p].name) \in DOMAIN w /\ Meant(l[p].name) # id
    BY <1>1, <2>2 DEF Right
  <2> QED
    BY <1>5, <2>1, <2>2, <2>3 DEF Right
<1>7. n \in 1 .. Len(after) /\ after[n] = row
  BY <1>4 DEF PutIn
<1>8. Right(row, v)
  BY <1>1, <1>5 DEF Right
<1>9. ASSUME NEW i \in 1 .. Len(after), NEW j \in 1 .. Len(after),
             Meant(after[i].name) = Meant(after[j].name)
      PROVE  i = j
  <2>1. CASE i # n /\ j # n
    <3>1. PICK p \in 1 .. Len(l), q \in 1 .. Len(l) :
            after[i] = l[p] /\ after[j] = l[q] /\ (p = q <=> i = j)
      BY <1>4, <2>1, Zenon DEF PutIn
    <3> QED
      BY <1>9, <3>1 DEF Shows
  <2>2. CASE i = n \/ j = n
    BY <1>1, <1>6, <1>7, <1>9, <2>2
  <2> QED
    BY <2>1, <2>2
<1>10. ASSUME NEW other \in DOMAIN v
       PROVE  \E i \in 1 .. Len(after) : Meant(after[i].name) = other
  <2>1. CASE other = id
    BY <1>1, <1>7, <2>1
  <2>2. CASE other # id
    <3>1. PICK p \in 1 .. Len(l) : Meant(l[p].name) = other
      BY <1>5, <2>2 DEF Shows
    <3>2. PICK i \in 1 .. Len(after) : after[i] = l[p]
      BY <1>4, Zenon DEF PutIn
    <3> QED
      BY <3>1, <3>2
  <2> QED
    BY <2>1, <2>2
<1> QED
  BY <1>4, <1>6, <1>7, <1>8, <1>9, <1>10 DEF Shows

LEMMA ShowsTakenOut ==
  ASSUME NEW l, NEW w, Shows(l, w), NEW n \in 1 .. Len(l),
         NEW id, id = Meant(l[n].name),
         NEW after, after = RemoveAt(l, n), NEW v, v = Without(w, id)
  PROVE  Shows(after, v)
<1>1. l \in Seq(Rows)
  BY DEF Shows
<1>2. after \in Seq(Rows) /\ TakenOut(after, l, n)
  BY <1>1, RemoveAtTakesOut
<1>3. DOMAIN v = DOMAIN w \ {id} /\ \A other \in DOMAIN v : v[other] = w[other]
  BY DEF Without
<1>4. ASSUME NEW i \in 1 .. Len(after)
      PROVE  Right(after[i], v)
  <2>1. PICK p \in 1 .. Len(l) : p # n /\ after[i] = l[p]
    BY <1>2, Zenon DEF TakenOut
  <2>2. Right(l[p], w) /\ Meant(l[p].name) # id
    BY <2>1 DEF Shows
  <2> QED
    BY <1>3, <2>1, <2>2 DEF Right
<1>5. ASSUME NEW i \in 1 .. Len(after), NEW j \in 1 .. Len(after),
             Meant(after[i].name) = Meant(after[j].name)
      PROVE  i = j
  <2>1. PICK p \in 1 .. Len(l), q \in 1 .. Len(l) :
          after[i] = l[p] /\ after[j] = l[q] /\ (p = q <=> i = j)
    BY <1>2, Zenon DEF TakenOut
  <2> QED
    BY <1>5, <2>1 DEF Shows
<1>6. ASSUME NEW other \in DOMAIN v
      PROVE  \E i \in 1 .. Len(after) : Meant(after[i].name) = other
  <2>1. PICK p \in 1 .. Len(l) : Meant(l[p].name) = other /\ p # n
    BY <1>3 DEF Shows
  <2>2. PICK i \in 1 .. Len(after) : after[i] = l[p]
    BY <1>2, <2>1, Zenon DEF TakenOut
  <2> QED
    BY <2>1, <2>2
<1> QED
  BY <1>2, <1>4, <1>5, <1>6 DEF Shows

(***************************************************************************)
(* An entry changed in place: its columns, or its name.                    *)
(***************************************************************************)
LEMMA ShowsColumns ==
  ASSUME NEW l, NEW w, Shows(l, w), NEW n \in 1 .. Len(l), NEW id, id = Meant(l[n].name),
         NEW cols \in Lists, NEW after, after = [l EXCEPT ![n].cols = cols],
         NEW v, v = [w EXCEPT ![id].cols = cols]
  PROVE  Shows(after, v)
<1>1. l \in Seq(Rows) /\ DOMAIN l = 1 .. Len(l)
  BY DEF Shows
<1>2. PICK row : row = [l[n] EXCEPT !.cols = cols]
  OBVIOUS
<1>3. l[n] \in Rows
  BY <1>1
<1>4. /\ row \in Rows /\ row.name = l[n].name /\ row.topic = l[n].topic /\ row.cols = cols
  BY <1>2, <1>3 DEF Rows
<1>5. after = [l EXCEPT ![n] = row]
  BY <1>1, <1>2
<1>6. /\ after \in Seq(Rows) /\ Len(after) = Len(l)
      /\ \A i \in 1 .. Len(l) : after[i] = IF i = n THEN row ELSE l[i]
  BY <1>1, <1>4, <1>5
<1>7. \A i \in 1 .. Len(l) : after[i].name = l[i].name
  BY <1>4, <1>6
<1>8. Right(l[n], w)
  BY DEF Shows
<1>9. /\ DOMAIN v = DOMAIN w /\ \A other \in DOMAIN w : other # id => v[other] = w[other]
      /\ v[id] = [cols |-> cols, topic |-> l[n].topic]
  BY <1>8 DEF Right
<1>10. ASSUME NEW i \in 1 .. Len(l)
       PROVE  Right(after[i], v)
  <2>1. CASE i = n
    BY <1>4, <1>6, <1>8, <1>9, <2>1 DEF Right
  <2>2. CASE i # n
    <3>1. Right(l[i], w) /\ Meant(l[i].name) # id
      BY <2>2 DEF Shows
    <3> QED
      BY <1>6, <1>9, <2>2, <3>1 DEF Right
  <2> QED
    BY <2>1, <2>2
<1>11. \A i, j \in 1 .. Len(l) : Meant(after[i].name) = Meant(after[j].name) => i = j
  BY <1>7, Zenon DEF Shows
<1>12. ASSUME NEW other \in DOMAIN v
       PROVE  \E i \in 1 .. Len(l) : Meant(after[i].name) = other
  <2>1. PICK i \in 1 .. Len(l) : Meant(l[i].name) = other
    BY <1>9 DEF Shows
  <2> QED
    BY <1>7, <2>1
<1> QED
  BY <1>6, <1>10, <1>11, <1>12 DEF Shows

LEMMA ShowsRenamed ==
  ASSUME NEW l, NEW w, Shows(l, w), NEW n \in 1 .. Len(l), NEW id, id = Meant(l[n].name),
         NEW name \in TableNames, Meant(name) \notin DOMAIN w,
         NEW after, after = [l EXCEPT ![n].name = name],
         NEW v, v = With(Without(w, id), Meant(name), w[id])
  PROVE  Shows(after, v)
<1>1. l \in Seq(Rows) /\ DOMAIN l = 1 .. Len(l)
  BY DEF Shows
<1>2. PICK row : row = [l[n] EXCEPT !.name = name]
  OBVIOUS
<1>3. l[n] \in Rows
  BY <1>1
<1>4. /\ row \in Rows /\ row.name = name /\ row.topic = l[n].topic /\ row.cols = l[n].cols
  BY <1>2, <1>3 DEF Rows
<1>5. after = [l EXCEPT ![n] = row]
  BY <1>1, <1>2
<1>6. /\ after \in Seq(Rows) /\ Len(after) = Len(l)
      /\ \A i \in 1 .. Len(l) : after[i] = IF i = n THEN row ELSE l[i]
  BY <1>1, <1>4, <1>5
<1>7. PICK to : to = Meant(name)
  OBVIOUS
<1>8. Right(l[n], w)
  BY DEF Shows
<1>9. /\ DOMAIN v = (DOMAIN w \ {id}) \cup {to} /\ v[to] = w[id]
      /\ \A other \in DOMAIN w : other # id => other # to /\ v[other] = w[other]
  BY <1>7 DEF With, Without
<1>10. ASSUME NEW i \in 1 .. Len(l), i # n
       PROVE  Right(after[i], v) /\ Meant(after[i].name) # to
  <2>1. Right(l[i], w) /\ Meant(l[i].name) # id
    BY <1>10 DEF Shows
  <2> QED
    BY <1>6, <1>9, <1>10, <2>1 DEF Right
<1>11. Right(after[n], v) /\ Meant(after[n].name) = to
  BY <1>4, <1>6, <1>7, <1>8, <1>9 DEF Right
<1>12. ASSUME NEW i \in 1 .. Len(l), NEW j \in 1 .. Len(l),
              Meant(after[i].name) = Meant(after[j].name)
       PROVE  i = j
  <2>1. CASE i # n /\ j # n
    BY <1>6, <1>12, <2>1 DEF Shows
  <2>2. CASE i = n \/ j = n
    BY <1>10, <1>11, <1>12, <2>2
  <2> QED
    BY <2>1, <2>2
<1>13. ASSUME NEW other \in DOMAIN v
       PROVE  \E i \in 1 .. Len(l) : Meant(after[i].name) = other
  <2>1. CASE other = to
    BY <1>11, <2>1
  <2>2. CASE other # to
    <3>1. PICK p \in 1 .. Len(l) : Meant(l[p].name) = other
      BY <1>9, <2>2 DEF Shows
    <3>2. p # n
      BY <1>9, <2>2, <3>1
    <3> QED
      BY <1>6, <3>1, <3>2
  <2> QED
    BY <2>1, <2>2
<1> QED
  BY <1>6, <1>10, <1>11, <1>12, <1>13 DEF Shows

NamesSwapped(after, l, i, j) ==
  after = [l EXCEPT ![i].name = l[j].name, ![j].name = l[i].name]

Swapped(v, w, a, b) == v = [w EXCEPT ![a] = w[b], ![b] = w[a]]

LEMMA ShowsExchanged ==
  ASSUME NEW l, NEW w, Shows(l, w), NEW i \in 1 .. Len(l), NEW j \in 1 .. Len(l),
         NEW a, NEW b, a = Meant(l[i].name), b = Meant(l[j].name),
         NEW after, NamesSwapped(after, l, i, j), NEW v, Swapped(v, w, a, b)
  PROVE  Shows(after, v)
<1>1. l \in Seq(Rows) /\ DOMAIN l = 1 .. Len(l)
  BY DEF Shows
<1>2. l[i] \in Rows /\ l[j] \in Rows
  BY <1>1
<1>3. PICK ri : ri = [l[i] EXCEPT !.name = l[j].name]
  OBVIOUS
<1>4. PICK rj : rj = [l[j] EXCEPT !.name = l[i].name]
  OBVIOUS
<1>5. /\ ri \in Rows /\ ri.name = l[j].name /\ ri.topic = l[i].topic /\ ri.cols = l[i].cols
      /\ rj \in Rows /\ rj.name = l[i].name /\ rj.topic = l[j].topic /\ rj.cols = l[j].cols
  BY <1>2, <1>3, <1>4 DEF Rows
<1>6. after = [l EXCEPT ![i] = ri, ![j] = rj]
  <2>1. CASE i = j
    BY <1>1, <1>2, <1>3, <1>4, <2>1 DEF Rows, NamesSwapped
  <2>2. CASE i # j
    BY <1>1, <1>3, <1>4, <2>2 DEF NamesSwapped
  <2> QED
    BY <2>1, <2>2
<1>7. /\ after \in Seq(Rows) /\ Len(after) = Len(l)
      /\ \A k \in 1 .. Len(l) :
           after[k] = IF k = j THEN rj ELSE IF k = i THEN ri ELSE l[k]
  BY <1>1, <1>5, <1>6
<1>8. \A k \in 1 .. Len(l) : Right(l[k], w)
  BY DEF Shows
<1>9. /\ a \in DOMAIN w /\ b \in DOMAIN w /\ DOMAIN v = DOMAIN w
      /\ \A other \in DOMAIN w :
           v[other] = IF other = b THEN w[a] ELSE IF other = a THEN w[b] ELSE w[other]
  BY <1>8 DEF Right, Swapped
<1>10. \A k \in 1 .. Len(l) : \A m \in 1 .. Len(l) :
         Meant(l[k].name) = Meant(l[m].name) => k = m
  BY DEF Shows
<1>11. ASSUME NEW k \in 1 .. Len(l)
       PROVE  /\ Right(after[k], v)
              /\ Meant(after[k].name) = IF k = j THEN a
                                        ELSE IF k = i THEN b ELSE Meant(l[k].name)
  <2>1. CASE k = j
    <3>1. after[k] = rj /\ Meant(rj.name) = a /\ Right(l[j], w)
      BY <1>5, <1>7, <1>8, <2>1
    <3>2. a # b => v[a] = w[b]
      BY <1>9
    <3>3. a = b => v[a] = w[b]
      BY <1>9
    <3> QED
      BY <1>5, <1>9, <2>1, <3>1, <3>2, <3>3 DEF Right
  <2>2. CASE k = i /\ k # j
    <3>1. after[k] = ri /\ Meant(ri.name) = b /\ Right(l[i], w)
      BY <1>5, <1>7, <1>8, <2>2
    <3> QED
      BY <1>5, <1>9, <2>2, <3>1 DEF Right
  <2>3. CASE k # i /\ k # j
    <3>1. after[k] = l[k] /\ Right(l[k], w)
      BY <1>7, <1>8, <2>3
    <3>2. Meant(l[k].name) # a /\ Meant(l[k].name) # b
      BY <1>10, <2>3
    <3> QED
      BY <1>9, <2>3, <3>1, <3>2 DEF Right
  <2> QED
    BY <2>1, <2>2, <2>3
<1>12. ASSUME NEW other \in DOMAIN v
       PROVE  \E k \in 1 .. Len(l) : Meant(after[k].name) = other
  <2>1. PICK p \in 1 .. Len(l) : Meant(l[p].name) = other
    BY <1>9 DEF Shows
  <2> QED
    BY <1>11, <2>1
<1>13. \A k, m \in 1 .. Len(l) : Meant(after[k].name) = Meant(after[m].name) => k = m
  BY <1>10, <1>11
<1> QED
  BY <1>7, <1>11, <1>12, <1>13 DEF Shows

-----------------------------------------------------------------------------

WarehouseInv ==
  /\ used \in Usages /\ hooked \in BOOLEAN /\ crashed = FALSE
  /\ DOMAIN warehouse \subseteq used.tables
  /\ Shows(list, warehouse)

LEMMA WarehouseShown ==
  ASSUME WarehouseInv, UNCHANGED <<used, hooked, crashed>>,
         Shows(list', warehouse'), DOMAIN warehouse' \subseteq used.tables
  PROVE  WarehouseInv'
<1>1. Shows(list, warehouse)'
  BY DEF Shows, Rows, Right, TableNames, Meant, Written, Lists
<1> QED
  BY <1>1 DEF WarehouseInv

LEMMA WarehouseStill ==
  ASSUME WarehouseInv, UNCHANGED <<used, hooked, crashed, list, warehouse>>
  PROVE  WarehouseInv'
<1>1. Shows(list', warehouse') /\ DOMAIN warehouse' \subseteq used.tables
  BY DEF WarehouseInv
<1> QED
  BY <1>1, WarehouseShown

(***************************************************************************)
(* CREATE TABLE in any of its forms.                                       *)
(***************************************************************************)
LEMMA CreateShown ==
  ASSUME OneSchemaPerName, OfTheShape, WarehouseInv, Create
  PROVE  WarehouseInv'
<1>1. PICK name \in TableNames, cols \in ColumnLists, topic \in Topics \cup {NoTopic},
           form \in CreateForms :
        /\ form \in {"plain", "modified"} => ~Exists(name)
        /\ topic # NoTopic => hooked
        /\ IF Exists(name) /\ form = "if not exists" THEN Becomes(warehouse)
           ELSE Becomes(With(warehouse, Meant(name),
                             [cols |-> cols, topic |-> topic]))
        /\ CreateTable(name, form, "apart", cols, topic, hooked)
  <2>1. PICK name \in TableNames, cols \in ColumnLists, topic \in Topics \cup {NoTopic},
             form \in CreateForms, columnList \in ListForms :
          /\ form \in {"plain", "modified"} => ~Exists(name)
          /\ topic # NoTopic => hooked
          /\ columnList = "glued" => Has("glued list")
          /\ columnList = "none" => Has("no list")
          /\ IF Exists(name) /\ form = "if not exists" THEN Becomes(warehouse)
             ELSE Becomes(With(warehouse, Meant(name),
                               [cols |-> cols, topic |-> topic]))
          /\ CreateTable(name, form, columnList, cols, topic, hooked)
    BY Zenon DEF Create
  <2>2. columnList = "apart"
    BY <2>1 DEF Has, OfTheShape, ListForms
  <2> QED
    BY <2>1, <2>2, Zenon
<1>2. PICK row : row = NewTable(name, cols, topic, hooked)
  OBVIOUS
<1>3. PICK content : content = [cols |-> cols, topic |-> topic]
  OBVIOUS
<1>4. /\ row \in Rows /\ row.name = name
      /\ content = [cols |-> row.cols, topic |-> row.topic]
  <2>1. cols \in Lists
    BY SinksAssumption DEF Lists
  <2>2. row = [name |-> name, cols |-> cols, topic |-> topic]
    BY <1>1, <1>2 DEF NewTable, WarehouseInv
  <2> QED
    BY <1>3, <2>1, <2>2 DEF Rows
<1>5. PICK n : n = Find(name)
  OBVIOUS
<1>6. /\ n = 0 <=> ~Exists(name)
      /\ n # 0 => n \in 1 .. Len(list) /\ Meant(list[n].name) = Meant(name)
      /\ Meant(name) \in used.tables
  BY <1>5, SinksAssumption, Found, NameMeant DEF WarehouseInv
<1>7. UNCHANGED <<used, hooked>>
  BY <1>1 DEF Becomes
<1>8. CASE n = 0
  <2>1. /\ list' = Append(list, row) /\ UNCHANGED crashed
        /\ warehouse' = With(warehouse, Meant(row.name), content)
    BY <1>1, <1>2, <1>3, <1>4, <1>5, <1>6, <1>8 DEF CreateTable, Tables, Becomes
  <2>2. Shows(list', warehouse')
    BY <1>4, <1>6, <1>8, <2>1, ShowsPutIn DEF WarehouseInv, Exists
  <2>3. DOMAIN warehouse' \subseteq used.tables
    BY <1>4, <1>6, <2>1 DEF WarehouseInv, With
  <2> QED
    BY <1>7, <2>1, <2>2, <2>3, WarehouseShown
<1>9. CASE n # 0 /\ form = "if not exists"
  <2>1. UNCHANGED <<list, crashed, warehouse>>
    BY <1>1, <1>5, <1>6, <1>9 DEF CreateTable, PassOver, Becomes, readerVars
  <2> QED
    BY <1>7, <2>1, WarehouseStill
<1>10. CASE n # 0 /\ form # "plain" /\ form # "if not exists"
  <2>1. PICK left : left = RemoveAt(list, n)
    OBVIOUS
  <2>2. PICK rest : rest = Without(warehouse, Meant(name))
    OBVIOUS
  <2>3. /\ list' = Append(left, row) /\ UNCHANGED crashed
        /\ warehouse' = With(warehouse, Meant(name), content)
    BY <1>1, <1>2, <1>3, <1>5, <1>6, <1>10, <2>1
    DEF CreateTable, Tables, Becomes, Removed
  <2>4. warehouse' = With(rest, Meant(row.name), content)
    BY <1>4, <2>2, <2>3 DEF With, Without
  <2>5. Shows(left, rest)
    BY <1>6, <1>10, <2>1, <2>2, ShowsTakenOut DEF WarehouseInv
  <2>6. Meant(row.name) \notin DOMAIN rest
    BY <1>4, <2>2 DEF Without
  <2>7. Shows(list', warehouse')
    BY <1>4, <2>3, <2>4, <2>5, <2>6, ShowsPutIn
  <2>8. DOMAIN warehouse' \subseteq used.tables
    BY <1>6, <2>3 DEF WarehouseInv, With
  <2> QED
    BY <1>7, <2>3, <2>7, <2>8, WarehouseShown
<1> QED
  BY <1>1, <1>6, <1>8, <1>9, <1>10

LEMMA DropShown ==
  ASSUME OneSchemaPerName, WarehouseInv, Drop
  PROVE  WarehouseInv'
<1>1. PICK name \in TableNames :
        Becomes(Without(warehouse, Meant(name))) /\ DropTable(name)
  BY DEF Drop
<1>2. PICK n : n = Find(name)
  OBVIOUS
<1>3. /\ n = 0 <=> ~Exists(name)
      /\ n # 0 => n \in 1 .. Len(list) /\ Meant(list[n].name) = Meant(name)
  BY <1>2, SinksAssumption, Found DEF WarehouseInv
<1>4. /\ list' = (IF n = 0 THEN list ELSE RemoveAt(list, n))
      /\ warehouse' = Without(warehouse, Meant(name))
      /\ UNCHANGED <<used, hooked, crashed>>
  BY <1>1, <1>2 DEF DropTable, Tables, Becomes, Removed
<1>5. DOMAIN warehouse' \subseteq used.tables
  BY <1>4 DEF WarehouseInv, Without
<1>6. CASE n = 0
  <2>1. \A id \in DOMAIN warehouse : id # Meant(name)
    BY <1>3, <1>6 DEF Exists
  <2>2. /\ DOMAIN warehouse' = DOMAIN warehouse
        /\ \A id \in DOMAIN warehouse : warehouse'[id] = warehouse[id]
    BY <1>4, <2>1 DEF Without
  <2>3. Shows(list', warehouse')
    BY <1>4, <1>6, <2>2 DEF WarehouseInv, Shows, Right
  <2> QED
    BY <1>4, <1>5, <2>3, WarehouseShown
<1>7. CASE n # 0
  <2>1. Shows(list', warehouse')
    BY <1>3, <1>4, <1>7, ShowsTakenOut DEF WarehouseInv
  <2> QED
    BY <1>4, <1>5, <2>1, WarehouseShown
<1> QED
  BY <1>6, <1>7

(***************************************************************************)
(* ALTER TABLE, of a table that is there or not.                           *)
(***************************************************************************)
LEMMA AlterShown ==
  ASSUME OneSchemaPerName, WarehouseInv,
         Add \/ DropOneColumn \/ RenameOneColumn \/ AlterMissing
  PROVE  WarehouseInv'
<1>1. ASSUME NEW name \in TableNames, Exists(name)
      PROVE  /\ Find(name) \in 1 .. Len(list)
             /\ Meant(list[Find(name)].name) = Meant(name)
             /\ ColumnsOf(name) \in Lists
             /\ ContentOf(name).cols = ColumnsOf(name)
  <2>1. PICK n : n = Find(name)
    OBVIOUS
  <2>2. n \in 1 .. Len(list) /\ Meant(list[n].name) = Meant(name)
    BY <1>1, <2>1, SinksAssumption, Found DEF WarehouseInv
  <2>3. list \in Seq(Rows) /\ Right(list[n], warehouse)
    BY <2>2 DEF WarehouseInv, Shows
  <2>4. list[n] \in Rows
    BY <2>2, <2>3
  <2>5. list[n].cols \in Lists /\ warehouse[Meant(name)].cols = list[n].cols
    BY <2>2, <2>3, <2>4 DEF Rows, Right
  <2> QED
    BY <2>1, <2>2, <2>5 DEF ColumnsOf, ContentOf
<1>2. ASSUME NEW name \in TableNames, Exists(name), NEW cols \in Lists,
             AlterTable(name, cols), Columned(name, cols)
      PROVE  WarehouseInv'
  <2>1. PICK n : n = Find(name)
    OBVIOUS
  <2>2. n \in 1 .. Len(list) /\ n # 0 /\ Meant(list[n].name) = Meant(name)
    BY <1>1, <1>2, <2>1
  <2>3. /\ list' = [list EXCEPT ![n].cols = cols]
        /\ warehouse' = [warehouse EXCEPT ![Meant(name)].cols = cols]
        /\ UNCHANGED <<used, hooked, crashed>>
    BY <1>2, <2>1, <2>2 DEF AlterTable, Tables, Columned, Becomes
  <2>4. Shows(list', warehouse')
    BY <2>2, <2>3, ShowsColumns DEF WarehouseInv
  <2>5. DOMAIN warehouse' \subseteq used.tables
    BY <2>3 DEF WarehouseInv
  <2> QED
    BY <2>3, <2>4, <2>5, WarehouseShown
<1>3. CASE Add
  <2>1. PICK name \in TableNames, c \in Columns :
          Exists(name) /\ Columned(name, Added(ContentOf(name).cols, c)) /\ AddColumn(name, c)
    BY <1>3 DEF Add
  <2>2. PICK cols : cols = WithColumn(ColumnsOf(name), c)
    OBVIOUS
  <2>3. cols \in Lists /\ cols = Added(ContentOf(name).cols, c)
    BY <1>1, <2>1, <2>2, ListEdits
  <2> QED
    BY <1>2, <2>1, <2>2, <2>3 DEF AddColumn
<1>4. CASE DropOneColumn
  <2>1. PICK name \in TableNames, c \in Columns :
          Exists(name) /\ Columned(name, Dropped(ContentOf(name).cols, c)) /\ DropColumn(name, c)
    BY <1>4 DEF DropOneColumn
  <2>2. PICK cols : cols = WithoutColumn(ColumnsOf(name), c)
    OBVIOUS
  <2>3. cols \in Lists /\ cols = Dropped(ContentOf(name).cols, c)
    BY <1>1, <2>1, <2>2, ListEdits
  <2> QED
    BY <1>2, <2>1, <2>2, <2>3 DEF DropColumn
<1>5. CASE RenameOneColumn
  <2>1. PICK name \in TableNames, c \in Columns, d \in Columns :
          /\ Exists(name)
          /\ c \in ToSet(ContentOf(name).cols) /\ d \notin ToSet(ContentOf(name).cols)
          /\ Columned(name, Renamed(ContentOf(name).cols, c, d))
          /\ RenameColumn(name, c, d)
    BY <1>5 DEF RenameOneColumn
  <2>2. PICK cols : cols = WithColumnRenamed(ColumnsOf(name), c, d)
    OBVIOUS
  <2>3. cols \in Lists /\ cols = Renamed(ContentOf(name).cols, c, d)
    BY <1>1, <2>1, <2>2, ListEdits
  <2> QED
    BY <1>2, <2>1, <2>2, <2>3 DEF RenameColumn
<1>6. CASE AlterMissing
  <2>1. PICK name \in TableNames, c \in Columns :
          ~Exists(name) /\ Becomes(warehouse) /\ AddColumn(name, c)
    BY <1>6 DEF AlterMissing
  <2>2. Find(name) = 0
    BY <2>1, SinksAssumption, Found DEF WarehouseInv
  <2>3. UNCHANGED <<used, hooked, crashed, list, warehouse>>
    BY <2>1, <2>2 DEF AddColumn, AlterTable, Becomes, readerVars
  <2> QED
    BY <2>3, WarehouseStill
<1> QED
  BY <1>3, <1>4, <1>5, <1>6

(***************************************************************************)
(* What only ClickHouse's hook reads.                                      *)
(***************************************************************************)
LEMMA HookShown ==
  ASSUME OneSchemaPerName, WarehouseInv, Exchange \/ Rename \/ CreateAView \/ DropAView
  PROVE  WarehouseInv'
<1>1. CASE Exchange
  <2>1. PICK a \in TableNames, b \in TableNames :
          /\ Exists(a) /\ Exists(b)
          /\ Becomes([warehouse EXCEPT ![Meant(a)] = ContentOf(b),
                                       ![Meant(b)] = ContentOf(a)])
          /\ ExchangeTables(a, b)
    BY <1>1 DEF Exchange
  <2>2. PICK i : i = Find(a)
    OBVIOUS
  <2>3. PICK j : j = Find(b)
    OBVIOUS
  <2>4. /\ i # 0 /\ i \in 1 .. Len(list) /\ Meant(list[i].name) = Meant(a)
        /\ j # 0 /\ j \in 1 .. Len(list) /\ Meant(list[j].name) = Meant(b)
    BY <2>1, <2>2, <2>3, SinksAssumption, Found DEF WarehouseInv
  <2>5. PICK x, y : x = Meant(a) /\ y = Meant(b)
    OBVIOUS
  <2>6. /\ list' = [list EXCEPT ![i].name = list[j].name, ![j].name = list[i].name]
        /\ warehouse' = [warehouse EXCEPT ![x] = warehouse[y], ![y] = warehouse[x]]
        /\ UNCHANGED <<used, hooked, crashed>>
    BY <2>1, <2>2, <2>3, <2>4, <2>5 DEF ExchangeTables, Tables, Becomes, ContentOf
  <2>7. Shows(list', warehouse')
    <3>1. x = Meant(list[i].name) /\ y = Meant(list[j].name)
      BY <2>4, <2>5
    <3>2. Shows(list, warehouse)
      BY DEF WarehouseInv
    <3>3. NamesSwapped(list', list, i, j) /\ Swapped(warehouse', warehouse, x, y)
      BY <2>6 DEF NamesSwapped, Swapped
    <3> QED
      BY <2>4, <3>1, <3>2, <3>3, ShowsExchanged
  <2>8. DOMAIN warehouse' \subseteq used.tables
    BY <2>6 DEF WarehouseInv
  <2> QED
    BY <2>6, <2>7, <2>8, WarehouseShown
<1>2. CASE Rename
  <2>1. PICK a \in TableNames, b \in TableNames :
          /\ Exists(a) /\ ~Exists(b)
          /\ Becomes(With(Without(warehouse, Meant(a)), Meant(b), ContentOf(a)))
          /\ RenameTable(a, b)
    BY <1>2 DEF Rename
  <2>2. PICK n : n = Find(a)
    OBVIOUS
  <2>3. n # 0 /\ n \in 1 .. Len(list) /\ Meant(list[n].name) = Meant(a)
    BY <2>1, <2>2, SinksAssumption, Found DEF WarehouseInv
  <2>4. /\ list' = [list EXCEPT ![n].name = b]
        /\ warehouse' = With(Without(warehouse, Meant(a)), Meant(b), warehouse[Meant(a)])
        /\ UNCHANGED <<used, hooked, crashed>>
    BY <2>1, <2>2, <2>3 DEF RenameTable, Tables, Becomes, ContentOf
  <2>5. Shows(list', warehouse')
    BY <2>1, <2>3, <2>4, ShowsRenamed DEF WarehouseInv, Exists
  <2>6. Meant(b) \in used.tables
    BY DEF TableNames
  <2>7. DOMAIN warehouse' \subseteq used.tables
    BY <2>4, <2>6 DEF WarehouseInv, With, Without
  <2> QED
    BY <2>4, <2>5, <2>7, WarehouseShown
<1>3. CASE CreateAView \/ DropAView
  <2>1. UNCHANGED <<used, hooked, crashed, list, warehouse>>
    BY <1>3 DEF CreateAView, DropAView, CreateView, DropView
  <2> QED
    BY <2>1, WarehouseStill
<1> QED
  BY <1>1, <1>2, <1>3

(***************************************************************************)
(* No other statement is of the shape.                                     *)
(***************************************************************************)
LEMMA NothingBeyond ==
  ASSUME OfTheShape
  PROVE  ~AddInPlace /\ ~ColumnWithoutTheWord /\ ~DropTwo /\ ~RenameByAlter
BY DEF OfTheShape, Has, AddInPlace, ColumnWithoutTheWord, DropTwo, RenameByAlter

LEMMA WarehouseStep ==
  ASSUME OneSchemaPerName, OfTheShape, WarehouseInv, [Next]_vars
  PROVE  WarehouseInv'
<1>1. CASE UNCHANGED vars
  BY <1>1, WarehouseStill DEF vars, readerVars, warehouseVars
<1> QED
  BY <1>1, CreateShown, DropShown, AlterShown, HookShown, NothingBeyond DEF Next

(***************************************************************************)
(* What the files are about is given.                                      *)
(***************************************************************************)
LEMMA UsedKept ==
  ASSUME [Next]_vars
  PROVE  UNCHANGED <<used, hooked>>
BY DEF Next, Create, Drop, DropTwo, Add, AddInPlace, DropOneColumn, RenameOneColumn,
   AlterMissing, ColumnWithoutTheWord, Exchange, Rename, RenameByAlter, CreateAView,
   DropAView, Columned, Becomes, vars

LEMMA WarehouseAlways ==
  Spec => [](OneSchemaPerName /\ OfTheShape => WarehouseInv)
<1>1. Init => WarehouseInv
  <2>1. <<>> \in Seq(Rows) /\ Len(<<>>) = 0
    OBVIOUS
  <2>2. Init => Shows(list, warehouse) /\ DOMAIN warehouse = {}
    BY <2>1 DEF Init, ReaderInit, Shows
  <2> QED
    BY <2>2 DEF Init, ReaderInit, WarehouseInv
<1>2. (OneSchemaPerName /\ OfTheShape => WarehouseInv) /\ [Next]_vars
        => (OneSchemaPerName /\ OfTheShape => WarehouseInv)'
  <2>1. [Next]_vars => UNCHANGED used
    BY UsedKept
  <2>2. UNCHANGED used =>
          (OneSchemaPerName' => OneSchemaPerName) /\ (OfTheShape' => OfTheShape)
    BY DEF OneSchemaPerName, OfTheShape
  <2> QED
    BY <2>1, <2>2, WarehouseStep
<1> QED
  BY <1>1, <1>2, PTL DEF Spec

(***************************************************************************)
(* A list that shows the warehouse has a row for each of its tables and no *)
(* other.                                                                  *)
(***************************************************************************)
LEMMA ShowsAll ==
  ASSUME WarehouseInv
  PROVE  /\ {Meant(list[i].name) : i \in DOMAIN list} = DOMAIN warehouse
         /\ Len(list) = Cardinality(DOMAIN warehouse)
         /\ \A i \in DOMAIN list :
              /\ list[i].cols = ContentOf(list[i].name).cols
              /\ list[i].topic = ContentOf(list[i].name).topic
<1>1. /\ DOMAIN list = 1 .. Len(list) /\ Len(list) \in Nat
      /\ \A i, j \in 1 .. Len(list) : Meant(list[i].name) = Meant(list[j].name) => i = j
      /\ \A i \in 1 .. Len(list) : Right(list[i], warehouse)
      /\ \A id \in DOMAIN warehouse : \E i \in 1 .. Len(list) : Meant(list[i].name) = id
  BY DEF WarehouseInv, Shows
<1>4. \A i \in 1 .. Len(list) :
        /\ Meant(list[i].name) \in DOMAIN warehouse
        /\ list[i].cols = ContentOf(list[i].name).cols
        /\ list[i].topic = ContentOf(list[i].name).topic
  <2> SUFFICES ASSUME NEW i \in 1 .. Len(list)
               PROVE  /\ Meant(list[i].name) \in DOMAIN warehouse
                      /\ list[i].cols = ContentOf(list[i].name).cols
                      /\ list[i].topic = ContentOf(list[i].name).topic
    OBVIOUS
  <2>1. Right(list[i], warehouse)
    BY <1>1
  <2> QED
    BY <2>1 DEF Right, ContentOf
<1>2. {Meant(list[i].name) : i \in DOMAIN list} = DOMAIN warehouse
  <2>1. {Meant(list[i].name) : i \in DOMAIN list} \subseteq DOMAIN warehouse
    BY <1>1, <1>4
  <2>2. DOMAIN warehouse \subseteq {Meant(list[i].name) : i \in DOMAIN list}
    BY <1>1
  <2> QED
    BY <2>1, <2>2
<1>3. Len(list) = Cardinality(DOMAIN warehouse)
  <2> DEFINE f == [i \in 1 .. Len(list) |-> Meant(list[i].name)]
  <2>1. f \in Bijection(1 .. Len(list), DOMAIN warehouse)
    <3>1. f \in [1 .. Len(list) -> DOMAIN warehouse]
      BY <1>1 DEF Right
    <3>2. f \in Injection(1 .. Len(list), DOMAIN warehouse)
      BY <1>1, <3>1 DEF Injection, IsInjective
    <3>3. f \in Surjection(1 .. Len(list), DOMAIN warehouse)
      BY <1>1, <3>1 DEF Surjection
    <3> QED
      BY <3>2, <3>3 DEF Bijection
  <2>2. ExistsBijection(1 .. Len(list), DOMAIN warehouse)
    BY <2>1 DEF ExistsBijection
  <2>3. IsFiniteSet(1 .. Len(list)) /\ Cardinality(1 .. Len(list)) = Len(list)
    BY <1>1, FS_Interval
  <2> QED
    BY <2>2, <2>3, FS_Bijection
<1> QED
  BY <1>1, <1>4, <1>2, <1>3

(***************************************************************************)
(* The tables the rules are judged against are the warehouse's, for files  *)
(* of the shape of sqlddl.go:1-5 that use a last name segment for one      *)
(* table only, with any column lists and any number of statements:         *)
(* whatever spelling a statement uses, Find takes the table it means, and  *)
(* each edit of the list is the warehouse's, its columns in their order    *)
(* (sqlddl.go:7-8, clickhouse.go:50-52). No such statement crashes the     *)
(* reader.                                                                 *)
(***************************************************************************)
THEOREM TablesRead == Spec => []TablesAreTheWarehouses
<1>1. (OneSchemaPerName /\ OfTheShape => WarehouseInv) => TablesAreTheWarehouses
  <2>1. WarehouseInv => ~crashed
    BY DEF WarehouseInv
  <2> QED
    BY <2>1, ShowsAll DEF TablesAreTheWarehouses
<1> QED
  BY <1>1, WarehouseAlways, PTL

-----------------------------------------------------------------------------

ViewsInv ==
  /\ views \in Seq([name : ViewNames, definition : Definitions])
  /\ Len(views) <= MaxViews
  /\ DOMAIN current \subseteq used.views

LEMMA ViewsStep ==
  ASSUME ViewsInv, [Next]_vars
  PROVE  ViewsInv'
<1> DEFINE Entered == [name : ViewNames, definition : Definitions]
<1>0. UNCHANGED used /\ ViewNames' = ViewNames
  BY UsedKept DEF ViewNames, Written, Meant
<1>1. ASSUME views' \in Seq(Entered), Len(views') <= MaxViews,
             DOMAIN current' \subseteq used.views
      PROVE  ViewsInv'
  BY <1>0, <1>1 DEF ViewsInv
<1>2. /\ views \in Seq(Entered) /\ Len(views) <= MaxViews /\ Len(views) \in Nat
      /\ DOMAIN current \subseteq used.views
  BY DEF ViewsInv
<1>3. CASE UNCHANGED <<views, current>>
  BY <1>1, <1>2, <1>3
<1>4. CASE CreateAView
  <2>1. PICK name \in ViewNames, definition \in Definitions, replace \in BOOLEAN :
          /\ Len(views) < MaxViews
          /\ current' = IF Meant(name) \in DOMAIN current /\ ~replace THEN current
                        ELSE With(current, Meant(name), definition)
          /\ views' = Append(views, [name |-> name, definition |-> definition])
    BY <1>4 DEF CreateAView, CreateView
  <2>2. PICK new \in Entered : new = [name |-> name, definition |-> definition]
    OBVIOUS
  <2>3. Meant(name) \in used.views
    BY DEF ViewNames
  <2>4. DOMAIN current' \subseteq used.views
    BY <1>2, <2>1, <2>3 DEF With
  <2> HIDE DEF Entered
  <2>5. views' \in Seq(Entered) /\ Len(views') <= MaxViews
    BY <1>2, <2>1, <2>2, SinksAssumption
  <2> QED
    BY <1>1, <2>4, <2>5
<1>5. CASE DropAView
  <2>1. PICK name \in ViewNames :
          current' = Without(current, Meant(name)) /\ DropView(name)
    BY <1>5 DEF DropAView
  <2>2. DOMAIN current' \subseteq used.views
    BY <1>2, <2>1 DEF Without
  <2> DEFINE first == SelectInSeq(views, LAMBDA v : v.name = name)
  <2>5. views \in Seq(Entries)
    <3>1. ViewNames \subseteq Written
      BY DEF ViewNames
    <3>2. Entered \subseteq Entries
      BY <3>1 DEF Entries
    <3> HIDE DEF Entered
    <3> QED
      BY <1>2, <3>2
  <2>6. ASSUME first # 0
        PROVE  first \in 1 .. Len(views) /\ views[first].name = name
    BY <2>5, <2>6, DroppedByName
  <2>3. PICK n : n = first
    OBVIOUS
  <2>4. /\ views' = IF n = 0 THEN views ELSE RemoveAt(views, n)
        /\ n # 0 => n \in 1 .. Len(views)
    BY <2>1, <2>3, <2>6 DEF DropView
  <2> HIDE DEF Entered, first
  <2>7. views' \in Seq(Entered) /\ Len(views') <= MaxViews
    <3>1. CASE n = 0
      BY <1>2, <2>4, <3>1
    <3>2. CASE n # 0
      <4>1. views' \in Seq(Entered) /\ Len(views') = Len(views) - 1
        BY <1>2, <2>4, <3>2, RemoveAtTakesOut DEF TakenOut
      <4> QED
        BY <1>2, <4>1, SinksAssumption
    <3> QED
      BY <3>1, <3>2
  <2> QED
    BY <1>1, <2>2, <2>7
<1> QED
  BY <1>3, <1>4, <1>5, TablesKeepViews DEF vars, readerVars, warehouseVars

(***************************************************************************)
(* What the reader keeps of a table, whatever it passed over.              *)
(***************************************************************************)
Read == [name : TableNames, cols : Seq(Columns), topic : Topics \cup {NoTopic}]

ListInv ==
  /\ used \in Usages /\ hooked \in BOOLEAN /\ crashed \in BOOLEAN
  /\ DOMAIN warehouse \subseteq used.tables
  /\ list \in Seq(Read)

LEMMA FoundIn ==
  ASSUME list \in Seq(Read), NEW name
  PROVE  /\ Len(list) \in Nat
         /\ Find(name) # 0 => Find(name) \in 1 .. Len(list) /\ list[Find(name)] \in Read
<1> DEFINE I == {j \in 1 .. Len(list) : list[j].name = name}
           J == {j \in 1 .. Len(list) : Last(list[j].name) = Last(name)}
<1>1. /\ SelectInSeq(list, LAMBDA tbl : tbl.name = name)
           = IF I # {} THEN Min(I) ELSE 0
      /\ SelectInSeq(list, LAMBDA tbl : Last(tbl.name) = Last(name))
           = IF J # {} THEN Min(J) ELSE 0
  BY Zenon DEF SelectInSeq
<1>2. I \in SUBSET Nat /\ J \in SUBSET Nat /\ Len(list) \in Nat
  OBVIOUS
<1>3. I \subseteq 1 .. Len(list) /\ J \subseteq 1 .. Len(list)
  OBVIOUS
<1> HIDE DEF I, J
<1>4. (I # {} => Min(I) \in I) /\ (J # {} => Min(J) \in J)
  BY <1>2, MinExists
<1>5. Find(name) = 0 \/ Find(name) \in I \/ Find(name) \in J
  BY <1>1, <1>4, Zenon DEF Find
<1>6. \A i \in 1 .. Len(list) : list[i] \in Read
  <2> HIDE DEF Read
  <2> QED
    OBVIOUS
<1> QED
  BY <1>2, <1>3, <1>5, <1>6

LEMMA ListTyped ==
  ASSUME ListInv, UNCHANGED <<used, hooked>>, crashed' \in BOOLEAN,
         DOMAIN warehouse' \subseteq used.tables, list' \in Seq(Read)
  PROVE  ListInv'
BY DEF ListInv, Read, TableNames, Written, Meant

(***************************************************************************)
(* Every statement keeps the types of the list, also those that are passed *)
(* over and those after them.                                              *)
(***************************************************************************)
LEMMA CreateTyped ==
  ASSUME ListInv, Create
  PROVE  ListInv'
<1>1. PICK name \in TableNames, cols \in ColumnLists, topic \in Topics \cup {NoTopic},
           form \in CreateForms, columnList \in ListForms :
        /\ Becomes(warehouse)
           \/ Becomes(With(warehouse, Meant(name), [cols |-> cols, topic |-> topic]))
        /\ CreateTable(name, form, columnList, cols, topic, hooked)
  BY Zenon DEF Create
<1>2. PICK row : row = NewTable(name, cols, topic, hooked)
  OBVIOUS
<1>3. row \in Read
  BY <1>2, SinksAssumption DEF NewTable, Read
<1>4. Meant(name) \in used.tables /\ list \in Seq(Read)
  BY DEF TableNames, ListInv
<1>5. DOMAIN warehouse' \subseteq used.tables /\ UNCHANGED <<used, hooked>>
  BY <1>1, <1>4 DEF Becomes, With, ListInv
<1>6. PICK left : left = Removed(name)
  OBVIOUS
<1>7. left \in Seq(Read)
  <2>1. CASE Find(name) = 0
    BY <1>4, <1>6, <2>1 DEF Removed
  <2>2. CASE Find(name) # 0
    BY <1>4, <1>6, <2>2, FoundIn, RemoveAtTakesOut DEF Removed
  <2> QED
    BY <2>1, <2>2
<1>8. \/ UNCHANGED list
      \/ list' = Append(list, row)
      \/ list' = Append(left, row)
  BY <1>1, <1>2, <1>6, Zenon DEF CreateTable, Crash, PassOver, Tables, readerVars
<1>9. crashed' \in BOOLEAN
  BY <1>1 DEF CreateTable, Crash, PassOver, Tables, readerVars, ListInv
<1>10. \A rows \in Seq(Read) : Append(rows, row) \in Seq(Read)
  BY <1>3
<1>11. list' \in Seq(Read)
  BY <1>4, <1>7, <1>8, <1>10, Zenon
<1> QED
  BY <1>5, <1>9, <1>11, ListTyped

LEMMA DropTyped ==
  ASSUME ListInv, Drop
  PROVE  ListInv'
<1>1. PICK name \in TableNames :
        Becomes(Without(warehouse, Meant(name))) /\ DropTable(name)
  BY DEF Drop
<1>2. /\ DOMAIN warehouse' \subseteq used.tables
      /\ UNCHANGED <<used, hooked, crashed>> /\ list' = Removed(name)
  BY <1>1 DEF Becomes, Without, DropTable, Tables, ListInv
<1>3. list' \in Seq(Read)
  <2>1. CASE Find(name) = 0
    BY <1>2, <2>1 DEF Removed, ListInv
  <2>2. CASE Find(name) # 0
    BY <1>2, <2>2, FoundIn, RemoveAtTakesOut DEF Removed, ListInv
  <2> QED
    BY <2>1, <2>2
<1> QED
  BY <1>2, <1>3, ListTyped DEF ListInv

LEMMA EditsTyped ==
  ASSUME NEW cols \in Seq(Columns), NEW c \in Columns, NEW d \in Columns
  PROVE  /\ WithColumn(cols, c) \in Seq(Columns)
         /\ WithoutColumn(cols, c) \in Seq(Columns)
         /\ WithColumnRenamed(cols, c, d) \in Seq(Columns)
<1>1. PICK n : n = FindColumn(cols, c)
  OBVIOUS
<1>2. n # 0 => n \in 1 .. Len(cols)
  BY <1>1, ColumnFound
<1>3. WithoutColumn(cols, c) \in Seq(Columns)
  BY <1>1, <1>2, RemoveAtTakesOut DEF WithoutColumn
<1>4. WithColumnRenamed(cols, c, d) \in Seq(Columns)
  BY <1>1, <1>2 DEF WithColumnRenamed, ReplaceAt
<1> QED
  BY <1>3, <1>4 DEF WithColumn

LEMMA AlterTyped ==
  ASSUME ListInv, Add \/ AddInPlace \/ DropOneColumn \/ RenameOneColumn \/ AlterMissing
  PROVE  ListInv'
<1>1. PICK name \in TableNames, c \in Columns, d \in Columns :
        \/ AddColumn(name, c)
        \/ DropColumn(name, c)
        \/ RenameColumn(name, c, d)
  BY DEF Add, AddInPlace, DropOneColumn, RenameOneColumn, AlterMissing
<1>2. DOMAIN warehouse' \subseteq used.tables /\ UNCHANGED <<used, hooked>>
  BY DEF Add, AddInPlace, DropOneColumn, RenameOneColumn, AlterMissing, Columned, Becomes,
         ListInv
<1>3. PICK cols :
        /\ AlterTable(name, cols)
        /\ Find(name) # 0 => cols \in Seq(Columns)
  <2>1. Find(name) # 0 => ColumnsOf(name) \in Seq(Columns)
    BY FoundIn DEF ListInv, ColumnsOf, Read
  <2> QED
    BY <1>1, <2>1, EditsTyped DEF AddColumn, DropColumn, RenameColumn
<1>4. CASE Find(name) = 0
  BY <1>2, <1>3, <1>4, ListTyped DEF AlterTable, readerVars, ListInv
<1>5. CASE Find(name) # 0
  <2>1. PICK n : n = Find(name)
    OBVIOUS
  <2>2. n \in 1 .. Len(list) /\ list[n] \in Read /\ list \in Seq(Read)
    BY <1>5, <2>1, FoundIn DEF ListInv
  <2>3. list' = [list EXCEPT ![n].cols = cols] /\ UNCHANGED crashed
    BY <1>3, <1>5, <2>1 DEF AlterTable, Tables
  <2>4. PICK row : row = [list[n] EXCEPT !.cols = cols]
    OBVIOUS
  <2>5. row \in Read
    BY <1>3, <1>5, <2>2, <2>4 DEF Read
  <2>6. list' = [list EXCEPT ![n] = row]
    BY <2>2, <2>3, <2>4
  <2>7. list' \in Seq(Read)
    <3> HIDE DEF Read
    <3> QED
      BY <2>2, <2>5, <2>6
  <2> QED
    BY <1>2, <2>3, <2>7, ListTyped DEF ListInv
<1> QED
  BY <1>4, <1>5

(***************************************************************************)
(* A row given the name of a table.                                        *)
(***************************************************************************)
LEMMA NamedTyped ==
  ASSUME NEW l \in Seq(Read), NEW n \in 1 .. Len(l), NEW name \in TableNames
  PROVE  [l EXCEPT ![n].name = name] \in Seq(Read)
<1>1. PICK row : row = [l[n] EXCEPT !.name = name]
  OBVIOUS
<1>2. l[n] \in Read
  <2> HIDE DEF Read
  <2> QED
    OBVIOUS
<1>3. row \in Read
  BY <1>1, <1>2 DEF Read
<1>4. [l EXCEPT ![n].name = name] = [l EXCEPT ![n] = row]
  BY <1>1
<1> HIDE DEF Read
<1> QED
  BY <1>3, <1>4

LEMMA HookTyped ==
  ASSUME ListInv, Exchange \/ Rename
  PROVE  ListInv'
<1>1. list \in Seq(Read) /\ crashed \in BOOLEAN /\ DOMAIN warehouse \subseteq used.tables
  BY DEF ListInv
<1>2. CASE Exchange
  <2>1. PICK a \in TableNames, b \in TableNames :
          /\ Becomes([warehouse EXCEPT ![Meant(a)] = ContentOf(b),
                                       ![Meant(b)] = ContentOf(a)])
          /\ ExchangeTables(a, b)
    BY <1>2 DEF Exchange
  <2>2. PICK i : i = Find(a)
    OBVIOUS
  <2>3. PICK j : j = Find(b)
    OBVIOUS
  <2>4. DOMAIN warehouse' \subseteq used.tables /\ UNCHANGED <<used, hooked, crashed>>
    BY <1>1, <2>1 DEF Becomes, ExchangeTables, Tables, readerVars
  <2>5. CASE i = 0 \/ j = 0
    BY <1>1, <2>1, <2>2, <2>3, <2>4, <2>5, ListTyped DEF ExchangeTables, readerVars
  <2>6. CASE i # 0 /\ j # 0
    <3>1. /\ i \in 1 .. Len(list) /\ list[i] \in Read
          /\ j \in 1 .. Len(list) /\ list[j] \in Read
      BY <1>1, <2>2, <2>3, <2>6, FoundIn
    <3>2. list[i].name \in TableNames /\ list[j].name \in TableNames
      BY <3>1 DEF Read
    <3>3. PICK half : half = [list EXCEPT ![i].name = list[j].name]
      OBVIOUS
    <3>4. list' = [half EXCEPT ![j].name = list[i].name]
      BY <2>1, <2>2, <2>3, <2>6, <3>3 DEF ExchangeTables, Tables
    <3>5. half \in Seq(Read) /\ Len(half) = Len(list)
      BY <1>1, <3>1, <3>2, <3>3, NamedTyped
    <3>6. list' \in Seq(Read)
      BY <3>1, <3>2, <3>4, <3>5, NamedTyped
    <3> QED
      BY <1>1, <2>4, <3>6, ListTyped
  <2> QED
    BY <2>5, <2>6
<1>3. CASE Rename
  <2>1. PICK a \in TableNames, b \in TableNames :
          /\ Becomes(With(Without(warehouse, Meant(a)), Meant(b), ContentOf(a)))
          /\ RenameTable(a, b)
    BY <1>3 DEF Rename
  <2>2. Meant(b) \in used.tables
    BY DEF TableNames
  <2>3. DOMAIN warehouse' \subseteq used.tables /\ UNCHANGED <<used, hooked, crashed>>
    BY <1>1, <2>1, <2>2 DEF Becomes, With, Without, RenameTable, Tables, readerVars
  <2>4. CASE Find(a) = 0
    BY <1>1, <2>1, <2>3, <2>4, ListTyped DEF RenameTable, readerVars
  <2>5. CASE Find(a) # 0
    <3>1. Find(a) \in 1 .. Len(list)
      BY <1>1, <2>5, FoundIn
    <3>2. list' = [list EXCEPT ![Find(a)].name = b]
      BY <2>1, <2>5 DEF RenameTable, Tables
    <3>3. list' \in Seq(Read)
      BY <1>1, <3>1, <3>2, NamedTyped
    <3> QED
      BY <1>1, <2>3, <3>3, ListTyped
  <2> QED
    BY <2>4, <2>5
<1> QED
  BY <1>2, <1>3

LEMMA PassedOverTyped ==
  ASSUME ListInv, ColumnWithoutTheWord \/ DropTwo \/ RenameByAlter
  PROVE  ListInv'
<1>1. UNCHANGED <<used, hooked, crashed, list>>
  BY DEF ColumnWithoutTheWord, DropTwo, RenameByAlter, Columned, Becomes, PassOver,
         readerVars
<1>2. \A name \in TableNames : Meant(name) \in used.tables
  BY DEF TableNames
<1>3. DOMAIN warehouse' \subseteq used.tables
  BY <1>2 DEF ColumnWithoutTheWord, DropTwo, RenameByAlter, Columned, Becomes, ListInv,
              With, Without
<1> QED
  BY <1>1, <1>3, ListTyped DEF ListInv

LEMMA ListStep ==
  ASSUME ListInv, [Next]_vars
  PROVE  ListInv'
<1>1. CASE UNCHANGED vars \/ CreateAView \/ DropAView
  <2>1. UNCHANGED <<used, hooked, crashed, list, warehouse>>
    BY <1>1 DEF vars, readerVars, warehouseVars, CreateAView, DropAView, CreateView, DropView
  <2> QED
    BY <2>1, ListTyped DEF ListInv
<1> QED
  BY <1>1, CreateTyped, DropTyped, AlterTyped, HookTyped, PassedOverTyped DEF Next

(***************************************************************************)
(* The reader's lists keep their types whatever the files hold. That no    *)
(* column is read twice of a table is true of files of the shape only: a   *)
(* column whose DROP is passed over may be there when another takes its    *)
(* name.                                                                   *)
(***************************************************************************)
THEOREM SinksTyped == Spec => []TypeOK
<1>1. Init => ViewsInv /\ ListInv
  <2>1. /\ <<>> \in Seq([name : ViewNames, definition : Definitions]) /\ Len(<<>>) = 0
        /\ <<>> \in Seq(Read)
    OBVIOUS
  <2>2. Init => ViewsInv
    BY <2>1, SinksAssumption DEF Init, ReaderInit, ViewsInv
  <2>3. Init => ListInv
    BY <2>1 DEF Init, ReaderInit, ListInv
  <2> QED
    BY <2>2, <2>3
<1>2. ViewsInv /\ ListInv /\ [Next]_vars => ViewsInv' /\ ListInv'
  BY ViewsStep, ListStep
<1>3. ViewsInv /\ ListInv /\ (OneSchemaPerName /\ OfTheShape => WarehouseInv) => TypeOK
  <2> SUFFICES ASSUME ViewsInv, ListInv,
                      OneSchemaPerName /\ OfTheShape => WarehouseInv
               PROVE  TypeOK
    OBVIOUS
  <2>1. \A i \in DOMAIN list : list[i] \in Read
    <3>1. list \in Seq(Read)
      BY DEF ListInv
    <3> HIDE DEF Read
    <3> QED
      BY <3>1
  <2>2. \A i \in DOMAIN list :
          /\ list[i].name \in TableNames
          /\ ToSet(list[i].cols) \subseteq Columns
          /\ list[i].topic \in Topics \cup {NoTopic}
    <3>1. \A cols \in Seq(Columns) : ToSet(cols) \subseteq Columns
      BY DEF ToSet
    <3> QED
      BY <2>1, <3>1 DEF Read
  <2>3. ASSUME WarehouseInv
        PROVE  \A i \in DOMAIN list : IsInjective(list[i].cols)
    <3>1. list \in Seq(Rows)
      BY <2>3 DEF WarehouseInv, Shows
    <3>2. \A i \in DOMAIN list : list[i] \in Rows
      <4> HIDE DEF Rows
      <4> QED
        BY <3>1
    <3> QED
      BY <3>2 DEF Rows, Lists
  <2>4. \A i \in DOMAIN views : views[i].name \in ViewNames
    <3> DEFINE Entered == [name : ViewNames, definition : Definitions]
    <3>1. views \in Seq(Entered)
      BY DEF ViewsInv
    <3>2. \A i \in DOMAIN views : views[i] \in Entered
      <4> HIDE DEF Entered
      <4> QED
        BY <3>1
    <3> QED
      BY <3>2
  <2> QED
    BY <2>2, <2>3, <2>4 DEF TypeOK, ViewsInv, ListInv
<1> QED
  BY <1>1, <1>2, <1>3, WarehouseAlways, PTL DEF Spec

=============================================================================
