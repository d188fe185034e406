--------------------------- MODULE SourcesProofs ----------------------------
(***************************************************************************)
(* What the source readers promise, proved for any migrations over any     *)
(* schemas, tables, columns and types.                                     *)
(*                                                                         *)
(* Four invariants, each resting on the one before where it must.          *)
(* DatabaseInv: the tool and the reader leave out the same statements, so  *)
(* that a USE is run and read, or neither (RightDatabase). Mirrors: each   *)
(* table of the reader's list has its entry in the catalog and each entry  *)
(* its one table, with the same columns and types, and the table being     *)
(* altered is the same one; it holds until the reader gives up, and what   *)
(* it takes is shown first for lists and catalogs in general (the Matching *)
(* and Mirrored lemmas), then statement by statement for each dialect      *)
(* (SchemaRead). The types, of the catalog and of the lists                *)
(* (SourcesTyped). CursorInv: every name the search for a column's line    *)
(* has gone past is one the statement mentioned since it last placed a     *)
(* column, until the search is lost, which is excused only then            *)
(* (ColumnsPlaced).                                                        *)
(***************************************************************************)
EXTENDS Sources, ListLemmas

HalvesAgree == (half = "up") <=> (~skipped /\ ~down)

DatabaseInv == HalvesAgree /\ NeverTheWrongDatabase

-----------------------------------------------------------------------------

(***************************************************************************)
(* What neither goes to another database nor opens a file keeps the        *)
(* invariant.                                                              *)
(***************************************************************************)
LEMMA SameDatabase ==
  ASSUME DatabaseInv, UNCHANGED <<dialect, half, skipped, down>>,
         MySQL => UNCHANGED <<session, db>>
  PROVE  DatabaseInv'
BY DEF DatabaseInv, HalvesAgree, NeverTheWrongDatabase, MySQL

(***************************************************************************)
(* Creating, dropping and renaming tables leaves the database alone.       *)
(***************************************************************************)
LEMMA WholeTables ==
  ASSUME DatabaseInv,
         CreateTable \/ CreateUnlisted \/ CreateLike \/ DropTable \/ RenameTable
  PROVE  DatabaseInv'
<1>1. UNCHANGED <<dialect, half, skipped, down>>
  BY DEF CreateTable, CreateUnlisted, CreateLike, DropTable, RenameTable, Meet, halfVars
<1>2. ASSUME MySQL PROVE UNCHANGED <<session, db>>
  <2>0. ~Postgres
    BY <1>2 DEF MySQL, Postgres
  <2> USE <1>2, <2>0 DEF Meet, dbVars, readerVars, My!Stop, My!Going
  <2>1. CASE CreateTable
    BY <2>1 DEF CreateTable, DB!Create, My!CreateTable
  <2>2. CASE CreateUnlisted
    BY <2>2 DEF CreateUnlisted, My!CreateUnlisted, My!CreateTable, My!readerVars
  <2>3. CASE CreateLike
    BY <2>3 DEF CreateLike, DB!CreateLike, DB!Create, My!CreateLike, My!readerVars
  <2>4. CASE DropTable
    BY <2>4 DEF DropTable, DB!Drop, My!DropTable
  <2>5. CASE RenameTable
    BY <2>5 DEF RenameTable, DB!Rename, My!RenameTable, My!readerVars
  <2>6. QED
    BY <2>1, <2>2, <2>3, <2>4, <2>5
<1>3. QED
  BY <1>1, <1>2, SameDatabase

(***************************************************************************)
(* So does altering one.                                                   *)
(***************************************************************************)
LEMMA AlteredTables ==
  ASSUME DatabaseInv,
         \/ BeginAlter \/ EndAlter \/ AddColumn \/ DropColumn \/ RenameColumn
         \/ ChangeColumn \/ SetColumnType \/ RenameAltered
  PROVE  DatabaseInv'
<1>1. UNCHANGED <<dialect, half, skipped, down>>
  BY DEF BeginAlter, EndAlter, AddColumn, DropColumn, RenameColumn, ChangeColumn,
         SetColumnType, RenameAltered, Meet, halfVars
<1>2. ASSUME MySQL PROVE UNCHANGED <<session, db>>
  <2>0. ~Postgres
    BY <1>2 DEF MySQL, Postgres
  <2> USE <1>2, <2>0 DEF Meet, dbVars, readerVars, My!Stop, My!Going
  <2>1. CASE BeginAlter
    BY <2>1 DEF BeginAlter, DB!BeginAlter, My!AlterStart
  <2>2. CASE EndAlter
    BY <2>2 DEF EndAlter, DB!EndAlter, My!AlterDone
  <2>3. CASE AddColumn
    BY <2>3 DEF AddColumn, DB!AddColumn, DB!Alter, My!AddColumn
  <2>4. CASE DropColumn
    BY <2>4 DEF DropColumn, DB!DropColumn, DB!Alter, My!DropColumn
  <2>5. CASE RenameColumn
    BY <2>5 DEF RenameColumn, DB!RenameColumn, DB!ChangeColumn, DB!Alter, My!RenameColumn
  <2>6. CASE ChangeColumn
    BY <2>6 DEF ChangeColumn, DB!ChangeColumn, DB!Alter, My!ChangeColumn
  <2>7. CASE SetColumnType
    BY <2>7 DEF SetColumnType, DB!SetType, DB!Alter, My!ModifyColumn
  <2>8. CASE RenameAltered
    BY <2>8 DEF RenameAltered, DB!RenameAltered, My!RenameAltered
  <2>9. QED
    BY <2>1, <2>2, <2>3, <2>4, <2>5, <2>6, <2>7, <2>8
<1>3. QED
  BY <1>1, <1>2, SameDatabase

(***************************************************************************)
(* A USE that is run is read, and the reader's database follows the        *)
(* session's.                                                              *)
(***************************************************************************)
LEMMA FollowsUse ==
  ASSUME DatabaseInv, UseDatabase
  PROVE  DatabaseInv'
<1>1. PICK s \in Schemas : Meet(DB!Use(s), My!UseDatabase(s))
  BY DEF UseDatabase
<1>2. CASE half = "up"
  BY <1>1, <1>2 DEF DatabaseInv, HalvesAgree, NeverTheWrongDatabase, MySQL, Meet,
     Halves!Runs, Halves!Read, DB!Use, My!UseDatabase, halfVars
<1>3. CASE half # "up"
  BY <1>1, <1>3, SameDatabase DEF DatabaseInv, HalvesAgree, Meet,
     Halves!Runs, Halves!Read, halfVars, dbVars, readerVars
<1>4. QED
  BY <1>2, <1>3

(***************************************************************************)
(* Opening a file and meeting a marker change the half and its reading     *)
(* together.                                                               *)
(***************************************************************************)
LEMMA HalvesChange ==
  ASSUME DatabaseInv, NextFile \/ SectionMarker
  PROVE  DatabaseInv'
<1>1. UNCHANGED <<dialect, session, db>>
  BY DEF NextFile, SectionMarker, dbVars, readerVars
<1>2. HalvesAgree'
  <2>1. CASE NextFile
    <3>1. PICK isDown \in BOOLEAN : Halves!OpenFile(isDown)
      BY <2>1 DEF NextFile
    <3>2. QED
      BY <3>1 DEF Halves!OpenFile, HalvesAgree
  <2>2. CASE SectionMarker
    <3>1. PICK which \in {"up", "down"} : Halves!Marker(which)
      BY <2>2 DEF SectionMarker
    <3>2. ~skipped' /\ (down' <=> which = "down") /\ half' = which
      BY <3>1 DEF Halves!Marker
    <3>3. QED
      BY <3>2 DEF HalvesAgree
  <2>3. QED
    BY <2>1, <2>2
<1>3. QED
  BY <1>1, <1>2 DEF DatabaseInv, NeverTheWrongDatabase, MySQL

LEMMA DatabaseInit == Init => DatabaseInv
BY DEF Init, DatabaseInv, HalvesAgree, NeverTheWrongDatabase, MySQL,
       Halves!HalvesInit, DB!CatalogInit

LEMMA DatabaseStep ==
  ASSUME DatabaseInv, [Next]_vars
  PROVE  DatabaseInv'
<1>1. CASE UNCHANGED vars
  BY <1>1, SameDatabase DEF vars, dbVars, halfVars, readerVars
<1>2. CASE Next
  BY <1>2, WholeTables, AlteredTables, FollowsUse, HalvesChange DEF Next
<1> QED
  BY <1>1, <1>2

(***************************************************************************)
(* The database the reader puts an unqualified table in is the one the     *)
(* migrations run in, or unknown, whatever USE statements the halves of    *)
(* the files hold.                                                         *)
(***************************************************************************)
THEOREM RightDatabase == Spec => []NeverTheWrongDatabase
<1>1. DatabaseInv => NeverTheWrongDatabase
  BY DEF DatabaseInv
<1> QED
  BY <1>1, DatabaseInit, DatabaseStep, PTL DEF Spec

-----------------------------------------------------------------------------

(***************************************************************************)
(* Where a lookup finds a name in a list of columns: nowhere if it is not  *)
(* there, and at its place if it is there once.                            *)
(***************************************************************************)
LEMMA ColumnPlace ==
  ASSUME NEW S, NEW cols \in Seq(S), NEW c
  PROVE  /\ List!ColumnIn(cols, c) \in 0 .. Len(cols)
         /\ List!ColumnIn(cols, c) # 0 => cols[List!ColumnIn(cols, c)].name = c
         /\ List!ColumnIn(cols, c) = 0 => \A j \in DOMAIN cols : cols[j].name # c
<1> DEFINE I == {j \in 1 .. Len(cols) : cols[j].name = c}
<1>1. List!ColumnIn(cols, c) = IF I # {} THEN List!Min(I) ELSE 0
  BY Zenon DEF List!ColumnIn, List!SelectInSeq
<1>2. List!Min(I) = Min(I)
  BY Zenon DEF List!Min, Min
<1>3. I \in SUBSET Nat /\ DOMAIN cols = 1 .. Len(cols)
  OBVIOUS
<1>4. I # {} => Min(I) \in I
  <2> HIDE DEF I
  <2> QED
    BY <1>3, MinExists
<1>5. \A j \in I : j # 0
  OBVIOUS
<1> QED
  BY <1>1, <1>2, <1>3, <1>4, <1>5

-----------------------------------------------------------------------------

(***************************************************************************)
(* The columns read of a table are those of the database: each once, with  *)
(* its type.                                                               *)
(***************************************************************************)
Matches(cols, content) ==
  /\ cols \in Seq([name : Columns, type : Types])
  /\ \A i, j \in 1 .. Len(cols) : cols[i].name = cols[j].name => i = j
  /\ content = [c \in DOMAIN content |-> content[c]]
  /\ \A j \in 1 .. Len(cols) :
       cols[j].name \in DOMAIN content /\ content[cols[j].name] = cols[j].type
  /\ \A c \in DOMAIN content : \E j \in 1 .. Len(cols) : cols[j].name = c

LEMMA MatchingFound ==
  ASSUME NEW cols, NEW content, Matches(cols, content), NEW c
  PROVE  /\ List!ColumnIn(cols, c) \in 0 .. Len(cols)
         /\ List!ColumnIn(cols, c) = 0 <=> c \notin DOMAIN content
         /\ List!ColumnIn(cols, c) # 0 =>
              /\ cols[List!ColumnIn(cols, c)].name = c
              /\ cols[List!ColumnIn(cols, c)].type = content[c]
<1>1. cols \in Seq([name : Columns, type : Types]) /\ DOMAIN cols = 1 .. Len(cols)
  BY DEF Matches
<1>2. /\ List!ColumnIn(cols, c) \in 0 .. Len(cols)
      /\ List!ColumnIn(cols, c) # 0 => cols[List!ColumnIn(cols, c)].name = c
      /\ List!ColumnIn(cols, c) = 0 => \A j \in DOMAIN cols : cols[j].name # c
  BY <1>1, ColumnPlace, Zenon
<1> QED
  BY <1>1, <1>2 DEF Matches

LEMMA MatchingDescribed ==
  ASSUME NEW cols, NEW content, Matches(cols, content)
  PROVE  List!Described(cols) = content
<1>1. ASSUME NEW c \in DOMAIN content
      PROVE  cols[List!ColumnIn(cols, c)].type = content[c]
  BY MatchingFound
<1>2. {cols[j].name : j \in DOMAIN cols} = DOMAIN content
  <2>1. cols \in Seq([name : Columns, type : Types]) /\ DOMAIN cols = 1 .. Len(cols)
    BY DEF Matches
  <2>2. \A j \in 1 .. Len(cols) : cols[j].name \in DOMAIN content
    BY DEF Matches
  <2>3. \A c \in DOMAIN content : \E j \in 1 .. Len(cols) : cols[j].name = c
    BY DEF Matches
  <2> QED
    BY <2>1, <2>2, <2>3
<1>3. content = [c \in DOMAIN content |-> content[c]]
  BY DEF Matches
<1> QED
  BY <1>1, <1>2, <1>3 DEF List!Described

LEMMA MatchingWritten ==
  ASSUME NEW cols \in ColumnLists
  PROVE  Matches(cols, Contents(cols))
<1>1. /\ cols \in Seq([name : Columns, type : Types])
      /\ \A i, j \in DOMAIN cols : cols[i].name = cols[j].name => i = j
  BY SourcesAssumption
<1>2. ASSUME NEW j \in DOMAIN cols
      PROVE  Contents(cols)[cols[j].name] = cols[j].type
  <2>1. (CHOOSE i \in DOMAIN cols : cols[i].name = cols[j].name) = j
    BY <1>1
  <2> QED
    BY <2>1 DEF Contents
<1>3. /\ DOMAIN Contents(cols) = {cols[i].name : i \in DOMAIN cols}
      /\ Contents(cols) = [c \in DOMAIN Contents(cols) |-> Contents(cols)[c]]
  BY DEF Contents
<1> QED
  BY <1>1, <1>2, <1>3 DEF Matches

(***************************************************************************)
(* A column added anywhere, one taken out, and one replaced under a name   *)
(* no other column has, leave the two the same.                            *)
(***************************************************************************)
LEMMA MatchingAdded ==
  ASSUME NEW cols, NEW content, Matches(cols, content),
         NEW c \in Columns, NEW type \in Types, c \notin DOMAIN content,
         NEW after \in Seq([name : Columns, type : Types]), NEW at,
         PutIn(after, cols, at, List!Column(c, type))
  PROVE  Matches(after, DB!With(content, c, type))
<1> DEFINE col == List!Column(c, type)
           grown == DB!With(content, c, type)
<1>1. col.name = c /\ col.type = type /\ after[at] = col
  BY DEF List!Column, PutIn
<1>2. /\ DOMAIN grown = DOMAIN content \cup {c}
      /\ grown = [x \in DOMAIN grown |-> grown[x]]
      /\ grown[c] = type /\ \A x \in DOMAIN content : grown[x] = content[x]
  BY DEF DB!With
<1> HIDE DEF col, grown
<1>3. ASSUME NEW j \in 1 .. Len(after), j # at
      PROVE  /\ after[j].name \in DOMAIN content
             /\ content[after[j].name] = after[j].type
  <2>1. PICK p \in 1 .. Len(cols) : after[j] = cols[p]
    BY <1>3 DEF PutIn
  <2> QED
    BY <2>1 DEF Matches
<1>4. ASSUME NEW i \in 1 .. Len(after), NEW j \in 1 .. Len(after),
             after[i].name = after[j].name
      PROVE  i = j
  <2>1. CASE i # at /\ j # at
    <3>1. PICK p, q \in 1 .. Len(cols) :
            after[i] = cols[p] /\ after[j] = cols[q] /\ (p = q <=> i = j)
      BY <2>1 DEF PutIn
    <3> QED
      BY <1>4, <3>1 DEF Matches
  <2>2. CASE i = at \/ j = at
    BY <1>1, <1>3, <1>4, <2>2
  <2> QED
    BY <2>1, <2>2
<1>5. ASSUME NEW j \in 1 .. Len(after)
      PROVE  after[j].name \in DOMAIN grown /\ grown[after[j].name] = after[j].type
  BY <1>1, <1>2, <1>3
<1>6. ASSUME NEW x \in DOMAIN grown
      PROVE  \E j \in 1 .. Len(after) : after[j].name = x
  <2>1. CASE x = c
    BY <1>1, <2>1 DEF PutIn
  <2>2. CASE x # c
    <3>1. PICK p \in 1 .. Len(cols) : cols[p].name = x
      BY <1>2, <2>2 DEF Matches
    <3> QED
      BY <3>1 DEF PutIn
  <2> QED
    BY <2>1, <2>2
<1>7. Matches(after, grown)
  BY <1>2, <1>4, <1>5, <1>6 DEF Matches
<1> QED
  BY <1>7 DEF grown

LEMMA MatchingRemoved ==
  ASSUME NEW cols, NEW content, Matches(cols, content), NEW c
  PROVE  Matches(List!RemoveColumn(cols, c), DB!Without(content, c))
<1>0. PICK n : n = List!ColumnIn(cols, c)
  OBVIOUS
<1> DEFINE shrunk == DB!Without(content, c)
<1>1. cols \in Seq([name : Columns, type : Types])
  BY DEF Matches
<1>2. /\ n \in 0 .. Len(cols) /\ (n = 0 <=> c \notin DOMAIN content)
      /\ n # 0 => cols[n].name = c
  BY <1>0, MatchingFound
<1>3. /\ DOMAIN shrunk = DOMAIN content \ {c}
      /\ shrunk = [x \in DOMAIN shrunk |-> shrunk[x]]
      /\ \A x \in DOMAIN shrunk : shrunk[x] = content[x]
  BY DEF DB!Without
<1>4. List!RemoveColumn(cols, c) = IF n = 0 THEN cols ELSE RemoveAt(cols, n)
  BY <1>0 DEF List!RemoveColumn, List!RemoveAt, RemoveAt
<1> HIDE DEF shrunk
<1>5. ASSUME n = 0
      PROVE  Matches(cols, shrunk)
  <2>1. content = [x \in DOMAIN content |-> content[x]]
    BY DEF Matches
  <2>2. shrunk = content
    BY <1>2, <1>3, <1>5, <2>1
  <2> QED
    BY <2>2
<1>6. ASSUME n # 0, NEW after, after = RemoveAt(cols, n)
      PROVE  Matches(after, shrunk)
  <2>1. n \in 1 .. Len(cols)
    BY <1>1, <1>2, <1>6
  <2>2. after \in Seq([name : Columns, type : Types]) /\ TakenOut(after, cols, n)
    BY <1>1, <1>6, <2>1, RemoveAtTakesOut
  <2>3. ASSUME NEW i \in 1 .. Len(after), NEW j \in 1 .. Len(after),
               after[i].name = after[j].name
        PROVE  i = j
    <3>1. PICK p, q \in 1 .. Len(cols) :
            after[i] = cols[p] /\ after[j] = cols[q] /\ (p = q <=> i = j)
      BY <2>2 DEF TakenOut
    <3> QED
      BY <2>3, <3>1 DEF Matches
  <2>4. ASSUME NEW j \in 1 .. Len(after)
        PROVE  after[j].name \in DOMAIN shrunk /\ shrunk[after[j].name] = after[j].type
    <3>1. PICK p \in 1 .. Len(cols) : p # n /\ after[j] = cols[p]
      BY <2>2 DEF TakenOut
    <3>2. cols[p].name # c
      BY <1>2, <1>6, <2>1, <3>1 DEF Matches
    <3> QED
      BY <1>3, <3>1, <3>2 DEF Matches
  <2>5. ASSUME NEW x \in DOMAIN shrunk
        PROVE  \E j \in 1 .. Len(after) : after[j].name = x
    <3>1. PICK p \in 1 .. Len(cols) : cols[p].name = x /\ p # n
      BY <1>2, <1>3, <1>6 DEF Matches
    <3> QED
      BY <2>2, <3>1 DEF TakenOut
  <2> QED
    BY <1>3, <2>2, <2>3, <2>4, <2>5 DEF Matches
<1> QED
  BY <1>4, <1>5, <1>6 DEF shrunk

LEMMA MatchingReplaced ==
  ASSUME NEW cols, NEW content, Matches(cols, content),
         NEW c \in DOMAIN content, NEW d \in Columns, NEW type \in Types,
         d # c => d \notin DOMAIN content
  PROVE  /\ List!ColumnIn(cols, c) # 0
         /\ Matches(List!ReplaceAt(cols, List!ColumnIn(cols, c), List!Column(d, type)),
                    DB!With(DB!Without(content, c), d, type))
<1> DEFINE n == List!ColumnIn(cols, c)
           col == List!Column(d, type)
           after == List!ReplaceAt(cols, n, col)
           changed == DB!With(DB!Without(content, c), d, type)
<1>1. cols \in Seq([name : Columns, type : Types])
  BY DEF Matches
<1>2. n \in 1 .. Len(cols) /\ cols[n].name = c
  BY MatchingFound
<1>3. /\ DOMAIN changed = (DOMAIN content \ {c}) \cup {d}
      /\ changed = [x \in DOMAIN changed |-> changed[x]]
      /\ changed[d] = type
      /\ \A x \in DOMAIN changed : x # d => changed[x] = content[x]
  BY DEF DB!With, DB!Without
<1>4. col \in [name : Columns, type : Types] /\ col.name = d /\ col.type = type
  BY DEF List!Column
<1>5. after = [cols EXCEPT ![n] = col]
  BY DEF List!ReplaceAt
<1> HIDE DEF n, col, after, changed
<1>6. /\ after \in Seq([name : Columns, type : Types])
      /\ Len(after) = Len(cols)
      /\ after[n] = col
      /\ \A i \in 1 .. Len(cols) : i # n => after[i] = cols[i]
  BY <1>1, <1>2, <1>4, <1>5
<1>7. \A i \in 1 .. Len(cols) : i # n => cols[i].name # d /\ cols[i].name # c
  BY <1>1, <1>2 DEF Matches
<1>8. ASSUME NEW i \in 1 .. Len(after), NEW j \in 1 .. Len(after),
             after[i].name = after[j].name
      PROVE  i = j
  <2>1. \A x, y \in 1 .. Len(cols) : cols[x].name = cols[y].name => x = y
    BY DEF Matches
  <2>2. \A x \in 1 .. Len(cols) : after[x].name = d <=> x = n
    BY <1>2, <1>4, <1>6, <1>7
  <2> QED
    BY <1>6, <1>8, <2>1, <2>2
<1>9. ASSUME NEW j \in 1 .. Len(after)
      PROVE  after[j].name \in DOMAIN changed /\ changed[after[j].name] = after[j].type
  <2>1. CASE j = n
    BY <1>3, <1>4, <1>6, <2>1
  <2>2. CASE j # n
    BY <1>3, <1>6, <1>7, <2>2 DEF Matches
  <2> QED
    BY <2>1, <2>2
<1>10. ASSUME NEW x \in DOMAIN changed
       PROVE  \E j \in 1 .. Len(after) : after[j].name = x
  <2>1. CASE x = d
    BY <1>1, <1>2, <1>4, <1>6, <2>1
  <2>2. CASE x # d
    <3>1. PICK i \in 1 .. Len(cols) : cols[i].name = x
      BY <1>3, <2>2 DEF Matches
    <3>2. i # n
      BY <1>2, <1>3, <2>2, <3>1
    <3> QED
      BY <1>6, <3>1, <3>2
  <2> QED
    BY <2>1, <2>2
<1>11. Matches(after, changed)
  BY <1>3, <1>6, <1>8, <1>9, <1>10 DEF Matches
<1> QED
  BY <1>2, <1>11 DEF n, col, after, changed

-----------------------------------------------------------------------------

(***************************************************************************)
(* The tables read are those of the database, each once and with its       *)
(* columns, and the table being altered is the same one.                   *)
(***************************************************************************)
Mirrors ==
  /\ src \in Seq([id : DB!Ids, cols : Seq([name : Columns, type : Types])])
  /\ \A i, j \in 1 .. Len(src) : src[i].id = src[j].id => i = j
  /\ catalog = [id \in DOMAIN catalog |-> catalog[id]]
  /\ \A i \in 1 .. Len(src) :
       src[i].id \in DOMAIN catalog /\ Matches(src[i].cols, catalog[src[i].id])
  /\ \A id \in DOMAIN catalog : \E i \in 1 .. Len(src) : src[i].id = id
  /\ t \in 0 .. Len(src)
  /\ t = 0 <=> altered = NoTable
  /\ t # 0 => src[t].id = altered

LEMMA TablePlace ==
  ASSUME NEW S, src \in Seq(S), NEW id
  PROVE  /\ List!Table(id) \in 0 .. Len(src)
         /\ List!Table(id) # 0 => src[List!Table(id)].id = id
         /\ List!Table(id) = 0 => \A i \in 1 .. Len(src) : src[i].id # id
<1> DEFINE I == {i \in 1 .. Len(src) : src[i].id = id}
<1>1. List!Table(id) = IF I # {} THEN List!Min(I) ELSE 0
  BY Zenon DEF List!Table, List!SelectInSeq
<1>2. List!Min(I) = Min(I)
  BY Zenon DEF List!Min, Min
<1>3. I \in SUBSET Nat
  OBVIOUS
<1>4. I # {} => Min(I) \in I
  <2> HIDE DEF I
  <2> QED
    BY <1>3, MinExists
<1>5. \A i \in I : i # 0
  OBVIOUS
<1> QED
  BY <1>1, <1>2, <1>3, <1>4, <1>5

LEMMA MirroredFound ==
  ASSUME Mirrors, NEW id
  PROVE  /\ List!Table(id) \in 0 .. Len(src)
         /\ List!Table(id) = 0 <=> id \notin DOMAIN catalog
         /\ List!Table(id) # 0 => src[List!Table(id)].id = id
<1>1. /\ List!Table(id) \in 0 .. Len(src)
      /\ List!Table(id) # 0 => src[List!Table(id)].id = id
      /\ List!Table(id) = 0 => \A i \in 1 .. Len(src) : src[i].id # id
  <2>1. src \in Seq([id : DB!Ids, cols : Seq([name : Columns, type : Types])])
    BY DEF Mirrors
  <2> QED
    BY <2>1, TablePlace, Zenon
<1>2. List!Table(id) # 0 => List!Table(id) \in 1 .. Len(src)
  BY <1>1 DEF Mirrors
<1> QED
  BY <1>1, <1>2 DEF Mirrors

LEMMA MirrorsShow ==
  ASSUME Mirrors
  PROVE  /\ List!NoneTwice
         /\ List!AsCatalog = catalog
         /\ t = 0 <=> altered = NoTable
         /\ t # 0 => src[t].id = altered
<1>1. /\ src \in Seq([id : DB!Ids, cols : Seq([name : Columns, type : Types])])
      /\ DOMAIN src = 1 .. Len(src)
  BY DEF Mirrors
<1>2. ASSUME NEW k \in 1 .. Len(src), NEW i \in DOMAIN src[k].cols,
             NEW j \in DOMAIN src[k].cols, src[k].cols[i].name = src[k].cols[j].name
      PROVE  i = j
  <2>1. Matches(src[k].cols, catalog[src[k].id])
    BY DEF Mirrors
  <2>2. DOMAIN src[k].cols = 1 .. Len(src[k].cols)
    BY <2>1 DEF Matches
  <2> QED
    BY <1>2, <2>1, <2>2 DEF Matches
<1>3. List!NoneTwice
  BY <1>1, <1>2 DEF Mirrors, List!NoneTwice
<1>4. {src[i].id : i \in DOMAIN src} = DOMAIN catalog
  <2>1. \A i \in 1 .. Len(src) : src[i].id \in DOMAIN catalog
    BY DEF Mirrors
  <2>2. \A id \in DOMAIN catalog : \E i \in 1 .. Len(src) : src[i].id = id
    BY DEF Mirrors
  <2> QED
    BY <1>1, <2>1, <2>2
<1>5. ASSUME NEW id \in DOMAIN catalog
      PROVE  List!Described(src[List!Table(id)].cols) = catalog[id]
  <2>1. List!Table(id) \in 1 .. Len(src) /\ src[List!Table(id)].id = id
    <3>1. List!Table(id) \in 0 .. Len(src) /\ Len(src) \in Nat
      BY <1>1, MirroredFound
    <3> QED
      BY <3>1, MirroredFound
  <2>2. Matches(src[List!Table(id)].cols, catalog[id])
    BY <2>1 DEF Mirrors
  <2> QED
    BY <2>2, MatchingDescribed
<1>6. List!AsCatalog = [id \in DOMAIN catalog |-> catalog[id]]
  BY <1>4, <1>5, Zenon DEF List!AsCatalog
<1> QED
  BY <1>3, <1>6 DEF Mirrors

(***************************************************************************)
(* A name a table has is not NoTable.                                      *)
(***************************************************************************)
LEMMA MirroredIds ==
  ASSUME Mirrors
  PROVE  DOMAIN catalog \subseteq DB!Ids /\ NoTable \notin DOMAIN catalog
<1>1. ASSUME NEW id \in DOMAIN catalog PROVE id \in DB!Ids
  <2>1. PICK i \in 1 .. Len(src) : src[i].id = id
    BY DEF Mirrors
  <2> DEFINE Tables == [id : DB!Ids, cols : Seq([name : Columns, type : Types])]
  <2>2. src \in Seq(Tables)
    BY DEF Mirrors
  <2>3. src[i] \in Tables
    <3> HIDE DEF Tables
    <3> QED
      BY <2>2
  <2> QED
    BY <2>1, <2>3
<1> QED
  BY <1>1, SourcesAssumption DEF DB!Ids

(***************************************************************************)
(* What changes no table, and what only begins or ends an ALTER TABLE.     *)
(***************************************************************************)
LEMMA MirrorsStill ==
  ASSUME Mirrors, UNCHANGED <<src, t, catalog, altered>>
  PROVE  Mirrors'
BY DEF Mirrors, DB!Ids

LEMMA MirrorsPointed ==
  ASSUME Mirrors, UNCHANGED <<src, catalog>>,
         \/ t' = 0 /\ altered' = NoTable
         \/ \E id : t' = List!Table(id)
                    /\ altered' = IF id \in DOMAIN catalog THEN id ELSE NoTable
  PROVE  Mirrors'
<1>0. Len(src) \in Nat
  BY DEF Mirrors
<1>1. /\ t' \in 0 .. Len(src) /\ (t' = 0 <=> altered' = NoTable)
      /\ t' # 0 => src[t'].id = altered'
  <2>1. CASE t' = 0 /\ altered' = NoTable
    BY <1>0, <2>1
  <2>2. ASSUME NEW id, t' = List!Table(id),
               altered' = IF id \in DOMAIN catalog THEN id ELSE NoTable
        PROVE  /\ t' \in 0 .. Len(src) /\ (t' = 0 <=> altered' = NoTable)
               /\ t' # 0 => src[t'].id = altered'
    BY <2>2, MirroredFound, MirroredIds
  <2> QED
    BY <2>1, <2>2
<1> QED
  BY <1>1 DEF Mirrors, DB!Ids

(***************************************************************************)
(* A table added by both, dropped by both, renamed by both, and one whose  *)
(* columns are changed by both.                                            *)
(***************************************************************************)
LEMMA MirrorsAdded ==
  ASSUME Mirrors, NEW id \in DB!Ids, id \notin DOMAIN catalog,
         NEW cols, NEW content, Matches(cols, content),
         t = 0, UNCHANGED <<t, altered>>,
         src' = List!AppendTable(id, cols), catalog' = DB!With(catalog, id, content)
  PROVE  Mirrors'
<1> DEFINE Tables == [id : DB!Ids, cols : Seq([name : Columns, type : Types])]
           new == [id |-> id, cols |-> cols]
<1>1. src \in Seq(Tables)
  BY DEF Mirrors
<1>2. new \in Tables /\ new.id = id /\ new.cols = cols
  BY DEF Matches
<1>3. src' = Append(src, new)
  BY DEF List!AppendTable
<1> HIDE DEF Tables, new
<1>4. /\ src' \in Seq(Tables) /\ Len(src') = Len(src) + 1 /\ Len(src) \in Nat
      /\ src'[Len(src) + 1] = new /\ \A i \in 1 .. Len(src) : src'[i] = src[i]
  BY <1>1, <1>2, <1>3
<1>5. /\ DOMAIN catalog' = DOMAIN catalog \cup {id}
      /\ catalog' = [x \in DOMAIN catalog' |-> catalog'[x]]
      /\ catalog'[id] = content /\ \A x \in DOMAIN catalog : catalog'[x] = catalog[x]
  BY DEF DB!With
<1>6. \A i \in 1 .. Len(src) : src[i].id # id
  BY DEF Mirrors
<1>7. ASSUME NEW i \in 1 .. Len(src'), NEW j \in 1 .. Len(src'), src'[i].id = src'[j].id
      PROVE  i = j
  <2>1. \A x, y \in 1 .. Len(src) : src[x].id = src[y].id => x = y
    BY DEF Mirrors
  <2>2. \A x \in 1 .. Len(src') : x \in 1 .. Len(src) \/ x = Len(src) + 1
    BY <1>4
  <2> QED
    BY <1>2, <1>4, <1>6, <1>7, <2>1, <2>2
<1>8. ASSUME NEW i \in 1 .. Len(src')
      PROVE  src'[i].id \in DOMAIN catalog' /\ Matches(src'[i].cols, catalog'[src'[i].id])
  <2>1. CASE i \in 1 .. Len(src)
    BY <1>4, <1>5, <2>1 DEF Mirrors
  <2>2. CASE i = Len(src) + 1
    BY <1>2, <1>4, <1>5, <2>2
  <2> QED
    BY <1>4, <2>1, <2>2
<1>9. ASSUME NEW x \in DOMAIN catalog'
      PROVE  \E i \in 1 .. Len(src') : src'[i].id = x
  <2>1. CASE x = id
    BY <1>2, <1>4, <2>1
  <2>2. CASE x # id
    <3>1. PICK i \in 1 .. Len(src) : src[i].id = x
      BY <1>5, <2>2 DEF Mirrors
    <3> QED
      BY <1>4, <3>1
  <2> QED
    BY <2>1, <2>2
<1>10. t' = 0 /\ altered' = NoTable
  BY DEF Mirrors
<1> QED
  BY <1>4, <1>5, <1>7, <1>8, <1>9, <1>10 DEF Mirrors, Tables, DB!Ids

LEMMA MirrorsDropped ==
  ASSUME Mirrors, NEW id, t = 0, UNCHANGED <<t, altered>>,
         src' = List!RemoveTable(id), catalog' = DB!Without(catalog, id)
  PROVE  Mirrors'
<1> DEFINE Tables == [id : DB!Ids, cols : Seq([name : Columns, type : Types])]
<1>0. PICK n : n = List!Table(id)
  OBVIOUS
<1>1. src \in Seq(Tables) /\ Len(src) \in Nat
  BY DEF Mirrors
<1>2. /\ n \in 0 .. Len(src) /\ (n = 0 <=> id \notin DOMAIN catalog)
      /\ n # 0 => src[n].id = id
  BY <1>0, MirroredFound
<1>3. src' = IF n = 0 THEN src ELSE RemoveAt(src, n)
  BY <1>0 DEF List!RemoveTable, List!RemoveAt, RemoveAt
<1>4. /\ DOMAIN catalog' = DOMAIN catalog \ {id}
      /\ catalog' = [x \in DOMAIN catalog' |-> catalog'[x]]
      /\ \A x \in DOMAIN catalog' : catalog'[x] = catalog[x]
  BY DEF DB!Without
<1>5. t' = 0 /\ altered' = NoTable
  BY DEF Mirrors
<1> HIDE DEF Tables
<1>6. CASE n = 0
  <2>1. src' = src
    BY <1>3, <1>6
  <2>2. catalog = [x \in DOMAIN catalog |-> catalog[x]]
    BY DEF Mirrors
  <2>3. catalog' = catalog
    BY <1>2, <1>4, <1>6, <2>2
  <2> QED
    BY <2>1, <2>3, MirrorsStill
<1>7. CASE n # 0
  <2>1. n \in 1 .. Len(src) /\ src' = RemoveAt(src, n)
    BY <1>1, <1>2, <1>3, <1>7
  <2>2. src' \in Seq(Tables) /\ TakenOut(src', src, n)
    BY <1>1, <2>1, RemoveAtTakesOut
  <2>4. ASSUME NEW i \in 1 .. Len(src'), NEW j \in 1 .. Len(src'),
               src'[i].id = src'[j].id
        PROVE  i = j
    <3>1. PICK p, q \in 1 .. Len(src) :
            src'[i] = src[p] /\ src'[j] = src[q] /\ (p = q <=> i = j)
      BY <2>2 DEF TakenOut
    <3> QED
      BY <2>4, <3>1 DEF Mirrors
  <2>5. ASSUME NEW i \in 1 .. Len(src')
        PROVE  src'[i].id \in DOMAIN catalog' /\ Matches(src'[i].cols, catalog'[src'[i].id])
    <3>1. PICK p \in 1 .. Len(src) : p # n /\ src'[i] = src[p]
      BY <2>2 DEF TakenOut
    <3>2. src[p].id # id
      BY <1>2, <1>7, <2>1, <3>1 DEF Mirrors
    <3> QED
      BY <1>4, <3>1, <3>2 DEF Mirrors
  <2>6. ASSUME NEW x \in DOMAIN catalog'
        PROVE  \E i \in 1 .. Len(src') : src'[i].id = x
    <3>1. PICK p \in 1 .. Len(src) : src[p].id = x /\ p # n
      BY <1>2, <1>4, <1>7 DEF Mirrors
    <3> QED
      BY <2>2, <3>1 DEF TakenOut
  <2>7. 0 \in 0 .. Len(src')
    BY <2>2
  <2> QED
    BY <1>4, <1>5, <2>2, <2>4, <2>5, <2>6, <2>7 DEF Mirrors, Tables, Matches, DB!Ids
<1> QED
  BY <1>6, <1>7

LEMMA MirrorsRenamed ==
  ASSUME Mirrors, NEW k \in 1 .. Len(src), NEW to \in DB!Ids, to \notin DOMAIN catalog,
         src' = [src EXCEPT ![k].id = to], catalog' = DB!Renamed(src[k].id, to),
         t' = t, altered' = IF t = k THEN to ELSE altered
  PROVE  Mirrors'
<1> DEFINE Tables == [id : DB!Ids, cols : Seq([name : Columns, type : Types])]
           id == src[k].id
           moved == [src[k] EXCEPT !.id = to]
<1>0. src \in Seq(Tables) /\ Len(src) \in Nat
  BY DEF Mirrors
<1>1. src \in Seq(Tables) /\ Len(src) \in Nat /\ src[k] \in Tables
  <2> HIDE DEF Tables
  <2> QED
    BY <1>0
<1>2. moved \in Tables /\ moved.id = to /\ moved.cols = src[k].cols
  BY <1>1
<1>3. src' = [src EXCEPT ![k] = moved]
  OBVIOUS
<1> HIDE DEF Tables, moved
<1>4. /\ src' \in Seq(Tables) /\ Len(src') = Len(src)
      /\ src'[k] = moved /\ \A i \in 1 .. Len(src) : i # k => src'[i] = src[i]
  BY <1>1, <1>2, <1>3
<1>5. id \in DOMAIN catalog
  BY DEF Mirrors
<1>6. /\ DOMAIN catalog' = (DOMAIN catalog \ {id}) \cup {to}
      /\ catalog' = [x \in DOMAIN catalog' |-> catalog'[x]]
      /\ catalog'[to] = catalog[id]
      /\ \A x \in DOMAIN catalog' : x # to => catalog'[x] = catalog[x]
  BY DEF DB!Renamed, DB!With, DB!Without
<1>7. \A i \in 1 .. Len(src) : i # k => src[i].id # to /\ src[i].id # id
  <2>1. \A i \in 1 .. Len(src) : src[i].id \in DOMAIN catalog
    BY DEF Mirrors
  <2>2. \A i, j \in 1 .. Len(src) : src[i].id = src[j].id => i = j
    BY DEF Mirrors
  <2> QED
    BY <2>1, <2>2
<1> HIDE DEF id
<1>8. ASSUME NEW i \in 1 .. Len(src'), NEW j \in 1 .. Len(src'), src'[i].id = src'[j].id
      PROVE  i = j
  <2>1. \A x, y \in 1 .. Len(src) : src[x].id = src[y].id => x = y
    BY DEF Mirrors
  <2>2. \A x \in 1 .. Len(src) : src'[x].id = to <=> x = k
    BY <1>2, <1>4, <1>7
  <2> QED
    BY <1>4, <1>8, <2>1, <2>2
<1>9. ASSUME NEW i \in 1 .. Len(src')
      PROVE  src'[i].id \in DOMAIN catalog' /\ Matches(src'[i].cols, catalog'[src'[i].id])
  <2>1. CASE i = k
    BY <1>2, <1>4, <1>6, <2>1 DEF Mirrors, id
  <2>2. CASE i # k
    BY <1>4, <1>6, <1>7, <2>2 DEF Mirrors
  <2> QED
    BY <2>1, <2>2
<1>10. ASSUME NEW x \in DOMAIN catalog'
       PROVE  \E i \in 1 .. Len(src') : src'[i].id = x
  <2>1. CASE x = to
    BY <1>2, <1>4, <2>1
  <2>2. CASE x # to
    <3>1. x \in DOMAIN catalog /\ x # id
      BY <1>6, <2>2
    <3>2. PICK i \in 1 .. Len(src) : src[i].id = x /\ i # k
      BY <3>1 DEF Mirrors, id
    <3> QED
      BY <1>4, <3>2
  <2> QED
    BY <2>1, <2>2
<1>11. /\ t' \in 0 .. Len(src') /\ (t' = 0 <=> altered' = NoTable)
       /\ t' # 0 => src'[t'].id = altered'
  <2>1. to # NoTable
    BY SourcesAssumption DEF DB!Ids
  <2>2. CASE t = k
    BY <1>1, <1>2, <1>4, <2>1, <2>2
  <2>3. CASE t # k
    BY <1>1, <1>4, <2>3 DEF Mirrors
  <2> QED
    BY <2>2, <2>3
<1> QED
  BY <1>4, <1>6, <1>8, <1>9, <1>10, <1>11 DEF Mirrors, Tables, Matches, DB!Ids

LEMMA MirrorsAltered ==
  ASSUME Mirrors, t # 0, NEW cols, NEW content, Matches(cols, content),
         List!SetColumns(cols), DB!Alter(content)
  PROVE  Mirrors'
<1> DEFINE Tables == [id : DB!Ids, cols : Seq([name : Columns, type : Types])]
           changed == [src[t] EXCEPT !.cols = cols]
<1>0. src \in Seq(Tables) /\ Len(src) \in Nat /\ t \in 1 .. Len(src)
  BY DEF Mirrors
<1>1. src[t] \in Tables /\ src[t].id = altered /\ altered \in DOMAIN catalog
  <2>1. src[t] \in Tables
    <3> HIDE DEF Tables
    <3> QED
      BY <1>0
  <2> QED
    BY <1>0, <2>1 DEF Mirrors
<1>2. changed \in Tables /\ changed.id = altered /\ changed.cols = cols
  BY <1>1 DEF Matches
<1>3. src' = [src EXCEPT ![t] = changed] /\ t' = t
  BY DEF List!SetColumns
<1> HIDE DEF Tables, changed
<1>4. /\ src' \in Seq(Tables) /\ Len(src') = Len(src)
      /\ src'[t] = changed /\ \A i \in 1 .. Len(src) : i # t => src'[i] = src[i]
  BY <1>0, <1>1, <1>2, <1>3
<1>5. /\ DOMAIN catalog' = DOMAIN catalog
      /\ catalog' = [x \in DOMAIN catalog' |-> catalog'[x]]
      /\ catalog'[altered] = content
      /\ \A x \in DOMAIN catalog : x # altered => catalog'[x] = catalog[x]
      /\ altered' = altered
  <2>1. catalog' = [catalog EXCEPT ![altered] = content] /\ altered' = altered
    BY DEF DB!Alter
  <2>2. catalog = [x \in DOMAIN catalog |-> catalog[x]]
    BY DEF Mirrors
  <2> QED
    BY <1>1, <2>1, <2>2
<1>6. \A i \in 1 .. Len(src) : src'[i].id = src[i].id
  BY <1>0, <1>1, <1>2, <1>4
<1>7. ASSUME NEW i \in 1 .. Len(src')
      PROVE  src'[i].id \in DOMAIN catalog' /\ Matches(src'[i].cols, catalog'[src'[i].id])
  <2>1. CASE i = t
    BY <1>0, <1>1, <1>2, <1>4, <1>5, <2>1
  <2>2. CASE i # t
    BY <1>0, <1>1, <1>4, <1>5, <2>2 DEF Mirrors
  <2> QED
    BY <2>1, <2>2
<1>8. /\ \A i, j \in 1 .. Len(src') : src'[i].id = src'[j].id => i = j
      /\ \A x \in DOMAIN catalog' : \E i \in 1 .. Len(src') : src'[i].id = x
  BY <1>4, <1>5, <1>6 DEF Mirrors
<1>9. /\ t' \in 0 .. Len(src') /\ (t' = 0 <=> altered' = NoTable)
      /\ t' # 0 => src'[t'].id = altered'
  BY <1>0, <1>1, <1>3, <1>4, <1>5, <1>6 DEF Mirrors
<1> QED
  BY <1>4, <1>5, <1>7, <1>8, <1>9 DEF Mirrors, Tables, Matches, DB!Ids

-----------------------------------------------------------------------------

(***************************************************************************)
(* Both readers look tables and columns up as the list does, and change it *)
(* the same way.                                                           *)
(***************************************************************************)
LEMMA SameLookups ==
  /\ \A id : Pg!Table(id) = List!Table(id) /\ My!Table(id) = List!Table(id)
  /\ \A cols, c : /\ Pg!ColumnIn(cols, c) = List!ColumnIn(cols, c)
                  /\ My!ColumnIn(cols, c) = List!ColumnIn(cols, c)
  /\ \A c : /\ Pg!InAltered(c) = List!ColumnIn(src[t].cols, c)
            /\ My!InAltered(c) = List!ColumnIn(src[t].cols, c)
<1>1. ASSUME NEW id
      PROVE  Pg!Table(id) = List!Table(id) /\ My!Table(id) = List!Table(id)
  BY Zenon DEF Pg!Table, My!Table, List!Table, Pg!SelectInSeq, My!SelectInSeq,
     List!SelectInSeq, Pg!Min, My!Min, List!Min
<1>2. ASSUME NEW cols, NEW c
      PROVE  /\ Pg!ColumnIn(cols, c) = List!ColumnIn(cols, c)
             /\ My!ColumnIn(cols, c) = List!ColumnIn(cols, c)
  BY Zenon DEF Pg!ColumnIn, My!ColumnIn, List!ColumnIn, Pg!SelectInSeq, My!SelectInSeq,
     List!SelectInSeq, Pg!Min, My!Min, List!Min
<1> QED
  BY <1>1, <1>2 DEF Pg!InAltered, My!InAltered

LEMMA SameTables ==
  \A id : /\ Pg!RemoveTable(id) = List!RemoveTable(id)
          /\ My!RemoveTable(id) = List!RemoveTable(id)
          /\ \A cols : /\ Pg!AppendTable(id, cols) = List!AppendTable(id, cols)
                       /\ My!AppendTable(id, cols) = List!AppendTable(id, cols)
BY SameLookups DEF Pg!RemoveTable, My!RemoveTable, List!RemoveTable,
   Pg!RemoveAt, My!RemoveAt, List!RemoveAt,
   Pg!AppendTable, My!AppendTable, List!AppendTable

LEMMA SameColumns ==
  \A cols, c :
    /\ Pg!RemoveColumn(cols, c) = List!RemoveColumn(cols, c)
    /\ My!RemoveColumn(cols, c) = List!RemoveColumn(cols, c)
    /\ \A type : Pg!Column(c, type) = List!Column(c, type)
                 /\ My!Column(c, type) = List!Column(c, type)
    /\ \A n : Pg!ReplaceAt(cols, n, c) = List!ReplaceAt(cols, n, c)
              /\ My!ReplaceAt(cols, n, c) = List!ReplaceAt(cols, n, c)
              /\ My!InsertAt(cols, n, c) = List!InsertAt(cols, n, c)
BY SameLookups DEF Pg!RemoveColumn, My!RemoveColumn, List!RemoveColumn,
   Pg!RemoveAt, My!RemoveAt, List!RemoveAt, Pg!Column, My!Column, List!Column,
   Pg!ReplaceAt, My!ReplaceAt, List!ReplaceAt, My!InsertAt, List!InsertAt

-----------------------------------------------------------------------------

(***************************************************************************)
(* A name the reader can place is the name the database means.             *)
(***************************************************************************)
SessionInv ==
  /\ dialect \in {"postgres", "mysql"}
  /\ session \in Schemas
  /\ Postgres => session = DefaultSchema
  /\ NeverTheWrongDatabase

LEMMA Named ==
  ASSUME SessionInv, NEW name \in Written
  PROVE  /\ Meant(name) \in DB!Ids
         /\ Postgres => Pg!SplitQualified(name) = Meant(name)
         /\ MySQL /\ My!Placed(name) => My!Qualified(name) = Meant(name)
         /\ ~Postgres => MySQL
<1>1. name = <<name[1], name[2]>> /\ name[1] \in Schemas \cup {Unqualified}
      /\ name[2] \in Names
  BY DEF Written
<1> QED
  BY <1>1 DEF SessionInv, Meant, DB!Ids, Postgres, MySQL, Pg!SplitQualified,
     My!Placed, My!Qualified, NeverTheWrongDatabase

(***************************************************************************)
(* A statement of a down half is neither run nor read.                     *)
(***************************************************************************)
LEMMA CreateMirrors ==
  ASSUME Mirrors, t = 0, NEW id \in DB!Ids, NEW guarded,
         NEW cols, NEW content, Matches(cols, content), DB!Create(id, content, guarded),
         src' = IF List!Table(id) = 0 THEN List!AppendTable(id, cols) ELSE src,
         t' = t
  PROVE  Mirrors'
<1>1. CASE id \in DOMAIN catalog
  BY <1>1, MirroredFound, MirrorsStill DEF DB!Create
<1>2. CASE id \notin DOMAIN catalog
  BY <1>2, MirroredFound, MirrorsAdded DEF DB!Create
<1> QED
  BY <1>1, <1>2

LEMMA CreateTableMirrors ==
  ASSUME HalvesAgree, SessionInv, Mirrors, CreateTable
  PROVE  failed' \/ Mirrors'
<1>1. PICK name \in Written, cols \in ColumnLists, guarded \in BOOLEAN :
        /\ Between
        /\ Meet(DB!Create(Meant(name), Contents(cols), guarded),
                IF Postgres THEN InPg(Pg!CreateTable(name, cols))
                            ELSE My!CreateTable(name, cols))
  BY DEF CreateTable
<1>2. CASE half # "up"
  BY <1>1, <1>2, MirrorsStill DEF HalvesAgree, Meet, Halves!Runs, Halves!Read, dbVars,
     readerVars
<1>3. CASE half = "up"
  <2>1. /\ DB!Create(Meant(name), Contents(cols), guarded)
        /\ IF Postgres THEN InPg(Pg!CreateTable(name, cols)) ELSE My!CreateTable(name, cols)
        /\ t = 0
    BY <1>1, <1>3 DEF HalvesAgree, Meet, Halves!Runs, Halves!Read, Between
  <2>2. Matches(cols, Contents(cols)) /\ Meant(name) \in DB!Ids
    BY MatchingWritten, Named
  <2>3. \/ failed'
        \/ /\ src' = IF List!Table(Meant(name)) = 0
                     THEN List!AppendTable(Meant(name), cols) ELSE src
           /\ t' = t
    <3>1. CASE Postgres
      BY <2>1, <3>1, Named, SameLookups, SameTables DEF InPg, Pg!CreateTable
    <3>2. CASE ~Postgres
      BY <2>1, <3>2, Named, SameLookups, SameTables DEF My!CreateTable, My!Stop
    <3> QED
      BY <3>1, <3>2
  <2> QED
    BY <2>1, <2>2, <2>3, CreateMirrors
<1> QED
  BY <1>2, <1>3

LEMMA CreateUnlistedMirrors ==
  ASSUME SessionInv, Mirrors, CreateUnlisted, TRUE \notin Parentheses
  PROVE  failed' \/ Mirrors'
<1>1. PICK name \in Written, parenthesis \in Parentheses :
        Meet(UNCHANGED dbVars,
             IF Postgres THEN InPg(Pg!CreateUnlisted(name, parenthesis))
                         ELSE My!CreateUnlisted(name, parenthesis))
  BY DEF CreateUnlisted
<1>2. ~parenthesis
  BY SourcesAssumption
<1>3. UNCHANGED <<catalog, altered>>
  BY <1>1 DEF Meet, dbVars
<1>4. failed' \/ UNCHANGED <<src, t>>
  BY <1>1, <1>2 DEF Meet, InPg, Pg!CreateUnlisted, Pg!listVars, My!CreateUnlisted, My!Stop,
     My!readerVars, My!listVars, readerVars
<1> QED
  BY <1>3, <1>4, MirrorsStill

LEMMA CreateLikeMirrors ==
  ASSUME HalvesAgree, SessionInv, Mirrors, CreateLike
  PROVE  failed' \/ Mirrors'
<1>1. PICK name \in Written, like \in Written, guarded \in BOOLEAN :
        /\ Between /\ MySQL
        /\ Meet(DB!CreateLike(Meant(name), Meant(like), guarded),
                My!CreateLike(name, like))
  BY DEF CreateLike
<1>2. CASE half # "up"
  BY <1>1, <1>2, MirrorsStill DEF HalvesAgree, Meet, Halves!Runs, Halves!Read, dbVars,
     readerVars
<1>3. CASE half = "up"
  <2>1. /\ DB!CreateLike(Meant(name), Meant(like), guarded)
        /\ My!CreateLike(name, like)
        /\ t = 0
    BY <1>1, <1>3 DEF HalvesAgree, Meet, Halves!Runs, Halves!Read, Between
  <2> DEFINE id == Meant(name)
             from == Meant(like)
             n == List!Table(from)
  <2>2. id \in DB!Ids /\ from \in DOMAIN catalog
    BY <2>1, Named DEF DB!CreateLike
  <2>3. n \in 1 .. Len(src) /\ src[n].id = from
    <3>1. n \in 0 .. Len(src) /\ n # 0 /\ src[n].id = from /\ Len(src) \in Nat
      BY <2>2, MirroredFound DEF Mirrors
    <3> HIDE DEF n
    <3> QED
      BY <3>1
  <2>4. Matches(src[n].cols, catalog[from]) /\ DB!Create(id, catalog[from], guarded)
    BY <2>1, <2>3 DEF Mirrors, DB!CreateLike
  <2>5. \/ failed'
        \/ /\ src' = IF List!Table(id) = 0
                     THEN List!AppendTable(id, src[n].cols) ELSE src
           /\ t' = t
    <3>1. /\ \A x : My!Table(x) = List!Table(x)
          /\ \A x, cols : My!AppendTable(x, cols) = List!AppendTable(x, cols)
      BY SameLookups, SameTables
    <3>2. /\ My!Placed(name) => My!Qualified(name) = id
          /\ My!Placed(like) => My!Qualified(like) = from
      BY <1>1, Named
    <3>3. n # 0
      BY <2>3
    <3> HIDE DEF id, from, n
    <3>4. n = List!Table(from)
      BY DEF n
    <3> QED
      BY <2>1, <3>1, <3>2, <3>3, <3>4
      DEF My!CreateLike, My!Stop, My!readerVars, My!listVars
  <2> QED
    BY <2>1, <2>2, <2>4, <2>5, CreateMirrors
<1> QED
  BY <1>2, <1>3

LEMMA DropTableMirrors ==
  ASSUME HalvesAgree, SessionInv, Mirrors, DropTable
  PROVE  failed' \/ Mirrors'
<1>1. PICK name \in Written, guarded \in BOOLEAN :
        /\ Between
        /\ Meet(DB!Drop(Meant(name), guarded),
                IF Postgres THEN InPg(Pg!DropTable(name)) ELSE My!DropTable(name))
  BY DEF DropTable
<1>2. CASE half # "up"
  BY <1>1, <1>2, MirrorsStill DEF HalvesAgree, Meet, Halves!Runs, Halves!Read, dbVars,
     readerVars
<1>3. CASE half = "up"
  <2>1. /\ DB!Drop(Meant(name), guarded)
        /\ IF Postgres THEN InPg(Pg!DropTable(name)) ELSE My!DropTable(name)
        /\ t = 0
    BY <1>1, <1>3 DEF HalvesAgree, Meet, Halves!Runs, Halves!Read, Between
  <2>2. failed' \/ (src' = List!RemoveTable(Meant(name)) /\ t' = t)
    <3>1. CASE Postgres
      BY <2>1, <3>1, Named, SameTables DEF InPg, Pg!DropTable
    <3>2. CASE ~Postgres
      BY <2>1, <3>2, Named, SameTables DEF My!DropTable, My!Stop
    <3> QED
      BY <3>1, <3>2
  <2> QED
    BY <2>1, <2>2, MirrorsDropped DEF DB!Drop
<1> QED
  BY <1>2, <1>3

LEMMA RenameTableMirrors ==
  ASSUME HalvesAgree, SessionInv, Mirrors, RenameTable
  PROVE  failed' \/ Mirrors'
<1>1. PICK name \in Written, to \in Written, guarded \in BOOLEAN :
        /\ Between /\ MySQL
        /\ Meet(DB!Rename(Meant(name), Meant(to), guarded), My!RenameTable(name, to))
  BY DEF RenameTable
<1>2. CASE half # "up"
  BY <1>1, <1>2, MirrorsStill DEF HalvesAgree, Meet, Halves!Runs, Halves!Read, dbVars,
     readerVars
<1>3. CASE half = "up"
  <2>1. /\ DB!Rename(Meant(name), Meant(to), guarded)
        /\ My!RenameTable(name, to)
        /\ t = 0
    BY <1>1, <1>3 DEF HalvesAgree, Meet, Halves!Runs, Halves!Read, Between
  <2> DEFINE id == Meant(name)
             k == List!Table(id)
  <2>2. /\ Meant(to) \in DB!Ids
        /\ My!Placed(name) => My!Qualified(name) = id
        /\ My!Placed(to) => My!Qualified(to) = Meant(to)
    BY <1>1, Named
  <2>3. CASE id \in DOMAIN catalog
    <3>1. k \in 0 .. Len(src) /\ k # 0 /\ src[k].id = id /\ Len(src) \in Nat
      BY <2>3, MirroredFound DEF Mirrors
    <3>2. /\ Meant(to) \notin DOMAIN catalog /\ UNCHANGED altered
          /\ catalog' = DB!Renamed(id, Meant(to))
      BY <2>1, <2>3 DEF DB!Rename
    <3>3. failed' \/ (src' = [src EXCEPT ![k].id = Meant(to)] /\ t' = t)
      BY <2>1, <2>2, <3>1, SameLookups DEF My!RenameTable, My!Stop, My!MoveTable
    <3> HIDE DEF k, id
    <3>4. k \in 1 .. Len(src) /\ t # k
      BY <2>1, <3>1
    <3> QED
      BY <2>2, <3>1, <3>2, <3>3, <3>4, MirrorsRenamed
  <2>4. CASE id \notin DOMAIN catalog
    <3>1. UNCHANGED <<catalog, altered>>
      BY <2>1, <2>4 DEF DB!Rename
    <3>2. k = 0
      BY <2>4, MirroredFound
    <3>3. failed' \/ UNCHANGED <<src, t>>
      BY <2>1, <2>2, <3>2, SameLookups
      DEF My!RenameTable, My!Stop, My!readerVars, My!listVars
    <3> QED
      BY <3>1, <3>3, MirrorsStill
  <2> QED
    BY <2>3, <2>4
<1> QED
  BY <1>2, <1>3

-----------------------------------------------------------------------------

(***************************************************************************)
(* The table being altered, in the list and in the database.               *)
(***************************************************************************)
LEMMA AlteredMatches ==
  ASSUME Mirrors, t # 0
  PROVE  /\ t \in 1 .. Len(src) /\ altered \in DOMAIN catalog /\ altered # NoTable
         /\ altered \in DB!Ids /\ src[t].id = altered
         /\ Matches(src[t].cols, catalog[altered])
<1>1. t \in 1 .. Len(src)
  BY DEF Mirrors
<1> QED
  BY <1>1, MirroredIds DEF Mirrors

LEMMA AddMirrors ==
  ASSUME Mirrors, t # 0, NEW c \in Columns, NEW type \in Types, NEW guarded,
         DB!AddColumn(c, type, guarded),
         NEW after \in Seq([name : Columns, type : Types]), NEW at,
         PutIn(after, src[t].cols, at, List!Column(c, type)),
         IF List!ColumnIn(src[t].cols, c) = 0 THEN List!SetColumns(after)
                                              ELSE UNCHANGED <<src, t>>
  PROVE  Mirrors'
<1>1. /\ altered \in DOMAIN catalog /\ Matches(src[t].cols, catalog[altered])
  BY AlteredMatches
<1>2. List!ColumnIn(src[t].cols, c) = 0 <=> ~DB!Has(c)
  BY <1>1, MatchingFound DEF DB!Has
<1>3. CASE DB!Has(c)
  <2>1. UNCHANGED <<catalog, altered, src, t>>
    BY <1>1, <1>2, <1>3 DEF DB!AddColumn, DB!Alter, Mirrors
  <2> QED
    BY <2>1, MirrorsStill
<1>4. CASE ~DB!Has(c)
  <2>1. DB!Alter(DB!With(catalog[altered], c, type)) /\ List!SetColumns(after)
    BY <1>2, <1>4 DEF DB!AddColumn
  <2>2. Matches(after, DB!With(catalog[altered], c, type))
    BY <1>1, <1>4, MatchingAdded DEF DB!Has
  <2> QED
    BY <2>1, <2>2, MirrorsAltered
<1> QED
  BY <1>3, <1>4

LEMMA ChangeMirrors ==
  ASSUME Mirrors, t # 0, NEW c, NEW d \in Columns, NEW type \in Types,
         DB!ChangeColumn(c, d, type),
         List!SetColumns(
           IF List!ColumnIn(src[t].cols, c) = 0 THEN src[t].cols
           ELSE List!ReplaceAt(src[t].cols, List!ColumnIn(src[t].cols, c),
                               List!Column(d, type)))
  PROVE  Mirrors'
<1>1. Matches(src[t].cols, catalog[altered])
  BY AlteredMatches
<1>2. c \in DOMAIN catalog[altered] /\ (d # c => d \notin DOMAIN catalog[altered])
  BY DEF DB!ChangeColumn, DB!Has
<1> DEFINE n == List!ColumnIn(src[t].cols, c)
           after == List!ReplaceAt(src[t].cols, n, List!Column(d, type))
           changed == DB!With(DB!Without(catalog[altered], c), d, type)
<1>3. n # 0 /\ Matches(after, changed)
  BY <1>1, <1>2, MatchingReplaced
<1>4. List!SetColumns(after)
  BY <1>3
<1>5. DB!Alter(changed)
  BY DEF DB!ChangeColumn
<1> HIDE DEF after, changed
<1> QED
  BY <1>3, <1>4, <1>5, MirrorsAltered

LEMMA BeginAlterMirrors ==
  ASSUME HalvesAgree, SessionInv, Mirrors, BeginAlter
  PROVE  failed' \/ Mirrors'
<1>1. PICK name \in Written, guarded \in BOOLEAN :
        Meet(DB!BeginAlter(Meant(name), guarded),
             IF Postgres THEN InPg(Pg!AlterStart(name)) ELSE My!AlterStart(name))
  BY DEF BeginAlter
<1>2. CASE half # "up"
  BY <1>1, <1>2, MirrorsStill DEF HalvesAgree, Meet, Halves!Runs, Halves!Read, dbVars,
     readerVars
<1>3. CASE half = "up"
  <2>1. /\ DB!BeginAlter(Meant(name), guarded)
        /\ IF Postgres THEN InPg(Pg!AlterStart(name)) ELSE My!AlterStart(name)
    BY <1>1, <1>3 DEF HalvesAgree, Meet, Halves!Runs, Halves!Read
  <2>2. failed' \/ (t' = List!Table(Meant(name)) /\ src' = src)
    <3>1. CASE Postgres
      BY <2>1, <3>1, Named, SameLookups DEF InPg, Pg!AlterStart, Pg!AlterTable
    <3>2. CASE ~Postgres
      BY <2>1, <3>2, Named, SameLookups DEF My!AlterStart, My!AlterTable, My!Stop
    <3> QED
      BY <3>1, <3>2
  <2> QED
    BY <2>1, <2>2, MirrorsPointed DEF DB!BeginAlter
<1> QED
  BY <1>2, <1>3

LEMMA EndAlterMirrors ==
  ASSUME HalvesAgree, Mirrors, EndAlter
  PROVE  Mirrors'
<1>1. Meet(DB!EndAlter, IF Postgres THEN InPg(List!AlterEnds) ELSE My!AlterDone)
  BY DEF EndAlter
<1>2. CASE half # "up"
  BY <1>1, <1>2, MirrorsStill DEF HalvesAgree, Meet, Halves!Runs, Halves!Read, dbVars,
     readerVars
<1>3. CASE half = "up"
  BY <1>1, <1>3, MirrorsPointed DEF HalvesAgree, Meet, Halves!Runs, Halves!Read,
     DB!EndAlter, InPg, List!AlterEnds, My!AlterDone, My!AlterEnds
<1> QED
  BY <1>2, <1>3

LEMMA AddColumnMirrors ==
  ASSUME HalvesAgree, Mirrors, AddColumn
  PROVE  Mirrors'
<1>1. PICK c \in Columns, type \in Types, guarded \in BOOLEAN,
           rest \in {<<>>} \cup {<<d>> : d \in Columns} :
        /\ t # 0
        /\ Meet(DB!AddColumn(c, type, guarded),
                IF Postgres THEN InPg(Pg!AddColumn(c, type, rest))
                ELSE \E at \in 1..Len(src[t].cols) + 1 : My!AddColumn(c, type, rest, at))
  BY DEF AddColumn, Acting
<1>2. CASE half # "up"
  BY <1>1, <1>2, MirrorsStill DEF HalvesAgree, Meet, Halves!Runs, Halves!Read, dbVars,
     readerVars
<1>3. CASE half = "up"
  <2>1. /\ DB!AddColumn(c, type, guarded)
        /\ IF Postgres THEN InPg(Pg!AddColumn(c, type, rest))
           ELSE \E at \in 1..Len(src[t].cols) + 1 : My!AddColumn(c, type, rest, at)
    BY <1>1, <1>3 DEF HalvesAgree, Meet, Halves!Runs, Halves!Read
  <2> DEFINE Cols == [name : Columns, type : Types]
             col == List!Column(c, type)
  <2>2. src[t].cols \in Seq(Cols)
    BY <1>1, AlteredMatches DEF Matches
  <2>3. col \in Cols
    BY DEF List!Column
  <2>4. CASE Postgres
    <3> DEFINE after == Append(src[t].cols, col)
    <3>1. after \in Seq(Cols) /\ PutIn(after, src[t].cols, Len(src[t].cols) + 1, col)
      <4> HIDE DEF Cols, col
      <4> QED
        BY <2>2, <2>3, AppendPutsIn
    <3>2. IF List!ColumnIn(src[t].cols, c) = 0 THEN List!SetColumns(after)
                                               ELSE UNCHANGED <<src, t>>
      BY <2>1, <2>4, SameLookups, SameColumns DEF InPg, Pg!AddColumn, Pg!SetColumns,
         List!SetColumns
    <3> HIDE DEF after
    <3> QED
      BY <1>1, <2>1, <3>1, <3>2, AddMirrors
  <2>5. CASE ~Postgres
    <3>1. PICK at \in 1..Len(src[t].cols) + 1 : My!AddColumn(c, type, rest, at)
      BY <2>1, <2>5
    <3> DEFINE after == List!InsertAt(src[t].cols, at, col)
    <3>2. after \in Seq(Cols) /\ PutIn(after, src[t].cols, at, col)
      <4>1. after = InsertAt(src[t].cols, at, col)
        BY DEF List!InsertAt, InsertAt
      <4> HIDE DEF Cols, col, after
      <4> QED
        BY <2>2, <2>3, <4>1, InsertAtPutsIn
    <3>3. IF List!ColumnIn(src[t].cols, c) = 0 THEN List!SetColumns(after)
                                               ELSE UNCHANGED <<src, t>>
      BY <3>1, SameLookups, SameColumns DEF My!AddColumn, My!SetColumns, List!SetColumns
    <3> HIDE DEF after
    <3> QED
      BY <1>1, <2>1, <3>2, <3>3, AddMirrors
  <2> QED
    BY <2>4, <2>5
<1> QED
  BY <1>2, <1>3

LEMMA DropColumnMirrors ==
  ASSUME HalvesAgree, Mirrors, DropColumn
  PROVE  Mirrors'
<1>1. PICK c \in Columns, guarded \in BOOLEAN :
        /\ t # 0
        /\ Meet(DB!DropColumn(c, guarded),
                IF Postgres THEN InPg(Pg!DropColumn(c)) ELSE My!DropColumn(c))
  BY DEF DropColumn, Acting
<1>2. CASE half # "up"
  BY <1>1, <1>2, MirrorsStill DEF HalvesAgree, Meet, Halves!Runs, Halves!Read, dbVars,
     readerVars
<1>3. CASE half = "up"
  <2>1. /\ DB!DropColumn(c, guarded)
        /\ IF Postgres THEN InPg(Pg!DropColumn(c)) ELSE My!DropColumn(c)
    BY <1>1, <1>3 DEF HalvesAgree, Meet, Halves!Runs, Halves!Read
  <2> DEFINE after == List!RemoveColumn(src[t].cols, c)
             shrunk == DB!Without(catalog[altered], c)
  <2>2. Matches(after, shrunk)
    BY <1>1, AlteredMatches, MatchingRemoved
  <2>3. List!SetColumns(after)
    BY <2>1, SameColumns DEF InPg, Pg!DropColumn, Pg!DropFound, Pg!SetColumns,
       My!DropColumn, My!DropFound, My!SetColumns, List!SetColumns
  <2>4. DB!Alter(shrunk)
    BY <2>1 DEF DB!DropColumn
  <2> HIDE DEF after, shrunk
  <2> QED
    BY <1>1, <2>2, <2>3, <2>4, MirrorsAltered
<1> QED
  BY <1>2, <1>3

LEMMA RenameColumnMirrors ==
  ASSUME HalvesAgree, Mirrors, RenameColumn
  PROVE  Mirrors'
<1>1. PICK c \in Columns, d \in Columns :
        /\ t # 0
        /\ Meet(DB!RenameColumn(c, d),
                IF Postgres THEN InPg(Pg!RenameColumn(c, d)) ELSE My!RenameColumn(c, d))
  BY DEF RenameColumn, Acting
<1>2. CASE half # "up"
  BY <1>1, <1>2, MirrorsStill DEF HalvesAgree, Meet, Halves!Runs, Halves!Read, dbVars,
     readerVars
<1>3. CASE half = "up"
  <2>1. /\ DB!RenameColumn(c, d)
        /\ IF Postgres THEN InPg(Pg!RenameColumn(c, d)) ELSE My!RenameColumn(c, d)
    BY <1>1, <1>3 DEF HalvesAgree, Meet, Halves!Runs, Halves!Read
  <2>2. Matches(src[t].cols, catalog[altered]) /\ c \in DOMAIN catalog[altered]
    BY <1>1, <2>1, AlteredMatches DEF DB!RenameColumn, DB!Has
  <2>3. PICK type : type = catalog[altered][c]
    OBVIOUS
  <2>4. PICK n : n = List!ColumnIn(src[t].cols, c)
    OBVIOUS
  <2>5. n # 0 /\ n \in 0 .. Len(src[t].cols) /\ src[t].cols[n].type = type
    BY <2>2, <2>3, <2>4, MatchingFound
  <2>6. type \in Types
    <3> DEFINE Cols == [name : Columns, type : Types]
    <3>1. src[t].cols \in Seq(Cols)
      BY <2>2 DEF Matches
    <3>2. n \in 1 .. Len(src[t].cols)
      BY <2>5, <3>1
    <3>3. src[t].cols[n] \in Cols
      <4> HIDE DEF Cols
      <4> QED
        BY <3>1, <3>2
    <3> QED
      BY <2>5, <3>3
  <2>7. List!SetColumns(List!ReplaceAt(src[t].cols, n, List!Column(d, type)))
    BY <2>1, <2>4, <2>5, SameLookups, SameColumns
    DEF InPg, Pg!RenameColumn, Pg!RenameFound, Pg!ReplaceFound, Pg!SetColumns,
        My!RenameColumn, My!RenameFound, My!ReplaceFound, My!SetColumns, List!SetColumns
  <2>8. DB!ChangeColumn(c, d, type)
    BY <2>1, <2>3 DEF DB!RenameColumn
  <2> QED
    BY <1>1, <2>4, <2>5, <2>6, <2>7, <2>8, ChangeMirrors
<1> QED
  BY <1>2, <1>3

LEMMA ChangeColumnMirrors ==
  ASSUME HalvesAgree, Mirrors, ChangeColumn
  PROVE  Mirrors'
<1>1. PICK c \in Columns, d \in Columns, type \in Types :
        /\ t # 0
        /\ Meet(DB!ChangeColumn(c, d, type), My!ChangeColumn(c, d, type))
  BY DEF ChangeColumn, Acting
<1>2. CASE half # "up"
  BY <1>1, <1>2, MirrorsStill DEF HalvesAgree, Meet, Halves!Runs, Halves!Read, dbVars,
     readerVars
<1>3. CASE half = "up"
  <2>1. DB!ChangeColumn(c, d, type) /\ My!ChangeColumn(c, d, type)
    BY <1>1, <1>3 DEF HalvesAgree, Meet, Halves!Runs, Halves!Read
  <2>2. List!SetColumns(
          IF List!ColumnIn(src[t].cols, c) = 0 THEN src[t].cols
          ELSE List!ReplaceAt(src[t].cols, List!ColumnIn(src[t].cols, c),
                              List!Column(d, type)))
    BY <2>1, SameLookups, SameColumns
    DEF My!ChangeColumn, My!ReplaceFound, My!SetColumns, List!SetColumns
  <2> QED
    BY <1>1, <2>1, <2>2, ChangeMirrors
<1> QED
  BY <1>2, <1>3

LEMMA SetColumnTypeMirrors ==
  ASSUME HalvesAgree, Mirrors, SetColumnType
  PROVE  Mirrors'
<1>1. PICK c \in Columns, type \in Types :
        /\ t # 0
        /\ Meet(DB!SetType(c, type),
                IF Postgres THEN InPg(Pg!AlterColumnType(c, type))
                            ELSE My!ModifyColumn(c, type))
  BY DEF SetColumnType, Acting
<1>2. CASE half # "up"
  BY <1>1, <1>2, MirrorsStill DEF HalvesAgree, Meet, Halves!Runs, Halves!Read, dbVars,
     readerVars
<1>3. CASE half = "up"
  <2>1. /\ DB!SetType(c, type)
        /\ IF Postgres THEN InPg(Pg!AlterColumnType(c, type)) ELSE My!ModifyColumn(c, type)
    BY <1>1, <1>3 DEF HalvesAgree, Meet, Halves!Runs, Halves!Read
  <2>2. List!SetColumns(
          IF List!ColumnIn(src[t].cols, c) = 0 THEN src[t].cols
          ELSE List!ReplaceAt(src[t].cols, List!ColumnIn(src[t].cols, c),
                              List!Column(c, type)))
    BY <2>1, SameLookups, SameColumns
    DEF InPg, Pg!AlterColumnType, Pg!ReplaceFound, Pg!SetColumns,
        My!ModifyColumn, My!ReplaceFound, My!SetColumns, List!SetColumns
  <2>3. DB!With(DB!Without(catalog[altered], c), c, type)
        = DB!With(catalog[altered], c, type)
    BY DEF DB!With, DB!Without
  <2>4. DB!ChangeColumn(c, c, type)
    BY <2>1, <2>3 DEF DB!SetType, DB!ChangeColumn
  <2> QED
    BY <1>1, <2>2, <2>4, ChangeMirrors
<1> QED
  BY <1>2, <1>3

LEMMA RenameAlteredMirrors ==
  ASSUME HalvesAgree, SessionInv, Mirrors, RenameAltered
  PROVE  failed' \/ Mirrors'
<1>0. t # 0
  BY DEF RenameAltered, Acting
<1>1. /\ t \in 1 .. Len(src) /\ altered \in DB!Ids /\ src[t].id = altered
  BY <1>0, AlteredMatches
<1>2. ASSUME NEW to \in DB!Ids, DB!RenameAltered(to),
             src' = [src EXCEPT ![t].id = to], t' = t
      PROVE  Mirrors'
  BY <1>1, <1>2, MirrorsRenamed DEF DB!RenameAltered
<1>3. CASE half # "up"
  BY <1>3, MirrorsStill DEF RenameAltered, HalvesAgree, Meet, Halves!Runs, Halves!Read,
     dbVars, readerVars
<1>4. CASE half = "up"
  <2>1. CASE Postgres
    <3>1. PICK n \in Names :
            Meet(DB!RenameAltered(<<altered[1], n>>), InPg(Pg!RenameTo(n)))
      BY <2>1 DEF RenameAltered, Postgres, MySQL
    <3>2. DB!RenameAltered(<<altered[1], n>>) /\ Pg!RenameTo(n)
      BY <1>4, <3>1 DEF HalvesAgree, Meet, Halves!Runs, Halves!Read, InPg
    <3>3. <<altered[1], n>> \in DB!Ids
      BY <1>1 DEF DB!Ids
    <3>4. src' = [src EXCEPT ![t].id = <<altered[1], n>>] /\ t' = t
      BY <1>1, <3>2 DEF Pg!RenameTo, Pg!MoveTable
    <3> QED
      BY <1>2, <3>2, <3>3, <3>4
  <2>2. CASE ~Postgres
    <3>1. PICK to \in Written :
            MySQL /\ Meet(DB!RenameAltered(Meant(to)), My!RenameAltered(to))
      BY <2>2 DEF RenameAltered
    <3>2. DB!RenameAltered(Meant(to)) /\ My!RenameAltered(to)
      BY <1>4, <3>1 DEF HalvesAgree, Meet, Halves!Runs, Halves!Read
    <3>3. \/ failed'
          \/ src' = [src EXCEPT ![t].id = Meant(to)] /\ t' = t
      BY <3>1, <3>2, Named DEF My!RenameAltered, My!MoveTable, My!Stop
    <3>4. Meant(to) \in DB!Ids
      BY Named
    <3> QED
      BY <1>2, <3>2, <3>3, <3>4
  <2> QED
    BY <2>1, <2>2
<1> QED
  BY <1>3, <1>4

-----------------------------------------------------------------------------

(***************************************************************************)
(* Only USE changes the schema of an unqualified name, and Postgres has    *)
(* none.                                                                   *)
(***************************************************************************)
LEMMA SessionKept ==
  ASSUME Next
  PROVE  UNCHANGED dialect /\ (UNCHANGED session \/ (MySQL /\ session' \in Schemas))
<1> USE DEF Meet, dbVars
<1>1. CASE CreateTable
  BY <1>1 DEF CreateTable, DB!Create
<1>2. CASE CreateUnlisted
  BY <1>2 DEF CreateUnlisted
<1>3. CASE CreateLike
  BY <1>3 DEF CreateLike, DB!CreateLike, DB!Create
<1>4. CASE DropTable
  BY <1>4 DEF DropTable, DB!Drop
<1>5. CASE RenameTable
  BY <1>5 DEF RenameTable, DB!Rename
<1>6. CASE UseDatabase
  BY <1>6 DEF UseDatabase, DB!Use
<1>7. CASE BeginAlter
  BY <1>7 DEF BeginAlter, DB!BeginAlter
<1>8. CASE EndAlter
  BY <1>8 DEF EndAlter, DB!EndAlter
<1>9. CASE AddColumn
  BY <1>9 DEF AddColumn, DB!AddColumn, DB!Alter
<1>10. CASE DropColumn
  BY <1>10 DEF DropColumn, DB!DropColumn, DB!Alter
<1>11. CASE RenameColumn
  BY <1>11 DEF RenameColumn, DB!RenameColumn, DB!ChangeColumn, DB!Alter
<1>12. CASE ChangeColumn
  BY <1>12 DEF ChangeColumn, DB!ChangeColumn, DB!Alter
<1>13. CASE SetColumnType
  BY <1>13 DEF SetColumnType, DB!SetType, DB!Alter
<1>14. CASE RenameAltered
  BY <1>14 DEF RenameAltered, DB!RenameAltered
<1>15. CASE NextFile \/ SectionMarker
  BY <1>15 DEF NextFile, SectionMarker
<1> QED
  BY <1>1, <1>2, <1>3, <1>4, <1>5, <1>6, <1>7, <1>8, <1>9, <1>10, <1>11, <1>12, <1>13,
     <1>14, <1>15 DEF Next

LEMMA SessionStep ==
  ASSUME DatabaseInv, SessionInv, [Next]_vars
  PROVE  DatabaseInv' /\ SessionInv'
<1>1. DatabaseInv'
  BY DatabaseStep
<1>2. UNCHANGED dialect /\ (UNCHANGED session \/ (MySQL /\ session' \in Schemas))
  BY SessionKept DEF vars, dbVars
<1> QED
  BY <1>1, <1>2 DEF DatabaseInv, SessionInv, Postgres, MySQL

LEMMA SessionInit ==
  Init => DatabaseInv /\ SessionInv
<1>1. Init => DatabaseInv
  BY DatabaseInit
<1>2. Init => SessionInv
  BY <1>1, SourcesAssumption DEF Init, SessionInv, DB!CatalogInit, Postgres, DatabaseInv
<1> QED
  BY <1>1, <1>2


(***************************************************************************)
(* Once the reader has given up it reads nothing more.                     *)
(***************************************************************************)
LEMMA StaysFailed ==
  ASSUME Next, failed
  PROVE  UNCHANGED <<dbVars, readerVars>>
BY DEF Next, CreateTable, CreateUnlisted, CreateLike, DropTable, RenameTable, UseDatabase,
   BeginAlter, EndAlter, AddColumn, DropColumn, RenameColumn, ChangeColumn, SetColumnType,
   RenameAltered, NextFile, SectionMarker, Meet

LEMMA SchemaStep ==
  ASSUME DatabaseInv, SessionInv, failed \/ Mirrors, TRUE \notin Parentheses,
         [Next]_vars
  PROVE  failed' \/ Mirrors'
<1>0. HalvesAgree
  BY DEF DatabaseInv
<1>1. CASE UNCHANGED vars
  BY <1>1, MirrorsStill DEF vars, dbVars, readerVars
<1>2. CASE failed /\ Next
  BY <1>2, StaysFailed DEF readerVars
<1>3. CASE Mirrors /\ UseDatabase
  <2>1. PICK s \in Schemas : Meet(DB!Use(s), My!UseDatabase(s))
    BY <1>3 DEF UseDatabase
  <2>2. UNCHANGED <<src, t, catalog, altered>>
    BY <2>1 DEF Meet, DB!Use, My!UseDatabase, My!listVars, dbVars, readerVars
  <2> QED
    BY <1>3, <2>2, MirrorsStill
<1>4. CASE Mirrors /\ (NextFile \/ SectionMarker)
  BY <1>4, MirrorsStill DEF NextFile, SectionMarker, dbVars, readerVars
<1>5. CASE Mirrors /\ Next /\ ~UseDatabase /\ ~NextFile /\ ~SectionMarker
  BY <1>0, <1>5, CreateTableMirrors, CreateUnlistedMirrors, CreateLikeMirrors,
     DropTableMirrors, RenameTableMirrors, BeginAlterMirrors, EndAlterMirrors,
     AddColumnMirrors, DropColumnMirrors, RenameColumnMirrors, ChangeColumnMirrors,
     SetColumnTypeMirrors, RenameAlteredMirrors DEF Next
<1> QED
  BY <1>1, <1>2, <1>3, <1>4, <1>5

(***************************************************************************)
(* What the rules are judged against is what the database holds, whatever  *)
(* migrations it accepts, for either dialect and any names: unless the     *)
(* MySQL reader has given up, the list of tables the reader builds is the  *)
(* catalog, table by table and column by column. The migrations have no    *)
(* CREATE TABLE without a column list whose other clauses have a           *)
(* parenthesis: the readers take that parenthesis for the list.            *)
(***************************************************************************)
THEOREM SchemaRead ==
  ASSUME TRUE \notin Parentheses
  PROVE  Spec => []SchemaIsTheDatabases
<1> DEFINE Inv == DatabaseInv /\ SessionInv /\ (failed \/ Mirrors)
<1>1. Init => Inv
  <2>1. Init => Mirrors
    BY DEF Init, Mirrors, DB!CatalogInit, List!ListInit
  <2> QED
    BY <2>1, SessionInit
<1>2. Inv /\ [Next]_vars => Inv'
  BY SessionStep, SchemaStep
<1>3. Inv => SchemaIsTheDatabases
  BY MirrorsShow DEF SchemaIsTheDatabases
<1> QED
  BY <1>1, <1>2, <1>3, PTL DEF Spec

-----------------------------------------------------------------------------

(***************************************************************************)
(* The list's types, with the columns a reader may invent.                 *)
(***************************************************************************)
Entry == [name : Columns \cup {Invented}, type : Types \cup {Invented}]

ListTyped ==
  /\ src \in Seq([id : DB!Ids, cols : Seq(Entry)])
  /\ t \in 0 .. Len(src)

LEMMA TypedAppended ==
  ASSUME ListTyped, NEW id \in DB!Ids, NEW cols \in Seq(Entry),
         src' = List!AppendTable(id, cols), t' = t
  PROVE  ListTyped'
<1> DEFINE Tables == [id : DB!Ids, cols : Seq(Entry)]
           new == [id |-> id, cols |-> cols]
<1>1. src \in Seq(Tables) /\ new \in Tables /\ src' = Append(src, new)
  BY DEF ListTyped, List!AppendTable
<1> HIDE DEF Tables, new
<1>2. src' \in Seq(Tables) /\ Len(src') = Len(src) + 1 /\ Len(src) \in Nat
  BY <1>1
<1>3. t' \in 0 .. Len(src')
  BY <1>2 DEF ListTyped
<1> QED
  BY <1>2, <1>3 DEF ListTyped, Tables, Entry, DB!Ids

LEMMA TypedDropped ==
  ASSUME ListTyped, t = 0, NEW id, src' = List!RemoveTable(id), t' = t
  PROVE  ListTyped'
<1> DEFINE Tables == [id : DB!Ids, cols : Seq(Entry)]
<1>0. PICK n : n = List!Table(id)
  OBVIOUS
<1>1. src \in Seq(Tables)
  BY DEF ListTyped
<1> HIDE DEF Tables
<1>2. n \in 0 .. Len(src) /\ Len(src) \in Nat
  BY <1>0, <1>1, TablePlace
<1>3. src' = IF n = 0 THEN src ELSE RemoveAt(src, n)
  BY <1>0 DEF List!RemoveTable, List!RemoveAt, RemoveAt
<1>4. src' \in Seq(Tables)
  <2>1. n # 0 => n \in 1 .. Len(src)
    BY <1>2
  <2> QED
    BY <1>1, <1>3, <2>1, RemoveAtTakesOut
<1>5. t' \in 0 .. Len(src')
  BY <1>4
<1> QED
  BY <1>4, <1>5 DEF ListTyped, Tables, Entry, DB!Ids

LEMMA TypedMoved ==
  ASSUME ListTyped, NEW k \in 1 .. Len(src), NEW to \in DB!Ids,
         src' = [src EXCEPT ![k].id = to], t' = t
  PROVE  ListTyped'
<1> DEFINE Tables == [id : DB!Ids, cols : Seq(Entry)]
           moved == [src[k] EXCEPT !.id = to]
<1>1. src \in Seq(Tables)
  BY DEF ListTyped
<1>2. src[k] \in Tables
  <2> HIDE DEF Tables
  <2> QED
    BY <1>1
<1>3. moved \in Tables /\ src' = [src EXCEPT ![k] = moved]
  BY <1>2
<1> HIDE DEF Tables, moved
<1>4. src' \in Seq(Tables) /\ Len(src') = Len(src)
  BY <1>1, <1>3
<1> QED
  BY <1>4 DEF ListTyped, Tables, Entry, DB!Ids

LEMMA TypedColumns ==
  ASSUME ListTyped, t # 0, NEW cols \in Seq(Entry), List!SetColumns(cols)
  PROVE  ListTyped'
<1> DEFINE Tables == [id : DB!Ids, cols : Seq(Entry)]
           changed == [src[t] EXCEPT !.cols = cols]
<1>1. src \in Seq(Tables) /\ t \in 1 .. Len(src)
  BY DEF ListTyped
<1>2. src[t] \in Tables
  <2> HIDE DEF Tables
  <2> QED
    BY <1>1
<1>3. changed \in Tables /\ src' = [src EXCEPT ![t] = changed] /\ t' = t
  BY <1>2 DEF List!SetColumns
<1> HIDE DEF Tables, changed
<1>4. src' \in Seq(Tables) /\ Len(src') = Len(src)
  BY <1>1, <1>3
<1> QED
  BY <1>3, <1>4 DEF ListTyped, Tables, Entry, DB!Ids

LEMMA TypedPointed ==
  ASSUME ListTyped, src' = src, t' \in {0, t} \/ \E id : t' = List!Table(id)
  PROVE  ListTyped'
<1>1. Len(src) \in Nat
  BY DEF ListTyped
<1>2. \A id : List!Table(id) \in 0 .. Len(src)
  <2>1. src \in Seq([id : DB!Ids, cols : Seq(Entry)])
    BY DEF ListTyped
  <2> QED
    BY <2>1, TablePlace, Zenon
<1> QED
  BY <1>1, <1>2 DEF ListTyped, Entry, DB!Ids

(***************************************************************************)
(* The table an ALTER TABLE is about has columns of the right types, and   *)
(* so do the columns each part leaves it.                                  *)
(***************************************************************************)
LEMMA TypedAltered ==
  ASSUME ListTyped, t # 0
  PROVE  /\ t \in 1 .. Len(src) /\ src[t].id \in DB!Ids /\ src[t].cols \in Seq(Entry)
         /\ \A c : List!RemoveColumn(src[t].cols, c) \in Seq(Entry)
         /\ \A c : LET n == List!ColumnIn(src[t].cols, c)
                   IN  /\ n # 0 => /\ n \in 1 .. Len(src[t].cols)
                                   /\ src[t].cols[n].type \in Types \cup {Invented}
                       /\ \A col \in Entry :
                            n # 0 => List!ReplaceAt(src[t].cols, n, col) \in Seq(Entry)
<1> DEFINE Tables == [id : DB!Ids, cols : Seq(Entry)]
<1>1. src \in Seq(Tables) /\ t \in 1 .. Len(src)
  BY DEF ListTyped
<1>2. src[t] \in Tables
  <2> HIDE DEF Tables
  <2> QED
    BY <1>1
<1>3. PICK cols : cols = src[t].cols
  OBVIOUS
<1>4. src[t].id \in DB!Ids /\ cols \in Seq(Entry)
  BY <1>2, <1>3
<1> HIDE DEF Tables
<1>5. ASSUME NEW c, NEW n, n = List!ColumnIn(cols, c), n # 0
      PROVE  n \in 1 .. Len(cols) /\ cols[n].type \in Types \cup {Invented}
  <2>1. n \in 1 .. Len(cols)
    <3>1. n \in 0 .. Len(cols) /\ Len(cols) \in Nat
      BY <1>4, <1>5, ColumnPlace
    <3> QED
      BY <1>5, <3>1
  <2>2. cols[n] \in Entry
    BY <1>4, <2>1
  <2> QED
    BY <2>1, <2>2 DEF Entry
<1>6. ASSUME NEW c
      PROVE  List!RemoveColumn(cols, c) \in Seq(Entry)
  <2>1. PICK n : n = List!ColumnIn(cols, c)
    OBVIOUS
  <2>2. List!RemoveColumn(cols, c) = IF n = 0 THEN cols ELSE RemoveAt(cols, n)
    BY <2>1 DEF List!RemoveColumn, List!RemoveAt, RemoveAt
  <2> QED
    BY <1>4, <1>5, <2>1, <2>2, RemoveAtTakesOut
<1>7. ASSUME NEW c, NEW n, n = List!ColumnIn(cols, c), n # 0, NEW col \in Entry
      PROVE  List!ReplaceAt(cols, n, col) \in Seq(Entry)
  <2>1. n \in 1 .. Len(cols)
    BY <1>5, <1>7
  <2> QED
    BY <1>4, <2>1 DEF List!ReplaceAt
<1> QED
  BY <1>1, <1>3, <1>4, <1>5, <1>6, <1>7

-----------------------------------------------------------------------------

LEMMA TypedWritten ==
  ASSUME NEW cols \in ColumnLists
  PROVE  cols \in Seq(Entry)
<1> DEFINE Cols == [name : Columns, type : Types]
<1>1. cols \in Seq(Cols) /\ Cols \subseteq Entry
  BY SourcesAssumption DEF Entry
<1> HIDE DEF Cols
<1>2. Len(cols) \in Nat /\ cols \in [1 .. Len(cols) -> Entry]
  BY <1>1
<1> QED
  BY <1>2

LEMMA TypedInvented == <<List!Column(Invented, Invented)>> \in Seq(Entry)
BY DEF List!Column, Entry

LEMMA TypedCreate ==
  ASSUME ListTyped, NEW id \in DB!Ids, NEW cols \in Seq(Entry),
         src' = IF List!Table(id) = 0 THEN List!AppendTable(id, cols) ELSE src,
         t' = t
  PROVE  ListTyped'
BY TypedAppended, TypedPointed

(***************************************************************************)
(* What each statement leaves the list as.                                 *)
(***************************************************************************)
LEMMA TypedTables ==
  ASSUME SessionInv, ListTyped,
         CreateTable \/ CreateUnlisted \/ CreateLike \/ DropTable \/ RenameTable
  PROVE  ListTyped'
<1>0. UNCHANGED <<src, t>> => ListTyped'
  BY TypedPointed
<1>1. CASE CreateTable
  <2>1. PICK name \in Written, cols \in ColumnLists :
          \/ UNCHANGED <<src, t>>
          \/ IF Postgres THEN InPg(Pg!CreateTable(name, cols)) ELSE My!CreateTable(name, cols)
    BY <1>1 DEF CreateTable, Meet, readerVars
  <2>2. \/ UNCHANGED <<src, t>>
        \/ /\ src' = IF List!Table(Meant(name)) = 0
                     THEN List!AppendTable(Meant(name), cols) ELSE src
           /\ t' = t
    BY <2>1, Named, SameLookups, SameTables
    DEF InPg, Pg!CreateTable, My!CreateTable, My!Stop, My!listVars
  <2> QED
    BY <1>0, <2>2, Named, TypedWritten, TypedCreate
<1>2. CASE CreateUnlisted
  <2>1. PICK name \in Written, parenthesis \in Parentheses :
          \/ UNCHANGED <<src, t>>
          \/ IF Postgres THEN InPg(Pg!CreateUnlisted(name, parenthesis))
                         ELSE My!CreateUnlisted(name, parenthesis)
    BY <1>2 DEF CreateUnlisted, Meet, readerVars
  <2> DEFINE cols == <<List!Column(Invented, Invented)>>
  <2>2. /\ <<Pg!Column(Invented, Invented)>> = cols
        /\ <<My!Column(Invented, Invented)>> = cols
    BY SameColumns
  <2>3. \/ UNCHANGED <<src, t>>
        \/ IF Postgres THEN Pg!CreateTable(name, cols) ELSE My!CreateTable(name, cols)
    BY <2>1, <2>2 DEF InPg, Pg!CreateUnlisted, My!CreateUnlisted, My!Stop, My!listVars,
       Pg!listVars, My!readerVars
  <2> HIDE DEF cols
  <2>4. \/ UNCHANGED <<src, t>>
        \/ /\ src' = IF List!Table(Meant(name)) = 0
                     THEN List!AppendTable(Meant(name), cols) ELSE src
           /\ t' = t
    BY <2>3, Named, SameLookups, SameTables
    DEF Pg!CreateTable, My!CreateTable, My!Stop, My!listVars
  <2> QED
    BY <1>0, <2>4, Named, TypedInvented, TypedCreate DEF cols
<1>3. CASE CreateLike
  <2>1. PICK name \in Written, like \in Written :
          MySQL /\ (UNCHANGED <<src, t>> \/ My!CreateLike(name, like))
    BY <1>3 DEF CreateLike, Meet, readerVars
  <2>2. PICK n : n = List!Table(My!Qualified(like))
    OBVIOUS
  <2>3. \/ UNCHANGED <<src, t>>
        \/ /\ n # 0 /\ My!Placed(name)
           /\ src' = List!AppendTable(My!Qualified(name), src[n].cols)
           /\ t' = t
    BY <2>1, <2>2, SameLookups, SameTables
    DEF My!CreateLike, My!Stop, My!listVars, My!readerVars
  <2>4. ASSUME n # 0
        PROVE  src[n].cols \in Seq(Entry)
    <3> DEFINE Tables == [id : DB!Ids, cols : Seq(Entry)]
    <3>1. src \in Seq(Tables)
      BY DEF ListTyped
    <3>2. src[n] \in Tables
      <4> HIDE DEF Tables
      <4>1. n \in 0 .. Len(src) /\ Len(src) \in Nat
        BY <2>2, <3>1, TablePlace
      <4> QED
        BY <2>4, <3>1, <4>1
    <3> QED
      BY <3>2
  <2> QED
    BY <1>0, <2>1, <2>3, <2>4, Named, TypedAppended
<1>4. CASE DropTable
  <2>1. PICK name \in Written :
          \/ UNCHANGED <<src, t>>
          \/ IF Postgres THEN InPg(Pg!DropTable(name)) ELSE My!DropTable(name)
    BY <1>4 DEF DropTable, Meet, readerVars
  <2>2. t = 0
    BY <1>4 DEF DropTable, Between
  <2>3. \/ UNCHANGED <<src, t>>
        \/ \E id : src' = List!RemoveTable(id) /\ t' = t
    BY <2>1, SameTables DEF InPg, Pg!DropTable, My!DropTable, My!Stop, My!listVars
  <2> QED
    BY <1>0, <2>2, <2>3, TypedDropped
<1>5. CASE RenameTable
  <2>1. PICK name \in Written, to \in Written :
          MySQL /\ (UNCHANGED <<src, t>> \/ My!RenameTable(name, to))
    BY <1>5 DEF RenameTable, Meet, readerVars
  <2>2. PICK k : k = List!Table(My!Qualified(name))
    OBVIOUS
  <2>3. \/ UNCHANGED <<src, t>>
        \/ /\ k # 0 /\ My!Placed(to)
           /\ src' = [src EXCEPT ![k].id = My!Qualified(to)] /\ t' = t
    BY <2>1, <2>2, SameLookups
    DEF My!RenameTable, My!Stop, My!listVars, My!readerVars, My!MoveTable
  <2>4. k # 0 => k \in 1 .. Len(src)
    <3>1. src \in Seq([id : DB!Ids, cols : Seq(Entry)]) /\ Len(src) \in Nat
      BY DEF ListTyped
    <3>2. k \in 0 .. Len(src)
      BY <2>2, <3>1, TablePlace, Zenon
    <3> QED
      BY <3>1, <3>2
  <2> QED
    BY <1>0, <2>1, <2>3, <2>4, Named, TypedMoved
<1> QED
  BY <1>1, <1>2, <1>3, <1>4, <1>5

LEMMA TypedAlters ==
  ASSUME SessionInv, ListTyped,
         \/ BeginAlter \/ EndAlter \/ AddColumn \/ DropColumn \/ RenameColumn
         \/ ChangeColumn \/ SetColumnType \/ RenameAltered
  PROVE  ListTyped'
<1>0. UNCHANGED <<src, t>> => ListTyped'
  BY TypedPointed
<1>1. CASE BeginAlter
  <2>1. PICK name \in Written :
          \/ UNCHANGED <<src, t>>
          \/ IF Postgres THEN InPg(Pg!AlterStart(name)) ELSE My!AlterStart(name)
    BY <1>1 DEF BeginAlter, Meet, readerVars
  <2>2. UNCHANGED <<src, t>> \/ (src' = src /\ \E id : t' = List!Table(id))
    BY <2>1, SameLookups DEF InPg, Pg!AlterStart, Pg!AlterTable, My!AlterStart,
       My!AlterTable, My!Stop, My!listVars
  <2> QED
    BY <1>0, <2>2, TypedPointed
<1>2. CASE EndAlter
  <2>1. src' = src /\ t' \in {0, t}
    BY <1>2 DEF EndAlter, Meet, readerVars, InPg, List!AlterEnds, My!AlterDone, My!AlterEnds
  <2> QED
    BY <2>1, TypedPointed
<1>3. CASE AddColumn
  <2>1. PICK c \in Columns, type \in Types, rest \in {<<>>} \cup {<<d>> : d \in Columns} :
          /\ t # 0
          /\ \/ UNCHANGED <<src, t>>
             \/ IF Postgres THEN InPg(Pg!AddColumn(c, type, rest))
                ELSE \E at \in 1..Len(src[t].cols) + 1 : My!AddColumn(c, type, rest, at)
    BY <1>3 DEF AddColumn, Acting, Meet, readerVars
  <2>0. List!Column(c, type) \in Entry
    BY <2>1 DEF List!Column, Entry
  <2>2. PICK col : col = List!Column(c, type) /\ col \in Entry
    BY <2>0
  <2>3. \/ UNCHANGED <<src, t>>
        \/ List!SetColumns(Append(src[t].cols, col))
        \/ \E at \in 1..Len(src[t].cols) + 1 :
             List!SetColumns(InsertAt(src[t].cols, at, col))
    BY <2>1, <2>2, SameColumns DEF InPg, Pg!AddColumn, Pg!SetColumns, My!AddColumn,
       My!SetColumns, List!SetColumns, List!InsertAt, InsertAt
  <2>4. src[t].cols \in Seq(Entry)
    BY <2>1, TypedAltered
  <2>5. Append(src[t].cols, col) \in Seq(Entry)
    BY <2>2, <2>4
  <2>6. \A at \in 1..Len(src[t].cols) + 1 : InsertAt(src[t].cols, at, col) \in Seq(Entry)
    BY <2>2, <2>4, InsertAtPutsIn
  <2> QED
    BY <1>0, <2>1, <2>3, <2>5, <2>6, TypedColumns
<1>4. CASE DropColumn
  <2>1. PICK c \in Columns :
          /\ t # 0
          /\ \/ UNCHANGED <<src, t>>
             \/ IF Postgres THEN InPg(Pg!DropColumn(c)) ELSE My!DropColumn(c)
    BY <1>4 DEF DropColumn, Acting, Meet, readerVars
  <2>2. UNCHANGED <<src, t>> \/ List!SetColumns(List!RemoveColumn(src[t].cols, c))
    BY <2>1, SameColumns DEF InPg, Pg!DropColumn, Pg!DropFound, Pg!SetColumns,
       My!DropColumn, My!DropFound, My!SetColumns, List!SetColumns
  <2> QED
    BY <1>0, <2>1, <2>2, TypedAltered, TypedColumns
<1>5. CASE RenameColumn \/ ChangeColumn \/ SetColumnType
  <2>0. t # 0
    BY <1>5 DEF RenameColumn, ChangeColumn, SetColumnType, Acting
  <2> DEFINE Replaced(c, col) ==
               List!SetColumns(
                 IF List!ColumnIn(src[t].cols, c) = 0 THEN src[t].cols
                 ELSE List!ReplaceAt(src[t].cols, List!ColumnIn(src[t].cols, c), col))
  <2>1. ASSUME NEW c, NEW col, Replaced(c, col),
               List!ColumnIn(src[t].cols, c) # 0 => col \in Entry
        PROVE  ListTyped'
    <3>1. CASE List!ColumnIn(src[t].cols, c) = 0
      <4>1. List!SetColumns(src[t].cols)
        BY <2>1, <3>1
      <4> QED
        BY <2>0, <4>1, TypedAltered, TypedColumns
    <3>2. CASE List!ColumnIn(src[t].cols, c) # 0
      <4>1. List!SetColumns(List!ReplaceAt(src[t].cols, List!ColumnIn(src[t].cols, c), col))
        BY <2>1, <3>2
      <4>2. List!ReplaceAt(src[t].cols, List!ColumnIn(src[t].cols, c), col) \in Seq(Entry)
        BY <2>0, <2>1, <3>2, TypedAltered
      <4> QED
        BY <2>0, <4>1, <4>2, TypedColumns
    <3> QED
      BY <3>1, <3>2
  <2>2. ASSUME NEW d \in Columns, NEW type \in Types \cup {Invented}
        PROVE  List!Column(d, type) \in Entry
    BY DEF List!Column, Entry
  <2>3. CASE RenameColumn
    <3>1. PICK c \in Columns, d \in Columns :
            \/ UNCHANGED <<src, t>>
            \/ IF Postgres THEN InPg(Pg!RenameColumn(c, d)) ELSE My!RenameColumn(c, d)
      BY <2>3 DEF RenameColumn, Meet, readerVars
    <3>2. PICK n : n = List!ColumnIn(src[t].cols, c)
      OBVIOUS
    <3>3. PICK kept : kept = IF n = 0 THEN Invented ELSE src[t].cols[n].type
      OBVIOUS
    <3>4. UNCHANGED <<src, t>> \/ Replaced(c, List!Column(d, kept))
      BY <3>1, <3>2, <3>3, SameLookups, SameColumns
      DEF InPg, Pg!RenameColumn, Pg!RenameFound, Pg!ReplaceFound, Pg!SetColumns,
          My!RenameColumn, My!RenameFound, My!ReplaceFound, My!SetColumns, List!SetColumns
    <3>5. kept \in Types \cup {Invented}
      BY <2>0, <3>2, <3>3, TypedAltered
    <3> HIDE DEF Replaced
    <3> QED
      BY <1>0, <2>1, <2>2, <3>4, <3>5
  <2>4. CASE ChangeColumn
    <3>1. PICK c \in Columns, d \in Columns, type \in Types :
            UNCHANGED <<src, t>> \/ My!ChangeColumn(c, d, type)
      BY <2>4 DEF ChangeColumn, Meet, readerVars
    <3>2. UNCHANGED <<src, t>> \/ Replaced(c, List!Column(d, type))
      BY <3>1, SameLookups, SameColumns
      DEF My!ChangeColumn, My!ReplaceFound, My!SetColumns, List!SetColumns
    <3> HIDE DEF Replaced
    <3> QED
      BY <1>0, <2>1, <2>2, <3>2
  <2>5. CASE SetColumnType
    <3>1. PICK c \in Columns, type \in Types :
            \/ UNCHANGED <<src, t>>
            \/ IF Postgres THEN InPg(Pg!AlterColumnType(c, type)) ELSE My!ModifyColumn(c, type)
      BY <2>5 DEF SetColumnType, Meet, readerVars
    <3>2. UNCHANGED <<src, t>> \/ Replaced(c, List!Column(c, type))
      BY <3>1, SameLookups, SameColumns
      DEF InPg, Pg!AlterColumnType, Pg!ReplaceFound, Pg!SetColumns,
          My!ModifyColumn, My!ReplaceFound, My!SetColumns, List!SetColumns
    <3> HIDE DEF Replaced
    <3> QED
      BY <1>0, <2>1, <2>2, <3>2
  <2> QED
    BY <1>5, <2>3, <2>4, <2>5
<1>6. CASE RenameAltered
  <2>1. /\ t # 0
        /\ \/ UNCHANGED <<src, t>>
           \/ Postgres /\ \E n \in Names : Pg!RenameTo(n)
           \/ MySQL /\ \E to \in Written : My!RenameAltered(to)
    BY <1>6 DEF RenameAltered, Acting, Meet, readerVars, InPg
  <2>2. t \in 1 .. Len(src) /\ src[t].id \in DB!Ids
    BY <2>1, TypedAltered
  <2>3. CASE Postgres /\ \E n \in Names : Pg!RenameTo(n)
    <3>1. PICK n \in Names : Pg!RenameTo(n)
      BY <2>3
    <3>2. /\ src' = [src EXCEPT ![t].id = <<src[t].id[1], n>>] /\ t' = t
          /\ <<src[t].id[1], n>> \in DB!Ids
      BY <2>2, <3>1 DEF Pg!RenameTo, Pg!MoveTable, DB!Ids
    <3> QED
      BY <2>2, <3>2, TypedMoved
  <2>4. CASE MySQL /\ \E to \in Written : My!RenameAltered(to)
    <3>1. PICK to \in Written : My!RenameAltered(to)
      BY <2>4
    <3>2. \/ UNCHANGED <<src, t>>
          \/ /\ src' = [src EXCEPT ![t].id = My!Qualified(to)] /\ t' = t
             /\ My!Qualified(to) \in DB!Ids
      BY <2>4, <3>1, Named DEF My!RenameAltered, My!MoveTable, My!Stop, My!listVars
    <3> QED
      BY <1>0, <2>2, <3>2, TypedMoved
  <2> QED
    BY <1>0, <2>1, <2>3, <2>4
<1> QED
  BY <1>1, <1>2, <1>3, <1>4, <1>5, <1>6

LEMMA TypedLists ==
  ASSUME SessionInv, ListTyped, [Next]_vars
  PROVE  ListTyped'
<1>1. CASE UNCHANGED <<src, t>>
  BY <1>1, TypedPointed
<1>2. CASE UseDatabase \/ NextFile \/ SectionMarker
  <2>1. UNCHANGED <<src, t>>
    BY <1>2 DEF UseDatabase, NextFile, SectionMarker, Meet, readerVars, My!UseDatabase,
       My!listVars
  <2> QED
    BY <2>1, <1>1
<1> QED
  BY <1>1, <1>2, TypedTables, TypedAlters DEF Next, vars, readerVars

-----------------------------------------------------------------------------

(***************************************************************************)
(* The catalog's types.                                                    *)
(***************************************************************************)
Content(f) == DOMAIN f \subseteq Columns /\ f \in [DOMAIN f -> Types]

CatalogOf(f) == DOMAIN f \subseteq DB!Ids /\ \A id \in DOMAIN f : Content(f[id])

LEMMA ContentsTyped ==
  ASSUME NEW cols \in ColumnLists
  PROVE  Content(Contents(cols))
<1> DEFINE Cols == [name : Columns, type : Types]
           named == {cols[i].name : i \in DOMAIN cols}
<1>1. cols \in Seq(Cols)
  BY SourcesAssumption
<1>2. \A i \in DOMAIN cols : cols[i] \in Cols
  <2> HIDE DEF Cols
  <2> QED
    BY <1>1
<1>3. named \subseteq Columns
  BY <1>2
<1>4. ASSUME NEW c \in named
      PROVE  cols[CHOOSE i \in DOMAIN cols : cols[i].name = c].type \in Types
  <2>1. (CHOOSE i \in DOMAIN cols : cols[i].name = c) \in DOMAIN cols
    BY <1>4
  <2> QED
    BY <1>2, <2>1
<1> QED
  BY <1>3, <1>4 DEF Contents, Content

LEMMA ContentAltered ==
  ASSUME NEW f, Content(f)
  PROVE  /\ \A c \in Columns, type \in Types : Content(DB!With(f, c, type))
         /\ \A c : Content(DB!Without(f, c))
         /\ \A c \in DOMAIN f : f[c] \in Types
BY DEF Content, DB!With, DB!Without

LEMMA CatalogAltered ==
  ASSUME NEW f, CatalogOf(f)
  PROVE  /\ \A id \in DB!Ids : \A g : Content(g) => CatalogOf(DB!With(f, id, g))
         /\ \A id : CatalogOf(DB!Without(f, id))
         /\ \A id \in DOMAIN f : Content(f[id])
         /\ \A id, g : Content(g) => CatalogOf([f EXCEPT ![id] = g])
BY DEF CatalogOf, DB!With, DB!Without

LEMMA CatalogRenamed ==
  ASSUME CatalogOf(catalog), NEW id \in DOMAIN catalog, NEW to \in DB!Ids
  PROVE  CatalogOf(DB!Renamed(id, to)) /\ to \in DOMAIN DB!Renamed(id, to)
<1>1. PICK rest : rest = DB!Without(catalog, id)
  OBVIOUS
<1>2. CatalogOf(rest) /\ Content(catalog[id])
  BY <1>1, CatalogAltered
<1>3. CatalogOf(DB!With(rest, to, catalog[id])) /\ to \in DOMAIN DB!With(rest, to, catalog[id])
  BY <1>2, CatalogAltered DEF DB!With
<1> QED
  BY <1>1, <1>3 DEF DB!Renamed

(***************************************************************************)
(* What the database is left with by a statement on a whole table.         *)
(***************************************************************************)
LEMMA CatalogTables ==
  ASSUME SessionInv, DB!CatalogTypeOK,
         CreateTable \/ CreateUnlisted \/ CreateLike \/ DropTable \/ RenameTable
           \/ UseDatabase \/ BeginAlter \/ EndAlter
  PROVE  CatalogOf(catalog') /\ altered' \in DOMAIN catalog' \cup {NoTable}
<1>0. CatalogOf(catalog) /\ altered \in DOMAIN catalog \cup {NoTable}
  BY DEF DB!CatalogTypeOK, CatalogOf, Content
<1>1. CASE CreateTable
  <2>1. PICK name \in Written, cols \in ColumnLists :
          \/ UNCHANGED dbVars
          \/ \E guarded \in BOOLEAN : DB!Create(Meant(name), Contents(cols), guarded)
    BY <1>1 DEF CreateTable, Meet
  <2>2. Meant(name) \in DB!Ids
    BY Named
  <2>3. CatalogOf(DB!With(catalog, Meant(name), Contents(cols)))
    BY <1>0, <2>2, ContentsTyped, CatalogAltered
  <2> QED
    BY <1>0, <2>1, <2>3 DEF DB!Create, dbVars
<1>2. CASE CreateUnlisted
  BY <1>0, <1>2 DEF CreateUnlisted, Meet, dbVars
<1>3. CASE CreateLike
  <2>1. PICK name \in Written, like \in Written :
          \/ UNCHANGED dbVars
          \/ \E guarded \in BOOLEAN : DB!CreateLike(Meant(name), Meant(like), guarded)
    BY <1>3 DEF CreateLike, Meet
  <2>2. Meant(name) \in DB!Ids
    BY Named
  <2>3. Meant(like) \in DOMAIN catalog =>
          CatalogOf(DB!With(catalog, Meant(name), catalog[Meant(like)]))
    BY <1>0, <2>2, CatalogAltered
  <2> QED
    BY <1>0, <2>1, <2>3 DEF DB!Create, DB!CreateLike, dbVars
<1>4. CASE DropTable
  <2>1. PICK name \in Written :
          UNCHANGED dbVars \/ \E guarded \in BOOLEAN : DB!Drop(Meant(name), guarded)
    BY <1>4 DEF DropTable, Meet
  <2>2. CatalogOf(DB!Without(catalog, Meant(name)))
    BY <1>0, CatalogAltered
  <2> QED
    BY <1>0, <2>1, <2>2 DEF DB!Drop, dbVars
<1>5. CASE RenameTable
  <2>1. PICK name \in Written, to \in Written :
          \/ UNCHANGED dbVars
          \/ \E guarded \in BOOLEAN : DB!Rename(Meant(name), Meant(to), guarded)
    BY <1>5 DEF RenameTable, Meet
  <2>2. Meant(to) \in DB!Ids
    BY Named
  <2>3. Meant(name) \in DOMAIN catalog => CatalogOf(DB!Renamed(Meant(name), Meant(to)))
    BY <1>0, <2>2, CatalogRenamed
  <2> QED
    BY <1>0, <2>1, <2>3 DEF DB!Rename, dbVars
<1>6. CASE UseDatabase
  BY <1>0, <1>6 DEF UseDatabase, Meet, dbVars, DB!Use
<1>7. CASE BeginAlter
  BY <1>0, <1>7 DEF BeginAlter, Meet, dbVars, DB!BeginAlter
<1>8. CASE EndAlter
  BY <1>0, <1>8 DEF EndAlter, Meet, dbVars, DB!EndAlter
<1> QED
  BY <1>1, <1>2, <1>3, <1>4, <1>5, <1>6, <1>7, <1>8

(***************************************************************************)
(* And by an action of an ALTER TABLE.                                     *)
(***************************************************************************)
LEMMA CatalogColumns ==
  ASSUME SessionInv, DB!CatalogTypeOK,
         \/ AddColumn \/ DropColumn \/ RenameColumn \/ ChangeColumn \/ SetColumnType
         \/ RenameAltered
  PROVE  CatalogOf(catalog') /\ altered' \in DOMAIN catalog' \cup {NoTable}
<1>0. CatalogOf(catalog) /\ altered \in DOMAIN catalog \cup {NoTable}
  BY DEF DB!CatalogTypeOK, CatalogOf, Content
<1>1. ASSUME altered # NoTable, NEW g, Content(g), DB!Alter(g)
      PROVE  CatalogOf(catalog') /\ altered' \in DOMAIN catalog' \cup {NoTable}
  BY <1>0, <1>1, CatalogAltered DEF DB!Alter
<1>2. altered # NoTable => Content(catalog[altered])
  BY <1>0, CatalogAltered
<1>3. \A c \in Columns, d \in Columns, type \in Types :
        altered # NoTable => Content(DB!With(DB!Without(catalog[altered], c), d, type))
  BY <1>2, ContentAltered
<1>4. CASE AddColumn
  <2>1. PICK c \in Columns, type \in Types :
          UNCHANGED dbVars \/ \E guarded \in BOOLEAN : DB!AddColumn(c, type, guarded)
    BY <1>4 DEF AddColumn, Meet
  <2>2. altered # NoTable => Content(DB!With(catalog[altered], c, type))
    BY <1>2, ContentAltered
  <2> QED
    BY <1>0, <1>1, <1>2, <2>1, <2>2 DEF DB!AddColumn, dbVars
<1>5. CASE DropColumn
  <2>1. PICK c \in Columns :
          UNCHANGED dbVars \/ \E guarded \in BOOLEAN : DB!DropColumn(c, guarded)
    BY <1>5 DEF DropColumn, Meet
  <2>2. altered # NoTable => Content(DB!Without(catalog[altered], c))
    BY <1>2, ContentAltered
  <2> QED
    BY <1>0, <1>1, <2>1, <2>2 DEF DB!DropColumn, dbVars
<1>6. CASE RenameColumn
  <2>1. PICK c \in Columns, d \in Columns : UNCHANGED dbVars \/ DB!RenameColumn(c, d)
    BY <1>6 DEF RenameColumn, Meet
  <2>2. altered # NoTable /\ DB!Has(c) => catalog[altered][c] \in Types
    BY <1>2, ContentAltered DEF DB!Has
  <2> QED
    BY <1>0, <1>1, <1>3, <2>1, <2>2 DEF DB!RenameColumn, DB!ChangeColumn, dbVars
<1>7. CASE ChangeColumn
  <2>1. PICK c \in Columns, d \in Columns, type \in Types :
          UNCHANGED dbVars \/ DB!ChangeColumn(c, d, type)
    BY <1>7 DEF ChangeColumn, Meet
  <2> QED
    BY <1>0, <1>1, <1>3, <2>1 DEF DB!ChangeColumn, dbVars
<1>8. CASE SetColumnType
  <2>1. PICK c \in Columns, type \in Types : UNCHANGED dbVars \/ DB!SetType(c, type)
    BY <1>8 DEF SetColumnType, Meet
  <2>2. altered # NoTable => Content(DB!With(catalog[altered], c, type))
    BY <1>2, ContentAltered
  <2> QED
    BY <1>0, <1>1, <2>1, <2>2 DEF DB!SetType, dbVars
<1>9. CASE RenameAltered
  <2>1. UNCHANGED dbVars \/ \E to \in DB!Ids : DB!RenameAltered(to)
    <3>1. CASE \E to \in Written : Meet(DB!RenameAltered(Meant(to)), My!RenameAltered(to))
      BY <3>1, Named DEF Meet
    <3>2. CASE \E n \in Names : Meet(DB!RenameAltered(<<altered[1], n>>), InPg(Pg!RenameTo(n)))
      <4>1. PICK n \in Names : UNCHANGED dbVars \/ DB!RenameAltered(<<altered[1], n>>)
        BY <3>2 DEF Meet
      <4>2. altered # NoTable => <<altered[1], n>> \in DB!Ids
        BY <1>0 DEF CatalogOf, DB!Ids
      <4> QED
        BY <4>1, <4>2 DEF DB!RenameAltered
    <3> QED
      BY <1>9, <3>1, <3>2 DEF RenameAltered
  <2>2. ASSUME NEW to \in DB!Ids, DB!RenameAltered(to)
        PROVE  CatalogOf(catalog') /\ altered' \in DOMAIN catalog' \cup {NoTable}
    BY <1>0, <2>2, CatalogRenamed DEF DB!RenameAltered
  <2> QED
    BY <1>0, <2>1, <2>2 DEF dbVars
<1> QED
  BY <1>4, <1>5, <1>6, <1>7, <1>8, <1>9

LEMMA CatalogStep ==
  ASSUME SessionInv, DB!CatalogTypeOK, [Next]_vars
  PROVE  DB!CatalogTypeOK'
<1>1. CASE UNCHANGED dbVars
  BY <1>1 DEF dbVars, DB!CatalogTypeOK, DB!Ids
<1>2. CASE Next /\ ~NextFile /\ ~SectionMarker
  <2>1. CatalogOf(catalog') /\ altered' \in DOMAIN catalog' \cup {NoTable}
    BY <1>2, CatalogTables, CatalogColumns DEF Next
  <2>2. session' \in Schemas
    BY <1>2, SessionKept DEF DB!CatalogTypeOK
  <2> QED
    BY <2>1, <2>2 DEF DB!CatalogTypeOK, CatalogOf, Content, DB!Ids
<1>3. CASE NextFile \/ SectionMarker
  BY <1>1, <1>3 DEF NextFile, SectionMarker
<1> QED
  BY <1>1, <1>2, <1>3 DEF vars

-----------------------------------------------------------------------------

(***************************************************************************)
(* Where the cursor is. Unless it is lost, every mention ahead of it is    *)
(* one made since it last moved: the history the property excuses a wrong  *)
(* line by has forgotten none. An ALTER TABLE is only under way in an up   *)
(* half, which is read, so its end is read too.                            *)
(***************************************************************************)
CursorInv ==
  /\ passed \in Seq(Columns) /\ Len(passed) <= MaxPassed
  /\ since \subseteq Columns
  /\ lost \in BOOLEAN /\ excused \in BOOLEAN
  /\ lost => excused
  /\ ~lost => \A k \in 1 .. Len(passed) : passed[k] \in since
  /\ t # 0 => half = "up"

(***************************************************************************)
(* The readers share the cursor of package ddl.                            *)
(***************************************************************************)
LEMMA SameCursor ==
  ASSUME NEW c, NEW rest
  PROVE  /\ Pg!NameLine(c, rest) <=> List!NameLine(c, rest)
         /\ My!NameLine(c, rest) <=> List!NameLine(c, rest)
<1>1. /\ Pg!SelectInSeq(Append(passed, c), LAMBDA x : x = c)
         = List!SelectInSeq(Append(passed, c), LAMBDA x : x = c)
      /\ My!SelectInSeq(Append(passed, c), LAMBDA x : x = c)
         = List!SelectInSeq(Append(passed, c), LAMBDA x : x = c)
  BY Zenon DEF Pg!SelectInSeq, My!SelectInSeq, List!SelectInSeq, Pg!Min, My!Min, List!Min
<1> QED
  BY <1>1, Zenon DEF Pg!NameLine, My!NameLine, List!NameLine

(***************************************************************************)
(* Looking a name up from the cursor: it ends behind the first mention     *)
(* ahead, or behind the column's own when nothing mentions it.             *)
(***************************************************************************)
LEMMA CursorMoves ==
  ASSUME passed \in Seq(Columns), NEW c \in Columns, NEW rest \in Seq(Columns),
         List!NameLine(c, rest)
  PROVE  \E at \in 1 .. Len(passed) + 1 :
           /\ lost' = (lost \/ at <= Len(passed))
           /\ at <= Len(passed) => passed[at] = c
           /\ passed' \in Seq(Columns)
           /\ Len(passed') = Len(passed) + 1 - at + Len(rest)
           /\ at = Len(passed) + 1 => passed' = rest
<1>1. PICK s : s = Append(passed, c)
  OBVIOUS
<1>2. /\ s \in Seq(Columns) /\ Len(s) = Len(passed) + 1 /\ s[Len(s)] = c
      /\ \A k \in 1 .. Len(passed) : s[k] = passed[k]
      /\ Len(passed) \in Nat
  BY <1>1
<1> DEFINE I == {k \in 1 .. Len(s) : s[k] = c}
<1>3. PICK at : at = List!SelectInSeq(s, LAMBDA x : x = c)
  OBVIOUS
<1>4. List!SelectInSeq(s, LAMBDA x : x = c) = IF I # {} THEN List!Min(I) ELSE 0
  BY Zenon DEF List!SelectInSeq
<1>5. List!Min(I) = Min(I)
  BY Zenon DEF List!Min, Min
<1>6. I \in SUBSET Nat /\ Len(s) \in I
  BY <1>2
<1>7. Min(I) \in I
  <2> HIDE DEF I
  <2> QED
    BY <1>6, MinExists
<1>8. at \in 1 .. Len(s) /\ s[at] = c
  BY <1>3, <1>4, <1>5, <1>6, <1>7
<1> HIDE DEF I
<1>9. /\ lost' = (lost \/ at <= Len(passed))
      /\ passed' = SubSeq(s, at + 1, Len(passed) + 1) \o rest
  BY <1>1, <1>3, Zenon DEF List!NameLine
<1>10. PICK kept : kept = SubSeq(s, at + 1, Len(passed) + 1)
  OBVIOUS
<1>11. kept \in Seq(Columns) /\ Len(kept) = Len(passed) + 1 - at
  BY <1>2, <1>8, <1>10
<1>12. passed' \in Seq(Columns) /\ Len(passed') = Len(passed) + 1 - at + Len(rest)
  BY <1>9, <1>10, <1>11
<1>13. at = Len(passed) + 1 => passed' = rest
  <2>1. Len(kept) = 0 => kept = <<>>
    BY <1>11
  <2> QED
    BY <1>2, <1>9, <1>10, <1>11, <2>1
<1>14. at \in 1 .. Len(passed) + 1 /\ (at <= Len(passed) => passed[at] = c)
  BY <1>2, <1>8
<1>15. lost' = (lost \/ at <= Len(passed))
  BY <1>9
<1> QED
  BY <1>12, <1>13, <1>14, <1>15, Zenon

LEMMA CursorMentions ==
  ASSUME CursorInv, HalvesAgree, NEW names \in Seq(Columns),
         Len(passed) + Len(names) <= MaxPassed,
         passed' = passed \o names, lost' = lost, t' = t, UNCHANGED half,
         since' = since \cup {names[i] : i \in DOMAIN names}, UNCHANGED excused
  PROVE  CursorInv'
<1>1. /\ passed' \in Seq(Columns) /\ Len(passed') = Len(passed) + Len(names)
      /\ \A k \in 1 .. Len(passed') :
           passed'[k] = IF k <= Len(passed) THEN passed[k] ELSE names[k - Len(passed)]
  BY DEF CursorInv
<1>2. \A k \in 1 .. Len(passed') :
        k <= Len(passed) \/ k - Len(passed) \in DOMAIN names
  BY <1>1 DEF CursorInv
<1>3. {names[i] : i \in DOMAIN names} \subseteq Columns
  OBVIOUS
<1>4. ~lost => \A k \in 1 .. Len(passed') : passed'[k] \in since'
  BY <1>1, <1>2 DEF CursorInv
<1> QED
  BY <1>1, <1>3, <1>4 DEF CursorInv

LEMMA CursorNames ==
  ASSUME CursorInv, HalvesAgree, NEW c \in Columns, NEW rest \in Seq(Columns),
         Len(passed) + 1 + Len(rest) <= MaxPassed,
         List!NameLine(c, rest), t' = t, UNCHANGED half,
         since' = {rest[i] : i \in DOMAIN rest},
         excused' = (excused \/ (lost' /\ ~lost /\ c \in since))
  PROVE  CursorInv'
<1>1. PICK at \in 1 .. Len(passed) + 1 :
        /\ lost' = (lost \/ at <= Len(passed))
        /\ at <= Len(passed) => passed[at] = c
        /\ passed' \in Seq(Columns)
        /\ Len(passed') = Len(passed) + 1 - at + Len(rest)
        /\ at = Len(passed) + 1 => passed' = rest
  BY CursorMoves DEF CursorInv
<1>2. Len(passed) \in Nat /\ Len(rest) \in Nat /\ MaxPassed \in Nat
  BY SourcesAssumption DEF CursorInv
<1>3. lost' \in BOOLEAN /\ excused' \in BOOLEAN
  BY <1>1 DEF CursorInv
<1>4. lost' => excused'
  BY <1>1, <1>2 DEF CursorInv
<1>5. ~lost' => \A k \in 1 .. Len(passed') : passed'[k] \in since'
  <2>0. at <= Len(passed) \/ at = Len(passed) + 1
    BY <1>2
  <2>1. ~lost' => passed' = rest
    BY <1>1, <2>0, Zenon
  <2>2. DOMAIN rest = 1 .. Len(rest)
    OBVIOUS
  <2> QED
    BY <2>1, <2>2
<1>6. since' \subseteq Columns
  OBVIOUS
<1>7. Len(passed') <= MaxPassed
  BY <1>1, <1>2
<1> QED
  BY <1>1, <1>3, <1>4, <1>5, <1>6, <1>7 DEF CursorInv

(***************************************************************************)
(* What leaves the cursor, and the history with it.                        *)
(***************************************************************************)
LEMMA CursorStays ==
  ASSUME CursorInv, UNCHANGED <<passed, lost, since, excused>>,
         t' # 0 => half' = "up"
  PROVE  CursorInv'
BY DEF CursorInv

LEMMA CursorReset ==
  ASSUME CursorInv, passed' = <<>>, lost' = FALSE,
         since' \subseteq Columns, excused' \in BOOLEAN, t' # 0 => half' = "up"
  PROVE  CursorInv'
<1>0. <<>> \in Seq(Columns) /\ Len(<<>>) = 0
  OBVIOUS
<1>1. passed' \in Seq(Columns) /\ Len(passed') = 0
  BY <1>0
<1>2. 0 <= MaxPassed
  BY SourcesAssumption
<1>3. \A k \in 1 .. 0 : FALSE
  OBVIOUS
<1> QED
  BY <1>1, <1>2, <1>3 DEF CursorInv

(***************************************************************************)
(* A statement on whole tables looks for no column, and the halves of a    *)
(* file change between statements.                                         *)
(***************************************************************************)
LEMMA CursorTables ==
  ASSUME CursorInv,
         CreateTable \/ CreateUnlisted \/ CreateLike \/ DropTable \/ RenameTable
           \/ UseDatabase \/ NextFile \/ SectionMarker
  PROVE  CursorInv'
<1>1. t = 0 /\ UNCHANGED <<since, excused>>
  BY DEF CreateTable, CreateUnlisted, CreateLike, DropTable, RenameTable, UseDatabase,
     NextFile, SectionMarker, Between, history
<1>2. UNCHANGED <<t, passed, lost>>
  <2> USE DEF Meet, readerVars, InPg, My!Stop, My!listVars, My!readerVars, Pg!listVars
  <2>1. CASE CreateTable
    BY <2>1 DEF CreateTable, Pg!CreateTable, My!CreateTable
  <2>2. CASE CreateUnlisted
    BY <2>2 DEF CreateUnlisted, Pg!CreateUnlisted, My!CreateUnlisted, Pg!CreateTable,
       My!CreateTable
  <2>3. CASE CreateLike
    BY <2>3 DEF CreateLike, My!CreateLike
  <2>4. CASE DropTable
    BY <2>4 DEF DropTable, Pg!DropTable, My!DropTable
  <2>5. CASE RenameTable
    BY <2>5 DEF RenameTable, My!RenameTable
  <2>6. CASE UseDatabase
    BY <2>6 DEF UseDatabase, My!UseDatabase
  <2>7. CASE NextFile \/ SectionMarker
    BY <2>7 DEF NextFile, SectionMarker
  <2> QED
    BY <2>1, <2>2, <2>3, <2>4, <2>5, <2>6, <2>7
<1> QED
  BY <1>1, <1>2, CursorStays

LEMMA CursorAlters ==
  ASSUME CursorInv, HalvesAgree,
         \/ BeginAlter \/ EndAlter \/ AddColumn \/ DropColumn \/ RenameColumn
         \/ ChangeColumn \/ SetColumnType \/ RenameAltered
  PROVE  CursorInv'
<1>0. UNCHANGED half
  BY DEF BeginAlter, EndAlter, AddColumn, DropColumn, RenameColumn, ChangeColumn,
     SetColumnType, RenameAltered, Meet, halfVars
<1>1. t # 0 => Halves!Read
  BY DEF CursorInv, HalvesAgree, Halves!Read
<1>2. CASE BeginAlter
  <2>1. UNCHANGED <<since, excused>> /\ t = 0
    BY <1>2 DEF BeginAlter, Between, history
  <2>2. \/ UNCHANGED <<t, passed, lost>>
        \/ half = "up" /\ passed' = <<>> /\ lost' = FALSE
    BY <1>2 DEF BeginAlter, Meet, readerVars, InPg, HalvesAgree, Halves!Read, Pg!AlterStart,
       My!AlterStart, Pg!AlterTable, My!AlterTable, My!Stop, My!listVars
  <2>3. CASE UNCHANGED <<t, passed, lost>>
    BY <2>1, <2>3, CursorStays
  <2>4. CASE half = "up" /\ passed' = <<>> /\ lost' = FALSE
    BY <1>0, <2>1, <2>4, CursorReset DEF CursorInv
  <2> QED
    BY <2>2, <2>3, <2>4
<1>3. CASE EndAlter
  <2>1. /\ passed' = <<>> /\ lost' = FALSE /\ t' = 0
        /\ since' = {} /\ excused' = FALSE
    BY <1>1, <1>3 DEF EndAlter, Meet, InPg, My!AlterDone, My!AlterEnds, List!AlterEnds
  <2> QED
    BY <2>1, CursorReset
<1>4. CASE AddColumn
  <2>1. PICK c \in Columns, type \in Types, rest \in {<<>>} \cup {<<d>> : d \in Columns} :
          /\ t # 0
          /\ Len(passed) + Len(<<c>> \o rest) <= MaxPassed
          /\ Halves!Read =>
               IF Postgres THEN InPg(Pg!AddColumn(c, type, rest))
               ELSE \E at \in 1..Len(src[t].cols) + 1 : My!AddColumn(c, type, rest, at)
          /\ IF Postgres /\ List!InAltered(c) # 0
             THEN Mentioning({c} \cup {rest[i] : i \in DOMAIN rest})
             ELSE /\ since' = {rest[i] : i \in DOMAIN rest}
                  /\ excused' = (excused \/ (lost' /\ ~lost /\ c \in since))
    BY <1>4 DEF AddColumn, Acting, Meet
  <2>2. /\ rest \in Seq(Columns) /\ <<c>> \o rest \in Seq(Columns)
        /\ Len(<<c>> \o rest) = 1 + Len(rest)
        /\ {(<<c>> \o rest)[i] : i \in DOMAIN (<<c>> \o rest)}
             = {c} \cup {rest[i] : i \in DOMAIN rest}
    <3>0. /\ <<>> \in Seq(Columns) /\ \A d \in Columns : <<d>> \in Seq(Columns)
          /\ <<c>> \in Seq(Columns) /\ Len(<<c>>) = 1 /\ <<c>>[1] = c
      OBVIOUS
    <3>1. rest \in Seq(Columns) /\ DOMAIN rest = 1 .. Len(rest) /\ Len(rest) \in Nat
      <4>1. rest \in Seq(Columns)
        BY <2>1, <3>0
      <4> QED
        BY <4>1
    <3>2. PICK first \in Seq(Columns) : first = <<c>> /\ Len(first) = 1 /\ first[1] = c
      BY <3>0
    <3>3. PICK all : all = first \o rest
      OBVIOUS
    <3>4. /\ all \in Seq(Columns) /\ Len(all) = 1 + Len(rest)
          /\ all[1] = c /\ \A i \in 1 .. Len(rest) : all[i + 1] = rest[i]
      BY <3>1, <3>2, <3>3
    <3>5. \A i \in DOMAIN all : i = 1 \/ \E j \in DOMAIN rest : i = j + 1
      <4>1. \A i \in DOMAIN all : i = 1 \/ (i - 1 \in 1 .. Len(rest) /\ i = (i - 1) + 1)
        BY <3>1, <3>4
      <4> QED
        BY <3>1, <4>1
    <3>6. {all[i] : i \in DOMAIN all} \subseteq {c} \cup {rest[i] : i \in DOMAIN rest}
      BY <3>1, <3>4, <3>5
    <3>7. {c} \cup {rest[i] : i \in DOMAIN rest} \subseteq {all[i] : i \in DOMAIN all}
      <4>1. 1 \in DOMAIN all /\ \A i \in 1 .. Len(rest) : i + 1 \in DOMAIN all
        BY <3>1, <3>4
      <4> QED
        BY <3>1, <3>4, <4>1
    <3> QED
      BY <3>1, <3>2, <3>3, <3>4, <3>6, <3>7
  <2>3. t' = t
    BY <1>1, <2>1 DEF InPg, Pg!AddColumn, My!AddColumn, Pg!SetColumns, My!SetColumns
  <2>4. CASE Postgres /\ List!InAltered(c) # 0
    <3>1. Pg!InAltered(c) # 0
      BY <2>4, SameLookups DEF List!InAltered
    <3>2. passed' = passed \o (<<c>> \o rest) /\ lost' = lost
      BY <1>1, <2>1, <2>4, <3>1 DEF InPg, Pg!AddColumn, Pg!Mention
    <3> QED
      BY <1>0, <2>1, <2>2, <2>3, <2>4, <3>2, CursorMentions DEF Mentioning
  <2>5. CASE ~(Postgres /\ List!InAltered(c) # 0)
    <3>1. Postgres => Pg!InAltered(c) = 0
      BY <2>5, SameLookups DEF List!InAltered
    <3>2. List!NameLine(c, rest)
      BY <1>1, <2>1, <3>1, SameCursor DEF InPg, Pg!AddColumn, My!AddColumn
    <3>3. Len(passed) + 1 + Len(rest) <= MaxPassed
      BY <2>1, <2>2, SourcesAssumption DEF CursorInv
    <3> QED
      BY <1>0, <2>1, <2>2, <2>3, <2>5, <3>2, <3>3, CursorNames
  <2> QED
    BY <2>4, <2>5
<1>5. ASSUME NEW names \in Seq(Columns), Len(passed) + Len(names) <= MaxPassed,
             passed' = passed \o names, lost' = lost, t' = t,
             Mentioning({names[i] : i \in DOMAIN names})
      PROVE  CursorInv'
  BY <1>0, <1>5, CursorMentions DEF Mentioning
<1>6. ASSUME NEW c \in Columns
      PROVE  <<c>> \in Seq(Columns) /\ {<<c>>[i] : i \in DOMAIN <<c>>} = {c}
  OBVIOUS
<1>7. ASSUME NEW c \in Columns, NEW d \in Columns
      PROVE  <<c, d>> \in Seq(Columns) /\ {<<c, d>>[i] : i \in DOMAIN <<c, d>>} = {c, d}
  OBVIOUS
<1>8. CASE DropColumn \/ SetColumnType
  <2>1. PICK c \in Columns :
          /\ Len(passed) + Len(<<c>>) <= MaxPassed
          /\ passed' = passed \o <<c>> /\ lost' = lost /\ t' = t
          /\ Mentioning({c})
    BY <1>1, <1>8 DEF DropColumn, SetColumnType, Acting, Meet, InPg, Pg!DropColumn,
       My!DropColumn, Pg!DropFound, My!DropFound, Pg!AlterColumnType, My!ModifyColumn,
       Pg!ReplaceFound, My!ReplaceFound, Pg!SetColumns, My!SetColumns, Pg!Mention,
       My!Mention
  <2> QED
    BY <1>5, <1>6, <2>1
<1>9. CASE RenameColumn \/ ChangeColumn
  <2>1. PICK c \in Columns, d \in Columns :
          /\ Len(passed) + Len(<<c, d>>) <= MaxPassed
          /\ passed' = passed \o <<c, d>> /\ lost' = lost /\ t' = t
          /\ Mentioning({c, d})
    BY <1>1, <1>9 DEF RenameColumn, ChangeColumn, Acting, Meet, InPg, Pg!RenameColumn,
       My!RenameColumn, My!ChangeColumn, Pg!RenameFound, My!RenameFound,
       Pg!ReplaceFound, My!ReplaceFound, Pg!SetColumns, My!SetColumns, Pg!Mention,
       My!Mention
  <2>2. PICK names \in Seq(Columns) :
          names = <<c, d>> /\ {names[i] : i \in DOMAIN names} = {c, d}
    BY <1>7
  <2> QED
    BY <1>5, <2>1, <2>2
<1>10. CASE RenameAltered
  <2>1. UNCHANGED <<t, passed, lost, since, excused>>
    BY <1>10 DEF RenameAltered, history, Meet, readerVars, InPg, Pg!RenameTo,
       My!RenameAltered, My!Stop, My!listVars
  <2> QED
    BY <1>0, <2>1, CursorStays DEF CursorInv
<1> QED
  BY <1>2, <1>3, <1>4, <1>8, <1>9, <1>10

LEMMA CursorStep ==
  ASSUME CursorInv, HalvesAgree, [Next]_vars
  PROVE  CursorInv'
<1>1. CASE UNCHANGED vars
  BY <1>1, CursorStays DEF CursorInv, vars, history, readerVars, halfVars
<1> QED
  BY <1>1, CursorTables, CursorAlters DEF Next


-----------------------------------------------------------------------------

(***************************************************************************)
(* The state of the reader's own.                                          *)
(***************************************************************************)
ReaderTyped ==
  /\ failed \in BOOLEAN /\ skipped \in BOOLEAN /\ down \in BOOLEAN
  /\ half \in {"up", "down"}
  /\ db \in Schemas \cup {NoDatabase}
  /\ dialect \in Dialects
  /\ Postgres => db = NoDatabase

LEMMA ReaderInit == Init => ReaderTyped
BY SourcesAssumption DEF Init, ReaderTyped, Halves!HalvesInit, Postgres

LEMMA ReaderKept ==
  ASSUME SessionInv, Next
  PROVE  /\ UNCHANGED failed \/ (failed' = TRUE /\ MySQL)
         /\ UNCHANGED db \/ (db' \in Schemas /\ MySQL)
<1> USE DEF Meet, readerVars, InPg, My!Stop, My!Going, My!readerVars, MySQL, Postgres
<1>0. CASE UNCHANGED <<db, failed>>
  BY <1>0
<1>p. CASE UseDatabase
  BY <1>p DEF UseDatabase, My!UseDatabase
<1>q. CASE NextFile \/ SectionMarker
  BY <1>0, <1>q DEF NextFile, SectionMarker
<1>d. ~UseDatabase /\ ~NextFile /\ ~SectionMarker =>
        UNCHANGED <<db, failed>> \/ (UNCHANGED db /\ failed' = TRUE /\ ~Postgres)
  <2>1. CASE CreateTable
    BY <2>1 DEF CreateTable, My!CreateTable
  <2>2. CASE CreateUnlisted
    BY <2>2 DEF CreateUnlisted, My!CreateUnlisted, My!CreateTable
  <2>3. CASE CreateLike
    BY <2>3 DEF CreateLike, My!CreateLike
  <2>4. CASE DropTable
    BY <2>4 DEF DropTable, My!DropTable
  <2>5. CASE RenameTable
    BY <2>5 DEF RenameTable, My!RenameTable
  <2>6. CASE BeginAlter
    BY <2>6 DEF BeginAlter, My!AlterStart
  <2>7. CASE EndAlter
    BY <2>7 DEF EndAlter, My!AlterDone
  <2>8. CASE AddColumn
    BY <2>8 DEF AddColumn, My!AddColumn
  <2>9. CASE DropColumn
    BY <2>9 DEF DropColumn, My!DropColumn
  <2>10. CASE RenameColumn
    BY <2>10 DEF RenameColumn, My!RenameColumn
  <2>11. CASE ChangeColumn
    BY <2>11 DEF ChangeColumn, My!ChangeColumn
  <2>12. CASE SetColumnType
    BY <2>12 DEF SetColumnType, My!ModifyColumn
  <2>13. CASE RenameAltered
    BY <2>13 DEF RenameAltered, My!RenameAltered
  <2> QED
    BY <2>1, <2>2, <2>3, <2>4, <2>5, <2>6, <2>7, <2>8, <2>9, <2>10, <2>11, <2>12, <2>13
    DEF Next
<1> QED
  BY <1>0, <1>p, <1>q, <1>d DEF SessionInv

LEMMA ReaderStep ==
  ASSUME ReaderTyped, SessionInv, [Next]_vars
  PROVE  ReaderTyped'
<1>1. CASE UNCHANGED vars
  BY <1>1 DEF vars, readerVars, halfVars, ReaderTyped, Postgres
<1>2. CASE Next
  <2>1. UNCHANGED dialect
    BY <1>2, SessionKept
  <2>2. half' \in {"up", "down"} /\ skipped' \in BOOLEAN /\ down' \in BOOLEAN
    BY <1>2 DEF ReaderTyped, Next, CreateTable, CreateUnlisted, CreateLike, DropTable,
       RenameTable, UseDatabase, BeginAlter, EndAlter, AddColumn, DropColumn,
       RenameColumn, ChangeColumn, SetColumnType, RenameAltered, NextFile, SectionMarker,
       Meet, halfVars, Halves!OpenFile, Halves!Marker
  <2> QED
    BY <1>2, <2>1, <2>2, ReaderKept DEF ReaderTyped, Postgres, MySQL
<1> QED
  BY <1>1, <1>2

(***************************************************************************)
(* Each variable keeps to its type, whatever the statements, their names   *)
(* and their number: what the database accepts has tables of columns with  *)
(* types, and the reader's pointer, which the Go code keeps as an address, *)
(* is always to a table of its list.                                       *)
(***************************************************************************)
THEOREM SourcesTyped == Spec => []TypeOK
<1> DEFINE Inv == /\ DatabaseInv /\ SessionInv /\ DB!CatalogTypeOK /\ ListTyped
                  /\ CursorInv /\ ReaderTyped
<1>1. Init => Inv
  <2>1. Init => DB!CatalogTypeOK
    BY SourcesAssumption DEF Init, DB!CatalogInit, DB!CatalogTypeOK
  <2>2. Init => ListTyped /\ CursorInv
    <3>1. <<>> \in Seq(Columns) /\ Len(<<>>) = 0
      OBVIOUS
    <3>2. <<>> \in Seq([id : DB!Ids, cols : Seq(Entry)])
      OBVIOUS
    <3>3. MaxPassed >= 0 /\ \A k \in 1 .. 0 : FALSE
      BY SourcesAssumption
    <3>4. Init => ListTyped
      BY <3>1, <3>2 DEF Init, List!ListInit, ListTyped
    <3>5. Init => CursorInv
      BY <3>1, <3>3 DEF Init, List!ListInit, CursorInv
    <3> QED
      BY <3>4, <3>5
  <2> QED
    BY <2>1, <2>2, SessionInit, ReaderInit
<1>2. Inv /\ [Next]_vars => Inv'
  BY SessionStep, CatalogStep, TypedLists, CursorStep, ReaderStep DEF DatabaseInv
<1>3. Inv => TypeOK
  <2>1. ListTyped => /\ \A i \in DOMAIN src : src[i].id \in DB!Ids
                     /\ t \in {0} \cup DOMAIN src
    <3> SUFFICES ASSUME ListTyped
                 PROVE  /\ \A i \in DOMAIN src : src[i].id \in DB!Ids
                        /\ t \in {0} \cup DOMAIN src
      OBVIOUS
    <3> DEFINE Tables == [id : DB!Ids, cols : Seq(Entry)]
    <3>1. src \in Seq(Tables) /\ t \in 0 .. Len(src)
      BY DEF ListTyped
    <3>2. \A i \in DOMAIN src : src[i] \in Tables
      <4> HIDE DEF Tables
      <4> QED
        BY <3>1
    <3> QED
      BY <3>1, <3>2
  <2> QED
    BY <2>1 DEF TypeOK, CursorInv, ReaderTyped
<1> QED
  BY <1>1, <1>2, <1>3, PTL DEF Spec

(***************************************************************************)
(* Whatever statements are read, the line a column is placed on is the one *)
(* that adds it, unless the statement mentioned the name before: the       *)
(* cursor, which is not moved by every action, is ahead of no mention the  *)
(* history does not know of.                                               *)
(***************************************************************************)
THEOREM ColumnsPlaced == Spec => []PlacedWhereAdded
<1> DEFINE Inv == DatabaseInv /\ CursorInv
<1>1. Init => Inv
  <2>1. <<>> \in Seq(Columns) /\ Len(<<>>) = 0
    OBVIOUS
  <2>2. MaxPassed >= 0 /\ \A k \in 1 .. 0 : FALSE
    BY SourcesAssumption
  <2> QED
    BY <2>1, <2>2, DatabaseInit DEF Init, List!ListInit, CursorInv
<1>2. Inv /\ [Next]_vars => Inv'
  BY DatabaseStep, CursorStep DEF DatabaseInv
<1>3. Inv => PlacedWhereAdded
  BY DEF CursorInv, PlacedWhereAdded
<1> QED
  BY <1>1, <1>2, <1>3, PTL DEF Spec
=============================================================================
