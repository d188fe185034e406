------------------------------- MODULE Engine -------------------------------
(***************************************************************************)
(* internal/engine: one run of the linter over a source schema, a          *)
(* connector, the sinks, and, when a base was given, the schema and the    *)
(* connector at the base of the change.                                    *)
(*                                                                         *)
(* resolve first indexes the source tables by the topic the connector puts *)
(* them on, then takes the sink tables one by one and works out which      *)
(* source table feeds each.  Run then applies the rules in a fixed order;  *)
(* the order matters, since one rule hands the columns it raised to the    *)
(* next.  The index is a Go map, so where the code ranges over it the      *)
(* model takes any entry.                                                  *)
(***************************************************************************)
EXTENDS Contract, SinkConnector

CONSTANTS
  TableName,  \* a source table's own name, without its schema
  Inputs      \* what a run may be given

(***************************************************************************)
(* model.SinkTable, clickhouse.View, connect.Mapper, engine.Base and       *)
(* engine.Input.  A base's contract is a set of at most one configuration, *)
(* empty where the code has nil; base is a set of at most one base, empty  *)
(* without --base.                                                         *)
(***************************************************************************)
SinkTables ==
  [sink : Warehouses, name : Names, topic : Names \cup {NoName},
   columns : Seq(SinkNames)]

Views == [target : Names, refreshable : BOOLEAN, columns : Seq(SinkNames)]

Mappers ==
  [kind : Kinds, consumes : SUBSET Names, single : Names \cup {NoName},
   explicit : [Names -> Names \cup {NoName}],
   routes : Seq(Routes), transforms : Seq(Transforms)]

Bases ==
  [tables : SUBSET Tables, columns : [Tables -> SUBSET Columns],
   contract : SUBSET Configs, changed : BOOLEAN]

InputType ==
  [source : Seq(Tables), columns : [Tables -> SUBSET Columns],
   contract : Configs, sinks : Seq(SinkTables), views : Seq(Views),
   mappers : Seq(Mappers), base : SUBSET Bases]

ASSUME EngineAssumption ==
  /\ TableName \in [Tables -> Names]
  /\ Inputs \subseteq InputType

VARIABLES
  in,        \* engine.Input
  pc,        \* "index", "resolve", "rules" or "done"
  k,         \* the source table, sink table or rule the loop is at
  byTopic,   \* topic -> source table
  reads,     \* the sink columns resolved to a source table
  orphans,   \* the sink tables whose topic no source table is on
  raised,    \* the columns schema-before-connector raised
  findings   \* rule -> what it found

vars == <<in, pc, k, byTopic, reads, orphans, raised, findings>>

(***************************************************************************)
(* The rules in the order Run applies them.                                *)
(***************************************************************************)
RunOrder ==
  <<"topic-table-mapping", "sink-table-not-captured",
    "sink-column-not-captured", "sink-column-unknown",
    "sink-column-flattened", "schema-before-connector",
    "source-column-not-captured", "captured-column-missing",
    "captured-table-missing", "mv-column-match">>

Rules == {RunOrder[i] : i \in DOMAIN RunOrder}

-----------------------------------------------------------------------------
(* What the input says.                                                    *)

Connector == Parse(in.contract)
Source == ToSet(in.source)
SourceColumns == {tc \in ColumnOf : tc[1] \in Source /\ tc[2] \in in.columns[tc[1]]}

Captured(tc) == CapturesColumn(Connector, tc[1], tc[2])

(***************************************************************************)
(* The connector the decisions at the base are read from: an unchanged     *)
(* file has the head's.                                                    *)
(***************************************************************************)
BaseContract(b) ==
  {Parse(file) : file \in IF b.changed THEN b.contract ELSE {in.contract}}

(***************************************************************************)
(* A connector consulted for sink table s says it writes topic tp there.   *)
(***************************************************************************)
MappedBy(m, tp, s) ==
  LET mapper == in.mappers[m]
  IN  Serves(mapper, s.sink) /\ Writes(mapper, tp, s.name)

(***************************************************************************)
(* model.Source.Table("", name): the source tables of that name, in        *)
(* whatever schema; the first of them is taken.                            *)
(***************************************************************************)
Namesakes(s) ==
  {i \in DOMAIN in.source : TableName[in.source[i]] = LastSegment[s.name]}

-----------------------------------------------------------------------------
(* resolve                                                                 *)

Started ==
  /\ pc = "index"
  /\ k = 1
  /\ byTopic = [tp \in {} |-> NoName]
  /\ reads = {}
  /\ orphans = {}
  /\ raised = {}
  /\ findings = [r \in Rules |-> {}]

Init == in \in Inputs /\ Started

IndexRawTopic ==
  LET t == in.source[k]
  IN  /\ pc = "index"
      /\ k <= Len(in.source)
      /\ byTopic' = [tp \in DOMAIN byTopic \cup {RawTopic[t]} |->
                       IF tp = RawTopic[t] THEN t ELSE byTopic[tp]]
      /\ k' = k + 1
      /\ UNCHANGED <<in, pc, reads, orphans, raised, findings>>

(***************************************************************************)
(* A topic two tables are routed to keeps the table indexed last.          *)
(***************************************************************************)
IndexTopic ==
  LET t     == in.source[k]
      topic == Topic(Connector, t)
  IN  /\ pc = "index"
      /\ k <= Len(in.source)
      /\ byTopic' = [tp \in DOMAIN byTopic \cup {topic} |->
                       IF tp = topic THEN t ELSE byTopic[tp]]
      /\ k' = k + 1
      /\ UNCHANGED <<in, pc, reads, orphans, raised, findings>>

IndexDone ==
  /\ pc = "index"
  /\ k > Len(in.source)
  /\ pc' = "resolve"
  /\ k' = 1
  /\ UNCHANGED <<in, byTopic, reads, orphans, raised, findings>>

(***************************************************************************)
(* The shape sink table k reads under: a mapper reshapes what the source   *)
(* connector produced; m is 0 when no mapper was involved.                 *)
(***************************************************************************)
ShapeUnder(m) ==
  IF m = 0
    THEN ValueShape(Connector)
    ELSE Reshape(in.mappers[m], ValueShape(Connector))

(***************************************************************************)
(* engine.Read: one sink column fed from table t.                          *)
(***************************************************************************)
Read(i, n, t, mapping, topic, m) ==
  LET field == Field(ShapeUnder(m), in.columns[t], n)
  IN  [sink |-> i, column |-> n, table |-> t, mapping |-> mapping,
       topic |-> topic, mapper |-> m, field |-> field.col,
       unreached |-> field.unreached, shape |-> ShapeUnder(m)]

(***************************************************************************)
(* Every column of sink table k but the ones around the row becomes a read *)
(* of table t.                                                             *)
(***************************************************************************)
ReadFrom(t, mapping, topic, m) ==
  LET received == {n \in ToSet(in.sinks[k].columns) :
                     ~Field(ShapeUnder(m), in.columns[t], n).skip}
  IN  reads' = reads \cup {Read(k, n, t, mapping, topic, m) : n \in received}

Resolving ==
  /\ pc = "resolve"
  /\ k <= Len(in.sinks)
  /\ k' = k + 1
  /\ UNCHANGED <<in, pc, byTopic, raised, findings>>

(***************************************************************************)
(* The sink table names its topic.                                         *)
(***************************************************************************)
ResolveByTopic ==
  LET topic == in.sinks[k].topic
  IN  /\ Resolving
      /\ topic # NoName
      /\ topic \in DOMAIN byTopic
      /\ ReadFrom(byTopic[topic], "topic", topic, 0)
      /\ UNCHANGED orphans

TopicUnproduced ==
  LET topic == in.sinks[k].topic
  IN  /\ Resolving
      /\ topic # NoName
      /\ topic \notin DOMAIN byTopic
      /\ orphans' = orphans \cup {k}
      /\ UNCHANGED reads

ResolveByAnyConnector ==
  LET s == in.sinks[k]
  IN  /\ Resolving
      /\ s.topic = NoName
      /\ \E m \in DOMAIN in.mappers, tp \in DOMAIN byTopic :
           MappedBy(m, tp, s) /\ ReadFrom(byTopic[tp], "connector", tp, m)
      /\ UNCHANGED orphans

(***************************************************************************)
(* The first mapper that writes some indexed topic to the sink table; of   *)
(* the topics it writes there, whichever the map's iteration meets first.  *)
(***************************************************************************)
ResolveByConnector ==
  LET s == in.sinks[k]
  IN  /\ Resolving
      /\ s.topic = NoName
      /\ \E m \in DOMAIN in.mappers, tp \in DOMAIN byTopic :
           /\ MappedBy(m, tp, s)
           /\ \A j \in 1 .. m - 1, other \in DOMAIN byTopic :
                ~MappedBy(j, other, s)
           /\ ReadFrom(byTopic[tp], "connector", tp, m)
      /\ UNCHANGED orphans

Unmapped(s) ==
  /\ s.topic = NoName
  /\ \A m \in DOMAIN in.mappers, tp \in DOMAIN byTopic : ~MappedBy(m, tp, s)

(***************************************************************************)
(* No connector maps it: a warehouse table is taken to be fed from the     *)
(* source table of the same name.                                          *)
(***************************************************************************)
ResolveByName ==
  LET s == in.sinks[k]
  IN  /\ Resolving
      /\ Unmapped(s)
      /\ s.sink # "clickhouse"
      /\ \E i \in Namesakes(s) :
           /\ i = Min(Namesakes(s))
           /\ ReadFrom(in.source[i], "table-name", Topic(Connector, in.source[i]), 0)
      /\ UNCHANGED orphans

ResolveNone ==
  LET s == in.sinks[k]
  IN  /\ Resolving
      /\ Unmapped(s)
      /\ s.sink = "clickhouse" \/ Namesakes(s) = {}
      /\ UNCHANGED <<reads, orphans>>

ResolveDone ==
  /\ pc = "resolve"
  /\ k > Len(in.sinks)
  /\ pc' = "rules"
  /\ k' = 1
  /\ UNCHANGED <<in, byTopic, reads, orphans, raised, findings>>

-----------------------------------------------------------------------------
(* The rules: what each finds in the input and the reads.                  *)

TopicTableMapping == orphans

(* Faulty: only reads of a column the source has are looked at. *)
SinkTableOfKnownColumns ==
  {[sink |-> r.sink, table |-> r.table, setting |-> TableBlock(Connector, r.table)] :
     r \in {x \in reads : /\ ~CapturesTable(Connector, x.table)
                          /\ x.field \in in.columns[x.table]}}

SinkTableNotCaptured ==
  {[sink |-> r.sink, table |-> r.table, setting |-> TableBlock(Connector, r.table)] :
     r \in {x \in reads : ~CapturesTable(Connector, x.table)}}

SinkColumnNotCaptured ==
  {[sink |-> r.sink, column |-> r.column, source |-> <<r.table, r.field>>] :
     r \in {x \in reads : /\ CapturesTable(Connector, x.table)
                          /\ ~x.unreached
                          /\ x.field \in in.columns[x.table]
                          /\ ~Captured(<<x.table, x.field>>)}}

SinkColumnUnknown ==
  {[sink |-> r.sink, column |-> r.column] :
     r \in {x \in reads : ~x.unreached /\ x.field \notin in.columns[x.table]}}

(***************************************************************************)
(* One finding per sink table, naming every column the flatten transform   *)
(* keeps it from receiving.                                                *)
(***************************************************************************)
SinkColumnFlattened ==
  LET unreached == {r \in reads : r.unreached}
  IN  {[sink |-> i, columns |-> {r.column : r \in {x \in unreached : x.sink = i}}] :
         i \in {r.sink : r \in unreached}}

(***************************************************************************)
(* The source columns some sink column is taken to receive.                *)
(***************************************************************************)
Declared ==
  {<<r.table, r.field>> : r \in {x \in reads : ~x.unreached}}

(***************************************************************************)
(* schema-before-connector: columns new since the base, on a table the     *)
(* connector captured then and captures now, that an include list leaves   *)
(* out and no sink reads.                                                  *)
(***************************************************************************)
AddedSince(b, tc) ==
  tc[1] \in b.tables /\ tc[2] \notin b.columns[tc[1]]

CapturedAt(b, t) == \E c \in BaseContract(b) : CapturesTable(c, t)

SchemaUnlessConnectorChanged ==
  {tc \in SourceColumns \ Declared :
     \E b \in in.base :
       /\ ~b.changed
       /\ ~Excludes(ColumnListSetting(Connector))
       /\ CapturesTable(Connector, tc[1])
       /\ AddedSince(b, tc)
       /\ ~Captured(tc)}

SchemaOfDroppedColumns ==
  {tc \in ColumnOf \ Declared :
     \E b \in in.base :
       /\ ~Excludes(ColumnListSetting(Connector))
       /\ CapturesTable(Connector, tc[1])
       /\ AddedSince(b, tc)
       /\ CapturedAt(b, tc[1])
       /\ ~Captured(tc)}

SchemaBeforeConnector ==
  {tc \in SourceColumns :
     \E b \in in.base :
       /\ ~Excludes(ColumnListSetting(Connector))
       /\ CapturesTable(Connector, tc[1])
       /\ AddedSince(b, tc)
       /\ CapturedAt(b, tc[1])
       /\ ~Captured(tc)
       /\ tc \notin Declared}

SourceColumnNotCaptured ==
  {tc \in SourceColumns : /\ CapturesTable(Connector, tc[1])
                          /\ ~Captured(tc)
                          /\ tc \notin Declared
                          /\ tc \notin raised}

(***************************************************************************)
(* Include-list patterns that match nothing in the source.                 *)
(***************************************************************************)
CapturedColumnMissing ==
  {p \in Connector.columnInclude : p \cap SourceColumns = {}}

CapturedTableMissing ==
  {p \in Connector.tableInclude : p \cap Source = {}}

(***************************************************************************)
(* mv-column-match: the target is the last ClickHouse table of that name,  *)
(* qualified or not.  A refreshable view inserts by position, a streaming  *)
(* one by name.                                                            *)
(***************************************************************************)
TargetsOf(v) ==
  {i \in DOMAIN in.sinks : /\ in.sinks[i].sink = "clickhouse"
                           /\ v.target \in {in.sinks[i].name,
                                            LastSegment[in.sinks[i].name]}}

TargetColumns(v) == in.sinks[Max(TargetsOf(v))].columns

OutOfOrder(cols, target) ==
  \E i \in DOMAIN cols \cap DOMAIN target : cols[i] # target[i]

ViewOrderOnly(v) ==
  IF v.refreshable /\ OutOfOrder(v.columns, TargetColumns(v)) THEN {"order"} ELSE {}

ViewProblems(v) ==
  LET target == TargetColumns(v)
  IN  IF v.refreshable
        THEN {p \in {"order", "count"} :
                \/ p = "order" /\ OutOfOrder(v.columns, target)
                \/ p = "count" /\ Len(v.columns) # Len(target)}
        ELSE {p \in {"unknown"} : ~(ToSet(v.columns) \subseteq ToSet(target))}

MVColumnMatch ==
  UNION {{[view |-> i, problem |-> p] : p \in ViewProblems(in.views[i])} :
           i \in {j \in DOMAIN in.views : TargetsOf(in.views[j]) # {}}}

(***************************************************************************)
(* What rule finds in the present reads, orphans and raised columns.       *)
(***************************************************************************)
Found(rule) ==
  CASE rule = "topic-table-mapping"        -> TopicTableMapping
    [] rule = "sink-table-not-captured"    -> SinkTableNotCaptured
    [] rule = "sink-column-not-captured"   -> SinkColumnNotCaptured
    [] rule = "sink-column-unknown"        -> SinkColumnUnknown
    [] rule = "sink-column-flattened"      -> SinkColumnFlattened
    [] rule = "schema-before-connector"    -> SchemaBeforeConnector
    [] rule = "source-column-not-captured" -> SourceColumnNotCaptured
    [] rule = "captured-column-missing"    -> CapturedColumnMissing
    [] rule = "captured-table-missing"     -> CapturedTableMissing
    [] OTHER                               -> MVColumnMatch

-----------------------------------------------------------------------------
(* Run                                                                     *)

Report(rule, found) ==
  /\ pc = "rules"
  /\ k <= Len(RunOrder)
  /\ RunOrder[k] = rule
  /\ findings' = [findings EXCEPT ![rule] = found]
  /\ k' = k + 1
  /\ UNCHANGED <<in, pc, byTopic, reads, orphans>>

(***************************************************************************)
(* The rules that read the input and the reads and change nothing else.    *)
(***************************************************************************)
StaticRule ==
  /\ \E rule \in Rules \ {"schema-before-connector"} : Report(rule, Found(rule))
  /\ UNCHANGED raised

DiffRuleAlone ==
  /\ Report("schema-before-connector", SchemaBeforeConnector)
  /\ UNCHANGED raised

(***************************************************************************)
(* The diff rule runs before the inventory and hands it what it raised.    *)
(***************************************************************************)
DiffRule ==
  /\ Report("schema-before-connector", SchemaBeforeConnector)
  /\ raised' = SchemaBeforeConnector

RulesDone ==
  /\ pc = "rules"
  /\ k > Len(RunOrder)
  /\ pc' = "done"
  /\ UNCHANGED <<in, k, byTopic, reads, orphans, raised, findings>>

Next ==
  \/ IndexTopic \/ IndexDone
  \/ ResolveByTopic \/ TopicUnproduced \/ ResolveByConnector
  \/ ResolveByName \/ ResolveNone \/ ResolveDone
  \/ StaticRule \/ DiffRule \/ RulesDone

Spec == Init /\ [][Next]_vars

-----------------------------------------------------------------------------
(* Properties                                                              *)

Topics == {Topic(Connector, t) : t \in Source}

ReadType ==
  [sink : DOMAIN in.sinks, column : SinkNames, table : Source,
   mapping : {"topic", "connector", "table-name"}, topic : Topics,
   mapper : 0 .. Len(in.mappers), field : Columns \cup {NoColumn},
   unreached : BOOLEAN,
   shape : {ShapeUnder(m) : m \in 0 .. Len(in.mappers)}]

(***************************************************************************)
(* Every variable stays in its type; the input is never changed.           *)
(***************************************************************************)
TypeOK ==
  /\ in \in InputType
  /\ pc \in {"index", "resolve", "rules", "done"}
  /\ k \in Nat \ {0}
  /\ DOMAIN byTopic \subseteq Topics
  /\ \A tp \in DOMAIN byTopic : byTopic[tp] \in Source
  /\ reads \in SUBSET ReadType
  /\ orphans \in SUBSET DOMAIN in.sinks
  /\ raised \in SUBSET SourceColumns
  /\ DOMAIN findings = Rules

(***************************************************************************)
(* The source columns of captured tables the connector leaves out.         *)
(***************************************************************************)
LeftOut ==
  {tc \in SourceColumns : CapturesTable(Connector, tc[1]) /\ ~Captured(tc)}

AskedForButLeftOut == {f.source : f \in findings["sink-column-not-captured"]}

(***************************************************************************)
(* The three rules that can say a source column is left out - read by a    *)
(* sink, new in this change, or read by nothing yet - share the left-out   *)
(* columns out between them: each is reported by exactly one of the three, *)
(* and nothing else is.  Run's order and the raised set are what make it   *)
(* so (engine.go:195-199, diff.go:61-66).                                  *)
(***************************************************************************)
LeftOutReportedOnce ==
  pc = "done" =>
    LET asked     == AskedForButLeftOut
        new       == findings["schema-before-connector"]
        inventory == findings["source-column-not-captured"]
    IN  /\ asked \cup new \cup inventory = LeftOut
        /\ asked \cap new = {}
        /\ asked \cap inventory = {}
        /\ new \cap inventory = {}

(***************************************************************************)
(* With --base, a column this change adds to a table the connector         *)
(* captured before and captures now, and that an include list leaves out,  *)
(* never ends up as mere information: the change is the moment to decide   *)
(* (diff.go:29-53).                                                        *)
(***************************************************************************)
NewColumnIsNeverMereInformation ==
  pc = "done" =>
    \A b \in in.base, tc \in LeftOut :
      (/\ AddedSince(b, tc)
       /\ CapturedAt(b, tc[1])
       /\ ~Excludes(ColumnListSetting(Connector)))
      => tc \in AskedForButLeftOut \cup findings["schema-before-connector"]

(***************************************************************************)
(* A connector edited on the base after the fork "silences the rule for    *)
(* this run" (action.yml:60-62): the rule finds nothing when the base has  *)
(* a connector that differs from the head's.                               *)
(***************************************************************************)
EditedConnectorSilencesRule ==
  pc = "done" =>
    \A b \in in.base :
      b.changed /\ b.contract # {} => findings["schema-before-connector"] = {}

(***************************************************************************)
(* What the pipeline does with a read, said without the rules: the value   *)
(* of sink column n arrives when the table is captured and some captured   *)
(* column of it is carried under that name by the shape.                   *)
(***************************************************************************)
Carries(shape, n, col) ==
  /\ n.name = col
  /\ IF shape.kind = "flattened"
       THEN n.part \in {"after", "before"} /\ n.delim = shape.delim
       ELSE n.part = "row"

Arrives(r) ==
  /\ CapturesTable(Connector, r.table)
  /\ \E col \in in.columns[r.table] :
       Captured(<<r.table, col>>) /\ Carries(r.shape, r.column, col)

ReportedAsDefault(r) ==
  \/ \E f \in findings["sink-table-not-captured"] : f.sink = r.sink
  \/ \E f \in findings["sink-column-not-captured"] \cup findings["sink-column-unknown"] :
       f.sink = r.sink /\ f.column = r.column
  \/ \E f \in findings["sink-column-flattened"] :
       f.sink = r.sink /\ r.column \in f.columns

(***************************************************************************)
(* A sink column that would silently hold its default on every row is      *)
(* reported by one of the four sink rules, and a column that does receive  *)
(* its value is reported by none of them (engine.go:74-97, 257-344).       *)
(***************************************************************************)
SilentDefaultIffReported ==
  pc = "done" => \A r \in reads : Arrives(r) <=> ~ReportedAsDefault(r)

(***************************************************************************)
(* A read never outlives the index it was made from: the topic it names is *)
(* the one the connector puts its table on, whatever routers renamed it,   *)
(* and a read made through a sink connector is of a topic that connector   *)
(* writes to that sink table (engine.go:121-160). A read guessed from the  *)
(* name is the last resort: the sink table names no topic, no connector    *)
(* maps any topic to it, and of the source tables of that name, whatever   *)
(* their schema, it is of the first (engine.go:156-160).                   *)
(***************************************************************************)
Guessed(t, s) ==
  /\ s.topic = NoName
  /\ \A m \in DOMAIN in.mappers, fed \in Source :
       ~MappedBy(m, Topic(Connector, fed), s)
  /\ \E i \in Namesakes(s) : t = in.source[i] /\ \A j \in Namesakes(s) : i <= j

EveryReadIsFed ==
  \A r \in reads :
    /\ r.table \in Source
    /\ Topic(Connector, r.table) = r.topic
    /\ r.mapping = "topic" => in.sinks[r.sink].topic = r.topic
    /\ r.mapping = "connector" => MappedBy(r.mapper, r.topic, in.sinks[r.sink])
    /\ r.mapping = "table-name" => Guessed(r.table, in.sinks[r.sink])

(***************************************************************************)
(* The value's shape after a list of transforms, said without walking it:  *)
(* the first transform that touches the value decides, unless one touches  *)
(* it that is conditional, unknown, or unwraps what is no envelope any     *)
(* more; then nothing is known.                                            *)
(***************************************************************************)
ShapeAfter(start, transforms) ==
  LET touching == SelectSeq(transforms, LAMBDA tr : tr.type \notin {"router", "quiet"})
      known ==
        /\ start.kind # "unknown"
        /\ \A i \in DOMAIN touching :
             /\ touching[i].type # "other" /\ ~touching[i].conditional
             /\ touching[i].type = "unwrap" => i = 1 /\ start.kind = "envelope"
  IN  IF ~known THEN Plain("unknown")
      ELSE IF touching = <<>> \/ start.kind = "row" THEN start
      ELSE IF touching[1].type = "unwrap" THEN Plain("row")
      ELSE [kind |-> "flattened", delim |-> DelimOf(touching[1])]

(***************************************************************************)
(* A sink column is judged under the shape its record really has: what the *)
(* source connector emits, put through the source's transforms in their    *)
(* order and then through those of the sink connector the read was made    *)
(* by, and of no other (smt.go:40-44, engine.go:138-152).                  *)
(***************************************************************************)
ReadsHaveTheirShape ==
  LET start == Start(Connector.afterStateOnly, Connector.isDebezium)
      sinkSide(m) == IF m = 0 THEN <<>> ELSE in.mappers[m].transforms
  IN  \A r \in reads :
        r.shape = ShapeAfter(start, Connector.transforms \o sinkSide(r.mapper))

(***************************************************************************)
(* topic-table-mapping reports exactly the sink tables whose topic no      *)
(* source table produces, however many tables share a topic                *)
(* (engine.go:121-136, 240-255).                                           *)
(***************************************************************************)
OrphanTopicIffReported ==
  pc = "done" =>
    findings["topic-table-mapping"] =
      {i \in DOMAIN in.sinks :
         /\ in.sinks[i].topic # NoName
         /\ \A t \in Source : Topic(Connector, t) # in.sinks[i].topic}

(***************************************************************************)
(* A refreshable view nothing is reported of lists its target's columns in *)
(* the target's order, all of them: an insert by position puts every value *)
(* in the column it was selected for (mv.go:10-58).                        *)
(***************************************************************************)
RefreshableViewsAgree ==
  pc = "done" =>
    \A i \in DOMAIN in.views :
      LET v == in.views[i]
      IN  (/\ v.refreshable
           /\ TargetsOf(v) # {}
           /\ \A f \in findings["mv-column-match"] : f.view # i)
          => v.columns = TargetColumns(v)

(***************************************************************************)
(* A sink table that names the topic of tables the connector leaves out,   *)
(* and that has a row's column, is reported (README.md:73, "the sink reads *)
(* a table the connector does not include"). One that has only the columns *)
(* added around the row makes no read, and is not (engine.go:173).         *)
(***************************************************************************)
UncapturedTableIsReported ==
  pc = "done" =>
    \A i \in DOMAIN in.sinks :
      LET feeding == {t \in Source : Topic(Connector, t) = in.sinks[i].topic}
      IN  (/\ in.sinks[i].topic # NoName
           /\ feeding # {}
           /\ \A t \in feeding : ~CapturesTable(Connector, t)
           /\ \E n \in ToSet(in.sinks[i].columns) : n.part = "row")
          => \E f \in findings["sink-table-not-captured"] : f.sink = i

(***************************************************************************)
(* A column listed as read by nothing (README.md:75, "a source column      *)
(* nothing captures and nothing reads yet") is declared by no sink table   *)
(* on its table's topic, whatever routers renamed that. Of tables merged   *)
(* into one topic only the last indexed is known to have readers           *)
(* (engine.go:123).                                                        *)
(***************************************************************************)
NothingReadsItYet ==
  pc = "done" =>
    \A tc \in findings["source-column-not-captured"], i \in DOMAIN in.sinks :
      /\ in.sinks[i].topic # NoName
      /\ {t \in Source : Topic(Connector, t) = in.sinks[i].topic} = {tc[1]}
      =>
        \A n \in ToSet(in.sinks[i].columns) :
          Field(ValueShape(Connector), in.columns[tc[1]], n).col # tc[2]

(***************************************************************************)
(* Whether the list of that name keeps t out of the stream. A table        *)
(* exclude list is looked at only where there is no include list.          *)
(***************************************************************************)
KeepsOut(setting, t) ==
  \/ setting = "database.include.list" /\ DatabaseNotIncluded(Connector, t)
  \/ setting = "database.exclude.list" /\ DatabaseExcluded(Connector, t)
  \/ /\ setting = "table.include.list"
     /\ Connector.tableInclude # {}
     /\ ~AnyMatch(Connector.tableInclude, t)
  \/ /\ setting = "table.exclude.list"
     /\ Connector.tableInclude = {}
     /\ AnyMatch(Connector.tableExclude, t)

(***************************************************************************)
(* Where a database list or the table include list keeps a finding's table *)
(* out, the list the finding tells the author to edit is one that does: a  *)
(* database list is not passed over for a table list that lets the table   *)
(* in, nor the reverse (debezium.go:271-282, engine.go:257-276). Settings, *)
(* the lists a finding may name, does not have table.exclude.list, which   *)
(* the code never names.                                                   *)
(***************************************************************************)
NamedListKeepsTableOut ==
  pc = "done" =>
    \A f \in findings["sink-table-not-captured"] :
      (\E list \in Settings : KeepsOut(list, f.table))
        => KeepsOut(f.setting, f.table)

=============================================================================
