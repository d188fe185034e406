# A verification development of cdclint

cdclint reads three things a change-data-capture pipeline is made of: the source
schema (Postgres or MySQL migrations), the Debezium connector that decides what
is captured, and the sink (ClickHouse DDL, or warehouse tables behind a Kafka
Connect sink connector). It reports where they disagree. Nobody else will: a
column the connector leaves out, or a name that does not match, leaves a sink
column at its default on every row, without an error.

What makes the program correct is therefore one sentence in two directions: *a
sink column that will silently stay at its default is reported, and what is
reported is so*. The modules here state that, and what the rest of the program
adds to it: that a column left out is reported once and by the right rule, that
a run which passes has hidden nothing nobody decided on, that a marker silences
only what it was written for, that the base a change is compared with is one
commit, and that the tables everything is judged by are the ones the database and
the warehouse have.

TLC checks the modules on small instances. What matters most of it is also
proved for every instance with TLAPS.

## 1. The system

`cmd/cdclint` is a batch program. One run parses arguments, loads the source, the
connector and the sinks into `internal/model` values, optionally loads the same
things at a base commit through git, scans the inputs' directories for ignore
markers, runs the engine, applies the markers, filters disabled rules, prints
and exits. Nothing is persisted and there is one thread: there are no goroutines,
no retries and no timeouts. The behaviours that are hard are others:

- **order inside a run**: one rule hands the columns it raised to the next, `--disable`
  must act before the base is read and after the markers are applied;
- **Go map iteration**: the topic index is a map and `resolve` ranges over it,
  so a run is not a function of its input;
- **git**: the base is read by up to seven commands given the ref, each of which resolves it anew,
  beside other processes that move branches and edit files;
- **long legal inputs**: routers renaming topics, transforms on both sides of the
  topic, lists that are absent, empty or name nothing;
- **sequences of statements**: every table is rebuilt from migrations or DDL, one statement
  after the other, by a reader that knows no more than their text; one statement misread puts every
  later one beside the wrong table, and nothing fails.

| component | source | state | operations | correct when |
|---|---|---|---|---|
| rule engine | `internal/engine` | topic index, reads, raised columns, findings | `resolve`, ten rules, `Run` | what stays at its default is reported, once, and nothing else is |
| Debezium contract | `internal/capture/debezium` | the lists, routers and shape of one connector file | `Parse`, `CapturesTable`, `CapturesColumn`, `TableBlock`, `Topic`, `ValueShape` | decides as Debezium would |
| message transforms | `internal/smt` | the shape of a message | `Start`, `Apply` | the shape is the one that arrives |
| sink connectors | `internal/sink/connect` | subscriptions, routes, name mapping | `Consumes`, `TableFor`, `Matches`, `Reshape` | the table written is the one named |
| ignore markers | `internal/ignore` | markers, and which of them were used | `Scan`, `Apply` | silences only what it names, warns of exactly what is dead |
| base of the change | `cmd/cdclint/main.go` `LoadBase`, `internal/gitread` | commit id, files and connector read so far | `Resolve`, `Dir`, `Exists`, `Changed`, `Show` | one commit, or an error |
| command line | `cmd/cdclint` | flags, findings kept and hidden, exit code | `run`, `load`, `lint`, `TextReport` | passing means decided; "agree" means agree |
| shared model | `internal/model` | tables, columns, findings | lookups, `Sort` | |
| Postgres reader | `internal/source/postgres` | the tables so far | `Apply` per statement, one action of an ALTER TABLE at a time | the catalog the database has |
| MySQL reader | `internal/source/mysql` | the tables so far, the current database, a failure | `statement`, `qualify`, `doubleEscapedQuotes` | the same, or gives up |
| source dialect | `cmd/cdclint/source.go` | none | `sourceReader`, `pickSource` | the reader the connector asks for |
| migration halves | `internal/migrate` | whether lines are being blanked | `Down`, `Up` | reads what a forward migration runs |
| sink DDL readers | `internal/sink/{sqlddl,clickhouse}` | tables and materialized views so far | `Apply`, the hook's `Statement` and `Created` | the warehouse's tables, its views all judged |
| splitter, lexer | `internal/sqlsplit`, `internal/ddl` | place and line in a text, the open quote, the delimiter | `Split`, `SplitMySQL`, `Body`, `SplitTop`, `ItemLine`, `NameLine` | no statement lost or glued to another, lines right |
| GitHub action | `action.yml` | none | fetches the base branch, calls the command | |

Components interact by calls and values only. The splitter cuts a
file into statements for every reader, `migrate` decides which lines of a migration it sees, and the readers produce the engine's
`Input`; the engine asks the contract what is captured and on which topic, the
sink connectors which table a topic reaches, and the transforms under which name
a column arrives. The command composes the engine with the markers. Shared
mutable state is outside the program: the working tree and the git repository.

Every row but the last is modelled; section 6 says what of each is left out.

## 2. The modules

| module | models | kind |
|---|---|---|
| `EventShape` | `internal/smt`, `engine.field` | operators |
| `Contract` | `internal/capture/debezium` | operators; EXTENDS EventShape |
| `SinkConnector` | `internal/sink/connect` | operators; EXTENDS EventShape |
| `Engine` | `internal/engine` | state machine; EXTENDS Contract, SinkConnector |
| `EngineTwice` | two runs over one input, one after the other | EXTENDS Engine with what the first run found |
| `Ignore` | `ignore.Apply` | state machine |
| `Command` | `main.run`, `lint`, `TextReport` | composes Engine and Ignore |
| `BaseSnapshot` | what `LoadBase` promises | abstract specification |
| `Base` | `LoadBase` and `gitread`, one git command at a time | state machine; implements BaseSnapshot |
| `Catalog` | the database migrations run in: what it accepts, what it then has | abstract specification |
| `TableList` | the list of tables a source reader builds, the search for a column's line | operators on its variables |
| `PgReader`, `MySQLReader` | `internal/source/postgres`, `internal/source/mysql` | actions; EXTEND TableList |
| `Migrate` | `internal/migrate` beside the tool that runs the migrations | actions |
| `Sources` | a reader and a database that meet the same migrations | composes the five above |
| `SinkReader` | `internal/sink/sqlddl` with `internal/sink/clickhouse`'s hook | actions |
| `Sinks` | the sink reader and a warehouse that run the same DDL | state machine; EXTENDS SinkReader |
| `SqlSplit` | `internal/sqlsplit`, one turn of its loop at a time | state machine |
| `SqlSplitReference` | which statements a file has, said without scanning | reference; EXTENDS SqlSplit |
| `DdlText` | the quotes as `internal/ddl` and the MySQL reader see them | operators; EXTENDS SqlSplitReference |
| `EngineProofs`, `IgnoreProofs`, `BaseProofs`, `SourcesProofs`, `SinksProofs` | theorems on the module each is named for | proofs |
| `CommandProofs` | theorems on `Command`, and on `EngineTwice` | proofs; EXTENDS EngineProofs, INSTANCEs IgnoreProofs |
| `SqlSplitProofs` | theorems on `SqlSplit`, against `SqlSplitReference`, and on `DdlText` | proofs; EXTENDS DdlText |
| `ListLemmas` | lists, finite sets, and induction | lemmas; the proof modules EXTEND it |
| `MCEngine`, `MCEngineTwice`, `MCIgnore`, `MCCommand`, `MCBase`, `MCSources`, `MCSinks`, `MCSqlSplit` | instances | for TLC |

**Data.** A pattern of a connector list is the set of tables or columns it matches
(`debezium.go` compiles it to a regular expression matched against the whole name).
A name is a model value, with functions for what the code derives from one: its
last segment, what `snowflakeName` and BigQuery's replacer make of it (they differ), a table's raw topic. A sink column's name is a
record of the parts `field` tells apart: an image (`after`, `before`), an
envelope or source-block field, metadata, a row name, and the delimiter that
joins them. A flatten transform without a delimiter has the code's default, a dot. Text, wording and hints are left out.

**Engine.** `in` is `engine.Input`. `Init` is the start of `resolve`. `IndexTopic`
adds the table the first loop is at to `byTopic`; a topic two tables are routed
to keeps the table indexed last. The second loop takes the sink tables one by one:
`ResolveByTopic` and `TopicUnproduced` are the two ends of a table that names its
topic, `ResolveByConnector` takes the first mapper that writes some indexed topic
to the table and *any* such topic, since the code ranges over a map there,
`ResolveByName` is the warehouse table nobody maps, `ResolveNone` the rest. A
`Read` is made for every column `field` does not skip. `StaticRule` and `DiffRule`
apply the next rule of `RunOrder`; `DiffRule` is `schema-before-connector`, whose
columns (`raised`) the inventory then leaves out.

**Ignore.** `Keep` and `Acknowledge` are the two ends of an iteration of the first
loop over the findings, `Warn` and `Pass` of the second over the markers, which
reads the `used` the first wrote. Markers are given as Scan and parse leave them.

**Command.** `stage` is how far `run` has come. Every early return with
code 2 is a `Refuse`: flags that do not parse or are missing (`RefuseArguments`), a rule nobody knows, input that
does not load, a base git will not give, a directory that cannot be scanned. `--version` and `--help`, which
check nothing, are left out.
`UseBase` is the test that makes disabling the diff rule the same as not giving
`--base`. `RunStep` and `ApplyStep` are steps of the composed modules; `LeaveOut`
is `lint`'s filtering, `Answer` the summary line and the exit code.

**Base.** One action for each outcome of each git command. `Goto` names the
command that runs next, `Return` builds the base the way `baseFrom` does.
`MoveRef` is somebody else's push or fetch: a branch given as `--base` may name
another commit at any step, a commit id (`pinned`) may not. `DeleteRef` is somebody else's deletion of the branch:
git then answers as it does for a path that is not there, and `Exists` cannot tell the two apart (`There`). `ReadFails` is any
command that fails, or output that does not parse.

**Sources.** Two programs meet the same statements: the database, which is `Catalog`,
and a reader, `PgReader` or `MySQLReader`. Each action of `Sources` is one statement,
or one action of an ALTER TABLE, and `Meet` is its effect on both: on the database when the half of
the migration it is in is run forwards (`Runs`), on the reader when `migrate` lets it through
(`Read`). `Catalog` is guarded by what a database accepts, so every behaviour is a
sequence of migrations that did run. A statement is `guarded` when it says IF [NOT] EXISTS (in MySQL,
not the ALTER TABLE IF EXISTS of MariaDB, which `mysql.go:337` does not read) or, in MySQL, is prepared from a condition on the schema. `Catalog` keeps for each table a function from columns to types;
the reader keeps a list of tables with lists of columns, `t` being the one it is altering, and
`List!AsCatalog` is the map from the one to the other. `Mentioning` follows which names the
statement has mentioned since a column was last placed: that is what `NameLine`'s cursor can be
misled by.

**Sinks.** The same construction, for a warehouse and the reader of its DDL. Names are pairs
of a schema, possibly `Unqualified`, and a last segment; the reader keeps them as written
and finds them by either. `crashed` is a slice expression out of its bounds, after which
nothing happens. A run is about one of `Usages`: the tables and the views the files speak of, and which statements
`beyond` the shape of `sqlddl.go:1-5` they have. The reader crashes on a column list glued to a name over several lines, takes no
table from a CREATE TABLE AS without a list, forgets FIRST and AFTER, and passes over ADD or DROP without the word COLUMN, a DROP of
several tables and ALTER TABLE RENAME TO; the warehouse runs them all. Such files part the list from the warehouse, so `NotOutgrown`
ends the reading where the list has become the longer one. `hooked` is ClickHouse: only then are there Kafka engines, views, EXCHANGE and
RENAME.

**SqlSplit.** A file is a sequence of tokens, a token being whatever the loop treats in one way: a word,
a blank, a line end, a quote mark, a comment mark, a dollar tag, a delimiter, a
backslash, a DELIMITER line. `"'"` stands for either quote that may escape, `"back quote"` for
the one that may not. Every action is a turn of the loop, in the order its cases are written in;
`buf` and `out` hold places rather than text, so that a statement knows where its words came from.
`SqlSplitReference` says which places are hidden by a comment or quote, where a file is cut, and what is
kept, without a cursor.

## 3. The runs

| run | instance | distinct states | shows |
|---|---|---|---|
| `engine` | `MCEngineTwice.cfg` | 586 506 | the ten rules, over five families of inputs; over a sixth, that two runs agree while no sink table is fed from two topics |
| `ignore` | `MCIgnore.cfg` | 509 912 | what markers silence, and which are warned about |
| `command` | `MCCommand.cfg` | 166 640 | what an exit code and a summary may be taken to mean |
| `base` | `MCBase.cfg` | 10 308 | the base is a snapshot of one commit while the ref cannot move |
| `sources` | `MCSources.cfg` | 596 277 | the schema read is the database's after any migrations it accepts |
| `sinks` | `MCSinks.cfg` | 139 887 | the tables read are the warehouse's while the DDL is of the stated shape and last segments differ, and no view goes unread |
| `split` | `MCSqlSplit.cfg` | 1 499 786 | every file of five tokens is cut where it should be, and read to its end |

The properties, each with the question it answers:

- `LeftOutReportedOnce`: the columns a connector leaves out of the tables it captures
  are shared out exactly between `sink-column-not-captured`, `schema-before-connector`
  and `source-column-not-captured`. A rule run too late, or not handed over, lists a column
  twice or nowhere.
- `NewColumnIsNeverMereInformation`: a column the change adds to a table captured
  before and after, that an include list leaves out, is reported above *info*, the
  severity nobody's build fails on.
- `SilentDefaultIffReported`: under every chain of transforms, a sink column is
  reported if and only if no value would arrive in it.
- `EveryReadIsFed`, `OrphanTopicIffReported`: whatever routers rename or merge, a
  read is of a table that is on the topic named, and exactly the sink tables with a
  topic nobody produces are reported. A read guessed from a table's name is made only where no topic and no
  connector leads anywhere, and is of the first table of that name.
- `ReadsHaveTheirShape`: a sink column is judged under the shape of the record that arrives. The shape a chain of transforms
  leaves is said without walking it, so a chain walked in another order, or the wrong side's chain, shows.
- `UncapturedTableIsReported`: a sink table that names the topic of tables the connector leaves
  out is reported, if it has a single column of a row.
- `NothingReadsItYet`: a column listed as read by nothing is declared by no sink table on its
  table's topic, whatever routers renamed it to, unless tables are merged into that topic.
- `NamedListKeepsTableOut`: where a database list or the table include list keeps a table out, the list a finding tells
  the reader to change is one that does. The table exclude list is
  one the code never names.
- `RefreshableViewsAgree`: a refreshable view with no finding inserts every column
  where its target expects it.
- `SameFindingsForOneTopic`: the order in which Go meets the map's entries does not show.
- `AcknowledgedOnPurpose`, `WarningsAreExact`: nothing is silenced but by a reasoned
  marker that names its rule at its place, and the markers warned about are the ones that could go.
- `PassMeansDecided`, `DisablingDiffRuleHidesNoColumn`, `AgreeMeansAgree`: about the
  whole command.
- `IsSnapshot`: `Base` implements `BaseSnapshot`.
- `SchemaIsTheDatabases`: after any migrations, up and down halves mixed in either
  convention, in either dialect, a reader that has not given up holds the database's tables with their
  columns and types, and is altering the table the database is altering.
- `NeverTheWrongDatabase`: the MySQL reader's current database is the session's or
  unknown, also past down halves that say USE. Together with `SchemaIsTheDatabases` it says the reader
  gives up rather than place a table in a database of its own choosing.
- `PlacedWhereAdded`: a column is placed on the line that adds it, which is where its ignore
  marker is looked for, unless its statement names it in another role since the last column it placed.
- `TablesAreTheWarehouses`: the tables read are the warehouse's, columns in their order, and the reader reads on, through every
  order of CREATE in its four forms, ALTER, DROP, RENAME and EXCHANGE, names spelled either way, while the files keep to the shape
  and no two tables share a last segment.
- `EveryViewIsJudged`: of every view the warehouse has, the present definition is among those judged.
- `StatementsAreTheFiles`, `EveryWordOnItsLine`: the splitter finds the reference's statements, and
  a statement's line with the line ends in its text leads to each of its words.
- `ReadersSeeTheSameQuotes`: what the splitter kept together as quoted text in MySQL is,
  after `doubleEscapedQuotes`, what `Body` and `SplitTop`, which know no backslash, take for quoted.
- `Terminates`: the splitter reads every file to its end.
- `TypeOK`, `BaseTypeOK`, `CommandTypeOK`: the type invariants. `Base`'s is not idle: it says that
  a base's contract is a connector file even when the branch moves or is
  deleted between `git diff` and `git show`.

### Runs that end in a disagreement

Five runs state what a comment or a document says, and TLC finds it untrue of the
code. PROJECT.json quotes each line.

| run | what the run shows |
|---|---|
| `stable` | a sink table one connector feeds from two topics is resolved to either, so two runs over the same files differ |
| `agree_claim` | a run whose only finding is both acknowledged and of a disabled rule claims that the three agree |
| `later_create` | a plain CREATE TABLE whose last name segment was read before panics: the reader looks three words before a name that has two |
| `silenced` | a connector edited on the base after the fork does not silence the diff rule, as `action.yml:60-62` says it does: the rule goes column by column (`diff.go:40-47`) |
| `invented_columns` | a MySQL CREATE TABLE AS SELECT with a function call in it is read as a table whose columns are the call's arguments |

### Disagreements the passing runs allow for

Other places where the code and a document differ are exceptions, stated as exactly as possible, of a
property that otherwise holds:

- `README.md:73`: a sink table that reads a table left out is reported. Not when it declares
  metadata columns only, since those make no read (`UncapturedTableIsReported`).
- `README.md:75`: a listed column is read by nothing. Not when two tables are merged into one topic: only the
  last indexed has readers (`NothingReadsItYet`).
- `debezium.go:271`: `TableBlock` names the list that keeps a table out. A table that `table.exclude.list` alone keeps out
  is reported with `table.include.list`, since `Parse` keeps no key for the other (110). `NamedListKeepsTableOut` is about
  tables one of the other lists keeps out.
- `sqlddl.go:175-177` reads a name glued to its column list. Where that list goes over several lines, 178 searches the text
  for a word that is not in it and 179 slices from -1: `CREATE TABLE t(` with a line for each column panics. One statement of the
  usage "glued list" violates `LaterCreateReplaces`; `TablesAreTheWarehouses` is about files that do not have it.
- `sqlddl.go:7-8`: a table ends up with the columns the warehouse has. A column added FIRST or AFTER another is read as the
  last (298), and `mv-column-match` judges refreshable views by that order; the MySQL reader honours both (`mysql.go:441`).
  `TablesAreTheWarehouses` compares columns in order, over files without the usage "position".
- `split.go:10-11`: a statement's line is that of its first character. One that begins with quoted text of several
  lines is given the line that text ends on (136); `EveryWordOnItsLine` leaves these out.
- `ignore.go:113-115`: a marker warned about covers nothing. The second of two markers over
  one finding covers it, and is warned about; `WarningsAreExact` says what a warning does mean.
- `postgres.go:192`: a column is placed on its own line. `DROP COLUMN c, ADD COLUMN c`
  places it on the line of the DROP (`PlacedWhereAdded`).
- `postgres.go:107-112`: like `invented_columns`, for PARTITION OF ... FOR VALUES FROM (...).

### Bounds

*engine*: three tables in two schemas, two of them with the same name, and three
columns. A merged topic takes two tables; namesakes take two schemas; "not the
first of them" takes two. Inputs come in five families, each wide where its question is:
capture lists (every database, table and column list that is absent, names
something, or names nothing, for Postgres and MySQL) against 37 bases; up to two source and
one sink transforms of six kinds over nine kinds of name; routers that rename,
chain and merge under up to two sink connectors of six; views of up to three
columns over a target declared twice; sink tables that name one of two topics, with row and metadata columns, over tables each
kept out by one kind of list. Two source transforms are where order first
matters, and the code folds them one at a time.

*engine*, the inputs there is a second run over (`Again`): up to two mappers, since the code takes the first that maps; two or three source tables.

*ignore*: up to two findings, up to two markers, on three lines of one file and one
line of another. Two findings are where `used` set by one matters to a marker of
the other. The theorems do not have this bound.

*command*: one table, with the flags and markers of `MCCommand`. What grows with
the number of tables is the engine's and is checked there.

*base*: a ref that stays, moves or is deleted; a commit for each pair of contents, two directories and two files or neither. Two are
enough to tell changed from unchanged and one commit from another.

*sources*: two schemas, two table names, two columns, two types, tables created with one
column or both. Two schemas with the same names are what a wrong database needs; two names and a
third place to move to, what a rename that loses a table needs. `MaxTables = 2` and
`MaxColumns = 3` bound the tables there are and the columns of the reader's tables;
`MaxPassed = 3` bounds the names the search of one statement has gone past. `Next` itself is unbounded: migrations
go on forever.

*sinks*: three last segments over two schemas, each table spelled both ways, lists of one column and of two in an order of
their own. Of the files' four usages two keep to the shape (three tables; a table with three views, two of them namesakes) and two do not
(one table and every statement beyond the shape; two tables that are dropped together and renamed by ALTER).
`MaxTables = 2`, `MaxViews = 3`: EXCHANGE takes two tables, a namesake hidden by its namesake two
views, and a drop between entries three.

*split*: every file of up to `MaxTokens = 5` tokens, of ten kinds for Postgres, twelve for MySQL. The longest
mistake the scan can make by itself takes five: a quote that escapes or doubles its mark, then a delimiter, then a word.
A token is a whole mark, so a mark cut off by the end of the file is a word.

The engine, the markers, the base, and the splitter end by themselves; nothing else is capped than what is named here.

### Fairness and deadlock

One liveness property is claimed, `Terminates`, under `WF_vars(Next)` of `SqlSplit`. The loop is a single
thread that waits for nothing, so a turn that can be taken is taken. What the property
rules out is a turn that leaves the place in the file where it was, which is the way such a loop hangs.

No other specification assumes fairness: the rest of a run is a fixed
sequence of loops over finite lists, and the properties are about what it has produced at the
end. Nobody promises that a migration is ever written.

`CHECK_DEADLOCK FALSE` is given in every cfg. In most, the last state, `"done"` or `"exit"`,
has no successor; that there is no other is seen from `TypeOK`, the guards of each stage
being complementary, and from the passing runs firing every action. `Sinks` also stops where the
reader has crashed. `Sources` can go on from every state.

## 4. What is proved

Seven modules hold thirty-three theorems; every state property of the passing runs but `ReadsHaveTheirShape`, and the refinement of `BaseSnapshot`, are
among them. They rest on the modules' assumptions on their
constants alone: any set of tables, columns, names, patterns, transforms, mappers and sinks,
of any size, any sequence of migrations, and any file of any length. The assumptions are that what is given is
typed and, of the command: that what a finding points at has a place in a file
(`PlacesAssumption`), and that a file declares finitely many columns and patterns
(`FiniteAssumption`), without which the findings could not be put in a list.

**EngineProofs.** `TypeCorrect`, `ReadsAreFed`, `OrphanTopicsReported`, `LeftOutOnce`,
`NewColumnRaised`, `SilentDefaultsReported`. None of the properties is inductive. They
speak of "done", and of how findings relate to an index that was dropped long before. `IInv`
carries an account of each phase to the end:

- `IndexAgrees`: a topic in the index has a table that is on it, and after the first
  loop all of the source's topics are in it;
- `ReadsAgree`: a read says of its column what `field` says;
- `OneFeeder`: the reads of one sink table are of one source table under one shape.
  `SilentDefaultIffReported` needs it since `sink-column-flattened` reports per sink table;
- `OrphansAgree`: `orphans` are the sink tables passed whose topic nobody is on;
- `RulesAgree`: each rule already applied still holds what it finds in the present
  state. This works because no rule changes what an earlier one looked at: `reads` is
  final once the rules start, and `raised` is read by one rule only, after the one that writes it.

The properties follow at "done" from lemmas on the operators: `DiffAndInventory` (the two
rules about unread columns are disjoint and complete), `FieldCarries` (which names `field`
sends where).

`UncapturedReported`, `NothingReads`, `NamedListKeepsOut`, `RefreshableAgree`: the rest of
Engine's properties. The first two ask what was *not* read, which nothing in `IInv` says, so a second
invariant is proved on top of it: by `ReadsCover` a sink table that has been passed and names an
indexed topic has a read for each of its columns that `field` does not skip. `MaxExists` gives
`RefreshableAgree` the target that is declared last.

**IgnoreProofs.** `TypeCorrect`, `OnPurpose`, `ExactWarnings`. The invariant has one
conjunct for each loop: `FindingsAgree` says which findings stand and which are
acknowledged, by the first marker that covers each, and that `used` are exactly the
markers of `acks`; `MarkersAgree` says the warnings so far are those `Problem`
gives. The second is only meaningful because the second loop no longer writes `used`.

**BaseProofs.** `TypeCorrect`, and `ReadsOneCommit`: `BaseSpec => IsSnapshot`. `ReadSoFar`
says that while the ref cannot move what has been read so far is that commit's. Every command but
the last is then a stutter of the abstract specification, and the last is `Take` or `Fail`.
`TypeCorrect` needs more than types too: that the id and the connector are known by the
time they are used (`Known`).

**SourcesProofs.** `RightDatabase`: `Spec => []NeverTheWrongDatabase`. The reader follows USE only in what it reads
and the session only in what is run, so the invariant needs `HalvesAgree`: the
statements read are the statements run, at every place in every file. That is the theorem about
`migrate` too: an up marker ends a down section, the end of a file does, and a down file is passed over whole
(`HalvesChange`). What remains is that no other statement moves either (`SameDatabase`, and
`FollowsUse` for the one that does).

`SchemaRead`: `Spec => []SchemaIsTheDatabases`, for both dialects. `Mirrors` relates the reader's list to the
catalog: an id has one table in the list, a table's columns match its catalog entry in both
directions, and `t` is the place of the table being altered. `Matching...` lemmas say what adding, dropping and
replacing a column does to a match, `Mirrored...` ones what adding, dropping, renaming and altering a table does;
below them each statement of each dialect is one lemma. In MySQL the list mirrors the catalog until the reader
gives up, and no longer (`StaysFailed`). The theorem supposes `TRUE \notin Parentheses`: no CREATE TABLE without a
column list has a parenthesis in its other clauses. `invented_columns` shows that without this it is
false, and that is what the `sources` run checks it under too.

`SourcesTyped`: the types, with `Invented` columns as well. `ColumnsPlaced`: the cursor `NameLine` searches from is
not moved by every action, so `CursorInv` says what it can have gone past: names mentioned since the last column placed.

**SinksProofs.** `ViewsJudged`: `Spec => []EveryViewIsJudged`. With the type of an entry the property is
inductive: a CREATE appends an entry with the present definition and leaves the others, and the entry a DROP
takes out is of the view that is gone (`DroppedByName`), every other one staying (`OthersStay`).

`TablesRead`: `Spec => []TablesAreTheWarehouses`. By `WarehouseInv` the list shows the warehouse, columns in
their order, while the files are of the shape (`OfTheShape`) and no two tables share a last segment: `Found` is the lemma that then the first entry whose name or last segment matches is
the entry of the table meant, which every statement rests on; that the reader has not crashed is a part of the
invariant. That the place of a column in an entry is its place in the warehouse is why dropping and renaming, which the
reader does by searching, agree. `SinksTyped` supposes this for one conjunct only, that no column is there twice: a reader that alters a
namesake may give a column a name the table already has.

**CommandProofs.** `CommandTyped`, `PassIsDecided`, `DisabledRuleHidesNothing`, `AgreementIsReal`: what an exit code and a
summary mean, for every input, every marker and every flag. The command composes two machines, so `CInv` carries
both of their invariants through its stages, the engine's because each of its steps is a step of
`Engine` or changes only the base before the engine starts (`StartedIInv`), the markers' because `Marking` and
`Marks`, the instances of `Ignore` and of `IgnoreProofs`, have the same steps (`ApplyKeeps`). What is left to say is the hand-overs:
the base is gone when the diff rule is disabled (`RunPart`), what Apply has is the list of what the engine found
(`ApplyPart`), what is shown and claimed is computed from what Apply left (`AnswerPart`). `ListingLists` is where the theorems
meet: every finding is in the list, because there are finitely many (`FindingsFinite`), and has a place a marker can
cover (`Placed`). Then `PassIsDecided` is short: a column without a value is reported (`ArrivesOrReported`), its finding is in the
list (`HasFinding`), and stands or is acknowledged (`EachSortedOut`).

`OneTopicOneAnswer`: `TwiceSpec => []SameFindingsForOneTopic`. What two runs have in common is said by a third
account (`TwiceInv`): after the first loop the index maps every topic to the table on it that comes last in the
source, whichever way it got there (`IndexIsLast`), and for a sink table fed from at most one topic `Feeders` has one
element, so that resolving it gives exactly the reads it is due (`ReadsAreDue`). The findings are then a
function of the input and the reads; `FindingsTotal` says there are no others. The assumption is the property's: where two topics
feed one sink table, `stable` shows two answers.

**SqlSplitProofs.** `StatementsKept`, `LinesKept`, `TypesKept`: what `done` leaves in `out` is the outcome of a scan that walks on by one
place or by many, and the reference definition says it without scanning. `Inv` is what each variable is, at any place `i`, in terms
of the file. `Scan` says where the scan is: outside a dollar quote everything that opened before `i` has closed (`Outside`), inside one its
tag has not come again (`Inside`), `bol` and `delim` are what the file has them be (`BolIs`, `DelimIs`). `BufIs` says that the buffer holds the
places kept since the last cut, `OutIs` that the statements put out are those of the cuts passed, `StartIs` and `LineIs` which lines are counted. A
turn keeps it in two steps: one lemma per action says which places it reads and what it adds or ends (`Reads`, `Adds`, `Ends`), and
`Adding` and `Ending` say what that does to `Inv`, whichever action it was.

The reference definition's functions are recursive (`Free`, `Taken`), and so is the scan's search for a quote's end. That each
exists and satisfies its equation (`FreeIs`, `TakenIs`, `QuoteEndIs`) is shown by induction over a set of numbers (`Induction` of `ListLemmas`), which
needs no operator as a parameter. `QuoteEndsWhereItCloses` is where two of them meet: the scan, which steps over an escaped or
doubled mark, stops at the first mark that is not `Taken` by the one before it.

`QuotesReadTheSame`: the readers go through a statement by themselves, and `Escaping` and `InQuote` are recursive again. `OutParts` says
of a statement what they need: all that is kept between two of its places is in it, and so is whatever hides one. It goes on in one
of four ways (`Ways`): outside quoted text, into it, within it, out of it. `NotesGoOn` shows that each keeps what `doubleEscapedQuotes`
notes right (`Notes`), and `QuoteGoesOn` what `Body`, `SplitTop` and `Words` wait for (`Right`). An identifier whose back quote is never
closed is the exception in `Notes`: the rewriting does not see it, and as the rest of the file is then in it, nothing is lost.

`TurnsReadOn`: every turn reads on within the file or is the return. That is all of `Terminates` but fairness.

## 5. Only model-checked

- The schema read where a CREATE TABLE ... AS SELECT has parentheses, and the tables of sinks whose last segments collide
  or whose DDL is outside the stated shape: there the properties do not hold (`invented_columns`, and the premises of `TablesAreTheWarehouses`).
- What a fold computes (`FoldLeft` over transforms, routers, or rules): `EngineProofs` uses only the type of what a fold
  returns. `ReadsHaveTheirShape`, which is about one, is checked over every chain of the `engine` run's bounds and not proved.
- `Terminates`: liveness under fairness and ENABLED are beyond the prover. `TurnsReadOn` leaves only that there
  is a turn to take while `done` is FALSE.

## 6. What the abstractions leave out

- Regular expressions: whether a pattern compiles and what it matches is input. So is
  whether a hint would be given for a pattern that matches nothing.
- `RegexRouter`'s predicates: the code ignores them as the model does.
- The order `Sort` gives findings: nothing after it depends on it.
- JSON output: lists the same findings. `--version` and `--help`.
- git's `export-ignore`, and paths relative to the current directory.
- Of the source readers: the primary key and the replica identity, which no rule reads; the order of columns in the
  catalog (it is checked nowhere, as only sinks are ordered); temporary tables; `search_path`; CREATE TABLE (LIKE x) of Postgres.
  A name stands for all the spellings that fold to it. The actions of an ALTER TABLE are legal one after
  another. The session lasts from file to file, and the database a connection starts in is the one the
  tool is given, if it is given any. A prepared statement is `guarded` and otherwise like any other.
- Of the Postgres reader: the words of a type. `typeWords` (`postgres.go:146-154`) does not stop at USING, so the type it reads
  from ALTER COLUMN c TYPE t USING e may be longer than the catalog's.
- Of the sink readers: types and lines. Unqualified names belong to one schema for the whole of the DDL.
- Of the lexer: parentheses, and how a text is cut into words. Of the splitter: E'' strings and nested
  block comments, which the code does not treat either; a DELIMITER line is one token, and only blanks follow it. A DELIMITER
  that is not at a line's start is kept as one opaque word, where `split.go:148-157` emits it character by character and would cut
  at the delimiter within it.
- An editor that saves a file between two reads of one run.

## 7. Hazards

PROJECT.json lists the places where this code is hard to test, with the
properties that would catch each going wrong. The ones no property covers yet are outside what one
run of the program sees (a column dropped on the
base's tip after the branch left it, files edited while a run reads them, a base the action could not
fetch), in statements the models leave out (temporary tables, `search_path`), or in sink DDL
outside the shape the reader is for, which the model has and `TablesAreTheWarehouses` excludes by its premise.

## 8. Plan

In order; (done) is what the modules above are.

1. (done) `EventShape`, `Contract`, `SinkConnector`, `Engine`, with proofs.
2. (done) `Ignore`, with proofs; `Command` over both.
3. (done) `Base` against `BaseSnapshot`, with the refinement proved.
4. (done) `Catalog`, `TableList`, `PgReader`, `MySQLReader`, `Migrate`, composed as `Sources`.
5. (done) `SinkReader` against a warehouse, in `Sinks`.
6. (done) `SqlSplit` against `SqlSplitReference`, and the quotes of `DdlText`.
7. (done) Proofs of `Command`'s properties from the theorems on Engine and Ignore, of `SameFindingsForOneTopic`,
   `SchemaIsTheDatabases`, `PlacedWhereAdded`, `TablesAreTheWarehouses`, and of the type invariants.
8. (done) Proofs of the splitter's properties: its types, its statements, its lines, and the quotes as the readers see them.

Not planned: the merging of pull requests. Which of two green changes is merged first and whether the second
is checked again is the policy of a repository that uses cdclint, and nothing in this code decides it.
