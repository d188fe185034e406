---------------------------- MODULE CommandProofs ---------------------------
(***************************************************************************)
(* What an invocation of the command promises, proved for every input and  *)
(* every command line.                                                     *)
(*                                                                         *)
(* The command composes two machines whose invariants are proved           *)
(* elsewhere: the engine's (IInv of EngineProofs) and the markers' (IInv   *)
(* of IgnoreProofs, here Marks!IInv). Both are carried through the stages  *)
(* of the command. What the command adds is an account of the hand-overs:  *)
(* the base is gone when the diff rule is disabled (RunPart), what Apply   *)
(* is given is the list of what the engine found (ApplyPart), and what is  *)
(* shown, left out and claimed is computed from what Apply left            *)
(* (AnswerPart). That a list of the findings exists at all needs them to   *)
(* be finitely many.                                                       *)
(*                                                                         *)
(* And what two invocations over the same files have in common: where no   *)
(* sink connector writes two topics into one sink table, what they find    *)
(* (OneTopicOneAnswer).                                                    *)
(***************************************************************************)
EXTENDS Command, EngineTwice, EngineProofs, ListLemmas

Marks == INSTANCE IgnoreProofs
           WITH RuleNames <- KnownRules, DiffRules <- {Diff}, Cases <- {},
                pc <- mpc, k <- mk


-----------------------------------------------------------------------------
(***************************************************************************)
(* What the run is given, and that it finds finitely much in it.           *)
(***************************************************************************)

(***************************************************************************)
(* The input is one the command may be given, without its base perhaps.    *)
(***************************************************************************)
GivenInput ==
  \E input \in Inputs : in \in {input, [input EXCEPT !.base = {}]}

LEMMA GivenIsInput ==
  ASSUME GivenInput
  PROVE  /\ in \in InputType
         /\ [in EXCEPT !.base = {}] \in InputType
         /\ \A t \in Tables : IsFiniteSet(in.columns[t])
         /\ IsFiniteSet(in.contract.columnInclude)
         /\ IsFiniteSet(in.contract.tableInclude)
         /\ \A i \in DOMAIN in.sinks :
              /\ SinkAt(i) \in Places
              /\ \A n \in ToSet(in.sinks[i].columns) : SinkColumnAt(i, n) \in Places
         /\ \A i \in DOMAIN in.views : ViewAt(i) \in Places
<1>1. PICK input \in Inputs : in \in {input, [input EXCEPT !.base = {}]}
  BY DEF GivenInput
<1>2. input \in InputType
  BY EngineAssumption
<1>3. /\ in.source = input.source /\ in.columns = input.columns
      /\ in.contract = input.contract /\ in.sinks = input.sinks
      /\ in.views = input.views
      /\ in \in InputType /\ [in EXCEPT !.base = {}] \in InputType
  BY <1>1, <1>2 DEF InputType
<1>4. /\ \A t \in Tables : IsFiniteSet(input.columns[t])
      /\ IsFiniteSet(input.contract.columnInclude)
      /\ IsFiniteSet(input.contract.tableInclude)
  BY FiniteAssumption
<1>5. /\ \A i \in DOMAIN input.sinks :
           /\ SinkAt(i) \in Places
           /\ \A n \in ToSet(input.sinks[i].columns) : SinkColumnAt(i, n) \in Places
      /\ \A i \in DOMAIN input.views : ViewAt(i) \in Places
  BY PlacesAssumption
<1> QED
  BY <1>3, <1>4, <1>5

(***************************************************************************)
(* The reads are finitely many, each of a column its sink table declares.  *)
(***************************************************************************)
ReadsDeclared ==
  /\ IsFiniteSet(reads)
  /\ \A r \in reads : r.column \in ToSet(in.sinks[r.sink].columns)

LEMMA ReadsStayDeclared ==
  ASSUME IInv, ReadsDeclared, [Next]_vars
  PROVE  ReadsDeclared'
<1>1. UNCHANGED in
  BY DEF Next, IndexTopic, IndexDone, ResolveByTopic, TopicUnproduced,
         ResolveByConnector, ResolveByName, ResolveNone, ResolveDone, Resolving,
         StaticRule, DiffRule, RulesDone, Report, vars
<1>2. ASSUME NEW t, NEW mapping, NEW topic, NEW m, k \in DOMAIN in.sinks,
             ReadFrom(t, mapping, topic, m)
      PROVE  ReadsDeclared'
  <2> DEFINE received == {n \in ToSet(in.sinks[k].columns) :
                            ~Field(ShapeUnder(m), in.columns[t], n).skip}
             f == [n \in received |-> Read(k, n, t, mapping, topic, m)]
             added == {f[n] : n \in DOMAIN f}
  <2>1. in.sinks[k].columns \in Seq(SinkNames)
    <3>1. in.sinks \in Seq(SinkTables)
      BY InputFields DEF IInv, TypeOK
    <3>2. in.sinks[k] \in SinkTables
      BY <1>2, <3>1
    <3> QED
      BY <3>2 DEF SinkTables
  <2>2. IsFiniteSet(received)
    BY <2>1, ToSetFinite, FS_Subset
  <2>3. IsFiniteSet(added)
    <3>1. DOMAIN f = received
      OBVIOUS
    <3> HIDE DEF f, received
    <3> QED
      BY <2>2, <3>1, ImageFinite
  <2>4. reads' = reads \cup added
    BY <1>2 DEF ReadFrom
  <2>5. IsFiniteSet(reads')
    BY <2>3, <2>4, FS_Union DEF ReadsDeclared
  <2>6. \A r \in added : r.column \in ToSet(in.sinks[r.sink].columns)
    <3>1. \A n \in received : f[n].column = n /\ f[n].sink = k
      BY DEF Read
    <3>2. \A n \in received : n \in ToSet(in.sinks[k].columns)
      OBVIOUS
    <3> HIDE DEF f, received
    <3>3. DOMAIN f = received
      BY DEF f
    <3> QED
      BY <3>1, <3>2, <3>3
  <2> HIDE DEF added
  <2> QED
    BY <1>1, <2>4, <2>5, <2>6 DEF ReadsDeclared
<1>3. in.sinks \in Seq(SinkTables) /\ k \in Nat \ {0}
  BY InputFields DEF IInv, TypeOK
<1>4. CASE ResolveByTopic \/ ResolveByConnector \/ ResolveByName
  <2>1. k \in DOMAIN in.sinks
    BY <1>3, <1>4 DEF ResolveByTopic, ResolveByConnector, ResolveByName, Resolving
  <2>2. \E t, mapping, topic, m : ReadFrom(t, mapping, topic, m)
    BY <1>4 DEF ResolveByTopic, ResolveByConnector, ResolveByName
  <2> QED
    BY <1>2, <2>1, <2>2
<1>5. CASE UNCHANGED reads
  BY <1>1, <1>5 DEF ReadsDeclared
<1> QED
  BY <1>4, <1>5
  DEF Next, IndexTopic, IndexDone, TopicUnproduced, ResolveNone, ResolveDone,
      StaticRule, DiffRule, Report, RulesDone, vars

(***************************************************************************)
(* The columns of the source are finitely many.                            *)
(***************************************************************************)
LEMMA SourceColumnsFinite ==
  ASSUME GivenInput
  PROVE  IsFiniteSet(SourceColumns)
<1>1. in.source \in Seq(Tables) /\ Source \subseteq Tables
  BY GivenIsInput, InputFields
<1>2. IsFiniteSet(Source)
  BY <1>1, ToSetFinite DEF Source
<1> DEFINE f == [t \in Source |-> {t} \X in.columns[t]]
           parts == {f[t] : t \in DOMAIN f}
<1>3. IsFiniteSet(parts)
  BY <1>2, ImageFinite
<1>4. \A part \in parts : IsFiniteSet(part)
  <2>1. \A t \in Source : IsFiniteSet({t}) /\ IsFiniteSet(in.columns[t])
    BY <1>1, GivenIsInput, FS_Singleton
  <2>2. \A t \in Source : IsFiniteSet({t} \X in.columns[t])
    BY <2>1, FS_Product
  <2> QED
    BY <2>2
<1>5. IsFiniteSet(UNION parts)
  BY <1>3, <1>4, FS_UNION
<1>6. SourceColumns \subseteq UNION parts
  BY DEF SourceColumns, ColumnOf
<1> QED
  BY <1>5, <1>6, FS_Subset

(***************************************************************************)
(* So each rule finds finitely much.                                       *)
(***************************************************************************)
LEMMA FindingsFinite ==
  ASSUME GivenInput, IInv, ReadsDeclared, pc = "done", NEW rule \in Rules
  PROVE  IsFiniteSet(findings[rule])
<1>1. findings[rule] = Found(rule)
  BY FoundAtEnd
<1>2. ASSUME NEW S \in SUBSET reads, NEW f, DOMAIN f = S
      PROVE  IsFiniteSet({f[r] : r \in S})
  BY <1>2, ImageFinite, FS_Subset DEF ReadsDeclared
<1>3. IsFiniteSet(TopicTableMapping)
  <2>1. orphans \in SUBSET (1 .. Len(in.sinks)) /\ Len(in.sinks) \in Nat
    BY InputFields DEF IInv, TypeOK
  <2>2. IsFiniteSet(1 .. Len(in.sinks))
    BY <2>1, FS_Interval
  <2> QED
    BY <2>1, <2>2, FS_Subset DEF TopicTableMapping
<1>4. IsFiniteSet(SinkTableNotCaptured)
  <2> DEFINE S == {x \in reads : ~CapturesTable(Connector, x.table)}
             f == [r \in S |-> [sink |-> r.sink, table |-> r.table,
                                setting |-> TableBlock(Connector, r.table)]]
  <2>1. SinkTableNotCaptured = {f[r] : r \in S}
    BY DEF SinkTableNotCaptured
  <2>2. S \in SUBSET reads /\ DOMAIN f = S
    OBVIOUS
  <2> HIDE DEF S, f
  <2> QED
    BY <1>2, <2>1, <2>2
<1>5. IsFiniteSet(SinkColumnNotCaptured)
  <2> DEFINE S == {x \in reads : /\ CapturesTable(Connector, x.table)
                                 /\ ~x.unreached
                                 /\ x.field \in in.columns[x.table]
                                 /\ ~Captured(<<x.table, x.field>>)}
             f == [r \in S |-> [sink |-> r.sink, column |-> r.column,
                                source |-> <<r.table, r.field>>]]
  <2>1. SinkColumnNotCaptured = {f[r] : r \in S}
    BY DEF SinkColumnNotCaptured
  <2>2. S \in SUBSET reads /\ DOMAIN f = S
    OBVIOUS
  <2> HIDE DEF S, f
  <2> QED
    BY <1>2, <2>1, <2>2
<1>6. IsFiniteSet(SinkColumnUnknown)
  <2> DEFINE S == {x \in reads : ~x.unreached /\ x.field \notin in.columns[x.table]}
             f == [r \in S |-> [sink |-> r.sink, column |-> r.column]]
  <2>1. SinkColumnUnknown = {f[r] : r \in S}
    BY DEF SinkColumnUnknown
  <2>2. S \in SUBSET reads /\ DOMAIN f = S
    OBVIOUS
  <2> HIDE DEF S, f
  <2> QED
    BY <1>2, <2>1, <2>2
<1>7. IsFiniteSet(SinkColumnFlattened)
  <2> DEFINE S == {r \in reads : r.unreached}
             all(i) == [sink |-> i, columns |-> {r.column : r \in {x \in S : x.sink = i}}]
             f == [r \in S |-> all(r.sink)]
  <2>1. SinkColumnFlattened = {f[r] : r \in S}
    <3>1. SinkColumnFlattened = {all(i) : i \in {r.sink : r \in S}}
      BY DEF SinkColumnFlattened
    <3> HIDE DEF S, all
    <3> QED
      BY <3>1
  <2>2. S \in SUBSET reads /\ DOMAIN f = S
    OBVIOUS
  <2> HIDE DEF S, f
  <2> QED
    BY <1>2, <2>1, <2>2
<1>8. IsFiniteSet(SchemaBeforeConnector) /\ IsFiniteSet(SourceColumnNotCaptured)
  <2>1. /\ SchemaBeforeConnector \in SUBSET SourceColumns
        /\ SourceColumnNotCaptured \in SUBSET SourceColumns
    BY DEF SchemaBeforeConnector, SourceColumnNotCaptured
  <2> QED
    BY <2>1, SourceColumnsFinite, FS_Subset
<1>9. IsFiniteSet(CapturedColumnMissing) /\ IsFiniteSet(CapturedTableMissing)
  <2>1. /\ Connector.columnInclude = in.contract.columnInclude
        /\ Connector.tableInclude = in.contract.tableInclude
    <3>1. in.contract \in Configs
      BY GivenIsInput DEF InputType
    <3> QED
      BY <3>1 DEF Connector, Parse, Configs
  <2>2. /\ CapturedColumnMissing \in SUBSET in.contract.columnInclude
        /\ CapturedTableMissing \in SUBSET in.contract.tableInclude
    BY <2>1 DEF CapturedColumnMissing, CapturedTableMissing
  <2> QED
    BY <2>2, GivenIsInput, FS_Subset
<1>10. IsFiniteSet(MVColumnMatch)
  <2> DEFINE kinds == {"order", "count", "unknown"}
             pairs == (DOMAIN in.views) \X kinds
             f == [x \in pairs |-> [view |-> x[1], problem |-> x[2]]]
  <2>1. IsFiniteSet(kinds)
    <3>1. IsFiniteSet({"order"} \cup {"count"})
      BY FS_Singleton, FS_AddElement
    <3>2. kinds = ({"order"} \cup {"count"}) \cup {"unknown"}
      OBVIOUS
    <3> QED
      BY <3>1, <3>2, FS_AddElement
  <2>2. IsFiniteSet(DOMAIN in.views)
    <3>1. in.views \in Seq(Views)
      BY GivenIsInput DEF InputType
    <3>2. DOMAIN in.views = 1 .. Len(in.views) /\ Len(in.views) \in Nat
      BY <3>1
    <3> QED
      BY <3>2, FS_Interval
  <2> HIDE DEF kinds
  <2>3. IsFiniteSet({f[x] : x \in DOMAIN f})
    <3>1. IsFiniteSet(pairs) /\ DOMAIN f = pairs
      BY <2>1, <2>2, FS_Product
    <3> HIDE DEF f, pairs
    <3> QED
      BY <3>1, ImageFinite
  <2>4. MVColumnMatch \subseteq {f[x] : x \in DOMAIN f}
    <3> SUFFICES ASSUME NEW z \in MVColumnMatch
                 PROVE  z \in {f[x] : x \in DOMAIN f}
      OBVIOUS
    <3>1. PICK i \in DOMAIN in.views :
            \E p \in ViewProblems(in.views[i]) : z = [view |-> i, problem |-> p]
      BY DEF MVColumnMatch
    <3>2. PICK p \in ViewProblems(in.views[i]) : z = [view |-> i, problem |-> p]
      BY <3>1
    <3>3. <<i, p>> \in pairs
      BY DEF ViewProblems, kinds
    <3>4. f[<<i, p>>] = [view |-> i, problem |-> p]
      BY <3>3
    <3> QED
      BY <3>2, <3>3, <3>4
  <2> QED
    BY <2>3, <2>4, FS_Subset
<1> QED
  BY <1>1, <1>3, <1>4, <1>5, <1>6, <1>7, <1>8, <1>9, <1>10 DEF Found

(***************************************************************************)
(* Every finding has a place in some file, so that a marker can cover it.  *)
(***************************************************************************)
LEMMA Placed ==
  ASSUME GivenInput, IInv, ReadsDeclared, pc = "done",
         NEW rule \in Rules, NEW f \in findings[rule]
  PROVE  Position(rule, f) \in Places
<1>1. findings[rule] = Found(rule)
  BY FoundAtEnd
<1>2. \A r \in reads : r.sink \in DOMAIN in.sinks
                       /\ r.column \in ToSet(in.sinks[r.sink].columns)
  BY DEF IInv, TypeOK, ReadType, ReadsDeclared
<1>3. /\ \A i \in DOMAIN in.sinks :
           /\ SinkAt(i) \in Places
           /\ \A n \in ToSet(in.sinks[i].columns) : SinkColumnAt(i, n) \in Places
      /\ \A i \in DOMAIN in.views : ViewAt(i) \in Places
  BY GivenIsInput
<1>4. CASE rule = "topic-table-mapping"
  <2>1. f \in DOMAIN in.sinks
    BY <1>1, <1>4 DEF Found, TopicTableMapping, IInv, TypeOK
  <2>2. Position(rule, f) = SinkAt(f)
    BY <1>4 DEF Position, Diff
  <2> QED
    BY <1>3, <2>1, <2>2
<1>5. CASE rule \in {"sink-table-not-captured", "sink-column-flattened"}
  <2>1. f.sink \in DOMAIN in.sinks
    <3>1. CASE rule = "sink-table-not-captured"
      BY <1>1, <1>2, <3>1 DEF Found, SinkTableNotCaptured
    <3>2. CASE rule = "sink-column-flattened"
      <4>1. \E r \in reads : f.sink = r.sink
        BY <1>1, <3>2 DEF Found, SinkColumnFlattened
      <4> QED
        BY <1>2, <4>1
    <3> QED
      BY <1>5, <3>1, <3>2
  <2>2. Position(rule, f) = SinkAt(f.sink)
    BY <1>5 DEF Position, Diff
  <2> QED
    BY <1>3, <2>1, <2>2
<1>6. CASE rule \in {"sink-column-not-captured", "sink-column-unknown"}
  <2>1. \E r \in reads : f.sink = r.sink /\ f.column = r.column
    <3>1. CASE rule = "sink-column-not-captured"
      <4>1. f \in SinkColumnNotCaptured
        BY <1>1, <3>1 DEF Found
      <4>2. PICK r \in reads : f = [sink |-> r.sink, column |-> r.column,
                                   source |-> <<r.table, r.field>>]
        BY <4>1 DEF SinkColumnNotCaptured
      <4> QED
        BY <4>2
    <3>2. CASE rule = "sink-column-unknown"
      BY <1>1, <3>2 DEF Found, SinkColumnUnknown
    <3> QED
      BY <1>6, <3>1, <3>2
  <2>2. f.sink \in DOMAIN in.sinks /\ f.column \in ToSet(in.sinks[f.sink].columns)
    BY <1>2, <2>1
  <2>3. Position(rule, f) = SinkColumnAt(f.sink, f.column)
    BY <1>6 DEF Position, Diff
  <2> QED
    BY <1>3, <2>2, <2>3
<1>7. CASE rule \in {Diff, "source-column-not-captured"}
  <2>1. f \in ColumnOf
    BY <1>1, <1>7
    DEF Diff, Found, SchemaBeforeConnector, SourceColumnNotCaptured, SourceColumns
  <2> QED
    BY <1>7, <2>1, PlacesAssumption DEF Position, Diff
<1>8. CASE rule = "mv-column-match"
  <2>1. f.view \in DOMAIN in.views
    BY <1>1, <1>8 DEF Found, MVColumnMatch
  <2>2. Position(rule, f) = ViewAt(f.view)
    BY <1>8 DEF Position, Diff
  <2> QED
    BY <1>3, <2>1, <2>2
<1>9. CASE rule \in {"captured-column-missing", "captured-table-missing"}
  BY <1>9, PlacesAssumption DEF Position, Diff
<1> QED
  BY <1>4, <1>5, <1>6, <1>7, <1>8, <1>9 DEF Rules, RunOrder, Diff

LEMMA FindingsPlaced ==
  ASSUME GivenInput, IInv, ReadsDeclared, pc = "done",
         NEW rule \in Rules, NEW f \in findings[rule]
  PROVE  FindingOf(rule, f) \in Marking!Findings
<1>1. Position(rule, f) \in Places
  BY Placed
<1>2. Severity(rule) \in Marking!Severities /\ rule \in KnownRules
  BY DEF Severity, Marking!Severities, KnownRules
<1> QED
  BY <1>1, <1>2 DEF FindingOf, Marking!Findings, Places

(***************************************************************************)
(* What the command hands on is a list of every finding of the run.        *)
(***************************************************************************)
LEMMA ListingLists ==
  ASSUME GivenInput, IInv, ReadsDeclared, pc = "done"
  PROVE  /\ Listing \in Seq(Marking!Findings)
         /\ \A rule \in Rules : \A f \in findings[rule] :
              \E i \in DOMAIN Listing : Listing[i] = FindingOf(rule, f)
<1> DEFINE f == [rule \in Rules |-> {rule} \X findings[rule]]
           parts == {f[rule] : rule \in DOMAIN f}
           all == SetToSeq(Reported)
<1>1. IsFiniteSet(Reported)
  <2>1. IsFiniteSet(Rules)
    <3>1. Rules = {RunOrder[i] : i \in DOMAIN RunOrder} /\ DOMAIN RunOrder = 1 .. 10
      BY DEF Rules, RunOrder
    <3>2. IsFiniteSet(1 .. 10)
      <4>1. 1 \in Int /\ 10 \in Int
        OBVIOUS
      <4> QED
        BY <4>1, FS_Interval
    <3> QED
      BY <3>1, <3>2, ImageFinite
  <2>2. IsFiniteSet(parts)
    BY <2>1, ImageFinite
  <2>3. \A part \in parts : IsFiniteSet(part)
    <3>1. \A rule \in Rules : IsFiniteSet({rule}) /\ IsFiniteSet(findings[rule])
      BY FindingsFinite, FS_Singleton
    <3>2. \A rule \in Rules : IsFiniteSet({rule} \X findings[rule])
      BY <3>1, FS_Product
    <3> QED
      BY <3>2
  <2>4. Reported = UNION parts
    BY DEF Reported
  <2> QED
    BY <2>2, <2>3, <2>4, FS_UNION
<1>2. /\ Len(all) \in Nat /\ DOMAIN all = 1 .. Len(all)
      /\ \A i \in DOMAIN all : all[i] \in Reported
      /\ \A x \in Reported : \E i \in DOMAIN all : all[i] = x
  BY <1>1, LaidOut
<1>3. Listing = [i \in DOMAIN all |-> FindingOf(all[i][1], all[i][2])]
  BY DEF Listing
<1>4. ASSUME NEW rule \in Rules, NEW x \in findings[rule]
      PROVE  \E i \in DOMAIN Listing : Listing[i] = FindingOf(rule, x)
  <2>1. <<rule, x>> \in Reported
    BY DEF Reported
  <2>2. PICK i \in DOMAIN all : all[i] = <<rule, x>>
    BY <1>2, <2>1
  <2> HIDE DEF all
  <2> QED
    BY <1>3, <2>2
<1>5. \A i \in DOMAIN all : FindingOf(all[i][1], all[i][2]) \in Marking!Findings
  <2> SUFFICES ASSUME NEW i \in DOMAIN all
               PROVE  FindingOf(all[i][1], all[i][2]) \in Marking!Findings
    OBVIOUS
  <2>1. PICK rule \in Rules : all[i] \in {rule} \X findings[rule]
    BY <1>2 DEF Reported
  <2>2. all[i][1] = rule /\ all[i][2] \in findings[rule]
    BY <2>1
  <2> QED
    BY <2>2, FindingsPlaced
<1>6. Listing \in Seq(Marking!Findings)
  <2> HIDE DEF all
  <2> QED
    BY <1>2, <1>3, <1>5
<1> QED
  BY <1>4, <1>6

-----------------------------------------------------------------------------
(***************************************************************************)
(* The markers' part, carried over from IgnoreProofs.                      *)
(***************************************************************************)

(***************************************************************************)
(* What is assumed of Ignore's constants holds of what the command gives   *)
(* it.                                                                     *)
(***************************************************************************)
LEMMA MarksAssumptions ==
  /\ NotARule \notin KnownRules
  /\ {Diff} \subseteq KnownRules
  /\ Marks!IgnoreMarker \in KnownRules
  /\ {} \subseteq Marks!CaseType
BY CommandAssumption DEF KnownRules, Rules, RunOrder, Diff, Marks!IgnoreMarker

LEMMA ApplyKeeps ==
  ASSUME Marks!IInv, Marking!Next \/ UNCHANGED applying
  PROVE  Marks!IInv'
<1>1. Marking!Next => Marks!Next
  BY Zenon
  DEF Marking!Next, Marking!Keep, Marking!Acknowledge, Marking!FindingsDone,
      Marking!Warn, Marking!Pass, Marking!MarkersDone, Marking!AtFinding,
      Marking!AtMarker, Marking!CoveredBy, Marking!Acknowledges, Marking!Covers,
      Marking!Valid, Marking!Problem, Marking!JudgedNow, Marking!Min,
      Marks!Next, Marks!Keep, Marks!Acknowledge, Marks!FindingsDone,
      Marks!Warn, Marks!Pass, Marks!MarkersDone, Marks!AtFinding,
      Marks!AtMarker, Marks!CoveredBy, Marks!Acknowledges, Marks!Covers,
      Marks!Valid, Marks!Problem, Marks!JudgedNow, Marks!Min
<1>2. [Marks!Next]_(Marks!vars)
  BY <1>1 DEF Marks!vars, applying
<1> QED
  BY <1>2, MarksAssumptions, Marks!NextIInv

(***************************************************************************)
(* Before Apply nothing is sorted out.                                     *)
(***************************************************************************)
BeforeApply ==
  /\ mpc = "findings" /\ mk = 1
  /\ kept = {} /\ acks = {} /\ used = {} /\ warned = {}

Handed ==
  /\ given \in Seq(Marking!Findings)
  /\ markers \in Seq(Marking!Markers)
  /\ ran \in SUBSET KnownRules

LEMMA ApplyStarts == BeforeApply /\ Handed => Marks!IInv
<1> SUFFICES ASSUME BeforeApply, Handed PROVE Marks!IInv
  OBVIOUS
<1>1. Marks!InputOK
  BY DEF Handed, Marks!InputOK, Marks!Findings, Marking!Findings, Marks!Severities,
         Marking!Severities, Marks!Markers, Marking!Markers
<1> QED
  BY <1>1, MarksAssumptions, Marks!StartedIInv DEF BeforeApply

(***************************************************************************)
(* What Apply's account says to the command: its variables are typed, and  *)
(* in the end each finding stands or is acknowledged.                      *)
(***************************************************************************)
LEMMA Account ==
  ASSUME Marks!IInv
  PROVE  /\ Handed
         /\ Marking!TypeOK
         /\ mpc = "done" => kept \cup Acknowledged = DOMAIN given
<1>1. Marks!InputOK /\ Marks!TypeOK
  BY DEF Marks!IInv
<1>2. Handed
  BY <1>1 DEF Handed, Marks!InputOK, Marks!Findings, Marking!Findings, Marks!Severities,
              Marking!Severities, Marks!Markers, Marking!Markers
<1>3. Marking!TypeOK
  BY <1>1, Zenon DEF Marks!TypeOK, Marking!TypeOK
<1>4. mpc = "done" => kept \cup Acknowledged = DOMAIN given
  <2>1. Marks!Acknowledged = Acknowledged
    BY DEF Marks!Acknowledged, Acknowledged
  <2> QED
    BY <2>1, MarksAssumptions, Marks!EachSortedOut
<1> QED
  BY <1>2, <1>3, <1>4

-----------------------------------------------------------------------------
(***************************************************************************)
(* The inductive invariant.                                                *)
(***************************************************************************)

Early == stage \in {"args", "load", "base"}
Settled == stage = "report" \/ Answered

(***************************************************************************)
(* The engine runs on an input of the command's, from its start; a run     *)
(* that reads past the base with the diff rule disabled has none.          *)
(***************************************************************************)
RunPart ==
  /\ options \in Options
  /\ stage \in {"args", "load", "base", "scan", "run", "apply", "report", "exit"}
  /\ GivenInput
  /\ IInv
  /\ ReadsDeclared
  /\ Early => Started
  /\ stage \in {"scan", "run", "apply"} \/ Settled =>
       (Diff \in Disabled => in.base = {})

(***************************************************************************)
(* Apply is given the list of what the engine found when it was done.      *)
(***************************************************************************)
ApplyPart ==
  /\ Marks!IInv
  /\ Early \/ stage \in {"scan", "run"} => BeforeApply
  /\ stage = "apply" \/ Settled => pc = "done" /\ given = Listing

(***************************************************************************)
(* What is shown, left out and claimed follows from what Apply left.       *)
(***************************************************************************)
ExitCode ==
  IF \/ \E i \in shown : Fails(given[i].severity)
     \/ nagged # {} /\ Fails("warning")
  THEN 1 ELSE 0

AnswerPart ==
  /\ Settled =>
       /\ mpc = "done"
       /\ shown = {i \in kept : given[i].rule \notin Disabled}
       /\ nagged = IF "ignore-marker" \in Disabled THEN {} ELSE warned
       /\ listed = {a \in acks : given[a.finding].rule \notin Disabled}
       /\ hidden = Hidden
  /\ ~Settled => shown = {} /\ nagged = {} /\ listed = {} /\ hidden = {}
  /\ Answered => summary = Summary /\ code = ExitCode
  /\ ~Answered => summary = "none"
  /\ stage # "exit" => code = 0
  /\ code \in 0 .. 2

CInv == RunPart /\ ApplyPart /\ AnswerPart

LEMMA InitCInv == CommandInit => CInv
<1> SUFFICES ASSUME CommandInit PROVE CInv
  OBVIOUS
<1>1. options \in Options /\ stage = "args" /\ code = 0 /\ summary = "none"
  BY DEF CommandInit
<1>2. RunPart
  <2>1. GivenInput
    BY DEF CommandInit, Init, GivenInput
  <2>2. IInv /\ Started
    BY InitIInv DEF CommandInit, Init
  <2>3. ReadsDeclared
    BY <2>2, FS_EmptySet DEF Started, ReadsDeclared
  <2> QED
    BY <1>1, <2>1, <2>2, <2>3 DEF RunPart, Settled, Answered
<1>3. ApplyPart
  <2>1. BeforeApply /\ given = <<>> /\ markers = <<>> /\ ran = {}
    BY DEF CommandInit, BeforeApply
  <2>2. Marks!IInv
    BY <2>1, ApplyStarts DEF Handed
  <2> QED
    BY <1>1, <2>1, <2>2 DEF ApplyPart, Settled, Answered
<1>4. AnswerPart
  BY <1>1 DEF CommandInit, AnswerPart, Settled, Answered
<1> QED
  BY <1>2, <1>3, <1>4 DEF CInv

LEMMA RunPartStep ==
  ASSUME CInv, [CommandNext]_commandVars
  PROVE  RunPart'
<1>1. /\ options \in Options /\ GivenInput /\ IInv /\ ReadsDeclared
      /\ stage \in {"args", "load", "base", "scan", "run", "apply", "report", "exit"}
      /\ Early => Started
      /\ stage \in {"scan", "run", "apply"} \/ Settled =>
           (Diff \in Disabled => in.base = {})
      /\ stage # "exit" => code = 0
  BY DEF CInv, RunPart, AnswerPart
<1>2. ASSUME [Next]_vars
      PROVE  GivenInput' /\ IInv' /\ ReadsDeclared' /\ in' = in
  <2>1. in' = in
    BY <1>2
    DEF Next, IndexTopic, IndexDone, ResolveByTopic, TopicUnproduced,
        ResolveByConnector, ResolveByName, ResolveNone, ResolveDone, Resolving,
        StaticRule, DiffRule, RulesDone, Report, vars
  <2>2. GivenInput'
    BY <1>1, <2>1 DEF GivenInput
  <2>3. IInv'
    BY <1>1, <1>2, NextIInv
  <2>4. ReadsDeclared'
    BY <1>1, <1>2, ReadsStayDeclared
  <2> QED
    BY <2>1, <2>2, <2>3, <2>4
<1>3. ASSUME NEW at, Refuse(at) PROVE RunPart'
  <2>1. UNCHANGED vars /\ options' = options /\ stage' = "exit" /\ code' = 2
    BY <1>3 DEF Refuse
  <2> QED
    BY <1>1, <1>2, <2>1 DEF RunPart, Early, Settled, Answered
<1>4. CASE AcceptArguments \/ Load
  <2>1. UNCHANGED vars /\ options' = options /\ Early /\ Early' /\ stage' # "exit"
        /\ stage' \in {"load", "base"}
    BY <1>4 DEF AcceptArguments, Load, Early
  <2>2. Started'
    BY <1>1, <2>1 DEF Started, vars
  <2> QED
    BY <1>1, <1>2, <2>1, <2>2 DEF RunPart, Settled, Answered
<1>5. CASE UseBase
  <2>1. /\ stage = "base" /\ stage' = "scan" /\ options' = options
        /\ in' = IF Diff \in Disabled THEN [in EXCEPT !.base = {}] ELSE in
        /\ UNCHANGED <<pc, k, byTopic, reads, orphans, raised, findings>>
    BY <1>5 DEF UseBase
  <2>2. in \in InputType /\ [in EXCEPT !.base = {}] \in InputType
    BY <1>1, GivenIsInput
  <2>3. (in \in InputType)'
    BY <2>1, <2>2
  <2>4. Started'
    BY <1>1, <2>1 DEF Early, Started
  <2>5. IInv'
    BY <2>3, <2>4, StartedIInv, PTL
  <2>6. ReadsDeclared'
    BY <2>4, FS_EmptySet DEF Started, ReadsDeclared
  <2>7. GivenInput'
    <3>1. PICK input \in Inputs : in \in {input, [input EXCEPT !.base = {}]}
      BY <1>1 DEF GivenInput
    <3>2. input \in InputType
      BY EngineAssumption
    <3>3. in' \in {input, [input EXCEPT !.base = {}]}
      BY <2>1, <3>1, <3>2 DEF InputType
    <3> QED
      BY <3>3 DEF GivenInput
  <2>8. Diff \in Disabled' => in'.base = {}
    BY <2>1, <2>2 DEF InputType, Disabled
  <2> QED
    BY <1>1, <2>1, <2>5, <2>6, <2>7, <2>8 DEF RunPart, Early
<1>6. CASE RunStep
  <2>1. Next /\ stage = "run" /\ stage' = "run" /\ options' = options
    BY <1>6 DEF RunStep
  <2>2. GivenInput' /\ IInv' /\ ReadsDeclared' /\ in' = in
    BY <1>2, <2>1
  <2> QED
    BY <1>1, <2>1, <2>2 DEF RunPart, Early, Disabled
<1>7. CASE \/ Scan \/ Hand \/ ApplyStep \/ LeaveOut \/ Answer
           \/ UNCHANGED commandVars
  <2>1. /\ UNCHANGED vars /\ options' = options
        /\ stage' \in {"args", "load", "base", "scan", "run", "apply", "report", "exit"}
        /\ Early' => Early
        /\ stage' \in {"scan", "run", "apply"} \/ Settled' =>
             stage \in {"scan", "run", "apply"} \/ Settled
    BY <1>1, <1>7
    DEF Scan, Hand, ApplyStep, LeaveOut, Answer, commandVars, answer, Early,
        Settled, Answered
  <2>2. GivenInput' /\ IInv' /\ ReadsDeclared' /\ in' = in
    BY <1>2, <2>1
  <2>3. Early' => Started'
    BY <1>1, <2>1 DEF Started, vars
  <2> QED
    BY <1>1, <2>1, <2>2, <2>3 DEF RunPart, Disabled
<1> QED
  BY <1>3, <1>4, <1>5, <1>6, <1>7
  DEF CommandNext, RefuseArguments, RefuseDisable, LoadFails, BaseFails, ScanFails

LEMMA ApplyPartStep ==
  ASSUME CInv, [CommandNext]_commandVars
  PROVE  ApplyPart'
<1>1. /\ Marks!IInv
      /\ Early \/ stage \in {"scan", "run"} => BeforeApply
      /\ stage = "apply" \/ Settled => pc = "done" /\ given = Listing
      /\ options \in Options /\ GivenInput /\ IInv /\ ReadsDeclared
      /\ stage # "exit" => code = 0
  BY DEF CInv, RunPart, ApplyPart, AnswerPart
<1>2. UNCHANGED findings => Listing' = Listing
  BY DEF Listing, Reported
<1>3. ASSUME NEW at, Refuse(at) PROVE ApplyPart'
  <2>1. UNCHANGED applying /\ stage' = "exit" /\ code' = 2
    BY <1>3 DEF Refuse
  <2>2. Marks!IInv'
    BY <1>1, <2>1, ApplyKeeps
  <2> QED
    BY <2>1, <2>2 DEF ApplyPart, Early, Settled, Answered
<1>4. CASE AcceptArguments \/ Load \/ UseBase \/ RunStep
  <2>1. /\ UNCHANGED applying
        /\ Early \/ stage \in {"scan", "run"}
        /\ stage' \in {"load", "base", "scan", "run"}
    BY <1>4 DEF AcceptArguments, Load, UseBase, RunStep, Early
  <2>2. Marks!IInv'
    BY <1>1, <2>1, ApplyKeeps
  <2>3. BeforeApply'
    BY <1>1, <2>1 DEF BeforeApply, applying
  <2> QED
    BY <2>1, <2>2, <2>3 DEF ApplyPart, Settled, Answered
<1>5. CASE Scan
  <2>1. /\ stage = "scan" /\ stage' = "run" /\ markers' = options.markers
        /\ UNCHANGED <<given, ran, mpc, mk, kept, acks, used, warned>>
    BY <1>5 DEF Scan
  <2>2. BeforeApply'
    BY <1>1, <2>1 DEF BeforeApply
  <2>3. Handed'
    BY <1>1, <2>1, Account, CommandAssumption DEF OptionType, Handed
  <2>4. Marks!IInv'
    BY <2>2, <2>3, ApplyStarts, PTL
  <2> QED
    BY <2>1, <2>2, <2>4 DEF ApplyPart, Settled, Answered
<1>6. CASE Hand
  <2>1. /\ stage = "run" /\ stage' = "apply" /\ pc = "done"
        /\ given' = Listing /\ ran' = Ran /\ UNCHANGED vars
        /\ UNCHANGED <<markers, mpc, mk, kept, acks, used, warned>>
    BY <1>6 DEF Hand
  <2>2. BeforeApply'
    BY <1>1, <2>1 DEF BeforeApply
  <2>3. Handed'
    <3>1. Listing \in Seq(Marking!Findings)
      BY <1>1, <2>1, ListingLists
    <3>2. Ran \in SUBSET KnownRules
      BY DEF Ran
    <3> QED
      BY <1>1, <2>1, <3>1, <3>2, Account DEF Handed
  <2>4. Marks!IInv'
    BY <2>2, <2>3, ApplyStarts, PTL
  <2>5. pc' = "done" /\ given' = Listing'
    BY <1>2, <2>1 DEF vars
  <2> QED
    BY <2>1, <2>4, <2>5 DEF ApplyPart, Early
<1>7. CASE ApplyStep
  <2>1. Marking!Next /\ stage = "apply" /\ stage' = "apply" /\ UNCHANGED vars
    BY <1>7 DEF ApplyStep
  <2>2. Marks!IInv'
    BY <1>1, <2>1, ApplyKeeps
  <2>3. given' = given
    BY <2>1
    DEF Marking!Next, Marking!Keep, Marking!Acknowledge, Marking!FindingsDone,
        Marking!Warn, Marking!Pass, Marking!MarkersDone, Marking!AtFinding,
        Marking!AtMarker
  <2>4. pc' = "done" /\ given' = Listing'
    BY <1>1, <1>2, <2>1, <2>3 DEF vars
  <2> QED
    BY <2>1, <2>2, <2>4 DEF ApplyPart, Early
<1>8. CASE LeaveOut \/ Answer \/ UNCHANGED commandVars
  <2>1. /\ UNCHANGED <<vars, applying>>
        /\ Early' \/ stage' \in {"scan", "run"} => Early \/ stage \in {"scan", "run"}
        /\ stage' = "apply" \/ Settled' => stage = "apply" \/ Settled
    BY <1>8
    DEF LeaveOut, Answer, commandVars, answer, Early, Settled, Answered
  <2>2. Marks!IInv'
    BY <1>1, <2>1, ApplyKeeps
  <2>3. BeforeApply => BeforeApply'
    BY <2>1 DEF BeforeApply, applying
  <2>4. pc' = pc /\ given' = given /\ Listing' = Listing
    BY <1>2, <2>1 DEF vars, applying
  <2> QED
    BY <1>1, <2>1, <2>2, <2>3, <2>4 DEF ApplyPart
<1> QED
  BY <1>3, <1>4, <1>5, <1>6, <1>7, <1>8
  DEF CommandNext, RefuseArguments, RefuseDisable, LoadFails, BaseFails, ScanFails

LEMMA AnswerPartStep ==
  ASSUME CInv, [CommandNext]_commandVars
  PROVE  AnswerPart'
<1>1. /\ AnswerPart
      /\ stage \in {"args", "load", "base", "scan", "run", "apply", "report", "exit"}
      /\ code \in 0 .. 2 /\ (stage # "exit" => code = 0)
  BY DEF CInv, RunPart, AnswerPart
<1>2. ASSUME NEW at \in {"args", "load", "base", "scan"}, Refuse(at)
      PROVE  AnswerPart'
  <2>1. /\ stage = at /\ stage' = "exit" /\ code' = 2
        /\ UNCHANGED <<shown, nagged, listed, hidden, summary>>
    BY <1>2 DEF Refuse
  <2> QED
    BY <1>1, <2>1 DEF AnswerPart, Settled, Answered
<1>3. CASE \/ AcceptArguments \/ Load \/ UseBase \/ Scan \/ RunStep
           \/ Hand \/ ApplyStep
  <2>1. /\ UNCHANGED answer
        /\ stage \notin {"report", "exit"} /\ stage' \notin {"report", "exit"}
    BY <1>3
    DEF AcceptArguments, Load, UseBase, Scan, RunStep, Hand, ApplyStep
  <2> QED
    BY <1>1, <2>1 DEF AnswerPart, Settled, Answered, answer
<1>4. CASE LeaveOut
  <2>1. /\ stage = "apply" /\ stage' = "report" /\ mpc = "done"
        /\ shown' = {i \in kept : given[i].rule \notin Disabled}
        /\ nagged' = IF "ignore-marker" \in Disabled THEN {} ELSE warned
        /\ listed' = {a \in acks : given[a.finding].rule \notin Disabled}
        /\ hidden' = Hidden
        /\ UNCHANGED <<options, applying, summary, code>>
    BY <1>4 DEF LeaveOut
  <2>2. Disabled' = Disabled /\ Hidden' = Hidden
    BY <2>1 DEF Disabled, Hidden, applying
  <2> QED
    BY <1>1, <2>1, <2>2 DEF AnswerPart, Settled, Answered, applying
<1>5. CASE Answer
  <2>1. /\ stage = "report" /\ stage' = "exit"
        /\ summary' = Summary /\ code' = ExitCode
        /\ UNCHANGED <<options, applying, shown, nagged, listed, hidden>>
    BY <1>5 DEF Answer, ExitCode
  <2>2. Disabled' = Disabled /\ Hidden' = Hidden /\ Summary' = Summary
    BY <2>1 DEF Disabled, Hidden, Summary, applying
  <2>3. ExitCode' = ExitCode
    BY <2>1 DEF ExitCode, Fails, Rank, applying
  <2>4. code' \in 0 .. 1
    BY <2>1 DEF ExitCode
  <2> QED
    BY <1>1, <2>1, <2>2, <2>3, <2>4 DEF AnswerPart, Settled, Answered, applying
<1>6. CASE UNCHANGED commandVars
  <2>1. UNCHANGED <<options, stage, applying, answer>>
    BY <1>6 DEF commandVars
  <2>2. Disabled' = Disabled /\ Hidden' = Hidden /\ Summary' = Summary
        /\ ExitCode' = ExitCode
    BY <2>1 DEF Disabled, Hidden, Summary, ExitCode, Fails, Rank, applying, answer
  <2> QED
    BY <1>1, <2>1, <2>2 DEF AnswerPart, Settled, Answered, applying, answer
<1> QED
  BY <1>2, <1>3, <1>4, <1>5, <1>6
  DEF CommandNext, RefuseArguments, RefuseDisable, LoadFails, BaseFails, ScanFails

LEMMA Carried == CommandSpec => []CInv
<1>1. CInv /\ [CommandNext]_commandVars => CInv'
  BY RunPartStep, ApplyPartStep, AnswerPartStep DEF CInv
<1> QED
  BY <1>1, InitCInv, PTL DEF CommandSpec

-----------------------------------------------------------------------------
(***************************************************************************)
(* The properties.                                                         *)
(***************************************************************************)

(***************************************************************************)
(* Whatever the input and the command line, every variable of the command, *)
(* of the engine's findings on their way to Apply and of Apply itself      *)
(* keeps its type (main.go:82-166).                                        *)
(***************************************************************************)
THEOREM CommandTyped == CommandSpec => []CommandTypeOK
<1>1. CInv => CommandTypeOK
  <2> SUFFICES ASSUME CInv PROVE CommandTypeOK
    OBVIOUS
  <2>1. Handed /\ Marking!TypeOK
    BY Account DEF CInv, ApplyPart
  <2>2. /\ shown \subseteq kept /\ nagged \subseteq warned /\ listed \subseteq acks
        /\ hidden \subseteq Disabled
    BY DEF CInv, AnswerPart, Hidden
  <2>3. summary \in {"none", "counts", "agree", "nothing else"} /\ code \in 0 .. 2
    BY DEF CInv, AnswerPart, Summary
  <2> QED
    BY <2>1, <2>2, <2>3 DEF CommandTypeOK, Handed, CInv, RunPart
<1> QED
  BY <1>1, Carried, PTL

(***************************************************************************)
(* Disabling the diff rule takes the base away, so the inventory reports   *)
(* the columns the rule would have (main.go:97-100).                       *)
(***************************************************************************)
THEOREM DisabledRuleHidesNothing == CommandSpec => []DisablingDiffRuleHidesNoColumn
<1>1. CInv => DisablingDiffRuleHidesNoColumn
  <2> SUFFICES ASSUME CInv, Answered, Diff \in Disabled
               PROVE  LeftOut = AskedForButLeftOut
                                  \cup findings["source-column-not-captured"]
    BY DEF DisablingDiffRuleHidesNoColumn
  <2>1. IInv /\ pc = "done" /\ in.base = {}
    BY DEF CInv, RunPart, ApplyPart, Settled
  <2>2. SchemaBeforeConnector = {}
    BY <2>1 DEF SchemaBeforeConnector
  <2>3. findings["source-column-not-captured"] = LeftOut \ Declared
    BY <2>1, <2>2, DiffAndInventory
  <2>4. AskedForButLeftOut = LeftOut \cap Declared
    BY <2>1, AskedForIsDeclared
  <2> QED
    BY <2>3, <2>4
<1> QED
  BY <1>1, Carried, PTL

(***************************************************************************)
(* A run that claims the three agree was handed no finding at all, so none *)
(* of the rules found anything, and the engine's theorems say what that    *)
(* means (main.go:203-222).                                                *)
(***************************************************************************)
THEOREM AgreementIsReal == CommandSpec => []AgreeMeansAgree
<1>1. CInv => AgreeMeansAgree
  <2> SUFFICES ASSUME CInv, Answered, summary = "agree", Disabled = {}
               PROVE  (\A r \in reads : Arrives(r)) /\ LeftOut = {} /\ orphans = {}
    BY DEF AgreeMeansAgree
  <2>1. /\ GivenInput /\ IInv /\ ReadsDeclared
        /\ Marks!IInv /\ pc = "done" /\ mpc = "done" /\ given = Listing
    BY DEF CInv, RunPart, ApplyPart, AnswerPart, Settled
  <2>2. shown = {} /\ listed = {}
    BY DEF CInv, AnswerPart, Summary
  <2>3. kept = {} /\ acks = {}
    BY <2>2 DEF CInv, AnswerPart, Settled
  <2>4. DOMAIN Listing = {}
    BY <2>1, <2>3, Account DEF Acknowledged
  <2>5. \A rule \in Rules : findings[rule] = {}
    BY <2>1, <2>4, ListingLists
  <2>6. /\ findings["topic-table-mapping"] = {}
        /\ findings["sink-table-not-captured"] = {}
        /\ findings["sink-column-not-captured"] = {}
        /\ findings["sink-column-unknown"] = {}
        /\ findings["sink-column-flattened"] = {}
        /\ findings["schema-before-connector"] = {}
        /\ findings["source-column-not-captured"] = {}
    BY <2>5 DEF Rules, RunOrder
  <2>7. \A r \in reads : Arrives(r)
    BY <2>1, <2>6, ArrivesOrReported DEF ReportedAsDefault
  <2>8. LeftOut = {}
    BY <2>1, <2>6, AskedForIsDeclared, DiffAndInventory DEF AskedForButLeftOut
  <2>9. orphans = {}
    BY <2>1, <2>6, FoundAtEnd DEF Found, TopicTableMapping, Rules, RunOrder
  <2> QED
    BY <2>7, <2>8, <2>9
<1> QED
  BY <1>1, Carried, PTL

(***************************************************************************)
(* A read no value arrives in has a finding in the list handed on, at its  *)
(* own place or its sink table's.                                          *)
(***************************************************************************)
LEMMA HasFinding ==
  ASSUME GivenInput, IInv, ReadsDeclared, pc = "done", given = Listing,
         NEW r \in reads, ~Arrives(r)
  PROVE  About(r) # {}
<1>1. ReportedAsDefault(r)
  BY ArrivesOrReported
<1>2. ASSUME NEW rule \in Rules, NEW f \in findings[rule]
      PROVE  \E i \in DOMAIN given :
               /\ given[i].rule = rule
               /\ [file |-> given[i].file, line |-> given[i].line] = Position(rule, f)
  <2>1. PICK i \in DOMAIN given : given[i] = FindingOf(rule, f)
    BY ListingLists
  <2>2. Position(rule, f) \in Places
    BY Placed
  <2> QED
    BY <2>1, <2>2 DEF FindingOf, Places
<1>3. ASSUME NEW rule \in {"sink-table-not-captured", "sink-column-flattened"},
             NEW f \in findings[rule], f.sink = r.sink
      PROVE  About(r) # {}
  <2>1. rule \in Rules /\ Position(rule, f) = SinkAt(r.sink)
    BY <1>3 DEF Rules, RunOrder, Position, Diff
  <2>2. PICK i \in DOMAIN given :
          /\ given[i].rule = rule
          /\ [file |-> given[i].file, line |-> given[i].line] = SinkAt(r.sink)
    BY <1>2, <2>1
  <2>3. i \in About(r)
    BY <2>2 DEF About
  <2> QED
    BY <2>3
<1>4. ASSUME NEW rule \in {"sink-column-not-captured", "sink-column-unknown"},
             NEW f \in findings[rule], f.sink = r.sink, f.column = r.column
      PROVE  About(r) # {}
  <2>1. rule \in Rules /\ Position(rule, f) = SinkColumnAt(r.sink, r.column)
    BY <1>4 DEF Rules, RunOrder, Position, Diff
  <2>2. PICK i \in DOMAIN given :
          /\ given[i].rule = rule
          /\ [file |-> given[i].file, line |-> given[i].line]
               = SinkColumnAt(r.sink, r.column)
    BY <1>2, <2>1
  <2>3. i \in About(r)
    BY <2>2 DEF About
  <2> QED
    BY <2>3
<1> QED
  BY <1>1, <1>3, <1>4 DEF ReportedAsDefault

(***************************************************************************)
(* The bar: a severity fails the run if it is one of those at or above it. *)
(***************************************************************************)
LEMMA TheBar ==
  ASSUME options \in OptionType, NEW severity \in Marking!Severities
  PROVE  Fails(severity) <=> severity \in FailingSeverities
<1>1. options.failOn \in {"error", "warning", "info", "other"}
  BY DEF OptionType
<1>2. /\ Rank("info") = 0 /\ Rank("warning") = 1 /\ Rank("error") = 2
      /\ Rank("other") = 2
  BY DEF Rank
<1>3. CASE options.failOn \in {"error", "other"}
  BY <1>2, <1>3 DEF Fails, FailingSeverities, Marking!Severities
<1>4. CASE options.failOn = "warning"
  BY <1>2, <1>4 DEF Fails, FailingSeverities, Marking!Severities
<1>5. CASE options.failOn = "info"
  BY <1>2, <1>5 DEF Fails, FailingSeverities, Marking!Severities
<1> QED
  BY <1>1, <1>3, <1>4, <1>5

(***************************************************************************)
(* A run that exits with 0 has left no sink column at its default without  *)
(* a finding someone decided on: below the bar, disabled, or acknowledged  *)
(* (main.go:97-110, 129-154).                                              *)
(***************************************************************************)
THEOREM PassIsDecided == CommandSpec => []PassMeansDecided
<1>1. CInv => PassMeansDecided
  <2> SUFFICES ASSUME CInv, Answered, code = 0, NEW r \in reads, ~Arrives(r)
               PROVE  \E i \in About(r) :
                        \/ given[i].rule \in Disabled
                        \/ i \in Acknowledged
                        \/ given[i].severity \notin FailingSeverities
    BY DEF PassMeansDecided
  <2>1. /\ GivenInput /\ IInv /\ ReadsDeclared /\ options \in Options
        /\ Marks!IInv /\ pc = "done" /\ mpc = "done" /\ given = Listing
        /\ shown = {i \in kept : given[i].rule \notin Disabled}
        /\ code = ExitCode
    BY DEF CInv, RunPart, ApplyPart, AnswerPart, Settled
  <2>2. PICK i \in About(r) : TRUE
    BY <2>1, HasFinding
  <2>3. i \in kept \cup Acknowledged /\ i \in DOMAIN given
    BY <2>1, Account DEF About
  <2>4. given[i].severity \in Marking!Severities
    <3>1. given \in Seq(Marking!Findings)
      BY <2>1, Account DEF Handed
    <3>2. given[i] \in Marking!Findings
      BY <2>3, <3>1
    <3> QED
      BY <3>2 DEF Marking!Findings
  <2>5. options \in OptionType
    BY <2>1, CommandAssumption
  <2>6. i \in shown => given[i].severity \notin FailingSeverities
    BY <2>1, <2>4, <2>5, TheBar DEF ExitCode
  <2> QED
    BY <2>1, <2>2, <2>3, <2>6
<1> QED
  BY <1>1, Carried, PTL

-----------------------------------------------------------------------------

(***************************************************************************)
(* Two runs over one input find the same while no sink connector writes    *)
(* two topics into one sink table. What a run reads is then a function of  *)
(* its input: the index ends with the last table on each topic             *)
(* (IndexIsLast), at most one feeder is open to a sink table (Feeders,     *)
(* OneFeeder), and the reads are those the feeders give (ReadsAreDue).     *)
(***************************************************************************)

(***************************************************************************)
(* t is the last of the first n source tables on topic tp.                 *)
(***************************************************************************)
IsLastOn(t, tp, n) ==
  \E i \in 1 .. n :
    /\ in.source[i] = t
    /\ Topic(Connector, t) = tp
    /\ \A j \in i + 1 .. n : Topic(Connector, in.source[j]) # tp

IndexIsLast ==
  \A tp \in DOMAIN byTopic :
    IsLastOn(byTopic[tp], tp, IF pc = "index" THEN k - 1 ELSE Len(in.source))

FeederType ==
  [table : Source, mapping : {"topic", "connector", "table-name"},
   topic : Topics, mapper : 0 .. Len(in.mappers)]

Unwritten(s) ==
  \A m \in DOMAIN in.mappers, tp \in Topics : ~MappedBy(m, tp, s)

(***************************************************************************)
(* What can feed sink table i, said of the input alone.                    *)
(***************************************************************************)
Feeders(i) ==
  LET s == in.sinks[i]
  IN  {f \in FeederType :
         \/ /\ f.mapping = "topic" /\ f.mapper = 0
            /\ s.topic # NoName /\ f.topic = s.topic
            /\ IsLastOn(f.table, f.topic, Len(in.source))
         \/ /\ f.mapping = "connector" /\ f.mapper # 0
            /\ s.topic = NoName
            /\ MappedBy(f.mapper, f.topic, s)
            /\ \A j \in 1 .. f.mapper - 1, tp \in Topics : ~MappedBy(j, tp, s)
            /\ IsLastOn(f.table, f.topic, Len(in.source))
         \/ /\ f.mapping = "table-name" /\ f.mapper = 0
            /\ s.topic = NoName /\ Unwritten(s)
            /\ s.sink # "clickhouse" /\ Namesakes(s) # {}
            /\ f.table = in.source[Min(Namesakes(s))]
            /\ f.topic = Topic(Connector, f.table)}

ReceivedFrom(f, i) ==
  {Read(i, n, f.table, f.mapping, f.topic, f.mapper) :
     n \in {x \in ToSet(in.sinks[i].columns) :
              ~Field(ShapeUnder(f.mapper), in.columns[f.table], x).skip}}

Due(i) == UNION {ReceivedFrom(f, i) : f \in Feeders(i)}

AllDue == UNION {Due(i) : i \in DOMAIN in.sinks}

ReadsAreDue ==
  OneTopicPerSinkTable =>
    /\ pc = "resolve" => reads = UNION {Due(i) : i \in 1 .. k - 1}
    /\ pc \in {"rules", "done"} => reads = AllDue

LEMMA OneLast ==
  ASSUME in \in InputType, NEW tp, NEW t, NEW u, NEW n \in Nat,
         IsLastOn(t, tp, n), IsLastOn(u, tp, n)
  PROVE  t = u
<1>1. PICK i \in 1 .. n :
         /\ in.source[i] = t /\ Topic(Connector, t) = tp
         /\ \A x \in i + 1 .. n : Topic(Connector, in.source[x]) # tp
  BY DEF IsLastOn
<1>2. PICK j \in 1 .. n :
         /\ in.source[j] = u /\ Topic(Connector, u) = tp
         /\ \A x \in j + 1 .. n : Topic(Connector, in.source[x]) # tp
  BY DEF IsLastOn
<1>3. i = j
  BY <1>1, <1>2
<1> QED
  BY <1>1, <1>2, <1>3

(***************************************************************************)
(* A sink table fed from one topic at most has one feeder at most: it      *)
(* names its topic, or the first mapper that writes a topic there decides, *)
(* or the first source table of its name does.                             *)
(***************************************************************************)
LEMMA FeederIsOne ==
  ASSUME in \in InputType, OneTopicPerSinkTable, NEW i \in DOMAIN in.sinks,
         NEW f \in Feeders(i), NEW g \in Feeders(i)
  PROVE  f = g
<1> DEFINE s == in.sinks[i]
<1>1. f \in FeederType /\ g \in FeederType
  BY DEF Feeders
<1>2. Len(in.source) \in Nat /\ Len(in.mappers) \in Nat
      /\ DOMAIN in.mappers = 1 .. Len(in.mappers)
  BY InputFields
<1>3. f.mapping = g.mapping
  <2>1. ASSUME NEW x \in Feeders(i)
        PROVE  /\ x.mapping = "topic" <=> s.topic # NoName
               /\ x.mapping = "table-name" => Unwritten(s)
               /\ x.mapping = "connector" => ~Unwritten(s)
    <3>1. x \in FeederType
      BY DEF Feeders
    <3>2. x.mapping = "connector" =>
            /\ x.mapper \in DOMAIN in.mappers /\ x.topic \in Topics
            /\ MappedBy(x.mapper, x.topic, s)
      BY <1>2, <3>1 DEF Feeders, FeederType
    <3> QED
      BY <3>1, <3>2 DEF Feeders, FeederType, Unwritten
  <2> QED
    BY <1>1, <2>1 DEF FeederType
<1>4. f.mapper = g.mapper /\ f.topic = g.topic /\ f.table = g.table
  <2>1. CASE f.mapping = "topic"
    BY <1>2, <1>3, <2>1, OneLast DEF Feeders
  <2>2. CASE f.mapping = "connector"
    <3>1. /\ f.mapper \in 1 .. Len(in.mappers) /\ g.mapper \in 1 .. Len(in.mappers)
          /\ f.topic \in Topics /\ g.topic \in Topics
      <4>1. f.mapper # 0 /\ g.mapper # 0
        BY <1>3, <2>2 DEF Feeders
      <4>2. /\ f.mapper \in 0 .. Len(in.mappers) /\ g.mapper \in 0 .. Len(in.mappers)
            /\ f.topic \in Topics /\ g.topic \in Topics
        BY <1>1 DEF FeederType
      <4> QED
        BY <1>2, <4>1, <4>2
    <3>2. /\ MappedBy(f.mapper, f.topic, s) /\ MappedBy(g.mapper, g.topic, s)
          /\ \A j \in 1 .. f.mapper - 1, tp \in Topics : ~MappedBy(j, tp, s)
          /\ \A j \in 1 .. g.mapper - 1, tp \in Topics : ~MappedBy(j, tp, s)
          /\ IsLastOn(f.table, f.topic, Len(in.source))
          /\ IsLastOn(g.table, g.topic, Len(in.source))
      BY <1>3, <2>2 DEF Feeders
    <3> HIDE DEF s
    <3>3. f.mapper = g.mapper
      BY <1>2, <3>1, <3>2
    <3>4. f.topic = g.topic
      <4>1. PICK m \in DOMAIN in.mappers : m = f.mapper
        BY <1>2, <3>1
      <4> QED
        BY <3>1, <3>2, <3>3, <4>1 DEF OneTopicPerSinkTable, s
    <3> QED
      BY <1>2, <3>2, <3>3, <3>4, OneLast
  <2>3. CASE f.mapping = "table-name"
    BY <1>3, <2>3 DEF Feeders
  <2> QED
    BY <1>1, <2>1, <2>2, <2>3 DEF FeederType
<1> QED
  BY <1>1, <1>3, <1>4 DEF FeederType

(***************************************************************************)
(* Resolving sink table k adds the reads that are due for it.              *)
(***************************************************************************)
LEMMA ResolvesTheDue ==
  ASSUME IInv, IndexIsLast, OneTopicPerSinkTable,
         \/ ResolveByTopic \/ TopicUnproduced \/ ResolveByConnector
         \/ ResolveByName \/ ResolveNone
  PROVE  reads' = reads \cup Due(k)
<1> DEFINE s == in.sinks[k]
<1>1. /\ in \in InputType /\ pc = "resolve" /\ k \in DOMAIN in.sinks
      /\ DOMAIN byTopic = Topics
      /\ \A tp \in DOMAIN byTopic : byTopic[tp] \in Source
  BY InputFields
  DEF IInv, TypeOK, IndexAgrees, ResolveByTopic, TopicUnproduced,
      ResolveByConnector, ResolveByName, ResolveNone, Resolving
<1>2. \A tp \in Topics : IsLastOn(byTopic[tp], tp, Len(in.source))
  BY <1>1 DEF IndexIsLast
<1>3. Len(in.mappers) \in Nat /\ DOMAIN in.mappers = 1 .. Len(in.mappers)
  BY <1>1, InputFields
<1>4. ASSUME NEW f \in Feeders(k),
             ReadFrom(f.table, f.mapping, f.topic, f.mapper)
      PROVE  reads' = reads \cup Due(k)
  <2>1. reads' = reads \cup ReceivedFrom(f, k)
    BY <1>4 DEF ReadFrom, ReceivedFrom
  <2>2. Due(k) = ReceivedFrom(f, k)
    <3>1. \A g \in Feeders(k) : g = f
      BY <1>1, FeederIsOne
    <3> QED
      BY <3>1 DEF Due
  <2> QED
    BY <2>1, <2>2
<1>5. CASE ResolveByTopic
  <2> DEFINE f == [table |-> byTopic[s.topic], mapping |-> "topic",
                   topic |-> s.topic, mapper |-> 0]
  <2>1. f \in Feeders(k)
    BY <1>1, <1>2, <1>3, <1>5 DEF Feeders, FeederType, ResolveByTopic
  <2>2. ReadFrom(f.table, f.mapping, f.topic, f.mapper)
    BY <1>5 DEF ResolveByTopic
  <2> QED
    BY <1>4, <2>1, <2>2
<1>6. CASE ResolveByConnector
  <2>1. PICK m \in DOMAIN in.mappers, tp \in Topics :
          /\ MappedBy(m, tp, s)
          /\ \A j \in 1 .. m - 1, other \in Topics : ~MappedBy(j, other, s)
          /\ ReadFrom(byTopic[tp], "connector", tp, m)
    BY <1>1, <1>6 DEF ResolveByConnector
  <2> DEFINE f == [table |-> byTopic[tp], mapping |-> "connector",
                   topic |-> tp, mapper |-> m]
  <2>2. f \in FeederType /\ m # 0
    BY <1>1, <1>3 DEF FeederType
  <2>3. f \in Feeders(k)
    BY <1>2, <1>6, <2>1, <2>2 DEF Feeders, ResolveByConnector
  <2>4. ReadFrom(f.table, f.mapping, f.topic, f.mapper)
    BY <2>1
  <2> QED
    BY <1>4, <2>3, <2>4
<1>7. CASE ResolveByName
  <2> DEFINE t == in.source[Min(Namesakes(s))]
             f == [table |-> t, mapping |-> "table-name",
                   topic |-> Topic(Connector, t), mapper |-> 0]
  <2>1. /\ Unmapped(s) /\ Min(Namesakes(s)) \in Namesakes(s)
        /\ ReadFrom(t, "table-name", Topic(Connector, t), 0)
    BY <1>7 DEF ResolveByName
  <2>2. t \in Source
    BY <1>1, <2>1, InputFields DEF Namesakes, Source, ToSet
  <2>3. f \in Feeders(k)
    <3>1. f \in FeederType
      BY <1>3, <2>2 DEF FeederType, Topics
    <3>2. /\ s.topic = NoName /\ Unwritten(s)
          /\ s.sink # "clickhouse" /\ Namesakes(s) # {}
      BY <1>1, <1>7, <2>1 DEF Unmapped, Unwritten, ResolveByName
    <3> QED
      BY <3>1, <3>2 DEF Feeders
  <2>4. ReadFrom(f.table, f.mapping, f.topic, f.mapper)
    BY <2>1
  <2> QED
    BY <1>4, <2>3, <2>4
<1>8. CASE TopicUnproduced \/ ResolveNone
  <2>1. UNCHANGED reads
    BY <1>8 DEF TopicUnproduced, ResolveNone
  <2>2. ASSUME NEW f \in Feeders(k) PROVE FALSE
    <3>1. f \in FeederType
      BY DEF Feeders
    <3>2. f.mapping = "connector" =>
            f.mapper \in DOMAIN in.mappers /\ MappedBy(f.mapper, f.topic, s)
      BY <1>3, <3>1 DEF Feeders, FeederType
    <3>3. CASE TopicUnproduced
      BY <1>1, <3>1, <3>3 DEF TopicUnproduced, Feeders, FeederType
    <3>4. CASE ResolveNone
      BY <1>1, <3>1, <3>2, <3>4 DEF ResolveNone, Unmapped, Feeders, FeederType
    <3> QED
      BY <1>8, <3>3, <3>4
  <2> QED
    BY <2>1, <2>2 DEF Due
<1> QED
  BY <1>5, <1>6, <1>7, <1>8

(***************************************************************************)
(* What is due depends on the input alone.                                 *)
(***************************************************************************)
LEMMA InputDecidesDue ==
  ASSUME UNCHANGED in
  PROVE  /\ \A i : Due(i)' = Due(i)
         /\ AllDue' = AllDue
         /\ \A t, tp, n : IsLastOn(t, tp, n)' <=> IsLastOn(t, tp, n)
         /\ OneTopicPerSinkTable' <=> OneTopicPerSinkTable
<1>1. /\ Connector' = Connector /\ Topics' = Topics /\ Source' = Source
      /\ \A m, tp, s : MappedBy(m, tp, s)' <=> MappedBy(m, tp, s)
      /\ \A t, tp, n : IsLastOn(t, tp, n)' <=> IsLastOn(t, tp, n)
  BY DEF Connector, Topics, Source, MappedBy, IsLastOn
<1>2. \A i : Feeders(i)' = Feeders(i)
  BY <1>1 DEF Feeders, FeederType, Unwritten, Namesakes
<1>3. \A f, i : ReceivedFrom(f, i)' = ReceivedFrom(f, i)
  BY <1>1 DEF ReceivedFrom, Read, ShapeUnder
<1>4. \A i : Due(i)' = Due(i)
  BY <1>2, <1>3 DEF Due
<1>5. AllDue' = AllDue
  BY <1>4 DEF AllDue
<1>6. OneTopicPerSinkTable' <=> OneTopicPerSinkTable
  BY <1>1 DEF OneTopicPerSinkTable
<1> QED
  BY <1>1, <1>4, <1>5, <1>6

(***************************************************************************)
(* Every step keeps the account of the reads.                              *)
(***************************************************************************)
LEMMA DueStep ==
  ASSUME IInv, IndexIsLast, ReadsAreDue, [Next]_vars
  PROVE  IndexIsLast' /\ ReadsAreDue'
<1>1. k \in Nat \ {0} /\ in.source \in Seq(Tables) /\ in.sinks \in Seq(SinkTables)
  BY InputFields DEF IInv, TypeOK
<1>2. UNCHANGED in
  BY DEF Next, IndexTopic, IndexDone, ResolveByTopic, TopicUnproduced,
         ResolveByConnector, ResolveByName, ResolveNone, ResolveDone, Resolving,
         StaticRule, DiffRule, RulesDone, Report, vars
<1>3. Connector' = Connector
  BY <1>2 DEF Connector
<1>4. /\ OneTopicPerSinkTable' <=> OneTopicPerSinkTable
      /\ \A i : Due(i)' = Due(i)
      /\ AllDue' = AllDue
      /\ \A t, tp, n : IsLastOn(t, tp, n)' <=> IsLastOn(t, tp, n)
  BY <1>2, InputDecidesDue
<1>5. CASE IndexTopic
  <2>1. /\ pc = "index" /\ pc' = "index" /\ k <= Len(in.source) /\ k' = k + 1
    BY <1>5 DEF IndexTopic
  <2> DEFINE t == in.source[k]
             topic == Topic(Connector, t)
  <2>2. byTopic' = [tp \in DOMAIN byTopic \cup {topic} |->
                      IF tp = topic THEN t ELSE byTopic[tp]]
    BY <1>5 DEF IndexTopic
  <2>3. ASSUME NEW tp \in DOMAIN byTopic' PROVE IsLastOn(byTopic'[tp], tp, k)
    <3>1. CASE tp = topic
      BY <1>1, <2>1, <2>2, <3>1 DEF IsLastOn
    <3>2. CASE tp # topic
      <4>1. byTopic'[tp] = byTopic[tp] /\ IsLastOn(byTopic[tp], tp, k - 1)
        BY <2>1, <2>2, <2>3, <3>2 DEF IndexIsLast
      <4>2. PICK i \in 1 .. k - 1 :
              /\ in.source[i] = byTopic[tp] /\ Topic(Connector, byTopic[tp]) = tp
              /\ \A j \in i + 1 .. k - 1 : Topic(Connector, in.source[j]) # tp
        BY <4>1 DEF IsLastOn
      <4>3. \A j \in i + 1 .. k : Topic(Connector, in.source[j]) # tp
        BY <1>1, <3>2, <4>2
      <4> QED
        BY <1>1, <4>1, <4>2, <4>3 DEF IsLastOn
    <3> QED
      BY <3>1, <3>2
  <2>4. IndexIsLast'
    BY <1>1, <1>4, <2>1, <2>3 DEF IndexIsLast
  <2> QED
    BY <2>1, <2>4 DEF ReadsAreDue
<1>6. CASE IndexDone
  <2>1. /\ pc = "index" /\ pc' = "resolve" /\ k = Len(in.source) + 1 /\ k' = 1
        /\ UNCHANGED <<byTopic, reads>>
    BY <1>1, <1>6 DEF IndexDone, IInv, IndexAgrees
  <2>2. IndexIsLast'
    BY <1>1, <1>2, <1>4, <2>1 DEF IndexIsLast
  <2>3. reads' = {} /\ 1 .. k' - 1 = {}
    BY <2>1 DEF IInv, OneFeeder
  <2> QED
    BY <2>1, <2>2, <2>3 DEF ReadsAreDue
<1>7. CASE \/ ResolveByTopic \/ TopicUnproduced \/ ResolveByConnector
           \/ ResolveByName \/ ResolveNone
  <2>1. /\ pc = "resolve" /\ pc' = "resolve" /\ k' = k + 1 /\ UNCHANGED byTopic
    BY <1>7 DEF ResolveByTopic, TopicUnproduced, ResolveByConnector, ResolveByName,
                ResolveNone, Resolving
  <2>2. IndexIsLast'
    BY <1>2, <1>4, <2>1 DEF IndexIsLast
  <2>3. ASSUME OneTopicPerSinkTable
        PROVE  reads' = UNION {Due(i) : i \in 1 .. k' - 1}
    <3>1. reads = UNION {Due(i) : i \in 1 .. k - 1} /\ reads' = reads \cup Due(k)
      BY <1>7, <2>1, <2>3, ResolvesTheDue DEF ReadsAreDue
    <3>2. 1 .. k' - 1 = (1 .. k - 1) \cup {k}
      BY <1>1, <2>1
    <3> QED
      BY <3>1, <3>2
  <2> QED
    BY <1>4, <2>1, <2>2, <2>3 DEF ReadsAreDue
<1>8. CASE ResolveDone
  <2>1. /\ pc = "resolve" /\ pc' = "rules" /\ k > Len(in.sinks)
        /\ UNCHANGED <<byTopic, reads>>
    BY <1>8 DEF ResolveDone
  <2>2. IndexIsLast'
    BY <1>2, <1>4, <2>1 DEF IndexIsLast
  <2>3. 1 .. k - 1 = DOMAIN in.sinks
    BY <1>1, <2>1 DEF IInv, OrphansAgree
  <2> QED
    BY <1>4, <2>1, <2>2, <2>3 DEF ReadsAreDue, AllDue
<1>9. CASE StaticRule \/ DiffRule \/ RulesDone \/ UNCHANGED vars
  <2>1. /\ UNCHANGED <<byTopic, reads>>
        /\ \/ UNCHANGED <<pc, k>>
           \/ pc = "rules" /\ pc' \in {"rules", "done"}
    BY <1>9 DEF StaticRule, DiffRule, RulesDone, Report, vars
  <2>2. IndexIsLast'
    BY <1>2, <1>4, <2>1 DEF IndexIsLast
  <2> QED
    BY <1>4, <2>1, <2>2 DEF ReadsAreDue
<1> QED
  BY <1>5, <1>6, <1>7, <1>8, <1>9 DEF Next

(***************************************************************************)
(* What each rule finds in a given set of reads.                           *)
(***************************************************************************)
ReceivedIn(rs) == {<<r.table, r.field>> : r \in {x \in rs : ~x.unreached}}

NewIn(rs) ==
  {tc \in SourceColumns :
     \E b \in in.base :
       /\ ~Excludes(ColumnListSetting(Connector))
       /\ CapturesTable(Connector, tc[1])
       /\ AddedSince(b, tc)
       /\ CapturedAt(b, tc[1])
       /\ ~Captured(tc)
       /\ tc \notin ReceivedIn(rs)}

FoundIn(rs) ==
  [rule \in Rules |->
     CASE rule = "topic-table-mapping" -> {i \in DOMAIN in.sinks : Unproduced(i)}
       [] rule = "sink-table-not-captured" ->
            {[sink |-> r.sink, table |-> r.table,
              setting |-> TableBlock(Connector, r.table)] :
               r \in {x \in rs : ~CapturesTable(Connector, x.table)}}
       [] rule = "sink-column-not-captured" ->
            {[sink |-> r.sink, column |-> r.column, source |-> <<r.table, r.field>>] :
               r \in {x \in rs : /\ CapturesTable(Connector, x.table)
                                 /\ ~x.unreached
                                 /\ x.field \in in.columns[x.table]
                                 /\ ~Captured(<<x.table, x.field>>)}}
       [] rule = "sink-column-unknown" ->
            {[sink |-> r.sink, column |-> r.column] :
               r \in {x \in rs : ~x.unreached /\ x.field \notin in.columns[x.table]}}
       [] rule = "sink-column-flattened" ->
            {[sink |-> i, columns |-> {r.column : r \in {x \in rs : x.unreached /\ x.sink = i}}] :
               i \in {r.sink : r \in {x \in rs : x.unreached}}}
       [] rule = "schema-before-connector" -> NewIn(rs)
       [] rule = "source-column-not-captured" ->
            {tc \in SourceColumns : /\ CapturesTable(Connector, tc[1])
                                    /\ ~Captured(tc)
                                    /\ tc \notin ReceivedIn(rs)
                                    /\ tc \notin NewIn(rs)}
       [] rule = "captured-column-missing" -> CapturedColumnMissing
       [] rule = "captured-table-missing" -> CapturedTableMissing
       [] OTHER -> MVColumnMatch]

FindingsTotal == findings = [rule \in Rules |-> findings[rule]]

(***************************************************************************)
(* At the end a run has found what there is to find in its reads.          *)
(***************************************************************************)
LEMMA FoundInReads ==
  ASSUME IInv, FindingsTotal, pc = "done"
  PROVE  findings = FoundIn(reads)
<1>1. orphans = {i \in DOMAIN in.sinks : Unproduced(i)}
  BY DEF IInv, OrphansAgree
<1>2. /\ \A rule \in Rules : findings[rule] = Found(rule)
      /\ raised = SchemaBeforeConnector
  BY FoundAtEnd
<1>3. Declared = ReceivedIn(reads) /\ SchemaBeforeConnector = NewIn(reads)
  BY DEF Declared, ReceivedIn, SchemaBeforeConnector, NewIn
<1>4. ASSUME NEW rule \in Rules PROVE Found(rule) = FoundIn(reads)[rule]
  <2>1. rule = "topic-table-mapping" => Found(rule) = FoundIn(reads)[rule]
    BY <1>1 DEF Found, FoundIn, TopicTableMapping
  <2>2. rule = "sink-table-not-captured" => Found(rule) = FoundIn(reads)[rule]
    BY DEF Found, FoundIn, SinkTableNotCaptured
  <2>3. rule = "sink-column-not-captured" => Found(rule) = FoundIn(reads)[rule]
    BY DEF Found, FoundIn, SinkColumnNotCaptured
  <2>4. rule = "sink-column-unknown" => Found(rule) = FoundIn(reads)[rule]
    BY DEF Found, FoundIn, SinkColumnUnknown
  <2>5. rule = "sink-column-flattened" => Found(rule) = FoundIn(reads)[rule]
    <3>1. \A i : {r.column : r \in {x \in {y \in reads : y.unreached} : x.sink = i}}
                   = {r.column : r \in {x \in reads : x.unreached /\ x.sink = i}}
      OBVIOUS
    <3> QED
      BY <3>1 DEF Found, FoundIn, SinkColumnFlattened
  <2>6. rule = "schema-before-connector" => Found(rule) = FoundIn(reads)[rule]
    BY <1>3 DEF Found, FoundIn
  <2>7. rule = "source-column-not-captured" => Found(rule) = FoundIn(reads)[rule]
    BY <1>2, <1>3 DEF Found, FoundIn, SourceColumnNotCaptured
  <2>8. rule \in {"captured-column-missing", "captured-table-missing", "mv-column-match"}
          => Found(rule) = FoundIn(reads)[rule]
    BY DEF Found, FoundIn
  <2> QED
    BY <2>1, <2>2, <2>3, <2>4, <2>5, <2>6, <2>7, <2>8 DEF Rules, RunOrder
<1>5. FoundIn(reads) = [rule \in Rules |-> FoundIn(reads)[rule]]
  BY DEF FoundIn
<1> QED
  BY <1>2, <1>4, <1>5 DEF FindingsTotal

(***************************************************************************)
(* What is found in the reads that are due depends on the input alone.     *)
(***************************************************************************)
LEMMA InputDecidesFound ==
  ASSUME UNCHANGED in
  PROVE  FoundIn(AllDue)' = FoundIn(AllDue)
<1>1. /\ Connector' = Connector /\ Source' = Source
      /\ (SourceColumns)' = SourceColumns
      /\ \A tc : Captured(tc)' <=> Captured(tc)
      /\ \A i : Unproduced(i)' <=> Unproduced(i)
  BY DEF Connector, Source, SourceColumns, Captured, Unproduced
<1>2. AllDue' = AllDue
  BY InputDecidesDue
<1>3. NewIn(AllDue)' = NewIn(AllDue) /\ ReceivedIn(AllDue)' = ReceivedIn(AllDue)
  BY <1>1, <1>2 DEF NewIn, ReceivedIn, CapturedAt, BaseContract
<1>4. /\ MVColumnMatch' = MVColumnMatch
      /\ CapturedColumnMissing' = CapturedColumnMissing
      /\ CapturedTableMissing' = CapturedTableMissing
  BY <1>1
  DEF MVColumnMatch, ViewProblems, TargetColumns, TargetsOf, CapturedColumnMissing,
      CapturedTableMissing
<1> QED
  BY <1>1, <1>2, <1>3, <1>4 DEF FoundIn

-----------------------------------------------------------------------------

(***************************************************************************)
(* What a run that has ended found is what is due to be found, and so it   *)
(* was the time before.                                                    *)
(***************************************************************************)
TwiceInv ==
  /\ IInv
  /\ IndexIsLast
  /\ ReadsAreDue
  /\ FindingsTotal
  /\ OneTopicPerSinkTable =>
       \A i \in DOMAIN earlier : earlier[i] = FoundIn(AllDue)

LEMMA TwiceStarts ==
  ASSUME in \in InputType, Started
  PROVE  IInv /\ IndexIsLast /\ ReadsAreDue /\ FindingsTotal
<1>1. IndexIsLast /\ ReadsAreDue /\ FindingsTotal
  BY DEF Started, IndexIsLast, ReadsAreDue, FindingsTotal
<1> QED
  BY <1>1, StartedIInv

LEMMA DueAtEnd ==
  ASSUME IInv, ReadsAreDue, FindingsTotal, pc = "done", OneTopicPerSinkTable
  PROVE  findings = FoundIn(AllDue)
<1>1. reads = AllDue
  BY DEF ReadsAreDue
<1> QED
  BY <1>1, FoundInReads

LEMMA TwiceStep ==
  ASSUME TwiceInv, [TwiceNext]_<<vars, earlier>>
  PROVE  TwiceInv'
<1> USE DEF TwiceInv
<1>1. CASE [Next]_vars /\ UNCHANGED earlier
  <2>1. UNCHANGED in
    BY <1>1
    DEF Next, IndexTopic, IndexDone, ResolveByTopic, TopicUnproduced,
        ResolveByConnector, ResolveByName, ResolveNone, ResolveDone, Resolving,
        StaticRule, DiffRule, RulesDone, Report, vars
  <2>2. IInv' /\ IndexIsLast' /\ ReadsAreDue'
    BY <1>1, NextIInv, DueStep
  <2>3. FindingsTotal'
    <3>1. CASE StaticRule \/ DiffRule
      <4>1. findings' = [findings EXCEPT ![RunOrder[k]] = Found(RunOrder[k])]
        BY <3>1, RuleAtK DEF IInv
      <4>2. DOMAIN findings = Rules
        BY DEF IInv, TypeOK
      <4> QED
        BY <4>1, <4>2 DEF FindingsTotal
    <3>2. CASE UNCHANGED findings
      BY <3>2 DEF FindingsTotal
    <3> QED
      BY <1>1, <3>1, <3>2
      DEF Next, IndexTopic, IndexDone, ResolveByTopic, TopicUnproduced,
          ResolveByConnector, ResolveByName, ResolveNone, ResolveDone, Resolving,
          RulesDone, vars
  <2> QED
    BY <1>1, <2>1, <2>2, <2>3, InputDecidesDue, InputDecidesFound
<1>2. CASE RunAgain
  <2>1. UNCHANGED in /\ pc = "done" /\ earlier' = <<findings>> /\ Started'
    BY <1>2 DEF RunAgain, Started
  <2>2. (in \in InputType)'
    BY <2>1 DEF IInv, TypeOK
  <2>3. (IInv /\ IndexIsLast /\ ReadsAreDue /\ FindingsTotal)'
    BY <2>1, <2>2, TwiceStarts, PTL
  <2>4. OneTopicPerSinkTable => findings = FoundIn(AllDue)
    BY <2>1, DueAtEnd
  <2> QED
    BY <2>1, <2>3, <2>4, InputDecidesDue, InputDecidesFound
<1> QED
  BY <1>1, <1>2 DEF TwiceNext, RunOn, vars

(***************************************************************************)
(* Two runs over one input, none of whose sink tables is fed from two      *)
(* topics, find the same, in whatever order each meets the topic index.    *)
(***************************************************************************)
THEOREM OneTopicOneAnswer == TwiceSpec => []SameFindingsForOneTopic
<1>1. TwiceInit => TwiceInv
  BY TwiceStarts, EngineAssumption DEF TwiceInit, TwiceInv, Init
<1>2. TwiceInv /\ [TwiceNext]_<<vars, earlier>> => TwiceInv'
  BY TwiceStep
<1>3. TwiceInv => SameFindingsForOneTopic
  BY DueAtEnd DEF TwiceInv, SameFindingsForOneTopic, SameFindings
<1> QED
  BY <1>1, <1>2, <1>3, PTL DEF TwiceSpec

=============================================================================
