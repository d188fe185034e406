------------------------------ MODULE Command ------------------------------
(***************************************************************************)
(* cmd/cdclint: one invocation of the command, from its arguments to its   *)
(* exit code. It composes Engine, which finds, with Ignore, which          *)
(* acknowledges, and adds the decisions main.go takes around them: whether *)
(* a base is read, which findings --disable leaves out, what the summary   *)
(* line claims and whether the run fails.                                  *)
(***************************************************************************)
EXTENDS Engine

CONSTANTS
  Files,                \* the files findings and markers are in
  NotARule,             \* a name given to --disable or a marker, no rule's
  Options,              \* what the command line may say
  SinkAt(_),            \* where a sink table is declared
  SinkColumnAt(_, _),   \* where a column of a sink table is declared
  SourceColumnAt(_),    \* where a source column is declared
  ViewAt(_),            \* where a view is declared
  ConnectorAt           \* where the connector file starts

VARIABLES
  options,   \* the flags, and the markers in the directories they name
  stage,     \* how far the command has come
  given, markers, ran, mpc, mk, kept, acks, used, warned,  \* ignore.Apply's
  shown,     \* the findings that stand after --disable, by place in given
  nagged,    \* the marker warnings that stand after --disable
  listed,    \* the acknowledgements listed
  hidden,    \* the rules --disable left findings out of
  summary,   \* what the text report claims
  code       \* the exit code

applying == <<given, markers, ran, mpc, mk, kept, acks, used, warned>>
answer == <<shown, nagged, listed, hidden, summary, code>>
commandVars == <<vars, options, stage, applying, answer>>

Diff == "schema-before-connector"

(***************************************************************************)
(* engine.Rules: every rule of Run, and the one Apply reports under.       *)
(***************************************************************************)
KnownRules == Rules \cup {"ignore-marker"}

Marking == INSTANCE Ignore
             WITH RuleNames <- KnownRules, DiffRules <- {Diff}, Cases <- {},
                  pc <- mpc, k <- mk

(***************************************************************************)
(* The flags, but for the paths. failOn is "other" for a word that is no   *)
(* severity.                                                               *)
(***************************************************************************)
OptionType ==
  [disabled : SUBSET (KnownRules \cup {NotARule}),
   failOn : {"error", "warning", "info", "other"},
   markers : Seq(Marking!Markers)]

(***************************************************************************)
(* A name a file declares has a place in one of the files, and a file      *)
(* declares finitely many.                                                 *)
(***************************************************************************)
Places == [file : Files, line : Nat]

ASSUME CommandAssumption ==
  /\ Options \subseteq OptionType
  /\ NotARule \notin KnownRules

ASSUME PlacesAssumption ==
  /\ ConnectorAt \in Places
  /\ \A tc \in ColumnOf : SourceColumnAt(tc) \in Places
  /\ \A input \in Inputs :
       /\ \A i \in DOMAIN input.sinks :
            /\ SinkAt(i) \in Places
            /\ \A n \in ToSet(input.sinks[i].columns) : SinkColumnAt(i, n) \in Places
       /\ \A i \in DOMAIN input.views : ViewAt(i) \in Places

ASSUME FiniteAssumption ==
  \A input \in Inputs :
    /\ \A t \in Tables : IsFiniteSet(input.columns[t])
    /\ IsFiniteSet(input.contract.columnInclude)
    /\ IsFiniteSet(input.contract.tableInclude)

Disabled == options.disabled

-----------------------------------------------------------------------------
(* Findings as the command sees them.                                      *)

(***************************************************************************)
(* The two fields of the Finding each rule makes (engine.go:249, 270, 290, *)
(* 322, 339, 366, 388, 437; diff.go:112; mv.go): how bad it is, and where  *)
(* it points: at the sink table, at its column, at the source column, at   *)
(* the connector or at the view.                                           *)
(***************************************************************************)
Severity(rule) ==
  CASE rule \in {"topic-table-mapping", "sink-table-not-captured",
                 "sink-column-not-captured", "sink-column-flattened",
                 "mv-column-match"} -> "error"
    [] rule = "source-column-not-captured" -> "info"
    [] OTHER -> "warning"

Position(rule, f) ==
  CASE rule = "topic-table-mapping" -> SinkAt(f)
    [] rule \in {"sink-table-not-captured", "sink-column-flattened"} -> SinkAt(f.sink)
    [] rule \in {"sink-column-not-captured", "sink-column-unknown"} ->
         SinkColumnAt(f.sink, f.column)
    [] rule \in {Diff, "source-column-not-captured"} -> SourceColumnAt(f)
    [] rule = "mv-column-match" -> ViewAt(f.view)
    [] OTHER -> ConnectorAt

FindingOf(rule, f) ==
  LET at == Position(rule, f)
  IN  [rule |-> rule, severity |-> Severity(rule), file |-> at.file, line |-> at.line]

(***************************************************************************)
(* Run's result as a list; the order Sort gives it is left out, nothing    *)
(* after it depends on it.                                                 *)
(***************************************************************************)
Reported == UNION {{rule} \X findings[rule] : rule \in Rules}

Listing ==
  LET all == SetToSeq(Reported)
  IN  [i \in DOMAIN all |-> FindingOf(all[i][1], all[i][2])]

-----------------------------------------------------------------------------
(* main.run                                                                *)

CommandInit ==
  /\ Init
  /\ options \in Options
  /\ stage = "args"
  /\ given = <<>> /\ markers = <<>> /\ ran = {}
  /\ mpc = "findings" /\ mk = 1
  /\ kept = {} /\ acks = {} /\ used = {} /\ warned = {}
  /\ shown = {} /\ nagged = {} /\ listed = {} /\ hidden = {}
  /\ summary = "none" /\ code = 0

(***************************************************************************)
(* Every early return of run but --version's: nothing is printed but the   *)
(* error.                                                                  *)
(***************************************************************************)
Refuse(at) ==
  /\ stage = at
  /\ stage' = "exit"
  /\ code' = 2
  /\ UNCHANGED <<vars, options, applying, shown, nagged, listed, hidden, summary>>

(***************************************************************************)
(* A flag that does not parse; no migrations, connector or sink given.     *)
(***************************************************************************)
RefuseArguments == Refuse("args")

RefuseDisable ==
  /\ ~(Disabled \subseteq KnownRules)
  /\ Refuse("args")

AcceptArguments ==
  /\ stage = "args"
  /\ Disabled \subseteq KnownRules
  /\ stage' = "load"
  /\ UNCHANGED <<vars, options, applying, answer>>

(***************************************************************************)
(* A file that cannot be read or parsed, or a ref git cannot resolve.      *)
(***************************************************************************)
LoadFails == Refuse("load")

BaseFails ==
  /\ in.base # {} /\ Diff \notin Disabled
  /\ Refuse("base")

Load ==
  /\ stage = "load"
  /\ stage' = "base"
  /\ UNCHANGED <<vars, options, applying, answer>>

(* Faulty: the base is read whatever --disable says. *)
UseBaseAlways ==
  /\ stage = "base"
  /\ stage' = "scan"
  /\ UNCHANGED <<vars, options, applying, answer>>

(***************************************************************************)
(* Disabling the diff rule is the same as not giving --base.               *)
(***************************************************************************)
UseBase ==
  /\ stage = "base"
  /\ in' = IF Diff \in Disabled THEN [in EXCEPT !.base = {}] ELSE in
  /\ stage' = "scan"
  /\ UNCHANGED <<pc, k, byTopic, reads, orphans, raised, findings>>
  /\ UNCHANGED <<options, applying, answer>>

(***************************************************************************)
(* lint: the markers are scanned before the rules run.                     *)
(***************************************************************************)
ScanFails == Refuse("scan")

Scan ==
  /\ stage = "scan"
  /\ markers' = options.markers
  /\ stage' = "run"
  /\ UNCHANGED <<vars, options, given, ran, mpc, mk, kept, acks, used, warned, answer>>

RunStep ==
  /\ stage = "run"
  /\ Next
  /\ UNCHANGED <<options, stage, applying, answer>>

(***************************************************************************)
(* The rules that ran: those not disabled, and the diff rule only with a   *)
(* base.                                                                   *)
(***************************************************************************)
Ran == {r \in KnownRules \ Disabled : r = Diff => in.base # {}}

Hand ==
  /\ stage = "run"
  /\ pc = "done"
  /\ given' = Listing
  /\ ran' = Ran
  /\ stage' = "apply"
  /\ UNCHANGED <<vars, options, markers, mpc, mk, kept, acks, used, warned, answer>>

ApplyStep ==
  /\ stage = "apply"
  /\ Marking!Next
  /\ UNCHANGED <<vars, options, stage, answer>>

(* Faulty: what stands is counted with what is left out. *)
HiddenAndShown == {given[i].rule : i \in kept} \cup {"ignore-marker" : w \in warned}

(***************************************************************************)
(* The rules hiddenNote names.                                             *)
(***************************************************************************)
Hidden ==
  Disabled \cap ({given[i].rule : i \in kept} \cup {"ignore-marker" : w \in warned})

(***************************************************************************)
(* without, and the loop after it: what a disabled rule said is left out   *)
(* of the findings and of the acknowledgements, and only the findings are  *)
(* counted.                                                                *)
(***************************************************************************)
LeaveOut ==
  /\ stage = "apply"
  /\ mpc = "done"
  /\ shown' = {i \in kept : given[i].rule \notin Disabled}
  /\ nagged' = IF "ignore-marker" \in Disabled THEN {} ELSE warned
  /\ listed' = {a \in acks : given[a.finding].rule \notin Disabled}
  /\ hidden' = Hidden
  /\ stage' = "report"
  /\ UNCHANGED <<vars, options, applying, summary, code>>

-----------------------------------------------------------------------------
(* The answer.                                                             *)

(* Faulty: acknowledgements are not looked at. *)
SummaryOfFindings ==
  IF shown # {} \/ nagged # {} THEN "counts"
  ELSE IF hidden = {} THEN "agree"
  ELSE "nothing else"

(***************************************************************************)
(* TextReport: the counts of what stands, the claim that source, connector *)
(* and sink agree, or that there is nothing beyond what was left out.      *)
(***************************************************************************)
Summary ==
  IF shown # {} \/ nagged # {} THEN "counts"
  ELSE IF hidden = {} /\ listed = {} THEN "agree"
  ELSE "nothing else"

Rank(severity) ==
  CASE severity = "info" -> 0 [] severity = "warning" -> 1 [] OTHER -> 2

(* Faulty: a finding has to be above the bar. *)
FailsAbove(severity) == Rank(severity) > Rank(options.failOn)

(***************************************************************************)
(* The bar is error unless --fail-on is warning or info, whatever else it  *)
(* says.                                                                   *)
(***************************************************************************)
Fails(severity) == Rank(severity) >= Rank(options.failOn)

Answer ==
  /\ stage = "report"
  /\ summary' = Summary
  /\ code' = IF \/ \E i \in shown : Fails(given[i].severity)
                \/ nagged # {} /\ Fails("warning")
               THEN 1 ELSE 0
  /\ stage' = "exit"
  /\ UNCHANGED <<vars, options, applying, shown, nagged, listed, hidden>>

CommandNext ==
  \/ RefuseArguments \/ RefuseDisable \/ AcceptArguments \/ LoadFails \/ Load
  \/ BaseFails \/ UseBase \/ ScanFails \/ Scan
  \/ RunStep \/ Hand \/ ApplyStep \/ LeaveOut \/ Answer

CommandSpec == CommandInit /\ [][CommandNext]_commandVars

-----------------------------------------------------------------------------
(* Properties                                                              *)

Answered == stage = "exit" /\ code # 2

(***************************************************************************)
(* Every variable of the command keeps its type.                           *)
(***************************************************************************)
CommandTypeOK ==
  /\ options \in Options
  /\ stage \in {"args", "load", "base", "scan", "run", "apply", "report", "exit"}
  /\ given \in Seq(Marking!Findings)
  /\ markers \in Seq(Marking!Markers)
  /\ ran \in SUBSET KnownRules
  /\ Marking!TypeOK
  /\ shown \subseteq kept /\ nagged \subseteq warned /\ listed \subseteq acks
  /\ hidden \subseteq Disabled
  /\ summary \in {"none", "counts", "agree", "nothing else"}
  /\ code \in 0 .. 2

(***************************************************************************)
(* The findings that say sink column r.column, or its whole sink table, is *)
(* left at its default.                                                    *)
(***************************************************************************)
About(r) ==
  {i \in DOMAIN given :
     LET at == [file |-> given[i].file, line |-> given[i].line]
     IN  \/ /\ given[i].rule \in {"sink-table-not-captured", "sink-column-flattened"}
            /\ at = SinkAt(r.sink)
         \/ /\ given[i].rule \in {"sink-column-not-captured", "sink-column-unknown"}
            /\ at = SinkColumnAt(r.sink, r.column)}

Acknowledged == {a.finding : a \in acks}

FailingSeverities ==
  {"error"} \cup (IF options.failOn \in {"info", "warning"} THEN {"warning"} ELSE {})
            \cup (IF options.failOn = "info" THEN {"info"} ELSE {})

(***************************************************************************)
(* A run that passes leaves no sink column at its default that nobody      *)
(* decided on: each one whose value never arrives has a finding, and that  *)
(* finding is below the bar the caller set, of a rule the caller disabled, *)
(* or acknowledged by a marker (main.go:97-110, 129-154).                  *)
(***************************************************************************)
PassMeansDecided ==
  Answered /\ code = 0 =>
    \A r \in {x \in reads : ~Arrives(x)} : \E i \in About(r) :
      \/ given[i].rule \in Disabled
      \/ i \in Acknowledged
      \/ given[i].severity \notin FailingSeverities

(***************************************************************************)
(* Disabling the diff rule hides no column: every column the connector     *)
(* leaves out is reported by a rule that is not the disabled one           *)
(* (main.go:97-100).                                                       *)
(***************************************************************************)
DisablingDiffRuleHidesNoColumn ==
  Answered /\ Diff \in Disabled =>
    LeftOut = AskedForButLeftOut \cup findings["source-column-not-captured"]

(***************************************************************************)
(* With nothing disabled the summary says that the three agree only when   *)
(* they do: every sink column read receives its value, every column of a   *)
(* captured table is captured, and every topic is produced                 *)
(* (main.go:203-222).                                                      *)
(***************************************************************************)
AgreeMeansAgree ==
  Answered /\ summary = "agree" /\ Disabled = {} =>
    /\ \A r \in reads : Arrives(r)
    /\ LeftOut = {}
    /\ orphans = {}

(***************************************************************************)
(* main.go:204-206, "A run whose findings were all acknowledged or         *)
(* disabled does not claim that the three files agree, which would be more *)
(* than was checked".                                                      *)
(***************************************************************************)
AgreeIsNoMoreThanWasChecked ==
  Answered /\ summary = "agree" => given = <<>>

=============================================================================
