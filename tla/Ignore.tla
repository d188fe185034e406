------------------------------- MODULE Ignore -------------------------------
(***************************************************************************)
(* internal/ignore: cdclint:ignore markers, the comments that record a     *)
(* decision about one finding.  Apply takes the findings one by one and    *)
(* gives each to the first valid marker that covers it, then takes the     *)
(* markers one by one and warns about those that record nothing.           *)
(***************************************************************************)
EXTENDS Naturals, Sequences, FiniteSets, FiniteSetsExt

CONSTANTS
  RuleNames,   \* the rules a marker may name (engine.Rules)
  DiffRules,   \* the rules that judge the change rather than the state
  NotARule,    \* stands for a name that is no rule's
  Files,       \* the files findings and markers are in
  Cases        \* what Apply may be given

IgnoreMarker == "ignore-marker"

ASSUME IgnoreAssumption ==
  /\ NotARule \notin RuleNames
  /\ DiffRules \subseteq RuleNames
  /\ IgnoreMarker \in RuleNames

Severities == {"info", "warning", "error"}

(***************************************************************************)
(* model.Finding, its texts left out.                                      *)
(***************************************************************************)
Findings == [rule : RuleNames, severity : Severities, file : Files, line : Nat]

(***************************************************************************)
(* ignore.Marker, as Scan reads it off a line.  reasoned is whether a      *)
(* reason follows the colon, alone whether the line holds nothing else.    *)
(***************************************************************************)
Markers ==
  [file : Files, line : Nat, rules : SUBSET (RuleNames \cup {NotARule}),
   reasoned : BOOLEAN, alone : BOOLEAN]

(***************************************************************************)
(* What Apply may be given: findings, markers and the rules that ran.      *)
(***************************************************************************)
CaseType ==
  [given : Seq(Findings), markers : Seq(Markers), ran : SUBSET RuleNames]

ASSUME CasesAssumption == Cases \subseteq CaseType

VARIABLES
  given,     \* the findings of the rules, in order
  markers,   \* the markers scanned, in the order of directories and lines
  ran,       \* the rules that ran
  pc,        \* "findings", "markers" or "done"
  k,         \* the finding or marker the loop is at
  kept,      \* the findings that stand, by their place in given
  acks,      \* the findings acknowledged, each with its marker
  used,      \* the markers that acknowledged a finding
  warned     \* the markers warned about, each with the problem

vars == <<given, markers, ran, pc, k, kept, acks, used, warned>>

-----------------------------------------------------------------------------

Valid(m) == m.reasoned /\ m.rules # {} /\ m.rules \subseteq RuleNames

(* Faulty: a trailing marker reaches the line below. *)
CoversNextLineToo(m, line) ==
  line \in (IF m.alone THEN {m.line + 1} ELSE {m.line, m.line + 1})

(***************************************************************************)
(* A marker alone on its line covers the line below, any other its own.    *)
(***************************************************************************)
Covers(m, line) == line = IF m.alone THEN m.line + 1 ELSE m.line

Acknowledges(m, f) ==
  Valid(m) /\ m.file = f.file /\ Covers(m, f.line) /\ f.rule \in m.rules

CoveredBy(f) == {i \in DOMAIN markers : Acknowledges(markers[i], f)}

(***************************************************************************)
(* judgedNow: a marker that covers nothing is stale only if all its rules  *)
(* ran and judge the current state.                                        *)
(***************************************************************************)
JudgedNow(m) == m.rules \cap DiffRules = {} /\ m.rules \subseteq ran

(***************************************************************************)
(* What is wrong with marker i, in the order Apply's switch asks.          *)
(***************************************************************************)
Problem(i) ==
  LET m == markers[i]
  IN  IF m.rules = {} THEN "names no rule"
      ELSE IF ~(m.rules \subseteq RuleNames) THEN "names an unknown rule"
      ELSE IF ~m.reasoned THEN "gives no reason"
      ELSE IF i \notin used /\ JudgedNow(m) THEN "covers nothing"
      ELSE "none"

-----------------------------------------------------------------------------

Init ==
  /\ \E c \in Cases : given = c.given /\ markers = c.markers /\ ran = c.ran
  /\ pc = "findings"
  /\ k = 1
  /\ kept = {}
  /\ acks = {}
  /\ used = {}
  /\ warned = {}

AtFinding ==
  /\ pc = "findings"
  /\ k <= Len(given)
  /\ k' = k + 1
  /\ UNCHANGED <<given, markers, ran, pc, warned>>

(* Faulty: the place recorded is the next one. *)
KeepNext ==
  /\ AtFinding
  /\ CoveredBy(given[k]) = {}
  /\ kept' = kept \cup {k + 1}
  /\ UNCHANGED <<acks, used>>

Keep ==
  /\ AtFinding
  /\ CoveredBy(given[k]) = {}
  /\ kept' = kept \cup {k}
  /\ UNCHANGED <<acks, used>>

(* Faulty: the marker is not recorded as used. *)
AcknowledgeUnrecorded ==
  LET covering == CoveredBy(given[k])
  IN  /\ AtFinding
      /\ covering # {}
      /\ acks' = acks \cup {[finding |-> k, by |-> Min(covering)]}
      /\ UNCHANGED <<used, kept>>

(***************************************************************************)
(* The first marker that covers the finding acknowledges it.               *)
(***************************************************************************)
Acknowledge ==
  LET covering == CoveredBy(given[k])
  IN  /\ AtFinding
      /\ covering # {}
      /\ acks' = acks \cup {[finding |-> k, by |-> Min(covering)]}
      /\ used' = used \cup {Min(covering)}
      /\ UNCHANGED kept

FindingsDone ==
  /\ pc = "findings"
  /\ k > Len(given)
  /\ pc' = "markers"
  /\ k' = 1
  /\ UNCHANGED <<given, markers, ran, kept, acks, used, warned>>

AtMarker ==
  /\ pc = "markers"
  /\ k <= Len(markers)
  /\ k' = k + 1
  /\ UNCHANGED <<given, markers, ran, pc, kept, acks, used>>

Warn ==
  /\ AtMarker
  /\ Problem(k) # "none"
  /\ warned' = warned \cup {[marker |-> k, problem |-> Problem(k)]}

Pass ==
  /\ AtMarker
  /\ Problem(k) = "none"
  /\ UNCHANGED warned

MarkersDone ==
  /\ pc = "markers"
  /\ k > Len(markers)
  /\ pc' = "done"
  /\ UNCHANGED <<given, markers, ran, k, kept, acks, used, warned>>

Next ==
  \/ Keep \/ Acknowledge \/ FindingsDone
  \/ Warn \/ Pass \/ MarkersDone

Spec == Init /\ [][Next]_vars

-----------------------------------------------------------------------------
(* Properties                                                              *)

(***************************************************************************)
(* Every variable keeps its type.                                          *)
(***************************************************************************)
TypeOK ==
  /\ pc \in {"findings", "markers", "done"}
  /\ k \in Nat \ {0}
  /\ kept \subseteq DOMAIN given
  /\ acks \subseteq [finding : DOMAIN given, by : DOMAIN markers]
  /\ used \subseteq DOMAIN markers
  /\ warned \subseteq
       [marker : DOMAIN markers,
        problem : {"names no rule", "names an unknown rule", "gives no reason",
                   "covers nothing"}]

Acknowledged == {a.finding : a \in acks}
Warned == {w.marker : w \in warned}

(***************************************************************************)
(* A finding stops failing the run only through a decision someone wrote   *)
(* down for it: it stands, or it is acknowledged by a marker with a reason *)
(* that names its rule, after the code on its own line or alone on the     *)
(* line above, and that is not itself warned about (ignore.go:9-13,        *)
(* 120-151).                                                               *)
(***************************************************************************)
AcknowledgedOnPurpose ==
  pc = "done" =>
    /\ kept \cup Acknowledged = DOMAIN given
    /\ kept \cap Acknowledged = {}
    /\ \A a \in acks :
         LET f == given[a.finding]
             m == markers[a.by]
         IN  /\ a.by \notin Warned
             /\ m.reasoned /\ f.rule \in m.rules /\ m.file = f.file
             /\ \/ ~m.alone /\ m.line = f.line
                \/ m.alone /\ m.line + 1 = f.line

(***************************************************************************)
(* The warnings about markers are the right ones: with every marker warned *)
(* about taken out of the files the same findings would stand, and a       *)
(* marker not warned about acknowledged a finding, names a rule that did   *)
(* not run, or names one that judges the change (ignore.go:113-118,        *)
(* 136-165).                                                               *)
(***************************************************************************)
WarningsAreExact ==
  pc = "done" =>
    /\ \A i \in Acknowledged : CoveredBy(given[i]) \ Warned # {}
    /\ \A i \in DOMAIN markers \ Warned :
         \/ \E a \in acks : a.by = i
         \/ markers[i].rules \cap (DiffRules \cup (RuleNames \ ran)) # {}

=============================================================================
