------------------------------ MODULE MCIgnore ------------------------------
(***************************************************************************)
(* Small instances of Ignore: a migration of three lines, up to two        *)
(* findings in it, and at most one marker on each of its lines.            *)
(***************************************************************************)
EXTENDS Ignore

Inventory == "source-column-not-captured"
Diff == "schema-before-connector"

MCRules == {Inventory, Diff, IgnoreMarker}
MCDiffRules == {Diff}
MCFiles == {"0001.sql", "sink.sql"}

Lines == 1 .. 3

FindingAt(rule, severity, file, line) ==
  [rule |-> rule, severity |-> severity, file |-> file, line |-> line]

MCFindings ==
  {FindingAt(Inventory, "info", "0001.sql", l) : l \in 2 .. 3}
  \cup {FindingAt(Diff, "warning", "0001.sql", l) : l \in 2 .. 3}
  \cup {FindingAt(Inventory, "info", "sink.sql", 2)}

RuleLists ==
  {{}, {Inventory}, {Diff}, {Inventory, Diff}, {Inventory, NotARule}, {IgnoreMarker}}

MCMarker(l, rules, reasoned, alone) ==
  [file |-> "0001.sql", line |-> l, rules |-> rules, reasoned |-> reasoned,
   alone |-> alone]

(***************************************************************************)
(* One line holds at most one marker; Scan lists them by line.             *)
(***************************************************************************)
MarkersOn(l) ==
  {MCMarker(l, rules, reasoned, alone) :
     rules \in RuleLists, reasoned \in BOOLEAN, alone \in BOOLEAN}

MarkerLists ==
  {<<>>} \cup UNION {{<<m>> : m \in MarkersOn(l)} : l \in Lines}
  \cup UNION {MarkersOn(l) \X MarkersOn(l + 1) : l \in 1 .. 2}

GivenLists ==
  {<<>>} \cup {<<f>> : f \in MCFindings}
  \cup {<<f, g>> : f \in MCFindings, g \in MCFindings}

MCCases ==
  {[given |-> fs, markers |-> ms, ran |-> r] :
     fs \in GivenLists, ms \in MarkerLists, r \in {MCRules, MCRules \ {Diff}}}

=============================================================================
