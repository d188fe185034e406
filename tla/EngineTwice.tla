---------------------------- MODULE EngineTwice -----------------------------
(***************************************************************************)
(* The linter run twice over one unchanged input: when the first run has   *)
(* reported, what it found is put aside and a second one starts afresh.    *)
(* The two may meet the entries of the topic index in different orders,    *)
(* since Go randomises map iteration (engine.go:142).                      *)
(***************************************************************************)
EXTENDS Engine

CONSTANT Again   \* the inputs there is a second run over

VARIABLE earlier   \* what the first run found, once the second has started

TwiceInit == Init /\ earlier = <<>>

RunOn == Next /\ UNCHANGED earlier

(***************************************************************************)
(* Nothing of the first run is left but its report.                        *)
(***************************************************************************)
RunAgain ==
  /\ pc = "done"
  /\ in \in Again
  /\ earlier = <<>>
  /\ earlier' = <<findings>>
  /\ pc' = "index"
  /\ k' = 1
  /\ byTopic' = [tp \in {} |-> NoName]
  /\ reads' = {}
  /\ orphans' = {}
  /\ raised' = {}
  /\ findings' = [r \in Rules |-> {}]
  /\ UNCHANGED in

TwiceNext == RunOn \/ RunAgain

TwiceSpec == TwiceInit /\ [][TwiceNext]_<<vars, earlier>>

-----------------------------------------------------------------------------

(***************************************************************************)
(* No sink connector writes two topics of the source into one sink table.  *)
(***************************************************************************)
OneTopicPerSinkTable ==
  \A i \in DOMAIN in.sinks, m \in DOMAIN in.mappers, tp, tq \in Topics :
    MappedBy(m, tp, in.sinks[i]) /\ MappedBy(m, tq, in.sinks[i]) => tp = tq

(***************************************************************************)
(* model.go:167, "Sort orders findings for stable output": two runs over   *)
(* the same files find the same.                                           *)
(***************************************************************************)
SameFindings ==
  pc = "done" => \A i \in DOMAIN earlier : findings = earlier[i]

(***************************************************************************)
(* While no sink table is fed from two topics, what a run finds does not   *)
(* depend on the order the topic index is met in: of several connectors    *)
(* that write a sink table the first named on the command line decides     *)
(* (engine.go:138-151).                                                    *)
(***************************************************************************)
SameFindingsForOneTopic == OneTopicPerSinkTable => SameFindings

=============================================================================
