---------------------------- MODULE BaseSnapshot ----------------------------
(***************************************************************************)
(* What LoadBase promises: the base of a change is one commit, compared    *)
(* with the connector in the working tree, as if both were read at one     *)
(* instant. The comparison is BaseFromFiles's (cmd/cdclint), which the     *)
(* corpus tests build a base with.                                         *)
(***************************************************************************)

CONSTANTS
  Commits,         \* commits the ref may name
  Directories,     \* contents the migrations directory may have
  ConnectorFiles,  \* contents the connector file may have
  Absent,          \* a directory or a file that is not there
  DirectoryAt,     \* the migrations directory at each commit
  FileAt,          \* the connector file at each commit
  Pending, Failed  \* stand for no answer yet, and for an error

ASSUME SnapshotAssumption ==
  /\ Absent \notin Directories \cup ConnectorFiles
  /\ DirectoryAt \in [Commits -> Directories \cup {Absent}]
  /\ FileAt \in [Commits -> ConnectorFiles \cup {Absent}]
  /\ Pending # Failed

VARIABLES
  ref,     \* the commit the ref names
  tree,    \* the connector file in the working tree
  base     \* what LoadBase returned

snapshotVars == <<ref, tree, base>>

(***************************************************************************)
(* engine.Base: the id findings quote, the source as the reader the        *)
(* connector calls for reads it, and the connector's contract at the base  *)
(* where there is one to parse.                                            *)
(***************************************************************************)
BaseFrom(id, reader, files, contract, changed) ==
  [id |-> id, reader |-> reader, files |-> files, contract |-> contract,
   changed |-> changed]

(***************************************************************************)
(* A connector that did not exist at the base has no decisions, an         *)
(* unchanged one has the head's.                                           *)
(***************************************************************************)
BaseFromFiles(id, files, then, now) ==
  BaseFrom(id, now, files, {then} \ {Absent, now}, then # now)

Init == ref \in Commits /\ tree \in ConnectorFiles /\ base = Pending

Take ==
  /\ base = Pending
  /\ base' = BaseFromFiles(ref, DirectoryAt[ref], FileAt[ref], tree)
  /\ UNCHANGED <<ref, tree>>

Fail ==
  /\ base = Pending
  /\ base' = Failed
  /\ UNCHANGED <<ref, tree>>

(* The branch is pushed to or fetched while cdclint runs. *)
Move == ref' \in Commits /\ UNCHANGED <<tree, base>>

Next == Take \/ Fail \/ Move

Spec == Init /\ [][Next]_snapshotVars

=============================================================================
