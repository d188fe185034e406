----------------------------- MODULE BaseProofs -----------------------------
(***************************************************************************)
(* That LoadBase reads one commit while the ref cannot move, proved for    *)
(* any commits, directories and connector files.                           *)
(*                                                                         *)
(* The invariant says what each command may take for granted from the ones *)
(* before it: the id, the migrations and the presence of the connector are *)
(* all those of the commit the ref names. Only a ref that moves, or is     *)
(* deleted, breaks it.                                                     *)
(***************************************************************************)
EXTENDS Base, TLAPS

(***************************************************************************)
(* What has been read is what the ref's commit holds.                      *)
(***************************************************************************)
ReadSoFar ==
  /\ pc # "done" => base = Pending
  /\ pc \notin {"resolve", "done"} => id = ref
  /\ pc \notin {"resolve", "head", "done"} => head = tree
  /\ pc \in {"resolve", "head", "exists dir"} => files = Absent
  /\ pc \in {"exists", "diff", "exists file", "show"} => files = DirectoryAt[ref]
  /\ pc \in {"diff", "exists file", "show"} => FileAt[ref] # Absent
  /\ pc \in {"exists file", "show"} => FileAt[ref] # tree

(***************************************************************************)
(* What the commands so far have left behind, whether or not the ref       *)
(* moved.                                                                  *)
(***************************************************************************)
Known ==
  /\ pc \notin {"resolve", "done"} => id \in Commits
  /\ pc \notin {"resolve", "head", "done"} => head \in ConnectorFiles

TypeInv == BaseTypeOK /\ Known

-----------------------------------------------------------------------------

(***************************************************************************)
(* A base put together from what the commands return has its type.         *)
(***************************************************************************)
LEMMA BaseFromType ==
  ASSUME NEW c \in Commits, NEW reader \in ConnectorFiles,
         NEW fs \in Directories \cup {Absent},
         NEW contract \in SUBSET ConnectorFiles, NEW changed \in BOOLEAN
  PROVE  BaseFrom(c, reader, fs, contract, changed)
           \in [id : Commits, reader : ConnectorFiles,
                files : Directories \cup {Absent},
                contract : SUBSET ConnectorFiles, changed : BOOLEAN]
BY DEF BaseFrom

(***************************************************************************)
(* One command changes neither the ref nor the working tree, and returns a *)
(* base of the right type if it returns one.                               *)
(***************************************************************************)
LEMMA TypeStep ==
  ASSUME TypeInv, [BaseNext]_vars
  PROVE  TypeInv'
<1> USE SnapshotAssumption DEF TypeInv
<1>1. DirectoryAt[ref] \in Directories \cup {Absent}
      /\ FileAt[ref] \in ConnectorFiles \cup {Absent}
  BY DEF BaseTypeOK
<1>2. CASE Resolve \/ ReadHead \/ DirAbsent \/ DirExists \/ ConnectorExists
           \/ Changed \/ ShowExists
  BY <1>2 DEF Resolve, ReadHead, DirAbsent, DirExists, ConnectorExists, Changed,
              ShowExists, Running, Goto, BaseTypeOK, Known, Commands
<1>3. CASE Archive
  BY <1>1, <1>3 DEF Archive, Running, Goto, BaseTypeOK, Known, Commands
<1>4. CASE ConnectorAbsent \/ Unchanged \/ Show
  <2>1. id \in Commits /\ head \in ConnectorFiles /\ files \in Directories \cup {Absent}
    BY <1>4 DEF ConnectorAbsent, Unchanged, Show, Running, Known, BaseTypeOK
  <2>2. PICK contract \in SUBSET ConnectorFiles, changed \in BOOLEAN :
          base' = BaseFrom(id, head, files, contract, changed)
    BY <1>1, <1>4 DEF ConnectorAbsent, Unchanged, Show, There, Return
  <2>3. pc' = "done" /\ UNCHANGED <<ref, tree, pinned, deleted, id, head, files>>
    BY <1>4 DEF ConnectorAbsent, Unchanged, Show, Running, Return
  <2> QED
    BY <2>1, <2>2, <2>3, BaseFromType DEF BaseTypeOK, Known, Commands
<1>5. CASE ReadFails \/ MoveRef \/ DeleteRef \/ UNCHANGED vars
  BY <1>5 DEF ReadFails, MoveRef, DeleteRef, Move, readVars, vars, BaseTypeOK, Known, Commands
<1> QED
  BY <1>2, <1>3, <1>4, <1>5 DEF BaseNext

(***************************************************************************)
(* Every variable keeps its type, whether or not the ref moves.            *)
(***************************************************************************)
THEOREM TypeCorrect == BaseSpec => []BaseTypeOK
<1>1. BaseInit => TypeInv
  BY DEF BaseInit, Init, TypeInv, BaseTypeOK, Known, Commands
<1>2. TypeInv => BaseTypeOK
  BY DEF TypeInv
<1> QED
  BY <1>1, <1>2, TypeStep, PTL DEF BaseSpec

-----------------------------------------------------------------------------

(***************************************************************************)
(* A commit id stays one.                                                  *)
(***************************************************************************)
LEMMA PinnedStep ==
  ASSUME [BaseNext]_vars
  PROVE  pinned' = pinned
BY DEF BaseNext, Resolve, ReadHead, DirAbsent, DirExists, Archive, ConnectorAbsent,
       ConnectorExists, Unchanged, Changed, ShowExists, Show, ReadFails, MoveRef,
       DeleteRef, Running, vars, readVars

(***************************************************************************)
(* Nor is it deleted.                                                      *)
(***************************************************************************)
LEMMA DeletedStep ==
  ASSUME [BaseNext]_vars, pinned, ~deleted
  PROVE  ~deleted'
<1>1. UNCHANGED deleted
  BY DEF BaseNext, Resolve, ReadHead, DirAbsent, DirExists, Archive, ConnectorAbsent,
         ConnectorExists, Unchanged, Changed, ShowExists, Show, ReadFails, MoveRef,
         DeleteRef, Running, vars, readVars
<1> QED
  BY <1>1

(***************************************************************************)
(* Each command leaves what has been read agreeing with the ref's commit.  *)
(***************************************************************************)
LEMMA ReadStep ==
  ASSUME ReadSoFar, [BaseNext]_vars, pinned, ~deleted
  PROVE  ReadSoFar'
<1>1. CASE Resolve \/ ReadHead \/ DirAbsent \/ DirExists
  BY <1>1 DEF Resolve, ReadHead, DirAbsent, DirExists, Running, Goto, There, ReadSoFar
<1>2. CASE Archive \/ ConnectorExists
  BY <1>2 DEF Archive, ConnectorExists, Running, Goto, There, ReadSoFar
<1>3. CASE Changed \/ ShowExists
  BY <1>3 DEF Changed, ShowExists, Running, Goto, There, ReadSoFar
<1>4. CASE ConnectorAbsent \/ Unchanged \/ Show \/ ReadFails
  <2>1. pc' = "done"
    BY <1>4 DEF ConnectorAbsent, Unchanged, Show, ReadFails, Return
  <2> QED
    BY <2>1 DEF ReadSoFar
<1>5. CASE UNCHANGED vars
  BY <1>5 DEF vars, readVars, ReadSoFar
<1> QED
  BY <1>1, <1>2, <1>3, <1>4, <1>5 DEF BaseNext, MoveRef, DeleteRef

(***************************************************************************)
(* Each command is a step of the snapshot: the one that returns takes it,  *)
(* and all before it stutter.                                              *)
(***************************************************************************)
LEMMA StepRefines ==
  ASSUME BaseTypeOK, ReadSoFar, [BaseNext]_vars, pinned, ~deleted
  PROVE  [Next]_snapshotVars
<1>1. CASE Resolve \/ ReadHead \/ DirAbsent \/ DirExists \/ Archive
           \/ ConnectorExists \/ Changed \/ ShowExists
  BY <1>1 DEF Resolve, ReadHead, DirAbsent, DirExists, Archive, ConnectorExists,
              Changed, ShowExists, Running, Goto, snapshotVars
<1>2. CASE ConnectorAbsent \/ Unchanged \/ Show
  <2>1. base = Pending /\ id = ref /\ head = tree /\ files = DirectoryAt[ref]
    BY <1>2 DEF ConnectorAbsent, Unchanged, Show, Running, ReadSoFar
  <2>2. base' = BaseFromFiles(ref, DirectoryAt[ref], FileAt[ref], tree)
    <3>1. CASE ConnectorAbsent
      <4>1. FileAt[ref] = Absent /\ Absent # tree
        BY <3>1, SnapshotAssumption DEF ConnectorAbsent, There, ReadSoFar, BaseTypeOK
      <4> QED
        BY <2>1, <3>1, <4>1 DEF ConnectorAbsent, Return, BaseFromFiles
    <3>2. CASE Unchanged
      BY <2>1, <3>2 DEF Unchanged, Return, BaseFromFiles
    <3>3. CASE Show
      <4>1. FileAt[ref] # Absent /\ FileAt[ref] # tree
        BY <3>3 DEF Show, Running, ReadSoFar
      <4>2. {FileAt[ref]} \ {Absent, tree} = {FileAt[ref]}
        BY <4>1
      <4> QED
        BY <2>1, <3>3, <4>1, <4>2 DEF Show, Return, BaseFromFiles
    <3> QED
      BY <1>2, <3>1, <3>2, <3>3
  <2> QED
    BY <1>2, <2>1, <2>2 DEF ConnectorAbsent, Unchanged, Show, Running, Next, Take
<1>3. CASE ReadFails
  BY <1>3 DEF ReadFails, ReadSoFar, Next, Fail
<1>4. CASE UNCHANGED vars
  BY <1>4 DEF vars, snapshotVars
<1> QED
  BY <1>1, <1>2, <1>3, <1>4 DEF BaseNext, MoveRef, DeleteRef

(***************************************************************************)
(* While the ref cannot move LoadBase reads one commit: its commands       *)
(* implement BaseSnapshot (main.go:342-384).                               *)
(***************************************************************************)
THEOREM ReadsOneCommit == BaseSpec => IsSnapshot
<1> DEFINE Agrees == pinned => ~deleted /\ ReadSoFar
<1>1. BaseInit => Init /\ Agrees
  BY DEF BaseInit, Init, ReadSoFar
<1>2. Agrees /\ [BaseNext]_vars => Agrees'
  BY ReadStep, PinnedStep, DeletedStep
<1>3. BaseTypeOK /\ Agrees /\ [BaseNext]_vars => [pinned => Next]_snapshotVars
  BY StepRefines
<1> QED
  BY <1>1, <1>2, <1>3, TypeCorrect, PTL DEF BaseSpec, IsSnapshot

=============================================================================
