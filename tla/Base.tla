-------------------------------- MODULE Base --------------------------------
(***************************************************************************)
(* LoadBase (cmd/cdclint) over internal/gitread: the base of a change,     *)
(* read from git one command at a time. Every command but the first is     *)
(* given the ref as the caller wrote it, so each resolves it anew, while a *)
(* branch may be moved or deleted by whoever shares the repository.        *)
(***************************************************************************)
EXTENDS BaseSnapshot

VARIABLES
  pinned,  \* whether the ref is a commit id, which cannot move
  deleted, \* whether the ref is a branch that has been deleted
  pc,      \* the command to run next
  id,      \* the commit Resolve found
  head,    \* the connector file, read again for the dialect
  files    \* the migrations read

readVars == <<pinned, deleted, pc, id, head, files>>
vars == <<ref, tree, base, readVars>>

BaseInit ==
  /\ Init
  /\ pinned \in BOOLEAN
  /\ deleted = FALSE
  /\ pc = "resolve"
  /\ id = Absent
  /\ head = Absent
  /\ files = Absent

Running(at) == pc = at /\ UNCHANGED <<ref, tree, pinned, deleted>>

Goto(next) == pc' = next /\ UNCHANGED base

Return(b) == pc' = "done" /\ base' = b

(***************************************************************************)
(* gitread.Exists: git answers the same for a path the commit does not     *)
(* have and for a ref it no longer knows.                                  *)
(***************************************************************************)
There(at) == ~deleted /\ at[ref] # Absent

-----------------------------------------------------------------------------

(***************************************************************************)
(* gitread.Resolve: the full commit id findings will name.                 *)
(***************************************************************************)
Resolve ==
  /\ Running("resolve")
  /\ ~deleted
  /\ id' = ref
  /\ Goto("head")
  /\ UNCHANGED <<head, files>>

ReadHead ==
  /\ Running("head")
  /\ head' = tree
  /\ Goto("exists dir")
  /\ UNCHANGED <<id, files>>

(***************************************************************************)
(* gitread.Dir: a directory absent at the ref is an empty list; one that   *)
(* is there is archived by the next command, which fails if it is gone by  *)
(* then.                                                                   *)
(***************************************************************************)
DirAbsent ==
  /\ Running("exists dir")
  /\ ~There(DirectoryAt)
  /\ Goto("exists")
  /\ UNCHANGED <<id, head, files>>

DirExists ==
  /\ Running("exists dir")
  /\ There(DirectoryAt)
  /\ Goto("archive")
  /\ UNCHANGED <<id, head, files>>

Archive ==
  /\ Running("archive")
  /\ There(DirectoryAt)
  /\ files' = DirectoryAt[ref]
  /\ Goto("exists")
  /\ UNCHANGED <<id, head>>

(***************************************************************************)
(* gitread.Exists and gitread.Changed on the connector: one that did not   *)
(* exist then has no contract, and one git calls unchanged is not read.    *)
(***************************************************************************)
ConnectorAbsent ==
  /\ Running("exists")
  /\ ~There(FileAt)
  /\ Return(BaseFrom(id, head, files, {}, TRUE))
  /\ UNCHANGED <<id, head, files>>

ConnectorExists ==
  /\ Running("exists")
  /\ There(FileAt)
  /\ Goto("diff")
  /\ UNCHANGED <<id, head, files>>

(* Faulty: an unchanged connector is taken for one that is new. *)
UnchangedIsNew ==
  /\ Running("diff")
  /\ ~deleted
  /\ FileAt[ref] = tree
  /\ Return(BaseFrom(id, head, files, {}, TRUE))
  /\ UNCHANGED <<id, head, files>>

Unchanged ==
  /\ Running("diff")
  /\ ~deleted
  /\ FileAt[ref] = tree
  /\ Return(BaseFrom(id, head, files, {}, FALSE))
  /\ UNCHANGED <<id, head, files>>

Changed ==
  /\ Running("diff")
  /\ ~deleted
  /\ FileAt[ref] # tree
  /\ Goto("exists file")
  /\ UNCHANGED <<id, head, files>>

(* Faulty: what git show printed is taken for the file, whatever it is. *)
ShowUnchecked ==
  /\ Running("show")
  /\ Return(BaseFrom(id, head, files, {FileAt[ref]}, TRUE))
  /\ UNCHANGED <<id, head, files>>

(***************************************************************************)
(* gitread.Show asks again whether the file is there before it reads it.   *)
(***************************************************************************)
ShowExists ==
  /\ Running("exists file")
  /\ There(FileAt)
  /\ Goto("show")
  /\ UNCHANGED <<id, head, files>>

Show ==
  /\ Running("show")
  /\ There(FileAt)
  /\ Return(BaseFrom(id, head, files, {FileAt[ref]}, TRUE))
  /\ UNCHANGED <<id, head, files>>

(***************************************************************************)
(* A command fails, finds nothing where the one before found something, or *)
(* what it printed does not parse.                                         *)
(***************************************************************************)
ReadFails ==
  /\ pc # "done"
  /\ pc' = "done"
  /\ base' = Failed
  /\ UNCHANGED <<ref, tree, pinned, deleted, id, head, files>>

MoveRef ==
  /\ ~pinned
  /\ Move
  /\ deleted' = FALSE
  /\ UNCHANGED <<pinned, pc, id, head, files>>

DeleteRef ==
  /\ ~pinned
  /\ deleted' = TRUE
  /\ UNCHANGED <<ref, tree, base, pinned, pc, id, head, files>>

BaseNext ==
  \/ Resolve \/ ReadHead \/ DirAbsent \/ DirExists \/ Archive
  \/ ConnectorAbsent \/ ConnectorExists \/ Unchanged \/ Changed
  \/ ShowExists \/ Show \/ ReadFails \/ MoveRef \/ DeleteRef

BaseSpec == BaseInit /\ [][BaseNext]_vars

-----------------------------------------------------------------------------

Commands == {"resolve", "head", "exists dir", "archive", "exists", "diff",
             "exists file", "show", "done"}

(***************************************************************************)
(* Every variable keeps its type, whether or not the ref moves.            *)
(***************************************************************************)
BaseTypeOK ==
  /\ ref \in Commits
  /\ tree \in ConnectorFiles
  /\ pinned \in BOOLEAN
  /\ deleted \in BOOLEAN
  /\ pc \in Commands
  /\ id \in Commits \cup {Absent}
  /\ head \in ConnectorFiles \cup {Absent}
  /\ files \in Directories \cup {Absent}
  /\ \/ base \in {Pending, Failed}
     \/ base \in [id : Commits, reader : ConnectorFiles,
                  files : Directories \cup {Absent},
                  contract : SUBSET ConnectorFiles, changed : BOOLEAN]

(***************************************************************************)
(* While the ref cannot move the commands amount to one look at one        *)
(* commit: each but the last changes nothing a caller sees, and the last   *)
(* returns what the snapshot would (main.go:342-384, 386-404).             *)
(***************************************************************************)
IsSnapshot == Init /\ [][pinned => Next]_snapshotVars

=============================================================================
