------------------------------- MODULE MCBase -------------------------------
(***************************************************************************)
(* Small instances of Base: a commit for every pair of a migrations        *)
(* directory and a connector file, each of which may be absent.            *)
(***************************************************************************)
EXTENDS Base

MCDirectories == {"dir1", "dir2"}
MCFiles == {"file1", "file2"}

MCCommits == (MCDirectories \cup {Absent}) \X (MCFiles \cup {Absent})

MCDirectoryAt == [c \in MCCommits |-> c[1]]
MCFileAt == [c \in MCCommits |-> c[2]]

=============================================================================
