------------------------------ MODULE Migrate -------------------------------
(***************************************************************************)
(* The halves of a migration (internal/migrate). A tool that migrates      *)
(* forward runs no down half; the reader blanks what follows a down marker *)
(* up to the next marker of the file, and passes over a file whose name    *)
(* ends in .down.sql.                                                      *)
(***************************************************************************)

VARIABLES
  half,    \* "up" or "down": the half the statements being met belong to
  skipped, \* whether migrate.Down holds of the file
  down     \* whether Up is blanking lines

halfVars == <<half, skipped, down>>

HalvesInit ==
  /\ half = "up"
  /\ skipped = FALSE
  /\ down = FALSE

(* Faulty: a down section goes on into the next file. *)
OpenFileWithin(isDown) ==
  /\ half' = IF isDown THEN "down" ELSE "up"
  /\ skipped' = isDown
  /\ UNCHANGED down

(***************************************************************************)
(* The next file in name order; isDown: its name says it is a down half.   *)
(***************************************************************************)
OpenFile(isDown) ==
  /\ half' = IF isDown THEN "down" ELSE "up"
  /\ skipped' = isDown
  /\ down' = FALSE

(***************************************************************************)
(* A marker of goose, sql-migrate or dbmate, in a file with both halves.   *)
(***************************************************************************)
Marker(which) ==
  /\ ~skipped
  /\ half' = which
  /\ down' = (which = "down")
  /\ UNCHANGED skipped

Runs == half = "up"
Read == ~skipped /\ ~down

=============================================================================
