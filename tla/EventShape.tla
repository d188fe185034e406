----------------------------- MODULE EventShape -----------------------------
(***************************************************************************)
(* What a change event's value looks like after a connector's single       *)
(* message transforms (internal/smt, model.Shape), and which source column *)
(* a sink column receives under that shape (engine.field).                 *)
(*                                                                         *)
(* A name a sink declares is a record: the part of the event it points     *)
(* into, the delimiter written after that part, and the column or field    *)
(* named last.  "after_id" is [part |-> "after", delim |-> "_", name |->   *)
(* "id"]; a plain "id" has part "row" and delim "".                        *)
(***************************************************************************)
EXTENDS Naturals, SequencesExt

CONSTANTS
  Columns,   \* the names source columns may have
  Delims,    \* the delimiters a Flatten transform may be given
  Names,     \* topic names and sink table names
  NoColumn   \* stands for a name that is no source column's

NoDelim == ""       \* no delimiter is written
DefaultDelim == "."  \* what Flatten joins with when none is

ASSUME ShapeAssumption ==
  /\ NoColumn \notin Columns
  /\ NoDelim \notin Delims
  /\ DefaultDelim \in Delims

(***************************************************************************)
(* model.ShapeKind and model.Shape; the transform and file a finding       *)
(* quotes are left out.                                                    *)
(***************************************************************************)
ShapeKinds == {"unknown", "envelope", "row", "flattened"}
Shapes == [kind : ShapeKinds, delim : Delims \cup {NoDelim}]

Plain(kind) == [kind |-> kind, delim |-> NoDelim]

(***************************************************************************)
(* One entry of transforms=.  "router" stands for RegexRouter, "quiet" for *)
(* the other transforms that leave the value alone (TimestampRouter,       *)
(* ByLogicalTableRouter, a $Key transform, Filter), "other" for every      *)
(* transform cdclint does not model.  renames is what a router's regex and *)
(* replacement make of each topic name; one it does not match is kept.     *)
(***************************************************************************)
TransformTypes == {"router", "quiet", "unwrap", "flatten", "other"}
Transforms ==
  [type : TransformTypes, conditional : BOOLEAN, delim : Delims \cup {NoDelim},
   renames : [Names -> Names]]

(***************************************************************************)
(* smt.Start: the value a source connector emits before its transforms.    *)
(***************************************************************************)
Start(afterStateOnly, isDebezium) ==
  CASE afterStateOnly = "false" -> Plain("envelope")
    [] afterStateOnly = "true"  -> Plain("row")
    [] OTHER -> Plain(IF isDebezium THEN "envelope" ELSE "unknown")

(***************************************************************************)
(* The delimiter a Flatten transform joins names with.                     *)
(***************************************************************************)
DelimOf(tr) == IF tr.delim = NoDelim THEN DefaultDelim ELSE tr.delim

(***************************************************************************)
(* One turn of smt.Apply's loop.  A transform under a predicate reaches    *)
(* only some records, so nothing is known of the shape after it.           *)
(***************************************************************************)
Transform(s, tr) ==
  IF s.kind = "unknown" \/ tr.type \in {"router", "quiet"}
    THEN s
    ELSE CASE tr.type = "unwrap" /\ ~tr.conditional ->
                Plain(IF s.kind = "envelope" THEN "row" ELSE "unknown")
           [] tr.type = "flatten" /\ ~tr.conditional ->
                IF s.kind = "envelope"
                  THEN [kind |-> "flattened", delim |-> DelimOf(tr)]
                  ELSE s
           [] OTHER -> Plain("unknown")

(* Faulty: the last transform listed is applied first. *)
ApplyBackwards(transforms, s) == FoldLeft(Transform, s, Reverse(transforms))

Apply(transforms, s) == FoldLeft(Transform, s, transforms)

(***************************************************************************)
(* The names a sink may declare.  "meta" is a column the connector or the  *)
(* sink adds around the row: a leading underscore, RECORD_METADATA,        *)
(* RECORD_CONTENT.  "envelope" is op, ts_ms, ts_us or ts_ns; "block" is a  *)
(* field of the envelope's source or transaction block.                    *)
(***************************************************************************)
NameParts == {"row", "after", "before", "envelope", "block", "meta"}
SinkNames ==
  [part : NameParts, delim : Delims \cup {NoDelim}, name : Columns]

IsMetadata(n) == n.part = "meta"

IsImage(shape, n) ==
  n.part \in {"after", "before"} /\ n.delim = shape.delim

IsAroundRow(shape, n) ==
  \/ n.part = "envelope"
  \/ n.part = "block" /\ n.delim = shape.delim

(***************************************************************************)
(* model.Table.Column under the name as written: the source column a plain *)
(* name is, if it is one.                                                  *)
(***************************************************************************)
ColumnNamed(n) == IF n.part = "row" THEN n.name ELSE NoColumn

(***************************************************************************)
(* engine.field: the source column that sink name n receives under shape,  *)
(* when the source table has the columns cols.  skip is a name around the  *)
(* row; unreached is a row's name that receives nothing because the value  *)
(* arrives as after<d>name instead.                                        *)
(***************************************************************************)
FieldByNameOnly(shape, cols, n) ==
  [col |-> ColumnNamed(n), unreached |-> FALSE, skip |-> IsMetadata(n)]

Field(shape, cols, n) ==
  LET receives(c) == [col |-> c, unreached |-> FALSE, skip |-> FALSE]
      skipped     == [col |-> NoColumn, unreached |-> FALSE, skip |-> TRUE]
      unreached   == [col |-> NoColumn, unreached |-> TRUE, skip |-> FALSE]
  IN  IF IsMetadata(n) THEN skipped
      ELSE IF shape.kind # "flattened" THEN receives(ColumnNamed(n))
      ELSE IF IsImage(shape, n) THEN receives(n.name)
      ELSE IF IsAroundRow(shape, n) THEN skipped
      ELSE IF ColumnNamed(n) \in cols THEN unreached
      ELSE receives(ColumnNamed(n))

=============================================================================
