----------------------------- MODULE MCSources ------------------------------
(***************************************************************************)
(* Small instances of Sources: two schemas, two table names, two columns   *)
(* and two types, and tables of one column or of both.                     *)
(***************************************************************************)
EXTENDS Sources

MCSchemas == {"home", "other"}
MCColumns == {"c", "d"}

MCColumnLists ==
  {<<List!Column("c", "x")>>, <<List!Column("d", "y"), List!Column("c", "x")>>}

MCWithParenthesis == BOOLEAN
MCWithoutParenthesis == {FALSE}

MCBothDialects == {"postgres", "mysql"}
MCOnlyMySQL == {"mysql"}
MCOnlyPostgres == {"postgres"}

=============================================================================
