----------------------------- MODULE MCSqlSplit -----------------------------
(***************************************************************************)
(* Small instances of SqlSplit: every file of a few tokens.                *)
(***************************************************************************)
EXTENDS DdlText

MCPgTokens ==
  {"word", Newline, ";", "'", "back quote", "--", "/*", "*/", "$$", "$a$"}

MCMySQLTokens ==
  {"word", Blank, Newline, ";", "'", "back quote", "backslash", "#", "/*", "*/",
   "DELIMITER //", "//"}

=============================================================================
