CONSTANTS
  PgTokens <- MCPgTokens
  MySQLTokens <- MCMySQLTokens
  MaxTokens = 5
SPECIFICATION Spec
CHECK_DEADLOCK FALSE
INVARIANTS
  TypeOK
  StatementsAreTheFiles
  EveryWordOnItsLine
  ReadersSeeTheSameQuotes
PROPERTIES
  Terminates
