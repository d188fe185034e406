CONSTANTS
  Schemas <- MCSchemas
  Names = {"a", "b"}
  Columns <- MCColumns
  Types = {"x", "y"}
  NoTable = NoTable
  Unqualified = Unqualified
  Invented = Invented
  NoDatabase = NoDatabase
  DefaultSchema = "home"
  Home = "home"
  Dialects <- MCBothDialects
  ColumnLists <- MCColumnLists
  Parentheses <- MCWithoutParenthesis
  MaxTables = 2
  MaxColumns = 3
  MaxPassed = 3
SPECIFICATION Spec
CHECK_DEADLOCK FALSE
INVARIANTS
  TypeOK
  SchemaIsTheDatabases
  NeverTheWrongDatabase
  PlacedWhereAdded
