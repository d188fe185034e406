CONSTANTS
  Schemas <- MCSchemas
  Names <- MCNames
  Columns = {"x", "y"}
  Topics = {"t"}
  Definitions = {"d1", "d2"}
  Unqualified = Unqualified
  NoTopic = NoTopic
  Home = "home"
  Usages <- MCUsages
  ColumnLists <- MCColumnLists
  MaxTables = 2
  MaxViews = 3
SPECIFICATION Spec
CHECK_DEADLOCK FALSE
INVARIANTS
  TypeOK
  TablesAreTheWarehouses
  EveryViewIsJudged
