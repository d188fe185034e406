CONSTANTS
  Tables <- MCTables
  Columns <- MCColumns
  Schemas <- MCSchemas
  Delims <- MCDelims
  Names <- MCNames
  SchemaOf <- MCSchemaOf
  TableName <- MCTableName
  RawTopic <- MCRawTopic
  LastSegment <- MCLastSegment
  SnowflakeName <- MCSnowflakeName
  BigQueryName <- MCBigQueryName
  NoColumn = NoColumn
  NoName = NoName
  Inputs <- CommandInputs
  Files <- MCFiles
  NotARule = NotARule
  Options <- CommandOptions
  SinkAt <- MCSinkAt
  SinkColumnAt <- MCSinkColumnAt
  SourceColumnAt <- MCSourceColumnAt
  ViewAt <- MCViewAt
  ConnectorAt <- MCConnectorAt
SPECIFICATION CommandSpec
CHECK_DEADLOCK FALSE
INVARIANTS
  CommandTypeOK
  PassMeansDecided
  DisablingDiffRuleHidesNoColumn
  AgreeMeansAgree
