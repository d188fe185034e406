CONSTANTS
  Tables <- MCTables
  Columns <- MCColumns
  Schemas <- MCSchemas
  Delims <- MCDelims
  Names <- MCNames
  SchemaOf <- MCSchemaOf
  TableName <- MCTableName
  RawTopic <- MCRawTopic
  LastSegment <- MCLastSegment
  SnowflakeName <- MCSnowflakeName
  BigQueryName <- MCBigQueryName
  NoColumn = NoColumn
  NoName = NoName
  Inputs <- CaptureInputs
SPECIFICATION Spec
CHECK_DEADLOCK FALSE
INVARIANTS
  EditedConnectorSilencesRule
