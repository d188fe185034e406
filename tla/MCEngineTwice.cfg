CONSTANTS
  Tables <- MCTables
  Columns <- MCColumns
  Schemas <- MCSchemas
  Delims <- MCDelims
  Names <- MCNames
  SchemaOf <- MCSchemaOf
  TableName <- MCTableName
  RawTopic <- MCRawTopic
  LastSegment <- MCLastSegment
  SnowflakeName <- MCSnowflakeName
  BigQueryName <- MCBigQueryName
  NoColumn = NoColumn
  NoName = NoName
  Inputs <- AllInputs
  Again <- TwiceInputs
SPECIFICATION TwiceSpec
CHECK_DEADLOCK FALSE
INVARIANTS
  TypeOK
  LeftOutReportedOnce
  NewColumnIsNeverMereInformation
  SilentDefaultIffReported
  EveryReadIsFed
  ReadsHaveTheirShape
  OrphanTopicIffReported
  RefreshableViewsAgree
  UncapturedTableIsReported
  NothingReadsItYet
  NamedListKeepsTableOut
  SameFindingsForOneTopic
