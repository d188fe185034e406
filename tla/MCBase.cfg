CONSTANTS
  Commits <- MCCommits
  Directories <- MCDirectories
  ConnectorFiles <- MCFiles
  Absent = Absent
  DirectoryAt <- MCDirectoryAt
  FileAt <- MCFileAt
  Pending = Pending
  Failed = Failed
SPECIFICATION BaseSpec
CHECK_DEADLOCK FALSE
INVARIANTS
  BaseTypeOK
PROPERTIES
  IsSnapshot
