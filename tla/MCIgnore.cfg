CONSTANTS
  RuleNames <- MCRules
  DiffRules <- MCDiffRules
  NotARule = NotARule
  Files <- MCFiles
  Cases <- MCCases
SPECIFICATION Spec
CHECK_DEADLOCK FALSE
INVARIANTS
  TypeOK
  AcknowledgedOnPurpose
  WarningsAreExact
