CONSTANTS
  Daily = {FALSE}
  MaxLines = 2
  LogBufferLength = 1
  TryReOpen = 2
  NameContained = FALSE
  MaxRecords = 4
  MaxDays = 0
  MaxFiles = 2
  MaxTrouble = 1
SPECIFICATION LogSpec
INVARIANTS LinesBounded
CHECK_DEADLOCK FALSE
