SPECIFICATION Spec
CONSTANTS
  NBus = 2
  QCap = 14
  Types = {"CLOS", "SCAN", "FSCN"}
  Lists <- MCLists
  Arms = {3}
  MaxCmd = 3
  MaxErr = 1
INVARIANTS TypeOK FramesWhole ScanGroupExact OpcHonest
PROPERTIES InOrder Drains
CHECK_DEADLOCK FALSE
