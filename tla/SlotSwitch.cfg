SPECIFICATION SwitchSpec
CONSTANTS
  NCard = 2
  NLine = 2
  NBus = 2
  RangeTypes = {"OPEN", "CLOS", "SCAN"}
  PointTypes = {"OPEN", "CLOS", "SCAN", "FSCN"}
INVARIANTS SwitchTypeOK SwitchExact
