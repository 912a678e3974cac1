SPECIFICATION Spec
CONSTANTS
  s1 = s1
  Slots = {s1}
  s2 = s2
  NL = 2
  MaxPlug = 2
  MaxCmd = 3
  MaxErr = 1
PROPERTIES ErrorReported LostReported
CHECK_DEADLOCK FALSE
