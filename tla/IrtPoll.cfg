SPECIFICATION Spec
CONSTANTS
  s1 = s1
  s2 = s2
  Slots = {s1, s2}
  NL = 2
  MaxPlug = 2
  MaxCmd = 1
  MaxErr = 1
INVARIANTS TypeOK OneEntry
PROPERTIES InitAnswered
CHECK_DEADLOCK FALSE
