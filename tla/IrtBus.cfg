SPECIFICATION Spec
CONSTANTS
  s1 = s1
  s2 = s2
  Slots = {s1, s2}
  FifoCap = 2
  MaxPower = 1
  MaxCmd = 3
  MaxFail = 1
  Residues <- MCResidues
  Switches <- MCSwitches
INVARIANTS TypeOK ErrorHoldsLe LatchFaithful
PROPERTIES NoSwitchWithError
CHECK_DEADLOCK FALSE
