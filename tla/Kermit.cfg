CONSTANTS
    Cuts <- MCCuts
    Targets = {"RAM", "ROM"}
    PageSz = 3
    MaxFault = 2
    MaxDown = 2
    MaxUp = 1
SPECIFICATION Spec
INVARIANTS TypeOK FileFaithful
PROPERTY Completes
CHECK_DEADLOCK FALSE
