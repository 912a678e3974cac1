SPECIFICATION Spec
CONSTANTS
    Lines <- MCLines
    BgWait = FALSE
    MaxLine = 4
    MaxNest = 2
INVARIANTS TypeOK LoopsExact
PROPERTY Served
