SPECIFICATION Spec
CONSTANTS
    Banks = {16, 32}
    Magic <- MCMagic
    RMN = 2
    MaxOff = 2
    MaxKill = 2
INVARIANTS TypeOK OutExact ReadFresh
PROPERTY ReadEnds
