SPECIFICATION Spec
CONSTANTS
    Word = {"blank", "magic", "size", "x"}
    Blank = "blank"
    NvmMagic = "magic"
    SzRam = "size"
    NData = 2
    LastPage = 0
    Page <- MCOnePage
INVARIANTS TypeOK OtherCorrect
PROPERTY ImplementsStore
