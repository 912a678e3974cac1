SPECIFICATION Spec
CONSTANTS
    Word = {"blank", "magic", "size", "x"}
    Blank = "blank"
    NvmMagic = "magic"
    SzRam = "size"
    NData = 2
    LastPage = 1
    Page <- MCTwoPages
INVARIANT OtherCorrect
