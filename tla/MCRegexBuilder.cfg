CONSTANTS
    Lower = {"a", "z"}
    Upper = {"A", "Z"}
    Digit = {"0", "1"}
    HexLetter = {"a", "A"}
    Blank = {" "}
    Char <- AllChar
    Text <- MCText
    BufferSize = 4

SPECIFICATION BuilderSpec
INVARIANTS
    ItemsTileTheText
    LineBufferHoldsTheLine
CHECK_DEADLOCK FALSE
