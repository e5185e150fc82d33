CONSTANTS
    Systems <- SmallSystems
    NoLoc = NoLoc
    MaxParams = 3
    StartTypeID = 30
    MarkBit = 32
    Word = 128
    CodeWords = {0, 127}
SPECIFICATION Spec
INVARIANTS TypeOK VirtualReturnsPass DirectReturnsPass EarlierIDsFail TypesMeet
