CONSTANTS
    Functions <- SmallFunctions
    Sites <- SmallSites
    MarkBit = 16
    Word = 64
SPECIFICATION Spec
INVARIANT OwnCallPasses
