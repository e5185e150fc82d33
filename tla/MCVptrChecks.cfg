CONSTANTS
    Inputs <- AllInputs
    Words = 1024
SPECIFICATION ChecksSpec
INVARIANTS
    LayoutVerified RangesAreDescendants ThunksKeepTheirOffsets
    LegalCallsPass CallsKeepTheirSlots OthersAreTrapped
