CONSTANTS
    Inputs <- BetweenInputs
    Words = 1024
SPECIFICATION ChecksSpec
INVARIANT PairsKeepDistances
