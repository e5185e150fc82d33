CONSTANTS
    Inputs <- GapInputs
    Words = 1024
SPECIFICATION ChecksSpec
INVARIANT LegalCallsPass
