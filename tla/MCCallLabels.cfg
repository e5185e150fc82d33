CONSTANTS
    Programs <- AllPrograms
    NoLoc = NoLoc
    MaxParams = 3
    StartTypeID = 14
    MarkBit = 16
SPECIFICATION LabelsSpec
INVARIANTS LabelsAreOwn PseudoLocsAreUnique VirtualsStayVirtual
