CONSTANT Programs <- PlainInputs
SPECIFICATION FairSpec
INVARIANTS TypeOK UniqueIDs RangeConsistent RangesAreSubtrees CallsCovered
PROPERTIES ImplementsIdSpace Terminates
