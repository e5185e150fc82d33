CONSTANTS
    Modules <- AllModules
    Hierarchies <- SortInputs
SPECIFICATION BuildSpec
INVARIANTS
    TypeOK UndefinedAreUnread SlotsHaveOneOrder CloudsAreHierarchy NeverCyclic BasesFirst
    NoneMissing
