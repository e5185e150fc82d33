CONSTANTS
    Modules <- AllModules
    MaxParams = 3
    StartTypeID = 9
SPECIFICATION Spec
INVARIANTS TypeOK StaticIDsAreOwn SpacesApart TypeIDsAreShapes
PROPERTY ImplementsIdSpace
