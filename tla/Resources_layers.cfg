CONSTANTS
    Kinds <- AllKinds
    Sessions = {s1, s2}
    Rivals = {s2}
    Ids = {1, 2, 3}
    Pages = {1, 2}
    PerPages = {1, 2}
SPECIFICATION Spec
CHECK_DEADLOCK FALSE
INVARIANTS
    UpdateSticks
    RefusedChangesNothing
PROPERTIES
    OnlyNamedFieldsChange
    CreatedAsAsked
    
    ChangesAreAudited
    UsagesApart
