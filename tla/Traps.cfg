CONSTANTS
    Conditions = {0, 2, 20}
    Interactive = TRUE
    IgnoredOnEntry = {}
    Statuses = {0}
    MaxSignals = 2
SPECIFICATION Spec
INVARIANTS
    TypeOK
    TrapsDoNotNest
    RunsAreDelivered
    
