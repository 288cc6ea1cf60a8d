CONSTANTS
    Conditions = {0, 1, 2}
    Interactive = FALSE
    IgnoredOnEntry = {1}
    Statuses = {0, 1}
    MaxSignals = 2
SPECIFICATION LiveSpec
PROPERTIES
    StatusRestored
    
