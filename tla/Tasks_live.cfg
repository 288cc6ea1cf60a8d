CONSTANTS
    Nodes = {"if", "while", "function", "or"}
    Statuses = {0, 1}
    Counts = {1}
    Failures = {"ERROR"}
    Interactive = FALSE
    MaxDepth = 3
    Innermost = {"while"}
    MaxList = 2
    MaxLoops = 2
SPECIFICATION LiveSpec
INVARIANTS
    NloopsRestored
PROPERTIES
    ExitEnds
