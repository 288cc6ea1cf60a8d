CONSTANTS
    Nodes = {"brace", "if", "while", "until", "for", "function", "and", "or", "bang"}
    Statuses = {0, 1}
    Counts = {1, 2}
    Failures = {"ERROR", "STOPPED"}
    Interactive = FALSE
    MaxDepth = 4
    Innermost = {"while", "function"}
    MaxList = 1
    MaxLoops = 2
SPECIFICATION Spec
INVARIANTS
    TypeOK
    FramesMatchCalls
PROPERTIES
    FatalUnwinds
    BreakLeavesItsLoop
    ContinueRestartsItsLoop
