CONSTANTS
    Pid = {p1, p2}
    Shell = Shell
    MaxJobs = 3
    MaxPipeline = 1
    MaxList = 2
    Compounds = {FALSE}
    MaxStops = 1
    Notify = TRUE
SPECIFICATION Spec
SYMMETRY Symmetry
INVARIANTS
    ForegroundAssertion
