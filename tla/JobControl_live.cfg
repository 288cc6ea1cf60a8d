CONSTANTS
    Pid = {p1, p2}
    Shell = Shell
    MaxJobs = 2
    MaxPipeline = 2
    MaxList = 1
    Compounds = {FALSE}
    MaxStops = 1
    Notify = TRUE
SPECIFICATION LiveSpec
INVARIANTS
    NotifiedAtPrompt

    
