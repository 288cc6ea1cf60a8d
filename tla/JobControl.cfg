CONSTANTS
    Pid = {p1, p2}
    Shell = Shell
    MaxJobs = 3
    MaxPipeline = 2
    MaxList = 2
    Compounds = {TRUE}
    MaxStops = 1
    Notify = FALSE
SPECIFICATION Spec
SYMMETRY Symmetry
INVARIANTS
    TypeOK
    
    
    ReapedIsRecorded
    GroupsDoNotMix
    
PROPERTIES
    LiveProcessKeepsItsJob
    ExitHangsUp
