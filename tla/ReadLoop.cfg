CONSTANTS
    Written <- MCWritten
    Styles <- MCStyles
    Modes = {"script", "interactive", "eval"}
    OtherInputs <- MCOtherInputs
    AliasTables <- MCAliasTables
    MaxAliased = 2
SPECIFICATION Spec
INVARIANTS
    RunsWhatWasWritten
    WellFormedAccepted
    
    HangsOnAliasCycles

    
