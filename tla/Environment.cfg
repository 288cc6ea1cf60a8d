SPECIFICATION Spec
CONSTANTS
    Name = {"x", "y"}
    Text <- MCText
    Function = {"f"}
    OptStrings <- MCOptStrings
    Scripts <- MCScripts
    MaxDepth = 3
    MaxOptions = 3
    MaxMemory = 8
    MaxBodies = 4
INVARIANTS
    ParametersKept
    ChildEnvironment
    OptionsInOrder
