SPECIFICATION Spec
CONSTANTS
    None = None
    Absent = Absent
    ValueError = ValueError
    Ids <- MCIds
    Tables <- MCTables
    Libraries <- MCLibraries
    AbiVersion = 1
    Declared <- MCDeclared
    Descriptions <- MCDescriptions
    Runtimes <- MCRuntimes
    ResourceRoots <- MCResourceRoots
    MaxEngines = 3
    MaxRevision = 2
    MaxRaises = 1
    MayRaise = {"interface"}
INVARIANT NoEngineIsLeft
CHECK_DEADLOCK FALSE
