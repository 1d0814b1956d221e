SPECIFICATION Spec
CONSTANTS
    a = a
    b = b
    plain = plain
    usesA = usesA
    usesB = usesB
    deepA = deepA
    broken = broken
    quiet = quiet
    bulky = bulky
    Absent = Absent
    None = None
    Torn = Torn
    ImportsOf <- MCImports
    EdgesOf <- MCEdges
    Parsable <- MCParsable
    Signalling <- MCSignalling
    LocOf <- MCLoc
    MaxFiles = 0
    MaxLoc = 20
    Modules <- TwoModules
    Texts = {plain, usesA}
    SrcInits <- MCNoInits
    GlobalInputs = {1}
    Versions = {1}
    Options <- Plain
    MaxCommits = 2
    Bases = {1, 2}
    Contents <- AnyContents
    Mishaps = {"dirty_run"}
    MaxMishaps = 1
INVARIANTS
    AnswersExact
\* A tree that stays dirty may leave no run enabled: scans are bounded.
CHECK_DEADLOCK FALSE
