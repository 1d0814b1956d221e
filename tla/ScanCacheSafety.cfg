SPECIFICATION Spec
CONSTANTS
    a = a
    b = b
    plain = plain
    usesA = usesA
    usesB = usesB
    deepA = deepA
    broken = broken
    quiet = quiet
    bulky = bulky
    Absent = Absent
    None = None
    Torn = Torn
    ImportsOf <- MCImports
    EdgesOf <- MCEdges
    Parsable <- MCParsable
    Signalling <- MCSignalling
    LocOf <- MCLoc
    MaxFiles = 0
    MaxLoc = 20
    Modules <- TwoModules
    Texts = {quiet, usesA, usesB, deepA, broken}
    SrcInits <- MCNoInits
    GlobalInputs = {1}
    Versions = {1}
    Options <- Enriching
    MaxCommits = 3
    Bases = {1, 2, 3}
    Contents <- ChainContents
    Mishaps = {}
    MaxMishaps = 0
INVARIANTS
    TypeOK
    FactCacheAligned
PROPERTIES
    CacheIsTransparent
\* A tree that stays dirty may leave no run enabled: scans are bounded.
CHECK_DEADLOCK FALSE
