SPECIFICATION FairSpec
CONSTANTS
    a = a
    b = b
    plain = plain
    usesA = usesA
    usesB = usesB
    deepA = deepA
    broken = broken
    quiet = quiet
    bulky = bulky
    Absent = Absent
    None = None
    Torn = Torn
    ImportsOf <- MCImports
    EdgesOf <- MCEdges
    Parsable <- MCParsable
    Signalling <- MCSignalling
    LocOf <- MCLoc
    MaxFiles = 0
    MaxLoc = 20
    Modules <- TwoModules
    Texts = {plain, broken}
    SrcInits <- MCInits
    GlobalInputs = {1, 2}
    Versions = {1, 2}
    Options <- Enriching
    MaxCommits = 2
    Bases = {}
    Contents <- PackageContents
    Mishaps = {"dirty_run", "crash", "edit", "enrichment"}
    MaxMishaps = 1
INVARIANTS
    FactCacheAligned
    SoundAnswersExact
PROPERTIES
    ManifestMovesToFinishedScan
    CacheConverges
\* A tree that stays dirty may leave no run enabled: scans are bounded.
CHECK_DEADLOCK FALSE
