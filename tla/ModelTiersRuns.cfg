SPECIFICATION FairSpec
CONSTANTS
    loop = loop
    while = while
    search = search
    Clear = Clear
    Malformed = Malformed
    None = None
    System = 0
    Places = {1, 2}
    Ambiguous = {1, 2}
    Texts = {loop, while, search}
    Suspicious = {loop, while}
    Names = {1}
    ToolOf <- MCToolOf
    Nodes <- AllNodes
    Contents <- MCContents
    Processes = {"scan", "in_place"}
    Examples = {}
    Workers = 2
    Budget = 1
    Trees <- TwoTrees
    MaxCommits = 2
    MaxEdits = 1
    MaxMishaps = 1
    MaxInPlace = 1
INVARIANTS
    TypeOK
    RepliesFitQuestions
    VerdictsOfPresentText
    DraftsOfTheirNodes
PROPERTIES
    PaidRepliesAreKept
    EverythingAdjudicated
    EverythingDrafted
