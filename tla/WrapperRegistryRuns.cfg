SPECIFICATION Spec
CONSTANTS
    home = home
    guest = guest
    small = small
    large = large
    LLM = LLM
    Param = Param
    Unset = Unset
    Unresolved = Unresolved
    None = None
    Models = {small, large}
    Modules = {1, 2, 3, 4}
    Repos = {home, guest}
    Programs <- TwoRepos
    OrgPack <- MCOrgPack
    MaxEdits = 1
INVARIANTS
    TypeOK
    FixedPointClosed
    FullScanIsFresh
    IncrementalIsExact
PROPERTIES
    EveryRoundAdvances
