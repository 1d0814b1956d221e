SPECIFICATION Spec
CONSTANTS
    ModuleOrder <- MCModuleOrder
    Slug <- MCSlug
    ModelNames = {"gpt"}
    ClassifyHops = 1
    Repositories <- MCRepositories
    Absent = Absent
INVARIANTS
    TypeOK
    AgentIdsAreUnique
    EntrypointsAreMarked
    IncrementalIsFullApart
    DerivedFollowsTransfers
