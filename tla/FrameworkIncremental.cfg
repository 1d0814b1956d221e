SPECIFICATION Spec
CONSTANTS
    ModuleOrder <- MCModuleOrder
    Slug <- MCSlug
    ModelNames = {"gpt"}
    ClassifyHops = 1
    Repositories <- SharedNames
    Absent = Absent
INVARIANTS
    IncrementalIsFull
