SPECIFICATION Spec
CONSTANTS
    Names <- FlatNames
    Tables <- FlatTables
INVARIANTS
    TypeOK
    ClosureIsExact
    ReadersAreAffected
\* The computation ends.
CHECK_DEADLOCK FALSE
