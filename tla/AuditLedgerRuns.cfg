SPECIFICATION Spec
CONSTANTS
    r1 = r1
    r2 = r2
    r3 = r3
    Null = Null
    NoRun = NoRun
    Runs = {r1, r2, r3}
    Values <- MCValues
    ValueOf <- MCValueOf
    MaxTampers = 2
INVARIANTS
    TypeOK
    ChainVerifies
    SuccessIsLogged
    TamperEvident
\* Every run ends.
CHECK_DEADLOCK FALSE
