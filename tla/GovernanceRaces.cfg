SPECIFICATION Spec
CONSTANTS
    d1 = d1
    d2 = d2
    d3 = d3
    b1 = b1
    b2 = b2
    v1 = v1
    v2 = v2
    Null = Null
    NoDecider = NoDecider
    Deciders = {d1, d2, d3}
    Bundles = {b1}
    FieldOrder <- TwoFields
    Values = {v1, v2}
INVARIANTS
    TypeOK
    RegisterHoldsDecisions
    RegisterIsReplay
    AuditTrailLinks
PROPERTIES
    SerialDecisionsChangeWhatTheyPass
\* Every decision ends.
CHECK_DEADLOCK FALSE
