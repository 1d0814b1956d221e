SPECIFICATION Spec
CONSTANTS
    MaxDepth = 4
    MaxHops = 2
    StackLimit = 14
    KRet = 2
    KRetLift = 3
    Builtins <- MCBuiltins
    StrFold <- MCStrFold
    Programs <- Checked
    Deadlines = {1, 3}
    Unlimited = 1000
    MaxQueries = 3
INVARIANTS
    TypeOK
    AnswersCoverExact
    UncutAnswersAreExact
    AnswersCoverRuns
CHECK_DEADLOCK FALSE
