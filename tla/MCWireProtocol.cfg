SPECIFICATION Spec
CONSTANTS
    Sizes = {1, 3, 6}
    MaxPayload = 4
    Threshold = 11
    Ids = 3
    MaxName = 1
    MaxBatch = 3
    MaxInputs = 4
INVARIANTS
    TypeOK
    AnswersMatch
    LossIsExplained
CHECK_DEADLOCK FALSE
