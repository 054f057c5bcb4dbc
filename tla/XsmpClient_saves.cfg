SPECIFICATION FairSpec
CONSTANTS
    MaxLogouts = 2
    MaxCheckpoints = 2
INVARIANTS
    TypeOK
    ProgressIsReal
    SavesDoNotOverlap
PROPERTIES
    AnswersArrive
CHECK_DEADLOCK FALSE
