SPECIFICATION Spec
CONSTANTS
    Evidence <- MCEvidence
    Results <- MCResults
    Executions <- MCExecutions
    NoKey = NoKey
    MinLineages = 2
    SupportMin = 1
    ContradictMin = 2
INVARIANTS
    TypeOK
    LLMHasNoVote
    InadmissibleHasNoVote
PROPERTIES
    VotesCountTheRightWay
    OneSourceOneVote
CHECK_DEADLOCK FALSE
