SPECIFICATION FilingsSpec
CONSTANTS
    Years <- MCYears
    Calendars <- MCCalendars
    Amounts <- MCAmounts
    Coverages <- ComparativesToo
    Tags <- MCTags
    MaxFilings = 3
    RecordCik = 1
    Claims <- MCClaims
    None = None
    Unreadable = {bad}
    Whole = 2
    Limit = 8
    NoKey = NoKey
    MinLineages = 2
    SupportMin = 1
    ContradictMin = 1
INVARIANTS
    AnswersForClaimedPeriod
CHECK_DEADLOCK FALSE
