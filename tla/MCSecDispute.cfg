SPECIFICATION FilingsSpec
CONSTANTS
    Years <- MCYears
    Calendars <- MCCalendars
    Amounts <- MCAmounts
    Coverages <- OwnAndComparatives
    Tags <- MCTags
    MaxFilings = 3
    RecordCik = 1
    Claims <- MCClaims
    None = None
    Unreadable = {bad}
    Whole = 2
    Limit = 8
    NoKey = NoKey
    MinLineages = 2
    SupportMin = 1
    ContradictMin = 1
INVARIANTS
    DisagreementIsContested
CHECK_DEADLOCK FALSE
