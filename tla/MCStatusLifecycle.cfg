SPECIFICATION Spec
CONSTANTS
    Claim = {c1, c2, c3}
    Outcomes <- MCOutcomes
    TTLs <- MCTTLs
    MaxTime = 3
INVARIANTS
    TypeOK
    RestsOnLiveSupport
PROPERTIES
    OnlyDecidingRaises
    ImplementsLease
