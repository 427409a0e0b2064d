SPECIFICATION Spec
CONSTANTS
    Claim = {p1, p2}
    Certs <- MCCerts
    Advisories <- MCAdvisories
    Classes = {"MECHANICAL", "EMPIRICAL"}
    Record <- MCRecord
    None = None
    NoProof = NoProof
    NoHash = NoHash
    MaxProofs = 1
INVARIANTS
    TypeOK
    ConclusionWithinPremises
    AllowIsProved
    ReleaseNeedsStrongPremises
    AdvisoriesOnlyRestrict
SYMMETRY PremiseSymmetry
