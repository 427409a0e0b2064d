------------------------------ MODULE Enforcer ------------------------------
(***************************************************************************)
(* enforce (glass_ionomer/engine/enforcer.py): from the status a verifier  *)
(* certified and the advisories of a reasoner to a release decision and a  *)
(* risk tier.                                                              *)
(***************************************************************************)
EXTENDS EvidenceStatus, Sequences

Release == {"ALLOW", "ALLOW_WITH_NOTICE", "REQUIRE_CLARIFICATION", "ESCALATE", "REFUSE"}
Released == {"ALLOW", "ALLOW_WITH_NOTICE"}
Severity == {"INFO", "CAUTION", "BLOCK"}

Restrictiveness(r) == CASE r = "ALLOW"                 -> 0
                        [] r = "ALLOW_WITH_NOTICE"     -> 1
                        [] r = "REQUIRE_CLARIFICATION" -> 2
                        [] r = "ESCALATE"              -> 3
                        [] r = "REFUSE"                -> 4

\* What a verifier hands to the enforcer.  record identifies the source record
\* it looked at (record_hash).
Certification(Record) ==
    [status : Status, definitive : BOOLEAN, modelDerived : BOOLEAN, record : Record]

Outcome(r, t) == [decision |-> r, tier |-> t]
Rulings == [decision : Release, tier : 0..5]

\* STATUS_DECISION
Base(status) ==
    CASE status = "VERIFIED"     -> Outcome("ALLOW", 0)
      [] status = "CORROBORATED" -> Outcome("ALLOW_WITH_NOTICE", 1)
      [] status = "CONTESTED"    -> Outcome("ESCALATE", 3)
      [] status = "REFUTED"      -> Outcome("REFUSE", 5)
      [] status \in {"SUPPORTED", "UNVERIFIED", "EXPIRED"} ->
           Outcome("REQUIRE_CLARIFICATION", 3)

\* A full release needs a definitive verifier behind it.
Backed(o, cert) ==
    IF o.decision = "ALLOW" /\ ~ cert.definitive THEN Outcome("ESCALATE", 4) ELSE o

\* Mutated form of ModelFloor: only a full release is floored.
ModelFloorAllowOnly(o, cert) ==
    IF cert.modelDerived /\ o.decision = "ALLOW"
    THEN Outcome("REQUIRE_CLARIFICATION", Max({o.tier, 3}))
    ELSE o

\* Support that is the model's word only is not released.
ModelFloor(o, cert) ==
    IF cert.modelDerived
       /\ Restrictiveness(o.decision) < Restrictiveness("REQUIRE_CLARIFICATION")
    THEN Outcome("REQUIRE_CLARIFICATION", Max({o.tier, 3}))
    ELSE o

\* _advisory_floor; INFO is for observation only.
SeverityFloor(severity) ==
    CASE severity = "BLOCK"   -> Outcome("REFUSE", 5)
      [] severity = "CAUTION" -> Outcome("ALLOW_WITH_NOTICE", 1)
      [] severity = "INFO"    -> Outcome("ALLOW", 0)

\* Mutated form of AfterAdvisory: the floor replaces the decision.
AfterAdvisoryReplaces(o, severity) ==
    IF severity = "INFO" THEN o
    ELSE Outcome(SeverityFloor(severity).decision, Max({o.tier, SeverityFloor(severity).tier}))

\* Mutated form of AfterAdvisory: the tiers are added up.
AfterAdvisoryAdds(o, severity) ==
    LET floor == SeverityFloor(severity)
    IN  Outcome(IF Restrictiveness(floor.decision) > Restrictiveness(o.decision)
                THEN floor.decision ELSE o.decision,
                o.tier + floor.tier)

\* One turn of the loop over the advisories: _more_restrictive of the decision
\* so far and the floor, and the larger of the tiers.
AfterAdvisory(o, severity) ==
    LET floor == SeverityFloor(severity)
    IN  Outcome(IF Restrictiveness(floor.decision) > Restrictiveness(o.decision)
                THEN floor.decision ELSE o.decision,
                Max({o.tier, floor.tier}))

\* The loop, in the order in which the claim carries its advisories.
WithAdvisories(o, advisories) ==
    LET after[i \in 0..Len(advisories)] ==
          IF i = 0 THEN o ELSE AfterAdvisory(after[i - 1], advisories[i])
    IN  after[Len(advisories)]

Enforce(cert, advisories) ==
    WithAdvisories(ModelFloor(Backed(Base(cert.status), cert), cert), advisories)

-----------------------------------------------------------------------------
(* Receipts.  A hash stands for what is hashed; a signature for the key and *)
(* the hash it was made with, and the signatures are the one or none.      *)

\* _content and _build_receipt
Receipt(plan, cert, advisories, outcome, key, unsigned) ==
    LET content == [plan |-> plan, status |-> cert.status, definitive |-> cert.definitive,
                    record |-> cert.record, advisories |-> advisories,
                    decision |-> outcome.decision, tier |-> outcome.tier]
    IN  [content    |-> content,
         hash       |-> content,
         signatures |-> IF key = unsigned THEN {} ELSE {<<key, content>>}]

\* Mutated form of VerifyReceipt: the stored hash is taken as it is.
VerifyReceiptStored(receipt, key, required, unsigned) ==
    IF key = unsigned THEN ~ required ELSE <<key, receipt.hash>> \in receipt.signatures

\* verify_receipt; without a key it shows that the receipt agrees with itself.
VerifyReceipt(receipt, key, required, unsigned) ==
    /\ receipt.hash = receipt.content
    /\ IF key = unsigned THEN ~ required ELSE <<key, receipt.hash>> \in receipt.signatures
=============================================================================
