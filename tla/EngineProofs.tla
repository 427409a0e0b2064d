---------------------------- MODULE EngineProofs ----------------------------
(***************************************************************************)
(* The engine for any set of claims, any certifications, advisories and    *)
(* source records and any number of proofs.                                *)
(***************************************************************************)
EXTENDS Engine, EvidenceStatusProofs

-----------------------------------------------------------------------------
(* Composition *)

\* compose, of a positive conclusion without a deadline and premises without
\* deadlines: never above any of them, whether positive or not, and the
\* model's word in one is the model's word in the conclusion.
LEMMA ComposedWithin ==
    ASSUME NEW c \in Decision, c.expires = Never, c.status \in Positive,
           NEW ps, ps \subseteq Decision, ps # {}, \A p \in ps : p.expires = Never,
           NEW k, k = Compose(c, ps, 0)
    PROVE  /\ k.status \in Status
           /\ Ladder(k.status) <= Ladder(c.status)
           /\ \A p \in ps : Ladder(k.status) <= Ladder(p.status)
           /\ \A p \in ps : p.modelDerived => k.modelDerived
<1> DEFINE met == {p.status : p \in ps}
           w == Weakest(ps)
           model == c.modelDerived \/ \E p \in ps : p.modelDerived
<1>1. /\ Refresh(c, 0) = c
      /\ {Refresh(p, 0) : p \in ps} = ps
  BY DEF Refresh, IsExpired
<1>2. k = Conjoin(c, ps)
  BY <1>1 DEF Compose
<1>3. k.modelDerived = model
  <2> DEFINE merged == [c EXCEPT
                         !.contested    = c.contested \/ \E p \in ps : p.contested,
                         !.modelDerived = model,
                         !.expires      = EarliestDeadline(c, ps)]
  <2>1. merged.modelDerived = model /\ DOMAIN merged = DOMAIN c
    BY DEF Decision
  <2>2. \/ k = [merged EXCEPT !.status = "REFUTED", !.direction = "REFUTES"]
        \/ k = [merged EXCEPT !.status = "EXPIRED", !.direction = "NEUTRAL"]
        \/ k = [merged EXCEPT !.status = Weakest(ps)]
        \/ k = merged
    BY <1>2 DEF Conjoin
  <2> HIDE DEF model
  <2> QED
    BY <2>1, <2>2 DEF Decision
<1>4. \/ "REFUTED" \in met /\ k.status = "REFUTED"
      \/ "REFUTED" \notin met /\ k.status = "EXPIRED"
      \/ k.status = w /\ Ladder(w) < Ladder(c.status)
      \/ k.status = c.status /\ ~ (Ladder(w) < Ladder(c.status))
  <2>1. c.status # "REFUTED"
    BY DEF Positive
  <2>2. CASE "REFUTED" \in met
    BY <1>2, <2>2 DEF Conjoin, Decision
  <2>3. CASE "REFUTED" \notin met /\ "EXPIRED" \in met
    BY <1>2, <2>1, <2>3 DEF Conjoin, Decision
  <2>4. CASE met \cap {"REFUTED", "EXPIRED"} = {} /\ Ladder(w) < Ladder(c.status)
    BY <1>2, <2>4 DEF Conjoin, Decision
  <2>5. CASE met \cap {"REFUTED", "EXPIRED"} = {} /\ ~ (Ladder(w) < Ladder(c.status))
    BY <1>2, <2>5 DEF Conjoin, Decision
  <2> QED
    BY <2>2, <2>3, <2>4, <2>5
<1>5. /\ \E p \in ps : w = p.status
      /\ \A p \in ps : Ladder(w) <= Ladder(p.status)
  BY WeakestFacts
<1>6. /\ w \in Status /\ c.status \in Status
      /\ Ladder(w) \in 0..5 /\ Ladder(c.status) \in 0..5 /\ Ladder(c.status) >= 3
      /\ \A p \in ps : p.status \in Status /\ Ladder(p.status) \in 0..5
  BY <1>5, LadderRungs DEF Decision
<1> HIDE DEF w, model
<1>10. \A p \in ps : p.modelDerived => k.modelDerived
  BY <1>3, Zenon DEF model
<1>7. CASE "REFUTED" \in met /\ k.status = "REFUTED"
  <2>1. Ladder("REFUTED") = 0 /\ "REFUTED" \in Status
    BY DEF Ladder, Status
  <2> QED
    BY <1>6, <1>7, <1>10, <2>1
<1>8. CASE "REFUTED" \notin met /\ k.status = "EXPIRED"
  <2>1. Ladder("EXPIRED") = 1 /\ "EXPIRED" \in Status
    BY DEF Ladder, Status
  <2>2. \A s \in Status : s # "REFUTED" => Ladder(s) >= 1
    BY DEF Ladder, Status
  <2> QED
    BY <1>6, <1>8, <1>10, <2>1, <2>2
<1>9. CASE \/ k.status = w /\ Ladder(w) < Ladder(c.status)
           \/ k.status = c.status /\ ~ (Ladder(w) < Ladder(c.status))
  BY <1>5, <1>6, <1>9, <1>10
<1> QED
  BY <1>4, <1>7, <1>8, <1>9

-----------------------------------------------------------------------------
(* Conclusions *)

\* What is always so: the results are certifications given, and the proofs
\* are what the operator plane issues.
Held == results \in [Claim -> Certs \cup {None}]

Issued == \A p \in proofs : \E subject : p = Issue("derivation", TRUE, subject, TRUE)

\* A conclusion is certified within its class and its premises; its
\* certification is definitive only on a trusted proof over premises that are.
LEMMA ConclusionFacts ==
    ASSUME Held, NEW class \in Class, NEW P \in SUBSET Assured, NEW trusted \in BOOLEAN,
           NEW cert, cert = ConclusionCert(class, P, trusted)
    PROVE  /\ cert.status \in Status
           /\ Ladder(cert.status) <= Ladder(Ceiling(class))
           /\ \A p \in P : /\ results[p] \in Certs
                           /\ Ladder(cert.status) <= Ladder(results[p].status)
                           /\ results[p].modelDerived => cert.modelDerived
           /\ cert.status \in Positive => P # {}
           /\ cert.definitive => trusted /\ \A p \in P : results[p].definitive
<1> DEFINE c == Seed(class)
           ps == {PremiseDecision(p) : p \in P}
           k == Compose(c, ps, 0)
<1>1. \A p \in P : /\ results[p] \in Certs
                  /\ results[p].status \in Status
                  /\ results[p].modelDerived \in BOOLEAN
  BY EngineAssumption DEF Held, Assured, Certification
<1>2. Ceiling(class) \in Positive /\ Ceiling(class) \in Status
  BY DEF Class, Ceiling, Positive, Status
<1>3. /\ c \in Decision /\ c.expires = Never
      /\ c.status = Ceiling(class)
  BY <1>2 DEF Seed, AsDecision, Decision, Direction, Deadline
<1>4. \A p \in P : /\ PremiseDecision(p) \in Decision
                  /\ PremiseDecision(p).expires = Never
                  /\ PremiseDecision(p).status = results[p].status
                  /\ PremiseDecision(p).modelDerived = results[p].modelDerived
  BY <1>1 DEF PremiseDecision, AsDecision, Decision, Direction, Deadline
<1>5. cert.definitive => trusted /\ \A p \in P : results[p].definitive
  BY DEF ConclusionCert
<1>6. CASE P = {}
  <2>1. cert.status = "UNVERIFIED"
    BY <1>6 DEF ConclusionCert
  <2>2. "UNVERIFIED" \in Status /\ "UNVERIFIED" \notin Positive /\ Ladder("UNVERIFIED") = 1
    BY DEF Status, Positive, Ladder
  <2>3. Ladder(Ceiling(class)) >= 3 /\ Ladder(Ceiling(class)) \in 0..5
    BY <1>2, LadderRungs
  <2> QED
    BY <1>5, <1>6, <2>1, <2>2, <2>3
<1>7. CASE P # {}
  <2>1. cert.status = k.status /\ (k.modelDerived => cert.modelDerived)
    BY <1>7 DEF ConclusionCert
  <2>2. ps \subseteq Decision /\ ps # {} /\ \A d \in ps : d.expires = Never
    BY <1>4, <1>7
  <2>3. /\ k.status \in Status
        /\ Ladder(k.status) <= Ladder(c.status)
        /\ \A d \in ps : Ladder(k.status) <= Ladder(d.status)
        /\ \A d \in ps : d.modelDerived => k.modelDerived
    <3> HIDE DEF c, ps
    <3> QED
      BY <1>2, <1>3, <2>2, ComposedWithin
  <2>4. \A p \in P : PremiseDecision(p) \in ps
    OBVIOUS
  <2> HIDE DEF c, ps, k
  <2>5. \A p \in P : Ladder(cert.status) <= Ladder(results[p].status)
    BY <1>4, <2>1, <2>3, <2>4
  <2>6. \A p \in P : results[p].modelDerived => cert.modelDerived
    BY <1>4, <2>1, <2>3, <2>4, Zenon
  <2> QED
    BY <1>1, <1>3, <1>5, <1>7, <2>1, <2>3, <2>5, <2>6
<1> QED
  BY <1>6, <1>7

-----------------------------------------------------------------------------
(* The specification *)

\* A conclusion that was just returned, by the results as they are.
JustConcluded ==
    IsConclusion =>
        /\ returned.class \in Class /\ returned.premises \in SUBSET Assured
        /\ returned.proof \in Offered
        /\ \E a \in Seq(Severity) :
             LET trusted == ProofTrusted(returned.proof, returned.class, returned.premises)
             IN  /\ returned.cert = ConclusionCert(returned.class, returned.premises, trusted)
                 /\ returned.outcome = Enforce(returned.cert, a)

BoundedProofs == IsFiniteSet(proofs) /\ Cardinality(proofs) <= MaxProofs

Decided == returned # None /\ returned.call # "issue" => returned.outcome \in Rulings

IInv == Held /\ Issued /\ BoundedProofs /\ Decided /\ JustConcluded

LEMMA InitIInv == Init => IInv
  BY FS_EmptySet, EngineAssumption
     DEF Init, IInv, Held, Issued, BoundedProofs, Decided, JustConcluded, IsConclusion

LEMMA AssureKeeps ==
    ASSUME IInv, NEW c \in Claim, NEW cert \in Certs, NEW a \in Advisories, Assure(c, cert, a)
    PROVE  IInv'
<1>1. Held'
  BY DEF IInv, Held, Assure
<1>2. proofs' = proofs
  BY DEF Assure
<1>3. cert.status \in Status /\ a \in Seq(Severity)
  BY EngineAssumption DEF Certification
<1>4. /\ returned'.call = "assure"
      /\ returned'.outcome = Enforce(cert, a)
  BY DEF Assure
<1>5. Decided'
  BY <1>3, <1>4, EnforceFacts DEF Decided
<1>6. JustConcluded'
  BY <1>4 DEF JustConcluded, IsConclusion
<1> QED
  BY <1>1, <1>2, <1>5, <1>6 DEF IInv, Issued, BoundedProofs

LEMMA IssueProofKeeps ==
    ASSUME IInv, NEW class \in Classes, NEW P \in SUBSET Assured, IssueProof(class, P)
    PROVE  IInv'
<1>1. returned'.call = "issue" /\ results' = results
  BY DEF IssueProof
<1>2. Held'
  BY <1>1 DEF IInv, Held
<1>3. Issued'
  BY DEF IInv, Issued, IssueProof
<1>4. BoundedProofs'
  <2> DEFINE p == Issue("derivation", TRUE, Subject(class, P), TRUE)
  <2>1. /\ proofs' = proofs \cup {p}
        /\ IsFiniteSet(proofs) /\ Cardinality(proofs) < MaxProofs
    BY DEF IInv, BoundedProofs, IssueProof
  <2> HIDE DEF p
  <2>2. /\ IsFiniteSet(proofs \cup {p})
        /\ Cardinality(proofs \cup {p}) = Cardinality(proofs)
           \/ Cardinality(proofs \cup {p}) = Cardinality(proofs) + 1
        /\ Cardinality(proofs) \in Nat
    BY <2>1, FS_AddElement, FS_CardinalityType
  <2> QED
    BY <2>1, <2>2, EngineAssumption DEF BoundedProofs
<1>5. Decided' /\ JustConcluded'
  BY <1>1 DEF Decided, JustConcluded, IsConclusion
<1> QED
  BY <1>2, <1>3, <1>4, <1>5 DEF IInv

LEMMA SynthesizeKeeps ==
    ASSUME IInv, NEW class \in Classes, NEW P \in SUBSET Assured, NEW a \in Advisories,
           NEW proof \in Offered, Synthesize(class, P, a, proof)
    PROVE  IInv'
<1> DEFINE trusted == ProofTrusted(proof, class, P)
           cert == ConclusionCert(class, P, trusted)
           advisories == ConclusionAdvisories(a, P, trusted)
<1>1. /\ results' = results /\ proofs' = proofs
      /\ returned' = [call |-> "synthesize", class |-> class, premises |-> P,
                      proof |-> proof, cert |-> cert, outcome |-> Enforce(cert, advisories)]
  BY DEF Synthesize
<1>2. class \in Class /\ advisories \in Seq(Severity) /\ trusted \in BOOLEAN
  <2>1. class \in Class /\ trusted \in BOOLEAN
    BY EngineAssumption DEF ProofTrusted, IsTrusted
  <2>2. a \in Seq(Severity) /\ "CAUTION" \in Severity
    BY EngineAssumption DEF Severity
  <2> QED
    BY <2>1, <2>2, JoinedAdvisories DEF ConclusionAdvisories
<1>3. cert.status \in Status
  <2> HIDE DEF cert, trusted
  <2>1. cert = ConclusionCert(class, P, trusted)
    BY DEF cert
  <2> QED
    BY <1>2, <2>1, ConclusionFacts DEF IInv
<1>4. Enforce(cert, advisories) \in Rulings
  <2> HIDE DEF cert, advisories
  <2> QED
    BY <1>2, <1>3, EnforceFacts
<1>5. Decided'
  BY <1>1, <1>4 DEF Decided
<1>6. ProofTrusted(proof, class, P)' = ProofTrusted(proof, class, P)
  BY <1>1 DEF ProofTrusted, Subject
<1>7. ASSUME NEW t
      PROVE  ConclusionCert(class, P, t)' = ConclusionCert(class, P, t)
  <2>1. \A p \in P : PremiseDecision(p)' = PremiseDecision(p)
    BY <1>1 DEF PremiseDecision
  <2>2. {PremiseDecision(p) : p \in P}' = {PremiseDecision(p) : p \in P}
    BY <2>1
  <2>3. \A p \in P : results'[p].definitive = results[p].definitive
    BY <1>1
  <2> QED
    BY <2>2, <2>3 DEF ConclusionCert
<1>8. P \in (SUBSET Assured)' /\ proof \in Offered'
  BY <1>1 DEF Assured, Offered
<1>9. JustConcluded'
  <2> HIDE DEF cert, advisories
  <2>1. /\ returned'.class = class /\ returned'.premises = P /\ returned'.proof = proof
        /\ returned'.cert = cert /\ returned'.outcome = Enforce(cert, advisories)
    BY <1>1
  <2>2. cert = ConclusionCert(class, P, ProofTrusted(proof, class, P))'
    <3>1. cert = ConclusionCert(class, P, ProofTrusted(proof, class, P))
      BY DEF cert
    <3> QED
      BY <1>6, <1>7, <3>1
  <2>3. returned'.cert = ConclusionCert(returned.class, returned.premises,
                                        ProofTrusted(returned.proof, returned.class,
                                                     returned.premises))'
    BY <2>1, <2>2
  <2>4. returned'.outcome = Enforce(returned'.cert, advisories)
    BY <2>1
  <2> QED
    BY <1>2, <1>8, <2>1, <2>3, <2>4 DEF JustConcluded
<1> QED
  BY <1>1, <1>5, <1>9 DEF IInv, Held, Issued, BoundedProofs

LEMMA InductiveIInv == IInv /\ [Next]_vars => IInv'
<1> SUFFICES ASSUME IInv, [Next]_vars
             PROVE  IInv'
  OBVIOUS
<1>1. CASE UNCHANGED vars
  BY <1>1 DEF vars, IInv, Held, Issued, BoundedProofs, Decided, JustConcluded, IsConclusion,
              Assured, Offered, ProofTrusted, Subject, ConclusionCert, PremiseDecision
<1>2. CASE Next
  BY <1>2, AssureKeeps, IssueProofKeeps, SynthesizeKeeps DEF Next
<1> QED
  BY <1>1, <1>2

LEMMA Invariance == Spec => []IInv
  BY InitIInv, InductiveIInv, PTL DEF Spec

\* Type correctness: whatever is assured and synthesized, each call returns
\* one of the engine's outcomes.
THEOREM TypeCorrect == Spec => []TypeOK
<1>1. IInv => TypeOK
  BY DEF IInv, Held, BoundedProofs, Decided, TypeOK
<1> QED
  BY <1>1, Invariance, PTL

\* A conclusion never outranks its class or the weakest of any number of
\* premises.
THEOREM WeakestLink == Spec => []ConclusionWithinPremises
<1>1. IInv => ConclusionWithinPremises
  <2> SUFFICES ASSUME IInv, IsConclusion
               PROVE  /\ Ladder(returned.cert.status) <= Ladder(Ceiling(returned.class))
                      /\ \A cert \in PremiseCerts :
                           Ladder(returned.cert.status) <= Ladder(cert.status)
    BY DEF ConclusionWithinPremises
  <2>1. PICK trusted \in BOOLEAN :
          returned.cert = ConclusionCert(returned.class, returned.premises, trusted)
    BY DEF IInv, JustConcluded, ProofTrusted, IsTrusted
  <2> QED
    <3>1. Held /\ returned.class \in Class /\ returned.premises \in SUBSET Assured
      BY DEF IInv, JustConcluded
    <3>2. /\ Ladder(returned.cert.status) <= Ladder(Ceiling(returned.class))
          /\ \A p \in returned.premises :
               Ladder(returned.cert.status) <= Ladder(results[p].status)
      BY <2>1, <3>1, ConclusionFacts
    <3> QED
      BY <3>2 DEF PremiseCerts
<1> QED
  BY <1>1, Invariance, PTL

\* A copied proof carries no token.
LEMMA OfferedFacts ==
    ASSUME Issued, NEW proof \in Offered, NEW class, NEW P, ProofTrusted(proof, class, P)
    PROVE  proof \in proofs /\ proof.subject = Subject(class, P)
<1>1. proof # NoProof /\ proof.token = "derivation" /\ proof.subject = Subject(class, P)
  BY DEF ProofTrusted, IsTrusted, SubjectMatches, Digest
<1>2. \A p \in proofs : Copied(p).token = "none"
  BY DEF Issued, Issue, Copied
<1> QED
  BY <1>1, <1>2 DEF Offered

\* Full release of a conclusion takes a proof issued for it, over premises that
\* still are as they were then, VERIFIED by definitive verifiers.
THEOREM AllowNeedsProof == Spec => []AllowIsProved
<1>1. IInv => AllowIsProved
  <2> SUFFICES ASSUME IInv, IsConclusion, returned.outcome.decision = "ALLOW"
               PROVE  /\ returned.proof \in proofs
                      /\ returned.proof.subject.class = returned.class
                      /\ DOMAIN returned.proof.subject.premises = returned.premises
                      /\ \A p \in returned.premises :
                           /\ returned.proof.subject.premises[p].status = results[p].status
                           /\ returned.proof.subject.premises[p].record = results[p].record
                      /\ \A cert \in PremiseCerts :
                           cert.status = "VERIFIED" /\ cert.definitive /\ ~ cert.modelDerived
                      /\ returned.class = "MECHANICAL"
    BY DEF AllowIsProved
  <2> DEFINE trusted == ProofTrusted(returned.proof, returned.class, returned.premises)
             cert == returned.cert
  <2>1. /\ Held /\ Issued
        /\ returned.class \in Class /\ returned.premises \in SUBSET Assured
        /\ returned.proof \in Offered /\ trusted \in BOOLEAN
        /\ cert = ConclusionCert(returned.class, returned.premises, trusted)
    BY DEF IInv, JustConcluded, ProofTrusted, IsTrusted
  <2> HIDE DEF cert, trusted
  <2>2. /\ cert.status \in Status
        /\ Ladder(cert.status) <= Ladder(Ceiling(returned.class))
        /\ \A p \in returned.premises :
             /\ results[p] \in Certs
             /\ Ladder(cert.status) <= Ladder(results[p].status)
             /\ results[p].modelDerived => cert.modelDerived
        /\ cert.definitive => trusted /\ \A p \in returned.premises : results[p].definitive
    BY <2>1, ConclusionFacts
  <2>3. PICK a \in Seq(Severity) : returned.outcome = Enforce(cert, a)
    BY DEF IInv, JustConcluded, cert
  <2>4. cert.status = "VERIFIED" /\ cert.definitive /\ ~ cert.modelDerived
    BY <2>2, <2>3, EnforceFacts DEF Released
  <2>5. Ladder("VERIFIED") = 5 /\ \A s \in Status : Ladder(s) >= 5 => s = "VERIFIED"
    BY DEF Status, Ladder
  <2>6. \A p \in returned.premises : results[p].status \in Status
    BY <2>2, EngineAssumption DEF Certification
  <2>7. \A p \in returned.premises : results[p].status = "VERIFIED"
    BY <2>2, <2>4, <2>5, <2>6, LadderRungs
  <2>8. returned.class = "MECHANICAL"
    BY <2>1, <2>2, <2>4, <2>5 DEF Class, Ceiling, Ladder
  <2>9. /\ returned.proof \in proofs
        /\ returned.proof.subject = Subject(returned.class, returned.premises)
    BY <2>1, <2>2, <2>4, OfferedFacts DEF trusted
  <2>10. /\ returned.proof.subject.class = returned.class
         /\ DOMAIN returned.proof.subject.premises = returned.premises
         /\ \A p \in returned.premises :
              /\ returned.proof.subject.premises[p].status = results[p].status
              /\ returned.proof.subject.premises[p].record = results[p].record
    BY <2>9 DEF Subject
  <2> QED
    BY <2>2, <2>4, <2>7, <2>8, <2>9, <2>10 DEF PremiseCerts
<1> QED
  BY <1>1, Invariance, PTL

\* Any release of a conclusion takes premises that are CORROBORATED at least
\* and none that rests on a model's word.
THEOREM ReleaseNeedsSupport == Spec => []ReleaseNeedsStrongPremises
<1>1. IInv => ReleaseNeedsStrongPremises
  <2> SUFFICES ASSUME IInv, IsConclusion, returned.outcome.decision \in Released
               PROVE  /\ returned.premises # {}
                      /\ \A cert \in PremiseCerts :
                           Ladder(cert.status) >= Ladder("CORROBORATED") /\ ~ cert.modelDerived
    BY DEF ReleaseNeedsStrongPremises
  <2> DEFINE cert == returned.cert
  <2>1. PICK trusted \in BOOLEAN :
          cert = ConclusionCert(returned.class, returned.premises, trusted)
    BY DEF IInv, JustConcluded, ProofTrusted, IsTrusted
  <2>2. PICK a \in Seq(Severity) : returned.outcome = Enforce(cert, a)
    BY DEF IInv, JustConcluded
  <2> HIDE DEF cert
  <2>3. /\ cert.status \in Status
        /\ \A p \in returned.premises :
             /\ results[p] \in Certs
             /\ Ladder(cert.status) <= Ladder(results[p].status)
             /\ results[p].modelDerived => cert.modelDerived
        /\ cert.status \in Positive => returned.premises # {}
    BY <2>1, ConclusionFacts DEF IInv, JustConcluded
  <2>4. cert.status \in {"VERIFIED", "CORROBORATED"} /\ ~ cert.modelDerived
    BY <2>2, <2>3, EnforceFacts
  <2>5. /\ Ladder(cert.status) >= 4 /\ Ladder(cert.status) \in 0..5
        /\ Ladder("CORROBORATED") = 4
        /\ cert.status \in Positive
    BY <2>4 DEF Ladder, Positive
  <2>6. \A p \in returned.premises : Ladder(results[p].status) \in 0..5
    BY <2>3, EngineAssumption, LadderRungs DEF Certification
  <2> QED
    BY <2>3, <2>4, <2>5, <2>6 DEF PremiseCerts
<1> QED
  BY <1>1, Invariance, PTL

\* Advisories never relax a decision or lower a tier, in whatever order they
\* come (the loop of enforce over the advisories).
THEOREM AdvisoriesRestrict == Spec => []AdvisoriesOnlyRestrict
<1>1. IInv => AdvisoriesOnlyRestrict
  <2> SUFFICES ASSUME IInv, NEW c \in Assured, NEW A \in Advisories, NEW B \in Advisories,
                      Severities(B) \subseteq Severities(A)
               PROVE  /\ Restrictiveness(Enforce(results[c], B).decision)
                           <= Restrictiveness(Enforce(results[c], A).decision)
                      /\ Enforce(results[c], B).tier <= Enforce(results[c], A).tier
    BY DEF AdvisoriesOnlyRestrict
  <2> DEFINE o == Certified(results[c])
             less == WithAdvisories(o, B)
             more == WithAdvisories(o, A)
  <2>0. A \in Seq(Severity) /\ B \in Seq(Severity)
    BY EngineAssumption
  <2>1. results[c].status \in Status
    BY EngineAssumption DEF IInv, Held, Assured, Certification
  <2>2. o \in Rulings
    BY <2>1, CertifiedFacts
  <2>3. Enforce(results[c], B) = less /\ Enforce(results[c], A) = more
    BY DEF Enforce, Certified
  <2> HIDE DEF o
  <2>4. Considered(o, SeveritySet(B)) \subseteq Considered(o, SeveritySet(A))
    BY DEF Considered, Severities, SeveritySet
  <2>5. \E p \in Considered(o, SeveritySet(B)) : less.decision = p.decision
    BY <2>0, <2>2, AdvisoryFacts
  <2>6. \E p \in Considered(o, SeveritySet(B)) : less.tier = p.tier
    BY <2>0, <2>2, AdvisoryFacts
  <2>7. \A p \in Considered(o, SeveritySet(A)) :
          Restrictiveness(p.decision) <= Restrictiveness(more.decision) /\ p.tier <= more.tier
    BY <2>0, <2>2, AdvisoryFacts
  <2> HIDE DEF less, more
  <2> QED
    BY <2>3, <2>4, <2>5, <2>6, <2>7
<1> QED
  BY <1>1, Invariance, PTL
=============================================================================
