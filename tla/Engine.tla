------------------------------- MODULE Engine -------------------------------
(***************************************************************************)
(* The release engine (glass_ionomer/engine): claims are assured, and      *)
(* conclusions synthesized from the results.                               *)
(*                                                                         *)
(* A caller holds the result of the last assurance of each claim and may   *)
(* assure a claim again, against other source records.  The operator plane *)
(* issues derivation proofs, each for one conclusion over the premises as  *)
(* they are certified at that moment.  The caller synthesizes a conclusion *)
(* from results it holds, with a proof, a proof issued for something else, *)
(* or none.                                                                *)
(***************************************************************************)
EXTENDS Enforcer, Trust, FiniteSets

CONSTANTS Claim,       \* the premise claims
          Certs,       \* the certifications verifiers may give them
          Advisories,  \* the severities of the advisories a claim may carry, in order
          Classes,     \* the verifiability classes of conclusions
          Record,      \* source records (record_hash)
          None,        \* no result
          MaxProofs    \* bound on the derivation proofs issued

ASSUME EngineAssumption ==
    /\ Certs \subseteq Certification(Record)
    /\ Advisories \subseteq Seq(Severity)
    /\ Classes \subseteq Class
    /\ MaxProofs \in Nat

VARIABLES results,  \* the certification of the EngineResult held for each claim; the
                    \* rest of the result is read by nobody
          proofs,   \* the derivation proofs issued
          returned  \* what the last call returned

vars == <<results, proofs, returned>>

Assured == {c \in Claim : results[c] # None}

-----------------------------------------------------------------------------
(* assure *)

Assure(c, cert, advisories) ==
    /\ results' = [results EXCEPT ![c] = cert]
    /\ returned' = [call |-> "assure", outcome |-> Enforce(cert, advisories)]
    /\ UNCHANGED proofs

-----------------------------------------------------------------------------
(* synthesize *)

\* Mutated form of Subject: the proof does not bind the premises' records.
SubjectWithoutRecords(class, P) ==
    [class    |-> class,
     premises |-> [p \in P |->
                     [status     |-> results[p].status,
                      definitive |-> results[p].definitive,
                      record     |-> None]]]

\* derivation_subject: the conclusion and the premises as certified.  The
\* advisories and the releases of the premises are not part of it.
Subject(class, P) ==
    [class    |-> class,
     premises |-> [p \in P |->
                     [status     |-> results[p].status,
                      definitive |-> results[p].definitive,
                      record     |-> results[p].record]]]

IssueProof(class, P) ==
    /\ Cardinality(proofs) < MaxProofs
    /\ proofs' = proofs \cup {Issue("derivation", TRUE, Subject(class, P), TRUE)}
    /\ returned' = [call |-> "issue"]
    /\ UNCHANGED results

ProofTrusted(proof, class, P) == IsTrusted("derivation", proof, Subject(class, P), TRUE)

AsDecision(status, direction, model) ==
    [status |-> status, direction |-> direction, contested |-> status = "CONTESTED",
     modelDerived |-> model, expires |-> Never]

\* _premise_decision: the certification has no deadline to carry over.
PremiseDecision(p) ==
    LET s == results[p].status
    IN  AsDecision(s,
                   IF s \in Positive THEN "SUPPORTS"
                   ELSE IF s = "REFUTED" THEN "REFUTES" ELSE "NEUTRAL",
                   results[p].modelDerived)

\* Mutated form of Seed: every conclusion starts from the top of the ladder.
SeedVerified(class) == AsDecision("VERIFIED", "SUPPORTS", FALSE)

\* The conclusion starts at the ceiling of its class.
Seed(class) == AsDecision(Ceiling(class), "SUPPORTS", FALSE)

\* The certification of a conclusion.  Deadlines play no part, so any time
\* will do.
ConclusionCert(class, P, trusted) ==
    LET composed == Compose(Seed(class), {PremiseDecision(p) : p \in P}, 0)
    IN  [status       |-> IF P = {} THEN "UNVERIFIED" ELSE composed.status,
         definitive   |-> P # {} /\ trusted /\ \A p \in P : results[p].definitive,
         modelDerived |-> P # {} /\ composed.modelDerived]

\* Without a trusted proof the conclusion gets a CAUTION of its own, after the
\* others.
ConclusionAdvisories(advisories, P, trusted) ==
    IF P = {} \/ trusted THEN advisories ELSE Append(advisories, "CAUTION")

Synthesize(class, P, advisories, proof) ==
    LET trusted == ProofTrusted(proof, class, P)
        cert    == ConclusionCert(class, P, trusted)
    IN  /\ returned' = [call     |-> "synthesize",
                        class    |-> class,
                        premises |-> P,
                        proof    |-> proof,
                        cert     |-> cert,
                        outcome  |-> Enforce(cert, ConclusionAdvisories(advisories, P, trusted))]
        /\ UNCHANGED <<results, proofs>>

-----------------------------------------------------------------------------
Init ==
    /\ results = [c \in Claim |-> None]
    /\ proofs = {}
    /\ returned = None

\* The proofs a caller may offer: one that was issued, a copy of it, or none.
Offered == proofs \cup {Copied(p) : p \in proofs} \cup {NoProof}

Next ==
    \/ \E c \in Claim, cert \in Certs, a \in Advisories : Assure(c, cert, a)
    \/ \E class \in Classes, P \in SUBSET Assured :
         \/ IssueProof(class, P)
         \/ \E a \in Advisories, proof \in Offered :
              Synthesize(class, P, a, proof)

Spec == Init /\ [][Next]_vars

-----------------------------------------------------------------------------
(* Properties *)

TypeOK ==
    /\ results \in [Claim -> Certs \cup {None}]
    /\ IsFiniteSet(proofs) /\ Cardinality(proofs) <= MaxProofs
    /\ returned # None /\ returned.call # "issue" => returned.outcome \in Rulings

IsConclusion == returned # None /\ returned.call = "synthesize"
PremiseCerts == {results[p] : p \in returned.premises}

\* A conclusion is no stronger than any certified premise, and no stronger
\* than its class allows ("assurance can never exceed its weakest admissible
\* premise"; "Min-ceiling seed").
ConclusionWithinPremises ==
    IsConclusion =>
        /\ Ladder(returned.cert.status) <= Ladder(Ceiling(returned.class))
        /\ \A cert \in PremiseCerts : Ladder(returned.cert.status) <= Ladder(cert.status)

\* A conclusion is released in full only when its derivation was proved over
\* its premises as they are certified now, and every one of them is VERIFIED
\* by a definitive verifier: a copy of a proof is no proof, and a proof does not
\* survive a premise being assured again with another outcome or against
\* another record.
AllowIsProved ==
    IsConclusion /\ returned.outcome.decision = "ALLOW" =>
        /\ returned.proof \in proofs
        /\ returned.proof.subject.class = returned.class
        /\ DOMAIN returned.proof.subject.premises = returned.premises
        /\ \A p \in returned.premises :
             /\ returned.proof.subject.premises[p].status = results[p].status
             /\ returned.proof.subject.premises[p].record = results[p].record
        /\ \A cert \in PremiseCerts :
             cert.status = "VERIFIED" /\ cert.definitive /\ ~ cert.modelDerived
        /\ returned.class = "MECHANICAL"

\* Nothing is released, even with a notice, over a premise that is itself
\* below CORROBORATED or rests on the model's word only.
ReleaseNeedsStrongPremises ==
    IsConclusion /\ returned.outcome.decision \in Released =>
        /\ returned.premises # {}
        /\ \A cert \in PremiseCerts :
             Ladder(cert.status) >= Ladder("CORROBORATED") /\ ~ cert.modelDerived

Severities(advisories) == {advisories[i] : i \in DOMAIN advisories}

\* Advisories only ever restrict, in whatever order they come: for every
\* result held, a list with more severities, or the same in another order,
\* never yields a less restrictive decision or a lower tier ("it can lower a
\* release, never raise it").
AdvisoriesOnlyRestrict ==
    \A c \in Assured : \A A, B \in Advisories :
        Severities(B) \subseteq Severities(A) =>
            LET less == Enforce(results[c], B)
                more == Enforce(results[c], A)
            IN  /\ Restrictiveness(less.decision) <= Restrictiveness(more.decision)
                /\ less.tier <= more.tier
=============================================================================
