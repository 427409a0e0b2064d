-------------------------------- MODULE Trust --------------------------------
(***************************************************************************)
(* The proofs of the operator plane (glass_ionomer/verify/trust.py).  A    *)
(* proof is trusted when it carries the private token of its kind, which   *)
(* only the issuing function stamps, and the digest of the very subject it *)
(* is used for.  A digest stands for its subject: SHA-256 over a           *)
(* type-preserving serialization is taken as injective.                    *)
(***************************************************************************)

CONSTANTS NoProof,  \* no proof is given
          NoHash    \* the empty digest

\* The kinds of proof that have a token, and what an object holds in place of
\* the token when it was constructed, deserialized or copied.
ProofKind == {"binding", "coverage", "derivation", "review", "source"}
Token == ProofKind \cup {"none"}

Method == {"lexical", "provenance", "semantic", "human"}

\* Mutated form of TrustedMethods: a lexical check is enough.
AllMethods == Method

TrustedMethods == {"provenance", "semantic", "human"}

\* _safe_subject_hash: a subject that cannot be serialized (a cyclic one, say)
\* has no digest.
Digest(subject, canonical) == IF canonical THEN subject ELSE NoHash

\* issue_trusted_binding_proof; it never raises.
IssueBinding(method, ok, subject, canonical) ==
    [token |-> "binding", method |-> method, ok |-> ok,
     subject |-> Digest(subject, canonical)]

\* A copy of a proof made by replace, deepcopy, pickle or through JSON has all
\* of its fields and no token.
Copied(proof) == [proof EXCEPT !.token = "none"]

\* Mutated form of SubjectMatches: that there is a subject is enough.
SubjectThere(proof, subject, canonical) == proof.subject # NoHash

SubjectMatches(proof, subject, canonical) ==
    /\ Digest(subject, canonical) # NoHash
    /\ proof.subject = Digest(subject, canonical)

\* binding_proof_is_trusted
BindingTrusted(proof, subject, canonical) ==
    /\ proof # NoProof
    /\ proof.ok
    /\ proof.method \in TrustedMethods
    /\ proof.token = "binding"
    /\ SubjectMatches(proof, subject, canonical)

\* issue_trusted_derivation_proof and its siblings for coverage, review and
\* sources
Issue(kind, ok, subject, canonical) ==
    [token |-> kind, ok |-> ok, subject |-> Digest(subject, canonical)]

\* derivation_proof_is_trusted and its siblings
IsTrusted(kind, proof, subject, canonical) ==
    /\ proof # NoProof
    /\ proof.ok
    /\ proof.token = kind
    /\ SubjectMatches(proof, subject, canonical)
=============================================================================
