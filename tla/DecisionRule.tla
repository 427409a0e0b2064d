---------------------------- MODULE DecisionRule ----------------------------
(***************************************************************************)
(* decide_status (glass_ionomer/verify/status.py) as a function: the       *)
(* status of one claim from what its verifiers returned and the evidence   *)
(* retrieved for it.                                                       *)
(*                                                                         *)
(* The code reads its lists only through "is there one" and "how many      *)
(* distinct sources", so sets stand for them.                              *)
(***************************************************************************)
EXTENDS EvidenceStatus, FiniteSets

CONSTANTS NoKey,         \* the independence_key of an item without one
          MinLineages,   \* policy.corroboration_min_lineages
          SupportMin,    \* policy.support_min_strength
          ContradictMin  \* policy.contradiction_min_strength

ASSUME PolicyAssumption ==
    /\ NoKey \notin Nat
    /\ MinLineages \in Nat \ {0}
    /\ SupportMin \in Nat /\ ContradictMin \in Nat

EvidenceItem == [lineage      : Nat,
                 key          : Nat \cup {NoKey},
                 entailment   : {"ENTAILS", "CONTRADICTS", "NEUTRAL"},
                 strength     : Nat,
                 applicable   : BOOLEAN,
                 integrity    : BOOLEAN,
                 fresh        : BOOLEAN,
                 quoteBound   : BOOLEAN,
                 modelStance  : BOOLEAN,
                 provenance   : BOOLEAN]

\* authoritative: source_authority is in policy.min_authority_for_verified.
\* bound: formalization_checked.
VerifierResult == [kind          : {"INTRINSIC", "SOURCED", "LLM"},
                   outcome       : {"PASS", "FAIL", "INCONCLUSIVE", "ERROR", "TIMEOUT"},
                   isLLM         : BOOLEAN,
                   applicable    : BOOLEAN,
                   authoritative : BOOLEAN,
                   integrity     : BOOLEAN,
                   bound         : BOOLEAN]

ExecutionState == {"OK", "NO_EVIDENCE", "ERROR", "TIMEOUT", "BUDGET_EXHAUSTED", "SKIPPED"}
Incomplete == {"ERROR", "TIMEOUT", "BUDGET_EXHAUSTED", "SKIPPED"}
-----------------------------------------------------------------------------
(* What counts *)

\* Mutated form of Admissible: a stale item counts as much as a fresh one.
AdmissibleStale(e) == e.applicable /\ e.integrity

Admissible(e) == e.applicable /\ e.integrity /\ e.fresh

Supports(evidence) ==
    {e \in evidence : /\ Admissible(e) /\ e.quoteBound
                      /\ e.entailment = "ENTAILS" /\ e.strength >= SupportMin}

Contradicts(evidence) ==
    {e \in evidence : /\ Admissible(e) /\ e.quoteBound
                      /\ e.entailment = "CONTRADICTS" /\ e.strength >= ContradictMin}

\* Mutated form of Source: the lineage label alone identifies a source.
SourceByLabel(e) == <<"lineage", e.lineage>>

\* The source an item counts for: its independence key when it has one.
Source(e) == IF e.key # NoKey THEN <<"prov", e.key>> ELSE <<"lineage", e.lineage>>

Lineages(items) == {Source(e) : e \in items}
Trusted(items) == {e \in items : e.provenance}

\* Mutated form of IsDefinitive: the check of is_llm is missing.
IsDefinitiveKind(v) ==
    /\ v.applicable
    /\ \/ v.kind \in {"INTRINSIC", "LLM"}
       \/ v.kind = "SOURCED" /\ v.integrity /\ v.authoritative

IsDefinitive(v) ==
    /\ ~ v.isLLM /\ v.applicable
    /\ \/ v.kind = "INTRINSIC"
       \/ v.kind = "SOURCED" /\ v.integrity /\ v.authoritative

Definitive(results, outcome, bound) ==
    {v \in results : IsDefinitive(v) /\ v.outcome = outcome /\ v.bound = bound}

-----------------------------------------------------------------------------
(* The status predicate, before the ceiling: <<status, direction>> *)

EvidenceLadder(results, evidence) ==
    LET support  == Supports(evidence)
        disputed == Contradicts(evidence) # {}
        enough   == Cardinality(Lineages(Trusted(support))) >= MinLineages
    IN  CASE ~ disputed /\ enough                   -> <<"CORROBORATED", "SUPPORTS">>
          [] ~ disputed /\ ~ enough /\ support # {} -> <<"SUPPORTED", "SUPPORTS">>
          [] disputed /\ support # {} -> <<"CONTESTED", "NEUTRAL">>
          [] disputed /\ support = {} -> <<"UNVERIFIED", "REFUTES">>
          [] /\ ~ disputed /\ ~ enough /\ support = {}
             /\ Definitive(results, "FAIL", FALSE) # {} -> <<"UNVERIFIED", "REFUTES">>
          [] OTHER -> <<"UNVERIFIED", "NEUTRAL">>

\* Mutated form of Candidate: a contradiction wins over a failed definitive
\* verifier.
CandidateDisputeFirst(results, evidence) ==
    LET disputed == Contradicts(evidence) # {}
        failed   == Definitive(results, "FAIL", TRUE) # {}
        passed   == Definitive(results, "PASS", TRUE) # {}
    IN  CASE disputed /\ (failed \/ passed) -> <<"CONTESTED", "NEUTRAL">>
          [] failed /\ ~ disputed           -> <<"REFUTED", "REFUTES">>
          [] passed /\ ~ failed /\ ~ disputed -> <<"VERIFIED", "SUPPORTS">>
          [] OTHER                          -> EvidenceLadder(results, evidence)

Candidate(results, evidence) ==
    LET disputed == Contradicts(evidence) # {}
        failed   == Definitive(results, "FAIL", TRUE) # {}
        passed   == Definitive(results, "PASS", TRUE) # {}
    IN  CASE failed                            -> <<"REFUTED", "REFUTES">>
          [] ~ failed /\ passed /\ disputed    -> <<"CONTESTED", "NEUTRAL">>
          [] ~ failed /\ passed /\ ~ disputed  -> <<"VERIFIED", "SUPPORTS">>
          [] OTHER                             -> EvidenceLadder(results, evidence)

\* Mutated form of Capped: the cap is not applied.
Uncapped(status, class) == status

\* _apply_ceiling
Capped(status, class) ==
    IF status \in Positive /\ Ladder(status) > Ladder(Ceiling(class))
    THEN Ceiling(class)
    ELSE status

\* The contested flag: credible support and contradiction, or a definitive
\* pass somebody disputes.
IsContested(results, evidence) ==
    /\ Contradicts(evidence) # {}
    /\ \/ Supports(evidence) # {}
       \/ /\ Definitive(results, "FAIL", TRUE) = {}
          /\ Definitive(results, "PASS", TRUE) # {}

Verdict(class, execution, results, evidence) ==
    LET candidate == Candidate(results, evidence)
        support   == Supports(evidence)
    IN  IF execution \in Incomplete \/ (results = {} /\ evidence = {})
        THEN Form("UNVERIFIED", "NEUTRAL", FALSE, FALSE)
        ELSE Form(Capped(candidate[1], class), candidate[2],
                  IsContested(results, evidence),
                  support # {} /\ \A e \in support : e.modelStance)
=============================================================================
