------------------------- MODULE DecideStatusProofs -------------------------
(***************************************************************************)
(* DecideStatus for every set of evidence items and verifier results and   *)
(* every policy.                                                           *)
(***************************************************************************)
EXTENDS DecideStatus, EvidenceStatusProofs

-----------------------------------------------------------------------------
\* Type correctness: decide_status gives a claim only a status, direction and
\* flags that its class and each other allow, whatever it is given; these are
\* the decisions StatusLifecycle and ComposeGraph start from.
THEOREM TypeCorrect == Spec => []TypeOK
<1> DEFINE IInv == class \in Class /\ evidence \subseteq Evidence /\ results \subseteq Results
<1>1. Init => IInv
  BY DEF Init
<1>2. IInv /\ [Next]_vars => IInv'
  BY DEF Next, Retrieve, Return, vars
<1>3. IInv => TypeOK
  BY VerdictForms DEF TypeOK, verdict
<1> QED
  BY <1>1, <1>2, <1>3, PTL DEF Spec

-----------------------------------------------------------------------------
(* Non-interference *)

\* The class of the claim is one throughout.
LEMMA ClassInvariant == Spec => [](class \in Class)
<1>1. Init => class \in Class
  BY DEF Init
<1>2. class \in Class /\ [Next]_vars => (class \in Class)'
  BY DEF Next, Retrieve, Return, vars
<1> QED
  BY <1>1, <1>2, PTL DEF Spec

\* The non-LLM rule: whatever LLM verifiers return, in whatever number and
\* next to whatever else, the verdict is the one reached without them.
THEOREM ModelAgreementIsNoEvidence == Spec => []LLMHasNoVote
<1>1. class \in Class => LLMHasNoVote
  <2> DEFINE R2 == {v \in results : ~ v.isLLM}
  <2> SUFFICES ASSUME class \in Class
               PROVE  Verdict(class, execution, R2, evidence)
                        = Verdict(class, execution, results, evidence)
    BY DEF LLMHasNoVote, verdict
  <2>1. \A o, b : Definitive(R2, o, b) = Definitive(results, o, b)
    BY DEF Definitive, IsDefinitive
  <2> QED
    BY <2>1, SameSignals
<1> QED
  BY <1>1, ClassInvariant, PTL

\* Evidence that failed integrity, freshness or scope moves nothing, for or
\* against, not even by being there when nothing else is.
THEOREM InadmissibleIsDropped == Spec => []InadmissibleHasNoVote
<1>1. class \in Class => InadmissibleHasNoVote
  <2> DEFINE E2 == {e \in evidence : e.applicable /\ e.integrity /\ e.fresh}
  <2> SUFFICES ASSUME class \in Class
               PROVE  Verdict(class, execution, results, E2)
                        = Verdict(class, execution, results, evidence)
    BY DEF InadmissibleHasNoVote, verdict
  <2>1. Supports(E2) = Supports(evidence) /\ Contradicts(E2) = Contradicts(evidence)
    BY DEF Supports, Contradicts, Admissible
  <2> QED
    BY <2>1, SameSignals
<1> QED
  BY <1>1, ClassInvariant, PTL

-----------------------------------------------------------------------------
(* Which way one more item moves the verdict *)

\* Of finitely many items there are finitely many sources.
SourceInv == class \in Class /\ IsFiniteSet(Lineages(evidence))

LEMMA SourceInvariance == Spec => []SourceInv
<1>1. Init => SourceInv
  <2>1. Lineages({}) = {}
    BY DEF Lineages
  <2> QED
    BY <2>1, FS_EmptySet DEF Init, SourceInv
<1>2. SourceInv /\ [Next]_vars => SourceInv'
  <2> SUFFICES ASSUME SourceInv, [Next]_vars
               PROVE  SourceInv'
    OBVIOUS
  <2>1. CASE \E e \in Evidence : Retrieve(e)
    <3>1. PICK e \in Evidence : Retrieve(e)
      BY <2>1
    <3>2. Lineages(evidence') = Lineages(evidence) \cup {Source(e)}
      BY <3>1 DEF Retrieve, Lineages
    <3>3. IsFiniteSet(Lineages(evidence) \cup {Source(e)})
      BY FS_AddElement DEF SourceInv
    <3> QED
      BY <3>1, <3>2, <3>3 DEF Retrieve, SourceInv
  <2>2. CASE \E v \in Results : Return(v)
    BY <2>2 DEF Return, SourceInv
  <2>3. CASE UNCHANGED vars
    BY <2>3 DEF vars, SourceInv
  <2> QED
    BY <2>1, <2>2, <2>3 DEF Next
<1> QED
  BY <1>1, <1>2, PTL DEF Spec

\* The rung of the verdict, and that it is a number.
LEMMA VerdictRung ==
    ASSUME NEW cl \in Class, NEW ex, NEW R, NEW E
    PROVE  Ladder(Verdict(cl, ex, R, E).status) \in Int
<1>1. Verdict(cl, ex, R, E).status \in Status
  BY VerdictForms DEF DecisionForms
<1> QED
  BY <1>1 DEF Status, Ladder

\* One more item of evidence.
LEMMA ItemMoves ==
    ASSUME NEW cl \in Class, NEW ex, NEW R, NEW E, NEW e,
           IsFiniteSet(Lineages(E \cup {e})),
           NEW old, old = Ladder(Verdict(cl, ex, R, E).status),
           NEW new, new = Ladder(Verdict(cl, ex, R, E \cup {e}).status)
    PROVE  /\ e.entailment = "ENTAILS" => old <= new
           /\ e.entailment = "CONTRADICTS" => new <= old
           /\ e.entailment = "NEUTRAL" => new = old
<1> DEFINE E2 == E \cup {e}
<1>1. /\ Supports(E) \subseteq Supports(E2) /\ Contradicts(E) \subseteq Contradicts(E2)
      /\ e.entailment # "ENTAILS" => Supports(E2) = Supports(E)
      /\ e.entailment # "CONTRADICTS" => Contradicts(E2) = Contradicts(E)
  BY DEF Supports, Contradicts
<1>2. IsFiniteSet(Lineages(E2))
  OBVIOUS
<1>3. old \in Int /\ new \in Int
  BY VerdictRung
<1> HIDE DEF E2
<1>4. Enough(E) => Enough(E2)
  BY <1>1, <1>2, EnoughGrows
<1>5. Contradicts(E2) = Contradicts(E) => old <= new
  BY <1>1, <1>4, MoreRaises DEF E2
<1>6. Supports(E2) = Supports(E) => new <= old
  <2> SUFFICES ASSUME Supports(E2) = Supports(E)
               PROVE  new <= old
    OBVIOUS
  <2>1. Enough(E2) => Enough(E)
    BY DEF Enough
  <2> QED
    BY <1>1, <2>1, MoreRaises DEF E2
<1> QED
  BY <1>1, <1>3, <1>5, <1>6

\* One more verifier result.
LEMMA ResultMoves ==
    ASSUME NEW cl \in Class, NEW ex, NEW R, NEW E, NEW v,
           NEW old, old = Ladder(Verdict(cl, ex, R, E).status),
           NEW new, new = Ladder(Verdict(cl, ex, R \cup {v}, E).status)
    PROVE  /\ v.outcome = "PASS" => old <= new
           /\ v.outcome = "FAIL" => new <= old
           /\ v.outcome \notin {"PASS", "FAIL"} => new = old
<1> DEFINE R2 == R \cup {v}
<1>1. /\ \A o : Definitive(R, o, TRUE) \subseteq Definitive(R2, o, TRUE)
      /\ \A o : v.outcome # o => Definitive(R2, o, TRUE) = Definitive(R, o, TRUE)
  BY DEF Definitive
<1>2. old \in Int /\ new \in Int
  BY VerdictRung
<1> HIDE DEF R2
<1>3. Definitive(R2, "FAIL", TRUE) = Definitive(R, "FAIL", TRUE) => old <= new
  BY <1>1, MoreRaises DEF R2
<1>4. Definitive(R2, "PASS", TRUE) = Definitive(R, "PASS", TRUE) => new <= old
  BY <1>1, MoreRaises DEF R2
<1>5. v.outcome # "FAIL" => old <= new
  BY <1>1, <1>3
<1>6. v.outcome # "PASS" => new <= old
  BY <1>1, <1>4
<1> QED
  BY <1>2, <1>5, <1>6

\* Support never lowers the rung of a verdict and contradiction never raises
\* it; neither does a failed verifier, and a passed one never lowers it;
\* everything else leaves it where it is.
THEOREM VotesAreMonotone == Spec => VotesCountTheRightWay
<1> DEFINE old == Ladder(verdict.status)
           new == Ladder(verdict'.status)
           Moved == LET rose == Ladder(verdict'.status) > Ladder(verdict.status)
                        fell == Ladder(verdict'.status) < Ladder(verdict.status)
                    IN  /\ \A e \in evidence' \ evidence :
                             /\ e.entailment = "ENTAILS" => ~ fell
                             /\ e.entailment = "CONTRADICTS" => ~ rose
                             /\ e.entailment = "NEUTRAL" => ~ rose /\ ~ fell
                        /\ \A v \in results' \ results :
                             /\ v.outcome = "PASS" => ~ fell
                             /\ v.outcome = "FAIL" => ~ rose
                             /\ v.outcome \notin {"PASS", "FAIL"} => ~ rose /\ ~ fell
<1>1. SourceInv /\ SourceInv' /\ [Next]_vars => [Moved]_vars
  <2> SUFFICES ASSUME SourceInv, SourceInv', Next
               PROVE  Moved
    OBVIOUS
  <2>1. CASE \E e \in Evidence : Retrieve(e)
    <3>1. PICK e \in Evidence : Retrieve(e)
      BY <2>1
    <3>2. /\ evidence' = evidence \cup {e} /\ results' = results
          /\ class' = class /\ execution' = execution
      BY <3>1 DEF Retrieve
    <3>3. verdict' = Verdict(class, execution, results, evidence \cup {e})
      BY <3>2 DEF verdict
    <3>4. class \in Class /\ IsFiniteSet(Lineages(evidence \cup {e}))
      BY <3>2 DEF SourceInv
    <3>5. old \in Int /\ new \in Int
      BY <3>3, <3>4, VerdictRung DEF verdict
    <3>6. /\ e.entailment = "ENTAILS" => old <= new
          /\ e.entailment = "CONTRADICTS" => new <= old
          /\ e.entailment = "NEUTRAL" => new = old
      BY <3>3, <3>4, ItemMoves DEF verdict
    <3>7. evidence' \ evidence \subseteq {e} /\ results' \ results = {}
      BY <3>2
    <3> HIDE DEF old, new
    <3> QED
      BY <3>5, <3>6, <3>7 DEF old, new
  <2>2. CASE \E v \in Results : Return(v)
    <3>1. PICK v \in Results : Return(v)
      BY <2>2
    <3>2. /\ results' = results \cup {v} /\ evidence' = evidence
          /\ class' = class /\ execution' = execution
      BY <3>1 DEF Return
    <3>3. verdict' = Verdict(class, execution, results \cup {v}, evidence)
      BY <3>2 DEF verdict
    <3>4. class \in Class
      BY DEF SourceInv
    <3>5. old \in Int /\ new \in Int
      BY <3>3, <3>4, VerdictRung DEF verdict
    <3>6. /\ v.outcome = "PASS" => old <= new
          /\ v.outcome = "FAIL" => new <= old
          /\ v.outcome \notin {"PASS", "FAIL"} => new = old
      BY <3>3, <3>4, ResultMoves DEF verdict
    <3>7. results' \ results \subseteq {v} /\ evidence' \ evidence = {}
      BY <3>2
    <3> QED
      BY <3>5, <3>6, <3>7
  <2> QED
    BY <2>1, <2>2 DEF Next
<1> QED
  BY <1>1, SourceInvariance, PTL DEF Spec, VotesCountTheRightWay

\* Another copy of a supporting item, of the same source and no better
\* provenance, adds no source.
LEMMA CopyAddsNothing ==
    ASSUME NEW cl \in Class, NEW ex, NEW R, NEW E, NEW e, NEW f \in Supports(E),
           e.entailment = "ENTAILS", e.key # NoKey, f.key = e.key,
           e.provenance => f.provenance
    PROVE  Verdict(cl, ex, R, E \cup {e}).status = Verdict(cl, ex, R, E).status
<1> DEFINE E2 == E \cup {e}
<1>1. Contradicts(E2) = Contradicts(E)
  BY DEF Contradicts
<1>2. /\ Supports(E) \subseteq Supports(E2) /\ Supports(E2) \subseteq Supports(E) \cup {e}
      /\ Supports(E) # {} /\ Supports(E2) # {}
  BY DEF Supports
<1>3. Source(e) = Source(f)
  BY DEF Source
<1> HIDE DEF E2
<1>4. Lineages(Trusted(Supports(E2))) = Lineages(Trusted(Supports(E)))
  <2>1. Lineages(Trusted(Supports(E))) \subseteq Lineages(Trusted(Supports(E2)))
    BY <1>2 DEF Lineages, Trusted
  <2>2. ASSUME NEW g \in Trusted(Supports(E2))
        PROVE  Source(g) \in Lineages(Trusted(Supports(E)))
    <3>1. CASE g \in Supports(E)
      BY <2>2, <3>1 DEF Lineages, Trusted
    <3>2. CASE g = e
      <4>1. f \in Trusted(Supports(E))
        BY <2>2, <3>2 DEF Trusted
      <4> QED
        BY <1>3, <3>2, <4>1 DEF Lineages
    <3> QED
      BY <1>2, <2>2, <3>1, <3>2 DEF Trusted
  <2> QED
    BY <2>1, <2>2 DEF Lineages
<1>5. Signal(R, E2) = Signal(R, E)
  BY <1>1, <1>2, <1>4 DEF Signal, Enough
<1> QED
  BY <1>5, VerdictStatus DEF E2

\* However many copies of a source arrive, under whatever labels, they count
\* as the first one did.
THEOREM CopiesDoNotCount == Spec => OneSourceOneVote
<1> DEFINE Still == \A e \in evidence' \ evidence :
                      (/\ e.entailment = "ENTAILS"
                       /\ \E f \in Supports(evidence) :
                            /\ e.key # NoKey /\ f.key = e.key
                            /\ e.provenance => f.provenance)
                      => verdict'.status = verdict.status
<1>1. SourceInv /\ [Next]_vars => [Still]_vars
  <2> SUFFICES ASSUME SourceInv, Next,
                      NEW e \in evidence' \ evidence, e.entailment = "ENTAILS",
                      NEW f \in Supports(evidence), e.key # NoKey, f.key = e.key,
                      e.provenance => f.provenance
               PROVE  verdict'.status = verdict.status
    OBVIOUS
  <2>1. /\ evidence' = evidence \cup {e} /\ results' = results
        /\ class' = class /\ execution' = execution
    BY DEF Next, Retrieve, Return
  <2>2. verdict' = Verdict(class, execution, results, evidence \cup {e})
    BY <2>1 DEF verdict
  <2>3. class \in Class
    BY DEF SourceInv
  <2> QED
    BY <2>2, <2>3, CopyAddsNothing DEF verdict
<1> QED
  BY <1>1, SourceInvariance, PTL DEF Spec, OneSourceOneVote
=============================================================================
