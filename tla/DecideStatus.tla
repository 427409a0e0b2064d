---------------------------- MODULE DecideStatus ----------------------------
(***************************************************************************)
(* decide_status (glass_ionomer/verify/status.py) over growing inputs.     *)
(*                                                                         *)
(* Retrieval and verification deliver items one at a time and in any       *)
(* order; the verdict is what decide_status would say of those delivered   *)
(* so far, so a step of this specification compares the verdict with and   *)
(* without one item.                                                       *)
(***************************************************************************)
EXTENDS DecisionRule

CONSTANTS Evidence,   \* the EvidenceItems that may be retrieved
          Results,    \* the VerifierResults that may be returned
          Executions  \* the execution states the caller may pass

ASSUME DecideAssumption ==
    /\ Evidence \subseteq EvidenceItem
    /\ Results \subseteq VerifierResult
    /\ Executions \subseteq ExecutionState

-----------------------------------------------------------------------------
VARIABLES class,      \* the claim's verifiability class
          execution,  \* the execution_state the caller passes
          evidence,   \* the items retrieved so far
          results     \* the results returned so far

vars == <<class, execution, evidence, results>>

verdict == Verdict(class, execution, results, evidence)

Init ==
    /\ class \in Class
    /\ execution \in Executions
    /\ evidence = {}
    /\ results = {}

Retrieve(e) ==
    /\ e \notin evidence
    /\ evidence' = evidence \cup {e}
    /\ UNCHANGED <<class, execution, results>>

Return(v) ==
    /\ v \notin results
    /\ results' = results \cup {v}
    /\ UNCHANGED <<class, execution, evidence>>

Next ==
    \/ \E e \in Evidence : Retrieve(e)
    \/ \E v \in Results : Return(v)

Spec == Init /\ [][Next]_vars

-----------------------------------------------------------------------------
(* Properties *)

\* Every combination of results and evidence yields one of the forms a claim
\* of its class can have, the ones StatusLifecycle starts from: the ceiling
\* holds, only a negative or undecided status goes without SUPPORTS, and a
\* positive status is never contested.
TypeOK ==
    /\ evidence \subseteq Evidence
    /\ results \subseteq Results
    /\ verdict \in DecisionForms(class)

\* Model agreement is never evidence status: taking away everything an LLM
\* verifier returned leaves the verdict as it is ("The non-LLM rule").
LLMHasNoVote ==
    verdict = Verdict(class, execution, {v \in results : ~ v.isLLM}, evidence)

\* Evidence that failed integrity, freshness or scope has no influence, in
\* either direction ("Inadmissible evidence is dropped, not silently used").
InadmissibleHasNoVote ==
    verdict = Verdict(class, execution, results,
                      {e \in evidence : e.applicable /\ e.integrity /\ e.fresh})

\* One more item moves the verdict only the way it leans: support never
\* lowers the rung, contradiction and a failed verifier never raise it, and
\* a passed one never lowers it.
VotesCountTheRightWay ==
    [][LET rose == Ladder(verdict'.status) > Ladder(verdict.status)
           fell == Ladder(verdict'.status) < Ladder(verdict.status)
       IN  /\ \A e \in evidence' \ evidence :
                /\ e.entailment = "ENTAILS" => ~ fell
                /\ e.entailment = "CONTRADICTS" => ~ rose
                /\ e.entailment = "NEUTRAL" => ~ rose /\ ~ fell
           /\ \A v \in results' \ results :
                /\ v.outcome = "PASS" => ~ fell
                /\ v.outcome = "FAIL" => ~ rose
                /\ v.outcome \notin {"PASS", "FAIL"} => ~ rose /\ ~ fell]_vars

\* Another copy of a source that already supports the claim, under whatever
\* lineage label it arrives, does not move the status ("distinct independent
\* source lineages"), unless it is the copy whose provenance is proved.
OneSourceOneVote ==
    [][\A e \in evidence' \ evidence :
         (/\ e.entailment = "ENTAILS"
          /\ \E f \in Supports(evidence) :
               /\ e.key # NoKey /\ f.key = e.key
               /\ e.provenance => f.provenance)
         => verdict'.status = verdict.status]_vars
=============================================================================
