------------------------------ MODULE Reasoner ------------------------------
(***************************************************************************)
(* The reasoners (glass_ionomer/engine/reasoner.py, llm_reasoner.py): they *)
(* give a claim its structure, name the lane that shall verify it and add  *)
(* advisories.  The claim's wording, concept and unit play no part here.   *)
(***************************************************************************)
EXTENDS FinancialLane, Trust, Sequences

CONSTANT NotFinite  \* a claimed value that is an infinity or no number

\* What a financial claim says, which is also what a review of it covers
\* (financial_binding_subject).
Figure == [value : Int \cup {NotFinite}, fy : Int \cup {None}, fp : FiscalPeriod,
           cik : Nat \cup {None}, ticker : BOOLEAN]

\* How an LLM call ends: no answer; no JSON object with the fields of a
\* financial claim; fields that cannot be converted; a number out of the range
\* of the conversion, or JSON nested too deep for the parser; a figure.
ReplyKind == {"unavailable", "unstructured", "bad_fields", "out_of_range", "figure"}
Reply == [kind : ReplyKind, figure : Figure \cup {None}]
NoReply == [kind |-> "unavailable", figure |-> None]

Proposal(plan, figure, proof, advisories) ==
    [plan |-> plan, figure |-> figure, proof |-> proof, advisories |-> advisories]

\* A figure that is not finite has no canonical form.
FigureCanonical(figure) == figure.value # NotFinite

FigureBound(figure, proof) == BindingTrusted(proof, figure, FigureCanonical(figure))

\* propose_unstructured
ProposeUnstructured(advisories) == Proposal("none", None, NoProof, advisories)

CautionIf(doubt) == IF doubt THEN <<"CAUTION">> ELSE <<>>

\* propose_financial: a missing year and an unreviewed claim get a CAUTION each.
ProposeFinancial(figure, proof, advisories) ==
    Proposal("financial.sec_xbrl", figure, proof,
             advisories \o CautionIf(figure.fy = None)
                        \o CautionIf(~ FigureBound(figure, proof)))

\* propose_logic, for a claim the lane's bounds allow: reviewed or not.
ProposeLogic(reviewed) ==
    Proposal("logic.propositional", None, NoProof, CautionIf(~ reviewed))

\* Mutated form of Raises: the conversion errors are not caught either.
RaisesOnFields(reply) == reply.kind \in {"bad_fields", "out_of_range"}

\* propose_with_llm does not return for these.
Raises(reply) == reply.kind = "out_of_range"

\* Mutated form of ProposeWithLLM: a reply may bring the proof of its claim.
ProposeWithProof(reply) ==
    IF reply.kind # "figure" THEN ProposeUnstructured(<<"CAUTION">>)
    ELSE ProposeFinancial(reply.figure,
                          IssueBinding("semantic", TRUE, reply.figure, TRUE), <<"INFO">>)

\* propose_with_llm
ProposeWithLLM(reply) ==
    IF reply.kind # "figure" THEN ProposeUnstructured(<<"CAUTION">>)
    ELSE ProposeFinancial(reply.figure, NoProof, <<"CAUTION", "INFO">>)
=============================================================================
