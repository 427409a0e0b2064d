------------------------------ MODULE Assurance ------------------------------
(***************************************************************************)
(* One claim on its way through the engine (glass_ionomer/engine): a       *)
(* sentence an LLM structures (assure_text), a figure to be looked up at   *)
(* the SEC (assure_sec_claim) or a propositional claim (assure); then      *)
(* certify, enforce, and the receipt in storage.                           *)
(*                                                                         *)
(* Everything outside may fail: each provider behind the gateway, the      *)
(* ticker lookup, the fetch of the record.                                 *)
(***************************************************************************)
EXTENDS Reasoner, Gateway, Enforcer

CONSTANTS Provider,
          Requests,
          Replies,     \* what an LLM may answer
          Records,     \* the companyfacts a fetch may yield
          TickerCik,   \* the CIK of the ticker
          Key          \* signing keys

\* A request for text brings what the gateway is asked to admit, the providers
\* in order of preference and, maybe, a record; one for the SEC the figure,
\* whether it has a claim id, a record or None, and the figure an operator
\* reviewed or None; one for logic whether the claim is reviewed.
TextRequest == [via : {"text"}, admission : Admission(Provider),
                providers : Seq(Provider), facts : Companyfacts \cup {None}]
SecRequest == [via : {"sec"}, figure : Figure, named : BOOLEAN,
               facts : Companyfacts \cup {None}, reviewed : Figure \cup {None}]
LogicRequest == [via : {"logic"}, reviewed : BOOLEAN]

ASSUME AssuranceAssumption ==
    /\ IsFiniteSet(Provider)
    /\ Requests \subseteq TextRequest \cup SecRequest \cup LogicRequest
    /\ Replies \subseteq Reply \ {NoReply}
    /\ Records \subseteq Companyfacts
    /\ TickerCik \in Nat
    /\ None \notin Key

VARIABLES request,
          pc,        \* "begin", "call", "propose", "resolve", "fetch",
                     \* "certify", "enforce", "done" or "raised"
          chain,     \* the providers not contacted yet
          sent,      \* the providers contacted, in order
          reply,
          cik,       \* the CIK resolved for the request
          facts,     \* the record, None without one
          proposal,
          cert,
          outcome,
          receipt,   \* the receipt as it is stored
          issued     \* the content it was issued with

vars == <<request, pc, chain, sent, reply, cik, facts, proposal, cert, outcome,
          receipt, issued>>

Uncertified == [status |-> "UNVERIFIED", definitive |-> FALSE, modelDerived |-> FALSE,
                record |-> None]

Init ==
    /\ request \in Requests
    /\ pc = "begin"
    /\ chain = <<>> /\ sent = <<>> /\ reply = NoReply
    /\ cik = None /\ facts = None
    /\ proposal = ProposeUnstructured(<<>>)
    /\ cert = Uncertified
    /\ outcome = Base("UNVERIFIED")
    /\ receipt = None /\ issued = None

-----------------------------------------------------------------------------
(* assure_text.  The LLM handed to it admits the prompt and calls through  *)
(* the gateway; when either raises, there is no reply.                     *)

Admit ==
    /\ pc = "begin" /\ request.via = "text"
    /\ facts' = request.facts
    /\ chain' = IF Admitted(request.admission)
                THEN Chain(GatewayDecision(request.admission), request.providers)
                ELSE <<>>
    /\ pc' = IF chain' = <<>> THEN "propose" ELSE "call"
    /\ UNCHANGED <<request, sent, reply, cik, proposal, cert, outcome, receipt, issued>>

\* Mutated form of AfterAnswer: the loop goes on after an answer.
ContinueChain(rest) == rest

AfterAnswer(rest) == <<>>

\* guarded_model_call, guarded_model_call_with_fallback: the next provider
\* answers, or fails and the one after it is tried.
Contact ==
    /\ pc = "call"
    /\ sent' = Append(sent, Head(chain))
    /\ \/ /\ reply' \in Replies
          /\ chain' = AfterAnswer(Tail(chain))
       \/ /\ reply' = NoReply
          /\ chain' = Tail(chain)
    /\ pc' = IF chain' = <<>> THEN "propose" ELSE "call"
    /\ UNCHANGED <<request, cik, facts, proposal, cert, outcome, receipt, issued>>

ProposeText ==
    /\ pc = "propose" /\ request.via = "text"
    /\ IF Raises(reply)
       THEN pc' = "raised" /\ UNCHANGED proposal
       ELSE pc' = "certify" /\ proposal' = ProposeWithLLM(reply)
    /\ UNCHANGED <<request, chain, sent, reply, cik, facts, cert, outcome, receipt, issued>>

-----------------------------------------------------------------------------
(* assure_sec_claim *)

BeginSec ==
    /\ pc = "begin" /\ request.via = "sec"
    /\ cik' = request.figure.cik
    /\ facts' = request.facts
    /\ pc' = CASE request.facts # None -> "propose"
               [] request.facts = None /\ request.figure.cik # None -> "fetch"
               [] request.facts = None /\ request.figure.cik = None ->
                    IF request.figure.ticker THEN "resolve" ELSE "propose"
    /\ UNCHANGED <<request, chain, sent, reply, proposal, cert, outcome, receipt, issued>>

\* _resolve_ticker, ticker_to_cik: a failure yields no CIK.
ResolveTicker ==
    /\ pc = "resolve"
    /\ cik' \in {TickerCik, None}
    /\ pc' = IF cik' = None THEN "propose" ELSE "fetch"
    /\ UNCHANGED <<request, chain, sent, reply, facts, proposal, cert, outcome, receipt, issued>>

\* _fetch_facts, fetch_companyfacts: a failure yields no record.
FetchFacts ==
    /\ pc = "fetch"
    /\ facts' \in Records \cup {None}
    /\ pc' = "propose"
    /\ UNCHANGED <<request, chain, sent, reply, cik, proposal, cert, outcome, receipt, issued>>

Resolved(figure, found) == [figure EXCEPT !.cik = found]

\* Without a claim id the figure is hashed for one, which needs a canonical
\* form of it.
ProposeSec ==
    /\ pc = "propose" /\ request.via = "sec"
    /\ LET figure == Resolved(request.figure, cik)
           proof  == IF request.reviewed = None THEN NoProof
                     ELSE IssueBinding("human", TRUE, request.reviewed,
                                       FigureCanonical(request.reviewed))
       IN  IF request.named \/ FigureCanonical(figure)
           THEN pc' = "certify" /\ proposal' = ProposeFinancial(figure, proof, <<>>)
           ELSE pc' = "raised" /\ UNCHANGED proposal
    /\ UNCHANGED <<request, chain, sent, reply, cik, facts, cert, outcome, receipt, issued>>

BeginLogic ==
    /\ pc = "begin" /\ request.via = "logic"
    /\ proposal' = ProposeLogic(request.reviewed)
    /\ pc' = "certify"
    /\ UNCHANGED <<request, chain, sent, reply, cik, facts, cert, outcome, receipt, issued>>

-----------------------------------------------------------------------------
(* certify *)

\* Mutated form of LaneClaim: that there is a proof is enough.
LaneClaimProved(p) ==
    [value |-> p.figure.value, fy |-> p.figure.fy, fp |-> p.figure.fp, cik |-> p.figure.cik,
     ticker |-> p.figure.ticker, bound |-> p.proof # NoProof]

LaneClaim(p) ==
    [value |-> p.figure.value, fy |-> p.figure.fy, fp |-> p.figure.fp, cik |-> p.figure.cik,
     ticker |-> p.figure.ticker, bound |-> FigureBound(p.figure, p.proof)]

\* What the lanes may say of the proposal: the financial lane what it computes,
\* the logic lane anything definitive of a reviewed claim only.  An exception
\* in a lane, a missing record and a missing plan leave the claim unverified.
LaneStatuses ==
    CASE proposal.plan = "none" -> {"UNVERIFIED"}
      [] proposal.plan = "financial.sec_xbrl" ->
           IF facts = None \/ proposal.figure.value = NotFinite THEN {"UNVERIFIED"}
           ELSE {VerifyFinancialClaim(LaneClaim(proposal), facts).status}
      [] proposal.plan = "logic.propositional" ->
           {"UNVERIFIED"} \cup IF request.reviewed THEN {"VERIFIED", "REFUTED"} ELSE {}

Certify ==
    /\ pc = "certify"
    /\ \E status \in LaneStatuses :
         cert' = [Uncertified EXCEPT !.status = status,
                                     !.definitive = status \in {"VERIFIED", "REFUTED"},
                                     !.record = facts]
    /\ pc' = "enforce"
    /\ UNCHANGED <<request, chain, sent, reply, cik, facts, proposal, outcome, receipt, issued>>

\* enforce, with or without a signing key.
EnforceClaim ==
    /\ pc = "enforce"
    /\ outcome' = Enforce(cert, proposal.advisories)
    /\ \E key \in Key \cup {None} :
         receipt' = Receipt(proposal.plan, cert, proposal.advisories, outcome', key, None)
    /\ issued' = receipt'.content
    /\ pc' = "done"
    /\ UNCHANGED <<request, chain, sent, reply, cik, facts, proposal, cert>>

\* A receipt in storage is altered: a field changes, its hash is computed
\* anew, or its signature is lost.
Alter ==
    /\ pc = "done"
    /\ receipt' \in {[receipt EXCEPT !.content.decision = "ALLOW"],
                     [receipt EXCEPT !.hash = receipt.content],
                     [receipt EXCEPT !.signatures = {}]}
    /\ UNCHANGED <<request, pc, chain, sent, reply, cik, facts, proposal, cert, outcome, issued>>

Work == \/ Admit \/ Contact \/ ProposeText
        \/ BeginSec \/ ResolveTicker \/ FetchFacts \/ ProposeSec
        \/ BeginLogic \/ Certify \/ EnforceClaim

Next == Work \/ Alter

Spec == Init /\ [][Next]_vars /\ WF_vars(Work)

-----------------------------------------------------------------------------
(* Properties *)

TypeOK ==
    /\ pc \in {"begin", "call", "propose", "resolve", "fetch", "certify", "enforce",
               "done", "raised"}
    /\ chain \in Seq(Provider) /\ sent \in Seq(Provider)
    /\ pc = "call" => chain # <<>>
    /\ reply \in Replies \cup {NoReply}
    /\ cik \in Nat \cup {None}
    /\ facts \in Companyfacts \cup {None}
    /\ proposal.advisories \in Seq(Severity)
    /\ cert.status \in Status /\ outcome \in Rulings
    /\ IF pc = "done" THEN DOMAIN receipt = {"content", "hash", "signatures"}
                      ELSE receipt = None

MayFallBack == request.admission.fallback /\ request.admission.residency # "regulated"

\* Which providers see the prompt: allowed ones only, in the order of
\* preference, none after one has answered, a second one only with permission
\* and never for regulated data ("a transient failure can never silently cross
\* a residency boundary"); with permission, all of them before giving up.
EgressWithinDecision ==
    /\ TypeOK
    /\ request.via # "text" => sent = <<>>
    /\ request.via = "text" =>
         /\ \A i \in DOMAIN sent : sent[i] \in request.admission.allowed
         /\ \A i, j \in DOMAIN sent : i < j =>
              \E k, l \in DOMAIN request.providers :
                k < l /\ request.providers[k] = sent[i] /\ request.providers[l] = sent[j]
         /\ pc = "call" => reply = NoReply
         /\ ~ MayFallBack => Len(sent) <= 1
         /\ pc \in {"propose", "certify", "enforce", "done"} /\ reply = NoReply /\ MayFallBack =>
              \A i \in DOMAIN request.providers :
                request.providers[i] \in request.admission.allowed =>
                  \E j \in DOMAIN sent : sent[j] = request.providers[i]

\* Whatever an LLM answers, and with whatever record, a sentence it structured
\* is neither verified nor refuted and never released ("the LLM cannot mint a
\* status or raise a release"), and neither is one it could not structure.
TextIsNeverReleased ==
    pc = "done" /\ request.via = "text" =>
        /\ cert.status \notin {"VERIFIED", "REFUTED"}
        /\ outcome.decision \notin Released

\* A definitive status was reached over a record the system fetched for the
\* CIK the ticker resolved to, by a claim reviewed with that very CIK; a lookup
\* or a fetch that failed leaves nothing to release.
DefinitiveIsReviewed ==
    pc = "done" /\ (cert.status \in {"VERIFIED", "REFUTED"} \/ outcome.decision \in Released) =>
        /\ outcome.decision = IF cert.status = "VERIFIED" THEN "ALLOW" ELSE "REFUSE"
        /\ request.via \in {"sec", "logic"}
        /\ request.via = "logic" => request.reviewed
        /\ request.via = "sec" =>
             /\ facts # None /\ facts.trusted
             /\ request.figure.ticker \/ cik # None => cik = facts.cik
             /\ request.reviewed = [request.figure EXCEPT !.cik = cik]
             /\ cert.status = "VERIFIED" =>
                  \E f \in facts.rows : Equal(request.figure.value, f.value)

\* A receipt that verifies with a key says what the engine decided, however it
\* was altered in storage; in audit mode none verifies without a key.
ReceiptShowsAlteration ==
    pc = "done" =>
        /\ \A key \in Key, required \in BOOLEAN :
             VerifyReceipt(receipt, key, required, None) => receipt.content = issued
        /\ ~ VerifyReceipt(receipt, None, TRUE, None)

\* The engine always comes to a decision, whatever fails around it: it only
\* raises for a number no float can hold or a reply nested too deep, and for a
\* figure that is not finite and has no claim id.
ComesToADecision ==
    <>(\/ pc = "done"
       \/ pc = "raised" /\ request.via = "text" /\ reply.kind = "out_of_range"
       \/ pc = "raised" /\ request.via = "sec" /\ request.figure.value = NotFinite)
=============================================================================
