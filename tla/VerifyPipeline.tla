--------------------------- MODULE VerifyPipeline ---------------------------
(***************************************************************************)
(* One call of verify_text (glass_ionomer/verify/pipeline.py): the text is *)
(* made a claim (Verifiers), leads are resolved to records (Resolver),     *)
(* records admitted as evidence items (admissibility.py), the verifiers    *)
(* that apply are run, and decide_status (DecisionRule) decides.           *)
(*                                                                         *)
(* Outside of the code are the sources, which may fail to be fetched at    *)
(* any call, and the entailment function, which may raise or say anything  *)
(* of a text.                                                              *)
(***************************************************************************)
EXTENDS Verifiers, Resolver

CONSTANTS Requests,     \* the calls made
          Now, MaxAge   \* the time of the call and the age evidence may have

\* entailment: an entailment function is passed.
Request(r) ==
    /\ Text(r.text)
    /\ r.asked \in Seq(Lead \cup EvidenceRecord)
    /\ r.verifiers \subseteq Verifier
    /\ r.resolver \in Resolvers
    /\ {r.entailment, r.requireProvenance} \subseteq BOOLEAN

ASSUME PipelineAssumption ==
    /\ Now \in Int /\ MaxAge \in Nat
    /\ None \notin Forms
    /\ \A r \in Requests : Request(r)

VARIABLES request,       \* the arguments of the call
          pc,
          records,       \* one for each item of the request
          inadmissible,  \* the leads that failed, by their place, and why
          items,         \* the evidence
          returned,      \* the results of the verifiers
          decision

vars == <<request, pc, records, inadmissible, items, returned, decision>>

text == request.text
asked == request.asked

Init ==
    /\ request \in Requests
    /\ pc = "resolve"
    /\ records = <<>> /\ inadmissible = <<>>
    /\ items = {} /\ returned = {}
    /\ decision = None

-----------------------------------------------------------------------------
(* resolve *)

\* The item whose turn it is.
Place == Len(records) + 1
Resolving == pc = "resolve" /\ Place <= Len(asked)
IsLead(i) == asked[i].kind = "lead"

PassThrough ==
    /\ Resolving /\ ~ IsLead(Place)
    /\ records' = Append(records, asked[Place])
    /\ UNCHANGED <<request, pc, inadmissible, items, returned, decision>>

Disclosed(reason) == Append(inadmissible, [place |-> Place, reason |-> reason])

\* Mutated form of Unresolved: the lead is disclosed but leaves no record.
UnresolvedSkipped(found, says) ==
    /\ Resolving /\ IsLead(Place)
    /\ found \in {None, Raised} \cap Find(request.resolver, asked[Place])
    /\ inadmissible' = Disclosed(IF found = Raised THEN "resolver_error" ELSE "unknown_locator")
    /\ UNCHANGED <<request, pc, records, items, returned, decision>>

\* There is no resolver, or it finds nothing, or it raises: a placeholder
\* takes the place of the lead.
Unresolved(found, says) ==
    /\ Resolving /\ IsLead(Place)
    /\ found \in {None, Raised} \cap Find(request.resolver, asked[Place])
    /\ inadmissible' = Disclosed(IF found = Raised THEN "resolver_error" ELSE "unknown_locator")
    /\ records' = Append(records, UnresolvedRecord(asked[Place], says))
    /\ UNCHANGED <<request, pc, items, returned, decision>>

Resolve ==
    /\ Resolving /\ IsLead(Place)
    /\ \E source \in Find(request.resolver, asked[Place]) \ {None, Raised} :
         /\ records' = Append(records, RecordFromResolved(asked[Place], source,
                                           IsTrustedResolver(request.resolver, source.by)))
         /\ inadmissible' = IF source.binds THEN inadmissible ELSE Disclosed("binding_mismatch")
    /\ UNCHANGED <<request, pc, items, returned, decision>>

ResolveDone ==
    /\ pc = "resolve" /\ Place > Len(asked)
    /\ pc' = "admit"
    /\ UNCHANGED <<request, records, inadmissible, items, returned, decision>>

-----------------------------------------------------------------------------
(* admit *)

\* Mutated form of Fresh: a date in the future counts as recent.
FreshByAge(r) == Now - r.published <= MaxAge

Fresh(r) == r.published <= Now /\ Now - r.published <= MaxAge

QuoteBound(r) == r.quote \in {"none", "span"}

\* The stance that is left: an unbound quote neutralises it, and so does the
\* want of a bound quote when the stance is a model's on a resolved source.
Stance(r) ==
    LET stance == IF request.entailment THEN r.says ELSE r.stance
    IN  IF \/ ~ QuoteBound(r)
           \/ r.resolved /\ request.entailment /\ r.quote # "span"
        THEN "NEUTRAL"
        ELSE stance

\* Mutated form of ModelStance: only the record's own mark is looked at.
ModelStanceAsMarked(r) == Stance(r) # "NEUTRAL" /\ r.modelStance

ModelStance(r) == Stance(r) # "NEUTRAL" /\ (r.modelStance \/ request.entailment)

AdmitRecord(r) ==
    [lineage     |-> r.lineage,
     key         |-> r.identity,
     entailment  |-> Stance(r),
     strength    |-> r.strength,
     applicable  |-> r.applicable /\ (r.proved \/ ~ request.requireProvenance),
     integrity   |-> r.hashed,
     fresh       |-> Fresh(r),
     quoteBound  |-> QuoteBound(r),
     modelStance |-> ModelStance(r),
     provenance  |-> r.proved]

\* A date without a time zone cannot be subtracted from now, and an evidence item
\* takes no strength but one in its range.
Admits == \A i \in DOMAIN records :
              records[i].published # Naive /\ records[i].strength # OutOfRange

Admit ==
    /\ pc = "admit" /\ Admits
    /\ items' = {AdmitRecord(records[i]) : i \in DOMAIN records}
    /\ pc' = "verify"
    /\ UNCHANGED <<request, records, inadmissible, returned, decision>>

\* A record has such a date or strength, or the entailment function raises:
\* nothing catches it and the call ends without a decision.
AdmitRaises ==
    /\ pc = "admit"
    /\ ~ Admits \/ (request.entailment /\ records # <<>>)
    /\ pc' = "raised"
    /\ UNCHANGED <<request, records, inadmissible, items, returned, decision>>

-----------------------------------------------------------------------------
(* verify and decide *)

VerifyAndDecide ==
    /\ pc = "verify"
    /\ returned' = Results(request.verifiers, text)
    /\ decision' = Verdict(Classify(text), "OK", returned', items)
    /\ pc' = "done"
    /\ UNCHANGED <<request, records, inadmissible, items>>

Next ==
    \/ PassThrough
    \/ \E found \in {None, Raised}, says \in Entailment : Unresolved(found, says)
    \/ Resolve
    \/ ResolveDone
    \/ Admit
    \/ AdmitRaises
    \/ VerifyAndDecide

Spec == Init /\ [][Next]_vars

-----------------------------------------------------------------------------
(* Properties *)

TypeOK ==
    /\ pc \in {"resolve", "admit", "verify", "done", "raised"}
    /\ records \in Seq(EvidenceRecord) /\ Len(records) <= Len(asked)
    /\ pc # "resolve" => Len(records) = Len(asked)
    /\ Len(inadmissible) <= Len(records)
    /\ items \subseteq EvidenceItem
    /\ returned \subseteq VerifierResult
    /\ decision # None => decision \in DecisionForms(Classify(text))
    /\ decision # None <=> pc = "done"

\* The verdict of decide_status had only the items at these places counted.
VerdictOn(places) ==
    Verdict(Classify(text), "OK", returned, {AdmitRecord(records[i]) : i \in places})

Failed == {inadmissible[k].place : k \in DOMAIN inadmissible}

\* A lead that could not be resolved, or whose quote its resolver does not find
\* in the source (all but one of the caller's own do look), is disclosed and is
\* no evidence: the decision is the same without it, though
\* the entailment function reads the empty text of its placeholder
\* (DESIGN_PRINCIPLES.md: a failure "is disclosed. It never becomes negative
\* evidence").
FailureIsNoEvidence ==
    /\ TypeOK
    /\ pc = "done" =>
         /\ decision = VerdictOn(DOMAIN records \ Failed)
         /\ \A i \in DOMAIN records \ Failed :
              IsLead(i) => /\ records[i].resolved
                           /\ request.resolver # "own" => asked[i].quote # "absent"

\* A lead declares nothing: with no entailment function to read the sources,
\* the decision is what the caller's own records give ("A Lead's stance is
\* advisory ONLY and never reaches the admitted item").
LeadsDeclareNothing ==
    pc = "done" /\ ~ request.entailment =>
        decision = VerdictOn({i \in DOMAIN records : ~ IsLead(i)})

\* A positive status is earned: by a definitive pass of one of the code's own
\* verifiers, or by stances the caller declared, or else it is flagged as the
\* model's word only, for the enforcer's floor.
PositiveIsEarned ==
    pc = "done" /\ decision.status \in Positive =>
        \/ \E v \in request.verifiers \cap {"arith", "registry"} :
             AppliesTo(v, text) /\ Definitive({Verify(v, text)}, "PASS", TRUE) # {}
        \/ decision.modelDerived
        \/ /\ ~ request.entailment
           /\ \E i \in DOMAIN asked : ~ IsLead(i) /\ asked[i].stance = "ENTAILS"

\* Where the source of a lead is found, when it is.
InCatalog(lead) == request.resolver # "http" /\ Catalog[lead.locator] # None

\* What the source itself says its date is, or the system's date for one that
\* does not say; what is the caller's, a record or the find of a function, has
\* the date it carries.
SourceDate(i) ==
    LET lead == asked[i]
    IN  CASE ~ IsLead(i) -> asked[i].published
          [] IsLead(i) /\ request.resolver = "own" -> records[i].published
          [] IsLead(i) /\ request.resolver # "own" /\ InCatalog(lead) ->
               Catalog[lead.locator].published
          [] OTHER -> IF Web[lead.locator].lastModified \in {None, Raised} THEN DefaultPublished
                      ELSE Web[lead.locator].lastModified

\* Evidence counts within its age only, by the source's own date: what is too
\* old, dated in the future or not dated has no influence on the decision
\* ("absence/forgery of a date must never manufacture recency").
OnlyTimelyEvidence ==
    pc = "done" =>
        decision = VerdictOn({i \in DOMAIN records \ Failed :
                                SourceDate(i) \in (Now - MaxAge)..Now})

\* The document at a locator: its number if it has one, else its address.
DocumentOf(lead) ==
    IF InCatalog(lead) THEN Catalog[lead.locator].identity
    ELSE LET page == Web[lead.locator]
         IN  IF page.canonical # NoKey THEN page.canonical ELSE page.url

\* The places of the leads a trusted resolver fetched, and of the records the
\* caller passed with a proof, of those that support the claim.
Supporting == {i \in DOMAIN asked : AdmitRecord(records[i]) \in Supports(items)}
Fetched == {i \in Supporting \ Failed : IsLead(i) /\ request.resolver # "own"}
Vouched == {i \in Supporting : ~ IsLead(i) /\ asked[i].proved}

\* Corroboration takes distinct documents: as many as the policy asks for
\* support the claim and were fetched by a trusted resolver or are proved for
\* records the caller passed, however many leads, labels and addresses point at
\* them.  A label counts for a document only where the operator proved a record
\* that names none.
CorroborationTakesDocuments ==
    pc = "done" /\ decision.status = "CORROBORATED" =>
        LET documents == {DocumentOf(asked[i]) : i \in Fetched}
                         \cup {asked[i].identity : i \in {j \in Vouched : asked[j].identity # NoKey}}
            labels == {asked[i].lineage : i \in {j \in Vouched : asked[j].identity = NoKey}}
        IN  Cardinality(documents) + Cardinality(labels) >= MinLineages

\* A definitive verdict on a lookup is the word of a record the operator
\* issued.  One on a relation is what exact arithmetic says of the text as it
\* was written ("Integers become rationals too, so int/int division stays
\* exact"); not claimed of relations that divide a floor division.
DefinitiveIsTrue ==
    pc = "done" /\ decision.status \in {"VERIFIED", "REFUTED"} =>
        IF text.form = "lookup"
        THEN LET record == Registry[text.key]
             IN  /\ record # Absent
                 /\ record.trusted /\ record.authoritative /\ record.unaltered
                 /\ decision.status = "VERIFIED" <=> record.value = text.expected
        ELSE /\ text.form = "relation" /\ text.canonical
             /\ \/ \E i \in DOMAIN text.relation.operands :
                     DividesFloor[text.relation.operands[i]]
                \/ decision.status = "VERIFIED" <=> IsTrue(text.relation)

\* README.md: relations are decided by "Exact rational evaluation (no float
\* tolerance)", whatever operators they use.
RelationIsExact ==
    pc = "done" /\ text.form = "relation" /\ decision.status \in {"VERIFIED", "REFUTED"} =>
        (decision.status = "VERIFIED" <=> IsTrue(text.relation))
=============================================================================
