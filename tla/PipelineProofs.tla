--------------------------- MODULE PipelineProofs ---------------------------
(***************************************************************************)
(* One call of verify_text for any request, any sources, any failures of   *)
(* them, any entailment function and any policy.                           *)
(***************************************************************************)
EXTENDS VerifyPipeline, EvidenceStatusProofs, SequenceTheorems

-----------------------------------------------------------------------------
(* What resolvers find *)

\* The date of the source of a lead, by the resolver asked.
DateOf(resolver, lead) ==
    IF resolver # "http" /\ Catalog[lead.locator] # None THEN Catalog[lead.locator].published
    ELSE IF Web[lead.locator].lastModified \in {None, Raised} THEN DefaultPublished
    ELSE Web[lead.locator].lastModified

\* The document at the address of a lead, by the resolver asked.
PageIdentity(lead) ==
    IF Web[lead.locator].canonical # NoKey THEN Web[lead.locator].canonical
    ELSE Web[lead.locator].url
IdentityOf(resolver, lead) ==
    IF resolver # "http" /\ Catalog[lead.locator] # None THEN Catalog[lead.locator].identity
    ELSE PageIdentity(lead)

\* What is found has a type, the document and its date are the source's, and the
\* quote is the lead's.
Genuine(source, lead, date, document) ==
    /\ source \in ResolvedSource
    /\ source.published = date
    /\ source.identity = document /\ document \in Nat
    /\ source.binds => lead.quote # "absent"

LEMMA FoundType ==
    ASSUME NEW lead \in Lead, NEW entry, NEW published \in Date,
           NEW by \in {"inmemory", "http", "resolver-chain"},
           entry.identity \in Nat, entry.says \in Entailment
    PROVE  Found(lead, entry, published, by) \in ResolvedSource
<1>1. Binds(lead) \in BOOLEAN
  BY DEF Binds
<1> QED
  BY <1>1 DEF Found, ResolvedSource, Lead

LEMMA CatalogGenuine ==
    ASSUME NEW lead \in Lead, NEW source \in InMemory(lead) \ {None, Raised}
    PROVE  /\ Catalog[lead.locator] # None
           /\ Genuine(source, lead, Catalog[lead.locator].published,
                      Catalog[lead.locator].identity)
<1>1. lead.locator \in DOMAIN Catalog
  BY DEF Lead
<1> DEFINE entry == Catalog[lead.locator]
<1>2. entry \notin {None, Raised} /\ source = Found(lead, entry, entry.published, "inmemory")
  BY DEF InMemory
<1>3. entry \in Entry
  BY <1>1, <1>2, ResolverAssumption
<1> HIDE DEF entry
<1>4. Genuine(source, lead, entry.published, entry.identity)
  <2>1. source \in ResolvedSource
    BY <1>2, <1>3, FoundType DEF Entry
  <2> QED
    BY <1>2, <1>3, <2>1 DEF Genuine, Found, Entry, Binds
<1> QED
  BY <1>2, <1>4 DEF entry

\* Nothing is found in the catalog only for want of an entry.
LEMMA CatalogSilent ==
    ASSUME NEW lead \in Lead, None \in InMemory(lead)
    PROVE  Catalog[lead.locator] = None
<1> DEFINE entry == Catalog[lead.locator]
<1> SUFFICES ASSUME entry \notin {None, Raised}
             PROVE  FALSE
  BY DEF InMemory
<1>1. entry \in Entry
  BY ResolverAssumption DEF Lead
<1>2. None = Found(lead, entry, entry.published, "inmemory")
  BY DEF InMemory
<1> HIDE DEF entry
<1>3. Found(lead, entry, entry.published, "inmemory") \in ResolvedSource
  BY <1>1, FoundType DEF Entry
<1> QED
  BY <1>2, <1>3, ResolverAssumption

LEMMA PageGenuine ==
    ASSUME NEW lead \in Lead, NEW source \in Http(lead) \ {None, Raised}
    PROVE  Genuine(source, lead,
                   IF Web[lead.locator].lastModified \in {None, Raised}
                   THEN DefaultPublished ELSE Web[lead.locator].lastModified,
                   PageIdentity(lead))
<1> DEFINE w == Web[lead.locator]
           page == Fetch(lead.locator)
           date == IF w.lastModified \in {None, Raised} THEN DefaultPublished
                   ELSE w.lastModified
<1>1. lead.locator \in DOMAIN Web
  BY ResolverAssumption DEF Lead
<1>2. page # None /\ source = Found(lead, page, PublishedOrDefault(page, lead), "http")
  BY DEF Http
<1>3. w \in Response /\ page = [identity |-> CanonicalIdentity(w), published |-> PublishedBy(w),
                                says |-> w.says]
  <2>1. Fetchable(w)
    BY <1>2 DEF Fetch
  <2> QED
    BY <1>1, <2>1, ResolverAssumption DEF Fetch, Fetchable
<1> HIDE DEF w, page
<1>4. page.identity \in Nat /\ page.says \in Entailment /\ page.published = PublishedBy(w)
      /\ page.identity = PageIdentity(lead)
  BY <1>3 DEF CanonicalIdentity, Response, PageIdentity, w
<1>5. PublishedOrDefault(page, lead) = date /\ date \in Date
  BY <1>3, <1>4, ResolverAssumption DEF PublishedOrDefault, PublishedBy, Response, Date
<1> HIDE DEF date
<1>6. Genuine(source, lead, date, PageIdentity(lead))
  <2>1. source \in ResolvedSource
    BY <1>2, <1>4, <1>5, FoundType
  <2> QED
    BY <1>2, <1>4, <1>5, <2>1 DEF Genuine, Found, Binds
<1> QED
  BY <1>6 DEF date, w

\* A chain answers in its own name and changes nothing else.
LEMMA Renamed ==
    ASSUME NEW f, NEW lead, NEW date, NEW document, Genuine(f, lead, date, document),
           NEW source, source = [f EXCEPT !.by = "resolver-chain"]
    PROVE  Genuine(source, lead, date, document)
<1>1. f \in ResolvedSource
  BY DEF Genuine
<1>2. /\ source \in ResolvedSource
      /\ source.identity = f.identity /\ source.published = f.published
      /\ source.binds = f.binds
  BY <1>1 DEF ResolvedSource
<1> QED
  BY <1>2 DEF Genuine

LEMMA FoundGenuine ==
    ASSUME NEW lead \in Lead, NEW resolver \in Resolvers,
           NEW source \in Find(resolver, lead) \ {None, Raised}
    PROVE  /\ source \in ResolvedSource
           /\ resolver # "own" =>
                Genuine(source, lead, DateOf(resolver, lead), IdentityOf(resolver, lead))
<1>1. CASE resolver = "none"
  BY <1>1 DEF Find
<1>2. CASE resolver = "inmemory"
  <2>1. source \in InMemory(lead) \ {None, Raised}
    BY <1>2 DEF Find
  <2>2. Genuine(source, lead, DateOf(resolver, lead), IdentityOf(resolver, lead))
    BY <1>2, <2>1, CatalogGenuine DEF DateOf, IdentityOf
  <2> QED
    BY <2>2 DEF Genuine
<1>5. CASE resolver = "own"
  BY <1>5, ResolverAssumption DEF Find, Own
<1>3. CASE resolver = "http"
  <2>1. source \in Http(lead) \ {None, Raised}
    BY <1>3 DEF Find
  <2>2. Genuine(source, lead, DateOf(resolver, lead), IdentityOf(resolver, lead))
    BY <1>3, <2>1, PageGenuine DEF DateOf, IdentityOf
  <2> QED
    BY <2>2 DEF Genuine
<1>4. CASE resolver = "resolver-chain"
  <2> DEFINE own(f) == IF f \in {None, Raised} THEN f ELSE [f EXCEPT !.by = "resolver-chain"]
  <2>1. Find(resolver, lead) = Chain(lead)
    BY <1>4 DEF Find
  <2>2. CASE \E f \in InMemory(lead) \ {None} : source = own(f)
    <3>1. PICK f \in InMemory(lead) \ {None, Raised} : source = [f EXCEPT !.by = "resolver-chain"]
      BY <2>2
    <3>2. /\ Catalog[lead.locator] # None
          /\ Genuine(f, lead, Catalog[lead.locator].published, Catalog[lead.locator].identity)
      BY <3>1, CatalogGenuine
    <3>3. Genuine(source, lead, Catalog[lead.locator].published, Catalog[lead.locator].identity)
      BY <3>1, <3>2, Renamed
    <3> QED
      BY <1>4, <3>2, <3>3 DEF Genuine, DateOf, IdentityOf
  <2>3. CASE None \in InMemory(lead) /\ \E f \in Http(lead) : source = own(f)
    <3> DEFINE date == IF Web[lead.locator].lastModified \in {None, Raised}
                       THEN DefaultPublished ELSE Web[lead.locator].lastModified
    <3>1. PICK f \in Http(lead) \ {None, Raised} : source = [f EXCEPT !.by = "resolver-chain"]
      BY <2>3
    <3>2. Genuine(f, lead, date, PageIdentity(lead))
      BY <3>1, PageGenuine
    <3>3. Genuine(source, lead, date, PageIdentity(lead))
      BY <3>1, <3>2, Renamed
    <3>4. Catalog[lead.locator] = None
      BY <2>3, CatalogSilent
    <3> QED
      BY <3>3, <3>4 DEF Genuine, DateOf, IdentityOf
  <2> QED
    BY <2>1, <2>2, <2>3 DEF Chain
<1> QED
  BY <1>1, <1>2, <1>3, <1>4, <1>5 DEF Resolvers

-----------------------------------------------------------------------------
(* The invariant *)

\* What the record at a place owes to the item it stands for; failed: the item
\* is a lead that was disclosed.
Faithful(i, r, failed) ==
    /\ ~ IsLead(i) => r = asked[i] /\ ~ failed
    /\ IsLead(i) => r.stance = "NEUTRAL"
    /\ failed => r.applicable = FALSE
    /\ IsLead(i) /\ ~ failed => r.resolved /\ (r.proved => request.resolver # "own")
    /\ IsLead(i) /\ ~ failed /\ request.resolver # "own" =>
         /\ asked[i].quote # "absent"
         /\ r.published = SourceDate(i)
         /\ r.identity = DocumentOf(asked[i]) /\ DocumentOf(asked[i]) \in Nat

Recorded ==
    /\ records \in Seq(EvidenceRecord) /\ Len(records) <= Len(asked)
    /\ pc # "resolve" => Len(records) = Len(asked)
    /\ \A i \in 1..Len(records) : Faithful(i, records[i], i \in Failed)

Disclosures ==
    /\ inadmissible \in Seq([place : Nat, reason : {"unknown_locator", "resolver_error",
                                                    "binding_mismatch"}])
    /\ Len(inadmissible) <= Len(records)
    /\ Failed \subseteq 1..Len(records)

Admitted ==
    IF pc \in {"verify", "done"}
    THEN Admits /\ items = {AdmitRecord(records[i]) : i \in DOMAIN records}
    ELSE items = {}

Decided ==
    IF pc = "done"
    THEN /\ returned = Results(request.verifiers, text)
         /\ decision = VerdictOn(DOMAIN records)
    ELSE returned = {} /\ decision = None

IInv ==
    /\ request \in Requests
    /\ pc \in {"resolve", "admit", "verify", "done", "raised"}
    /\ Recorded /\ Disclosures /\ Admitted /\ Decided

LEMMA AppendFacts ==
    ASSUME NEW S, NEW q \in Seq(S), NEW e \in S
    PROVE  /\ Append(q, e) \in Seq(S) /\ Len(Append(q, e)) = Len(q) + 1 /\ Len(q) \in Nat
           /\ DOMAIN Append(q, e) = 1..(Len(q) + 1) /\ DOMAIN q = 1..Len(q)
           /\ \A k \in 1..Len(q) : Append(q, e)[k] = q[k]
           /\ Append(q, e)[Len(q) + 1] = e
  OBVIOUS

LEMMA InitIInv == Init => IInv
<1> SUFFICES ASSUME Init
             PROVE  IInv
  OBVIOUS
<1>1. Len(asked) \in Nat
  BY PipelineAssumption DEF Init, Request, asked
<1>2. records \in Seq(EvidenceRecord) /\ Len(records) = 0 /\ Failed = {}
  BY DEF Init, Failed
<1>3. Recorded
  BY <1>1, <1>2 DEF Init, Recorded
<1>4. Disclosures
  BY <1>2 DEF Init, Disclosures
<1> QED
  BY <1>3, <1>4 DEF Init, IInv, Admitted, Decided

\* One more item is resolved, to r; reason: why it failed, if it did.
LEMMA RecordKeeps ==
    ASSUME IInv, Resolving, NEW r \in EvidenceRecord, NEW failed \in BOOLEAN,
           NEW reason \in {"unknown_locator", "resolver_error", "binding_mismatch"},
           records' = Append(records, r),
           inadmissible' = IF failed THEN Disclosed(reason) ELSE inadmissible,
           UNCHANGED <<request, pc, items, returned, decision>>,
           Faithful(Place, r, failed)
    PROVE  IInv'
<1>1. /\ records \in Seq(EvidenceRecord) /\ Len(records) \in Nat
      /\ Place = Len(records) + 1 /\ Place <= Len(asked) /\ Len(asked) \in Nat
  BY PipelineAssumption DEF IInv, Recorded, Resolving, Place, Request, asked
<1>2. /\ records' \in Seq(EvidenceRecord) /\ Len(records') = Place
      /\ \A i \in 1..Len(records) : records'[i] = records[i]
      /\ records'[Place] = r
  BY <1>1
<1>3. /\ inadmissible' \in Seq([place : Nat, reason : {"unknown_locator", "resolver_error",
                                                       "binding_mismatch"}])
      /\ Len(inadmissible') <= Place
      /\ Failed' = IF failed THEN Failed \cup {Place} ELSE Failed
  <2>1. CASE ~ failed
    BY <1>1, <2>1 DEF IInv, Disclosures, Failed
  <2>2. CASE failed
    <3> DEFINE e == [place |-> Place, reason |-> reason]
               S == [place : Nat, reason : {"unknown_locator", "resolver_error",
                                            "binding_mismatch"}]
    <3>1. e \in S /\ inadmissible \in Seq(S) /\ inadmissible' = Append(inadmissible, e)
          /\ Len(inadmissible) <= Len(records)
      BY <1>1, <2>2 DEF IInv, Disclosures, Disclosed
    <3> HIDE DEF S
    <3> HIDE DEF e
    <3>2. /\ inadmissible' \in Seq(S) /\ Len(inadmissible') = Len(inadmissible) + 1
          /\ DOMAIN inadmissible' = 1..(Len(inadmissible) + 1)
          /\ DOMAIN inadmissible = 1..Len(inadmissible)
          /\ \A k \in 1..Len(inadmissible) : inadmissible'[k] = inadmissible[k]
          /\ inadmissible'[Len(inadmissible) + 1] = e
          /\ Len(inadmissible) \in Nat
      <4>1. e \in S /\ inadmissible \in Seq(S)
        BY <3>1
      <4>2. /\ Append(inadmissible, e) \in Seq(S)
            /\ Len(Append(inadmissible, e)) = Len(inadmissible) + 1
            /\ DOMAIN Append(inadmissible, e) = 1..(Len(inadmissible) + 1)
            /\ DOMAIN inadmissible = 1..Len(inadmissible)
            /\ \A k \in 1..Len(inadmissible) : Append(inadmissible, e)[k] = inadmissible[k]
            /\ Append(inadmissible, e)[Len(inadmissible) + 1] = e
            /\ Len(inadmissible) \in Nat
        BY <4>1, AppendFacts
      <4>3. inadmissible' = Append(inadmissible, e)
        BY <3>1
      <4> QED
        BY <4>2, <4>3
    <3>3. Failed' = Failed \cup {e.place}
      BY <3>2 DEF Failed
    <3>4. e.place = Place
      BY DEF e
    <3> QED
      BY <1>1, <2>2, <3>1, <3>2, <3>3, <3>4 DEF S
  <2> QED
    BY <2>1, <2>2
<1>4. Failed \subseteq 1..Len(records)
  BY DEF IInv, Disclosures
<1>5. Disclosures'
  <2>1. Failed' \subseteq Failed \cup {Place}
    BY <1>3
  <2>2. Place \in 1..Place /\ 1..Len(records) \subseteq 1..Place
    BY <1>1
  <2>3. Failed' \subseteq 1..Place
    BY <1>4, <2>1, <2>2
  <2> QED
    BY <1>2, <1>3, <2>3 DEF Disclosures
<1>6. ASSUME NEW i, NEW s, NEW f
      PROVE  Faithful(i, s, f)' <=> Faithful(i, s, f)
  <2>1. request' = request
    OBVIOUS
  <2>2. asked' = asked
    BY <2>1 DEF asked
  <2>3. /\ IsLead(i)' <=> IsLead(i)
        /\ request.resolver # "own" => SourceDate(i)' = SourceDate(i)
        /\ DocumentOf(asked[i])' = DocumentOf(asked[i])
    BY <2>1, <2>2 DEF IsLead, SourceDate, DocumentOf, InCatalog
  <2> QED
    BY <2>1, <2>2, <2>3 DEF Faithful
<1>7. \A i \in 1..Len(records') : Faithful(i, records'[i], i \in Failed')
  <2> SUFFICES ASSUME NEW i \in 1..Len(records')
               PROVE  Faithful(i, records'[i], i \in Failed')
    OBVIOUS
  <2>1. CASE i = Place
    <3>1. (i \in Failed') = failed
      BY <1>1, <1>3, <1>4, <2>1
    <3> QED
      BY <1>2, <2>1, <3>1
  <2>2. CASE i # Place
    <3>1. i \in 1..Len(records)
      BY <1>1, <1>2, <2>2
    <3>2. (i \in Failed') = (i \in Failed)
      BY <1>3, <2>2
    <3> QED
      BY <1>2, <3>1, <3>2 DEF IInv, Recorded
  <2> QED
    BY <2>1, <2>2
<1>8. Recorded'
  <2>1. \A i \in 1..Len(records') : Faithful(i, records[i], i \in Failed)'
    BY <1>6, <1>7
  <2>2. pc' = "resolve" /\ asked' = asked
    BY DEF Resolving, asked
  <2> QED
    BY <1>1, <1>2, <2>1, <2>2 DEF Recorded
<1> QED
  BY <1>5, <1>8 DEF IInv, Resolving, Admitted, Decided

LEMMA RequestFacts ==
    ASSUME IInv
    PROVE  /\ Text(text) /\ asked \in Seq(Lead \cup EvidenceRecord)
           /\ request.verifiers \subseteq Verifier /\ request.resolver \in Resolvers
           /\ request.entailment \in BOOLEAN /\ request.requireProvenance \in BOOLEAN
  BY PipelineAssumption DEF IInv, Request, text, asked

LEMMA AskedFacts ==
    ASSUME IInv, Resolving
    PROVE  /\ IsLead(Place) => asked[Place] \in Lead
           /\ ~ IsLead(Place) => asked[Place] \in EvidenceRecord
<1>1. asked \in Seq(Lead \cup EvidenceRecord) /\ Place \in 1..Len(asked)
  BY RequestFacts DEF IInv, Recorded, Resolving, Place
<1>2. asked[Place] \in Lead \cup EvidenceRecord
  BY <1>1
<1> QED
  BY <1>2 DEF IsLead, Lead, EvidenceRecord

LEMMA PassThroughKeeps == ASSUME IInv, PassThrough PROVE IInv'
<1>1. asked[Place] \in EvidenceRecord /\ Resolving
  BY AskedFacts DEF PassThrough
<1>2. Faithful(Place, asked[Place], FALSE)
  BY DEF PassThrough, Faithful
<1>3. /\ records' = Append(records, asked[Place])
      /\ inadmissible' = IF FALSE THEN Disclosed("resolver_error") ELSE inadmissible
      /\ UNCHANGED <<request, pc, items, returned, decision>>
  BY DEF PassThrough
<1> QED
  BY <1>1, <1>2, <1>3, RecordKeeps

LEMMA UnresolvedKeeps ==
    ASSUME IInv, NEW found \in {None, Raised}, NEW says \in Entailment, Unresolved(found, says)
    PROVE  IInv'
<1> DEFINE r == UnresolvedRecord(asked[Place], says)
           reason == IF found = Raised THEN "resolver_error" ELSE "unknown_locator"
<1>1. asked[Place] \in Lead /\ Resolving /\ IsLead(Place)
  BY AskedFacts DEF Unresolved
<1>2. r \in EvidenceRecord
  BY <1>1 DEF UnresolvedRecord, Lead, EvidenceRecord, Entailment, Quote, Strength
<1>3. Faithful(Place, r, TRUE)
  BY <1>1 DEF UnresolvedRecord, Faithful
<1>4. /\ records' = Append(records, r)
      /\ inadmissible' = IF TRUE THEN Disclosed(reason) ELSE inadmissible
      /\ UNCHANGED <<request, pc, items, returned, decision>>
  BY DEF Unresolved
<1>5. reason \in {"unknown_locator", "resolver_error", "binding_mismatch"}
  OBVIOUS
<1> HIDE DEF r, reason
<1> QED
  BY <1>1, <1>2, <1>3, <1>4, <1>5, RecordKeeps

LEMMA ResolveKeeps == ASSUME IInv, Resolve PROVE IInv'
<1> DEFINE lead == asked[Place]
<1>1. lead \in Lead /\ Resolving /\ IsLead(Place) /\ request.resolver \in Resolvers
  BY AskedFacts, RequestFacts DEF Resolve
<1>2. PICK source \in Find(request.resolver, lead) \ {None, Raised} :
        /\ records' = Append(records, RecordFromResolved(lead, source,
                                        IsTrustedResolver(request.resolver, source.by)))
        /\ inadmissible' = IF source.binds THEN inadmissible ELSE Disclosed("binding_mismatch")
  BY DEF Resolve
<1> DEFINE proved == IsTrustedResolver(request.resolver, source.by)
           r == RecordFromResolved(lead, source, proved)
           failed == ~ source.binds
<1>3. proved \in BOOLEAN /\ failed \in BOOLEAN
  BY DEF IsTrustedResolver
<1>4. /\ source \in ResolvedSource
      /\ request.resolver # "own" =>
           Genuine(source, lead, DateOf(request.resolver, lead),
                   IdentityOf(request.resolver, lead))
  <2> HIDE DEF lead
  <2> QED
    BY <1>1, FoundGenuine
<1>5. request.resolver # "own" =>
      /\ SourceDate(Place) = DateOf(request.resolver, lead)
      /\ DocumentOf(asked[Place]) = IdentityOf(request.resolver, lead)
  BY <1>1 DEF SourceDate, DateOf, DocumentOf, IdentityOf, PageIdentity, InCatalog
<1>9. proved => request.resolver # "own"
  BY DEF IsTrustedResolver
<1> HIDE DEF proved
<1>6. r \in EvidenceRecord
  <2>1. /\ source.identity \in Nat \cup {NoKey} /\ source.published \in Date
        /\ source.says \in Entailment /\ "NEUTRAL" \in Entailment
        /\ source.lineage \in Nat /\ source.quote \in Quote /\ source.hashed \in BOOLEAN
    BY <1>4 DEF ResolvedSource, Entailment
  <2>2. lead.strength \in Strength
    BY <1>1 DEF Lead
  <2>3. (lead.applicable /\ source.binds) \in BOOLEAN
    OBVIOUS
  <2> HIDE DEF lead
  <2> QED
    BY <1>3, <2>1, <2>2, <2>3 DEF RecordFromResolved, Record, EvidenceRecord
<1>7. Faithful(Place, r, failed)
  <2> HIDE DEF lead
  <2>1. /\ r.stance = "NEUTRAL" /\ r.resolved /\ r.proved = proved
        /\ r.applicable = (lead.applicable /\ source.binds)
        /\ r.published = source.published /\ r.identity = source.identity
    BY DEF RecordFromResolved, Record
  <2>2. r.applicable = FALSE \/ ~ failed
    BY <2>1
  <2> QED
    BY <1>1, <1>4, <1>5, <1>9, <2>1, <2>2 DEF Faithful, Genuine, lead
<1>8. /\ records' = Append(records, r)
      /\ inadmissible' = IF failed THEN Disclosed("binding_mismatch") ELSE inadmissible
      /\ UNCHANGED <<request, pc, items, returned, decision>>
  BY <1>2 DEF Resolve, proved
<1> HIDE DEF r, failed
<1> QED
  BY <1>1, <1>3, <1>6, <1>7, <1>8, RecordKeeps

\* The steps after the last item leave the records alone.
LEMMA RecordsKeep ==
    ASSUME IInv, UNCHANGED <<request, records, inadmissible>>,
           pc' # "resolve" => Len(records) = Len(asked)
    PROVE  Recorded' /\ Disclosures'
<1>1. asked' = asked /\ Failed' = Failed
  BY DEF asked, Failed
<1>2. ASSUME NEW i \in 1..Len(records)
      PROVE  Faithful(i, records[i], i \in Failed)'
  <2>1. Faithful(i, records[i], i \in Failed)
    BY DEF IInv, Recorded
  <2>2. /\ IsLead(i)' <=> IsLead(i)
        /\ request.resolver # "own" => SourceDate(i)' = SourceDate(i)
        /\ DocumentOf(asked[i])' = DocumentOf(asked[i])
    BY <1>1 DEF IsLead, SourceDate, DocumentOf, InCatalog
  <2> QED
    BY <1>1, <2>1, <2>2 DEF Faithful
<1>3. Recorded'
  BY <1>1, <1>2 DEF IInv, Recorded
<1> QED
  BY <1>1, <1>3 DEF IInv, Disclosures

LEMMA AdmitKeeps == ASSUME IInv, Admit PROVE IInv'
<1>1. Recorded' /\ Disclosures'
  BY RecordsKeep DEF IInv, Recorded, Admit
<1>2. \A r : AdmitRecord(r)' = AdmitRecord(r)
  BY DEF Admit, AdmitRecord, Stance, ModelStance
<1>3. items' = {AdmitRecord(records[i])' : i \in DOMAIN records'}
  BY <1>2 DEF Admit
<1>4. Admitted'
  BY <1>3 DEF Admit, Admitted, Admits
<1> QED
  BY <1>1, <1>4 DEF IInv, Admit, Decided

LEMMA VerifyAndDecideKeeps == ASSUME IInv, VerifyAndDecide PROVE IInv'
<1>1. Recorded' /\ Disclosures'
  BY RecordsKeep DEF IInv, Recorded, VerifyAndDecide
<1>2. \A r : AdmitRecord(r)' = AdmitRecord(r)
  BY DEF VerifyAndDecide, AdmitRecord, Stance, ModelStance
<1>3. Admitted'
  <2>1. Admits /\ items = {AdmitRecord(records[i]) : i \in DOMAIN records}
    BY DEF IInv, Admitted, VerifyAndDecide
  <2> QED
    BY <1>2, <2>1 DEF VerifyAndDecide, Admitted, Admits
<1>4. Decided'
  <2>1. items = {AdmitRecord(records[i]) : i \in DOMAIN records}
    BY DEF IInv, Admitted, VerifyAndDecide
  <2>2. text' = text
    BY DEF text, VerifyAndDecide
  <2>3. {AdmitRecord(records[i]) : i \in DOMAIN records}'
          = {AdmitRecord(records[i]) : i \in DOMAIN records}
    BY <1>2 DEF VerifyAndDecide
  <2>4. VerdictOn(DOMAIN records)' = Verdict(Classify(text), "OK", returned', items)
    BY <2>1, <2>2, <2>3 DEF VerdictOn
  <2> QED
    BY <2>2, <2>4 DEF Decided, VerifyAndDecide
<1> QED
  BY <1>1, <1>3, <1>4 DEF IInv, VerifyAndDecide

LEMMA Invariance == Spec => []IInv
<1>1. IInv /\ [Next]_vars => IInv'
  <2> SUFFICES ASSUME IInv, [Next]_vars
               PROVE  IInv'
    OBVIOUS
  <2>1. CASE UNCHANGED vars
    BY <2>1, RecordsKeep
       DEF vars, IInv, Recorded, Admitted, Decided, Admits, AdmitRecord, Stance, ModelStance,
           VerdictOn, text
  <2>2. CASE PassThrough
    BY <2>2, PassThroughKeeps
  <2>3. ASSUME NEW found \in {None, Raised}, NEW says \in Entailment, Unresolved(found, says)
        PROVE  IInv'
    BY <2>3, UnresolvedKeeps
  <2>4. CASE Resolve
    BY <2>4, ResolveKeeps
  <2>5. CASE ResolveDone
    <3>1. Place > Len(asked) => Len(records) = Len(asked)
      BY RequestFacts DEF IInv, Recorded, Place
    <3>2. Recorded' /\ Disclosures'
      BY <2>5, <3>1, RecordsKeep DEF ResolveDone
    <3> QED
      BY <2>5, <3>2 DEF ResolveDone, IInv, Admitted, Decided
  <2>6. CASE Admit
    BY <2>6, AdmitKeeps
  <2>7. CASE AdmitRaises
    <3>1. Recorded' /\ Disclosures'
      BY <2>7, RecordsKeep DEF AdmitRaises, IInv, Recorded
    <3> QED
      BY <2>7, <3>1 DEF AdmitRaises, IInv, Admitted, Decided
  <2>8. CASE VerifyAndDecide
    BY <2>8, VerifyAndDecideKeeps
  <2> QED
    BY <2>1, <2>2, <2>3, <2>4, <2>5, <2>6, <2>7, <2>8 DEF Next
<1> QED
  BY <1>1, InitIInv, PTL DEF Spec

-----------------------------------------------------------------------------
(* What moves a verdict *)

\* An item that is inadmissible or takes no stance.
Silent(e) == ~ Admissible(e) \/ e.entailment = "NEUTRAL"

LEMMA SilentHasNoVote ==
    ASSUME IInv, pc = "done", NEW X \in SUBSET DOMAIN records,
           \A i \in DOMAIN records \ X : Silent(AdmitRecord(records[i]))
    PROVE  decision = VerdictOn(X)
<1> DEFINE E == {AdmitRecord(records[i]) : i \in DOMAIN records}
           F == {AdmitRecord(records[i]) : i \in X}
<1>1. F \subseteq E /\ \A e \in E \ F : Silent(e)
  OBVIOUS
<1>2. decision = Verdict(Classify(text), "OK", returned, E)
  BY DEF IInv, Decided, VerdictOn
<1> HIDE DEF E, F
<1>3. Supports(F) = Supports(E) /\ Contradicts(F) = Contradicts(E)
  BY <1>1 DEF Supports, Contradicts, Silent
<1>4. Classify(text) \in Class
  BY DEF Classify, Class
<1>5. Verdict(Classify(text), "OK", returned, F) = Verdict(Classify(text), "OK", returned, E)
  BY <1>1, <1>3, <1>4, SameSignals
<1> QED
  BY <1>2, <1>5 DEF VerdictOn, F

\* Places of records.
LEMMA PlaceFacts ==
    ASSUME IInv, NEW i \in DOMAIN records
    PROVE  /\ records[i] \in EvidenceRecord
           /\ Faithful(i, records[i], i \in Failed)
           /\ i \in 1..Len(records)
  BY DEF IInv, Recorded

\* What failed is disclosed and silent.
LEMMA FailedIsSilent ==
    ASSUME IInv, NEW i \in DOMAIN records, i \in Failed
    PROVE  Silent(AdmitRecord(records[i]))
<1>1. records[i].applicable = FALSE
  BY PlaceFacts DEF Faithful
<1> QED
  BY <1>1 DEF AdmitRecord, Silent, Admissible

LEMMA FreshFacts ==
    ASSUME IInv, Admits, NEW i \in DOMAIN records
    PROVE  /\ records[i].published \in Int
           /\ Fresh(records[i]) <=> records[i].published \in (Now - MaxAge)..Now
<1>1. records[i].published \in Int
  BY PlaceFacts DEF Admits, EvidenceRecord, Date
<1> QED
  BY <1>1, PipelineAssumption DEF Fresh

-----------------------------------------------------------------------------
(* Types *)

LEMMA ItemTypes ==
    ASSUME IInv, pc \in {"verify", "done"}
    PROVE  items \subseteq EvidenceItem
<1> SUFFICES ASSUME NEW i \in DOMAIN records
             PROVE  AdmitRecord(records[i]) \in EvidenceItem
  BY DEF IInv, Admitted
<1> DEFINE r == records[i]
<1>1. Admits
  BY DEF IInv, Admitted
<1>2. /\ r.lineage \in Nat /\ r.identity \in Nat \cup {NoKey} /\ r.strength \in Strength
      /\ {r.applicable, r.proved, r.hashed, r.resolved, r.modelStance} \subseteq BOOLEAN
      /\ {r.says, r.stance} \subseteq Entailment
  BY PlaceFacts DEF EvidenceRecord
<1>3. Fresh(r) \in BOOLEAN
  BY <1>1, FreshFacts, PipelineAssumption DEF Fresh
<1>4. QuoteBound(r) \in BOOLEAN
  BY DEF QuoteBound
<1>5. request.entailment \in BOOLEAN /\ request.requireProvenance \in BOOLEAN
  BY RequestFacts
<1> HIDE DEF r
<1>6. Stance(r) \in {"ENTAILS", "CONTRADICTS", "NEUTRAL"}
  BY <1>2, <1>5 DEF Stance, Entailment
<1>7. ModelStance(r) \in BOOLEAN
  BY DEF ModelStance
<1>8. (r.applicable /\ (r.proved \/ ~ request.requireProvenance)) \in BOOLEAN
  OBVIOUS
<1>9. r.strength \in Nat
  BY <1>1, <1>2 DEF Admits, Strength, r
<1>10. AdmitRecord(r) \in EvidenceItem
  BY <1>2, <1>3, <1>4, <1>6, <1>7, <1>8, <1>9 DEF AdmitRecord, EvidenceItem
<1> QED
  BY <1>10 DEF r

LEMMA ResultTypes ==
    ASSUME IInv
    PROVE  Results(request.verifiers, text) \subseteq VerifierResult
<1> SUFFICES ASSUME NEW v \in request.verifiers, Registered(v), AppliesTo(v, text)
             PROVE  Verify(v, text) \in VerifierResult
  BY DEF Results
<1>1. Text(text)
  BY RequestFacts
<1>2. CASE v = "arith"
  <2>1. text.form = "relation" /\ IsFormal(text)
    BY <1>2 DEF AppliesTo, IsFormal
  <2>2. BindingOK(text) \in BOOLEAN
    BY DEF BindingOK
  <2>3. EvaluateRelation(text.relation) \in {"PASS", "FAIL", "ERROR"}
    BY DEF EvaluateRelation
  <2>4. Verify(v, text) = Arithmetic(text)
    BY <1>2 DEF Verify
  <2> QED
    BY <2>2, <2>3, <2>4 DEF Arithmetic, Result, VerifierResult
<1>3. CASE v = "registry"
  <2>1. text.form = "lookup" /\ text.key \in DOMAIN Registry
    BY <1>1, <1>3 DEF AppliesTo, Text
  <2> DEFINE record == Registry[text.key]
  <2>2. record = Absent \/ record \in RegistryRecord
    BY <2>1, RegistryAssumption
  <2>3. Verify(v, text) = LookUp(text)
    BY <1>3 DEF Verify
  <2> HIDE DEF record
  <2>4. \/ LookUp(text) = Result("SOURCED", "ERROR", FALSE)
        \/ LookUp(text) = Result("SOURCED", "INCONCLUSIVE", FALSE)
        \/ /\ record # Absent
           /\ LookUp(text) =
                [Result("SOURCED", IF record.value = text.expected THEN "PASS" ELSE "FAIL", TRUE)
                   EXCEPT !.authoritative = record.authoritative,
                          !.integrity = record.unaltered /\ record.trusted]
    BY DEF LookUp, record
  <2>5. /\ Result("SOURCED", "ERROR", FALSE) \in VerifierResult
        /\ Result("SOURCED", "INCONCLUSIVE", FALSE) \in VerifierResult
    BY DEF Result, VerifierResult
  <2>6. ASSUME NEW o \in {"PASS", "FAIL"}, NEW a \in BOOLEAN, NEW g \in BOOLEAN
        PROVE  [Result("SOURCED", o, TRUE) EXCEPT !.authoritative = a, !.integrity = g]
                 \in VerifierResult
    BY DEF Result, VerifierResult
  <2>7. ASSUME record # Absent
        PROVE  /\ record.authoritative \in BOOLEAN
               /\ (record.unaltered /\ record.trusted) \in BOOLEAN
    BY <2>2, <2>7 DEF RegistryRecord
  <2>8. (IF record.value = text.expected THEN "PASS" ELSE "FAIL") \in {"PASS", "FAIL"}
    OBVIOUS
  <2> QED
    BY <2>3, <2>4, <2>5, <2>6, <2>7, <2>8
<1>4. CASE v = "llm-entailment"
  <2>1. Verify(v, text) = Result("LLM", "PASS", TRUE)
    BY <1>4 DEF Verify
  <2> QED
    BY <2>1 DEF Result, VerifierResult
<1> QED
  BY <1>2, <1>3, <1>4 DEF Registered

LEMMA Types == IInv => TypeOK
<1> SUFFICES ASSUME IInv
             PROVE  TypeOK
  OBVIOUS
<1>1. /\ records \in Seq(EvidenceRecord) /\ Len(records) <= Len(asked)
      /\ pc # "resolve" => Len(records) = Len(asked)
      /\ Len(inadmissible) <= Len(records)
  BY DEF IInv, Recorded, Disclosures
<1>2. items \subseteq EvidenceItem
  BY ItemTypes DEF IInv, Admitted
<1>3. returned \subseteq VerifierResult
  BY ResultTypes DEF IInv, Decided
<1>4. CASE pc = "done"
  <2>1. decision = VerdictOn(DOMAIN records)
    BY <1>4 DEF IInv, Decided
  <2>2. Classify(text) \in Class
    BY DEF Classify, Class
  <2>3. decision \in DecisionForms(Classify(text))
    BY <2>1, <2>2, VerdictForms DEF VerdictOn
  <2>4. decision # None
    BY <2>2, <2>3, PipelineAssumption DEF Forms
  <2> QED
    BY <1>1, <1>2, <1>3, <1>4, <2>3, <2>4 DEF TypeOK
<1>5. CASE pc # "done"
  <2>1. decision = None
    BY <1>5 DEF IInv, Decided
  <2> QED
    BY <1>1, <1>2, <1>3, <1>5, <2>1 DEF TypeOK, IInv
<1> QED
  BY <1>4, <1>5

-----------------------------------------------------------------------------
(* Theorems *)

\* A retrieval that failed, or a quote that is not in its source, leaves the
\* decision as it is without the lead, whatever the entailment function makes
\* of the placeholder; and whatever is not disclosed was resolved.
THEOREM FailuresAreSilent == Spec => []FailureIsNoEvidence
<1>1. IInv => FailureIsNoEvidence
  <2>1. ASSUME IInv, pc = "done"
        PROVE  decision = VerdictOn(DOMAIN records \ Failed)
    BY <2>1, FailedIsSilent, SilentHasNoVote
  <2>2. ASSUME IInv, NEW i \in DOMAIN records \ Failed, IsLead(i)
        PROVE  /\ records[i].resolved
               /\ request.resolver # "own" => asked[i].quote # "absent"
    BY <2>2, PlaceFacts DEF Faithful
  <2> QED
    BY <2>1, <2>2, Types DEF FailureIsNoEvidence
<1> QED
  BY <1>1, Invariance, PTL

\* Whatever a model writes into a lead, no stance of it arrives.
THEOREM LeadsAreNoEvidence == Spec => []LeadsDeclareNothing
<1>1. IInv => LeadsDeclareNothing
  <2> SUFFICES ASSUME IInv, pc = "done", ~ request.entailment
               PROVE  decision = VerdictOn({i \in DOMAIN records : ~ IsLead(i)})
    BY DEF LeadsDeclareNothing
  <2>1. ASSUME NEW i \in DOMAIN records, IsLead(i)
        PROVE  Silent(AdmitRecord(records[i]))
    <3>1. records[i].stance = "NEUTRAL"
      BY <2>1, PlaceFacts DEF Faithful
    <3> QED
      BY <3>1 DEF Silent, AdmitRecord, Stance
  <2> QED
    BY <2>1, SilentHasNoVote
<1> QED
  BY <1>1, Invariance, PTL

\* Only what its own source dates within the allowed age has influence.
THEOREM AgeIsTheSources == Spec => []OnlyTimelyEvidence
<1>1. IInv => OnlyTimelyEvidence
  <2> SUFFICES ASSUME IInv, pc = "done"
               PROVE  decision = VerdictOn({i \in DOMAIN records \ Failed :
                                              SourceDate(i) \in (Now - MaxAge)..Now})
    BY DEF OnlyTimelyEvidence
  <2>1. ASSUME NEW i \in DOMAIN records, i \notin Failed, SourceDate(i) \notin (Now - MaxAge)..Now
        PROVE  Silent(AdmitRecord(records[i]))
    <3>1. records[i].published = SourceDate(i)
      <4>1. CASE ~ IsLead(i)
        BY <2>1, <4>1, PlaceFacts DEF Faithful, SourceDate
      <4>2. CASE IsLead(i) /\ request.resolver = "own"
        BY <4>2 DEF SourceDate
      <4>3. CASE IsLead(i) /\ request.resolver # "own"
        BY <2>1, <4>3, PlaceFacts DEF Faithful
      <4> QED
        BY <4>1, <4>2, <4>3
    <3>2. ~ Fresh(records[i])
      BY <2>1, <3>1, FreshFacts DEF IInv, Admitted
    <3> QED
      BY <3>2 DEF Silent, AdmitRecord, Admissible
  <2>2. ASSUME NEW i \in DOMAIN records,
               i \notin {j \in DOMAIN records \ Failed : SourceDate(j) \in (Now - MaxAge)..Now}
        PROVE  Silent(AdmitRecord(records[i]))
    BY <2>1, <2>2, FailedIsSilent
  <2> QED
    BY <2>2, SilentHasNoVote
<1> QED
  BY <1>1, Invariance, PTL

\* Where a positive status comes from.
LEMMA PositiveVerdict ==
    ASSUME NEW cl \in Class, NEW R, NEW E, Verdict(cl, "OK", R, E).status \in Positive
    PROVE  \/ Definitive(R, "PASS", TRUE) # {}
           \/ /\ Supports(E) # {}
              /\ (\A e \in Supports(E) : e.modelStance) => Verdict(cl, "OK", R, E).modelDerived
<1> DEFINE v == Verdict(cl, "OK", R, E)
           cand == Candidate(R, E)
           model == Supports(E) # {} /\ \A e \in Supports(E) : e.modelStance
<1>1. ~ (R = {} /\ E = {})
  BY DEF Verdict, Form, Positive
<1>2. v = Form(Capped(cand[1], cl), cand[2], IsContested(R, E), model)
  BY <1>1 DEF Verdict, Incomplete
<1> HIDE DEF v, cand, model
<1>3. v.status = Capped(cand[1], cl) /\ v.modelDerived = model
  BY <1>2 DEF Form
<1>4. v.status \in Positive
  BY DEF v
<1>5. cand[1] \in Positive
  <2>1. cand[1] \in Status
    BY CandidateForms DEF cand, Status, Positive
  <2> QED
    BY <1>3, <1>4, <2>1, CappedFacts
<1>6. CASE Definitive(R, "PASS", TRUE) # {}
  BY <1>6
<1>7. CASE Definitive(R, "PASS", TRUE) = {}
  <2>1. Definitive(R, "FAIL", TRUE) = {}
    BY <1>5 DEF cand, Candidate, Positive
  <2>2. cand = EvidenceLadder(R, E)
    BY <1>7, <2>1 DEF cand, Candidate
  <2>3. Supports(E) # {}
    <3> SUFFICES ASSUME Supports(E) = {}
                 PROVE  FALSE
      OBVIOUS
    <3>1. Lineages(Trusted(Supports(E))) = {}
      BY DEF Lineages, Trusted
    <3>2. ~ (Cardinality(Lineages(Trusted(Supports(E)))) >= MinLineages)
      BY <3>1, FS_EmptySet, PolicyAssumption
    <3>3. EvidenceLadder(R, E)[1] = "UNVERIFIED"
      <4>1. CASE Contradicts(E) # {}
        BY <3>2, <4>1 DEF EvidenceLadder
      <4>2. CASE Contradicts(E) = {} /\ Definitive(R, "FAIL", FALSE) # {}
        BY <3>2, <4>2 DEF EvidenceLadder
      <4>3. CASE Contradicts(E) = {} /\ Definitive(R, "FAIL", FALSE) = {}
        BY <3>2, <4>3 DEF EvidenceLadder
      <4> QED
        BY <4>1, <4>2, <4>3
    <3> QED
      BY <1>5, <2>2, <3>3 DEF Positive
  <2> QED
    BY <1>3, <2>3 DEF model, v
<1> QED
  BY <1>6, <1>7

\* Support without a model's word comes from stances the caller declared or
\* from the code's own definitive verifiers.
THEOREM SupportIsEarned == Spec => []PositiveIsEarned
<1>1. IInv => PositiveIsEarned
  <2> SUFFICES ASSUME IInv, pc = "done", decision.status \in Positive
               PROVE  \/ \E v \in request.verifiers \cap {"arith", "registry"} :
                           AppliesTo(v, text) /\ Definitive({Verify(v, text)}, "PASS", TRUE) # {}
                      \/ decision.modelDerived
                      \/ /\ ~ request.entailment
                         /\ \E i \in DOMAIN asked : ~ IsLead(i) /\ asked[i].stance = "ENTAILS"
    BY DEF PositiveIsEarned
  <2>1. /\ decision = Verdict(Classify(text), "OK", returned, items)
        /\ returned = Results(request.verifiers, text)
        /\ items = {AdmitRecord(records[i]) : i \in DOMAIN records}
        /\ Classify(text) \in Class
    BY DEF IInv, Decided, Admitted, VerdictOn, Classify, Class
  <2>2. CASE Definitive(returned, "PASS", TRUE) # {}
    <3>1. PICK v \in request.verifiers :
            /\ Registered(v) /\ AppliesTo(v, text)
            /\ Verify(v, text) \in Definitive(returned, "PASS", TRUE)
      BY <2>1, <2>2 DEF Results, Definitive
    <3>2. ~ Verify(v, text).isLLM /\ Definitive({Verify(v, text)}, "PASS", TRUE) # {}
      BY <3>1 DEF Definitive, IsDefinitive
    <3>3. v # "llm-entailment"
      BY <3>2 DEF Verify, Result
    <3> QED
      BY <3>1, <3>2, <3>3 DEF Registered
  <2>3. CASE (\A e \in Supports(items) : e.modelStance) => decision.modelDerived
    <3> SUFFICES ASSUME ~ decision.modelDerived
                 PROVE  /\ ~ request.entailment
                        /\ \E i \in DOMAIN asked : ~ IsLead(i) /\ asked[i].stance = "ENTAILS"
      OBVIOUS
    <3>1. PICK e \in Supports(items) : ~ e.modelStance
      BY <2>3
    <3>2. PICK i \in DOMAIN records : e = AdmitRecord(records[i])
      BY <2>1, <3>1 DEF Supports
    <3>3. Stance(records[i]) = "ENTAILS" /\ ~ ModelStance(records[i])
      BY <3>1, <3>2 DEF Supports, AdmitRecord
    <3>4. ~ request.entailment /\ records[i].stance = "ENTAILS"
      BY <3>3 DEF Stance, ModelStance
    <3>5. ~ IsLead(i) /\ records[i] = asked[i]
      BY <3>4, PlaceFacts DEF Faithful
    <3>6. i \in DOMAIN asked
      BY RequestFacts DEF IInv, Recorded
    <3> QED
      BY <3>4, <3>5, <3>6
  <2> QED
    BY <2>1, <2>2, <2>3, PositiveVerdict
<1> QED
  BY <1>1, Invariance, PTL

-----------------------------------------------------------------------------
(* What corroboration takes *)

\* A function's values over a finite set are finitely many.
LEMMA ValuesFinite ==
    ASSUME NEW S, IsFiniteSet(S), NEW f, f = [i \in S |-> f[i]]
    PROVE  IsFiniteSet({f[i] : i \in S})
<1> DEFINE T == {f[i] : i \in S}
<1>1. f \in Surjection(S, T)
  BY DEF Surjection
<1> QED
  BY <1>1, FS_Surjection

\* Putting the same mark on each value makes no more of them.
LEMMA MarkedCount ==
    ASSUME NEW S, IsFiniteSet(S), NEW mark
    PROVE  /\ IsFiniteSet({<<mark, x>> : x \in S})
           /\ Cardinality({<<mark, x>> : x \in S}) <= Cardinality(S)
<1> DEFINE T == {<<mark, x>> : x \in S}
           f == [x \in S |-> <<mark, x>>]
<1>1. f \in Surjection(S, T)
  BY DEF Surjection
<1> HIDE DEF f
<1> QED
  BY <1>1, FS_Surjection

\* Sources that are the documents and the labels of two finite sets are no
\* more than these.
LEMMA SourceCount ==
    ASSUME NEW documents, IsFiniteSet(documents), NEW labels, IsFiniteSet(labels),
           NEW sources, sources \subseteq {<<"prov", d>> : d \in documents}
                                          \cup {<<"lineage", l>> : l \in labels}
    PROVE  Cardinality(sources) <= Cardinality(documents) + Cardinality(labels)
<1> DEFINE D == {<<"prov", d>> : d \in documents}
           L == {<<"lineage", l>> : l \in labels}
<1>1. /\ IsFiniteSet(D) /\ Cardinality(D) <= Cardinality(documents)
      /\ IsFiniteSet(L) /\ Cardinality(L) <= Cardinality(labels)
  <2>1. IsFiniteSet(D) /\ Cardinality(D) <= Cardinality(documents)
    BY MarkedCount
  <2>2. IsFiniteSet(L) /\ Cardinality(L) <= Cardinality(labels)
    BY MarkedCount
  <2> QED
    BY <2>1, <2>2
<1>2. sources \in SUBSET (D \cup L)
  OBVIOUS
<1> HIDE DEF D, L
<1>3. /\ IsFiniteSet(D \cup L)
      /\ Cardinality(D \cup L) = Cardinality(D) + Cardinality(L) - Cardinality(D \cap L)
  BY <1>1, FS_Union
<1>4. IsFiniteSet(D \cap L)
  BY <1>1, FS_Intersection
<1>5. IsFiniteSet(sources) /\ Cardinality(sources) <= Cardinality(D \cup L)
  BY <1>2, <1>3, FS_Subset
<1>6. /\ Cardinality(D) \in Nat /\ Cardinality(L) \in Nat /\ Cardinality(D \cap L) \in Nat
      /\ Cardinality(documents) \in Nat /\ Cardinality(labels) \in Nat
      /\ Cardinality(sources) \in Nat
  BY <1>1, <1>4, <1>5, FS_CardinalityType
<1> QED
  BY <1>1, <1>3, <1>5, <1>6

\* A text whose class stops at CORROBORATED has no definitive verifier.
LEMMA NothingDefinitive ==
    ASSUME IInv, Classify(text) = "EMPIRICAL"
    PROVE  Definitive(Results(request.verifiers, text), "PASS", TRUE) = {}
<1> SUFFICES ASSUME NEW v \in request.verifiers, Registered(v), AppliesTo(v, text),
                    IsDefinitive(Verify(v, text))
             PROVE  FALSE
  BY DEF Definitive, Results
<1>1. ~ IsFormal(text) /\ text.form # "lookup"
  BY DEF Classify
<1>2. v = "llm-entailment"
  BY <1>1 DEF Registered, AppliesTo
<1>3. Verify(v, text).isLLM
  BY <1>2 DEF Verify, Result
<1> QED
  BY <1>3 DEF IsDefinitive

\* Only evidence of enough trusted sources corroborates.
LEMMA CorroboratedVerdict ==
    ASSUME IInv, pc = "done", decision.status = "CORROBORATED"
    PROVE  Enough(items)
<1> DEFINE cl == Classify(text)
<1>1. /\ decision = Verdict(cl, "OK", returned, items)
      /\ returned = Results(request.verifiers, text)
      /\ cl \in Class
  BY DEF IInv, Decided, Admitted, VerdictOn, Classify, Class
<1>2. Capped(Signal(returned, items), cl) = "CORROBORATED"
  BY <1>1, VerdictStatus DEF Incomplete
<1>3. CASE Signal(returned, items) = "CORROBORATED"
  BY <1>3 DEF Signal, Told
<1>4. CASE Signal(returned, items) # "CORROBORATED"
  <2>1. Ceiling(cl) = "CORROBORATED"
    BY <1>2, <1>4 DEF Capped
  <2>2. cl = "EMPIRICAL"
    BY <1>1, <2>1 DEF Ceiling, Class
  <2>3. Definitive(returned, "PASS", TRUE) = {}
    BY <1>1, <2>2, NothingDefinitive
  <2>4. Signal(returned, items) \in {"REFUTED", "CONTESTED", "UNVERIFIED", "SUPPORTED"}
    BY <1>4, <2>3 DEF Signal, Told
  <2> HIDE DEF cl
  <2>5. Capped(Signal(returned, items), cl) = Signal(returned, items)
    BY <2>1, <2>4, Rungs DEF Capped
  <2> QED
    BY <1>2, <1>4, <2>5
<1> QED
  BY <1>3, <1>4

\* What each trusted supporting item is counted for.
LEMMA CountedFor ==
    ASSUME IInv, pc = "done", NEW e \in Trusted(Supports(items))
    PROVE  \/ \E i \in Fetched : Source(e) = <<"prov", DocumentOf(asked[i])>>
           \/ \E i \in Vouched : /\ asked[i].identity # NoKey
                                 /\ Source(e) = <<"prov", asked[i].identity>>
           \/ \E i \in Vouched : /\ asked[i].identity = NoKey
                                 /\ Source(e) = <<"lineage", asked[i].lineage>>
<1>1. PICK i \in DOMAIN records : e = AdmitRecord(records[i])
  BY DEF IInv, Admitted, Trusted, Supports
<1>2. /\ records[i] \in EvidenceRecord /\ Faithful(i, records[i], i \in Failed)
      /\ i \in DOMAIN asked
  BY PlaceFacts, RequestFacts DEF IInv, Recorded
<1>3. records[i].proved /\ e.key = records[i].identity /\ e.lineage = records[i].lineage
  BY <1>1 DEF Trusted, AdmitRecord
<1>6. i \in Supporting
  BY <1>1, <1>2 DEF Supporting, Trusted
<1>4. CASE IsLead(i)
  <2>1. i \notin Failed
    BY <1>1, FailedIsSilent DEF Trusted, Supports, Silent
  <2>2. i \in Fetched /\ request.resolver # "own"
    BY <1>2, <1>3, <1>4, <1>6, <2>1 DEF Faithful, Fetched
  <2>3. e.key = DocumentOf(asked[i]) /\ e.key # NoKey
    BY <1>2, <1>3, <1>4, <2>1, <2>2, PolicyAssumption DEF Faithful
  <2> QED
    BY <2>2, <2>3 DEF Source
<1>5. CASE ~ IsLead(i)
  <2>1. records[i] = asked[i] /\ i \in Vouched
    BY <1>2, <1>3, <1>5, <1>6 DEF Faithful, Vouched
  <2> QED
    BY <1>3, <2>1 DEF Source
<1> QED
  BY <1>4, <1>5

\* A corroborated claim rests on as many distinct documents as the policy asks
\* for: leads, labels and addresses do not add up to one, whatever a model
\* writes into them and whatever the sources answer.
THEOREM CorroborationIsDistinct == Spec => []CorroborationTakesDocuments
<1>1. IInv => CorroborationTakesDocuments
  <2> SUFFICES ASSUME IInv, pc = "done", decision.status = "CORROBORATED"
               PROVE  CorroborationTakesDocuments
    BY DEF CorroborationTakesDocuments
  <2> DEFINE named == {j \in Vouched : asked[j].identity # NoKey}
             unnamed == {j \in Vouched : asked[j].identity = NoKey}
             fetched == {DocumentOf(asked[i]) : i \in Fetched}
             given == {asked[i].identity : i \in named}
             labels == {asked[i].lineage : i \in unnamed}
             sources == Lineages(Trusted(Supports(items)))
  <2>1. IsFiniteSet(Fetched) /\ IsFiniteSet(named) /\ IsFiniteSet(unnamed)
    <3>1. DOMAIN asked = 1..Len(asked) /\ Len(asked) \in Nat
      BY RequestFacts
    <3>2. IsFiniteSet(DOMAIN asked)
      BY <3>1, FS_Interval
    <3>3. Fetched \in SUBSET DOMAIN asked /\ Vouched \in SUBSET DOMAIN asked
      BY DEF Fetched, Vouched, Supporting
    <3>4. named \in SUBSET DOMAIN asked /\ unnamed \in SUBSET DOMAIN asked
      BY <3>3
    <3> QED
      BY <3>2, <3>3, <3>4, FS_Subset
  <2>2. IsFiniteSet(fetched \cup given) /\ IsFiniteSet(labels)
    <3>1. IsFiniteSet(fetched)
      <4> DEFINE f == [i \in Fetched |-> DocumentOf(asked[i])]
      <4>1. f = [i \in Fetched |-> f[i]]
        OBVIOUS
      <4>2. IsFiniteSet({f[i] : i \in Fetched})
        <5> HIDE DEF f
        <5> QED
          BY <2>1, <4>1, ValuesFinite
      <4> QED
        BY <4>2
    <3>2. IsFiniteSet(given)
      <4> HIDE DEF named
      <4> DEFINE f == [i \in named |-> asked[i].identity]
      <4>1. f = [i \in named |-> f[i]]
        OBVIOUS
      <4>2. IsFiniteSet({f[i] : i \in named})
        <5> HIDE DEF f
        <5> QED
          BY <2>1, <4>1, ValuesFinite
      <4> QED
        BY <4>2
    <3>3. IsFiniteSet(labels)
      <4> HIDE DEF unnamed
      <4> DEFINE f == [i \in unnamed |-> asked[i].lineage]
      <4>1. f = [i \in unnamed |-> f[i]]
        OBVIOUS
      <4>2. IsFiniteSet({f[i] : i \in unnamed})
        <5> HIDE DEF f
        <5> QED
          BY <2>1, <4>1, ValuesFinite
      <4> QED
        BY <4>2
    <3> QED
      BY <3>1, <3>2, <3>3, FS_Union
  <2>3. sources \subseteq {<<"prov", d>> : d \in fetched \cup given}
                          \cup {<<"lineage", l>> : l \in labels}
    <3> SUFFICES ASSUME NEW e \in Trusted(Supports(items))
                 PROVE  \/ \E d \in fetched \cup given : Source(e) = <<"prov", d>>
                        \/ \E l \in labels : Source(e) = <<"lineage", l>>
      BY DEF Lineages
    <3> QED
      BY CountedFor
  <2>4. Cardinality(sources) >= MinLineages
    BY CorroboratedVerdict DEF Enough
  <2> HIDE DEF sources, fetched, given, labels
  <2>5. Cardinality(sources) <= Cardinality(fetched \cup given) + Cardinality(labels)
    BY <2>2, <2>3, SourceCount
  <2>6. /\ Cardinality(sources) \in Nat
        /\ Cardinality(fetched \cup given) \in Nat /\ Cardinality(labels) \in Nat
    <3>1. IsFiniteSet(sources)
      <4>1. /\ IsFiniteSet({<<"prov", d>> : d \in fetched \cup given})
            /\ IsFiniteSet({<<"lineage", l>> : l \in labels})
        BY <2>2, MarkedCount
      <4>2. IsFiniteSet({<<"prov", d>> : d \in fetched \cup given}
                        \cup {<<"lineage", l>> : l \in labels})
        BY <4>1, FS_Union
      <4> QED
        BY <2>3, <4>2, FS_Subset
    <3> QED
      BY <2>2, <3>1, FS_CardinalityType
  <2>7. Cardinality(fetched \cup given) + Cardinality(labels) >= MinLineages
    BY <2>4, <2>5, <2>6, PolicyAssumption
  <2> QED
    BY <2>7 DEF CorroborationTakesDocuments, fetched, given, labels
<1> QED
  BY <1>1, Invariance, PTL

-----------------------------------------------------------------------------
(* Numbers *)

\* A divisor that divides, divides without remainder, and the quotient is
\* the only one.
LEMMA Divides ==
    ASSUME NEW k \in Nat \ {0}, NEW x \in Int
    PROVE  /\ x % k = 0 <=> \E q \in Int : x = q * k
           /\ x % k = 0 => x = (x \div k) * k
           /\ \A q \in Int : x = q * k => x \div k = q
           /\ x \div k \in Int
<1>1. x % k = 0 => x = (x \div k) * k
  OBVIOUS
<1>2. ASSUME NEW q \in Int, x = q * k
      PROVE  x % k = 0 /\ x \div k = q
  <2>1. (q * k) % k = 0 /\ (q * k) \div k = q
    OBVIOUS
  <2> QED
    BY <1>2, <2>1
<1>3. x \div k \in Int
  OBVIOUS
<1> QED
  BY <1>1, <1>2, <1>3

LEMMA QuotientOf ==
    ASSUME NEW k \in Nat \ {0}, NEW x \in Int, NEW y, y = x * k
    PROVE  y \div k = x
<1>1. (x * k) \div k = x
  OBVIOUS
<1> QED
  BY <1>1

\* The common divisors of two numbers.
CommonDivisors(n, d) == {k \in 1..Abs(d) : n % k = 0 /\ d % k = 0}

LEMMA AbsFacts ==
    ASSUME NEW d \in Int
    PROVE  /\ Sign(d) \in {-1, 1} /\ Abs(d) \in Nat /\ Sign(d) * d = Abs(d)
           /\ d # 0 => Abs(d) # 0
           /\ d >= 0 => Abs(d) = d /\ Sign(d) = 1
           /\ d = Sign(d) * Abs(d)
  BY DEF Sign, Abs

LEMMA GreatestDivisor ==
    ASSUME NEW n \in Int, NEW d \in Int \ {0}
    PROVE  /\ Max(CommonDivisors(n, d)) \in CommonDivisors(n, d)
           /\ \A k \in CommonDivisors(n, d) : k <= Max(CommonDivisors(n, d))
<1>1. Abs(d) \in Nat /\ Abs(d) >= 1
  BY AbsFacts
<1>2. 1 \in CommonDivisors(n, d)
  <2>1. n % 1 = 0 /\ d % 1 = 0
    OBVIOUS
  <2> QED
    BY <1>1, <2>1 DEF CommonDivisors
<1>3. CommonDivisors(n, d) \subseteq 1..Abs(d) /\ CommonDivisors(n, d) \subseteq Int
  BY <1>1 DEF CommonDivisors
<1>4. IsFiniteSet(CommonDivisors(n, d))
  <2>1. IsFiniteSet(1..Abs(d))
    BY <1>1, FS_Interval
  <2> QED
    BY <1>3, <2>1, FS_Subset
<1> QED
  BY <1>2, <1>3, <1>4, MaxOfFinite

\* Divided by their greatest common divisor, two numbers have no other common
\* divisor than 1.
LEMMA LowestTerms ==
    ASSUME NEW n \in Int, NEW d \in Int \ {0}, NEW p \in Int, NEW q \in Nat \ {0},
           NEW g \in CommonDivisors(n, d), \A k \in CommonDivisors(n, d) : k <= g,
           p * g = Sign(d) * n, q * g = Abs(d)
    PROVE  Max(CommonDivisors(p, q)) = 1
<1>1. g \in Nat \ {0}
  BY AbsFacts DEF CommonDivisors
<1>2. ASSUME NEW k \in CommonDivisors(p, q)
      PROVE  k = 1
  <2>1. k \in Nat \ {0}
    BY <1>2, AbsFacts DEF CommonDivisors
  <2>2. PICK a \in Int, b \in Int : p = a * k /\ q = b * k
    <3>1. p % k = 0 /\ q % k = 0
      BY DEF CommonDivisors
    <3>2. p = (p \div k) * k /\ p \div k \in Int
      BY <2>1, <3>1, Divides
    <3>3. q = (q \div k) * k /\ q \div k \in Int
      BY <2>1, <3>1, Divides
    <3> QED
      BY <3>2, <3>3
  <2>3. k * g \in Nat \ {0}
    BY <1>1, <2>1
  <2>4. Sign(d) * n = a * (k * g) /\ Abs(d) = b * (k * g)
    BY <1>1, <2>1, <2>2
  <2>5. Sign(d) \in {-1, 1} /\ n = Sign(d) * (Sign(d) * n) /\ d = Sign(d) * Abs(d)
    BY AbsFacts
  <2>6. n = (Sign(d) * a) * (k * g) /\ d = (Sign(d) * b) * (k * g)
    <3>1. CASE Sign(d) = 1
      BY <2>3, <2>4, <2>5, <3>1
    <3>2. CASE Sign(d) = -1
      BY <2>3, <2>4, <2>5, <3>2
    <3> QED
      BY <2>5, <3>1, <3>2
  <2>7. n % (k * g) = 0 /\ d % (k * g) = 0
    <3>1. Sign(d) * a \in Int /\ Sign(d) * b \in Int
      BY <2>5
    <3> QED
      BY <2>3, <2>6, <3>1, Divides
  <2>8. k * g <= Abs(d)
    <3>1. Abs(d) \in Nat /\ Abs(d) # 0
      BY AbsFacts
    <3>2. b >= 1
      <4>1. ASSUME b <= 0
            PROVE  FALSE
        <5>1. b * (k * g) <= 0
          BY <2>3, <4>1
        <5> QED
          BY <2>4, <3>1, <5>1
      <4> QED
        BY <4>1
    <3> DEFINE m == k * g
    <3>3. \A x \in Nat \ {0} : b * x >= x
      BY <3>2
    <3> QED
      BY <2>3, <2>4, <3>3
  <2>9. k * g <= g
    <3>1. k * g \in CommonDivisors(n, d)
      BY <2>3, <2>7, <2>8, AbsFacts DEF CommonDivisors
    <3> QED
      BY <3>1
  <2> QED
    <3>1. ASSUME k >= 2
          PROVE  FALSE
      <4>1. k * g >= 2 * g
        BY <1>1, <2>1, <3>1
      <4> QED
        BY <1>1, <2>1, <2>9, <4>1
    <3> QED
      BY <2>1, <3>1
<1> QED
  BY <1>2, GreatestDivisor

\* Rational gives the fraction in lowest terms, and gives it back unchanged.
LEMMA RationalFacts ==
    ASSUME NEW type, NEW n \in Int, NEW d \in Int \ {0}
    PROVE  \E p \in Int, q \in Nat \ {0} :
             /\ Rational(type, n, d) = [type |-> type, n |-> p, d |-> q]
             /\ Max(CommonDivisors(p, q)) = 1
<1> DEFINE g == Max(CommonDivisors(n, d))
           p == Floor(n, Sign(d) * g)
           q == Abs(d) \div g
<1>1. g \in CommonDivisors(n, d) /\ \A k \in CommonDivisors(n, d) : k <= g
  BY GreatestDivisor
<1>2. Rational(type, n, d) = [type |-> type, n |-> p, d |-> q]
  BY DEF Rational, CommonDivisors
<1> HIDE DEF g
<1>3. Sign(d) \in {-1, 1} /\ Abs(d) \in Nat \ {0} /\ Abs(d) = Sign(d) * d
  BY AbsFacts
<1>4. g \in Nat \ {0} /\ g <= Abs(d) /\ n % g = 0 /\ d % g = 0
  BY <1>1, <1>3 DEF CommonDivisors
<1>5. Sign(Sign(d) * g) = Sign(d) /\ Abs(Sign(d) * g) = g
  BY <1>3, <1>4 DEF Sign, Abs
<1>6. p = (Sign(d) * n) \div g
  BY <1>5 DEF Floor
<1> DEFINE a == n \div g
           b == d \div g
           s == Sign(d)
<1>7. n = a * g /\ d = b * g /\ a \in Int /\ b \in Int /\ s \in {-1, 1}
  BY <1>3, <1>4, Divides
<1> HIDE DEF a, b, s
<1>8. s * a \in Int /\ s * b \in Int /\ s * n = (s * a) * g /\ s * d = (s * b) * g
  <2>1. CASE s = 1
    BY <1>4, <1>7, <2>1
  <2>2. CASE s = -1
    BY <1>4, <1>7, <2>2
  <2> QED
    BY <1>7, <2>1, <2>2
<1>9. p = s * a
  <2>1. (s * n) \div g = s * a
    BY <1>4, <1>8, QuotientOf
  <2> QED
    BY <1>6, <2>1 DEF s
<1>10. q = s * b
  <2>1. (s * d) \div g = s * b
    BY <1>4, <1>8, QuotientOf
  <2> QED
    BY <1>3, <2>1 DEF s
<1> HIDE DEF p, q
<1>11. p \in Int /\ q \in Int /\ p * g = Sign(d) * n /\ q * g = Abs(d)
  BY <1>3, <1>8, <1>9, <1>10 DEF s
<1>12. q \in Nat \ {0}
  <2>1. ASSUME q <= 0
        PROVE  FALSE
    <3>1. q * g <= 0
      BY <1>4, <1>11, <2>1
    <3> QED
      BY <1>3, <1>11, <3>1
  <2> QED
    BY <1>11, <2>1
<1>13. Max(CommonDivisors(p, q)) = 1
  BY <1>1, <1>11, <1>12, LowestTerms
<1> QED
  BY <1>2, <1>11, <1>12, <1>13

LEMMA RationalAgain ==
    ASSUME NEW type, NEW p \in Int, NEW q \in Nat \ {0}, Max(CommonDivisors(p, q)) = 1
    PROVE  Rational(type, p, q) = [type |-> type, n |-> p, d |-> q]
<1>1. Sign(q) = 1 /\ Abs(q) = q /\ Sign(1) = 1 /\ Abs(1) = 1
  BY DEF Sign, Abs
<1>2. Rational(type, p, q) = [type |-> type, n |-> Floor(p, Sign(q) * 1), d |-> Abs(q) \div 1]
  BY DEF Rational, CommonDivisors
<1>3. Sign(q) * 1 = 1
  BY <1>1
<1>4. Floor(p, 1) = p
  BY <1>1 DEF Floor
<1> QED
  BY <1>1, <1>2, <1>3, <1>4

\* A rational is a value, and the same fraction whatever its type.
LEMMA RationalValue ==
    ASSUME NEW type \in {"int", "frac"}, NEW n \in Int, NEW d \in Int \ {0}
    PROVE  /\ Rational(type, n, d) \in Value
           /\ Rational(type, n, d).type = type
           /\ Rational("frac", Rational(type, n, d).n, Rational(type, n, d).d)
                = [type |-> "frac", n |-> Rational(type, n, d).n, d |-> Rational(type, n, d).d]
           /\ \A other : /\ Rational(other, n, d).n = Rational(type, n, d).n
                         /\ Rational(other, n, d).d = Rational(type, n, d).d
<1>1. PICK p \in Int, q \in Nat \ {0} :
        /\ Rational(type, n, d) = [type |-> type, n |-> p, d |-> q]
        /\ Max(CommonDivisors(p, q)) = 1
  BY RationalFacts
<1>2. Rational("frac", p, q) = [type |-> "frac", n |-> p, d |-> q]
  BY <1>1, RationalAgain
<1>3. \A other : /\ Rational(other, n, d).n = Rational(type, n, d).n
                 /\ Rational(other, n, d).d = Rational(type, n, d).d
  BY DEF Rational
<1> HIDE DEF Rational
<1>4. [type |-> type, n |-> p, d |-> q] \in Value
  BY DEF Value
<1> QED
  BY <1>1, <1>2, <1>3, <1>4

\* A float is a value.
LEMMA FloorInt ==
    ASSUME NEW n \in Int, NEW d \in Int \ {0}
    PROVE  Floor(n, d) \in Int
<1>1. Sign(d) * n \in Int /\ Abs(d) \in Nat \ {0}
  BY AbsFacts
<1> QED
  BY <1>1, Divides DEF Floor

LEMMA FloatValue ==
    ASSUME NEW n \in Int, NEW d \in Int \ {0}
    PROVE  Float(n, d) \in Value
<1>1. Grid \in Nat \ {0}
  BY SafeArithAssumption
<1>2. 2 * Grid * n + d \in Int /\ 2 * d \in Int \ {0}
  BY <1>1
<1>3. Floor(2 * Grid * n + d, 2 * d) \in Int
  BY <1>2, FloorInt
<1> QED
  BY <1>1, <1>3 DEF Float, Value

LEMMA NumberValue ==
    ASSUME NEW type \in {"int", "frac", "float"}, NEW n \in Int, NEW d \in Int \ {0}
    PROVE  Number(type, n, d) \in Value
  BY FloatValue, RationalValue DEF Number

-----------------------------------------------------------------------------
(* Powers *)

PowerFrom(n, f) == [i \in Nat |-> IF i = 0 THEN 1 ELSE n * f[i - 1]]

LEMMA PowerDefined ==
    ASSUME NEW n \in Int
    PROVE  ToPower(n, 0) = 1 /\ \A k \in Nat : ToPower(n, k + 1) = n * ToPower(n, k)
<1> DEFINE step == [x \in Int |-> n * x]
           power == CHOOSE f : f = PowerFrom(n, f)
<1>1. step \in [Int -> Int]
  OBVIOUS
<1>2. PICK F : Iteration(F, Int, 1, step)
  <2> HIDE DEF step
  <2> QED
    BY <1>1, Iterates
<1>3. F \in [Nat -> Int] /\ F[0] = 1 /\ \A i \in Nat : F[i + 1] = n * F[i]
  BY <1>2 DEF Iteration
<1>4. ASSUME NEW i \in Nat
      PROVE  F[i] = IF i = 0 THEN 1 ELSE n * F[i - 1]
  <2>1. CASE i = 0
    BY <1>3, <2>1
  <2>2. CASE i # 0
    <3>1. i - 1 \in Nat /\ (i - 1) + 1 = i
      BY <2>2
    <3> QED
      BY <1>3, <2>2, <3>1
  <2> QED
    BY <2>1, <2>2
<1>5. F = PowerFrom(n, F)
  BY <1>3, <1>4 DEF PowerFrom
<1>6. power = PowerFrom(n, power)
  BY <1>5
<1>7. \A k : ToPower(n, k) = power[k]
  BY DEF ToPower, PowerFrom
<1> HIDE DEF power
<1>8. power[0] = 1
  BY <1>6 DEF PowerFrom
<1>9. ASSUME NEW k \in Nat
      PROVE  power[k + 1] = n * power[k]
  <2>1. k + 1 \in Nat /\ k + 1 # 0 /\ (k + 1) - 1 = k
    OBVIOUS
  <2>2. power[k + 1] = n * power[(k + 1) - 1]
    BY <1>6, <2>1 DEF PowerFrom
  <2> QED
    BY <2>1, <2>2
<1> QED
  BY <1>7, <1>8, <1>9

LEMMA PowerFacts ==
    ASSUME NEW n \in Int, NEW k \in Nat
    PROVE  /\ ToPower(n, k) \in Int
           /\ n # 0 => ToPower(n, k) # 0
           /\ n > 0 => ToPower(n, k) > 0
<1> DEFINE S == {i \in Nat : /\ ToPower(n, i) \in Int
                             /\ n # 0 => ToPower(n, i) # 0
                             /\ n > 0 => ToPower(n, i) > 0}
<1>1. 0 \in S
  BY PowerDefined
<1>2. ASSUME NEW i \in Nat, i \in S
      PROVE  i + 1 \in S
  <2>1. ToPower(n, i + 1) = n * ToPower(n, i)
    BY PowerDefined
  <2> DEFINE x == ToPower(n, i)
  <2>2. x \in Int /\ (n # 0 => x # 0) /\ (n > 0 => x > 0)
    BY <1>2
  <2> HIDE DEF x
  <2>3. n * x \in Int /\ (n # 0 => n * x # 0) /\ (n > 0 => n * x > 0)
    BY <2>2
  <2> QED
    BY <2>1, <2>3 DEF x
<1>3. k \in S
  <2> HIDE DEF S
  <2> QED
    BY <1>1, <1>2, DepthInduction
<1> QED
  BY <1>3

-----------------------------------------------------------------------------
(* Operators *)

Fraction(a) == a.n \in Int /\ a.d \in Nat \ {0}

LEMMA PowerValue ==
    ASSUME NEW a \in Value, NEW b \in Value
    PROVE  Power(a, b) \in Value \cup {Error}
<1> DEFINE k == b.n \div b.d
           type == IF "float" \in {a.type, b.type} THEN "float"
                   ELSE IF a.type = "frac" THEN "frac"
                   ELSE IF k >= 0 THEN "int"
                   ELSE IF b.type = "int" THEN "float" ELSE "frac"
<1>1. /\ a.n \in Int /\ a.d \in Nat \ {0} /\ b.n \in Int /\ b.d \in Nat \ {0}
      /\ type \in {"int", "frac", "float"}
  BY DEF Value
<1>2. k \in Int
  BY <1>1
<1> HIDE DEF k, type
<1>3. \/ Power(a, b) = Error
      \/ k = 0 /\ Power(a, b) = Number(type, 1, 1)
      \/ k > 0 /\ Power(a, b) = Number(type, ToPower(a.n, k), ToPower(a.d, k))
      \/ k < 0 /\ a.n # 0 /\ Power(a, b) = Number(type, ToPower(a.d, -k), ToPower(a.n, -k))
  BY <1>2 DEF Power, k, type
<1>4. CASE k = 0 /\ Power(a, b) = Number(type, 1, 1)
  BY <1>1, <1>4, NumberValue
<1>5. CASE k > 0 /\ Power(a, b) = Number(type, ToPower(a.n, k), ToPower(a.d, k))
  <2>1. k \in Nat
    BY <1>2, <1>5
  <2>2. ToPower(a.n, k) \in Int
    BY <1>1, <2>1, PowerFacts
  <2>3. ToPower(a.d, k) \in Int /\ ToPower(a.d, k) # 0
    <3>1. a.d \in Int /\ a.d # 0
      BY <1>1
    <3> QED
      BY <2>1, <3>1, PowerFacts
  <2> QED
    BY <1>1, <1>5, <2>2, <2>3, NumberValue
<1>6. CASE k < 0 /\ a.n # 0 /\ Power(a, b) = Number(type, ToPower(a.d, -k), ToPower(a.n, -k))
  <2>1. -k \in Nat
    BY <1>2, <1>6
  <2>2. ToPower(a.d, -k) \in Int
    <3>1. a.d \in Int
      BY <1>1
    <3> QED
      BY <2>1, <3>1, PowerFacts
  <2>3. ToPower(a.n, -k) \in Int /\ ToPower(a.n, -k) # 0
    BY <1>1, <1>6, <2>1, PowerFacts
  <2> QED
    BY <1>1, <1>6, <2>2, <2>3, NumberValue
<1> QED
  BY <1>3, <1>4, <1>5, <1>6

\* Products of fractions are integers, and of their denominators not zero.
LEMMA Products ==
    ASSUME NEW a, NEW b, Fraction(a), Fraction(b)
    PROVE  /\ a.n * b.d \in Int /\ b.n * a.d \in Int /\ a.n * b.n \in Int
           /\ a.d * b.d \in Int \ {0}
           /\ b.n # 0 => a.d * b.n \in Int \ {0} /\ b.n * a.d \in Int \ {0}
<1> DEFINE n == a.n
           d == a.d
           p == b.n
           q == b.d
<1>1. n \in Int /\ d \in Nat \ {0} /\ p \in Int /\ q \in Nat \ {0}
  BY DEF Fraction
<1> HIDE DEF n, d, p, q
<1>2. /\ n * q \in Int /\ p * d \in Int /\ n * p \in Int
      /\ d * q \in Int \ {0}
      /\ p # 0 => d * p \in Int \ {0} /\ p * d \in Int \ {0}
  BY <1>1
<1> QED
  BY <1>2 DEF n, d, p, q

LEMMA ValueFraction == ASSUME NEW a \in Value PROVE Fraction(a)
  BY DEF Value, Fraction

\* The numerator and the denominator of the remainder.
Left(a, b) == a.n * b.d - Floor(a.n * b.d, a.d * b.n) * (b.n * a.d)

LEMMA LeftInt ==
    ASSUME NEW a, NEW b, Fraction(a), Fraction(b), b.n # 0
    PROVE  Left(a, b) \in Int
<1>1. a.n * b.d \in Int /\ b.n * a.d \in Int /\ a.d * b.n \in Int \ {0}
  BY Products
<1>2. Floor(a.n * b.d, a.d * b.n) \in Int
  BY <1>1, FloorInt
<1> QED
  BY <1>1, <1>2 DEF Left

LEMMA CommonType ==
    ASSUME NEW a \in Value, NEW b \in Value
    PROVE  Common(a, b) \in {"int", "frac", "float"}
  BY DEF Common, Value

LEMMA ApplyValue ==
    ASSUME NEW op \in Binary, NEW a \in Value, NEW b \in Value
    PROVE  Apply(op, a, b) \in Value \cup {Error}
<1>1. Fraction(a) /\ Fraction(b) /\ Common(a, b) \in {"int", "frac", "float"}
  BY ValueFraction, CommonType
<1>2. /\ a.n * b.d \in Int /\ b.n * a.d \in Int /\ a.n * b.n \in Int
      /\ a.d * b.d \in Int \ {0}
      /\ b.n # 0 => a.d * b.n \in Int \ {0} /\ b.n * a.d \in Int \ {0}
  BY <1>1, Products
<1>3. CASE op = "+"
  <2>1. a.n * b.d + b.n * a.d \in Int
    BY <1>2
  <2>2. Apply(op, a, b) = Number(Common(a, b), a.n * b.d + b.n * a.d, a.d * b.d)
    BY <1>3 DEF Apply
  <2> QED
    BY <1>1, <1>2, <2>1, <2>2, NumberValue
<1>4. CASE op = "-"
  <2>1. a.n * b.d - b.n * a.d \in Int
    BY <1>2
  <2>2. Apply(op, a, b) = Number(Common(a, b), a.n * b.d - b.n * a.d, a.d * b.d)
    BY <1>4 DEF Apply
  <2> QED
    BY <1>1, <1>2, <2>1, <2>2, NumberValue
<1>5. CASE op = "*"
  <2>1. Apply(op, a, b) = Number(Common(a, b), a.n * b.n, a.d * b.d)
    BY <1>5 DEF Apply
  <2> QED
    BY <1>1, <1>2, <2>1, NumberValue
<1>6. CASE op = "/"
  <2>1. Apply(op, a, b) = Quotient(a, b)
    BY <1>6 DEF Apply
  <2>2. CASE b.n = 0
    BY <2>1, <2>2 DEF Quotient
  <2>3. CASE b.n # 0
    <3> DEFINE type == IF Common(a, b) = "int" THEN "float" ELSE Common(a, b)
    <3>1. type \in {"int", "frac", "float"}
      BY <1>1
    <3>2. Quotient(a, b) = Number(type, a.n * b.d, a.d * b.n)
      BY <2>3 DEF Quotient
    <3> HIDE DEF type
    <3> QED
      BY <1>2, <2>1, <2>3, <3>1, <3>2, NumberValue
  <2> QED
    BY <2>2, <2>3
<1>7. CASE op = "//"
  <2>1. Apply(op, a, b) = FloorQuotient(a, b)
    BY <1>7 DEF Apply
  <2>2. CASE b.n = 0
    BY <2>1, <2>2 DEF FloorQuotient
  <2>3. CASE b.n # 0
    <3> DEFINE type == IF Common(a, b) = "float" THEN "float" ELSE "int"
    <3>1. type \in {"int", "frac", "float"}
      OBVIOUS
    <3>2. FloorQuotient(a, b) = Number(type, Floor(a.n * b.d, a.d * b.n), 1)
      BY <2>3 DEF FloorQuotient
    <3>3. Floor(a.n * b.d, a.d * b.n) \in Int
      BY <1>2, <2>3, FloorInt
    <3> HIDE DEF type
    <3> QED
      BY <2>1, <3>1, <3>2, <3>3, NumberValue
  <2> QED
    BY <2>2, <2>3
<1>8. CASE op = "%"
  <2>1. Apply(op, a, b) = Remainder(a, b)
    BY <1>8 DEF Apply
  <2>2. CASE b.n = 0
    BY <2>1, <2>2 DEF Remainder
  <2>3. CASE b.n # 0
    <3>1. Remainder(a, b) = Number(Common(a, b), Left(a, b), a.d * b.d)
      BY <2>3 DEF Remainder, Left
    <3>2. Left(a, b) \in Int
      BY <1>1, <2>3, LeftInt
    <3> QED
      BY <1>1, <1>2, <2>1, <3>1, <3>2, NumberValue
  <2> QED
    BY <2>2, <2>3
<1>9. CASE op = "**"
  <2>1. Apply(op, a, b) = Power(a, b)
    BY <1>9 DEF Apply
  <2> QED
    BY <2>1, PowerValue
<1> QED
  BY <1>3, <1>4, <1>5, <1>6, <1>7, <1>8, <1>9 DEF Binary

-----------------------------------------------------------------------------
(* Recursion and induction over trees *)

LEMMA TreeFacts ==
    ASSUME NEW t \in Tree
    PROVE  /\ Nodes[t] \in Nat
           /\ \A s \in Operands(t) : s \in Tree /\ Nodes[s] < Nodes[t]
           /\ t.op = "number" => t.n \in Int /\ t.d \in Nat \ {0}
  BY SafeArithAssumption

\* What holds of a tree whenever it holds of its operands, holds of all trees.
LEMMA TreeInduction ==
    ASSUME NEW S, \A t \in Tree : (\A s \in Operands(t) : s \in S) => t \in S
    PROVE  \A t \in Tree : t \in S
<1> DEFINE U == {n \in Nat : \A t \in Tree : Nodes[t] < n => t \in S}
<1>1. 0 \in U
  BY TreeFacts
<1>2. ASSUME NEW n \in Nat, n \in U
      PROVE  n + 1 \in U
  <2> SUFFICES ASSUME NEW t \in Tree, Nodes[t] < n + 1
               PROVE  t \in S
    OBVIOUS
  <2>1. ASSUME NEW s \in Operands(t)
        PROVE  s \in S
    <3>1. s \in Tree /\ Nodes[s] \in Nat /\ Nodes[t] \in Nat /\ Nodes[s] < Nodes[t]
      BY TreeFacts
    <3> QED
      BY <1>2, <3>1
  <2> QED
    BY <2>1
<1>3. \A n \in Nat : n \in U
  <2> HIDE DEF U
  <2> QED
    BY <1>1, <1>2, DepthInduction
<1>4. ASSUME NEW t \in Tree
      PROVE  t \in S
  <2>1. Nodes[t] + 1 \in Nat /\ Nodes[t] < Nodes[t] + 1
    BY TreeFacts
  <2>2. Nodes[t] + 1 \in U
    BY <1>3, <2>1
  <2> QED
    BY <2>1, <2>2
<1> QED
  BY <1>4

\* A step looks at the values at the operands only.
Local(S, step) ==
    \A f, g \in [Tree -> S], t \in Tree :
        (\A s \in Operands(t) : f[s] = g[s]) => step[f][t] = step[g][t]

LEMMA TreeRecursion ==
    ASSUME NEW S, NEW b \in S, NEW step \in [[Tree -> S] -> [Tree -> S]], Local(S, step)
    PROVE  \E f \in [Tree -> S] : f = step[f]
<1> DEFINE base == [t \in Tree |-> b]
<1>1. PICK F : Iteration(F, [Tree -> S], base, step)
  <2>1. base \in [Tree -> S]
    OBVIOUS
  <2> HIDE DEF base
  <2> QED
    BY <2>1, Iterates
<1>2. F \in [Nat -> [Tree -> S]] /\ \A i \in Nat : F[i + 1] = step[F[i]]
  BY <1>1 DEF Iteration
<1> DEFINE U == {n \in Nat : \A t \in Tree : Nodes[t] < n => F[n + 1][t] = F[n][t]}
<1>3. 0 \in U
  BY TreeFacts
<1>4. ASSUME NEW n \in Nat, n \in U
      PROVE  n + 1 \in U
  <2> SUFFICES ASSUME NEW t \in Tree, Nodes[t] < n + 1
               PROVE  F[(n + 1) + 1][t] = F[n + 1][t]
    OBVIOUS
  <2>1. ASSUME NEW s \in Operands(t)
        PROVE  F[n + 1][s] = F[n][s]
    <3>1. s \in Tree /\ Nodes[s] \in Nat /\ Nodes[t] \in Nat /\ Nodes[s] < Nodes[t]
      BY TreeFacts
    <3> QED
      BY <1>4, <3>1
  <2>2. /\ F[n] \in [Tree -> S] /\ F[n + 1] \in [Tree -> S]
        /\ F[n + 1] = step[F[n]] /\ F[(n + 1) + 1] = step[F[n + 1]]
    BY <1>2
  <2> QED
    BY <2>1, <2>2 DEF Local
<1>5. \A n \in Nat : n \in U
  <2> HIDE DEF U
  <2> QED
    BY <1>3, <1>4, DepthInduction
<1> DEFINE V == {j \in Nat : \A t \in Tree : F[(Nodes[t] + 1) + j][t] = F[Nodes[t] + 1][t]}
<1>6. 0 \in V
  <2>1. \A t \in Tree : (Nodes[t] + 1) + 0 = Nodes[t] + 1
    BY TreeFacts
  <2> QED
    BY <2>1
<1>7. ASSUME NEW j \in Nat, j \in V
      PROVE  j + 1 \in V
  <2> SUFFICES ASSUME NEW t \in Tree
               PROVE  F[(Nodes[t] + 1) + (j + 1)][t] = F[Nodes[t] + 1][t]
    OBVIOUS
  <2> DEFINE m == (Nodes[t] + 1) + j
  <2>1. m \in Nat /\ Nodes[t] < m /\ (Nodes[t] + 1) + (j + 1) = m + 1
    BY TreeFacts
  <2>2. F[m][t] = F[Nodes[t] + 1][t]
    BY <1>7
  <2> HIDE DEF m
  <2>3. F[m + 1][t] = F[m][t]
    BY <1>5, <2>1
  <2> QED
    BY <2>1, <2>2, <2>3
<1>8. \A j \in Nat : j \in V
  <2> HIDE DEF V
  <2> QED
    BY <1>6, <1>7, DepthInduction
<1> DEFINE f == [t \in Tree |-> F[Nodes[t] + 1][t]]
<1>9. f \in [Tree -> S]
  BY <1>2, TreeFacts
<1>10. ASSUME NEW t \in Tree
       PROVE  f[t] = step[f][t]
  <2> DEFINE n == Nodes[t]
  <2>1. n \in Nat /\ F[n] \in [Tree -> S] /\ F[n + 1] = step[F[n]]
    BY <1>2, TreeFacts
  <2>2. ASSUME NEW s \in Operands(t)
        PROVE  f[s] = F[n][s]
    <3>1. s \in Tree /\ Nodes[s] \in Nat /\ Nodes[s] < n
      BY TreeFacts
    <3> DEFINE j == n - (Nodes[s] + 1)
    <3>2. j \in Nat /\ (Nodes[s] + 1) + j = n
      BY <2>1, <3>1
    <3> HIDE DEF j
    <3>3. F[(Nodes[s] + 1) + j][s] = F[Nodes[s] + 1][s]
      BY <1>8, <3>1, <3>2
    <3> QED
      BY <3>1, <3>2, <3>3
  <2>3. f[t] = F[n + 1][t]
    OBVIOUS
  <2> HIDE DEF f, n
  <2> QED
    BY <1>9, <2>1, <2>2, <2>3 DEF Local
<1> HIDE DEF f
<1>11. step[f] \in [Tree -> S]
  BY <1>9
<1>12. f = step[f]
  BY <1>9, <1>10, <1>11
<1> QED
  BY <1>9, <1>12

-----------------------------------------------------------------------------
(* The recursive definitions *)

NumericAt(f, t) ==
    IF t.op = "number" THEN Literal(t)
    ELSE IF t.op \in Unary THEN OneOperand(t.op, f[t.arg])
    ELSE IF t.op \in Binary THEN TwoOperands(t.op, f[t.left], f[t.right])
    ELSE Error

ExactAt(f, t) ==
    IF t.op = "number" THEN Rational("frac", t.n, t.d)
    ELSE IF t.op \in Unary THEN ExactOne(t.op, f[t.arg])
    ELSE IF t.op \in Binary THEN ExactTwo(t.op, f[t.left], f[t.right])
    ELSE Error

HasFloorAt(f, t) == t.op = "//" \/ \E s \in Operands(t) : f[s]
DividesFloorAt(f, t) ==
    \/ t.op \in {"/", "**"} /\ \E s \in Operands(t) : HasFloor[s]
    \/ \E s \in Operands(t) : f[s]

LEMMA OperandFacts ==
    ASSUME NEW t
    PROVE  /\ t.op \in Unary => Operands(t) = {t.arg}
           /\ t.op \in Binary => Operands(t) = {t.left, t.right}
           /\ t.op = "number" => t.op \notin Unary /\ t.op \notin Binary
           /\ t.op \in Unary => t.op \notin Binary
  BY DEF Operands, Unary, Binary

LEMMA HasFloorDefined ==
    \A t \in Tree : HasFloor[t] \in BOOLEAN /\ HasFloor[t] = HasFloorAt(HasFloor, t)
<1> DEFINE step == [f \in [Tree -> BOOLEAN] |-> [t \in Tree |-> HasFloorAt(f, t)]]
<1>1. step \in [[Tree -> BOOLEAN] -> [Tree -> BOOLEAN]]
  BY DEF HasFloorAt
<1>2. Local(BOOLEAN, step)
  <2> SUFFICES ASSUME NEW f \in [Tree -> BOOLEAN], NEW g \in [Tree -> BOOLEAN], NEW t \in Tree,
                      \A s \in Operands(t) : f[s] = g[s]
               PROVE  HasFloorAt(f, t) = HasFloorAt(g, t)
    BY DEF Local
  <2> QED
    BY DEF HasFloorAt
<1>3. \E f \in [Tree -> BOOLEAN] : f = step[f]
  <2> HIDE DEF step
  <2> QED
    BY <1>1, <1>2, TreeRecursion
<1>4. PICK f \in [Tree -> BOOLEAN] : f = [t \in Tree |-> HasFloorAt(f, t)]
  BY <1>3
<1>5. HasFloor = CHOOSE h : h = [t \in Tree |-> HasFloorAt(h, t)]
  BY DEF HasFloor, HasFloorAt
<1>6. HasFloor = [t \in Tree |-> HasFloorAt(HasFloor, t)]
  BY <1>4, <1>5
<1>7. \A t \in Tree : HasFloorAt(HasFloor, t) \in BOOLEAN
  BY DEF HasFloorAt
<1> QED
  BY <1>6, <1>7

LEMMA DividesFloorDefined ==
    \A t \in Tree : /\ DividesFloor[t] \in BOOLEAN
                    /\ DividesFloor[t] = DividesFloorAt(DividesFloor, t)
<1> DEFINE step == [f \in [Tree -> BOOLEAN] |-> [t \in Tree |-> DividesFloorAt(f, t)]]
<1>1. step \in [[Tree -> BOOLEAN] -> [Tree -> BOOLEAN]]
  BY DEF DividesFloorAt
<1>2. Local(BOOLEAN, step)
  <2> SUFFICES ASSUME NEW f \in [Tree -> BOOLEAN], NEW g \in [Tree -> BOOLEAN], NEW t \in Tree,
                      \A s \in Operands(t) : f[s] = g[s]
               PROVE  DividesFloorAt(f, t) = DividesFloorAt(g, t)
    BY DEF Local
  <2> QED
    BY DEF DividesFloorAt
<1>3. \E f \in [Tree -> BOOLEAN] : f = step[f]
  <2> HIDE DEF step
  <2> QED
    BY <1>1, <1>2, TreeRecursion
<1>4. PICK f \in [Tree -> BOOLEAN] : f = [t \in Tree |-> DividesFloorAt(f, t)]
  BY <1>3
<1>5. DividesFloor = CHOOSE h : h = [t \in Tree |-> DividesFloorAt(h, t)]
  BY DEF DividesFloor, DividesFloorAt
<1>6. DividesFloor = [t \in Tree |-> DividesFloorAt(DividesFloor, t)]
  BY <1>4, <1>5
<1>7. \A t \in Tree : DividesFloorAt(DividesFloor, t) \in BOOLEAN
  BY DEF DividesFloorAt
<1> QED
  BY <1>6, <1>7

Values == Value \cup {Error}

LEMMA BoundedValue ==
    ASSUME NEW a \in Values
    PROVE  Bounded(a) \in Values /\ Bounded(a) \in {a, Error}
  BY DEF Bounded, Values

LEMMA SignedValue ==
    ASSUME NEW a \in Value, NEW op
    PROVE  Signed(op, a) \in Value
  BY DEF Value, Signed

LEMMA OneOperandValue ==
    ASSUME NEW op, NEW a \in Values
    PROVE  OneOperand(op, a) \in Values /\ ExactOne(op, a) \in Values
<1>1. CASE a = Error
  BY <1>1 DEF OneOperand, ExactOne, Values
<1>2. CASE a \in Value
  <2>1. Signed(op, a) \in Values
    BY <1>2, SignedValue DEF Values
  <2>2. Bounded(Signed(op, a)) \in Values
    BY <2>1, BoundedValue
  <2> QED
    BY <1>2, <2>1, <2>2 DEF OneOperand, ExactOne, Values
<1> QED
  BY <1>1, <1>2 DEF Values

LEMMA OperandValue ==
    ASSUME NEW a \in Value, NEW b \in Value
    PROVE  Operand(a, b) \in Value
<1>1. Float(a.n, a.d) \in Value
  BY ValueFraction, FloatValue DEF Fraction
<1> QED
  BY <1>1 DEF Operand

LEMMA TwoOperandsValue ==
    ASSUME NEW op \in Binary, NEW a \in Values, NEW b \in Values
    PROVE  TwoOperands(op, a, b) \in Values /\ ExactTwo(op, a, b) \in Values
<1>1. CASE Error \in {a, b}
  BY <1>1 DEF TwoOperands, ExactTwo, Values
<1>2. CASE Error \notin {a, b}
  <2>1. a \in Value /\ b \in Value
    BY <1>2 DEF Values
  <2>2. Operand(a, b) \in Value /\ Operand(b, a) \in Value
    BY <2>1, OperandValue
  <2>3. Apply(op, Operand(a, b), Operand(b, a)) \in Values
    BY <2>2, ApplyValue DEF Values
  <2>4. TwoOperands(op, a, b) \in Values
    BY <1>2, <2>3, BoundedValue DEF TwoOperands
  <2> DEFINE value == Apply(op, a, b)
  <2>5. value \in Value \cup {Error}
    BY <2>1, ApplyValue
  <2>6. ExactTwo(op, a, b) = IF value = Error THEN Error ELSE Rational("frac", value.n, value.d)
    BY <1>2 DEF ExactTwo
  <2> HIDE DEF value
  <2>7. CASE value = Error
    BY <2>6, <2>7, <2>4 DEF Values
  <2>8. CASE value \in Value
    <3>1. value.n \in Int /\ value.d \in Int \ {0}
      BY <2>8, ValueFraction DEF Fraction
    <3>2. Rational("frac", value.n, value.d) \in Value
      BY <3>1, RationalValue
    <3> QED
      BY <2>4, <2>6, <3>2 DEF Values
  <2> QED
    BY <2>5, <2>7, <2>8
<1> QED
  BY <1>1, <1>2

\* Each step gives a value or an error, and looks at the operands only.
LEMMA NumberSteps ==
    ASSUME NEW f \in [Tree -> Values], NEW t \in Tree
    PROVE  NumericAt(f, t) \in Values /\ ExactAt(f, t) \in Values
<1>1. CASE t.op = "number"
  <2>1. t.n \in Int /\ t.d \in Int \ {0}
    BY <1>1, TreeFacts
  <2>2. Rational("frac", t.n, t.d) \in Values
    BY <2>1, RationalValue DEF Values
  <2>3. NumericAt(f, t) = Bounded(Rational("frac", t.n, t.d))
    BY <1>1, OperandFacts DEF NumericAt, Literal
  <2>4. ExactAt(f, t) = Rational("frac", t.n, t.d)
    BY <1>1, OperandFacts DEF ExactAt
  <2> QED
    BY <2>2, <2>3, <2>4, BoundedValue
<1>2. CASE t.op \in Unary
  <2>1. f[t.arg] \in Values
    BY <1>2, OperandFacts, TreeFacts
  <2>2. NumericAt(f, t) = OneOperand(t.op, f[t.arg]) /\ ExactAt(f, t) = ExactOne(t.op, f[t.arg])
    BY <1>2, OperandFacts DEF NumericAt, ExactAt
  <2> QED
    BY <2>1, <2>2, OneOperandValue
<1>3. CASE t.op \in Binary
  <2>1. f[t.left] \in Values /\ f[t.right] \in Values
    BY <1>3, OperandFacts, TreeFacts
  <2>2. /\ NumericAt(f, t) = TwoOperands(t.op, f[t.left], f[t.right])
        /\ ExactAt(f, t) = ExactTwo(t.op, f[t.left], f[t.right])
    BY <1>3, OperandFacts DEF NumericAt, ExactAt
  <2> QED
    BY <1>3, <2>1, <2>2, TwoOperandsValue
<1>4. CASE t.op # "number" /\ t.op \notin Unary /\ t.op \notin Binary
  BY <1>4 DEF NumericAt, ExactAt, Values
<1> QED
  BY <1>1, <1>2, <1>3, <1>4

LEMMA NumberStepsLocal ==
    ASSUME NEW f, NEW g, NEW t, \A s \in Operands(t) : f[s] = g[s]
    PROVE  NumericAt(f, t) = NumericAt(g, t) /\ ExactAt(f, t) = ExactAt(g, t)
<1>1. CASE t.op \in Unary
  BY <1>1, OperandFacts DEF NumericAt, ExactAt
<1>2. CASE t.op \in Binary
  <2>1. f[t.left] = g[t.left] /\ f[t.right] = g[t.right]
    BY <1>2, OperandFacts
  <2> QED
    BY <1>2, <2>1, OperandFacts DEF NumericAt, ExactAt
<1>3. CASE t.op \notin Unary /\ t.op \notin Binary
  BY <1>3 DEF NumericAt, ExactAt
<1> QED
  BY <1>1, <1>2, <1>3

\* A function that is what a local step makes of it has the step's values.
LEMMA TreeValues ==
    ASSUME NEW S, NEW b \in S, NEW step \in [[Tree -> S] -> [Tree -> S]], NEW f,
           \A g \in [Tree -> S], t \in Tree :
               (\A s \in Operands(t) : g[s] = f[s]) => f[t] = step[g][t]
    PROVE  \A t \in Tree : f[t] \in S
<1> DEFINE U == {t \in Tree : f[t] \in S}
<1>1. ASSUME NEW t \in Tree, \A s \in Operands(t) : s \in U
      PROVE  t \in U
  <2> DEFINE g == [s \in Tree |-> IF s \in Operands(t) THEN f[s] ELSE b]
  <2>1. g \in [Tree -> S]
    BY <1>1
  <2>2. \A s \in Operands(t) : g[s] = f[s]
    BY TreeFacts
  <2> HIDE DEF g
  <2>3. f[t] = step[g][t] /\ step[g] \in [Tree -> S]
    BY <2>1, <2>2
  <2> QED
    BY <2>3
<1>2. \A t \in Tree : t \in U
  <2> HIDE DEF U
  <2> QED
    BY <1>1, TreeInduction
<1> QED
  BY <1>2

LEMMA NumericDefined == \A t \in Tree : Numeric[t] \in Values /\ Numeric[t] = NumericAt(Numeric, t)
<1> DEFINE step == [f \in [Tree -> Values] |-> [t \in Tree |-> NumericAt(f, t)]]
<1>1. step \in [[Tree -> Values] -> [Tree -> Values]]
  BY NumberSteps
<1>2. Local(Values, step)
  BY NumberStepsLocal DEF Local
<1>3. Error \in Values
  BY DEF Values
<1>4. \E f \in [Tree -> Values] : f = step[f]
  <2> HIDE DEF step
  <2> QED
    BY <1>1, <1>2, <1>3, TreeRecursion
<1>5. PICK f \in [Tree -> Values] : f = [t \in Tree |-> NumericAt(f, t)]
  BY <1>4
<1>6. Numeric = CHOOSE h : h = [t \in Tree |-> NumericAt(h, t)]
  BY DEF Numeric, NumericAt
<1>7. Numeric = [t \in Tree |-> NumericAt(Numeric, t)]
  BY <1>5, <1>6
<1>8. ASSUME NEW g \in [Tree -> Values], NEW t \in Tree,
             \A s \in Operands(t) : g[s] = Numeric[s]
      PROVE  Numeric[t] = step[g][t]
  BY <1>7, <1>8, NumberStepsLocal
<1>9. \A t \in Tree : Numeric[t] \in Values
  <2> HIDE DEF step
  <2> QED
    BY <1>1, <1>3, <1>8, TreeValues
<1> QED
  BY <1>7, <1>9

LEMMA ExactDefined == \A t \in Tree : Exact[t] \in Values /\ Exact[t] = ExactAt(Exact, t)
<1> DEFINE step == [f \in [Tree -> Values] |-> [t \in Tree |-> ExactAt(f, t)]]
<1>1. step \in [[Tree -> Values] -> [Tree -> Values]]
  BY NumberSteps
<1>2. Local(Values, step)
  BY NumberStepsLocal DEF Local
<1>3. Error \in Values
  BY DEF Values
<1>4. \E f \in [Tree -> Values] : f = step[f]
  <2> HIDE DEF step
  <2> QED
    BY <1>1, <1>2, <1>3, TreeRecursion
<1>5. PICK f \in [Tree -> Values] : f = [t \in Tree |-> ExactAt(f, t)]
  BY <1>4
<1>6. Exact = CHOOSE h : h = [t \in Tree |-> ExactAt(h, t)]
  BY DEF Exact, ExactAt
<1>7. Exact = [t \in Tree |-> ExactAt(Exact, t)]
  BY <1>5, <1>6
<1>8. ASSUME NEW g \in [Tree -> Values], NEW t \in Tree,
             \A s \in Operands(t) : g[s] = Exact[s]
      PROVE  Exact[t] = step[g][t]
  BY <1>7, <1>8, NumberStepsLocal
<1>9. \A t \in Tree : Exact[t] \in Values
  <2> HIDE DEF step
  <2> QED
    BY <1>1, <1>3, <1>8, TreeValues
<1> QED
  BY <1>7, <1>9

-----------------------------------------------------------------------------
(* Evaluation is exact *)

\* No float, and the same fraction as x.
Agrees(a, x) ==
    /\ a \in Value /\ a.type \in {"int", "frac"}
    /\ x \in Value /\ x.type = "frac"
    /\ a.n = x.n /\ a.d = x.d

LEMMA SameFraction ==
    ASSUME NEW t1 \in {"int", "frac"}, NEW t2 \in {"int", "frac"},
           NEW n \in Int, NEW d \in Int \ {0}
    PROVE  LET r == Number(t1, n, d)
               s == Number(t2, n, d)
           IN  /\ r # Error /\ s # Error /\ r.type = t1
               /\ Agrees(r, Rational("frac", s.n, s.d))
<1> DEFINE r == Rational(t1, n, d)
           s == Rational(t2, n, d)
<1>1. Number(t1, n, d) = r /\ Number(t2, n, d) = s
  BY DEF Number
<1>2. /\ r \in Value /\ r.type = t1 /\ s \in Value
      /\ Rational("frac", s.n, s.d) = [type |-> "frac", n |-> s.n, d |-> s.d]
      /\ s.n = r.n /\ s.d = r.d
  BY RationalValue
<1> HIDE DEF r, s
<1>3. [type |-> "frac", n |-> s.n, d |-> s.d] \in Value
  BY <1>2, ValueFraction DEF Fraction, Value
<1> QED
  BY <1>1, <1>2, <1>3, SafeArithAssumption DEF Agrees

AgreeFor(op, a, b, x, y) ==
    /\ Apply(op, x, y) # Error
    /\ Agrees(Apply(op, a, b), Rational("frac", Apply(op, x, y).n, Apply(op, x, y).d))
    /\ Apply(op, a, b).type = "int" => op = "//" \/ a.type = "int" \/ b.type = "int"

\* An operator on equal fractions gives equal fractions.
LEMMA ApplyExact ==
    ASSUME NEW op \in Binary, NEW a, NEW b, NEW x, NEW y, Agrees(a, x), Agrees(b, y),
           op \in {"/", "**"} => a.type = "frac" /\ b.type = "frac",
           Apply(op, a, b) # Error
    PROVE  AgreeFor(op, a, b, x, y)
<1>1. /\ Fraction(a) /\ Fraction(b)
      /\ x.n = a.n /\ x.d = a.d /\ y.n = b.n /\ y.d = b.d
      /\ a \in Value /\ b \in Value /\ x \in Value /\ y \in Value
  BY ValueFraction DEF Agrees
<1>2. /\ a.n * b.d \in Int /\ b.n * a.d \in Int /\ a.n * b.n \in Int
      /\ a.d * b.d \in Int \ {0}
      /\ b.n # 0 => a.d * b.n \in Int \ {0} /\ b.n * a.d \in Int \ {0}
  BY <1>1, Products
<1> DEFINE type == Common(a, b)
<1>3. /\ type \in {"int", "frac"} /\ Common(x, y) = "frac"
      /\ type = "int" => a.type = "int"
  BY DEF Common, Agrees
<1> HIDE DEF type
<1>4. ASSUME NEW n \in Int, NEW d \in Int \ {0},
             Apply(op, a, b) = Number(type, n, d), Apply(op, x, y) = Number("frac", n, d)
      PROVE  AgreeFor(op, a, b, x, y)
  BY <1>3, <1>4, SameFraction DEF AgreeFor
<1>5. CASE op = "+"
  <2>1. a.n * b.d + b.n * a.d \in Int
    BY <1>2
  <2>2. /\ Apply(op, a, b) = Number(type, a.n * b.d + b.n * a.d, a.d * b.d)
        /\ Apply(op, x, y) = Number("frac", a.n * b.d + b.n * a.d, a.d * b.d)
    BY <1>1, <1>3, <1>5 DEF Apply, type
  <2> QED
    BY <1>2, <1>4, <2>1, <2>2
<1>6. CASE op = "-"
  <2>1. a.n * b.d - b.n * a.d \in Int
    BY <1>2
  <2>2. /\ Apply(op, a, b) = Number(type, a.n * b.d - b.n * a.d, a.d * b.d)
        /\ Apply(op, x, y) = Number("frac", a.n * b.d - b.n * a.d, a.d * b.d)
    BY <1>1, <1>3, <1>6 DEF Apply, type
  <2> QED
    BY <1>2, <1>4, <2>1, <2>2
<1>7. CASE op = "*"
  <2>1. /\ Apply(op, a, b) = Number(type, a.n * b.n, a.d * b.d)
        /\ Apply(op, x, y) = Number("frac", a.n * b.n, a.d * b.d)
    BY <1>1, <1>3, <1>7 DEF Apply, type
  <2> QED
    BY <1>2, <1>4, <2>1
<1>8. CASE op = "%"
  <2>1. Apply(op, a, b) = Remainder(a, b) /\ Apply(op, x, y) = Remainder(x, y)
    BY <1>8 DEF Apply
  <2>2. b.n # 0
    BY <2>1 DEF Remainder
  <2>3. Left(x, y) = Left(a, b) /\ Left(a, b) \in Int
    BY <1>1, <2>2, LeftInt DEF Left
  <2>4. /\ Apply(op, a, b) = Number(type, Left(a, b), a.d * b.d)
        /\ Apply(op, x, y) = Number("frac", Left(x, y), x.d * y.d)
    BY <1>1, <1>3, <2>1, <2>2 DEF Remainder, Left, type
  <2> QED
    BY <1>1, <1>2, <1>4, <2>3, <2>4
<1>9. CASE op = "//"
  <2>1. Apply(op, a, b) = FloorQuotient(a, b) /\ Apply(op, x, y) = FloorQuotient(x, y)
    BY <1>9 DEF Apply
  <2>2. b.n # 0
    BY <2>1 DEF FloorQuotient
  <2> DEFINE n == Floor(a.n * b.d, a.d * b.n)
  <2>3. n \in Int
    BY <1>2, <2>2, FloorInt
  <2>4. Apply(op, a, b) = Number("int", n, 1) /\ Apply(op, x, y) = Number("int", n, 1)
    BY <1>1, <1>3, <2>1, <2>2 DEF FloorQuotient, type
  <2> HIDE DEF n
  <2> QED
    BY <1>9, <2>3, <2>4, SameFraction DEF AgreeFor
<1>10. CASE op \in {"/", "**"}
  <2>1. a = x /\ b = y
    BY <1>1, <1>10 DEF Value, Agrees
  <2>2. \E n \in Int, d \in Int \ {0} : Apply(op, a, b) = Number("frac", n, d)
    <3>1. CASE op = "/"
      <4>1. Apply(op, a, b) = Quotient(a, b)
        BY <3>1 DEF Apply
      <4>2. b.n # 0
        BY <4>1 DEF Quotient
      <4>3. Apply(op, a, b) = Number("frac", a.n * b.d, a.d * b.n)
        BY <1>3, <2>1, <4>1, <4>2 DEF Quotient
      <4> QED
        BY <1>2, <4>2, <4>3
    <3>2. CASE op = "**"
      <4> DEFINE k == b.n \div b.d
      <4>1. Apply(op, a, b) = Power(a, b)
        BY <3>2 DEF Apply
      <4>2. a.type = "frac" /\ b.type = "frac" /\ k \in Int
        BY <1>1, <1>10 DEF Fraction
      <4>3. \/ k = 0 /\ Power(a, b) = Number("frac", 1, 1)
            \/ k > 0 /\ Power(a, b) = Number("frac", ToPower(a.n, k), ToPower(a.d, k))
            \/ k < 0 /\ a.n # 0 /\ Power(a, b) = Number("frac", ToPower(a.d, -k), ToPower(a.n, -k))
        BY <4>1, <4>2 DEF Power
      <4> HIDE DEF k
      <4>4. CASE k = 0 /\ Power(a, b) = Number("frac", 1, 1)
        BY <4>1, <4>4
      <4>5. CASE k > 0 /\ Power(a, b) = Number("frac", ToPower(a.n, k), ToPower(a.d, k))
        <5>1. k \in Nat /\ a.n \in Int /\ a.d \in Int /\ a.d # 0
          BY <1>1, <4>2, <4>5 DEF Fraction
        <5>2. ToPower(a.n, k) \in Int
          BY <5>1, PowerFacts
        <5>3. ToPower(a.d, k) \in Int /\ ToPower(a.d, k) # 0
          BY <5>1, PowerFacts
        <5> QED
          BY <4>1, <4>5, <5>2, <5>3
      <4>6. CASE /\ k < 0 /\ a.n # 0
                 /\ Power(a, b) = Number("frac", ToPower(a.d, -k), ToPower(a.n, -k))
        <5>1. -k \in Nat /\ a.n \in Int /\ a.d \in Int /\ a.n # 0
          BY <1>1, <4>2, <4>6 DEF Fraction
        <5>2. ToPower(a.d, -k) \in Int
          BY <5>1, PowerFacts
        <5>3. ToPower(a.n, -k) \in Int /\ ToPower(a.n, -k) # 0
          BY <5>1, PowerFacts
        <5> QED
          BY <4>1, <4>6, <5>2, <5>3
      <4> QED
        BY <4>3, <4>4, <4>5, <4>6
    <3> QED
      BY <1>10, <3>1, <3>2
  <2>3. PICK n \in Int, d \in Int \ {0} : Apply(op, a, b) = Number("frac", n, d)
    BY <2>2
  <2> QED
    BY <2>1, <2>3, SameFraction DEF AgreeFor
<1> QED
  BY <1>5, <1>6, <1>7, <1>8, <1>9, <1>10 DEF Binary

LEMMA BoundedKeeps == ASSUME NEW a, Bounded(a) # Error PROVE Bounded(a) = a /\ a # Error
  BY DEF Bounded

LEMMA SignedAgrees ==
    ASSUME NEW op, NEW a, NEW x, Agrees(a, x)
    PROVE  Agrees(Signed(op, a), Signed(op, x)) /\ Signed(op, a).type = a.type
<1>1. CASE op = "minus"
  <2>1. Signed(op, a) = [a EXCEPT !.n = - a.n] /\ Signed(op, x) = [x EXCEPT !.n = - x.n]
    BY <1>1 DEF Signed
  <2>2. a \in Value /\ x \in Value /\ Signed(op, a) \in Value /\ Signed(op, x) \in Value
    BY SignedValue DEF Agrees
  <2>3. /\ Signed(op, a).n = - a.n /\ Signed(op, x).n = - x.n
        /\ Signed(op, a).d = a.d /\ Signed(op, x).d = x.d
        /\ Signed(op, a).type = a.type /\ Signed(op, x).type = x.type
    BY <2>1, <2>2 DEF Value
  <2> QED
    BY <2>2, <2>3 DEF Agrees
<1>2. CASE op # "minus"
  BY <1>2 DEF Signed
<1> QED
  BY <1>1, <1>2

Same(t) ==
    ~ DividesFloor[t] /\ Numeric[t] # Error =>
        /\ Agrees(Numeric[t], Exact[t])
        /\ Numeric[t].type = "int" => HasFloor[t]

\* Where no floor division is divided, divides or is raised to a power, what
\* evaluation gives is what exact arithmetic gives.
LEMMA NumericExact == \A t \in Tree : Same(t)
<1> DEFINE S == {t \in Tree : Same(t)}
<1>1. ASSUME NEW t \in Tree, \A s \in Operands(t) : s \in S
      PROVE  t \in S
  <2> SUFFICES ASSUME ~ DividesFloor[t], Numeric[t] # Error
               PROVE  /\ Agrees(Numeric[t], Exact[t])
                      /\ Numeric[t].type = "int" => HasFloor[t]
    BY DEF Same
  <2>1. Numeric[t] = NumericAt(Numeric, t) /\ Exact[t] = ExactAt(Exact, t)
    BY NumericDefined, ExactDefined
  <2>2. /\ HasFloor[t] <=> t.op = "//" \/ \E s \in Operands(t) : HasFloor[s]
        /\ t.op \in {"/", "**"} => \A s \in Operands(t) : ~ HasFloor[s]
        /\ \A s \in Operands(t) : ~ DividesFloor[s]
    BY HasFloorDefined, DividesFloorDefined DEF HasFloorAt, DividesFloorAt
  <2>3. \A s \in Operands(t) : s \in Tree /\ Same(s)
    BY <1>1
  <2>4. CASE t.op = "number"
    <3> DEFINE value == Rational("frac", t.n, t.d)
    <3>1. Numeric[t] = Bounded(value) /\ Exact[t] = value
      BY <2>1, <2>4, OperandFacts DEF NumericAt, ExactAt, Literal
    <3>2. value \in Value /\ value.type = "frac"
      <4>1. t.n \in Int /\ t.d \in Int \ {0}
        BY <2>4, TreeFacts
      <4> QED
        BY <4>1, RationalValue
    <3> HIDE DEF value
    <3> QED
      BY <3>1, <3>2, BoundedKeeps DEF Agrees
  <2>5. CASE t.op \in Unary
    <3> DEFINE a == Numeric[t.arg]
               x == Exact[t.arg]
    <3>1. t.arg \in Operands(t)
      BY <2>5, OperandFacts
    <3>2. Numeric[t] = OneOperand(t.op, a) /\ Exact[t] = ExactOne(t.op, x)
      BY <2>1, <2>5, OperandFacts DEF NumericAt, ExactAt
    <3>3. a # Error
      BY <3>2 DEF OneOperand
    <3>4. Agrees(a, x) /\ (a.type = "int" => HasFloor[t.arg])
      BY <2>2, <2>3, <3>1, <3>3 DEF Same
    <3> HIDE DEF a, x
    <3>5. x # Error
      BY <3>4, SafeArithAssumption DEF Agrees
    <3>6. Numeric[t] = Signed(t.op, a) /\ Exact[t] = Signed(t.op, x)
      BY <3>2, <3>3, <3>5, BoundedKeeps DEF OneOperand, ExactOne
    <3> QED
      BY <2>2, <3>1, <3>4, <3>6, SignedAgrees
  <2>6. CASE t.op \in Binary
    <3> DEFINE a == Numeric[t.left]
               b == Numeric[t.right]
               x == Exact[t.left]
               y == Exact[t.right]
    <3>1. t.left \in Operands(t) /\ t.right \in Operands(t)
      BY <2>6, OperandFacts
    <3>2. Numeric[t] = TwoOperands(t.op, a, b) /\ Exact[t] = ExactTwo(t.op, x, y)
      BY <2>1, <2>6, OperandFacts DEF NumericAt, ExactAt
    <3>3. a # Error /\ b # Error
      BY <3>2 DEF TwoOperands
    <3>4. /\ Agrees(a, x) /\ (a.type = "int" => HasFloor[t.left])
          /\ Agrees(b, y) /\ (b.type = "int" => HasFloor[t.right])
      BY <2>2, <2>3, <3>1, <3>3 DEF Same
    <3> HIDE DEF a, b, x, y
    <3>5. x # Error /\ y # Error
      BY <3>4, SafeArithAssumption DEF Agrees
    <3>6. Operand(a, b) = a /\ Operand(b, a) = b
      BY <3>4 DEF Operand, Agrees
    <3>7. Numeric[t] = Apply(t.op, a, b) /\ Apply(t.op, a, b) # Error
      <4>1. Numeric[t] = Bounded(Apply(t.op, a, b))
        BY <3>2, <3>3, <3>6 DEF TwoOperands
      <4> QED
        BY <4>1, BoundedKeeps
    <3>8. t.op \in {"/", "**"} => a.type = "frac" /\ b.type = "frac"
      BY <2>2, <3>1, <3>4 DEF Agrees
    <3>9. AgreeFor(t.op, a, b, x, y)
      BY <2>6, <3>4, <3>7, <3>8, ApplyExact
    <3>10. Exact[t] = Rational("frac", Apply(t.op, x, y).n, Apply(t.op, x, y).d)
      BY <3>2, <3>5, <3>9 DEF ExactTwo, AgreeFor
    <3> QED
      BY <2>2, <3>1, <3>4, <3>7, <3>9, <3>10 DEF AgreeFor
  <2>7. CASE t.op # "number" /\ t.op \notin Unary /\ t.op \notin Binary
    BY <2>1, <2>7 DEF NumericAt
  <2> QED
    BY <2>4, <2>5, <2>6, <2>7
<1>2. \A t \in Tree : t \in S
  <2> HIDE DEF S
  <2> QED
    BY <1>1, TreeInduction
<1> QED
  BY <1>2

-----------------------------------------------------------------------------
(* What a definitive verdict says *)

LEMMA CompareSame ==
    ASSUME NEW op, NEW a, NEW b, NEW x, NEW y, Agrees(a, x), Agrees(b, y)
    PROVE  Compare(op, a, b) = Compare(op, x, y)
<1>1. a.n = x.n /\ a.d = x.d /\ b.n = y.n /\ b.d = y.d
  BY DEF Agrees
<1> QED
  BY <1>1 DEF Compare

LEMMA EvaluationIsExact ==
    ASSUME NEW r, Relation(r), \A i \in DOMAIN r.operands : ~ DividesFloor[r.operands[i]],
           EvaluateRelation(r) # "ERROR"
    PROVE  EvaluateRelation(r) = IF IsTrue(r) THEN "PASS" ELSE "FAIL"
<1> DEFINE value == [i \in DOMAIN r.operands |-> Numeric[r.operands[i]]]
           exact == [i \in DOMAIN r.operands |-> Exact[r.operands[i]]]
<1>1. \A i \in DOMAIN value : value[i] # Error
  BY DEF EvaluateRelation
<1>2. EvaluateRelation(r) =
        IF \A i \in DOMAIN r.comparators : Compare(r.comparators[i], value[i], value[i + 1])
        THEN "PASS" ELSE "FAIL"
  BY DEF EvaluateRelation
<1>3. ASSUME NEW i \in DOMAIN r.operands
      PROVE  Agrees(value[i], exact[i])
  <2>1. r.operands[i] \in Tree
    BY DEF Relation
  <2> QED
    BY <1>1, <2>1, NumericExact DEF Same
<1>4. \A i \in DOMAIN r.comparators : i \in DOMAIN r.operands /\ i + 1 \in DOMAIN r.operands
  BY DEF Relation
<1>5. IsTrue(r) <=> \A i \in DOMAIN r.comparators :
                        Compare(r.comparators[i], exact[i], exact[i + 1])
  BY <1>4 DEF IsTrue
<1> HIDE DEF value, exact
<1>6. \A i \in DOMAIN r.comparators :
        Compare(r.comparators[i], value[i], value[i + 1])
          = Compare(r.comparators[i], exact[i], exact[i + 1])
  BY <1>3, <1>4, CompareSame
<1> QED
  BY <1>2, <1>5, <1>6

\* Where a definitive verdict comes from.
LEMMA DefinitiveVerdict ==
    ASSUME NEW cl \in Class, NEW R, NEW E
    PROVE  /\ Verdict(cl, "OK", R, E).status = "VERIFIED" => Definitive(R, "PASS", TRUE) # {}
           /\ Verdict(cl, "OK", R, E).status = "REFUTED" => Definitive(R, "FAIL", TRUE) # {}
<1> DEFINE s == Signal(R, E)
<1>1. Verdict(cl, "OK", R, E).status = Capped(s, cl)
  BY VerdictStatus DEF Incomplete
<1>2. /\ s \in Status
      /\ s = "VERIFIED" => Definitive(R, "PASS", TRUE) # {}
      /\ s = "REFUTED" => Definitive(R, "FAIL", TRUE) # {}
  BY DEF Signal, Told, Status, Positive
<1> HIDE DEF s
<1>3. Capped(s, cl) = "VERIFIED" => s = "VERIFIED"
  <2>1. SUFFICES ASSUME Capped(s, cl) = "VERIFIED"
                 PROVE  s = "VERIFIED"
    OBVIOUS
  <2>2. Ladder(Capped(s, cl)) <= Ladder(s)
    BY <1>2, CappedRung
  <2>3. Ladder(s) >= 5
    BY <1>2, <2>1, <2>2, Rungs, CappedRung
  <2> QED
    BY <1>2, <2>3 DEF Ladder, Status, Positive
<1>4. Capped(s, cl) = "REFUTED" => s = "REFUTED"
  BY <1>2, CappedFacts DEF Positive
<1> QED
  BY <1>1, <1>2, <1>3, <1>4

\* A definitive result on a lookup is the word of an issued record, and one
\* on a relation that of exact arithmetic on the text as written.
LEMMA DefinitiveResult ==
    ASSUME IInv, NEW v \in Results(request.verifiers, text), IsDefinitive(v), v.bound = TRUE
    PROVE  \/ /\ text.form = "lookup" /\ Registry[text.key] # Absent
              /\ Registry[text.key].trusted /\ Registry[text.key].authoritative
              /\ Registry[text.key].unaltered
              /\ v.outcome = IF Registry[text.key].value = text.expected THEN "PASS" ELSE "FAIL"
           \/ /\ text.form = "relation" /\ text.canonical
              /\ v.outcome = EvaluateRelation(text.relation)
<1>1. PICK w \in request.verifiers : Registered(w) /\ AppliesTo(w, text) /\ v = Verify(w, text)
  BY DEF Results
<1>2. CASE w = "arith"
  <2>1. IsFormal(text) /\ text.form = "relation"
    BY <1>1, <1>2 DEF AppliesTo, IsFormal
  <2>2. v = Result("INTRINSIC", EvaluateRelation(text.relation), BindingOK(text))
    BY <1>1, <1>2 DEF Verify, Arithmetic
  <2>3. v.outcome = EvaluateRelation(text.relation) /\ v.bound = BindingOK(text)
    BY <2>2 DEF Result
  <2> QED
    BY <2>1, <2>3 DEF BindingOK
<1>3. CASE w = "registry"
  <2> DEFINE record == Registry[text.key]
  <2>1. Text(text) /\ text.form = "lookup" /\ text.key \in DOMAIN Registry
    BY <1>1, <1>3, RequestFacts DEF AppliesTo, Text
  <2>2. record = Absent \/ record \in RegistryRecord
    BY <2>1, RegistryAssumption
  <2>3. v = LookUp(text)
    BY <1>1, <1>3 DEF Verify
  <2> HIDE DEF record
  <2>4. /\ record # Absent
        /\ v = [Result("SOURCED", IF record.value = text.expected THEN "PASS" ELSE "FAIL", TRUE)
                  EXCEPT !.authoritative = record.authoritative,
                         !.integrity = record.unaltered /\ record.trusted]
    BY <2>3 DEF LookUp, Result, record
  <2>5. /\ v.outcome = IF record.value = text.expected THEN "PASS" ELSE "FAIL"
        /\ v.kind = "SOURCED" /\ v.authoritative = record.authoritative
        /\ v.integrity = (record.unaltered /\ record.trusted)
    BY <2>4 DEF Result
  <2>6. v.integrity /\ v.authoritative
    BY <2>5 DEF IsDefinitive
  <2> QED
    BY <2>1, <2>4, <2>5, <2>6 DEF record
<1>4. CASE w = "llm-entailment"
  BY <1>1, <1>4 DEF Verify, Result, IsDefinitive
<1> QED
  BY <1>1, <1>2, <1>3, <1>4 DEF Registered

\* A definitive verdict is true: of a lookup by the operator's record, of a
\* relation by exact arithmetic on the text as it was written.
THEOREM DefinitiveVerdictsAreTrue == Spec => []DefinitiveIsTrue
<1>1. IInv => DefinitiveIsTrue
  <2> SUFFICES ASSUME IInv, pc = "done", decision.status \in {"VERIFIED", "REFUTED"}
               PROVE  IF text.form = "lookup"
                      THEN LET record == Registry[text.key]
                           IN  /\ record # Absent
                               /\ record.trusted /\ record.authoritative /\ record.unaltered
                               /\ decision.status = "VERIFIED" <=> record.value = text.expected
                      ELSE /\ text.form = "relation" /\ text.canonical
                           /\ \/ \E i \in DOMAIN text.relation.operands :
                                   DividesFloor[text.relation.operands[i]]
                              \/ decision.status = "VERIFIED" <=> IsTrue(text.relation)
    BY DEF DefinitiveIsTrue
  <2> DEFINE outcome == IF decision.status = "VERIFIED" THEN "PASS" ELSE "FAIL"
  <2>1. /\ decision = Verdict(Classify(text), "OK", returned, items)
        /\ returned = Results(request.verifiers, text)
        /\ Classify(text) \in Class
    BY DEF IInv, Decided, Admitted, VerdictOn, Classify, Class
  <2>2. Definitive(returned, outcome, TRUE) # {}
    BY <2>1, DefinitiveVerdict
  <2>3. outcome \in {"PASS", "FAIL"} /\ (outcome = "PASS" <=> decision.status = "VERIFIED")
    OBVIOUS
  <2> HIDE DEF outcome
  <2>4. PICK v \in Results(request.verifiers, text) :
          IsDefinitive(v) /\ v.outcome = outcome /\ v.bound = TRUE
    BY <2>1, <2>2 DEF Definitive
  <2>5. CASE /\ text.form = "lookup" /\ Registry[text.key] # Absent
             /\ Registry[text.key].trusted /\ Registry[text.key].authoritative
             /\ Registry[text.key].unaltered
             /\ v.outcome = IF Registry[text.key].value = text.expected THEN "PASS" ELSE "FAIL"
    BY <2>3, <2>4, <2>5
  <2>6. CASE /\ text.form = "relation" /\ text.canonical
             /\ v.outcome = EvaluateRelation(text.relation)
    <3>1. Relation(text.relation)
      BY <2>6, RequestFacts DEF Text
    <3>2. outcome = EvaluateRelation(text.relation)
      BY <2>4, <2>6
    <3>3. CASE \A i \in DOMAIN text.relation.operands : ~ DividesFloor[text.relation.operands[i]]
      <4>1. EvaluateRelation(text.relation) = IF IsTrue(text.relation) THEN "PASS" ELSE "FAIL"
        BY <2>3, <3>1, <3>2, <3>3, EvaluationIsExact
      <4> QED
        BY <2>3, <2>6, <3>2, <4>1
    <3> QED
      BY <2>6, <3>3
  <2> QED
    BY <2>4, <2>5, <2>6, DefinitiveResult
<1> QED
  BY <1>1, Invariance, PTL
=============================================================================
