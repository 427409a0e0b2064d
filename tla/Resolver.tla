------------------------------ MODULE Resolver ------------------------------
(***************************************************************************)
(* How a lead becomes a record (glass_ionomer/verify/resolver.py): the     *)
(* in-memory, HTTP and chained resolvers, the fetch behind the second, and *)
(* the records made of what they find or fail to find.                     *)
(*                                                                         *)
(* Time is a number; Naive is a date without a time zone.  NoKey is no     *)
(* identity.                                                               *)
(***************************************************************************)
EXTENDS DecisionRule

CONSTANTS Catalog,           \* locator -> entry of the in-memory catalog, or None
          Web,               \* locator -> what a request for it gets, or None
          OwnSources,        \* what a function of the caller's own may return
          DefaultPublished,  \* the system's date for pages without one
          Naive,
          OutOfRange,        \* a strength that is no number between 0 and 1
          None,
          Raised             \* an exception in place of a value

Entailment == {"ENTAILS", "CONTRADICTS", "NEUTRAL"}
Date == Int \cup {Naive}
Strength == Nat \cup {OutOfRange}

\* How a quote compares with a content: there is none, it is a span of whole
\* words, it occurs but cuts a word, or it does not occur.
Quote == {"none", "span", "partial", "absent"}

\* says: the stance the entailment function takes on the content.
Entry == [identity : Nat, published : Date, says : Entailment]

\* What a request meets, step by step: the address is public, the connection
\* opens, the answer is a success, its body, the page it ended on, its
\* Last-Modified.  canonical: the DOI, arXiv or PubMed number the final URL
\* shows, if any.
Response ==
    [public : BOOLEAN, opens : BOOLEAN, success : BOOLEAN,
     body : {"text", "blank", "oversized", "unreadable"},
     finalPublic : BOOLEAN, url : Nat, canonical : Nat \cup {NoKey},
     lastModified : Date \cup {None, Raised}, says : Entailment]

\* The fields a model may fill in.
Lead == [kind : {"lead"}, locator : DOMAIN Catalog, lineage : Nat, quote : Quote,
         stance : Entailment, published : Date, applicable : BOOLEAN, strength : Strength]

\* hashed: the trusted hash is that of the content.  proved: the record has a
\* source proof the system issued for it.
EvidenceRecord ==
    [kind : {"record"}, lineage : Nat, identity : Nat \cup {NoKey}, published : Date,
     says : Entailment, stance : Entailment, quote : Quote, hashed : BOOLEAN,
     resolved : BOOLEAN, proved : BOOLEAN, modelStance : BOOLEAN,
     applicable : BOOLEAN, strength : Strength]

\* by: the resolver's name for itself.  binds: its word that the lead's quote is
\* in the content, whatever quote it passes on.
ResolvedSource ==
    [lineage : Nat, identity : Nat \cup {NoKey}, published : Date, says : Entailment,
     by : {"inmemory", "http", "resolver-chain"}, binds : BOOLEAN, quote : Quote,
     hashed : BOOLEAN]

ASSUME ResolverAssumption ==
    /\ DefaultPublished \in Int
    /\ OutOfRange \notin Nat
    /\ {None, Raised} \cap ResolvedSource = {}
    /\ OwnSources \subseteq ResolvedSource
    /\ \A l \in DOMAIN Catalog : Catalog[l] \in Entry \cup {None, Raised}
    /\ DOMAIN Web = DOMAIN Catalog
    /\ \A l \in DOMAIN Web : Web[l] \in Response \cup {None}

-----------------------------------------------------------------------------
(* Fetching *)

\* Mutated form of CanonicalIdentity: every address is a document.
IdentityOfUrl(w) == w.url

\* _canonical_identity
CanonicalIdentity(w) == IF w.canonical # NoKey THEN w.canonical ELSE w.url

\* urllib_fetch gets through to a text.
Fetchable(w) ==
    /\ w # None
    /\ w.public /\ w.opens /\ w.success
    /\ w.body = "text"
    /\ w.finalPublic

\* A Last-Modified that cannot be read is no date.
PublishedBy(w) == IF w.lastModified = Raised THEN None ELSE w.lastModified

Fetch(l) ==
    IF Fetchable(Web[l])
    THEN [identity |-> CanonicalIdentity(Web[l]), published |-> PublishedBy(Web[l]),
          says |-> Web[l].says]
    ELSE None

-----------------------------------------------------------------------------
(* Resolvers: what one may come back with for a lead *)

\* The binding_ok of the resolvers of this file: the quote is empty or occurs.
Binds(lead) == lead.quote # "absent"

Found(lead, entry, published, by) ==
    [lineage |-> lead.lineage, identity |-> entry.identity, published |-> published,
     says |-> entry.says, by |-> by, binds |-> Binds(lead), quote |-> lead.quote,
     hashed |-> TRUE]

\* make_inmemory_resolver; a malformed entry raises.
InMemory(lead) ==
    LET entry == Catalog[lead.locator]
    IN  IF entry \in {None, Raised} THEN {entry}
        ELSE {Found(lead, entry, entry.published, "inmemory")}

\* Mutated form of PublishedOrDefault: a page without a date has the lead's.
PublishedOrLeads(page, lead) ==
    IF page.published = None THEN lead.published ELSE page.published

PublishedOrDefault(page, lead) ==
    IF page.published = None THEN DefaultPublished ELSE page.published

\* make_http_resolver over urllib_fetch or a fetch that is passed in; any request
\* may fail, and the fetch or the reading of the page may raise.
Http(lead) ==
    LET page == Fetch(lead.locator)
    IN  {None, Raised} \cup IF page = None THEN {}
                            ELSE {Found(lead, page, PublishedOrDefault(page, lead), "http")}

\* chain_resolvers: the first that finds the lead answers, in the chain's
\* name; one that raises ends the chain.
Chain(lead) ==
    LET own(f) == IF f \in {None, Raised} THEN f ELSE [f EXCEPT !.by = "resolver-chain"]
    IN  {own(f) : f \in InMemory(lead) \ {None}}
        \cup IF None \in InMemory(lead) THEN {own(f) : f \in Http(lead)} ELSE {}

\* A function of the caller's own, a ResolverFn, may fail or return any source.
Own(lead) == {None, Raised} \cup OwnSources

Resolvers == {"none", "inmemory", "http", "resolver-chain", "own"}

Find(resolver, lead) ==
    CASE resolver = "none"           -> {None}
      [] resolver = "inmemory"       -> InMemory(lead)
      [] resolver = "http"           -> Http(lead)
      [] resolver = "resolver-chain" -> Chain(lead)
      [] resolver = "own"            -> Own(lead)

\* resolver_is_trusted: the operator registered it, under the name the source
\* carries.
IsTrustedResolver(resolver, by) ==
    resolver \in {"inmemory", "http", "resolver-chain"} /\ by = resolver

-----------------------------------------------------------------------------
(* Records *)

Record(lead, source, identity, stance, proved) ==
    [kind |-> "record", lineage |-> source.lineage, identity |-> identity,
     published |-> source.published, says |-> source.says, stance |-> stance,
     quote |-> source.quote, hashed |-> source.hashed, resolved |-> TRUE, proved |-> proved,
     modelStance |-> FALSE, applicable |-> lead.applicable /\ source.binds,
     strength |-> lead.strength]

\* Mutated form of RecordFromResolved: the lead's stance is kept.
RecordWithLeadStance(lead, source, proved) ==
    Record(lead, source, source.identity, lead.stance, proved)

\* Mutated form of RecordFromResolved: a source is known by the lead's label.
RecordByLineage(lead, source, proved) ==
    Record(lead, source, source.lineage, "NEUTRAL", proved)

\* record_from_resolved: the identity is the source's, and no stance is taken.
RecordFromResolved(lead, source, proved) ==
    Record(lead, source, source.identity, "NEUTRAL", proved)

\* Mutated form of UnresolvedRecord: it is stamped as any record is.
UnresolvedStamped(lead, says) ==
    [kind |-> "record", lineage |-> lead.lineage, identity |-> NoKey,
     published |-> lead.published, says |-> says, stance |-> "NEUTRAL",
     quote |-> "none", hashed |-> TRUE, resolved |-> FALSE, proved |-> FALSE,
     modelStance |-> FALSE, applicable |-> lead.applicable, strength |-> lead.strength]

\* _unresolved_record; says is what the entailment function makes of "".
UnresolvedRecord(lead, says) ==
    [kind |-> "record", lineage |-> lead.lineage, identity |-> NoKey,
     published |-> lead.published, says |-> says, stance |-> "NEUTRAL",
     quote |-> "none", hashed |-> FALSE, resolved |-> FALSE, proved |-> FALSE,
     modelStance |-> FALSE, applicable |-> FALSE, strength |-> 0]
=============================================================================
