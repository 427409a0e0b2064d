-------------------------- MODULE MCVerifyPipeline --------------------------
(* Two kinds of requests.  With evidence: up to two items, and some of      *)
(* three, out of leads to a catalog and to pages of every fate, and records *)
(* of the caller's own; every resolver; with and without an entailment      *)
(* function.  Without evidence: relations over seven numbers and every      *)
(* operator, nested around the bounds of the evaluation, and lookups.       *)
EXTENDS VerifyPipeline, SequencesExt

MCNow == 10
MCMaxAge == 4

Document(identity, published, says) ==
    [identity |-> identity, published |-> published, says |-> says]
Page(url, canonical, modified) ==
    [public |-> TRUE, opens |-> TRUE, success |-> TRUE, body |-> "text", finalPublic |-> TRUE,
     url |-> url, canonical |-> canonical, lastModified |-> modified, says |-> "ENTAILS"]
MCCatalog ==
    ("a" :> Document(1, 9, "ENTAILS")) @@ ("c" :> Document(3, 10, "CONTRADICTS"))
    @@ ("old" :> Document(4, 5, "ENTAILS")) @@ ("next" :> Document(5, 11, "ENTAILS"))
    @@ ("broken" :> Raised)
    @@ [l \in {"b", "paper", "mirror", "undated", "garbled", "naive", "big", "gone"} |-> None]
MCWeb ==
    ("b" :> Page(12, NoKey, 6)) @@ ("paper" :> Page(13, 7, 9)) @@ ("mirror" :> Page(14, 7, 9))
    @@ ("undated" :> Page(15, NoKey, None)) @@ ("garbled" :> Page(16, NoKey, Raised))
    @@ ("naive" :> Page(17, NoKey, Naive))
    @@ ("big" :> [Page(18, NoKey, 9) EXCEPT !.body = "oversized"])
    @@ [l \in {"a", "c", "old", "next", "broken", "gone"} |-> None]

LeadTo(locator, lineage, quote) ==
    [kind |-> "lead", locator |-> locator, lineage |-> lineage, quote |-> quote,
     stance |-> "ENTAILS", published |-> 9, applicable |-> TRUE, strength |-> 2]
\* What a function of the caller's own comes back with: an honest answer; one
\* that says it binds a quote that is not there, or content that is not what was
\* hashed; one that does not bind, and one too old, that names no document.
MCOwnSources ==
    LET honest == [lineage |-> 31, identity |-> 1, published |-> 9, says |-> "ENTAILS",
                   by |-> "http", binds |-> TRUE, quote |-> "span", hashed |-> TRUE]
    IN  {honest, [honest EXCEPT !.quote = "absent"], [honest EXCEPT !.hashed = FALSE],
         [honest EXCEPT !.binds = FALSE], [honest EXCEPT !.published = 5, !.identity = NoKey]}
Leads ==
    {LeadTo("a", 1, "span"), LeadTo("b", 3, "span"), LeadTo("b", 4, "partial"),
     LeadTo("b", 5, "absent"), LeadTo("b", 6, "none"), LeadTo("c", 7, "span"),
     LeadTo("old", 8, "span"), LeadTo("next", 9, "span"), LeadTo("paper", 10, "span"),
     LeadTo("mirror", 11, "span"), LeadTo("undated", 12, "span"), LeadTo("garbled", 13, "span"),
     LeadTo("naive", 14, "span"), LeadTo("big", 15, "span"), LeadTo("broken", 16, "span"),
     LeadTo("gone", 17, "span"), [LeadTo("a", 18, "span") EXCEPT !.strength = OutOfRange]}

OwnRecord ==
    [kind |-> "record", lineage |-> 20, identity |-> NoKey, published |-> 9,
     says |-> "NEUTRAL", stance |-> "ENTAILS", quote |-> "none", hashed |-> TRUE,
     resolved |-> FALSE, proved |-> FALSE, modelStance |-> FALSE,
     applicable |-> TRUE, strength |-> 2]
Opposed == [OwnRecord EXCEPT !.lineage = 21, !.stance = "CONTRADICTS"]
\* Proved by the operator: two that name no document, under two labels, and
\* one of the document that "paper" and "mirror" lead to.
Proved == {[OwnRecord EXCEPT !.lineage = 22, !.proved = TRUE],
           [OwnRecord EXCEPT !.lineage = 23, !.proved = TRUE],
           [OwnRecord EXCEPT !.lineage = 24, !.proved = TRUE, !.identity = 7]}

-----------------------------------------------------------------------------
Num(n, d) == [op |-> "number", n |-> n, d |-> d]
Op(op, a, b) == [op |-> op, left |-> a, right |-> b]
Literals == {Num(0, 1), Num(1, 1), Num(2, 1), Num(3, 1), Num(10, 1), Num(1, 10), Num(1, 2)}
Simple == {Op(op, a, b) : op \in Binary, a \in Literals, b \in Literals}
Floored == {Op("//", Num(n, 1), Num(d, 1)) : n \in {1, 10}, d \in {1, 2}}
Nested ==
    {Op(op, a, b) : op \in {"+", "/", "%", "**"}, a \in Floored,
                    b \in Floored \cup {Num(1, 10), [op |-> "minus", arg |-> Num(1, 1)]}}
    \cup {Op("*", Op("/", Num(1, 1), a), b) : a \in Literals, b \in Literals}
Deep == {Op("+", Op("+", t, Num(1, 1)), Num(1, 1)) :
           t \in {Op("+", Num(1, 1), Num(1, 1)), Num(2, 1)}}
Others == {[op |-> "truth"], [op |-> "syntax"], [op |-> "minus", arg |-> Num(1, 1)]}
MCTree ==
    Literals \cup Simple \cup Floored \cup Nested \cup Deep \cup Others
    \cup {t.left : t \in Nested \cup Deep} \cup {t.left.left : t \in Deep}

Relates(t, op, u) == [operands |-> <<t, u>>, comparators |-> <<op>>]
Relations ==
    {Relates(t, op, u) : t \in Simple \cup Nested, op \in {"==", ">"}, u \in Literals}
    \cup {Relates(t, op, Num(1, 1)) : t \in Deep \cup Others, op \in Comparator}
    \cup {[operands |-> <<Num(1, 1), Num(a, 1), Num(b, 1)>>, comparators |-> <<o, p>>] :
            a \in 1..3, b \in 1..3, o \in Comparator, p \in Comparator}

Prose == [form |-> "prose", opinion |-> FALSE]
Written(r, canonical) ==
    [form |-> "relation", opinion |-> FALSE, relation |-> r, canonical |-> canonical]
LookingUp(key, expected) ==
    [form |-> "lookup", opinion |-> FALSE, key |-> key, expected |-> expected]
MCRegistry ==
    [k \in {"full", "web", "altered", "forged"} |->
       [value |-> 1, authoritative |-> k # "web", unaltered |-> k # "altered",
        trusted |-> k # "forged"]] @@ ("empty" :> Absent)
Texts ==
    {Written(r, TRUE) : r \in Relations}
    \cup {Written(Relates(Num(1, 1), op, Num(1, 2)), FALSE) : op \in Comparator}
    \cup {LookingUp(k, e) : k \in DOMAIN MCRegistry, e \in {1, 2, Absent}}
    \cup {[Prose EXCEPT !.opinion = TRUE]}

-----------------------------------------------------------------------------
Core == {LeadTo("a", 1, "span"), LeadTo("b", 3, "span"), LeadTo("b", 5, "absent"),
         LeadTo("c", 7, "span"), LeadTo("paper", 10, "span"), OwnRecord}
Pairs == UNION {kSubset(k, Leads \cup Proved \cup {OwnRecord, Opposed}) : k \in 0..2}
Selections == Pairs \cup kSubset(3, Core)
Holds == Written(Relates(Num(1, 1), "==", Num(1, 1)), TRUE)

Asking(t, verifiers, S, resolver, entailment, require) ==
    [text |-> t, verifiers |-> verifiers, asked |-> SetToSeq(S), resolver |-> resolver,
     entailment |-> entailment, requireProvenance |-> require]
WithEvidence ==
    {Asking(c[1], c[2], S, resolver, entailment, require) :
        c \in {<<Prose, {"llm-entailment"}>>, <<Holds, {"arith", "other"}>>, <<Holds, {"other"}>>},
        S \in Selections, resolver \in {"resolver-chain"},
        entailment \in BOOLEAN, require \in BOOLEAN}
    \cup {Asking(Prose, {"llm-entailment"}, S, "own", entailment, require) :
            S \in Pairs, entailment \in BOOLEAN, require \in BOOLEAN}
    \cup {Asking(Prose, {}, S, resolver, entailment, FALSE) :
            S \in Selections, resolver \in {"none", "inmemory", "http"}, entailment \in BOOLEAN}
MCRequests == WithEvidence \cup {Asking(t, Verifier, {}, "none", FALSE, FALSE) : t \in Texts}
=============================================================================
