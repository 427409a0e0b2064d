# Glass Ionomer in TLA+

TLA+ specifications of the assurance kernel and the release engine of Glass
Ionomer (Veriflow): what status a claim is given, how long it keeps it, what
happens to it when it supports other claims, and what is released because of it.
Every definition is read off the Python source under `src/glass_ionomer/`; the
`map` of PROJECT.json names the lines.

## The system

| component | state it keeps | operations | what makes it correct |
|---|---|---|---|
| decision, `verify/status.py` `decide_status` | none; its inputs are the results and the evidence collected for a claim | `decide_status`, `_apply_ceiling`, `_finalize` | no vote for a model or for inadmissible evidence, one vote per source, no verdict above the ceiling of the class, no order of branches that lets an item count the wrong way |
| time to live and composition, `verify/status.py` | the decisions a caller holds, each with `expires_at` | `is_expired`, `refresh_for_staleness`, `compose` | demotion is lazy, yet nobody ever reads a lapsed status; a conclusion neither outranks nor outlives its premises |
| dependency graph, `verify/identity.py` | locals of one call | `compose_graph`, `normalize_premises` | returns on every graph; cyclic and unassessed premises lend nothing; premises are composed before their conclusions |
| enforcer, `engine/enforcer.py` | none | `enforce`, `verify_receipt` | full release only with a definitive verifier; advisories only restrict |
| release engine, `engine/pipeline.py`, `engine/synthesizer.py` | the results a caller holds | `assure`, `assure_text`, `synthesize`, `verify_conclusion` | a conclusion is released only on proofs that fit its premises as they are now |
| operator trust plane, `verify/trust.py` | a private token per kind of proof | issue and check binding, provenance and derivation proofs | a proof is good for its subject only |
| lanes, `engine/lanes.py`, `lanes/financial`, `lanes/logic` | none | `certify`, `verify_financial_claim`, `verify_logic_claim` | fail closed; the right period; no definitive answer from an unfinished enumeration |
| verification pipeline, `verify/pipeline.py`, `resolver.py`, `admissibility.py` | none | `verify_extracted`, `resolve`, `admit` | a lead is no evidence; a failing step lowers assurance |
| verifiers and arithmetic, `verify/verifiers.py`, `verify/safe_arith.py` | none | `verify`, bounded evaluation | a bound refuses, it never rounds |
| gateway, `verify/gateway.py` | a token per request | `gateway_admit`, `guarded_model_call`, `guarded_model_call_with_fallback` | no call outside the allow-list, no silent fallback |
| extraction, reasoners, SEC command, hashing | none | text to claims, glue | fail open in what they propose, never in what is certified |

The parts call one another synchronously. A claim goes from a reasoner (a
proposal, with advisories) to a lane (a certification, through `decide_status`) to
the enforcer (a release). Decisions and results stay with the caller, who reuses
them at any later time: as premises in `compose_graph`, in `compose`, or in
`synthesize`. There are no threads. What is hard here is therefore not concurrency
inside a call but the order of calls and the time between them: a decision that
lapsed since it was stored, a premise assured again after a proof was issued over
it, a graph whose loops see nodes in an unlucky order, an evidence list whose
items arrive in any order. PROJECT.json lists these hazards one by one, at the
line where each bites, with the properties that cover it.

## The modules

| module | models | checked by | proofs |
|---|---|---|---|
| `EvidenceStatus` | statuses, ladder, ceilings; `Refresh`, `Compose` as operators | through the others | `EvidenceStatusProofs` |
| `AssuranceLease` | abstract: levels that drop at the instant their lease ends | `lifecycle` | `StatusLifecycleProofs` |
| `StatusLifecycle` | decisions held, refreshed, composed, decided again under a running clock | `lifecycle` | `StatusLifecycleProofs` |
| `DecisionRule` | `decide_status` as operators | through the ones that use it | `EvidenceStatusProofs` |
| `DecideStatus` | the verdict over items that arrive one by one | `decide` | `DecideStatusProofs` |
| `GraphAssurance` | abstract: `compose_graph` as one step to a fixpoint | `graph` | `ComposeGraphProofs` |
| `ComposeGraph` | `compose_graph` loop by loop | `graph`, `graph_reuse` | `ComposeGraphProofs` |
| `SafeArith` | bounded evaluation of arithmetic relations | `pipeline`, `arith_floor` | `PipelineProofs` |
| `Verifiers` | extraction with its round-trip check, the three verifiers | `pipeline` | `PipelineProofs` |
| `Resolver` | the resolvers, the fetch, the records made of what they find | `pipeline` | `PipelineProofs` |
| `VerifyPipeline` | `verify_text`: extract, resolve, admit, verify, decide | `pipeline`, `arith_floor` | `PipelineProofs` |
| `Trust` | the proofs of the operator plane: tokens, subjects, copies | through the ones that use it | - |
| `LogicLane` | `verify_logic_claim`: shape check, model check, enumeration | `logic` | `LogicLaneProofs` |
| `FinancialLane` | `verify_financial_claim` as operators | through the next, `assurance` | `AssuranceProofs` |
| `SecFilings` | a company's filings, the lane asked after each | `sec_filings`, `sec_period`, `sec_dispute` | `AssuranceProofs` |
| `Enforcer` | `enforce`, receipts and their check as operators | `engine`, `assurance` | `EvidenceStatusProofs` |
| `Engine` | assure, issue a derivation proof, synthesize | `engine` | `EngineProofs` |
| `Gateway` | admission, allow-list, fallback chain as operators | `assurance` | `AssuranceProofs` |
| `Reasoner` | the proposals of the reasoners, the LLM one included | `assurance` | - |
| `Assurance` | one claim through gateway, reasoner, lane and enforcer; its receipt | `assurance` | `AssuranceProofs` |

A module that EXTENDS others composes them: `VerifyPipeline` is `Verifiers` with
`Resolver` and `DecisionRule`; `Engine` is `Enforcer` with `Trust`; `Assurance` is
`Gateway`, `Reasoner`, `FinancialLane` and `Enforcer`; both lanes decide through
`DecisionRule`.

The definitions named as a "mutated form" stand beside the definition they change
and are used by no specification: each breaks one property, and shows that the
property is about the code. Where no run lists `TypeOK` (`FilingsTypeOK`), it is a conjunct of the
module's first property (`SearchPath`, `FailureIsNoEvidence`,
`PlacedDisagreementIsContested`, `WithinBudget`, `EgressWithinDecision`).

### EvidenceStatus, StatusLifecycle, AssuranceLease

A `Decision` has the fields later steps read: status, direction, contested,
`model_derived_support_only` and `expires_at` (`Never` for None). `Refresh` is
`refresh_for_staleness`, `Compose` is `compose`; `Conjoin` is the part of it after
both sides were refreshed, one CASE arm per return. `min` over a list with ties is
a CHOOSE over statuses: the one tie of the ladder, UNVERIFIED with EXPIRED, cannot
occur there because an EXPIRED premise was returned before. (The conclusion may be
EXPIRED, and then no premise is strictly lower unless REFUTED, also returned
before.)

`StatusLifecycle` holds one decision per claim. `Decide` stores a fresh one, in
any form `decide_status` can return (`Outcomes`, within `Forms`, the set that
`DecideStatus` checks against the function itself); `RefreshClaim` and
`ComposeClaim` store the outcome of a refresh or a composition; `Tick` moves the
clock. `lapse` and `cap` are history: the earliest deadline and the lowest rung of
everything the held decision rests on, through premises composed earlier. They are
computed from the history alone, never from the code's own inheritance of
deadlines, so `RestsOnLiveSupport` compares two independent accounts.
`AssuranceLease` is the promise: levels with leases, dropping by themselves at the
deadline. The refinement maps a level to the rung of `Effective`, the status
refreshed at the time of reading. A refresh of a lapsed decision is a stutter
there, which is what makes lazy demotion sound.

### DecisionRule, DecideStatus

`Verdict` is `decide_status`; `Candidate` and `EvidenceLadder` are its status
predicate, one CASE arm per branch with the negations of the earlier branches
written out. The variables of `DecideStatus` are the results and evidence
delivered so far, and a step delivers one more, so an action property compares the
verdicts with and without an item, which is how monotonicity is stated. Sets stand
for lists because the code asks only whether a list is empty and how many distinct
sources it has. Strengths are small integers around the two thresholds.

### SafeArith, Verifiers

A tree is what Python's parser makes of a side of a relation: numbers, unary and
binary operators, truth values, and everything else as "syntax". `Numeric` is
`_numeric` with the types Python gives each intermediate result, which is where
exactness is lost or kept: `Fraction // Fraction` is an int, int / int a float, an
int to a negative int a float. A number is a fraction with a type; a float is
rounded to the grid 1/`Grid`, in place of 53 bits, which is coarser and therefore
shows earlier where a float slips in. `Exact` is the reference: the same operators
on fractions throughout. Powers are products (`ToPower`), since the provers know
nothing of `^`, and the recursive functions branch with IF, since `tlapm` does not
see a recursive call inside CASE. The bounds (`MaxNodes`, `MaxDepth`, `MaxOperand`,
`MaxExponent`) are constants, scaled down together, so that a tree or value just
over each of them exists in the run.

`Verifiers` is extraction and the verifiers: a text is a lookup, a relation with
its parsed sides and whether it is written the way the parser prints it, or prose.
`BindingOK` is the round trip; `LookUp` is the registry verifier with its three
conditions of authority; `Results` drops verifiers of types the code does not
know.

### Resolver, VerifyPipeline

`Find` gives what each resolver may come back with for a lead: the in-memory
catalog, HTTP over a fetch that goes through public address, connection, success,
body, final address and date (`Fetchable`, `PublishedBy`), the chain of the two
(one that raises ends the chain), and a function of the caller's own, which may
fail or return any source it likes (`OwnSources`), under any name and with its own
word on whether it binds the quote. The HTTP resolver may find nothing or raise,
since neither an injected fetch nor the reading of the page is guarded. `CanonicalIdentity` is the DOI, arXiv or
PubMed number of the final address, else the address; one document under two
spellings of its address therefore counts twice, as in the code
(`resolver.py:367-380`). Hashes are the flag `hashed`, quotes one of four ways in
which they compare with the content.

One behaviour of `VerifyPipeline` is one call. `PassThrough`, `Unresolved` and
`Resolve` are the branches of the loop in `resolve`, one item of the request per
step; a failing fetch is a choice of the HTTP resolver at any lead, and the
placeholder carries what the entailment function will say of its empty text.
`Admit` is `admit`, field by field in `AdmitRecord`; `AdmitRaises` are the
exceptions nothing catches: the entailment function's own, the subtraction of a
date without a time zone, and the refusal of a strength outside [0, 1]
(`OutOfRange`), which a lead may carry. `VerifyAndDecide` is the rest, through `Verdict` of
`DecisionRule`. The properties compare the decision with the verdict over part of
the records, so each of them is about everything between a lead and a status.

### Trust

A proof is a record with the private token of its kind and the digest of its
subject. `Issue` and `IssueBinding` stamp the token; `Copied` is what `replace`,
`deepcopy`, `pickle` and JSON leave of it, everything but the token; `IsTrusted`
and `BindingTrusted` are the checks. A digest is the subject itself, because
SHA-256 over a type-preserving serialisation is taken as injective, or `NoHash`
where the serialisation raises (a cyclic formula, a number that is not finite).

### LogicLane

Formulas are nodes of a table, so sharing and cycles are possible, as they are
with the code's objects. The recursions of the code over formulas are functions of
the depth that is left and then of the node (`Shaped[d][n]` is `_check_shape`),
so that a path through a cycle ends: beyond the depth (`Beyond`) the shape is bad,
and evaluation raises. `Eval` is three-valued, with Python's short circuits, since a
partial model decides some formulas and raises on others. One action per way
through `_decide`: `Overflow`, `CheckModel`, `Decline`, `Enumerate`, `Try` of one
assignment, `Exhaust`, then `Report` through `Verdict`. The assignments are
tried in any order. The properties state the meaning of formulas on their own, two
valued over full environments.

### FinancialLane, SecFilings

`PeriodFacts` and `ComparativePeriodFacts` are the two searches for the rows of a
period, filter by filter, on sets of rows; dates are day numbers and `YearsIn` is
the rounding of `gap / 365.25` in integers. An end that is missing (None) and one
that is written but is no date (`Unreadable`) are told apart as in the code, which
asks for the one in some places and for the other elsewhere (`Dated`). The order in which the fallback
reports its reasons does not matter and is left out. `SecFilings` is the
environment: actions file annual reports with comparatives, amendments whose rows
lack labels, and fourth quarters, on one of several fiscal calendars, with any
figures. `reports` remembers which figure each filing in truth reports for which
year, which the code has to guess from labels and dates; the properties compare
its answers with that. After each filing every claim is asked again (`answers`).
`FilingsAssumption` says what a calendar is: its years end one after the other,
and if the ends of two of them look whole years apart (`Aligned`), they are as many
years apart as their names say. So a company may change its fiscal year, but not
call 2024 what ended a whole year after 2022. `Steady` is a company that never
changes it. Two definitions name what filings may do to the answers:
`OwnYearFiled`, that an annual report has a row for its own year, which
`sec_period` breaks; and `Placed`, said of one figure, that the code can give it to
its period. An amendment's row is placed by both labels, by the end of the year or
by saying nothing at all, a comparative by ending whole years before its filing's
own year. `DisagreementIsContested` is what the repository says, of all figures,
and `sec_dispute` violates it; `PlacedDisagreementIsContested` is what the code
does, with filings of either kind side by side.
The record is always a trusted one: an untrusted one decides nothing, which is
`IsDefinitive`.

### ComposeGraph, GraphAssurance

One action per branch of the loops: `Visit`, `BackEdge`, `Descend`, `SkipBlack`
and `Retreat` are `_visit`, `Propagate` is an iteration of the while loop that
changes something, `TakeReady` an iteration of Kahn's loop, `ComposeOne` one of
the composition loop, and `SearchDone`, `PropagateDone`, `OrderDone` and
`DowngradeUnresolved` the code between and after. The dependencies of a node are a
set taken in any order and the queue gives any of its members, which covers every
order of the tuples, dictionaries and lists of the code. `Compose` with no
premises is the refresh of the leaf branch. `GraphAssurance` says the result in
one step: the largest set of nodes blocked by a cycle or an unassessed claim is
downgraded, and the others satisfy the composition equations.

### Enforcer, Engine

`Enforce` is `enforce`: base decision, definitive backing, the floor for
model-derived support, then the loop over the list of advisories, one
`AfterAdvisory` per turn, in the order in which the claim carries them. `Receipt` and `VerifyReceipt` are the receipt, with its content
standing for its hash and a pair of key and hash for its signature. `Engine` holds
the last result per claim. `Assure` takes any certification from `Certs`;
`IssueProof` issues a derivation proof for a conclusion over the premises as they
are certified now; `Synthesize` uses a proof, possibly an older one, a copy of
one, or none. A conclusion's text and payload are represented by its class and its
premises.

### Gateway, Reasoner, Assurance

One behaviour of `Assurance` is one claim, by one of three ways. As text: `Admit`
asks the gateway which providers may see the prompt, `Contact` tries one of the
chain after the other, each of which answers anything or fails, `ProposeText` reads
the reply. As a figure for the SEC: `ResolveTicker` and `FetchFacts` may fail,
`ProposeSec` applies the operator's review. As a propositional claim: what the
lane may say is taken from `LogicLane` as two facts, that nothing definitive is
said without a review and that anything may be with one. `Certify` runs the
financial lane itself (`VerifyFinancialClaim`), `EnforceClaim` the enforcer, and
`Alter` changes the receipt in storage, as often as it likes. What the prompt says
is left out; the code does not tie the prompt it sends to the text it admitted.

## The runs

Run with `tlc -workers 2 -config X.cfg M`.

| run | instance | distinct states | what it shows |
|---|---|---|---|
| `lifecycle` | 3 claims, 4 outcomes, TTL 2 or none, clock to 3 | 40 thousand | no stale or inflated status through reuse |
| `decide` | 8 evidence items, 6 results, 3 classes, 2 execution states | 98 thousand | who moves a verdict, and which way |
| `graph` | all graphs of 4 nodes with up to 5 edges; of 3 ids with self-loops, a missing or nodeless id; of 3 ids with up to 3 edges and 5 decisions | 343 thousand | the loops of `compose_graph` and their result |
| `engine` | 2 premises, 5 certifications, 2 classes, 1 proof and its copy | 31 thousand | no release over weak or changed premises |
| `pipeline` | up to 2 of 22 items or 3 of 6, 13 locators, 5 resolvers, 5 finds of the caller's own; 900 relations and lookups | 738 thousand | what may influence a decision |
| `sec_filings` | 3 years, 4 calendars, 3 filings, 3 figures, 7 ways to label an amendment, 15 claims | 317 thousand | the lane answers for the claimed period |
| `logic` | 20 formulas over 3 names, claims of 5 modes, 6 kinds of review | 7 thousand | what is said is true and is said |
| `assurance` | 2 providers allowed of 3, 6 figures, 5 kinds of reply, 3 records, 2 keys | 10 thousand | egress, release and receipt of one claim |
| `sec_period`, `sec_dispute`, `graph_reuse`, `arith_floor` | as above | - | four counterexamples, below |

*Why the bounds are enough.* Three claims are a premise, a conclusion and a
conclusion over that conclusion, the shortest chain on which inheritance of
deadlines can fail; a clock of 3 with a TTL of 2 lets a decision lapse, be decided
again, and lapse relative to two different starts, with the boundary `now =
expires_at` in reach. Four nodes hold a cycle with a chord, a cycle entered from
outside, two cycles that share a node and a diamond; a node first reached after
its cycle is black needs three. The items of `decide` are one per gate and
threshold of the code, each just over or just under it, and three share an
independence key. The sources of `pipeline` are one document at two locators,
others just within and just outside the age limit on both sides, one that
contradicts, one that is missing, one that is oversized, and pages with no date,
an unreadable one and one without a time zone; one lead has a strength out of range.
A function of the caller's own answers honestly, vouches for a quote that is not
there, returns content that is not what was hashed, does not bind, or finds
something old that names no document; three items of the other resolvers are what
corroboration by two documents with a repeat takes. Its relations apply every operator to every
pair of seven numbers and nest the operators that change a number's type; bounds of
16 nodes, depth 4, operands to 100 and exponents to 3 each have a tree on both
sides. In `sec_filings` three filings hold an annual report, its amendment and a
later report with comparatives; the calendars are the calendar year, the
retailers' 52 and 53 weeks ending in the next calendar year, and two that move
their year end, one before the comparatives that matter and one between the two
reports that give them; two of the figures are equal to `_equal` and distinct all
the same. Amendments have their end with all, one or none of the labels, no end
with one label or none, and an unreadable end with both or none. The annual reports
have a row for their own year, which `sec_period` drops. `sec_dispute` is the same
instance with the unrestricted property. `engine`
needs two premises so that one may be strong while the other changes, two source
records so that a premise can be assured again with the same status against
another filing, and one proof, which is then older than any later assurance. Its
certifications are the ones the two lanes give (VERIFIED or REFUTED, definitive)
and two CORROBORATED ones as callers of `synthesize` and `enforce` build them
(`tests/test_release_floors_and_trust.py`). `logic` scales the lane's bounds to 2
variables, depth 5, 18 nodes and 40 evaluations, and the interpreter's stack to
depth 4, so that each of them has claims on both sides (in the code formulas of
about 480 levels exhaust the stack before the depth bound). `assurance` has
figures, reviews and records that agree or differ in one respect.

*Deadlock.* Checked in `lifecycle` and `engine`. `decide` delivers finitely many
items and stops; a call of `compose_graph`, `verify_text` or `verify_logic_claim`
returns (or raises) and stops; `sec_filings` stops at its bound on filings; a
claim in `assurance` that raised has no receipt to alter.

*Symmetry.* Only `engine`, over the two premises, which checks invariants only.

*Fairness.* Weak fairness of the next-state relation of `ComposeGraph` and
`LogicLane`, each one synchronous call of straight-line loops: while a step is
possible the interpreter takes it. Weak fairness of `Work` in `Assurance`, the
steps of the engine itself, for the same reason; every outside call in it returns
or fails, as the code's timeouts see to. `Alter` has no fairness. Nothing obliges
a caller to refresh, compose or assure anything, and no fairness is assumed there.

*What the passing runs show.* `RestsOnLiveSupport`, `OnlyDecidingRaises` and
`ImplementsLease` make stale status unreadable through any sequence of reuse.
`LLMHasNoVote`, `InadmissibleHasNoVote`, `VotesCountTheRightWay` and
`OneSourceOneVote` say who can move a verdict and which way. `SearchPath` is the
agreement of the search's two records of its path; `CyclesCut` says that it marks
only nodes on cycles and at least one of every cycle, but not all of them, which
`UnresolvedExact` shows the propagation makes good; `OrderIsTopological` says that
no node falls between composition and downgrade; `NoElevation` and
`ImplementsFixpoint` are the result; `Termination` is the return.

In `pipeline`, what failed to be fetched or bound, what a lead declares, what is
too old or dated in the future, and a document seen twice add nothing; whatever
the entailment function alone supports comes out flagged as a model's word; and a
definitive status is what exact arithmetic, or the operator's record, says of the
text as written (`DefinitiveIsTrue`, which leaves out the relations of
`arith_floor`). The properties of `sec_filings` say that the lane answers with the
figure of the claimed period, gives up when filings disagree whose figures it can
place, never flips, and does verify what they agree on. In `logic`, a definitive answer is true of every
environment, shows a counterexample that is one, stays within the budget
(`WithinBudget`: work done plus work left), and is given whenever the bounds allow
(`Settled`). In `engine`, `AllowIsProved` is the property that needs a history: a
proof issued before a premise was assured again gives nothing, and neither does a
copy.

In `assurance`, `EgressWithinDecision` follows the prompt from provider to
provider; `TextIsNeverReleased` says that nothing an LLM answers is released or
called verified or refuted (it can come out CONTESTED, when filings disagree);
`DefinitiveIsReviewed` that a definitive status is about the figure that was
reviewed, with the CIK the ticker resolved to; `ReceiptShowsAlteration` that no
sequence of changes in storage, the hash included, yields another receipt that
verifies; `ComesToADecision` that failures around the engine end in a decision.

*What the violation runs show.* Each contradicts a sentence of the repository and
is a finding of PROJECT.json. `sec_period`: an annual report with comparative rows
only makes the lane verify the previous year's figure for its year, and refute the
true figure of the year before. `sec_dispute`: an amendment whose row has a fiscal
year but no period and no end does not collide with the figure it restates, which
stays VERIFIED; neither does one without labels whose end is no date, nor the
comparative of a report that came after a change of the fiscal year. `graph_reuse`: an assessed claim with no node in
the premise graph is handed back past its deadline. `arith_floor`: a division of
floor divisions is computed in floats, and a true equality is REFUTED.

Not a run of its own, but in the model: a model's reply with a number out of any
float's range, or nested too deep for the JSON parser, makes the text path raise
(`Raises`), although the header of the LLM reasoner (`llm_reasoner.py:15-16`) says it
never crashes. `ComesToADecision` allows it as the exception it is.

## The proofs

TLAPS checks them for every value of the constants: any set of claims, finite or
not, any graph, any formulas, any evidence, results and policy, any bound on the
clock. The assumptions are those of the modules (`LifecycleAssumption`,
`PolicyAssumption`, `DecideAssumption`, `GraphAssumption`, `EngineAssumption`,
`LaneAssumption`, `AssuranceAssumption`, `SafeArithAssumption`,
`ResolverAssumption`, `RegistryAssumption`, `PipelineAssumption`,
`LogicAssumption`, `FilingsAssumption`), which the runs evaluate. Those that are
more than types: calendars are as above;
corroboration takes at least one source; each node of a graph declares finitely
many dependencies (the graph itself need not be finite); the names and the nodes
of the formulas are finite sets, because a Python object holds finitely many;
a parsed tree has a number of nodes, and more of them than each of its operands.

`EvidenceStatusProofs` collects the facts about the operators: minima of naturals
exist, `Refresh` and `EarliestDeadline` and `Weakest` return what they should. The
induction over the naturals (`DepthInduction`) and the iteration of a function
(`Iterates`) are stated there too, with sets and functions, because the theorems of
the library take operators. The
theorem `ComposeIsWeakestLink` is the contract of `compose`: not above any side,
not later than any side, positive only if all sides are, for every nonempty set of
premises that has a lowest rung.

The module also has the facts about `decide_status`: that the verdict has one of
the forms of the claim's class (`VerdictForms`), and that the filters of the code
are all it looks at (`SameSignals`): the same definitive results, supporting and
contradicting items give the same verdict, and none of them is as good as nothing.
A verdict's status is told from five facts about the items, whether there is
definitive failure, definitive success, contradiction, enough sources and any
support (`Signal`, `VerdictStatus`), and more for the claim in any of them never
lowers its rung (`MoreRaises`, `EnoughGrows`). Last, what the loop over the
enforcer's advisories returns, the most restrictive decision and the largest tier
of all it met (`AdvisoryFacts`, by induction over the list: `AdvisoryLoop` gives the
loop its equations, `AdvisoryStep` is one turn), and what a release takes
(`EnforceFacts`).

`StatusLifecycleProofs` proves type correctness, then `RestsOnLiveSupport`, which
is not inductive: it speaks of the effective status now, and a step of the clock
or a composition needs to know about the stored one. The invariant `IInv` adds
`Sustained`: a stored positive decision has a deadline whenever its support has one,
no later than the support's, and a rung no higher than `cap`. Each action keeps
it: `Decide` makes the two accounts equal, a refresh only makes decisions
non-positive, and `ComposeBacked` is `ComposeIsWeakestLink` applied to both
accounts. `ReuseNeverRaises` follows step by step from the same lemma.
`LazyIsAsGoodAsEager` is the refinement: initial states map to initial states, a
tick to `Advance` (`TickAdvances`: a level drops exactly for the leases that end
at the new time), a decision to `Grant`, a composition and a refresh to `Weaken`
or a stutter.

`DecideStatusProofs` applies the facts about `decide_status`: the forms are what
`StatusLifecycle` assumes of its outcomes, a model's results have no influence,
inadmissible items have none. `VotesAreMonotone` is about one more item or result.
A single branch of the code says nothing of it, since an item may lead to another
branch; it moves each of the five facts one way only (`ItemMoves`, `ResultMoves`),
and the rung follows. Counting sources needs their set to be finite, which is the
invariant `SourceInv`. `CopiesDoNotCount` follows because an item of a source that
is there already leaves the set of sources as it is (`CopyAddsNothing`).

`ComposeGraphProofs` has one invariant per loop of `compose_graph`. For the
search: `Trail` (the stack, the path and the grey nodes are three records of one
thing), `LookedAt` (every dependency of a stacked node that was looked at is
finished, is next on the stack, or has closed a cycle that was marked),
`BlackBelow` (below a finished node that is not marked, all is finished) and
`Founded` (any set of such nodes has one without a dependency in the set).
`BlackBelow` alone does not give `CyclesCut` on the last step of the search;
`Founded` does, applied to the nodes of an uncut cycle. `PropagateInv` says that
`unresolved` is below the abstract `Unestablished` while it grows and equal to it
after, `KahnInv` that an indegree counts exactly the dependencies not in the order
yet, `ComposeInv` what is composed so far. Theorems: the four properties of the
loops; `ChainsHold` (`NoElevation`: all that a positive conclusion rests on,
however far down, is positive, no weaker and no shorter lived, by the least
counterexample in the order and `ComposeIsWeakestLink` at each node); and
`LoopsImplementFixpoint`, the refinement of `GraphAssurance`, where every step but
the return is a stutter.

`PipelineProofs` carries `SameSignals` through a whole call. `FoundGenuine` says
that whatever a resolver of the system's finds has a type and the date and document
of its source, for each of them and the chain. The invariant `IInv` relates every
record to the item it stands for (`Faithful`): a record of the caller's is
unchanged, a lead's takes no stance, one that was disclosed is not applicable, one
that was not is resolved and, unless a function of the caller's own found it,
bound, dated by its source and known by its document. `RecordKeeps` is the one proof that
another record keeps the invariant; the three branches of `resolve` cite it.
`SilentHasNoVote` then gives `FailureIsNoEvidence` (with `TypeOK`),
`LeadsDeclareNothing` and `OnlyTimelyEvidence`, which differ only in why the items
left out are silent. `PositiveIsEarned` follows from where a positive verdict can
come from (`PositiveVerdict`). `CorroborationIsDistinct` needs the identity of
records too: by `Faithful`, a record made from a lead has the identity of the
document it was found at (`DocumentOf`, `IdentityOf`). Each trusted supporting item
is then counted for such a document or for one the caller's record was proved for
(`CountedFor`), and the sources the verdict counts are no more than those documents
and labels (`SourceCount`).

`DefinitiveIsTrue` takes a theory of the arithmetic. `TreeRecursion` proves that a
function of trees whose step looks at the operands only exists, from `Iterates` and
the number of nodes; `TreeInduction` is induction over trees. `RationalFacts` is
that dividing by the greatest common divisor leaves lowest terms, which is why a
fraction reduced twice is the fraction reduced once, and why a whole evaluation and
an exact one agree although they reduce at different places. `ApplyExact` is the
step: each operator, on operands that are equal as fractions, gives results that
are equal as fractions, an int only from an int or a floor division, and a float
never, as long as `/` and `**` meet no int. `NumericExact` carries this up the tree
under `~ DividesFloor`, which is exactly the hypothesis that keeps ints away from
those two, and `EvaluationIsExact` along a chain of comparisons. The verdict then
has one of two origins (`DefinitiveResult`): a registry record with its three
conditions of authority, or the evaluation of a text that survived the round trip.

`EngineProofs` adds what a conclusion's certification owes to its premises
(`ComposedWithin`, by cases of `Conjoin`; `ConclusionFacts`). The invariant of
`Engine` is that issued proofs carry their token and subject, and that a
conclusion just returned is the one its premises, as they are, give
(`JustConcluded`): every other action replaces `returned`, so the premises cannot
have changed since. From it come `TypeOK`, `ConclusionWithinPremises`,
`AllowIsProved` (a copy has no token, and the subject of a trusted proof is the
premises' present certifications), `ReleaseNeedsStrongPremises` and
`AdvisoriesOnlyRestrict`.

`AssuranceProofs` proves the four promises about one claim. A text's proposal
never carries a proof, an unbound lookup is UNVERIFIED by `decide_status`
(`UnboundLookup`), so the lane says UNVERIFIED or CONTESTED, which `EnforceFacts`
does not release. Receipts: the signatures of a stored receipt are over the
content it was issued with, through any number of alterations, so one that
verifies has that content. `DefinitiveNeedsReview` goes the other way: from a
definitive status to a bound lookup over a trusted record (`DefinitiveFinancial`),
from there to the operator's review of that very figure (`BoundIsReviewed`), which
`ReviewInv` carries from the proposal to the result. `EgressIsContained` needs what
`SelectSeq` keeps: `MayCall` is a sift of the asked providers (`MayCallSifts`),
their order included, and `EgressInv` says that the providers called so far and
those still to call make up that list (`Along`).

The module goes on with the financial lane over a company's filings. `FilingsInv`
says that the record is that of numbered filings of the three kinds
(`IsFiling`), that every year filed has an annual report, and that the answers are
those to this record. The proofs do not reason about the record's dates and labels
but about `Tells`: each row of a filing tells one report and each report is told by
one row (`RecordTells`). From it follows which rows the searches find. `OwnRowIsOwn`:
the row of a filing that ends last is that of its own year. `ComparativeRow`: a row
the fallback accepts is of an earlier year than its filing's, and the years counted
back (`WholeYears`) lead to that year. `OwnReportCompared` and `ComparativeCompared`:
conversely, no figure that decides the period is missed. What is left is a chain
from the answer to the row it cites (`DecidedRecord`, `CitedReport`).
`AnswersNeverFlip` needs no assumption on the filers. The rows found as primary ones
stay found when a filing adds rows under a number of its own (`PeriodFactsGrow`); the
rows found by the fallback stay found too (`FallbackGrows`), because a year that is
only known from later reports never gets an annual report of its own after them. So
two definitive answers share a row, and the values of a period's rows agree. The
other three theorems assume `OwnYearFiled`, without which `sec_period` shows the
first of them false; MCSecFilings has TLC evaluate it for `sec_filings`.
`PlacedDisagreementStaysContested` assumes nothing else of the filers: what it needs
of a figure is in its statement (`Placed`), and other filings may have any labels
and calendars. What it leaves out the code gets wrong, and `sec_dispute` shows it:
an amendment with half its labels (`verify.py:151-161`), and two later reports that
disagree on a year without a report of its own, one of them after a change of the
fiscal year. Only one of the two figures is then a whole number of years back, the
other is passed over (`verify.py:226-229`) and the first is VERIFIED, where the audit
history (`docs/AUDIT_HISTORY.md:70`) says that every candidate must agree.

`LogicLaneProofs` is about recursive evaluation. TLAPS does not know that a
recursive function exists; all of them here recurse on the depth, so `Iterates`
gives it, for a step given as a function, and each definition then
satisfies its equation (`ShapedAt`, `EvalStep`, `HoldsStep`). Induction on the
depth is `DepthInduction`, stated with a set of depths, since the theorem of the
library takes an operator. `EvalSound` is the heart: if a partial model gives a
formula a definite value, that is its truth in every environment that extends the
model, short circuits included. `EvalDefined`: a formula that passed the shape
check and whose variables are bound has a value. The properties then come from
`IInv`: `Stages` (what holds where the program is), `Searched` (the assignments
tried refute nothing), `Right` (what was answered is right: `CheckedRight`,
`FoundRight` and `ExhaustedRight`, one per way to answer), `Budget` and `Reported`.
The budget is counted by a bijection of the assignments with the subsets of the
variables (`AssignmentCount`), so that the estimate made before the enumeration
is what the enumeration takes (`EnumerationFits`).

## What is only model-checked

Liveness (`Termination`, `Settled`, `ComesToADecision`), which is out of the
prover's reach. Every invariant, action property and refinement that a passing run
checks is also proved.

## What is not modelled, and the plan

Reasons, ids, wording, serialisation and hashing are left out throughout. Also:

- `normalize_premises`, which builds the nodes of a premise graph by hashing
  canonical texts and keeps the first of two equal premises, and decisions that
  share a claim id in `compose_graph`;
- `verify_conclusion` and the graph hash it recomputes;
- the redaction and hardening of prompts in the gateway and the patterns that
  classify text: regular expressions over text;
- `evaluate_numeric_expression`, the entry to the arithmetic for values, which no
  verifier uses; powers with an exponent that is a float and no whole number;
- `parse_money`, the evidence pack and its manifest, and the spelling of CIKs in
  the financial lane; the signing key's handling; the command line.

Next: `compose_graph` with duplicate claim ids and the document's composition table
(STATUS_POLICY.md section 6) as a specification to contrast; `LogicLane` inside
`Assurance` in place of the two facts about it.
