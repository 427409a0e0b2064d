---------------------------- MODULE FinancialLane ----------------------------
(***************************************************************************)
(* verify_financial_claim (glass_ionomer/lanes/financial/verify.py): the   *)
(* status of the claim that a company reported a figure for a fiscal       *)
(* period, from the rows of its EDGAR companyfacts record.                 *)
(*                                                                         *)
(* A record is a set of rows of the claim's concept and unit.  Dates are   *)
(* day numbers; None stands for a label or a date that is missing, and a   *)
(* member of Unreadable for what is written in place of an end date and is *)
(* no valid one.  Amounts are counted in units of the absolute tolerance,  *)
(* so that a whole amount is a multiple of Whole.                          *)
(***************************************************************************)
EXTENDS DecisionRule, FiniteSetsExt

CONSTANTS None,
          Unreadable,
          Whole,     \* 1.0 / _ABS_EPS
          Limit      \* _EXACT_INT_LIMIT

FiscalPeriod == {"FY", "Q1", "Q2", "Q3", "Q4"}

ASSUME LaneAssumption ==
    /\ None \notin Int \cup FiscalPeriod \cup Unreadable
    /\ Unreadable \cap Int = {}
    /\ Whole \in Nat \ {0} /\ Limit \in Nat

\* start: None also where it is unreadable, which nothing tells apart.
\* amended: the form ends in "/A".
SecFact == [accession : Nat, fy : Int \cup {None}, fp : FiscalPeriod \cup {None},
            start : Int \cup {None}, end : Int \cup {None} \cup Unreadable,
            amended : BOOLEAN, value : Int]

\* bound: the claim carries a binding proof issued for it.
FinancialClaim == [value : Int, fy : Int \cup {None}, fp : FiscalPeriod,
                   cik : Nat \cup {None}, ticker : BOOLEAN, bound : BOOLEAN]

\* trusted: the record is what the system fetched, unaltered.
Companyfacts == [cik : Nat \cup {None}, trusted : BOOLEAN, rows : SUBSET SecFact]

-----------------------------------------------------------------------------
(* The rows of a period *)

Magnitude(x) == IF x < 0 THEN -x ELSE x

\* _equal: exactly, for whole amounts; otherwise within the tolerance and
\* never across zero.
Equal(a, b) ==
    IF a % Whole = 0 /\ b % Whole = 0
    THEN a = b
    ELSE /\ a # 0 /\ b # 0 => (a > 0 <=> b > 0)
         /\ Magnitude(a - b) <= 1

Labelled(rows, fy, fp) == {f \in rows : f.fy = fy /\ f.fp = fp}

\* Mutated form of OwnRows: comparatives are taken for restatements.
OwnRowsAll(labelled) == labelled

\* _valid_iso_date
Dated(f) == f.end \in Int

\* Of a filing's rows, the ones that end last, or at no known date.
OwnRows(labelled) ==
    {f \in labelled :
        Dated(f) => \A g \in labelled : g.accession = f.accession /\ Dated(g) => g.end <= f.end}

\* Rows with a label missing that have an end of the period's own rows, as it
\* is written, and amendments that say nothing of their period: they may
\* belong to it.
MayBelong(f, own) ==
    \/ /\ f.end # None /\ f.end \in {g.end : g \in own}
       /\ f.fy = None \/ f.fp = None
    \/ f.fy = None /\ f.fp = None /\ f.end = None /\ f.amended

\* Mutated form of PeriodFacts: rows with a label missing are passed over.
PeriodFactsLabelled(rows, fy, fp) == OwnRows(Labelled(rows, fy, fp))

PeriodFacts(rows, fy, fp) ==
    LET own == OwnRows(Labelled(rows, fy, fp))
    IN  IF own = {} THEN {} ELSE own \cup {f \in rows : MayBelong(f, own)}

-----------------------------------------------------------------------------
(* The fallback: comparative rows of later filings *)

OwnEnd(rows, accession) ==
    Max({f.end : f \in {g \in rows : g.accession = accession /\ Dated(g)}})

FilingLabels(rows, accession) ==
    {f.fy : f \in {g \in rows : g.accession = accession /\ g.fy # None}}

\* round(gap / 365.25); a gap is never half-way between two years.
YearsIn(gap) == (8 * gap + 1461) \div 2922

\* A gap of whole years, but for 40 days.
Aligned(gap) == YearsIn(gap) >= 1 /\ Magnitude(4 * gap - 1461 * YearsIn(gap)) <= 160

\* A row for a full year that ends whole years before its filing's own
\* period, in a filing with one fiscal-year label.
IsComparative(f, rows) ==
    /\ f.start # None /\ Dated(f)
    /\ f.end # OwnEnd(rows, f.accession)
    /\ Cardinality(FilingLabels(rows, f.accession)) = 1
    /\ f.end - f.start \in 350..380
    /\ Aligned(OwnEnd(rows, f.accession) - f.end)

\* Mutated form of FiscalYear: the calendar year in which the row ends.
CalendarYear(f, rows) == (4 * f.end) \div 1461

\* The fiscal year of a comparative row, counted back from its filing's label.
FiscalYear(f, rows) ==
    (CHOOSE fy \in FilingLabels(rows, f.accession) : TRUE)
      - YearsIn(OwnEnd(rows, f.accession) - f.end)

\* One period end must match, and all filings agree on its year.
ComparativePeriodFacts(rows, fy, fp) ==
    LET comparatives == {f \in rows : IsComparative(f, rows)}
        matching     == {f.end : f \in {g \in comparatives : FiscalYear(g, rows) = fy}}
        candidates   == {f \in comparatives : f.end \in matching}
    IN  IF /\ fp = "FY"
           /\ Cardinality(matching) = 1
           /\ \A f \in candidates : FiscalYear(f, rows) = fy
        THEN candidates
        ELSE {}

-----------------------------------------------------------------------------
(* verify_financial_claim *)

\* Only a claim with a ticker and no CIK leaves its entity open; a CIK must be
\* the record's.
EntityBound(claim, facts) ==
    /\ claim.cik = None => ~ claim.ticker
    /\ claim.cik # None => claim.cik = facts.cik

Bindable(claim, facts) ==
    /\ Magnitude(claim.value) < Limit
    /\ claim.fy # None
    /\ EntityBound(claim, facts)

\* The rows the claim is compared with.
Period(claim, facts) ==
    LET primary == PeriodFacts(facts.rows, claim.fy, claim.fp)
    IN  IF primary # {} THEN primary
        ELSE ComparativePeriodFacts(facts.rows, claim.fy, claim.fp)

\* The latest filing with a row labelled with the period, if there is one.
CitedFrom(claim, period) ==
    LET own == Labelled(period, claim.fy, claim.fp)
    IN  Max({f.accession : f \in IF own # {} THEN own ELSE period})

\* Mutated form of AsReported: a filing is cited whatever the status.
AsReportedAlways(claim, period, status) == CitedFrom(claim, period)

\* as_reported_in: only a definitive status cites a filing.
AsReported(claim, period, status) ==
    IF status \in {"VERIFIED", "REFUTED"} THEN CitedFrom(claim, period) ELSE None

LookupResult(claim, facts, matched) ==
    [kind |-> "SOURCED", outcome |-> IF matched THEN "PASS" ELSE "FAIL",
     isLLM |-> FALSE, applicable |-> TRUE, authoritative |-> TRUE,
     integrity |-> facts.trusted, bound |-> claim.bound]

\* Mutated form of Distinct: the latest filing supersedes the others.
DistinctLatest(period) ==
    {f.value : f \in {g \in period : \A h \in period : h.accession <= g.accession}}

\* The distinct values filed for a period, compared exactly.
Distinct(period) == {f.value : f \in period}

Unbound == [status |-> "UNVERIFIED", accession |-> None]

VerifyFinancialClaim(claim, facts) ==
    LET period == Period(claim, facts)
        value  == CHOOSE v \in Distinct(period) : TRUE
        status == Verdict("MECHANICAL", "OK",
                          {LookupResult(claim, facts, Equal(claim.value, value))}, {}).status
    IN  IF \/ ~ Bindable(claim, facts)
           \/ period = {}
           \/ \E f \in period : Magnitude(f.value) >= Limit
        THEN Unbound
        ELSE IF Cardinality(Distinct(period)) > 1
             THEN [status |-> "CONTESTED", accession |-> None]
             ELSE [status |-> status, accession |-> AsReported(claim, period, status)]
=============================================================================
