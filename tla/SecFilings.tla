----------------------------- MODULE SecFilings -----------------------------
(***************************************************************************)
(* What the financial lane says of a company while the company files: its  *)
(* annual reports with comparative figures, its quarters and amendments,   *)
(* on its own fiscal calendar, with the labels EDGAR gives the rows.       *)
(*                                                                         *)
(* The filings are the environment of FinancialLane.  reports is history:  *)
(* which figure each filing in truth reports for which period, which the   *)
(* code can only tell from labels and dates.                               *)
(***************************************************************************)
EXTENDS FinancialLane

CONSTANTS Years,       \* fiscal years
          Calendars,   \* [Years -> [start, end]]
          Amounts,     \* the figures of fiscal years
          Coverages,   \* how many years back the rows of an annual report go
          Tags,        \* the labels and dates an amendment's row may carry
          MaxFilings,  \* bound on the filings
          RecordCik,
          Claims

\* end: the date itself, or what stands in its place.
Tag == [fy : BOOLEAN, fp : BOOLEAN, end : {"date", None} \cup Unreadable]
FullTag == [fy |-> TRUE, fp |-> TRUE, end |-> "date"]

Report == [accession : Nat, year : Years, fp : FiscalPeriod, value : Int,
           own : BOOLEAN, tag : Tag]

\* The days from the end of one fiscal year to the end of another.
Gap(c, y, z) == c[z].end - c[y].end

\* z ends on the anniversaries of the end of y, to within some days.
Anniversary(c, y, z, days) == Magnitude(4 * Gap(c, y, z) - 1461 * (z - y)) <= 4 * days

\* A company may change its fiscal year, but not by whole years.
ASSUME FilingsAssumption ==
    /\ Years \subseteq Nat
    /\ \A c \in Calendars : \A y \in Years :
         /\ c[y].start \in Nat /\ c[y].end \in Nat
         /\ \A z \in Years : y < z =>
              /\ c[y].end < c[z].end
              /\ Aligned(Gap(c, y, z)) => Anniversary(c, y, z, 40)
    /\ Amounts \subseteq Int
    /\ Coverages \subseteq SUBSET Nat /\ Tags \subseteq Tag /\ MaxFilings \in Nat
    /\ RecordCik \in Nat /\ Claims \subseteq FinancialClaim

VARIABLES calendar,
          filed,     \* the years with an annual report
          rows,      \* the companyfacts record
          reports,
          answers    \* what the lane answers to each claim

filingsVars == <<calendar, filed, rows, reports, answers>>

AnswersOn(record) ==
    [claim \in Claims |-> VerifyFinancialClaim(claim,
                            [cik |-> RecordCik, trusted |-> TRUE, rows |-> record])]

FilingsInit ==
    /\ calendar \in Calendars
    /\ filed = {} /\ rows = {} /\ reports = {}
    /\ answers = AnswersOn({})

Accession == Cardinality({r.accession : r \in reports}) + 1

\* A filing with these rows, which in truth are these reports.
File(newRows, newReports) ==
    /\ Accession <= MaxFilings
    /\ rows' = rows \cup newRows
    /\ reports' = reports \cup newReports
    /\ answers' = AnswersOn(rows')
    /\ UNCHANGED calendar

\* The row for the year represented in a filing labelled as year's.
Row(filing, year, represented, amended, tag, value) ==
    [accession |-> filing,
     fy    |-> IF tag.fy THEN year ELSE None,
     fp    |-> IF tag.fp THEN "FY" ELSE None,
     start |-> IF tag.end = "date" THEN calendar[represented].start ELSE None,
     end   |-> IF tag.end = "date" THEN calendar[represented].end ELSE tag.end,
     amended |-> amended, value |-> value]

ReportOf(filing, year, represented, fp, tag, value) ==
    [accession |-> filing, year |-> represented, fp |-> fp,
     value |-> value, own |-> represented = year, tag |-> tag]

\* An annual report, with the figures the company then gives to each year it
\* covers.  The years follow one another, some may be missing.
FileAnnual(year, coverage) ==
    LET covered == {y \in Years : year - y \in coverage}
    IN  /\ \A y \in filed : y < year
        /\ covered # {}
        /\ \E value \in [covered -> Amounts] :
             File({Row(Accession, year, y, FALSE, FullTag, value[y]) : y \in covered},
                  {ReportOf(Accession, year, y, "FY", FullTag, value[y]) : y \in covered})
        /\ filed' = filed \cup {year}

\* The amendment of an annual report, which may lack labels.
FileAmendment(year, tag, value) ==
    /\ year \in filed
    /\ File({Row(Accession, year, year, TRUE, tag, value)},
            {ReportOf(Accession, year, year, "FY", tag, value)})
    /\ UNCHANGED filed

\* The fourth quarter has a row of its own that ends with the year.
FileQuarter(year, value) ==
    /\ year \in filed
    /\ File({[Row(Accession, year, year, FALSE, FullTag, value) EXCEPT
                !.fp = "Q4", !.start = calendar[year].end - 91]},
            {ReportOf(Accession, year, year, "Q4", FullTag, value)})
    /\ UNCHANGED filed

FilingsNext ==
    \E year \in Years :
        \/ \E coverage \in Coverages : FileAnnual(year, coverage)
        \/ \E tag \in Tags, value \in Amounts : FileAmendment(year, tag, value)
        \/ \E value \in Amounts : FileQuarter(year, value)

FilingsSpec == FilingsInit /\ [][FilingsNext]_filingsVars

-----------------------------------------------------------------------------
(* What the answers depend on *)

\* An annual report has a row for its own year.
OwnYearFiled == \A coverage \in Coverages : 0 \in coverage

-----------------------------------------------------------------------------
(* Properties *)

Decided(claim) == answers[claim].status \in {"VERIFIED", "REFUTED"}

FilingsTypeOK ==
    /\ rows \subseteq SecFact /\ reports \subseteq Report
    /\ {f.accession : f \in rows} = 1..(Accession - 1)
    /\ \A claim \in Claims :
         LET answer == answers[claim]
         IN  /\ answer.status \in {"VERIFIED", "REFUTED", "CONTESTED", "UNVERIFIED"}
             /\ IF answer.status \in {"VERIFIED", "REFUTED"}
                THEN answer.accession \in {f.accession : f \in rows}
                ELSE answer.accession = None

Reported(claim) == {r \in reports : r.year = claim.fy /\ r.fp = claim.fp}

\* A definitive answer is about the claimed period: the filing it cites does
\* report that period's figure, and the claim was compared with that figure
\* ("VERIFIED here means exactly: the claimed value equals the figure
\* reported for this us-gaap concept and period in the cited SEC filing").
AnswersForClaimedPeriod ==
    \A claim \in Claims :
        LET answer == answers[claim]
        IN  answer.status \in {"VERIFIED", "REFUTED"} =>
                /\ claim.bound
                /\ claim.ticker \/ claim.cik # None => claim.cik = RecordCik
                /\ \E r \in Reported(claim) :
                     /\ r.accession = answer.accession
                     /\ answer.status = "VERIFIED" <=> Equal(claim.value, r.value)

\* The reports that decide a period: those of its own filings, or if it has
\* none, the comparatives in other filings.
Deciding(claim) ==
    LET own == {r \in Reported(claim) : r.own}
    IN  IF own # {} THEN own ELSE Reported(claim)

\* Filings that report different figures for a period leave every claim about
\* it without a definitive answer ("restatements/amendments are detected ...
\* across same-end rows AND any under-tagged row (fail-closed)", "every
\* candidate across all accessions must agree exactly (any disagreement stays
\* CONTESTED)").  Violated: see Placed for the figures that the code passes
\* over.
DisagreementIsContested ==
    \A claim \in Claims :
        Cardinality({r.value : r \in Deciding(claim)}) > 1 => ~ Decided(claim)

\* The figures the code can give to their period.  A filing's own figure: its
\* row has both labels, or the end of the year, or nothing at all; one label
\* alone, or an unreadable end without both labels, leaves it out
\* (verify.py:151-161).  A comparative: the year it is for ends whole years
\* before that of its filing, which a change of the fiscal year may break for
\* one filing and not for another (verify.py:226-229).
Placed(r) ==
    IF r.own
    THEN LET tag == r.tag
         IN  \/ tag.end = "date"
             \/ tag.fy /\ tag.fp
             \/ ~ tag.fy /\ ~ tag.fp /\ tag.end = None
    ELSE \E s \in reports :
            s.own /\ s.accession = r.accession /\ Aligned(Gap(calendar, r.year, s.year))

\* Two filings whose figures for a period can both be placed, and differ,
\* leave every claim about it without a definitive answer: amendments with
\* and without labels, comparatives before and after a change of the fiscal
\* year, and whatever else is filed with them.
PlacedDisagreementIsContested ==
    /\ FilingsTypeOK
    /\ \A claim \in Claims :
         Cardinality({r.value : r \in {d \in Deciding(claim) : Placed(d)}}) > 1
             => ~ Decided(claim)

\* A further filing never turns VERIFIED into REFUTED or back: the answer is
\* given up before it changes.
FilingsNeverFlip ==
    [][\A claim \in Claims :
         Decided(claim) /\ Decided(claim)' =>
             answers'[claim].status = answers[claim].status]_filingsVars

\* A company that keeps its calendar: years of 52 or 53 weeks, or of twelve
\* months, which end within a week of the same date.
Steady ==
    \A y \in Years :
        /\ calendar[y].end - calendar[y].start \in 363..370
        /\ \A z \in Years : y < z => Anniversary(calendar, y, z, 7)

\* Failing closed is not refusing: a figure of a year, properly labelled and
\* reported alike by all, of a company that keeps its calendar, is VERIFIED
\* when claimed, in the year's own filing or as a comparative ("a false
\* ABSTENTION: some filers' FY-N figure exists ... only as comparative rows
\* inside later filings").
AgreedFigureIsVerified ==
    Steady => \A claim \in Claims :
        /\ Reported(claim) # {} /\ claim.fp = "FY"
        /\ \A r \in reports : r.tag = FullTag
        /\ {r.value : r \in Deciding(claim)} = {claim.value}
        /\ claim.bound /\ claim.cik = RecordCik /\ Magnitude(claim.value) < Limit
        => answers[claim].status = "VERIFIED"
=============================================================================
