---------------------------- MODULE MCSecFilings ----------------------------
(* Three fiscal years on four calendars, two of which change; figures      *)
(* that are whole, nearly equal and far apart.                             *)
EXTENDS SecFilings

MCYears == 2021..2023

\* The first day of a calendar year.
Day(year) == (1461 * year + 3) \div 4

December == [y \in MCYears |-> [start |-> Day(y), end |-> Day(y + 1) - 1]]
\* Weeks: 52, 52 and 53 of them, ending about the first of February.
Retail ==
    LET last == [y \in 2020..2023 |-> Day(2021) + 29 + 364 * (y - 2020)
                                        + IF y = 2023 THEN 7 ELSE 0]
    IN  [y \in MCYears |-> [start |-> last[y - 1] + 1, end |-> last[y]]]
\* June until 2021, the calendar year from 2022.
Changed == [December EXCEPT ![2021] = [start |-> Day(2020) + 182, end |-> Day(2021) + 180]]
\* The calendar year until 2022, June from the one after.
Late == [December EXCEPT ![2023] = [start |-> Day(2023), end |-> Day(2024) + 180]]
MCCalendars == {December, Retail, Changed, Late}

OwnAndComparatives == {{0}, {0, 1}, {0, 1, 2}}
ComparativesToo == OwnAndComparatives \cup {{1, 2}}

\* An amendment's row: with its end and both labels, one or none; with one
\* label or none and no end; with both or none and an unreadable end.
MCTags ==
    LET Labels(fy, fp, end) == [fy |-> fy, fp |-> fp, end |-> end]
    IN  {Labels(TRUE, TRUE, "date"), Labels(FALSE, TRUE, "date"), Labels(FALSE, FALSE, "date"),
         Labels(FALSE, FALSE, None), Labels(TRUE, FALSE, None)}
        \cup {Labels(b, b, end) : b \in BOOLEAN, end \in Unreadable}

Claim(value, fy, fp, cik, ticker, bound) ==
    [value |-> value, fy |-> fy, fp |-> fp, cik |-> cik, ticker |-> ticker, bound |-> bound]
MCClaims ==
    {Claim(v, fy, "FY", 1, TRUE, TRUE) : v \in {2, 5}, fy \in MCYears}
    \cup {Claim(v, 2022, "Q4", 1, TRUE, TRUE) : v \in {2, 5}}
    \cup {Claim(3, 2022, "FY", 1, FALSE, TRUE), Claim(2, 2020, "FY", 1, TRUE, TRUE),
          Claim(9, 2022, "FY", 1, TRUE, TRUE), Claim(2, 2022, "FY", 2, TRUE, TRUE),
          Claim(2, 2022, "FY", None, TRUE, TRUE), Claim(2, 2022, "FY", 1, TRUE, FALSE),
          Claim(2, None, "FY", 1, TRUE, TRUE)}
MCAmounts == {2, 3, 5}

ASSUME MCFilersAssumption ==
    Coverages = OwnAndComparatives => OwnYearFiled
=============================================================================
