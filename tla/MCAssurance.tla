----------------------------- MODULE MCAssurance -----------------------------
(* Two providers; a company with CIK 1 that reported 2 for 2022 and, in     *)
(* another record, two figures for it; figures, reviews and records that    *)
(* agree or differ in one respect.                                          *)
EXTENDS Assurance

CONSTANTS p1, p2, p3

MCProvider == {p1, p2, p3}

Fact(accession, value) ==
    [accession |-> accession, fy |-> 2022, fp |-> "FY", start |-> 10, end |-> 375,
     amended |-> FALSE, value |-> value]
Filed == [cik |-> 1, trusted |-> TRUE, rows |-> {Fact(1, 2)}]
MCRecords == {Filed, [Filed EXCEPT !.cik = 2], [Filed EXCEPT !.rows = {}]}
Supplied == {Filed, [Filed EXCEPT !.trusted = FALSE],
             [Filed EXCEPT !.rows = {Fact(1, 2), Fact(2, 4)}]}

Claimed == [value |-> 2, fy |-> 2022, fp |-> "FY", cik |-> 1, ticker |-> TRUE]
ByTicker == [Claimed EXCEPT !.cik = None]
MCFigures == {Claimed, ByTicker, [Claimed EXCEPT !.value = 4],
              [Claimed EXCEPT !.value = NotFinite], [Claimed EXCEPT !.fy = None],
              [ByTicker EXCEPT !.ticker = FALSE]}

MCReplies == {[kind |-> k, figure |-> None] : k \in ReplyKind \ {"unavailable", "figure"}}
             \cup {[kind |-> "figure", figure |-> f] : f \in MCFigures}

MCAdmissions == [allowed : {{}, {p1, p2}, {p2}}, residency : {"open", "regulated"},
                 fallback : BOOLEAN]
MCRequests ==
    [via : {"text"}, admission : MCAdmissions,
     providers : {<<p1, p2>>, <<p3, p2, p1>>, <<p3>>}, facts : {None, Filed}]
    \cup [via : {"text"},
          admission : {[allowed |-> {p1}, residency |-> "open", fallback |-> FALSE]},
          providers : {<<p1>>}, facts : Supplied]
    \cup [via : {"sec"}, figure : MCFigures, named : BOOLEAN, facts : Supplied \cup {None},
          reviewed : {None, Claimed, ByTicker, [Claimed EXCEPT !.value = 4],
                      [ByTicker EXCEPT !.ticker = FALSE]}]
    \cup [via : {"logic"}, reviewed : BOOLEAN]
=============================================================================
