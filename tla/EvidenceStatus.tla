--------------------------- MODULE EvidenceStatus ---------------------------
(***************************************************************************)
(* The vocabulary of glass_ionomer/verify/status.py and its two pure       *)
(* operations on finished decisions: refresh_for_staleness, which demotes  *)
(* a positive status whose TTL has lapsed, and compose, which bounds a     *)
(* conclusion by its premises.                                             *)
(*                                                                         *)
(* A decision keeps the fields these operations read or write.  The        *)
(* reasons, ids and counters of StatusDecision play no part in them.       *)
(***************************************************************************)
EXTENDS Integers, FiniteSetsExt

Status == {"VERIFIED", "CORROBORATED", "SUPPORTED", "CONTESTED",
           "UNVERIFIED", "REFUTED", "EXPIRED"}
Positive == {"VERIFIED", "CORROBORATED", "SUPPORTED"}
Direction == {"SUPPORTS", "REFUTES", "NEUTRAL"}
Class == {"MECHANICAL", "EMPIRICAL", "INTERPRETIVE"}

\* _LADDER: UNVERIFIED and EXPIRED share a rung.
Ladder(s) == CASE s = "VERIFIED"     -> 5
               [] s = "CORROBORATED" -> 4
               [] s = "SUPPORTED"    -> 3
               [] s = "CONTESTED"    -> 2
               [] s = "UNVERIFIED"   -> 1
               [] s = "EXPIRED"      -> 1
               [] s = "REFUTED"      -> 0

Ceiling(class) == CASE class = "MECHANICAL"   -> "VERIFIED"
                    [] class = "EMPIRICAL"    -> "CORROBORATED"
                    [] class = "INTERPRETIVE" -> "SUPPORTED"

\* expires_at is a time or None.
Never == -1
Deadline == Nat \cup {Never}

Decision == [status       : Status,
             direction    : Direction,
             contested    : BOOLEAN,
             modelDerived : BOOLEAN,
             expires      : Deadline]

-----------------------------------------------------------------------------
(* Time to live *)

\* Mutated form of IsExpired: the deadline itself counts as live.
LiveAtDeadline(d, now) ==
    d.expires # Never /\ now > d.expires /\ d.status \in Positive

IsExpired(d, now) ==
    d.expires # Never /\ now >= d.expires /\ d.status \in Positive

Refresh(d, now) ==
    IF IsExpired(d, now)
    THEN [d EXCEPT !.status = "EXPIRED", !.direction = "NEUTRAL"]
    ELSE d

\* Mutated form of FreshDeadline: the TTL is counted backwards.
DeadlineBefore(status, ttl, now) ==
    IF status \in Positive /\ ttl # Never THEN now - ttl ELSE Never

\* The deadline _finalize stamps on a fresh decision: only a positive status
\* of a claim with a TTL has one.
FreshDeadline(status, ttl, now) ==
    IF status \in Positive /\ ttl # Never THEN now + ttl ELSE Never

-----------------------------------------------------------------------------
(* Composition *)

\* Mutated form of EarliestDeadline: the conclusion keeps its own deadline.
OwnDeadline(c, ps) == c.expires

EarliestDeadline(c, ps) ==
    LET deadlines == {d.expires : d \in ps \cup {c}} \ {Never}
    IN  IF deadlines = {} THEN Never ELSE Min(deadlines)

\* The status on the lowest rung among the premises.  compose breaks ties by
\* position; the only tie, UNVERIFIED with EXPIRED, never reaches this point.
Weakest(ps) ==
    LET statuses == {p.status : p \in ps}
    IN  CHOOSE s \in statuses : \A t \in statuses : Ladder(s) <= Ladder(t)

\* Mutated form of Conjoin: the weakest premise replaces the conclusion's
\* status even when it is the stronger of the two.
ConjoinTakesWeakest(c, ps) ==
    [c EXCEPT !.status  = Weakest(ps),
              !.expires = EarliestDeadline(c, ps)]

\* compose after both sides have been refreshed: c is the conclusion and ps
\* the nonempty set of its premises.
Conjoin(c, ps) ==
    LET met      == {p.status : p \in ps}
        merged   == [c EXCEPT
                       !.contested    = c.contested \/ \E p \in ps : p.contested,
                       !.modelDerived = c.modelDerived \/ \E p \in ps : p.modelDerived,
                       !.expires      = EarliestDeadline(c, ps)]
    IN  CASE "REFUTED" \in met ->
               [merged EXCEPT !.status = "REFUTED", !.direction = "REFUTES"]
          [] "REFUTED" \notin met /\ "EXPIRED" \in met /\ c.status # "REFUTED" ->
               [merged EXCEPT !.status = "EXPIRED", !.direction = "NEUTRAL"]
          [] "REFUTED" \notin met /\ "EXPIRED" \in met /\ c.status = "REFUTED" ->
               merged
          [] met \cap {"REFUTED", "EXPIRED"} = {} /\ Ladder(Weakest(ps)) < Ladder(c.status) ->
               [merged EXCEPT !.status = Weakest(ps)]
          [] OTHER -> merged

\* Mutated form of Compose: premises are taken at their stored status.
ComposeStale(c, ps, now) ==
    IF ps = {} THEN Refresh(c, now) ELSE Conjoin(Refresh(c, now), ps)

Compose(c, ps, now) ==
    LET fresh == {Refresh(p, now) : p \in ps}
    IN  IF ps = {} THEN Refresh(c, now) ELSE Conjoin(Refresh(c, now), fresh)

-----------------------------------------------------------------------------
(* What decide_status may return *)

Form(s, dir, cont, model) ==
    [status |-> s, direction |-> dir, contested |-> cont, modelDerived |-> model]

\* The statuses, directions and flags decide_status (with _apply_ceiling) can
\* give a claim of a class.  DecideStatus checks that it returns no others.
DecisionForms(class) ==
    {f \in [status : Status, direction : Direction,
            contested : BOOLEAN, modelDerived : BOOLEAN] :
       \/ f.status = "REFUTED" /\ f.direction = "REFUTES"
       \/ f.status = "CONTESTED" /\ f.direction = "NEUTRAL" /\ f.contested
       \/ /\ f.status = "UNVERIFIED" /\ f.direction # "SUPPORTS"
          /\ ~ f.contested /\ ~ f.modelDerived
       \/ /\ f.status \in Positive /\ f.direction = "SUPPORTS"
          /\ ~ f.contested
          /\ Ladder(f.status) <= Ladder(Ceiling(class))}

Forms == UNION {DecisionForms(class) : class \in Class}

\* The decision _finalize builds from a form.
Finalize(form, ttl, now) ==
    [status       |-> form.status,
     direction    |-> form.direction,
     contested    |-> form.contested,
     modelDerived |-> form.modelDerived,
     expires      |-> FreshDeadline(form.status, ttl, now)]

\* Before any verifier ran and with no evidence (ExecutionState.NO_EVIDENCE).
NoEvidence == Finalize(Form("UNVERIFIED", "NEUTRAL", FALSE, FALSE), Never, 0)
=============================================================================
