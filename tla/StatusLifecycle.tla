-------------------------- MODULE StatusLifecycle --------------------------
(***************************************************************************)
(* Decisions kept and reused over time (glass_ionomer/verify/status.py).   *)
(*                                                                         *)
(* A holder of decisions decides claims (decide_status), refreshes them    *)
(* (refresh_for_staleness) and composes one with others as its premises    *)
(* (compose), in any order, while the clock runs.  Nothing demotes a       *)
(* decision when its TTL lapses: demotion is lazy, at the next refresh or  *)
(* composition.  What counts for a reader is the status refreshed at the   *)
(* time of reading, Effective.                                             *)
(***************************************************************************)
EXTENDS EvidenceStatus

CONSTANTS Claim,     \* the claims whose decisions are held
          Outcomes,  \* the forms decide_status may return for them
          TTLs,      \* the TTLs claims are given; Never for none
          MaxTime    \* bound on the clock

ASSUME LifecycleAssumption ==
    /\ Outcomes \subseteq Forms
    /\ TTLs \subseteq Deadline
    /\ MaxTime \in Nat

VARIABLES now,     \* the time passed to every call
          store,   \* the decision held for each claim
          (* For stating properties only: what the held decision rests on  *)
          (* since the claim was last decided, over all the compositions   *)
          (* it went through and those its premises went through.          *)
          lapse,   \* the earliest deadline of that support
          cap      \* its lowest rung

vars == <<now, store, lapse, cap>>

Effective(c) == Refresh(store[c], now)
Usable(c) == Effective(c).status \in Positive

\* The earliest of a set of deadlines, Never being later than all others.
EarliestOf(S) ==
    IF S \ {Never} = {} THEN Never ELSE Min(S \ {Never})

TypeOK ==
    /\ now \in Nat
    /\ store \in [Claim -> Decision]
    /\ lapse \in [Claim -> Deadline]
    /\ cap \in [Claim -> 0..5]

Init ==
    /\ now = 0
    /\ store = [c \in Claim |-> NoEvidence]
    /\ lapse = [c \in Claim |-> Never]
    /\ cap = [c \in Claim |-> Ladder("UNVERIFIED")]

\* The clock only moves forward.
Tick ==
    /\ now < MaxTime
    /\ now' = now + 1
    /\ UNCHANGED <<store, lapse, cap>>

\* decide_status: the claim is verified afresh, whatever was held for it.
Decide(c, form, ttl) ==
    LET d == Finalize(form, ttl, now)
    IN  /\ store' = [store EXCEPT ![c] = d]
        /\ lapse' = [lapse EXCEPT ![c] = d.expires]
        /\ cap' = [cap EXCEPT ![c] = Ladder(d.status)]
        /\ UNCHANGED now

\* refresh_for_staleness on one held decision.
RefreshClaim(c) ==
    /\ store' = [store EXCEPT ![c] = Refresh(@, now)]
    /\ UNCHANGED <<now, lapse, cap>>

\* compose(store[c], [store[p] for p in P], now)
ComposeClaim(c, P) ==
    /\ store' = [store EXCEPT ![c] = Compose(@, {store[p] : p \in P}, now)]
    /\ lapse' = [lapse EXCEPT ![c] = EarliestOf({lapse[p] : p \in P \cup {c}})]
    /\ cap' = [cap EXCEPT ![c] = Min({cap[p] : p \in P \cup {c}})]
    /\ UNCHANGED now

Next ==
    \/ Tick
    \/ \E c \in Claim :
         \/ \E form \in Outcomes, ttl \in TTLs : Decide(c, form, ttl)
         \/ RefreshClaim(c)
         \/ \E P \in SUBSET (Claim \ {c}) : ComposeClaim(c, P)

Spec == Init /\ [][Next]_vars

-----------------------------------------------------------------------------
(* Properties *)

\* A claim that reads as positive rests on support that is still live and no
\* weaker than it: no chain of compositions, through premises that were
\* themselves composed, refreshed or decided again in between, outlives the
\* earliest deadline below it or outranks the lowest rung below it
\* (status.py compose: "a conclusion may not outlive the premise holding it
\* up").
RestsOnLiveSupport ==
    \A c \in Claim : Usable(c) =>
        /\ lapse[c] # Never => now < lapse[c]
        /\ Ladder(Effective(c).status) <= cap[c]

\* Whatever is done with held decisions, only deciding a claim afresh raises
\* its rung or puts off its deadline (compose and refresh_for_staleness
\* "demote", and a refuted or expired claim does not recover by reuse).
OnlyDecidingRaises ==
    [][\A c \in Claim :
         \/ \E form \in Outcomes, ttl \in TTLs : Decide(c, form, ttl)
         \/ /\ Ladder(store'[c].status) <= Ladder(store[c].status)
            /\ store'[c].status \in Positive => store[c].status \in Positive
            /\ store[c].expires # Never =>
                 store'[c].expires # Never /\ store'[c].expires <= store[c].expires]_vars

\* Lazy demotion is as good as demotion at the deadline: seen through
\* Effective, the held decisions implement AssuranceLease, in which a level
\* drops at the instant its lease ends and a refresh does nothing.
Lease == INSTANCE AssuranceLease WITH
           NoEnd <- Never,
           level <- [c \in Claim |-> Ladder(Effective(c).status)],
           until <- [c \in Claim |-> store[c].expires]
ImplementsLease == Lease!Spec
=============================================================================
