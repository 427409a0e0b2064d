----------------------- MODULE StatusLifecycleProofs -----------------------
(***************************************************************************)
(* StatusLifecycle for every set of claims, every set of outcomes and TTLs *)
(* and every bound on the clock.                                           *)
(***************************************************************************)
EXTENDS StatusLifecycle, EvidenceStatusProofs

\* A decision made afresh is a decision, and lapses only if it is positive.
LEMMA FinalizeFacts ==
    ASSUME NEW form \in Forms, NEW ttl \in Deadline, NEW t \in Nat
    PROVE  Finalize(form, ttl, t) \in Decision
<1>1. /\ form.status \in Status /\ form.direction \in Direction
      /\ form.contested \in BOOLEAN /\ form.modelDerived \in BOOLEAN
  BY DEF Forms, DecisionForms
<1>2. FreshDeadline(form.status, ttl, t) \in Deadline
  BY DEF FreshDeadline, Deadline, Never
<1> QED
  BY <1>1, <1>2 DEF Finalize, Decision

\* The earliest deadline is one, and no later than any of the set.
LEMMA EarliestOfFacts ==
    ASSUME NEW S, S \subseteq Deadline
    PROVE  /\ EarliestOf(S) \in Deadline
           /\ EarliestOf(S) # Never => EarliestOf(S) \in S
<1> DEFINE T == S \ {Never}
<1>1. T \subseteq Nat
  BY DEF Deadline
<1>2. CASE T = {}
  BY <1>2 DEF EarliestOf, Deadline
<1>3. CASE T # {}
  <2>1. EarliestOf(S) = Min(T)
    BY <1>3 DEF EarliestOf
  <2>2. Min(T) \in T
    <3> HIDE DEF T
    <3> QED
      BY <1>1, <1>3, MinOfNaturals
  <2> QED
    BY <1>1, <2>1, <2>2 DEF Deadline
<1> QED
  BY <1>2, <1>3

\* The lowest rung of what a composition rests on.
LEMMA LowestCap ==
    ASSUME TypeOK, NEW c \in Claim, NEW P \in SUBSET Claim
    PROVE  /\ Min({cap[p] : p \in P \cup {c}}) \in 0..5
           /\ \E q \in P \cup {c} : Min({cap[p] : p \in P \cup {c}}) = cap[q]
<1> DEFINE caps == {cap[p] : p \in P \cup {c}}
<1>1. caps \subseteq 0..5 /\ caps \subseteq Nat /\ caps # {}
  BY DEF TypeOK
<1>2. Min(caps) \in caps
  <2> HIDE DEF caps
  <2> QED
    BY <1>1, MinOfNaturals
<1> QED
  BY <1>1, <1>2

-----------------------------------------------------------------------------
\* Every step keeps every variable in its type.
LEMMA TypeStep == TypeOK /\ [Next]_vars => TypeOK'
<1> SUFFICES ASSUME TypeOK, [Next]_vars PROVE TypeOK'
  OBVIOUS
<1> USE DEF TypeOK
<1>1. CASE Tick
  BY <1>1 DEF Tick
<1>2. ASSUME NEW c \in Claim, NEW form \in Outcomes, NEW ttl \in TTLs,
             Decide(c, form, ttl)
      PROVE  TypeOK'
  <2>1. Finalize(form, ttl, now) \in Decision
    BY FinalizeFacts, LifecycleAssumption
  <2>2. /\ Finalize(form, ttl, now).expires \in Deadline
        /\ Ladder(Finalize(form, ttl, now).status) \in 0..5
    BY <2>1, LadderRungs DEF Decision
  <2> QED
    BY <1>2, <2>1, <2>2 DEF Decide
<1>3. ASSUME NEW c \in Claim, RefreshClaim(c) PROVE TypeOK'
  <2>1. Refresh(store[c], now) \in Decision
    BY RefreshFacts
  <2> QED
    BY <1>3, <2>1 DEF RefreshClaim
<1>4. ASSUME NEW c \in Claim, NEW P \in SUBSET (Claim \ {c}), ComposeClaim(c, P)
      PROVE  TypeOK'
  <2>1. Compose(store[c], {store[p] : p \in P}, now) \in Decision
    BY ComposeIsWeakestLink
  <2>2. EarliestOf({lapse[p] : p \in P \cup {c}}) \in Deadline
    BY EarliestOfFacts
  <2>3. Min({cap[p] : p \in P \cup {c}}) \in 0..5
    BY LowestCap
  <2> QED
    BY <1>4, <2>1, <2>2, <2>3 DEF ComposeClaim
<1>5. CASE UNCHANGED vars
  BY <1>5 DEF vars
<1> QED
  BY <1>1, <1>2, <1>3, <1>4, <1>5 DEF Next

\* Type correctness: in particular no held decision ever has a status,
\* direction or deadline that decide_status, refresh_for_staleness and compose
\* could not have given it, and deadlines stay times or none.
THEOREM TypeCorrect == Spec => []TypeOK
<1>1. Init => TypeOK
  <2>1. NoEvidence \in Decision /\ Ladder("UNVERIFIED") \in 0..5
    BY DEF NoEvidence, Finalize, Form, FreshDeadline, Decision, Status, Direction,
           Deadline, Never, Positive, Ladder
  <2> QED
    BY <2>1 DEF Init, TypeOK, Deadline
<1> QED
  BY <1>1, TypeStep, PTL DEF Spec

-----------------------------------------------------------------------------
(* RestsOnLiveSupport speaks of Effective, which moves with the clock while  *)
(* nothing is written; what the writes maintain is a relation between each   *)
(* positive decision as stored, lapsed or not, and its support.              *)

Sustained(c) ==
    store[c].status \in Positive =>
        /\ lapse[c] # Never => store[c].expires # Never /\ store[c].expires <= lapse[c]
        /\ Ladder(store[c].status) <= cap[c]

IInv == TypeOK /\ \A c \in Claim : Sustained(c)

\* The claim a composition writes is backed by the support of its premises.
LEMMA ComposeBacked ==
    ASSUME IInv, TypeOK', NEW c \in Claim, NEW P \in SUBSET (Claim \ {c}), ComposeClaim(c, P)
    PROVE  Sustained(c)'
<1> DEFINE ps == {store[p] : p \in P}
           lapses == {lapse[p] : p \in P \cup {c}}
<1>1. /\ store'[c] = Compose(store[c], ps, now)
      /\ lapse'[c] = EarliestOf(lapses)
      /\ cap'[c] = Min({cap[p] : p \in P \cup {c}})
  BY DEF ComposeClaim, IInv, TypeOK
<1>2. /\ \A d \in ps \cup {store[c]} : d.expires # Never =>
            store'[c].expires # Never /\ store'[c].expires <= d.expires
      /\ store'[c].status \in Positive => \A d \in ps \cup {store[c]} :
            /\ d.status \in Positive
            /\ Ladder(store'[c].status) <= Ladder(d.status)
  <2>1. store[c] \in Decision /\ ps \subseteq Decision /\ now \in Nat
    BY DEF IInv, TypeOK
  <2> HIDE DEF ps
  <2> QED
    BY <1>1, <2>1, ComposeIsWeakestLink
<1>3. SUFFICES ASSUME store'[c].status \in Positive
               PROVE  /\ lapse'[c] # Never => /\ store'[c].expires # Never
                                              /\ store'[c].expires <= lapse'[c]
                      /\ Ladder(store'[c].status) <= cap'[c]
  BY DEF Sustained
<1>4. ASSUME NEW q \in P \cup {c}
      PROVE  /\ store[q].status \in Positive
             /\ lapse[q] # Never =>
                  /\ store[q].expires # Never /\ store[q].expires <= lapse[q]
                  /\ store'[c].expires # Never /\ store'[c].expires <= store[q].expires
             /\ Ladder(store'[c].status) <= Ladder(store[q].status)
             /\ Ladder(store[q].status) <= cap[q]
  BY <1>2, <1>3 DEF IInv, Sustained
<1>5. ASSUME lapse'[c] # Never
      PROVE  store'[c].expires # Never /\ store'[c].expires <= lapse'[c]
  <2>1. lapses \subseteq Deadline
    BY DEF IInv, TypeOK
  <2>2. PICK q \in P \cup {c} : lapse'[c] = lapse[q]
    BY <1>1, <1>5, <2>1, EarliestOfFacts
  <2>3. /\ store[q].expires \in Deadline /\ lapse[q] \in Deadline
        /\ store'[c].expires \in Deadline
    BY <2>2 DEF IInv, TypeOK, Decision
  <2> QED
    BY <1>4, <1>5, <2>2, <2>3 DEF Deadline
<1>6. Ladder(store'[c].status) <= cap'[c]
  <2>1. PICK q \in P \cup {c} : cap'[c] = cap[q]
    BY <1>1, LowestCap DEF IInv
  <2>2. /\ Ladder(store[q].status) \in 0..5 /\ cap[q] \in 0..5
        /\ Ladder(store'[c].status) \in 0..5
    BY <2>1, LadderRungs DEF IInv, TypeOK, Decision
  <2> QED
    BY <1>4, <2>1, <2>2
<1> QED
  BY <1>5, <1>6

\* Every step keeps every positive decision backed.
LEMMA BackedStep == IInv /\ [Next]_vars => IInv'
<1> SUFFICES ASSUME IInv, [Next]_vars PROVE IInv'
  OBVIOUS
<1>1. TypeOK /\ TypeOK'
  BY TypeStep DEF IInv
<1>2. ASSUME NEW c \in Claim, UNCHANGED <<store[c], lapse[c], cap[c]>>
      PROVE  Sustained(c)'
  BY <1>2 DEF IInv, Sustained
<1>3. CASE Tick
  BY <1>1, <1>2, <1>3 DEF Tick, IInv
<1>4. ASSUME NEW c \in Claim, NEW form \in Outcomes, NEW ttl \in TTLs,
             Decide(c, form, ttl)
      PROVE  IInv'
  <2> DEFINE d == Finalize(form, ttl, now)
  <2>1. /\ store'[c] = d /\ lapse'[c] = d.expires /\ cap'[c] = Ladder(d.status)
        /\ \A b \in Claim \ {c} : UNCHANGED <<store[b], lapse[b], cap[b]>>
    BY <1>1, <1>4 DEF Decide, TypeOK
  <2>2. d.expires \in Deadline /\ Ladder(d.status) \in 0..5
    BY <1>1, <2>1 DEF TypeOK, Decision
  <2>3. Sustained(c)'
    <3> HIDE DEF d
    <3> QED
      BY <2>1, <2>2 DEF Sustained, Deadline
  <2> QED
    BY <1>1, <1>2, <2>1, <2>3 DEF IInv
<1>5. ASSUME NEW c \in Claim, RefreshClaim(c) PROVE IInv'
  <2>1. /\ store'[c] = Refresh(store[c], now) /\ UNCHANGED <<lapse, cap>>
        /\ \A b \in Claim \ {c} : UNCHANGED <<store[b], lapse[b], cap[b]>>
    BY <1>1, <1>5 DEF RefreshClaim, TypeOK
  <2>2. store'[c].status \in Positive => store'[c] = store[c]
    BY <1>1, <2>1, RefreshFacts DEF TypeOK
  <2>3. Sustained(c)'
    BY <2>1, <2>2 DEF Sustained, IInv
  <2> QED
    BY <1>1, <1>2, <2>1, <2>3 DEF IInv
<1>6. ASSUME NEW c \in Claim, NEW P \in SUBSET (Claim \ {c}), ComposeClaim(c, P)
      PROVE  IInv'
  <2>1. \A b \in Claim \ {c} : UNCHANGED <<store[b], lapse[b], cap[b]>>
    BY <1>1, <1>6 DEF ComposeClaim, TypeOK
  <2>2. Sustained(c)'
    BY <1>1, <1>6, ComposeBacked
  <2> QED
    BY <1>1, <1>2, <2>1, <2>2 DEF IInv
<1>7. CASE UNCHANGED vars
  BY <1>1, <1>2, <1>7 DEF vars, IInv
<1> QED
  BY <1>3, <1>4, <1>5, <1>6, <1>7 DEF Next

\* Initially nothing is positive.
LEMMA InitBacked == Init => IInv
<1>1. NoEvidence \in Decision /\ Ladder("UNVERIFIED") \in 0..5
      /\ NoEvidence.status \notin Positive
  BY DEF NoEvidence, Finalize, Form, FreshDeadline, Decision, Status, Direction,
         Deadline, Never, Positive, Ladder
<1> QED
  BY <1>1 DEF Init, IInv, Sustained, TypeOK, Deadline

\* No claim reads as positive on support that has lapsed or that is weaker,
\* through any number of compositions by any number of claims: the deadline
\* and the rung compose hands on are never lost on the way.
THEOREM LiveSupport == Spec => []RestsOnLiveSupport
<1>1. IInv => RestsOnLiveSupport
  <2> SUFFICES ASSUME IInv, NEW c \in Claim, Usable(c)
               PROVE  /\ lapse[c] # Never => now < lapse[c]
                      /\ Ladder(Effective(c).status) <= cap[c]
    BY DEF RestsOnLiveSupport
  <2>1. /\ Effective(c) = store[c] /\ store[c].status \in Positive
        /\ store[c].expires # Never => now < store[c].expires
    BY RefreshFacts DEF IInv, TypeOK, Usable, Effective
  <2>2. Sustained(c)
    BY DEF IInv
  <2>3. /\ now \in Nat /\ store[c].expires \in Deadline /\ lapse[c] \in Deadline
    BY DEF IInv, TypeOK, Decision
  <2> QED
    BY <2>1, <2>2, <2>3 DEF Sustained, Deadline
<1> QED
  BY <1>1, InitBacked, BackedStep, PTL DEF Spec

-----------------------------------------------------------------------------
\* What composing writes for a claim, next to what was held for it.
LEMMA ComposeWeakens ==
    ASSUME TypeOK, NEW c \in Claim, NEW P \in SUBSET (Claim \ {c}), ComposeClaim(c, P)
    PROVE  /\ Ladder(store'[c].status) <= Ladder(Effective(c).status)
           /\ store'[c].status \in Positive =>
                /\ store[c].status \in Positive
                /\ store[c].expires # Never => now < store[c].expires
           /\ store[c].expires # Never =>
                store'[c].expires # Never /\ store'[c].expires <= store[c].expires
<1> DEFINE ps == {store[p] : p \in P}
<1>1. store'[c] = Compose(store[c], ps, now)
  BY DEF ComposeClaim, TypeOK
<1>2. store[c] \in Decision /\ ps \subseteq Decision /\ now \in Nat
  BY DEF TypeOK
<1> HIDE DEF ps
<1> QED
  BY <1>1, <1>2, ComposeIsWeakestLink DEF Effective

\* Nothing but deciding a claim afresh raises its rung, makes it positive or
\* puts off its deadline, whatever is refreshed and composed and when.
THEOREM ReuseNeverRaises == Spec => OnlyDecidingRaises
<1> DEFINE Held(c) ==
             /\ Ladder(store'[c].status) <= Ladder(store[c].status)
             /\ store'[c].status \in Positive => store[c].status \in Positive
             /\ store[c].expires # Never =>
                  store'[c].expires # Never /\ store'[c].expires <= store[c].expires
           Raises == \A c \in Claim :
             \/ \E form \in Outcomes, ttl \in TTLs : Decide(c, form, ttl)
             \/ Held(c)
<1>1. TypeOK /\ [Next]_vars => [Raises]_vars
  <2> SUFFICES ASSUME TypeOK, Next, NEW c \in Claim
               PROVE  \/ \E form \in Outcomes, ttl \in TTLs : Decide(c, form, ttl)
                      \/ Held(c)
    OBVIOUS
  <2>1. ASSUME UNCHANGED store[c] PROVE Held(c)
    <3>1. Ladder(store[c].status) \in 0..5 /\ store[c].expires \in Deadline
      BY LadderRungs DEF TypeOK, Decision
    <3> QED
      BY <2>1, <3>1 DEF Deadline
  <2>2. CASE Tick
    BY <2>1, <2>2 DEF Tick
  <2>3. ASSUME NEW b \in Claim, NEW form \in Outcomes, NEW ttl \in TTLs,
               Decide(b, form, ttl), b # c
        PROVE  Held(c)
    BY <2>1, <2>3 DEF Decide, TypeOK
  <2>4. ASSUME NEW b \in Claim, RefreshClaim(b) PROVE Held(c)
    <3>1. CASE b # c
      BY <2>1, <2>4, <3>1 DEF RefreshClaim, TypeOK
    <3>2. CASE b = c
      <4>1. store'[c] = Refresh(store[c], now)
        BY <2>4, <3>2 DEF RefreshClaim, TypeOK
      <4>2. store[c] \in Decision /\ now \in Nat /\ store[c].expires \in Deadline
        BY DEF TypeOK, Decision
      <4> QED
        BY <4>1, <4>2, RefreshFacts DEF Deadline
    <3> QED
      BY <3>1, <3>2
  <2>5. ASSUME NEW b \in Claim, NEW P \in SUBSET (Claim \ {b}), ComposeClaim(b, P)
        PROVE  Held(c)
    <3>1. CASE b # c
      BY <2>1, <2>5, <3>1 DEF ComposeClaim, TypeOK
    <3>2. CASE b = c
      <4>1. Ladder(Effective(c).status) <= Ladder(store[c].status)
        BY RefreshFacts DEF Effective, TypeOK
      <4>2. /\ Effective(c) \in Decision /\ store[c] \in Decision
            /\ store'[c] \in Decision
        BY RefreshFacts, TypeStep DEF Effective, TypeOK
      <4>3. /\ Ladder(Effective(c).status) \in 0..5 /\ Ladder(store[c].status) \in 0..5
            /\ Ladder(store'[c].status) \in 0..5
        BY <4>2, LadderRungs DEF Decision
      <4> QED
        BY <2>5, <3>2, <4>1, <4>3, ComposeWeakens
    <3> QED
      BY <3>1, <3>2
  <2> QED
    BY <2>2, <2>3, <2>4, <2>5 DEF Next
<1> QED
  BY <1>1, TypeCorrect, PTL DEF Spec, OnlyDecidingRaises

-----------------------------------------------------------------------------
(* The refinement: Level and Until are what Lease substitutes.              *)

Level == [c \in Claim |-> Ladder(Effective(c).status)]
Until == [c \in Claim |-> store[c].expires]

\* A call for one claim leaves the others as they read before.
LEMMA OnlyOne ==
    ASSUME TypeOK, NEW c \in Claim, NEW d \in Decision, UNCHANGED now,
           store' = [store EXCEPT ![c] = d]
    PROVE  /\ Lease!Only(c)
           /\ Level'[c] = Ladder(Refresh(d, now).status)
           /\ Until'[c] = d.expires
<1>1. /\ Level'[c] = Ladder(Refresh(d, now).status)
      /\ Until'[c] = d.expires
  BY DEF Level, Until, Effective, TypeOK
<1>2. \A b \in Claim \ {c} : Level'[b] = Level[b] /\ Until'[b] = Until[b]
  BY DEF Level, Until, Effective, TypeOK
<1>3. /\ DOMAIN Level = Claim /\ DOMAIN Level' = Claim
      /\ DOMAIN Until = Claim /\ DOMAIN Until' = Claim
      /\ Level = [b \in Claim |-> Level[b]] /\ Level' = [b \in Claim |-> Level'[b]]
      /\ Until = [b \in Claim |-> Until[b]] /\ Until' = [b \in Claim |-> Until'[b]]
  BY DEF Level, Until
<1>4. Level' = [Level EXCEPT ![c] = Level'[c]]
  BY <1>2, <1>3
<1>5. Until' = [Until EXCEPT ![c] = Until'[c]]
  BY <1>2, <1>3
<1> QED
  BY <1>1, <1>4, <1>5 DEF Lease!Only, Level, Until

\* A level seen through Effective is one of the rungs, and a positive one has
\* not reached its deadline.
LEMMA LevelFacts ==
    ASSUME NEW d \in Decision, NEW t \in Nat
    PROVE  /\ Ladder(Refresh(d, t).status) \in Lease!Level
           /\ Lease!IsPositive(Ladder(Refresh(d, t).status)) => ~ Lease!Ended(d.expires, t)
<1>1. Refresh(d, t).status \in Status /\ d.expires \in Deadline
  BY RefreshFacts DEF Decision
<1>2. /\ Ladder(Refresh(d, t).status) \in 0..5
      /\ Ladder(Refresh(d, t).status) >= 3 => Refresh(d, t).status \in Positive
  BY <1>1, LadderRungs
<1>3. Refresh(d, t).status \in Positive => (d.expires # Never => t < d.expires)
  BY RefreshFacts
<1>4. Refresh(d, t).status \in Positive => ~ (d.expires # Never /\ d.expires <= t)
  BY <1>1, <1>3 DEF Deadline
<1> QED
  BY <1>2, <1>4 DEF Lease!Level, Lease!IsPositive, Lease!Ended

\* A tick of the clock demotes exactly the positive levels whose lease ends.
LEMMA TickAdvances == TypeOK /\ Tick => Lease!Advance
<1> SUFFICES ASSUME TypeOK, Tick PROVE Lease!Advance
  OBVIOUS
<1>1. ASSUME NEW c \in Claim
      PROVE  Level'[c] = IF Lease!Ended(Until[c], now') /\ Lease!IsPositive(Level[c])
                         THEN 1 ELSE Level[c]
  <2> DEFINE d == store[c]
  <2>1. /\ d \in Decision /\ d.expires \in Deadline /\ d.status \in Status
        /\ now \in Nat /\ now' = now + 1
    BY DEF TypeOK, Tick, Decision
  <2>2. /\ Level[c] = Ladder(Refresh(d, now).status)
        /\ Level'[c] = Ladder(Refresh(d, now').status)
        /\ Until[c] = d.expires
    BY DEF Level, Until, Effective, Tick
  <2>3. Ladder("EXPIRED") = 1
    BY DEF Ladder
  <2>4. CASE d.status \notin Positive
    <3>1. Refresh(d, now) = d /\ Refresh(d, now') = d
      BY <2>4 DEF Refresh, IsExpired
    <3>2. ~ Lease!IsPositive(Ladder(d.status))
      BY <2>1, <2>4, LadderRungs DEF Lease!IsPositive
    <3> QED
      BY <2>2, <3>1, <3>2
  <2>5. CASE d.status \in Positive
    <3>1. Lease!IsPositive(Ladder(d.status)) /\ ~ Lease!IsPositive(1)
      BY <2>1, <2>5, LadderRungs DEF Lease!IsPositive
    <3>2. CASE d.expires = Never
      <4>1. Refresh(d, now) = d /\ Refresh(d, now') = d
        BY <3>2 DEF Refresh, IsExpired
      <4> QED
        BY <2>2, <3>2, <4>1 DEF Lease!Ended
    <3>3. CASE d.expires # Never /\ now >= d.expires
      <4>1. Refresh(d, now).status = "EXPIRED" /\ Refresh(d, now').status = "EXPIRED"
        BY <2>1, <2>5, <3>3 DEF Refresh, IsExpired, Decision, Deadline
      <4> QED
        BY <2>2, <2>3, <3>1, <4>1
    <3>4. CASE d.expires # Never /\ now < d.expires /\ now + 1 >= d.expires
      <4>1. Refresh(d, now) = d /\ Refresh(d, now').status = "EXPIRED"
        BY <2>1, <2>5, <3>4 DEF Refresh, IsExpired, Decision, Deadline
      <4>2. Lease!Ended(Until[c], now')
        BY <2>1, <2>2, <3>4 DEF Lease!Ended, Deadline
      <4> QED
        BY <2>2, <2>3, <3>1, <4>1, <4>2
    <3>5. CASE d.expires # Never /\ now + 1 < d.expires
      <4>1. Refresh(d, now) = d /\ Refresh(d, now') = d
        BY <2>1, <3>5 DEF Refresh, IsExpired, Deadline
      <4>2. ~ Lease!Ended(Until[c], now')
        BY <2>1, <2>2, <3>5 DEF Lease!Ended, Deadline
      <4> QED
        BY <2>2, <4>1, <4>2
    <3> QED
      BY <2>1, <3>2, <3>3, <3>4, <3>5 DEF Deadline
  <2> QED
    BY <2>4, <2>5
<1>2. UNCHANGED Until
  BY DEF Until, Tick
<1>3. Level' = [c \in Claim |->
                 IF Lease!Ended(Until[c], now') /\ Lease!IsPositive(Level[c])
                 THEN 1 ELSE Level[c]]
  BY <1>1 DEF Level
<1> QED
  BY <1>2, <1>3 DEF Lease!Advance, Level, Until, Tick

\* A composition weakens the level it writes.
LEMMA ComposeIsWeaken ==
    ASSUME TypeOK, NEW c \in Claim, NEW P \in SUBSET (Claim \ {c}), ComposeClaim(c, P)
    PROVE  Lease!Weaken(c)
<1> DEFINE d == store'[c]
<1>1. /\ d \in Decision /\ store[c] \in Decision /\ now \in Nat
      /\ store' = [store EXCEPT ![c] = d] /\ UNCHANGED now
  <2>1. TypeOK'
    BY TypeStep DEF Next
  <2> QED
    BY <2>1 DEF TypeOK, ComposeClaim
<1>2. /\ Lease!Only(c)
      /\ Level'[c] = Ladder(Refresh(d, now).status)
      /\ Until'[c] = d.expires
  <2> HIDE DEF d
  <2> QED
    BY <1>1, OnlyOne
<1>3. /\ Level[c] = Ladder(Effective(c).status) /\ Until[c] = store[c].expires
      /\ Level[c] \in 0..5
  BY <1>1, LevelFacts DEF Level, Until, Effective, Lease!Level
<1>4. /\ Level'[c] \in Lease!Level
      /\ Lease!IsPositive(Level'[c]) => ~ Lease!Ended(Until'[c], now)
  <2> HIDE DEF d
  <2> QED
    BY <1>1, <1>2, LevelFacts
<1>5. Level'[c] <= Level[c]
  <2>1. /\ Ladder(Refresh(d, now).status) <= Ladder(d.status)
        /\ Ladder(d.status) \in 0..5
    <3> HIDE DEF d
    <3> QED
      BY <1>1, RefreshFacts, LadderRungs DEF Decision
  <2>2. Ladder(d.status) <= Ladder(Effective(c).status)
    BY ComposeWeakens
  <2> QED
    BY <1>2, <1>3, <1>4, <2>1, <2>2 DEF Lease!Level
<1>6. Until[c] # Never => Until'[c] # Never /\ Until'[c] <= Until[c]
  BY <1>2, <1>3, ComposeWeakens
<1> QED
  BY <1>2, <1>4, <1>5, <1>6 DEF Lease!Weaken, Level, Until

\* Held decisions, with demotion left to the next reader, implement leases
\* that end on time: what a reader sees at any moment is what an eager
\* demotion at every deadline would have left.
THEOREM LazyIsAsGoodAsEager == Spec => ImplementsLease
<1>1. Init => Lease!Init
  <2> SUFFICES ASSUME Init PROVE Lease!Init
    OBVIOUS
  <2>1. /\ NoEvidence.status = "UNVERIFIED" /\ NoEvidence.expires = Never
        /\ Refresh(NoEvidence, 0) = NoEvidence /\ Ladder("UNVERIFIED") = 1
    BY DEF NoEvidence, Finalize, Form, FreshDeadline, Refresh, IsExpired, Ladder, Positive
  <2>2. Level = [c \in Claim |-> 1] /\ Until = [c \in Claim |-> Never]
    BY <2>1 DEF Init, Level, Until, Effective
  <2> QED
    BY <2>2 DEF Init, Lease!Init, Level, Until
<1>2. TypeOK /\ [Next]_vars => [Lease!Next]_(Lease!lease)
  <2> SUFFICES ASSUME TypeOK, [Next]_vars PROVE [Lease!Next]_(Lease!lease)
    OBVIOUS
  <2>1. CASE Tick
    BY <2>1, TickAdvances DEF Lease!Next
  <2>2. ASSUME NEW c \in Claim, NEW form \in Outcomes, NEW ttl \in TTLs,
               Decide(c, form, ttl)
        PROVE  Lease!Grant(c)
    <3> DEFINE d == Finalize(form, ttl, now)
    <3>1. d \in Decision
      BY FinalizeFacts, LifecycleAssumption DEF TypeOK
    <3>2. store' = [store EXCEPT ![c] = d] /\ UNCHANGED now /\ now \in Nat
      BY <2>2 DEF Decide, TypeOK
    <3> HIDE DEF d
    <3>3. /\ Lease!Only(c)
          /\ Level'[c] = Ladder(Refresh(d, now).status)
          /\ Until'[c] = d.expires
      BY <3>1, <3>2, OnlyOne
    <3>4. /\ Level'[c] \in Lease!Level
          /\ Lease!IsPositive(Level'[c]) => ~ Lease!Ended(Until'[c], now)
      BY <3>1, <3>2, <3>3, LevelFacts
    <3> QED
      BY <3>3, <3>4 DEF Lease!Grant, Level, Until
  <2>3. ASSUME NEW c \in Claim, RefreshClaim(c) PROVE UNCHANGED Lease!lease
    <3>1. /\ store' = [store EXCEPT ![c] = Refresh(store[c], now)] /\ UNCHANGED now
          /\ store[c] \in Decision /\ now \in Nat
      BY <2>3 DEF RefreshClaim, TypeOK
    <3>2. /\ Refresh(Refresh(store[c], now), now) = Refresh(store[c], now)
          /\ Refresh(store[c], now).expires = store[c].expires
      BY <3>1, RefreshFacts DEF Refresh, IsExpired, Positive
    <3>3. \A b \in Claim : /\ Effective(b)' = Effective(b)
                           /\ store'[b].expires = store[b].expires
      BY <3>1, <3>2 DEF Effective, TypeOK
    <3>4. Level' = Level /\ Until' = Until
      BY <3>3 DEF Level, Until
    <3> QED
      BY <3>1, <3>4 DEF Lease!lease, Level, Until
  <2>4. ASSUME NEW c \in Claim, NEW P \in SUBSET (Claim \ {c}), ComposeClaim(c, P)
        PROVE  Lease!Weaken(c)
    BY <2>4, ComposeIsWeaken
  <2>5. CASE UNCHANGED vars
    <3>1. Level' = Level /\ Until' = Until /\ now' = now
      BY <2>5 DEF vars, Level, Until, Effective
    <3> QED
      BY <3>1 DEF Lease!lease, Level, Until
  <2> QED
    BY <2>1, <2>2, <2>3, <2>4, <2>5 DEF Next, Lease!Next
<1> QED
  BY <1>1, <1>2, TypeCorrect, PTL DEF Spec, ImplementsLease, Lease!Spec
=============================================================================
