------------------------ MODULE EvidenceStatusProofs ------------------------
(***************************************************************************)
(* Facts about the operators of EvidenceStatus, for every decision and     *)
(* every set of premises; about enforce, for every certification and every *)
(* list of advisories; and about decide_status, for every set of evidence   *)
(* items and verifier results and every policy.                            *)
(***************************************************************************)
EXTENDS DecisionRule, Enforcer, FiniteSetTheorems, WellFoundedInduction, TLAPS

\* A nonempty set of naturals, finite or not, has a least element, and Min
\* denotes it.
LEMMA MinOfNaturals ==
    ASSUME NEW S, S \subseteq Nat, S # {}
    PROVE  /\ Min(S) \in S
           /\ \A x \in S : Min(S) <= x
<1> DEFINE T == {1..n : n \in S}
           R == StrictSubsetOrdering(Nat)
<1>1. IsWellFoundedOn(R, FiniteSubsetsOf(Nat))
  BY FS_StrictSubsetOrderingWellFounded
<1>2. T \subseteq FiniteSubsetsOf(Nat) /\ T # {}
  <2>1. \A n \in S : 1..n \subseteq Nat /\ IsFiniteSet(1..n)
    BY FS_Interval
  <2>2. \A V \in T : V \in FiniteSubsetsOf(Nat)
    BY <2>1 DEF FiniteSubsetsOf
  <2> QED
    BY <2>2
<1>3. PICK U \in T : \A V \in T : ~ (<<V, U>> \in R)
  BY <1>1, <1>2, WFMin
<1>4. PICK m \in S : U = 1..m
  BY <1>3
<1>5. ASSUME NEW n \in S, n < m PROVE FALSE
  <2>1. 1..n \subseteq 1..m /\ m \in (1..m) \ (1..n)
    BY <1>5
  <2>2. <<1..n, 1..m>> \in R
    BY <2>1 DEF StrictSubsetOrdering
  <2> QED
    BY <1>3, <1>4, <2>2
<1>6. \E x \in S : \A y \in S : x <= y
  BY <1>5
<1> QED
  BY <1>6 DEF Min

\* A nonempty finite set of integers has a greatest element, and Max denotes
\* it.
LEMMA MaxOfFinite ==
    ASSUME NEW S, S \subseteq Int, IsFiniteSet(S), S # {}
    PROVE  /\ Max(S) \in S
           /\ \A x \in S : x <= Max(S)
<1> DEFINE R == StrictSubsetOrdering(S)
           Unbounded == {T \in FiniteSubsetsOf(S) :
                           T # {} /\ \A m \in T : \E x \in T : x > m}
<1>1. IsWellFoundedOn(R, FiniteSubsetsOf(S))
  BY FS_StrictSubsetOrderingWellFounded
<1>2. Unbounded = {}
  <2> SUFFICES ASSUME Unbounded # {}
               PROVE  FALSE
    OBVIOUS
  <2>1. PICK T \in Unbounded : \A V \in Unbounded : ~ (<<V, T>> \in R)
    <3>1. Unbounded \subseteq FiniteSubsetsOf(S)
      OBVIOUS
    <3> HIDE DEF Unbounded, R
    <3> QED
      BY <1>1, <3>1, WFMin
  <2>2. /\ T \in SUBSET S /\ IsFiniteSet(T)
        /\ \A m \in T : m \in Int /\ \E x \in T : x > m
    BY <2>1 DEF FiniteSubsetsOf
  <2>3. PICK a \in T : TRUE
    BY <2>1
  <2> DEFINE U == T \ {a}
  <2>4. U \in SUBSET S /\ IsFiniteSet(U) /\ U # T /\ U \subseteq T
    BY <2>2, <2>3, FS_Subset
  <2>5. <<U, T>> \in R
    BY <2>2, <2>4 DEF StrictSubsetOrdering
  <2>6. U \notin Unbounded
    BY <2>1, <2>5
  <2>7. U \in FiniteSubsetsOf(S)
    BY <2>4 DEF FiniteSubsetsOf
  <2>8. U # {}
    <3>1. PICK x \in T : x > a
      BY <2>2, <2>3
    <3> QED
      BY <2>2, <3>1
  <2>9. PICK m \in U : \A x \in U : ~ (x > m)
    BY <2>6, <2>7, <2>8
  <2>10. PICK x \in T : x > m
    BY <2>2, <2>9
  <2>11. x = a
    BY <2>9, <2>10
  <2>12. PICK y \in T : y > a
    BY <2>2, <2>3
  <2>13. a \in Int /\ m \in Int /\ y \in Int
    BY <2>2, <2>3, <2>9, <2>12
  <2>14. y > m
    BY <2>10, <2>11, <2>12, <2>13
  <2>15. y \in U
    BY <2>12, <2>13
  <2> QED
    BY <2>9, <2>14, <2>15
<1>3. \E m \in S : \A x \in S : m >= x
  <2>1. S \in FiniteSubsetsOf(S)
    BY DEF FiniteSubsetsOf
  <2>2. ~ \A m \in S : \E x \in S : x > m
    BY <1>2, <2>1
  <2>3. PICK m \in S : \A x \in S : ~ (x > m)
    BY <2>2
  <2>4. ASSUME NEW x \in S PROVE m >= x
    BY <2>3
  <2> QED
    BY <2>4
<1> QED
  BY <1>3 DEF Max

-----------------------------------------------------------------------------
(* Recursion and induction over the depth.  They are stated with sets and  *)
(* functions in place of operators.                                        *)

LEMMA DepthInduction ==
    ASSUME NEW S, 0 \in S, \A n \in Nat : n \in S => n + 1 \in S
    PROVE  \A n \in Nat : n \in S
<1> DEFINE T == {n \in Nat : n \notin S}
<1> SUFFICES ASSUME T # {}
             PROVE  FALSE
  OBVIOUS
<1>1. T \subseteq Nat
  OBVIOUS
<1>2. PICK m \in T : \A n \in T : m <= n
  <2> HIDE DEF T
  <2> QED
    BY <1>1, MinOfNaturals
<1>3. m \in Nat /\ m # 0
  OBVIOUS
<1>4. m - 1 \in Nat /\ m - 1 \notin T
  BY <1>2, <1>3
<1>5. m \in S
  BY <1>4
<1> QED
  BY <1>5

\* G holds the first n iterates of step from b.
Approximates(G, S, b, step, n) ==
    /\ G \in [0..n -> S]
    /\ G[0] = b
    /\ \A i \in 0..(n - 1) : G[i + 1] = step[G[i]]

LEMMA ApproximationExists ==
    ASSUME NEW S, NEW b \in S, NEW step \in [S -> S], NEW n \in Nat
    PROVE  \E G : Approximates(G, S, b, step, n)
<1> DEFINE T == {m \in Nat : \E G : Approximates(G, S, b, step, m)}
<1>1. 0 \in T
  <2>1. Approximates([i \in 0..0 |-> b], S, b, step, 0)
    BY DEF Approximates
  <2> QED
    BY <2>1
<1>2. ASSUME NEW m \in Nat, m \in T
      PROVE  m + 1 \in T
  <2>1. PICK G : Approximates(G, S, b, step, m)
    BY <1>2
  <2> DEFINE H == [i \in 0..(m + 1) |-> IF i = m + 1 THEN step[G[m]] ELSE G[i]]
  <2>2. step[G[m]] \in S
    BY <2>1 DEF Approximates
  <2>3. H \in [0..(m + 1) -> S] /\ H[0] = b
    BY <2>1, <2>2 DEF Approximates
  <2>4. \A i \in 0..m : H[i + 1] = step[H[i]]
    BY <2>1 DEF Approximates
  <2>5. Approximates(H, S, b, step, m + 1)
    <3>1. (m + 1) - 1 = m
      OBVIOUS
    <3> HIDE DEF H
    <3> QED
      BY <2>3, <2>4, <3>1 DEF Approximates
  <2> QED
    BY <2>5
<1>3. n \in T
  <2> HIDE DEF T
  <2> QED
    BY <1>1, <1>2, DepthInduction
<1> QED
  BY <1>3

LEMMA ApproximationsAgree ==
    ASSUME NEW S, NEW b \in S, NEW step \in [S -> S], NEW n \in Nat,
           NEW G, Approximates(G, S, b, step, n),
           NEW H, Approximates(H, S, b, step, n + 1)
    PROVE  G[n] = H[n]
<1> DEFINE T == {i \in Nat : i <= n => G[i] = H[i]}
<1>1. 0 \in T
  BY DEF Approximates
<1>2. ASSUME NEW i \in Nat, i \in T
      PROVE  i + 1 \in T
  <2> SUFFICES ASSUME i + 1 <= n
               PROVE  G[i + 1] = H[i + 1]
    OBVIOUS
  <2>1. G[i] = H[i]
    BY <1>2
  <2> QED
    BY <2>1 DEF Approximates
<1>3. n \in T
  <2> HIDE DEF T
  <2> QED
    BY <1>1, <1>2, DepthInduction
<1> QED
  BY <1>3

Iteration(F, S, b, step) ==
    F \in [Nat -> S] /\ F[0] = b /\ \A i \in Nat : F[i + 1] = step[F[i]]

\* Every function of a set into itself can be iterated.
LEMMA Iterates ==
    ASSUME NEW S, NEW b \in S, NEW step \in [S -> S]
    PROVE  \E F : Iteration(F, S, b, step)
<1> DEFINE A(n) == CHOOSE G : Approximates(G, S, b, step, n)
           F == [n \in Nat |-> A(n)[n]]
<1>1. \A n \in Nat : Approximates(A(n), S, b, step, n)
  BY ApproximationExists
<1> HIDE DEF A
<1>2. F \in [Nat -> S] /\ F[0] = b
  BY <1>1 DEF Approximates
<1>3. ASSUME NEW i \in Nat
      PROVE  F[i + 1] = step[F[i]]
  <2>1. A(i)[i] = A(i + 1)[i]
    BY <1>1, ApproximationsAgree
  <2>2. A(i + 1)[i + 1] = step[A(i + 1)[i]]
    BY <1>1 DEF Approximates
  <2> QED
    BY <2>1, <2>2
<1> HIDE DEF F
<1>4. Iteration(F, S, b, step)
  BY <1>2, <1>3 DEF Iteration
<1> QED
  BY <1>4

-----------------------------------------------------------------------------
(* The ladder and the deadlines *)

\* The rungs of the ladder: the positive statuses are the rungs from 3 up,
\* and those rungs are not shared.
LEMMA LadderRungs ==
    /\ \A s \in Status : Ladder(s) \in 0..5
    /\ \A s \in Status : s \in Positive <=> Ladder(s) >= 3
  BY DEF Status, Positive, Ladder

\* refresh_for_staleness returns a decision, and a positive one only when it
\* returns its argument, which has then not lapsed.
LEMMA RefreshFacts ==
    ASSUME NEW d \in Decision, NEW now \in Nat
    PROVE  /\ Refresh(d, now) \in Decision
           /\ Refresh(d, now).expires = d.expires
           /\ Refresh(d, now).status \in {d.status, "EXPIRED"}
           /\ Refresh(d, now).status \in Positive =>
                /\ Refresh(d, now) = d
                /\ d.expires # Never => now < d.expires
           /\ Ladder(Refresh(d, now).status) <= Ladder(d.status)
<1>1. CASE IsExpired(d, now)
  <2>1. Refresh(d, now) = [d EXCEPT !.status = "EXPIRED", !.direction = "NEUTRAL"]
    BY <1>1 DEF Refresh
  <2>2. /\ Refresh(d, now).status = "EXPIRED"
        /\ Refresh(d, now).expires = d.expires
        /\ Refresh(d, now) \in Decision
    BY <2>1 DEF Decision, Status, Direction
  <2>3. /\ d.status \in Positive /\ d.status \in Status
        /\ "EXPIRED" \notin Positive /\ Ladder("EXPIRED") = 1
    BY <1>1 DEF IsExpired, Positive, Ladder, Decision
  <2>4. Ladder(d.status) >= 3 /\ Ladder(d.status) \in 0..5
    BY <2>3, LadderRungs
  <2> QED
    BY <2>2, <2>3, <2>4
<1>2. CASE ~ IsExpired(d, now)
  <2>1. Refresh(d, now) = d
    BY <1>2 DEF Refresh
  <2>2. d.status \in Positive /\ d.expires # Never => now < d.expires
    BY <1>2 DEF IsExpired, Decision, Deadline, Never
  <2>3. Ladder(d.status) \in 0..5
    BY LadderRungs DEF Decision
  <2> QED
    BY <2>1, <2>2, <2>3
<1> QED
  BY <1>1, <1>2

\* The deadline of a composition is one, and no later than any it is made of.
LEMMA EarliestDeadlineFacts ==
    ASSUME NEW c \in Decision, NEW ps, ps \subseteq Decision
    PROVE  /\ EarliestDeadline(c, ps) \in Deadline
           /\ \A d \in ps \cup {c} : d.expires # Never =>
                /\ EarliestDeadline(c, ps) # Never
                /\ EarliestDeadline(c, ps) <= d.expires
<1> DEFINE deadlines == {d.expires : d \in ps \cup {c}} \ {Never}
<1>1. deadlines \subseteq Nat
  BY DEF Decision, Deadline
<1>2. CASE deadlines = {}
  <2>1. EarliestDeadline(c, ps) = Never
    BY <1>2 DEF EarliestDeadline
  <2> QED
    BY <1>2, <2>1 DEF Deadline
<1>3. CASE deadlines # {}
  <2>1. EarliestDeadline(c, ps) = Min(deadlines)
    BY <1>3 DEF EarliestDeadline
  <2> HIDE DEF deadlines
  <2>2. Min(deadlines) \in deadlines /\ \A x \in deadlines : Min(deadlines) <= x
    BY <1>1, <1>3, MinOfNaturals
  <2>3. Min(deadlines) \in Nat
    BY <1>1, <2>2
  <2>4. Never \notin Nat
    BY DEF Never
  <2>5. \A d \in ps \cup {c} : d.expires # Never => d.expires \in deadlines
    BY DEF deadlines
  <2> QED
    BY <2>1, <2>2, <2>3, <2>4, <2>5 DEF Deadline
<1> QED
  BY <1>2, <1>3

\* The weakest premise exists, is a premise's status, and is on the lowest
\* rung among them.
LEMMA WeakestFacts ==
    ASSUME NEW ps, ps \subseteq Decision, ps # {}
    PROVE  /\ \E p \in ps : Weakest(ps) = p.status
           /\ \A p \in ps : Ladder(Weakest(ps)) <= Ladder(p.status)
<1> DEFINE rungs == {Ladder(p.status) : p \in ps}
<1>1. rungs \subseteq Nat /\ rungs # {}
  BY LadderRungs DEF Decision
<1>2. PICK q \in ps : \A r \in rungs : Ladder(q.status) <= r
  <2>1. Min(rungs) \in rungs /\ \A r \in rungs : Min(rungs) <= r
    <3> HIDE DEF rungs
    <3> QED
      BY <1>1, MinOfNaturals
  <2>2. PICK q \in ps : Min(rungs) = Ladder(q.status)
    BY <2>1
  <2> QED
    BY <2>1, <2>2
<1> DEFINE statuses == {p.status : p \in ps}
<1>3. \E s \in statuses : \A t \in statuses : Ladder(s) <= Ladder(t)
  BY <1>2
<1>4. /\ Weakest(ps) \in statuses
      /\ \A t \in statuses : Ladder(Weakest(ps)) <= Ladder(t)
  BY <1>3 DEF Weakest
<1> QED
  BY <1>4

\* compose: whatever the premises, finite or infinitely many, the conclusion
\* is a decision that lapses no later than itself and any premise, never
\* gains a rung, and is positive only when it and every premise were live,
\* positive and no weaker ("a conclusion may never inherit more certainty
\* than its premises earned").
THEOREM ComposeIsWeakestLink ==
    ASSUME NEW c \in Decision, NEW ps, ps \subseteq Decision, NEW now \in Nat,
           NEW k, k = Compose(c, ps, now)
    PROVE  /\ k \in Decision
           /\ Ladder(k.status) <= Ladder(Refresh(c, now).status)
           /\ \A d \in ps \cup {c} : d.expires # Never =>
                k.expires # Never /\ k.expires <= d.expires
           /\ k.status \in Positive => \A d \in ps \cup {c} :
                /\ d.status \in Positive
                /\ d.expires # Never => now < d.expires
                /\ Ladder(k.status) <= Ladder(d.status)
<1> DEFINE e == Refresh(c, now)
           fresh == {Refresh(p, now) : p \in ps}
<1>1. /\ e \in Decision /\ fresh \subseteq Decision
      /\ e.expires = c.expires
      /\ e.status \in Positive =>
           e = c /\ (c.expires # Never => now < c.expires)
      /\ Ladder(e.status) <= Ladder(c.status)
  BY RefreshFacts
<1>2. CASE ps = {}
  <2>1. k = e
    BY <1>2 DEF Compose
  <2>2. k.expires \in Deadline /\ (k.expires # Never => k.expires <= c.expires)
    BY <1>1, <2>1 DEF Decision, Deadline
  <2>3. Ladder(e.status) \in 0..5 /\ Ladder(c.status) \in 0..5
    BY <1>1, LadderRungs DEF Decision
  <2> QED
    BY <1>1, <1>2, <2>1, <2>2, <2>3
<1>3. CASE ps # {}
  <2> DEFINE met == {p.status : p \in fresh}
             merged == [e EXCEPT
                         !.contested    = e.contested \/ \E p \in fresh : p.contested,
                         !.modelDerived = e.modelDerived \/ \E p \in fresh : p.modelDerived,
                         !.expires      = EarliestDeadline(e, fresh)]
             w == Weakest(fresh)
             broken == [merged EXCEPT !.status = "REFUTED", !.direction = "REFUTES"]
             lapsed == [merged EXCEPT !.status = "EXPIRED", !.direction = "NEUTRAL"]
             capped == [merged EXCEPT !.status = w]
  <2>1. k = Conjoin(e, fresh)
    BY <1>3 DEF Compose
  <2>2. /\ EarliestDeadline(e, fresh) \in Deadline
        /\ \A d \in fresh \cup {e} : d.expires # Never =>
             /\ EarliestDeadline(e, fresh) # Never
             /\ EarliestDeadline(e, fresh) <= d.expires
    BY <1>1, EarliestDeadlineFacts
  <2>3. /\ \E p \in fresh : w = p.status
        /\ \A p \in fresh : Ladder(w) <= Ladder(p.status)
    BY <1>1, <1>3, WeakestFacts
  <2>4. /\ merged \in Decision
        /\ merged.status = e.status
        /\ merged.expires = EarliestDeadline(e, fresh)
    BY <1>1, <2>2 DEF Decision
  <2>5. \/ k = broken
        \/ k = lapsed /\ e.status # "REFUTED"
        \/ k = merged /\ e.status = "REFUTED"
        \/ k = capped /\ Ladder(w) < Ladder(e.status)
        \/ k = merged /\ Ladder(w) >= Ladder(e.status)
    <3> DEFINE A == "REFUTED" \in met
               B == "EXPIRED" \in met
    <3>1. CASE A
      BY <2>1, <3>1 DEF Conjoin
    <3>2. CASE ~ A /\ B /\ e.status # "REFUTED"
      BY <2>1, <3>2 DEF Conjoin
    <3>3. CASE ~ A /\ B /\ e.status = "REFUTED"
      BY <2>1, <3>3 DEF Conjoin
    <3>4. CASE ~ A /\ ~ B /\ Ladder(w) < Ladder(e.status)
      BY <2>1, <3>4 DEF Conjoin
    <3>5. CASE ~ A /\ ~ B /\ ~ (Ladder(w) < Ladder(e.status))
      <4>1. w \in Status /\ e.status \in Status
        BY <1>1, <2>3 DEF Decision
      <4>2. Ladder(w) >= Ladder(e.status)
        BY <3>5, <4>1, LadderRungs
      <4>3. k = merged
        BY <2>1, <3>5 DEF Conjoin
      <4> QED
        BY <4>2, <4>3
    <3> QED
      BY <3>1, <3>2, <3>3, <3>4, <3>5
  <2>6. w \in Status /\ e.status \in Status /\ c.status \in Status
    BY <1>1, <2>3 DEF Decision
  <2> HIDE DEF merged, w
  <2>7. /\ broken \in Decision /\ broken.expires = merged.expires
        /\ broken.status = "REFUTED"
        /\ lapsed \in Decision /\ lapsed.expires = merged.expires
        /\ lapsed.status = "EXPIRED"
        /\ capped \in Decision /\ capped.expires = merged.expires
        /\ capped.status = w
    <3>1. broken \in Decision /\ broken.expires = merged.expires /\ broken.status = "REFUTED"
      BY <2>4 DEF Decision, Status, Direction
    <3>2. lapsed \in Decision /\ lapsed.expires = merged.expires /\ lapsed.status = "EXPIRED"
      BY <2>4 DEF Decision, Status, Direction
    <3>3. capped \in Decision /\ capped.expires = merged.expires /\ capped.status = w
      BY <2>4, <2>6 DEF Decision
    <3> QED
      BY <3>1, <3>2, <3>3
  <2> HIDE DEF e, broken, lapsed, capped
  <2>8. k \in Decision /\ k.expires = merged.expires
    BY <2>4, <2>5, <2>7
  <2>9. \/ k.status = "REFUTED"
        \/ k.status = "EXPIRED" /\ e.status # "REFUTED"
        \/ k.status = e.status /\ e.status = "REFUTED"
        \/ k.status = w /\ Ladder(w) < Ladder(e.status)
        \/ k.status = e.status /\ Ladder(w) >= Ladder(e.status)
    BY <2>4, <2>5, <2>7
  <2>10. /\ Ladder(k.status) <= Ladder(e.status)
         /\ k.status \in Positive =>
              /\ e.status \in Positive /\ w \in Positive
              /\ Ladder(k.status) <= Ladder(w)
    <3>1. /\ Ladder(w) \in 0..5 /\ Ladder(e.status) \in 0..5 /\ Ladder(c.status) \in 0..5
          /\ w \in Positive <=> Ladder(w) >= 3
          /\ e.status \in Positive <=> Ladder(e.status) >= 3
      BY <2>6, LadderRungs
    <3>2. CASE k.status = "REFUTED"
      <4>1. Ladder("REFUTED") = 0 /\ "REFUTED" \notin Positive
        BY DEF Positive, Ladder
      <4> QED
        BY <3>1, <3>2, <4>1
    <3>3. CASE k.status = "EXPIRED" /\ e.status # "REFUTED"
      <4>1. Ladder(e.status) >= 1
        BY <2>6, <3>3 DEF Status, Ladder
      <4>2. Ladder("EXPIRED") = 1 /\ "EXPIRED" \notin Positive
        BY DEF Positive, Ladder
      <4> QED
        BY <1>1, <3>1, <3>3, <4>1, <4>2
    <3>4. CASE \/ k.status = w /\ Ladder(w) < Ladder(e.status)
               \/ k.status = e.status /\ Ladder(w) >= Ladder(e.status)
      BY <1>1, <3>1, <3>4
    <3> QED
      BY <2>9, <3>2, <3>3, <3>4
  <2>11. \A d \in ps \cup {c} : d.expires # Never =>
           k.expires # Never /\ k.expires <= d.expires
    <3>1. \A p \in ps : Refresh(p, now) \in fresh /\ Refresh(p, now).expires = p.expires
      BY RefreshFacts
    <3> QED
      BY <1>1, <2>2, <2>4, <2>8, <3>1 DEF e
  <2>12. ASSUME NEW d \in ps \cup {c}, k.status \in Positive
         PROVE  /\ d.status \in Positive
                /\ d.expires # Never => now < d.expires
                /\ Ladder(k.status) <= Ladder(d.status)
    <3>1. CASE d = c
      BY <1>1, <2>10, <2>12, <3>1
    <3>2. CASE d \in ps
      <4> DEFINE f == Refresh(d, now)
      <4>1. f \in fresh /\ f.status \in Status /\ d \in Decision
        BY <1>1, <3>2 DEF Decision
      <4>2. /\ Ladder(w) <= Ladder(f.status)
            /\ Ladder(w) >= 3 /\ Ladder(w) \in 0..5
            /\ Ladder(k.status) <= Ladder(w) /\ Ladder(k.status) \in 0..5
        BY <2>3, <2>6, <2>8, <2>10, <2>12, <4>1, LadderRungs DEF w, Decision
      <4>3. f.status \in Positive /\ Ladder(k.status) <= Ladder(f.status)
        BY <4>1, <4>2, LadderRungs
      <4> QED
        BY <4>1, <4>3, RefreshFacts
    <3> QED
      BY <3>1, <3>2
  <2> QED
    BY <2>8, <2>10, <2>11, <2>12 DEF e
<1> QED
  BY <1>2, <1>3

-----------------------------------------------------------------------------
(* enforce *)

LEMMA RestrictivenessFacts ==
    /\ \A r \in Release : Restrictiveness(r) \in 0..4
    /\ \A r, s \in Release : Restrictiveness(r) = Restrictiveness(s) => r = s
<1>1. /\ Restrictiveness("ALLOW") = 0
      /\ Restrictiveness("ALLOW_WITH_NOTICE") = 1
      /\ Restrictiveness("REQUIRE_CLARIFICATION") = 2
      /\ Restrictiveness("ESCALATE") = 3
      /\ Restrictiveness("REFUSE") = 4
  BY DEF Restrictiveness
<1> QED
  BY <1>1 DEF Release

\* A nonempty set of tiers has a largest element, and Max denotes it.
LEMMA MaxOfTiers ==
    ASSUME NEW S, S \subseteq 0..5, S # {}
    PROVE  Max(S) \in S /\ \A x \in S : x <= Max(S)
<1>1. \E x \in S : \A y \in S : x >= y
  <2>1. CASE 5 \in S
    BY <2>1
  <2>2. CASE 5 \notin S /\ 4 \in S
    BY <2>2
  <2>3. CASE S \subseteq 0..3 /\ 3 \in S
    BY <2>3
  <2>4. CASE S \subseteq 0..2 /\ 2 \in S
    BY <2>4
  <2>5. CASE S \subseteq 0..1 /\ 1 \in S
    BY <2>5
  <2>6. CASE S \subseteq {0}
    <3>1. S = {0}
      BY <2>6
    <3> QED
      BY <3>1
  <2> QED
    BY <2>1, <2>2, <2>3, <2>4, <2>5, <2>6
<1>2. Max(S) \in S /\ \A x \in S : Max(S) >= x
  BY <1>1 DEF Max
<1> QED
  BY <1>2

\* What the loop over the advisories starts from and compares with.
Considered(o, advisories) == {o} \cup {SeverityFloor(s) : s \in advisories}

LEMMA ConsideredFacts ==
    ASSUME NEW o \in Rulings, NEW A, A \subseteq Severity
    PROVE  Considered(o, A) \subseteq Rulings
<1>1. \A s \in Severity : SeverityFloor(s) \in Rulings
  BY DEF Severity, SeverityFloor, Outcome, Rulings, Release
<1> QED
  BY <1>1 DEF Considered

SeveritySet(advisories) == {advisories[i] : i \in DOMAIN advisories}

\* o is an outcome that is as restrictive as the most restrictive one in R, and
\* of the largest tier.
Bounding(o, R) ==
    /\ o \in Rulings
    /\ \E p \in R : o.decision = p.decision
    /\ \E p \in R : o.tier = p.tier
    /\ \A p \in R : /\ Restrictiveness(p.decision) <= Restrictiveness(o.decision)
                   /\ p.tier <= o.tier

\* One turn of the loop over the advisories.
LEMMA AdvisoryStep ==
    ASSUME NEW R, R \subseteq Rulings, NEW o, Bounding(o, R), NEW s \in Severity
    PROVE  Bounding(AfterAdvisory(o, s), R \cup {SeverityFloor(s)})
<1> DEFINE floor == SeverityFloor(s)
           next == AfterAdvisory(o, s)
<1>1. floor \in Rulings /\ o \in Rulings
  BY DEF Severity, SeverityFloor, Outcome, Rulings, Release, Bounding
<1>2. /\ o.tier \in 0..5 /\ floor.tier \in 0..5
      /\ o.decision \in Release /\ floor.decision \in Release
  BY <1>1 DEF Rulings
<1> DEFINE ro == Restrictiveness(o.decision)
           rf == Restrictiveness(floor.decision)
<1>3. ro \in 0..4 /\ rf \in 0..4
  BY <1>2, RestrictivenessFacts
<1> DEFINE tier == Max({o.tier, floor.tier})
<1>4. tier \in {o.tier, floor.tier} /\ o.tier <= tier /\ floor.tier <= tier
  <2>1. {o.tier, floor.tier} \subseteq 0..5 /\ {o.tier, floor.tier} # {}
    BY <1>2
  <2> HIDE DEF floor
  <2> QED
    BY <2>1, MaxOfTiers
<1>5. /\ next.decision = IF rf > ro THEN floor.decision ELSE o.decision
      /\ next.tier = tier
      /\ next = [decision |-> next.decision, tier |-> next.tier]
  BY DEF AfterAdvisory, Outcome
<1> HIDE DEF floor, next, tier
<1>6. next \in Rulings
  <2>1. next.decision \in Release /\ next.tier \in 0..5
    BY <1>2, <1>4, <1>5
  <2> QED
    BY <1>5, <2>1 DEF Rulings
<1>7. /\ ro <= Restrictiveness(next.decision) /\ rf <= Restrictiveness(next.decision)
      /\ o.tier <= next.tier /\ floor.tier <= next.tier
  BY <1>3, <1>4, <1>5
<1>8. ASSUME NEW p \in R
      PROVE  /\ Restrictiveness(p.decision) <= Restrictiveness(next.decision)
             /\ p.tier <= next.tier
  <2>1. Restrictiveness(p.decision) <= ro /\ p.tier <= o.tier
    BY <1>8 DEF Bounding
  <2>2. p.decision \in Release /\ p.tier \in 0..5
    BY <1>8 DEF Rulings
  <2>3. Restrictiveness(p.decision) \in 0..4 /\ Restrictiveness(next.decision) \in 0..4
    BY <1>6, <2>2, RestrictivenessFacts DEF Rulings
  <2>4. next.tier \in 0..5
    BY <1>6 DEF Rulings
  <2> HIDE DEF ro
  <2>5. ro \in 0..4 /\ ro <= Restrictiveness(next.decision)
    BY <1>3, <1>7
  <2> QED
    BY <1>2, <1>7, <2>1, <2>2, <2>3, <2>4, <2>5
<1>9. \E p \in R : o.decision = p.decision
  BY DEF Bounding
<1>10. \E p \in R : o.tier = p.tier
  BY DEF Bounding
<1>11. \E p \in R \cup {floor} : next.decision = p.decision
  BY <1>5, <1>9
<1>12. \E p \in R \cup {floor} : next.tier = p.tier
  BY <1>4, <1>5, <1>10
<1>13. \A p \in R \cup {floor} : /\ Restrictiveness(p.decision) <= Restrictiveness(next.decision)
                                 /\ p.tier <= next.tier
  BY <1>7, <1>8
<1> QED
  BY <1>6, <1>11, <1>12, <1>13 DEF Bounding, floor, next

\* The definition of WithAdvisories for the first n advisories.
Looped(f, o, A, i) == IF i = 0 THEN o ELSE AfterAdvisory(f[i - 1], A[i])

Loops(f, o, A, n) == f = [i \in 0..n |-> Looped(f, o, A, i)]

LEMMA LoopExists ==
    ASSUME NEW o, NEW A, NEW n \in Nat
    PROVE  \E f : Loops(f, o, A, n)
<1> DEFINE T == {m \in Nat : \E f : Loops(f, o, A, m)}
<1>1. 0 \in T
  <2>1. Loops([i \in 0..0 |-> o], o, A, 0)
    BY DEF Loops, Looped
  <2> QED
    BY <2>1
<1>2. ASSUME NEW m \in Nat, m \in T
      PROVE  m + 1 \in T
  <2>1. PICK f : Loops(f, o, A, m)
    BY <1>2
  <2> DEFINE g == [i \in 0..(m + 1) |-> Looped(f, o, A, i)]
  <2>2. \A i \in 0..m : g[i] = f[i]
    <3>1. \A i \in 0..m : f[i] = Looped(f, o, A, i)
      BY <2>1 DEF Loops
    <3>2. 0..m \subseteq 0..(m + 1)
      OBVIOUS
    <3> QED
      BY <3>1, <3>2
  <2>3. \A i \in 0..(m + 1) : i # 0 => i - 1 \in 0..m
    OBVIOUS
  <2>4. \A i \in 0..(m + 1) : g[i] = Looped(g, o, A, i)
    <3> SUFFICES ASSUME NEW i \in 0..(m + 1)
                 PROVE  g[i] = Looped(g, o, A, i)
      OBVIOUS
    <3>1. g[i] = Looped(f, o, A, i)
      OBVIOUS
    <3> HIDE DEF g
    <3>2. i # 0 => g[i - 1] = f[i - 1]
      BY <2>2, <2>3
    <3> QED
      BY <3>1, <3>2 DEF Looped
  <2>5. g = [i \in 0..(m + 1) |-> g[i]]
    OBVIOUS
  <2>6. Loops(g, o, A, m + 1)
    <3> HIDE DEF g
    <3> QED
      BY <2>4, <2>5 DEF Loops
  <2> QED
    BY <2>6
<1>3. n \in T
  <2> HIDE DEF T
  <2> QED
    BY <1>1, <1>2, DepthInduction
<1> QED
  BY <1>3

LEMMA AdvisoryLoop ==
    ASSUME NEW o, NEW A \in Seq(Severity)
    PROVE  \E f : Loops(f, o, A, Len(A)) /\ WithAdvisories(o, A) = f[Len(A)]
<1> DEFINE f == CHOOSE f : Loops(f, o, A, Len(A))
<1>1. Len(A) \in Nat
  OBVIOUS
<1>2. Loops(f, o, A, Len(A))
  BY <1>1, LoopExists
<1>3. WithAdvisories(o, A) = f[Len(A)]
  BY DEF WithAdvisories, Loops, Looped
<1> QED
  BY <1>2, <1>3

\* The decision after the advisories is a considered one, and none of them is
\* more restrictive; the same of the tier.
LEMMA AdvisoryFacts ==
    ASSUME NEW o \in Rulings, NEW A \in Seq(Severity)
    PROVE  /\ WithAdvisories(o, A) \in Rulings
           /\ \E p \in Considered(o, SeveritySet(A)) : WithAdvisories(o, A).decision = p.decision
           /\ \E p \in Considered(o, SeveritySet(A)) : WithAdvisories(o, A).tier = p.tier
           /\ \A p \in Considered(o, SeveritySet(A)) :
                /\ Restrictiveness(p.decision) <= Restrictiveness(WithAdvisories(o, A).decision)
                /\ p.tier <= WithAdvisories(o, A).tier
<1>1. PICK f : Loops(f, o, A, Len(A)) /\ WithAdvisories(o, A) = f[Len(A)]
  BY AdvisoryLoop
<1> DEFINE First(n) == {A[i] : i \in 1..n}
           T == {n \in Nat : n <= Len(A) => Bounding(f[n], Considered(o, First(n)))}
<1>2. Len(A) \in Nat /\ \A n \in 0..Len(A) : f[n] = Looped(f, o, A, n)
  BY <1>1 DEF Loops
<1>3. 0 \in T
  <2>1. f[0] = o
    BY <1>2 DEF Looped
  <2>2. Considered(o, First(0)) = {o}
    BY DEF Considered
  <2>3. Restrictiveness(o.decision) \in 0..4 /\ o.tier \in 0..5
    BY RestrictivenessFacts DEF Rulings
  <2>4. Bounding(o, {o})
    BY <2>3 DEF Bounding
  <2> QED
    BY <2>1, <2>2, <2>4
<1>4. ASSUME NEW n \in Nat, n \in T
      PROVE  n + 1 \in T
  <2> SUFFICES ASSUME n + 1 <= Len(A)
               PROVE  Bounding(f[n + 1], Considered(o, First(n + 1)))
    OBVIOUS
  <2>1. n <= Len(A) /\ n + 1 \in 1..Len(A)
    BY <1>2
  <2>2. A[n + 1] \in Severity /\ First(n) \subseteq Severity
    BY <2>1
  <2>3. Bounding(f[n], Considered(o, First(n)))
    BY <1>4, <2>1
  <2>4. f[n + 1] = AfterAdvisory(f[n], A[n + 1])
    <3>1. n + 1 \in 0..Len(A) /\ n + 1 # 0 /\ (n + 1) - 1 = n
      BY <2>1
    <3> QED
      BY <1>2, <3>1 DEF Looped
  <2>5. First(n + 1) = First(n) \cup {A[n + 1]}
    <3>1. 1..(n + 1) = (1..n) \cup {n + 1}
      OBVIOUS
    <3> QED
      BY <3>1
  <2>6. Considered(o, First(n + 1)) = Considered(o, First(n)) \cup {SeverityFloor(A[n + 1])}
    <3> HIDE DEF First
    <3> QED
      BY <2>5 DEF Considered
  <2>7. Considered(o, First(n)) \subseteq Rulings
    BY <2>2, ConsideredFacts
  <2> HIDE DEF First
  <2> QED
    BY <2>2, <2>3, <2>4, <2>6, <2>7, AdvisoryStep
<1>5. Len(A) \in T
  <2> HIDE DEF T
  <2> QED
    BY <1>2, <1>3, <1>4, DepthInduction
<1>6. First(Len(A)) = SeveritySet(A)
  BY <1>2 DEF SeveritySet
<1>7. Bounding(f[Len(A)], Considered(o, SeveritySet(A)))
  <2> HIDE DEF First
  <2> QED
    BY <1>2, <1>5, <1>6
<1> QED
  BY <1>1, <1>7 DEF Bounding

\* The outcome before the advisories.
Certified(cert) == ModelFloor(Backed(Base(cert.status), cert), cert)

\* Before any advisory: an outcome; a release needs a status that is released
\* and support that is not the model's word; a full release a VERIFIED one
\* and a definitive verifier.
LEMMA CertifiedFacts ==
    ASSUME NEW cert, cert.status \in Status
    PROVE  /\ Certified(cert) \in Rulings
           /\ Certified(cert).decision \in Released =>
                cert.status \in {"VERIFIED", "CORROBORATED"} /\ ~ cert.modelDerived
           /\ Certified(cert).decision = "ALLOW" =>
                cert.status = "VERIFIED" /\ cert.definitive
<1> DEFINE o == Backed(Base(cert.status), cert)
<1>1. /\ o \in Rulings
      /\ o.decision \in Released => cert.status \in {"VERIFIED", "CORROBORATED"}
      /\ o.decision = "ALLOW" => cert.status = "VERIFIED" /\ cert.definitive
  BY DEF Base, Backed, Outcome, Rulings, Release, Released, Status
<1>2. CASE cert.modelDerived
           /\ Restrictiveness(o.decision) < Restrictiveness("REQUIRE_CLARIFICATION")
  <2>1. Certified(cert) = Outcome("REQUIRE_CLARIFICATION", Max({o.tier, 3}))
    BY <1>2 DEF Certified, ModelFloor
  <2>2. {o.tier, 3} \subseteq 0..5 /\ {o.tier, 3} # {}
    BY <1>1 DEF Rulings
  <2>3. Max({o.tier, 3}) \in 0..5
    BY <2>2, MaxOfTiers
  <2> QED
    BY <2>1, <2>3 DEF Outcome, Rulings, Release, Released
<1>3. CASE ~ (cert.modelDerived
              /\ Restrictiveness(o.decision) < Restrictiveness("REQUIRE_CLARIFICATION"))
  <2>1. Certified(cert) = o
    BY <1>3 DEF Certified, ModelFloor
  <2>2. o.decision \in Released => ~ cert.modelDerived
    BY <1>3 DEF Released, Restrictiveness
  <2> HIDE DEF o
  <2> QED
    BY <1>1, <2>1, <2>2
<1> QED
  BY <1>2, <1>3

\* Appended or joined advisories are advisories.
LEMMA JoinedAdvisories ==
    ASSUME NEW A \in Seq(Severity), NEW B \in Seq(Severity), NEW s \in Severity
    PROVE  /\ Append(A, s) \in Seq(Severity)
           /\ A \o B \in Seq(Severity)
           /\ A \o <<>> = A
<1>1. Append(A, s) \in Seq(Severity) /\ A \o B \in Seq(Severity)
  OBVIOUS
<1>2. A \o <<>> = A
  OBVIOUS
<1> QED
  BY <1>1, <1>2

LEMMA EnforceFacts ==
    ASSUME NEW cert, cert.status \in Status, NEW A \in Seq(Severity)
    PROVE  /\ Enforce(cert, A) \in Rulings
           /\ Enforce(cert, A).decision \in Released =>
                cert.status \in {"VERIFIED", "CORROBORATED"} /\ ~ cert.modelDerived
           /\ Enforce(cert, A).decision = "ALLOW" =>
                cert.status = "VERIFIED" /\ cert.definitive
<1> DEFINE o == Certified(cert)
           e == WithAdvisories(o, A)
<1>1. Enforce(cert, A) = e
  BY DEF Enforce, Certified
<1>2. /\ o \in Rulings
      /\ o.decision \in Released =>
           cert.status \in {"VERIFIED", "CORROBORATED"} /\ ~ cert.modelDerived
      /\ o.decision = "ALLOW" => cert.status = "VERIFIED" /\ cert.definitive
  BY CertifiedFacts
<1> HIDE DEF o
<1>3. e \in Rulings /\ Restrictiveness(o.decision) <= Restrictiveness(e.decision)
  BY <1>2, AdvisoryFacts DEF Considered
<1> HIDE DEF e
<1>4. o.decision \in Release /\ e.decision \in Release
  BY <1>2, <1>3 DEF Rulings
<1>5. e.decision \in Released => o.decision \in Released
  BY <1>3, <1>4 DEF Release, Released, Restrictiveness
<1>6. e.decision = "ALLOW" => o.decision = "ALLOW"
  BY <1>3, <1>4 DEF Release, Restrictiveness
<1> QED
  BY <1>1, <1>2, <1>3, <1>5, <1>6

-----------------------------------------------------------------------------
(* The verdict as a function of its arguments *)

\* The ladder of positive statuses only reaches what the class allows once
\* the cap is applied, and the cap touches positive statuses only.
LEMMA CappedFacts ==
    ASSUME NEW cl \in Class, NEW s \in Status
    PROVE  /\ Capped(s, cl) \in Positive <=> s \in Positive
           /\ s \notin Positive => Capped(s, cl) = s
           /\ s \in Positive => Ladder(Capped(s, cl)) <= Ladder(Ceiling(cl))
<1>1. Ceiling(cl) \in Positive
  BY DEF Class, Ceiling, Positive
<1>2. Ladder(s) \in Int /\ Ladder(Ceiling(cl)) \in Int
  BY <1>1 DEF Status, Positive, Ladder
<1> QED
  BY <1>1, <1>2 DEF Capped

\* What the status predicate may say, and when it agrees with the flags.
LEMMA CandidateForms ==
    ASSUME NEW R, NEW E
    PROVE  \/ Candidate(R, E) = <<"REFUTED", "REFUTES">>
           \/ Candidate(R, E) = <<"CONTESTED", "NEUTRAL">> /\ IsContested(R, E)
           \/ /\ \/ Candidate(R, E) = <<"UNVERIFIED", "REFUTES">>
                 \/ Candidate(R, E) = <<"UNVERIFIED", "NEUTRAL">>
              /\ Supports(E) = {} /\ ~ IsContested(R, E)
           \/ /\ \E s \in Positive : Candidate(R, E) = <<s, "SUPPORTS">>
              /\ ~ IsContested(R, E)
<1> DEFINE disputed == Contradicts(E) # {}
           failed   == Definitive(R, "FAIL", TRUE) # {}
           passed   == Definitive(R, "PASS", TRUE) # {}
           support  == Supports(E)
           enough   == Cardinality(Lineages(Trusted(support))) >= MinLineages
<1>1. CASE failed
  BY <1>1 DEF Candidate
<1>2. CASE ~ failed /\ passed /\ disputed
  <2>1. Candidate(R, E) = <<"CONTESTED", "NEUTRAL">>
    BY <1>2 DEF Candidate
  <2> QED
    BY <1>2, <2>1 DEF IsContested
<1>3. CASE ~ failed /\ passed /\ ~ disputed
  <2>1. Candidate(R, E) = <<"VERIFIED", "SUPPORTS">>
    BY <1>3 DEF Candidate
  <2> QED
    BY <1>3, <2>1 DEF IsContested, Positive
<1>4. CASE ~ failed /\ ~ passed
  <2>1. Candidate(R, E) = EvidenceLadder(R, E)
    BY <1>4 DEF Candidate
  <2>2. CASE ~ disputed /\ enough
    BY <2>1, <2>2 DEF EvidenceLadder, IsContested, Positive
  <2>3. CASE ~ disputed /\ ~ enough /\ support # {}
    BY <1>4, <2>1, <2>3 DEF EvidenceLadder, IsContested, Positive
  <2>4. CASE disputed /\ support # {}
    BY <2>1, <2>4 DEF EvidenceLadder, IsContested
  <2>5. CASE disputed /\ support = {}
    BY <1>4, <2>1, <2>5 DEF EvidenceLadder, IsContested
  <2>6. CASE ~ disputed /\ ~ enough /\ support = {}
    <3>1. CASE Definitive(R, "FAIL", FALSE) # {}
      BY <2>1, <2>6, <3>1 DEF EvidenceLadder, IsContested
    <3>2. CASE Definitive(R, "FAIL", FALSE) = {}
      BY <2>1, <2>6, <3>2 DEF EvidenceLadder, IsContested
    <3> QED
      BY <3>1, <3>2
  <2> QED
    BY <2>2, <2>3, <2>4, <2>5, <2>6
<1> QED
  BY <1>1, <1>2, <1>3, <1>4

\* Whatever was retrieved and returned, the verdict is one of the forms of
\* the claim's class.
LEMMA VerdictForms ==
    ASSUME NEW cl \in Class, NEW ex, NEW R, NEW E
    PROVE  Verdict(cl, ex, R, E) \in DecisionForms(cl)
<1> DEFINE v == Verdict(cl, ex, R, E)
           cand == Candidate(R, E)
           s == Capped(cand[1], cl)
           cont == IsContested(R, E)
           model == Supports(E) # {} /\ \A e \in Supports(E) : e.modelStance
<1>1. CASE ex \in Incomplete \/ (R = {} /\ E = {})
  <2>1. v = Form("UNVERIFIED", "NEUTRAL", FALSE, FALSE)
    BY <1>1 DEF Verdict
  <2> QED
    BY <2>1 DEF DecisionForms, Form, Status, Direction
<1>2. CASE ~ (ex \in Incomplete \/ (R = {} /\ E = {}))
  <2>1. v = Form(s, cand[2], cont, model)
    BY <1>2 DEF Verdict
  <2>2. cont \in BOOLEAN /\ model \in BOOLEAN
    BY DEF IsContested
  <2> HIDE DEF v, cont, model
  <2>3. CASE cand = <<"REFUTED", "REFUTES">>
    <3>1. s = "REFUTED"
      BY <2>3, CappedFacts DEF Status, Positive
    <3> QED
      BY <2>1, <2>2, <2>3, <3>1 DEF DecisionForms, Form, Status, Direction, v
  <2>4. CASE cand = <<"CONTESTED", "NEUTRAL">> /\ cont
    <3>1. s = "CONTESTED"
      BY <2>4, CappedFacts DEF Status, Positive
    <3> QED
      BY <2>1, <2>2, <2>4, <3>1 DEF DecisionForms, Form, Status, Direction, v
  <2>5. CASE /\ cand = <<"UNVERIFIED", "REFUTES">> \/ cand = <<"UNVERIFIED", "NEUTRAL">>
             /\ Supports(E) = {} /\ ~ cont
    <3>1. s = "UNVERIFIED" /\ cand[2] \in {"REFUTES", "NEUTRAL"}
      BY <2>5, CappedFacts DEF Status, Positive
    <3>2. ~ model
      BY <2>5 DEF model
    <3> QED
      BY <2>1, <2>2, <2>5, <3>1, <3>2 DEF DecisionForms, Form, Status, Direction, v
  <2>6. CASE (\E p \in Positive : cand = <<p, "SUPPORTS">>) /\ ~ cont
    <3>1. /\ s \in Positive /\ s \in Status /\ cand[2] = "SUPPORTS"
          /\ Ladder(s) <= Ladder(Ceiling(cl))
      BY <2>6, CappedFacts DEF Status, Positive
    <3> QED
      BY <2>1, <2>2, <2>6, <3>1 DEF DecisionForms, Form, Direction, v
  <2> QED
    BY <2>3, <2>4, <2>5, <2>6, CandidateForms DEF cont
<1> QED
  BY <1>1, <1>2

-----------------------------------------------------------------------------
(* What it looks at *)

\* decide_status reads results and evidence only through the definitive
\* results, the supporting items and the contradicting items, apart from
\* asking whether there is anything at all; and nothing definitive, supporting
\* or contradicting is as good as nothing.
LEMMA SameSignals ==
    ASSUME NEW cl \in Class, NEW ex,
           NEW R, NEW E, NEW R2 \in SUBSET R, NEW E2 \in SUBSET E,
           \A o, b : Definitive(R2, o, b) = Definitive(R, o, b),
           Supports(E2) = Supports(E), Contradicts(E2) = Contradicts(E)
    PROVE  Verdict(cl, ex, R2, E2) = Verdict(cl, ex, R, E)
<1>1. Candidate(R2, E2) = Candidate(R, E) /\ IsContested(R2, E2) = IsContested(R, E)
  BY DEF Candidate, EvidenceLadder, IsContested
<1>2. CASE ex \in Incomplete
  BY <1>2 DEF Verdict
<1>3. CASE ex \notin Incomplete /\ ~ (R2 = {} /\ E2 = {})
  BY <1>1, <1>3 DEF Verdict
<1>4. CASE ex \notin Incomplete /\ R = {} /\ E = {}
  BY <1>4
<1>5. CASE ex \notin Incomplete /\ R2 = {} /\ E2 = {} /\ ~ (R = {} /\ E = {})
  <2>1. /\ \A o, b : Definitive(R, o, b) = {}
        /\ Supports(E) = {} /\ Contradicts(E) = {}
    BY <1>5 DEF Definitive, Supports, Contradicts
  <2>2. Lineages(Trusted({})) = {}
    BY DEF Lineages, Trusted
  <2>3. ~ (Cardinality({}) >= MinLineages)
    BY FS_EmptySet, PolicyAssumption
  <2>4. Candidate(R, E) = <<"UNVERIFIED", "NEUTRAL">>
    BY <2>1, <2>2, <2>3 DEF Candidate, EvidenceLadder
  <2>5. Capped("UNVERIFIED", cl) = "UNVERIFIED"
    BY CappedFacts DEF Status, Positive
  <2>6. ~ IsContested(R, E)
    BY <2>1 DEF IsContested
  <2>7. Verdict(cl, ex, R, E) = Form("UNVERIFIED", "NEUTRAL", FALSE, FALSE)
    <3> DEFINE model == Supports(E) # {} /\ \A e \in Supports(E) : e.modelStance
    <3>1. Verdict(cl, ex, R, E) = Form(Capped(Candidate(R, E)[1], cl), Candidate(R, E)[2],
                                       IsContested(R, E), model)
      BY <1>5 DEF Verdict
    <3>2. model = FALSE /\ IsContested(R, E) = FALSE
      BY <2>1, <2>6 DEF IsContested
    <3>3. Candidate(R, E)[1] = "UNVERIFIED" /\ Candidate(R, E)[2] = "NEUTRAL"
      BY <2>4
    <3> HIDE DEF model
    <3> QED
      BY <2>5, <3>1, <3>2, <3>3, Zenon
  <2> QED
    BY <1>5, <2>7 DEF Verdict
<1> QED
  BY <1>2, <1>3, <1>4, <1>5

-----------------------------------------------------------------------------
(* Which way the status moves *)

\* What the status of a verdict depends on: whether a definitive verifier
\* failed or passed, the evidence disputes the claim, it comes from enough
\* sources, and some of it supports the claim.
Told(failed, passed, disputed, enough, supported) ==
    IF failed THEN "REFUTED"
    ELSE IF passed THEN IF disputed THEN "CONTESTED" ELSE "VERIFIED"
    ELSE IF disputed THEN IF supported THEN "CONTESTED" ELSE "UNVERIFIED"
    ELSE IF enough THEN "CORROBORATED"
    ELSE IF supported THEN "SUPPORTED" ELSE "UNVERIFIED"

Enough(E) == Cardinality(Lineages(Trusted(Supports(E)))) >= MinLineages

Signal(R, E) == Told(Definitive(R, "FAIL", TRUE) # {}, Definitive(R, "PASS", TRUE) # {},
                     Contradicts(E) # {}, Enough(E), Supports(E) # {})

LEMMA CandidateTold == ASSUME NEW R, NEW E PROVE Candidate(R, E)[1] = Signal(R, E)
<1> DEFINE disputed == Contradicts(E) # {}
           failed   == Definitive(R, "FAIL", TRUE) # {}
           passed   == Definitive(R, "PASS", TRUE) # {}
           support  == Supports(E)
           enough   == Cardinality(Lineages(Trusted(support))) >= MinLineages
<1>1. CASE failed
  BY <1>1 DEF Candidate, Signal, Told
<1>2. CASE ~ failed /\ passed /\ disputed
  BY <1>2 DEF Candidate, Signal, Told
<1>3. CASE ~ failed /\ passed /\ ~ disputed
  BY <1>3 DEF Candidate, Signal, Told
<1>4. CASE ~ failed /\ ~ passed
  <2>1. Candidate(R, E) = EvidenceLadder(R, E)
    BY <1>4 DEF Candidate
  <2>2. Signal(R, E) = IF disputed THEN IF support # {} THEN "CONTESTED" ELSE "UNVERIFIED"
                       ELSE IF enough THEN "CORROBORATED"
                       ELSE IF support # {} THEN "SUPPORTED" ELSE "UNVERIFIED"
    BY <1>4 DEF Signal, Told, Enough
  <2>3. CASE ~ disputed /\ enough
    <3>1. EvidenceLadder(R, E)[1] = "CORROBORATED"
      BY <2>3 DEF EvidenceLadder
    <3> QED
      BY <2>1, <2>2, <2>3, <3>1
  <2>4. CASE ~ disputed /\ ~ enough /\ support # {}
    <3>1. EvidenceLadder(R, E)[1] = "SUPPORTED"
      BY <2>4 DEF EvidenceLadder
    <3> QED
      BY <2>1, <2>2, <2>4, <3>1
  <2>5. CASE disputed /\ support # {}
    <3>1. EvidenceLadder(R, E)[1] = "CONTESTED"
      BY <2>5 DEF EvidenceLadder
    <3> QED
      BY <2>1, <2>2, <2>5, <3>1
  <2>6. CASE disputed /\ support = {}
    <3>1. EvidenceLadder(R, E)[1] = "UNVERIFIED"
      BY <2>6 DEF EvidenceLadder
    <3> QED
      BY <2>1, <2>2, <2>6, <3>1
  <2>7. CASE ~ disputed /\ ~ enough /\ support = {}
    <3>1. CASE Definitive(R, "FAIL", FALSE) # {}
      BY <2>1, <2>2, <2>7, <3>1 DEF EvidenceLadder
    <3>2. CASE Definitive(R, "FAIL", FALSE) = {}
      BY <2>1, <2>2, <2>7, <3>2 DEF EvidenceLadder
    <3> QED
      BY <3>1, <3>2
  <2> QED
    BY <2>3, <2>4, <2>5, <2>6, <2>7
<1> QED
  BY <1>1, <1>2, <1>3, <1>4

\* Nothing at all tells as little as nothing of weight.
LEMMA VerdictStatus ==
    ASSUME NEW cl \in Class, NEW ex, NEW R, NEW E
    PROVE  Verdict(cl, ex, R, E).status
             = IF ex \in Incomplete THEN "UNVERIFIED" ELSE Capped(Signal(R, E), cl)
<1>1. CASE ex \in Incomplete
  BY <1>1 DEF Verdict, Form
<1>2. CASE ex \notin Incomplete /\ ~ (R = {} /\ E = {})
  BY <1>2, CandidateTold DEF Verdict, Form
<1>3. CASE ex \notin Incomplete /\ R = {} /\ E = {}
  <2>1. /\ \A o, b : Definitive(R, o, b) = {}
        /\ Supports(E) = {} /\ Contradicts(E) = {}
    BY <1>3 DEF Definitive, Supports, Contradicts
  <2>2. Lineages(Trusted({})) = {}
    BY DEF Lineages, Trusted
  <2>3. ~ Enough(E)
    BY <2>1, <2>2, FS_EmptySet, PolicyAssumption DEF Enough
  <2>4. Signal(R, E) = "UNVERIFIED"
    BY <2>1, <2>3 DEF Signal, Told
  <2>5. Capped("UNVERIFIED", cl) = "UNVERIFIED"
    BY CappedFacts DEF Status, Positive
  <2> QED
    BY <1>3, <2>4, <2>5 DEF Verdict, Form
<1> QED
  BY <1>1, <1>2, <1>3

\* The rung of a status once the ceiling is applied.
LEMMA CappedRung ==
    ASSUME NEW cl \in Class, NEW s \in Status
    PROVE  /\ Ladder(Ceiling(cl)) \in 3..5
           /\ Ladder(s) \in 0..5
           /\ Ladder(Capped(s, cl)) = IF Ladder(s) > Ladder(Ceiling(cl))
                                      THEN Ladder(Ceiling(cl)) ELSE Ladder(s)
<1>1. Ladder(Ceiling(cl)) \in 3..5
  BY DEF Class, Ceiling, Ladder
<1>2. Ladder(s) \in 0..5 /\ (s \notin Positive => Ladder(s) <= 2)
  BY DEF Status, Positive, Ladder
<1>3. CASE s \in Positive
  BY <1>1, <1>2, <1>3 DEF Capped
<1>4. CASE s \notin Positive
  BY <1>1, <1>2, <1>4 DEF Capped
<1> QED
  BY <1>1, <1>2, <1>3, <1>4

LEMMA Rungs ==
    /\ Ladder("REFUTED") = 0 /\ Ladder("CONTESTED") = 2 /\ Ladder("VERIFIED") = 5
    /\ Ladder("UNVERIFIED") = 1 /\ Ladder("CORROBORATED") = 4 /\ Ladder("SUPPORTED") = 3
  BY DEF Ladder

\* More for the claim never lowers the rung.
LEMMA MoreRaises ==
    ASSUME NEW cl \in Class, NEW ex, NEW R, NEW E, NEW R2, NEW E2,
           Definitive(R2, "FAIL", TRUE) # {} => Definitive(R, "FAIL", TRUE) # {},
           Definitive(R, "PASS", TRUE) # {} => Definitive(R2, "PASS", TRUE) # {},
           Contradicts(E2) # {} => Contradicts(E) # {},
           Enough(E) => Enough(E2),
           Supports(E) # {} => Supports(E2) # {}
    PROVE  Ladder(Verdict(cl, ex, R, E).status) <= Ladder(Verdict(cl, ex, R2, E2).status)
<1> DEFINE s == Signal(R, E)
           t == Signal(R2, E2)
<1>1. s \in Status /\ t \in Status /\ Ladder(s) <= Ladder(t)
  <2> DEFINE f == Definitive(R, "FAIL", TRUE) # {}
             p == Definitive(R, "PASS", TRUE) # {}
             d == Contradicts(E) # {}
             n == Enough(E)
             u == Supports(E) # {}
             f2 == Definitive(R2, "FAIL", TRUE) # {}
             p2 == Definitive(R2, "PASS", TRUE) # {}
             d2 == Contradicts(E2) # {}
             n2 == Enough(E2)
             u2 == Supports(E2) # {}
  <2>1. s = Told(f, p, d, n, u) /\ t = Told(f2, p2, d2, n2, u2)
    BY DEF Signal
  <2>2. (f2 => f) /\ (p => p2) /\ (d2 => d) /\ (n => n2) /\ (u => u2)
    OBVIOUS
  <2> HIDE DEF s, t, f, p, d, n, u, f2, p2, d2, n2, u2
  <2>3. /\ s \in Status
        /\ Ladder(s) = IF f THEN 0 ELSE IF p THEN IF d THEN 2 ELSE 5
                       ELSE IF d THEN IF u THEN 2 ELSE 1
                       ELSE IF n THEN 4 ELSE IF u THEN 3 ELSE 1
    BY <2>1, Rungs DEF Told, Status
  <2>4. /\ t \in Status
        /\ Ladder(t) = IF f2 THEN 0 ELSE IF p2 THEN IF d2 THEN 2 ELSE 5
                       ELSE IF d2 THEN IF u2 THEN 2 ELSE 1
                       ELSE IF n2 THEN 4 ELSE IF u2 THEN 3 ELSE 1
    BY <2>1, Rungs DEF Told, Status
  <2> QED
    BY <2>2, <2>3, <2>4
<1> HIDE DEF s, t
<1>2. /\ Ladder(s) \in 0..5 /\ Ladder(t) \in 0..5
      /\ Ladder(Capped(s, cl)) <= Ladder(Capped(t, cl))
  BY <1>1, CappedRung
<1>3. /\ Verdict(cl, ex, R, E).status
           = IF ex \in Incomplete THEN "UNVERIFIED" ELSE Capped(s, cl)
      /\ Verdict(cl, ex, R2, E2).status
           = IF ex \in Incomplete THEN "UNVERIFIED" ELSE Capped(t, cl)
  BY VerdictStatus DEF s, t
<1>4. Ladder("UNVERIFIED") <= Ladder("UNVERIFIED")
  BY DEF Ladder
<1> QED
  BY <1>2, <1>3, <1>4

\* More sources are not fewer: the count is taken of finitely many lineages.
LEMMA EnoughGrows ==
    ASSUME NEW E, NEW E2, IsFiniteSet(Lineages(E2)),
           Supports(E) \subseteq Supports(E2), Enough(E)
    PROVE  Enough(E2)
<1> DEFINE old == Lineages(Trusted(Supports(E)))
           new == Lineages(Trusted(Supports(E2)))
<1>1. old \subseteq new /\ new \subseteq Lineages(E2)
  BY DEF Lineages, Trusted, Supports
<1> HIDE DEF old, new
<1>2. IsFiniteSet(new)
  BY <1>1, FS_Subset
<1>3. /\ IsFiniteSet(old) /\ Cardinality(old) <= Cardinality(new)
  BY <1>1, <1>2, FS_Subset
<1>4. Cardinality(old) \in Nat /\ Cardinality(new) \in Nat
  BY <1>2, <1>3, FS_CardinalityType
<1>5. Cardinality(old) >= MinLineages
  BY DEF Enough, old
<1>6. Cardinality(new) >= MinLineages
  BY <1>3, <1>4, <1>5, PolicyAssumption
<1> QED
  BY <1>6 DEF Enough, new
=============================================================================
