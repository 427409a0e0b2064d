-------------------------- MODULE AssuranceProofs --------------------------
(***************************************************************************)
(* One claim through the engine, for any request, any providers, any       *)
(* answer of an LLM, any record and any signing keys; and what the         *)
(* financial lane says of a company as it files, for any calendars,        *)
(* figures, coverage and labels of the filings.                            *)
(***************************************************************************)
EXTENDS Assurance, SecFilings, EvidenceStatusProofs

\* A lookup for a claim that is not bound decides nothing.
LEMMA UnboundLookup ==
    ASSUME NEW claim, claim.bound = FALSE, NEW record, NEW matched
    PROVE  Verdict("MECHANICAL", "OK", {LookupResult(claim, record, matched)}, {}).status
             = "UNVERIFIED"
<1> DEFINE R == {LookupResult(claim, record, matched)}
<1>1. \A v \in R : v.bound = FALSE
  BY DEF LookupResult
<1> HIDE DEF R
<1>2. \A x : Definitive(R, x, TRUE) = {}
  BY <1>1 DEF Definitive
<1>3. Supports({}) = {} /\ Contradicts({}) = {} /\ Lineages(Trusted({})) = {}
  BY DEF Supports, Contradicts, Lineages, Trusted
<1>4. ~ (Cardinality({}) >= MinLineages)
  BY FS_EmptySet, PolicyAssumption
<1>5. Candidate(R, {}) = EvidenceLadder(R, {})
  BY <1>2, <1>3 DEF Candidate
<1>6. EvidenceLadder(R, {})[1] = "UNVERIFIED"
  <2>1. CASE Definitive(R, "FAIL", FALSE) # {}
    BY <1>3, <1>4, <2>1 DEF EvidenceLadder
  <2>2. CASE Definitive(R, "FAIL", FALSE) = {}
    BY <1>3, <1>4, <2>2 DEF EvidenceLadder
  <2> QED
    BY <2>1, <2>2
<1>7. Capped("UNVERIFIED", "MECHANICAL") = "UNVERIFIED"
  BY DEF Capped, Positive
<1>8. Verdict("MECHANICAL", "OK", R, {}).status = "UNVERIFIED"
  BY <1>5, <1>6, <1>7 DEF Verdict, Form
<1> QED
  BY <1>8 DEF R

\* Filings that disagree are all an unreviewed claim can be told of.
LEMMA UnboundFinancial ==
    ASSUME NEW claim, claim.bound = FALSE, NEW record
    PROVE  VerifyFinancialClaim(claim, record).status \in {"UNVERIFIED", "CONTESTED"}
<1> DEFINE period == Period(claim, record)
           matched == Equal(claim.value, CHOOSE v \in Distinct(period) : TRUE)
           found == Verdict("MECHANICAL", "OK", {LookupResult(claim, record, matched)}, {}).status
<1>1. found = "UNVERIFIED"
  <2> HIDE DEF matched
  <2> QED
    BY UnboundLookup
<1>2. VerifyFinancialClaim(claim, record).status \in {"UNVERIFIED", "CONTESTED", found}
  <2> DEFINE unbound == \/ ~ Bindable(claim, record)
                        \/ period = {}
                        \/ \E f \in period : Magnitude(f.value) >= Limit
             many == Cardinality(Distinct(period)) > 1
             cited == AsReported(claim, period, found)
  <2>1. VerifyFinancialClaim(claim, record)
          = IF unbound THEN Unbound
            ELSE IF many THEN [status |-> "CONTESTED", accession |-> None]
                 ELSE [status |-> found, accession |-> cited]
    BY DEF VerifyFinancialClaim
  <2> HIDE DEF unbound, many, cited, found
  <2> QED
    BY <2>1 DEF Unbound
<1> HIDE DEF found
<1> QED
  BY <1>1, <1>2

-----------------------------------------------------------------------------
(* What a definitive status of the financial lane rests on *)

\* A lookup that decides something was one of a record the system fetched, for
\* a bound claim; it verifies what matched, always if all that is given, and
\* refutes what did not.
LEMMA DefinitiveLookup ==
    ASSUME NEW claim, NEW record, NEW matched \in BOOLEAN, NEW status,
           status = Verdict("MECHANICAL", "OK", {LookupResult(claim, record, matched)}, {}).status
    PROVE  /\ status \in {"VERIFIED", "REFUTED"} =>
                /\ claim.bound = TRUE
                /\ record.trusted
           /\ status = "VERIFIED" => matched
           /\ status = "REFUTED" => ~ matched
           /\ claim.bound = TRUE /\ record.trusted = TRUE /\ matched => status = "VERIFIED"
           /\ status \in {"VERIFIED", "REFUTED", "UNVERIFIED"}
<1> DEFINE R == {LookupResult(claim, record, matched)}
           failed == Definitive(R, "FAIL", TRUE)
           passed == Definitive(R, "PASS", TRUE)
<1>1. \A v \in R : /\ v.kind = "SOURCED" /\ v.integrity = record.trusted /\ v.bound = claim.bound
                   /\ v.outcome = "PASS" => matched
                   /\ v.outcome = "FAIL" => ~ matched
  BY DEF LookupResult
<1>2. /\ failed # {} => claim.bound = TRUE /\ record.trusted /\ ~ matched
      /\ passed # {} => claim.bound = TRUE /\ record.trusted /\ matched
  <2> HIDE DEF R
  <2> QED
    BY <1>1 DEF Definitive, IsDefinitive
<1>10. claim.bound = TRUE /\ record.trusted = TRUE /\ matched => passed # {}
  <2> DEFINE v == LookupResult(claim, record, matched)
  <2>1. claim.bound = TRUE /\ record.trusted = TRUE /\ matched =>
          /\ v.outcome = "PASS" /\ v.bound = TRUE /\ v.integrity /\ v.kind = "SOURCED"
          /\ ~ v.isLLM /\ v.applicable /\ v.authoritative
    BY DEF LookupResult
  <2>2. v \in R
    OBVIOUS
  <2> HIDE DEF v, R
  <2> QED
    BY <2>1, <2>2 DEF Definitive, IsDefinitive
<1>3. Supports({}) = {} /\ Contradicts({}) = {} /\ Lineages(Trusted({})) = {}
  BY DEF Supports, Contradicts, Lineages, Trusted
<1>4. ~ (Cardinality({}) >= MinLineages)
  BY FS_EmptySet, PolicyAssumption
<1>5. EvidenceLadder(R, {})[1] = "UNVERIFIED"
  <2> HIDE DEF R
  <2>1. CASE Definitive(R, "FAIL", FALSE) # {}
    BY <1>3, <1>4, <2>1 DEF EvidenceLadder
  <2>2. CASE Definitive(R, "FAIL", FALSE) = {}
    BY <1>3, <1>4, <2>2 DEF EvidenceLadder
  <2> QED
    BY <2>1, <2>2
<1>6. R # {}
  OBVIOUS
<1> HIDE DEF R
<1>7. CASE failed # {}
  <2>1. Candidate(R, {})[1] = "REFUTED"
    BY <1>7 DEF Candidate
  <2>2. status = "REFUTED"
    BY <1>6, <2>1 DEF Verdict, Form, Incomplete, Capped, Positive, R
  <2> QED
    BY <1>2, <1>7, <2>2
<1>8. CASE failed = {} /\ passed # {}
  <2>1. Candidate(R, {})[1] = "VERIFIED"
    BY <1>3, <1>8 DEF Candidate
  <2>2. Capped("VERIFIED", "MECHANICAL") = "VERIFIED"
    BY DEF Capped, Ceiling, Positive, Ladder
  <2>3. status = "VERIFIED"
    BY <1>6, <2>1, <2>2 DEF Verdict, Form, Incomplete, R
  <2> QED
    BY <1>2, <1>8, <2>3
<1>9. CASE failed = {} /\ passed = {}
  <2>1. Candidate(R, {})[1] = "UNVERIFIED"
    BY <1>5, <1>9 DEF Candidate
  <2>2. status = "UNVERIFIED"
    BY <1>6, <2>1 DEF Verdict, Form, Incomplete, Capped, Positive, R
  <2> QED
    BY <1>9, <1>10, <2>2
<1> QED
  BY <1>7, <1>8, <1>9

\* The rows a claim is compared with are rows of the record.
LEMMA PeriodInRecord ==
    ASSUME NEW claim, NEW record
    PROVE  Period(claim, record) \subseteq record.rows
<1>1. PeriodFacts(record.rows, claim.fy, claim.fp) \subseteq record.rows
  <2>1. OwnRows(Labelled(record.rows, claim.fy, claim.fp)) \subseteq record.rows
    BY DEF OwnRows, Labelled
  <2> QED
    BY <2>1 DEF PeriodFacts
<1>2. ComparativePeriodFacts(record.rows, claim.fy, claim.fp) \subseteq record.rows
  BY DEF ComparativePeriodFacts
<1> QED
  BY <1>1, <1>2 DEF Period

\* Only a bound claim of a fiscal year and of the record's company gets a
\* definitive status, over a trusted record; a verified figure is on it.
LEMMA DefinitiveFinancial ==
    ASSUME NEW claim, NEW record, NEW status,
           status = VerifyFinancialClaim(claim, record).status
    PROVE  /\ status \in {"VERIFIED", "REFUTED"} =>
                /\ claim.bound = TRUE
                /\ record.trusted
                /\ claim.fy # None
                /\ EntityBound(claim, record)
           /\ status = "VERIFIED" => \E f \in record.rows : Equal(claim.value, f.value)
           /\ status \in {"VERIFIED", "REFUTED", "UNVERIFIED", "CONTESTED"}
<1> DEFINE period == Period(claim, record)
           value == CHOOSE v \in Distinct(period) : TRUE
           matched == Equal(claim.value, value)
           found == Verdict("MECHANICAL", "OK", {LookupResult(claim, record, matched)}, {}).status
           unbound == \/ ~ Bindable(claim, record)
                      \/ period = {}
                      \/ \E f \in period : Magnitude(f.value) >= Limit
           many == Cardinality(Distinct(period)) > 1
           cited == AsReported(claim, period, found)
<1>1. VerifyFinancialClaim(claim, record)
        = IF unbound THEN Unbound
          ELSE IF many THEN [status |-> "CONTESTED", accession |-> None]
               ELSE [status |-> found, accession |-> cited]
  BY DEF VerifyFinancialClaim
<1>2. /\ found \in {"VERIFIED", "REFUTED"} => claim.bound = TRUE /\ record.trusted
      /\ found = "VERIFIED" => matched
      /\ found \in {"VERIFIED", "REFUTED", "UNVERIFIED"}
  <2>1. matched \in BOOLEAN
    BY DEF Equal
  <2> HIDE DEF matched
  <2> QED
    BY <2>1, DefinitiveLookup
<1>3. ~ unbound => Bindable(claim, record) /\ period # {}
  OBVIOUS
<1>4. period # {} /\ matched => \E f \in record.rows : Equal(claim.value, f.value)
  <2> SUFFICES ASSUME period # {}, matched
               PROVE  \E f \in record.rows : Equal(claim.value, f.value)
    OBVIOUS
  <2>1. Distinct(period) # {}
    BY DEF Distinct
  <2>2. value \in Distinct(period)
    BY <2>1
  <2>3. PICK f \in period : value = f.value
    BY <2>2 DEF Distinct
  <2>4. f \in record.rows
    BY <2>3, PeriodInRecord
  <2> QED
    BY <2>3, <2>4
<1> HIDE DEF unbound, many, cited, found, matched, period
<1> QED
  BY <1>1, <1>2, <1>3, <1>4 DEF Unbound, Bindable

-----------------------------------------------------------------------------
(* The providers a call may reach *)

\* The definition of MayCall for the first n providers of s.
Sifted(f, s, A, i) ==
    IF i = 0 THEN <<>>
    ELSE IF s[i] \in A THEN Append(f[i - 1], s[i])
    ELSE f[i - 1]

Sifts(f, s, A, n) == f = [i \in 0..n |-> Sifted(f, s, A, i)]

LEMMA SiftExists ==
    ASSUME NEW s, NEW A, NEW n \in Nat
    PROVE  \E f : Sifts(f, s, A, n)
<1> DEFINE T == {m \in Nat : ~ \E f : Sifts(f, s, A, m)}
<1>1. SUFFICES ASSUME T # {}
               PROVE  FALSE
  OBVIOUS
<1>2. PICK l \in T : \A m \in T : l <= m
  <2> HIDE DEF T
  <2>1. T \subseteq Nat
    BY DEF T
  <2> QED
    BY <1>1, <2>1, MinOfNaturals
<1>3. l # 0
  <2>1. Sifts([i \in 0..0 |-> <<>>], s, A, 0)
    BY DEF Sifts, Sifted
  <2> QED
    BY <1>2, <2>1
<1>4. PICK m \in Nat : l = m + 1
  BY <1>2, <1>3
<1>5. PICK f : Sifts(f, s, A, m)
  BY <1>2, <1>4
<1> DEFINE g == [i \in 0..l |-> Sifted(f, s, A, i)]
<1>6. \A i \in 0..m : g[i] = f[i]
  <2>1. \A i \in 0..m : f[i] = Sifted(f, s, A, i)
    BY <1>5 DEF Sifts
  <2>2. 0..m \subseteq 0..l
    BY <1>4
  <2> QED
    BY <2>1, <2>2
<1>7. \A i \in 0..l : i # 0 => i - 1 \in 0..m
  BY <1>4
<1>8. \A i \in 0..l : g[i] = Sifted(g, s, A, i)
  <2> SUFFICES ASSUME NEW i \in 0..l
               PROVE  g[i] = Sifted(g, s, A, i)
    OBVIOUS
  <2>1. g[i] = Sifted(f, s, A, i)
    OBVIOUS
  <2> HIDE DEF g
  <2>2. i # 0 => g[i - 1] = f[i - 1]
    BY <1>6, <1>7
  <2> QED
    BY <2>1, <2>2 DEF Sifted
<1>9. g = [i \in 0..l |-> g[i]]
  OBVIOUS
<1>10. Sifts(g, s, A, l)
  <2> HIDE DEF g
  <2> QED
    BY <1>8, <1>9 DEF Sifts
<1> QED
  BY <1>2, <1>10

\* MayCall goes through the providers one by one.
LEMMA MayCallSifts ==
    ASSUME NEW s \in Seq(Provider), NEW A
    PROVE  \E f : Sifts(f, s, A, Len(s)) /\ MayCall(s, A) = f[Len(s)]
<1> DEFINE f == CHOOSE f : Sifts(f, s, A, Len(s))
<1>1. Len(s) \in Nat
  OBVIOUS
<1>2. Sifts(f, s, A, Len(s))
  BY <1>1, SiftExists
<1>3. MayCall(s, A) = f[Len(s)]
  BY DEF MayCall, Sifts, Sifted
<1> QED
  BY <1>2, <1>3

\* Of the first i providers of s, K holds those in A and no others, in order.
Kept(K, s, A, i) ==
    /\ K \in Seq(Provider)
    /\ \A j \in 1..Len(K) : K[j] \in A /\ \E k \in 1..i : s[k] = K[j]
    /\ \A j, h \in 1..Len(K) : j < h =>
         \E k, l \in 1..i : k < l /\ s[k] = K[j] /\ s[l] = K[h]
    /\ \A k \in 1..i : s[k] \in A => \E j \in 1..Len(K) : K[j] = s[k]

LEMMA KeptAppend ==
    ASSUME NEW s \in Seq(Provider), NEW A, NEW i \in 1..Len(s), s[i] \in A,
           NEW K, Kept(K, s, A, i - 1)
    PROVE  Kept(Append(K, s[i]), s, A, i)
<1> DEFINE L == Append(K, s[i])
           n == Len(K)
<1>1. s[i] \in Provider /\ K \in Seq(Provider)
  BY DEF Kept
<1>2. /\ L \in Seq(Provider) /\ Len(L) = n + 1 /\ n \in Nat
      /\ \A j \in 1..n : L[j] = K[j]
      /\ L[n + 1] = s[i]
  BY <1>1
<1> HIDE DEF L, n
<1>3. /\ \A j \in 1..n : K[j] \in A /\ \E k \in 1..(i - 1) : s[k] = K[j]
      /\ \A j, h \in 1..n : j < h =>
           \E k, l \in 1..(i - 1) : k < l /\ s[k] = K[j] /\ s[l] = K[h]
      /\ \A k \in 1..(i - 1) : s[k] \in A => \E j \in 1..n : K[j] = s[k]
  BY DEF Kept, n
<1>4. 1..(i - 1) \subseteq 1..i /\ i \in 1..i /\ \A k \in 1..i : k \in 1..(i - 1) \/ k = i
  OBVIOUS
<1>5. 1..n \subseteq 1..(n + 1) /\ n + 1 \in 1..(n + 1) /\ \A j \in 1..(n + 1) : j \in 1..n \/ j = n + 1
  BY <1>2
<1>6. \A j \in 1..(n + 1) : L[j] \in A /\ \E k \in 1..i : s[k] = L[j]
  <2> SUFFICES ASSUME NEW j \in 1..(n + 1)
               PROVE  L[j] \in A /\ \E k \in 1..i : s[k] = L[j]
    OBVIOUS
  <2>1. CASE j \in 1..n
    <3>1. L[j] = K[j]
      BY <1>2, <2>1
    <3>2. K[j] \in A /\ \E k \in 1..(i - 1) : s[k] = K[j]
      BY <1>3, <2>1
    <3> QED
      BY <1>4, <3>1, <3>2
  <2>2. CASE j = n + 1
    BY <1>2, <1>4, <2>2
  <2> QED
    BY <1>5, <2>1, <2>2
<1>7. \A j, h \in 1..(n + 1) : j < h =>
        \E k, l \in 1..i : k < l /\ s[k] = L[j] /\ s[l] = L[h]
  <2> SUFFICES ASSUME NEW j \in 1..(n + 1), NEW h \in 1..(n + 1), j < h
               PROVE  \E k, l \in 1..i : k < l /\ s[k] = L[j] /\ s[l] = L[h]
    OBVIOUS
  <2>1. j \in 1..n
    BY <1>2
  <2>2. CASE h \in 1..n
    <3>1. PICK k \in 1..(i - 1), l \in 1..(i - 1) : k < l /\ s[k] = K[j] /\ s[l] = K[h]
      BY <1>3, <2>1, <2>2
    <3>2. L[j] = K[j] /\ L[h] = K[h]
      BY <1>2, <2>1, <2>2
    <3> QED
      BY <1>4, <3>1, <3>2
  <2>3. CASE h = n + 1
    <3>1. PICK k \in 1..(i - 1) : s[k] = K[j]
      BY <1>3, <2>1
    <3>2. k \in 1..i /\ k < i /\ s[k] = L[j] /\ s[i] = L[h]
      BY <1>2, <2>1, <2>3, <3>1
    <3> QED
      BY <1>4, <3>2
  <2> QED
    BY <1>5, <2>2, <2>3
<1>8. \A k \in 1..i : s[k] \in A => \E j \in 1..(n + 1) : L[j] = s[k]
  <2> SUFFICES ASSUME NEW k \in 1..i, s[k] \in A
               PROVE  \E j \in 1..(n + 1) : L[j] = s[k]
    OBVIOUS
  <2>1. CASE k = i
    BY <1>2, <1>5, <2>1
  <2>2. CASE k \in 1..(i - 1)
    <3>1. PICK j \in 1..n : K[j] = s[k]
      BY <1>3, <2>2
    <3>2. L[j] = s[k] /\ j \in 1..(n + 1)
      BY <1>2, <1>5, <3>1
    <3> QED
      BY <3>2
  <2> QED
    BY <1>4, <2>1, <2>2
<1>9. Kept(L, s, A, i)
  BY <1>2, <1>6, <1>7, <1>8 DEF Kept
<1> QED
  BY <1>9 DEF L

LEMMA KeptSkip ==
    ASSUME NEW s \in Seq(Provider), NEW A, NEW i \in 1..Len(s), s[i] \notin A,
           NEW K, Kept(K, s, A, i - 1)
    PROVE  Kept(K, s, A, i)
<1> DEFINE n == Len(K)
<1>1. 1..(i - 1) \subseteq 1..i /\ \A k \in 1..i : k \in 1..(i - 1) \/ k = i
  OBVIOUS
<1>2. /\ K \in Seq(Provider)
      /\ \A j \in 1..n : K[j] \in A /\ \E k \in 1..(i - 1) : s[k] = K[j]
      /\ \A j, h \in 1..n : j < h =>
           \E k, l \in 1..(i - 1) : k < l /\ s[k] = K[j] /\ s[l] = K[h]
      /\ \A k \in 1..(i - 1) : s[k] \in A => \E j \in 1..n : K[j] = s[k]
  BY DEF Kept
<1> HIDE DEF n
<1>3. \A j \in 1..n : K[j] \in A /\ \E k \in 1..i : s[k] = K[j]
  BY <1>1, <1>2
<1>4. \A j, h \in 1..n : j < h => \E k, l \in 1..i : k < l /\ s[k] = K[j] /\ s[l] = K[h]
  <2> SUFFICES ASSUME NEW j \in 1..n, NEW h \in 1..n, j < h
               PROVE  \E k, l \in 1..i : k < l /\ s[k] = K[j] /\ s[l] = K[h]
    OBVIOUS
  <2>1. PICK k \in 1..(i - 1), l \in 1..(i - 1) : k < l /\ s[k] = K[j] /\ s[l] = K[h]
    BY <1>2
  <2> QED
    BY <1>1, <2>1
<1>5. \A k \in 1..i : s[k] \in A => \E j \in 1..n : K[j] = s[k]
  BY <1>1, <1>2
<1> QED
  BY <1>2, <1>3, <1>4, <1>5 DEF Kept, n

LEMMA MayCallKeeps ==
    ASSUME NEW s \in Seq(Provider), NEW A
    PROVE  Kept(MayCall(s, A), s, A, Len(s))
<1>1. PICK f : Sifts(f, s, A, Len(s)) /\ MayCall(s, A) = f[Len(s)]
  BY MayCallSifts
<1>2. \A i \in 0..Len(s) : f[i] = Sifted(f, s, A, i)
  BY <1>1 DEF Sifts
<1> DEFINE T == {m \in 0..Len(s) : ~ Kept(f[m], s, A, m)}
<1>3. ASSUME T # {}
      PROVE  FALSE
  <2>1. PICK l \in T : \A m \in T : l <= m
    <3>1. T \subseteq Nat
      OBVIOUS
    <3> HIDE DEF T
    <3> QED
      BY <1>3, <3>1, MinOfNaturals
  <2>2. l # 0
    <3>1. f[0] = <<>>
      BY <1>2 DEF Sifted
    <3>2. Kept(<<>>, s, A, 0)
      BY DEF Kept
    <3> QED
      BY <2>1, <3>1, <3>2
  <2>3. l \in 1..Len(s) /\ l - 1 \in 0..Len(s) /\ ~ (l <= l - 1)
    BY <2>1, <2>2
  <2>4. Kept(f[l - 1], s, A, l - 1)
    BY <2>1, <2>3
  <2>5. f[l] = IF s[l] \in A THEN Append(f[l - 1], s[l]) ELSE f[l - 1]
    BY <1>2, <2>2, <2>3 DEF Sifted
  <2>6. Kept(f[l], s, A, l)
    BY <2>3, <2>4, <2>5, KeptAppend, KeptSkip
  <2> QED
    BY <2>1, <2>6
<1>4. Len(s) \in 0..Len(s)
  OBVIOUS
<1>5. Kept(f[Len(s)], s, A, Len(s))
  BY <1>3, <1>4
<1> QED
  BY <1>1, <1>5

\* C lists providers of s that are allowed, in the order of s; all of them or,
\* without permission to fall back, one at most.
WithinDecision(C, decision, s) ==
    /\ C \in Seq(Provider)
    /\ \A j \in 1..Len(C) : C[j] \in decision.allowed
    /\ \A j, h \in 1..Len(C) : j < h =>
         \E k, l \in 1..Len(s) : k < l /\ s[k] = C[j] /\ s[l] = C[h]
    /\ ~ decision.fallback => Len(C) <= 1
    /\ decision.fallback =>
         \A k \in 1..Len(s) : s[k] \in decision.allowed => \E j \in 1..Len(C) : C[j] = s[k]

LEMMA ChainFacts ==
    ASSUME NEW decision, NEW s \in Seq(Provider), NEW C, C = Chain(decision, s)
    PROVE  WithinDecision(C, decision, s)
<1> DEFINE K == MayCall(s, decision.allowed)
<1>1. Kept(K, s, decision.allowed, Len(s))
  BY MayCallKeeps
<1>2. C = IF decision.fallback \/ K = <<>> THEN K ELSE <<Head(K)>>
  BY DEF Chain
<1> HIDE DEF K
<1>3. CASE decision.fallback
  BY <1>1, <1>2, <1>3 DEF Kept, WithinDecision
<1>4. CASE ~ decision.fallback /\ K = <<>>
  <2>1. C = <<>>
    BY <1>2, <1>4
  <2> QED
    BY <1>4, <2>1 DEF WithinDecision
<1>5. CASE ~ decision.fallback /\ K # <<>>
  <2>1. C = <<Head(K)>>
    BY <1>2, <1>5
  <2>2. K \in Seq(Provider) /\ Head(K) = K[1] /\ 1 \in 1..Len(K)
    BY <1>1, <1>5 DEF Kept
  <2>3. K[1] \in Provider /\ K[1] \in decision.allowed
    BY <1>1, <2>2 DEF Kept
  <2>4. C \in Seq(Provider) /\ Len(C) = 1 /\ C[1] = K[1]
    BY <2>1, <2>2, <2>3
  <2> QED
    BY <1>5, <2>3, <2>4 DEF WithinDecision
<1> QED
  BY <1>3, <1>4, <1>5

-----------------------------------------------------------------------------
(* The invariant *)

Unreviewed(p) ==
    /\ p.plan \in {"none", "financial.sec_xbrl"}
    /\ p.proof = NoProof
    /\ p.advisories \in Seq(Severity)

\* Of a text there never is a proof to be had, so nothing definitive.
TextIsUnproved ==
    request.via = "text" =>
        /\ Unreviewed(proposal)
        /\ cert.status \in {"UNVERIFIED", "CONTESTED"}
        /\ outcome.decision \notin Released

\* A receipt in storage bears no signature but one over what was issued.
SignedAsIssued ==
    pc = "done" =>
        /\ "signatures" \in DOMAIN receipt
        /\ receipt.signatures \subseteq Key \X {issued}

\* The proof of a figure an operator reviewed.
ReviewOf(figure) ==
    IF figure = None THEN NoProof
    ELSE IssueBinding("human", TRUE, figure, FigureCanonical(figure))

\* What is certified is what was asked, with the CIK found for it.
ProposedAsAsked ==
    pc \in {"certify", "enforce", "done"} =>
        /\ request.via = "sec" =>
             proposal = ProposeFinancial(Resolved(request.figure, cik),
                                         ReviewOf(request.reviewed), <<>>)
        /\ request.via = "logic" => proposal = ProposeLogic(request.reviewed)

\* What a definitive status rests on; a verified claim carries no advisory.
Established ==
    /\ request.via \in {"sec", "logic"}
    /\ request.via = "logic" => request.reviewed
    /\ request.via = "sec" =>
         /\ facts # None /\ facts.trusted
         /\ request.figure.ticker \/ cik # None => cik = facts.cik
         /\ request.reviewed = [request.figure EXCEPT !.cik = cik]
         /\ cert.status = "VERIFIED" => \E f \in facts.rows : Equal(request.figure.value, f.value)
    /\ cert.status = "VERIFIED" => proposal.advisories = <<>>

CertifiedAsReviewed ==
    /\ cert.status \in {"UNVERIFIED", "CONTESTED", "VERIFIED", "REFUTED"}
    /\ cert.status \in {"VERIFIED", "REFUTED"} =>
         pc \in {"enforce", "done"} /\ cert.definitive /\ Established
    /\ ~ cert.modelDerived

\* The decision of a claim that is done is the one its certification gives.
DecidedAsCertified ==
    pc = "done" => outcome = Enforce(cert, proposal.advisories)

ReviewInv == /\ request \in Requests
             /\ ProposedAsAsked /\ CertifiedAsReviewed /\ DecidedAsCertified

TextInv == TextIsUnproved /\ SignedAsIssued

\* The providers the request permits, in the order they may be contacted.
Permitted ==
    IF Admitted(request.admission)
    THEN Chain(GatewayDecision(request.admission), request.providers)
    ELSE <<>>

\* done, then left, is the list; done is the beginning of the list.
Along(done, left, list) ==
    /\ done \in Seq(Provider) /\ left \in Seq(Provider)
    /\ Len(done) + Len(left) = Len(list)
    /\ \A i \in 1..Len(done) : done[i] = list[i]
    /\ \A i \in 1..Len(left) : left[i] = list[Len(done) + i]

Begins(done, list) ==
    /\ done \in Seq(Provider) /\ Len(done) <= Len(list)
    /\ \A i \in 1..Len(done) : done[i] = list[i]

\* While the loop runs, what it has contacted and what it has left are the
\* permitted providers; without an answer it ends with nothing left.
EgressInv ==
    /\ request.via # "text" \/ pc = "begin" => sent = <<>> /\ chain = <<>> /\ reply = NoReply
    /\ pc = "call" => /\ request.via = "text" /\ reply = NoReply
                      /\ Along(sent, chain, Permitted)
    /\ request.via = "text" /\ pc \notin {"begin", "call"} =>
         /\ Begins(sent, Permitted)
         /\ reply = NoReply => sent = Permitted

IInv == TextInv /\ ReviewInv /\ TypeOK /\ EgressInv

\* The advisories the reasoners start from.
LEMMA LiteralAdvisories ==
    /\ <<>> \in Seq(Severity) /\ <<"CAUTION">> \in Seq(Severity)
    /\ <<"CAUTION", "INFO">> \in Seq(Severity)
<1>1. "CAUTION" \in Severity /\ "INFO" \in Severity
  BY DEF Severity
<1> QED
  BY <1>1

LEMMA CautionFacts ==
    ASSUME NEW doubt
    PROVE  /\ CautionIf(doubt) \in Seq(Severity)
           /\ ~ doubt => CautionIf(doubt) = <<>>
BY LiteralAdvisories DEF CautionIf

\* propose_financial leaves the advisories of a reviewed figure with a year.
LEMMA FinancialAdvisories ==
    ASSUME NEW figure, NEW proof, NEW A \in Seq(Severity)
    PROVE  /\ ProposeFinancial(figure, proof, A).advisories \in Seq(Severity)
           /\ figure.fy # None /\ FigureBound(figure, proof) =>
                ProposeFinancial(figure, proof, A).advisories = A
<1> DEFINE B == CautionIf(figure.fy = None)
           C == CautionIf(~ FigureBound(figure, proof))
<1>1. ProposeFinancial(figure, proof, A).advisories = A \o B \o C
  BY DEF ProposeFinancial, Proposal
<1>2. /\ B \in Seq(Severity) /\ C \in Seq(Severity)
      /\ figure.fy # None /\ FigureBound(figure, proof) => B = <<>> /\ C = <<>>
  BY CautionFacts
<1>3. "INFO" \in Severity
  BY DEF Severity
<1> HIDE DEF B, C
<1>4. A \o B \in Seq(Severity) /\ A \o B \o C \in Seq(Severity) /\ A \o <<>> = A
  BY <1>2, <1>3, JoinedAdvisories
<1> QED
  BY <1>1, <1>2, <1>4

LEMMA LogicAdvisories ==
    ASSUME NEW reviewed
    PROVE  /\ ProposeLogic(reviewed).advisories \in Seq(Severity)
           /\ reviewed => ProposeLogic(reviewed).advisories = <<>>
<1>1. ProposeLogic(reviewed).advisories = CautionIf(~ reviewed)
  BY DEF ProposeLogic, Proposal
<1> QED
  BY <1>1, CautionFacts

LEMMA InitIInv == Init => IInv
<1> SUFFICES ASSUME Init
             PROVE  IInv
  OBVIOUS
<1>1. TextIsUnproved /\ SignedAsIssued
  BY LiteralAdvisories
     DEF Init, TextIsUnproved, SignedAsIssued, Unreviewed, ProposeUnstructured, Proposal,
         Uncertified, Base, Outcome, Released
<1>2. ReviewInv
  BY DEF Init, ReviewInv, ProposedAsAsked, CertifiedAsReviewed, DecidedAsCertified, Uncertified
<1>3. TypeOK
  <2>1. Base("UNVERIFIED") \in Rulings
    BY DEF Base, Outcome, Rulings, Release
  <2> QED
    BY <2>1, LiteralAdvisories DEF Init, TypeOK, ProposeUnstructured, Proposal, Uncertified, Status
<1>4. EgressInv
  BY DEF Init, EgressInv
<1> QED
  BY <1>1, <1>2, <1>3, <1>4 DEF IInv, TextInv

\* Whatever the reply, the proposal made of it has no proof.
LEMMA LLMHasNoProof == \A r : Unreviewed(ProposeWithLLM(r))
<1> SUFFICES ASSUME NEW r
             PROVE  Unreviewed(ProposeWithLLM(r))
  OBVIOUS
<1>1. /\ ProposeWithLLM(r).plan \in {"none", "financial.sec_xbrl"}
      /\ ProposeWithLLM(r).proof = NoProof
  BY DEF ProposeWithLLM, ProposeUnstructured, ProposeFinancial, Proposal
<1>2. ProposeWithLLM(r).advisories \in Seq(Severity)
  BY LiteralAdvisories, FinancialAdvisories DEF ProposeWithLLM, ProposeUnstructured, Proposal
<1> QED
  BY <1>1, <1>2 DEF Unreviewed

LEMMA CertifyKeeps == ASSUME TextIsUnproved, Certify PROVE TextIsUnproved'
<1> SUFFICES ASSUME request.via = "text"
             PROVE  cert'.status \in {"UNVERIFIED", "CONTESTED"}
  BY DEF TextIsUnproved, Certify
<1>1. LaneClaim(proposal).bound = FALSE
  BY DEF TextIsUnproved, Unreviewed, LaneClaim, FigureBound, BindingTrusted
<1>2. VerifyFinancialClaim(LaneClaim(proposal), facts).status \in {"UNVERIFIED", "CONTESTED"}
  BY <1>1, UnboundFinancial
<1>3. LaneStatuses \subseteq {"UNVERIFIED", "CONTESTED"}
  BY <1>2 DEF LaneStatuses, TextIsUnproved, Unreviewed
<1>4. PICK status \in LaneStatuses : cert'.status = status
  BY DEF Certify, Uncertified
<1> QED
  BY <1>3, <1>4

LEMMA EnforceClaimKeeps == ASSUME TextInv, EnforceClaim PROVE TextInv'
<1>1. TextIsUnproved'
  <2> SUFFICES ASSUME request.via = "text"
               PROVE  outcome'.decision \notin Released
    BY DEF TextInv, TextIsUnproved, EnforceClaim
  <2>1. /\ cert.status \in {"UNVERIFIED", "CONTESTED"}
        /\ cert.status \in Status /\ proposal.advisories \in Seq(Severity)
    BY DEF TextInv, TextIsUnproved, Unreviewed, Status
  <2> QED
    BY <2>1, EnforceFacts DEF EnforceClaim
<1>2. SignedAsIssued'
  <2>1. PICK key \in Key \cup {None} :
          receipt' = Receipt(proposal.plan, cert, proposal.advisories, outcome', key, None)
    BY DEF EnforceClaim
  <2>2. issued' = receipt'.content
    BY DEF EnforceClaim
  <2> QED
    BY <2>1, <2>2 DEF Receipt, SignedAsIssued
<1> QED
  BY <1>1, <1>2 DEF TextInv

LEMMA AlterKeeps == ASSUME TextInv, Alter PROVE TextInv'
<1>1. TextIsUnproved'
  BY DEF TextInv, TextIsUnproved, Alter
<1>2. "signatures" \in DOMAIN receipt' /\ receipt'.signatures \subseteq Key \X {issued}
  BY DEF TextInv, SignedAsIssued, Alter
<1> QED
  BY <1>1, <1>2 DEF TextInv, SignedAsIssued, Alter

LEMMA TextInvKeeps == ASSUME TextInv, [Next]_vars PROVE TextInv'
<1>1. CASE UNCHANGED vars
  BY <1>1 DEF TextInv, TextIsUnproved, SignedAsIssued, vars
<1>2. CASE Admit
  BY <1>2 DEF TextInv, TextIsUnproved, SignedAsIssued, Admit
<1>3. CASE Contact
  BY <1>3 DEF TextInv, TextIsUnproved, SignedAsIssued, Contact
<1>4. CASE ProposeText
  BY <1>4, LLMHasNoProof DEF TextInv, TextIsUnproved, SignedAsIssued, ProposeText
<1>5. CASE BeginSec
  BY <1>5 DEF TextInv, TextIsUnproved, SignedAsIssued, BeginSec
<1>6. CASE ResolveTicker
  BY <1>6 DEF TextInv, TextIsUnproved, SignedAsIssued, ResolveTicker
<1>7. CASE FetchFacts
  BY <1>7 DEF TextInv, TextIsUnproved, SignedAsIssued, FetchFacts
<1>8. CASE ProposeSec
  BY <1>8 DEF TextInv, TextIsUnproved, SignedAsIssued, ProposeSec
<1>9. CASE BeginLogic
  BY <1>9 DEF TextInv, TextIsUnproved, SignedAsIssued, BeginLogic
<1>10. CASE Certify
  <2>1. pc' = "enforce"
    BY <1>10 DEF Certify
  <2> QED
    BY <1>10, <2>1, CertifyKeeps DEF TextInv, SignedAsIssued
<1>11. CASE EnforceClaim
  BY <1>11, EnforceClaimKeeps
<1>12. CASE Alter
  BY <1>12, AlterKeeps
<1> QED
  BY <1>1, <1>2, <1>3, <1>4, <1>5, <1>6, <1>7, <1>8, <1>9, <1>10, <1>11, <1>12 DEF Next, Work

\* A review binds the figure it was issued for and no other.
LEMMA BoundIsReviewed ==
    ASSUME NEW figure, NEW reviewed, FigureBound(figure, ReviewOf(reviewed))
    PROVE  reviewed = figure /\ reviewed # None
<1>1. reviewed # None
  BY DEF FigureBound, BindingTrusted, ReviewOf
<1>2. ReviewOf(reviewed) = IssueBinding("human", TRUE, reviewed, FigureCanonical(reviewed))
  BY <1>1 DEF ReviewOf
<1>3. ReviewOf(reviewed).subject = Digest(reviewed, FigureCanonical(reviewed))
  BY <1>2 DEF IssueBinding
<1>4. SubjectMatches(ReviewOf(reviewed), figure, FigureCanonical(figure))
  BY DEF FigureBound, BindingTrusted
<1>5. Digest(figure, FigureCanonical(figure)) = figure
  BY <1>4 DEF SubjectMatches, Digest
<1>6. Digest(reviewed, FigureCanonical(reviewed)) = figure /\ figure # NoHash
  BY <1>3, <1>4, <1>5 DEF SubjectMatches
<1>7. Digest(reviewed, FigureCanonical(reviewed)) = reviewed
  BY <1>6 DEF Digest
<1> QED
  BY <1>1, <1>6, <1>7

\* The company is the one the claim ends up with.
LEMMA RequestedFigure ==
    ASSUME request \in Requests, request.via = "sec", NEW found
    PROVE  /\ Resolved(request.figure, found) = [request.figure EXCEPT !.cik = found]
           /\ Resolved(request.figure, found).cik = found
           /\ Resolved(request.figure, found).value = request.figure.value
           /\ Resolved(request.figure, found).ticker = request.figure.ticker
<1>1. request \in SecRequest
  BY AssuranceAssumption DEF TextRequest, SecRequest, LogicRequest
<1>2. request.figure \in Figure
  BY <1>1 DEF SecRequest
<1> QED
  BY <1>2 DEF Figure, Resolved

\* With a verified claim and no advisory the decision is to allow; a refuted
\* claim is refused whatever the advisories.
LEMMA EnforceDefinitive ==
    ASSUME NEW c, c.definitive, ~ c.modelDerived, NEW A \in Seq(Severity)
    PROVE  /\ c.status = "VERIFIED" /\ A = <<>> => Enforce(c, A).decision = "ALLOW"
           /\ c.status = "REFUTED" => Enforce(c, A).decision = "REFUSE"
<1>1. ASSUME c.status = "VERIFIED", A = <<>>
      PROVE  Enforce(c, A).decision = "ALLOW"
  <2>1. Certified(c) = Outcome("ALLOW", 0)
    BY <1>1 DEF Certified, Base, Backed, ModelFloor, Outcome
  <2>2. Outcome("ALLOW", 0) \in Rulings /\ Outcome("ALLOW", 0).decision = "ALLOW"
    BY DEF Outcome, Rulings, Release
  <2>3. Considered(Outcome("ALLOW", 0), SeveritySet(A)) = {Outcome("ALLOW", 0)}
    BY <1>1 DEF Considered, SeveritySet
  <2>4. WithAdvisories(Outcome("ALLOW", 0), A).decision = "ALLOW"
    BY <2>2, <2>3, AdvisoryFacts
  <2> QED
    BY <2>1, <2>4 DEF Enforce, Certified
<1>2. ASSUME c.status = "REFUTED"
      PROVE  Enforce(c, A).decision = "REFUSE"
  <2> DEFINE o == Outcome("REFUSE", 5)
             e == WithAdvisories(o, A)
  <2>1. Certified(c) = o
    BY <1>2 DEF Certified, Base, Backed, ModelFloor, Outcome
  <2>2. o \in Rulings /\ o.decision = "REFUSE"
    BY DEF Outcome, Rulings, Release
  <2>3. e \in Rulings /\ Restrictiveness(o.decision) <= Restrictiveness(e.decision)
    <3> HIDE DEF o
    <3> QED
      BY <2>2, AdvisoryFacts DEF Considered
  <2>4. e.decision \in Release
    BY <2>3 DEF Rulings
  <2>5. Restrictiveness("REFUSE") <= Restrictiveness(e.decision)
    BY <2>2, <2>3
  <2> HIDE DEF e
  <2>6. e.decision = "REFUSE"
    BY <2>4, <2>5 DEF Release, Restrictiveness
  <2> QED
    BY <2>1, <2>6 DEF Enforce, Certified, e
<1> QED
  BY <1>1, <1>2

\* The advisories of a proposal are advisories.
LEMMA AdvisoriesAreSeverities ==
    ASSUME TextInv, ReviewInv, pc \in {"certify", "enforce", "done"}
    PROVE  proposal.advisories \in Seq(Severity)
<1>1. CASE request.via = "text"
  BY <1>1 DEF TextInv, TextIsUnproved, Unreviewed
<1>2. CASE request.via = "sec"
  BY <1>2, LiteralAdvisories, FinancialAdvisories DEF ReviewInv, ProposedAsAsked
<1>3. CASE request.via = "logic"
  BY <1>3, LogicAdvisories DEF ReviewInv, ProposedAsAsked
<1>4. request.via \in {"text", "sec", "logic"}
  BY AssuranceAssumption DEF ReviewInv, TextRequest, SecRequest, LogicRequest
<1> QED
  BY <1>1, <1>2, <1>3, <1>4

\* What the lanes say of a figure looked up at the SEC.
LEMMA CertifySec ==
    ASSUME ReviewInv, pc = "certify", request.via = "sec", NEW status \in LaneStatuses
    PROVE  /\ status \in {"UNVERIFIED", "CONTESTED", "VERIFIED", "REFUTED"}
           /\ status \in {"VERIFIED", "REFUTED"} =>
                /\ facts # None /\ facts.trusted
                /\ request.figure.ticker \/ cik # None => cik = facts.cik
                /\ request.reviewed = [request.figure EXCEPT !.cik = cik]
           /\ status = "VERIFIED" =>
                /\ \E f \in facts.rows : Equal(request.figure.value, f.value)
                /\ proposal.advisories = <<>>
<1> DEFINE figure == Resolved(request.figure, cik)
           claim == LaneClaim(proposal)
<1>1. proposal = ProposeFinancial(figure, ReviewOf(request.reviewed), <<>>)
  BY DEF ReviewInv, ProposedAsAsked
<1>2. /\ proposal.plan = "financial.sec_xbrl"
      /\ proposal.figure = figure
      /\ proposal.proof = ReviewOf(request.reviewed)
      /\ figure.fy # None /\ FigureBound(figure, ReviewOf(request.reviewed)) =>
           proposal.advisories = <<>>
  <2> HIDE DEF figure
  <2>1. /\ proposal.plan = "financial.sec_xbrl"
        /\ proposal.figure = figure
        /\ proposal.proof = ReviewOf(request.reviewed)
    BY <1>1 DEF ProposeFinancial, Proposal
  <2> QED
    BY <1>1, <2>1, LiteralAdvisories, FinancialAdvisories
<1>3. /\ figure = [request.figure EXCEPT !.cik = cik]
      /\ figure.cik = cik
      /\ figure.value = request.figure.value
      /\ figure.ticker = request.figure.ticker
  BY RequestedFigure DEF ReviewInv
<1> HIDE DEF figure
<1>4. /\ claim.value = figure.value /\ claim.fy = figure.fy
      /\ claim.cik = figure.cik /\ claim.ticker = figure.ticker
      /\ claim.bound = FigureBound(figure, ReviewOf(request.reviewed))
  BY <1>2 DEF LaneClaim
<1> HIDE DEF claim
<1>5. \/ status = "UNVERIFIED"
      \/ facts # None /\ status = VerifyFinancialClaim(claim, facts).status
  BY <1>2 DEF LaneStatuses, claim
<1>6. CASE status = "UNVERIFIED"
  BY <1>6
<1>7. CASE facts # None /\ status = VerifyFinancialClaim(claim, facts).status
  <2>1. /\ status \in {"VERIFIED", "REFUTED"} =>
             /\ claim.bound = TRUE
             /\ facts.trusted
             /\ claim.fy # None
             /\ EntityBound(claim, facts)
        /\ status = "VERIFIED" => \E f \in facts.rows : Equal(claim.value, f.value)
        /\ status \in {"VERIFIED", "REFUTED", "UNVERIFIED", "CONTESTED"}
    BY <1>7, DefinitiveFinancial
  <2>2. claim.bound = TRUE => request.reviewed = figure
    BY <1>4, BoundIsReviewed
  <2>3. EntityBound(claim, facts) => (request.figure.ticker \/ cik # None => cik = facts.cik)
    BY <1>3, <1>4 DEF EntityBound
  <2>4. claim.bound = TRUE /\ claim.fy # None => proposal.advisories = <<>>
    BY <1>2, <1>4
  <2> QED
    BY <1>3, <1>4, <1>7, <2>1, <2>2, <2>3, <2>4
<1> QED
  BY <1>5, <1>6, <1>7

LEMMA CertifyKeepsReview == ASSUME TextInv, ReviewInv, Certify PROVE ReviewInv'
<1>1. PICK status \in LaneStatuses :
        cert' = [Uncertified EXCEPT !.status = status,
                                    !.definitive = status \in {"VERIFIED", "REFUTED"},
                                    !.record = facts]
  BY DEF Certify
<1>2. /\ cert'.status = status /\ ~ cert'.modelDerived
      /\ cert'.definitive = (status \in {"VERIFIED", "REFUTED"})
  BY <1>1 DEF Uncertified
<1>3. /\ pc = "certify" /\ pc' = "enforce" /\ request' = request /\ proposal' = proposal
      /\ facts' = facts /\ cik' = cik
  BY DEF Certify
<1>4. request.via \in {"text", "sec", "logic"}
  BY AssuranceAssumption DEF ReviewInv, TextRequest, SecRequest, LogicRequest
<1>5. CertifiedAsReviewed'
  <2>1. CASE request.via = "text"
    <3>1. TextIsUnproved'
      BY CertifyKeeps DEF TextInv
    <3> QED
      BY <1>2, <1>3, <2>1, <3>1 DEF CertifiedAsReviewed, TextIsUnproved
  <2>2. CASE request.via = "sec"
    BY <1>2, <1>3, <2>2, CertifySec DEF CertifiedAsReviewed, Established
  <2>3. CASE request.via = "logic"
    <3>1. proposal = ProposeLogic(request.reviewed)
      BY <1>3, <2>3 DEF ReviewInv, ProposedAsAsked
    <3>2. /\ proposal.plan = "logic.propositional"
          /\ request.reviewed => proposal.advisories = <<>>
      BY <3>1, LogicAdvisories DEF ProposeLogic, Proposal
    <3>3. /\ status \in {"UNVERIFIED", "VERIFIED", "REFUTED"}
          /\ status # "UNVERIFIED" => request.reviewed
      BY <3>2 DEF LaneStatuses
    <3> QED
      BY <1>2, <1>3, <2>3, <3>2, <3>3 DEF CertifiedAsReviewed, Established
  <2> QED
    BY <1>4, <2>1, <2>2, <2>3
<1> QED
  BY <1>3, <1>5 DEF ReviewInv, ProposedAsAsked, DecidedAsCertified

\* Until it is certified nothing definitive is said of a claim.
LEMMA EarlyStepKeepsReview ==
    ASSUME ReviewInv, pc \notin {"certify", "enforce", "done"},
           request' = request, cert' = cert, pc' # "done", ProposedAsAsked'
    PROVE  ReviewInv'
  BY DEF ReviewInv, CertifiedAsReviewed, DecidedAsCertified

LEMMA ReviewInvKeeps == ASSUME TextInv, ReviewInv, [Next]_vars PROVE ReviewInv'
<1>1. CASE UNCHANGED vars
  BY <1>1 DEF ReviewInv, ProposedAsAsked, CertifiedAsReviewed, Established, DecidedAsCertified,
              vars
<1>2. CASE Admit
  BY <1>2, EarlyStepKeepsReview DEF Admit, ProposedAsAsked
<1>3. CASE Contact
  BY <1>3, EarlyStepKeepsReview DEF Contact, ProposedAsAsked
<1>4. CASE ProposeText
  BY <1>4, EarlyStepKeepsReview DEF ProposeText, ProposedAsAsked
<1>5. CASE BeginSec
  BY <1>5, EarlyStepKeepsReview DEF BeginSec, ProposedAsAsked
<1>6. CASE ResolveTicker
  BY <1>6, EarlyStepKeepsReview DEF ResolveTicker, ProposedAsAsked
<1>7. CASE FetchFacts
  BY <1>7, EarlyStepKeepsReview DEF FetchFacts, ProposedAsAsked
<1>8. CASE ProposeSec
  BY <1>8, EarlyStepKeepsReview DEF ProposeSec, ProposedAsAsked, ReviewOf
<1>9. CASE BeginLogic
  BY <1>9, EarlyStepKeepsReview DEF BeginLogic, ProposedAsAsked
<1>10. CASE Certify
  BY <1>10, CertifyKeepsReview
<1>11. CASE EnforceClaim
  BY <1>11 DEF ReviewInv, ProposedAsAsked, CertifiedAsReviewed, Established, DecidedAsCertified,
               EnforceClaim
<1>12. CASE Alter
  BY <1>12 DEF ReviewInv, ProposedAsAsked, CertifiedAsReviewed, Established, DecidedAsCertified,
               Alter
<1> QED
  BY <1>1, <1>2, <1>3, <1>4, <1>5, <1>6, <1>7, <1>8, <1>9, <1>10, <1>11, <1>12 DEF Next, Work

\* One more provider is contacted.
LEMMA AlongStep ==
    ASSUME NEW d, NEW c, NEW P \in Seq(Provider), Along(d, c, P), c # <<>>
    PROVE  /\ Along(Append(d, Head(c)), Tail(c), P)
           /\ Begins(Append(d, Head(c)), P)
<1> DEFINE e == Append(d, Head(c))
           t == Tail(c)
<1>1. d \in Seq(Provider) /\ c \in Seq(Provider) /\ Len(d) \in Nat /\ Len(c) \in Nat
  BY DEF Along
<1>2. Len(c) >= 1 /\ Head(c) = c[1] /\ c[1] \in Provider
  BY <1>1
<1>3. /\ e \in Seq(Provider) /\ Len(e) = Len(d) + 1
      /\ \A i \in 1..Len(d) : e[i] = d[i]
      /\ e[Len(d) + 1] = c[1]
  BY <1>1, <1>2
<1>4. /\ t \in Seq(Provider) /\ Len(t) = Len(c) - 1
      /\ \A i \in 1..(Len(c) - 1) : t[i] = c[i + 1]
  BY <1>1, <1>2
<1> HIDE DEF e, t
<1>5. /\ Len(d) + Len(c) = Len(P)
      /\ \A i \in 1..Len(d) : d[i] = P[i]
      /\ \A i \in 1..Len(c) : c[i] = P[Len(d) + i]
  BY DEF Along
<1>6. c[1] = P[Len(d) + 1]
  BY <1>1, <1>2, <1>5
<1>7. \A i \in 1..Len(e) : e[i] = P[i]
  <2> SUFFICES ASSUME NEW i \in 1..Len(e)
               PROVE  e[i] = P[i]
    OBVIOUS
  <2>1. CASE i \in 1..Len(d)
    BY <1>3, <1>5, <2>1
  <2>2. CASE i = Len(d) + 1
    BY <1>3, <1>6, <2>2
  <2> QED
    BY <1>1, <1>3, <2>1, <2>2
<1>8. \A i \in 1..Len(t) : t[i] = P[Len(e) + i]
  <2> SUFFICES ASSUME NEW i \in 1..Len(t)
               PROVE  t[i] = P[Len(e) + i]
    OBVIOUS
  <2>1. t[i] = c[i + 1] /\ i + 1 \in 1..Len(c)
    BY <1>1, <1>4
  <2>2. c[i + 1] = P[Len(d) + (i + 1)]
    BY <1>5, <2>1
  <2>3. Len(d) + (i + 1) = Len(e) + i
    BY <1>1, <1>3
  <2> QED
    BY <2>1, <2>2, <2>3
<1>9. Len(e) + Len(t) = Len(P) /\ Len(e) <= Len(P)
  BY <1>1, <1>2, <1>3, <1>4, <1>5
<1>10. Along(e, t, P) /\ Begins(e, P)
  BY <1>3, <1>4, <1>7, <1>8, <1>9 DEF Along, Begins
<1> QED
  BY <1>10 DEF e, t

LEMMA AlongEnds ==
    ASSUME NEW d, NEW P \in Seq(Provider), Along(d, <<>>, P)
    PROVE  d = P /\ Begins(d, P)
<1>1. /\ d \in Seq(Provider) /\ Len(d) = Len(P) /\ Len(P) \in Nat
      /\ \A i \in 1..Len(P) : d[i] = P[i]
  BY DEF Along
<1>2. d = [i \in 1..Len(P) |-> d[i]] /\ P = [i \in 1..Len(P) |-> P[i]]
  BY <1>1
<1> QED
  BY <1>1, <1>2 DEF Begins

LEMMA AlongStart == ASSUME NEW P \in Seq(Provider) PROVE Along(<<>>, P, P)
  BY DEF Along

\* What a request for text brings.
LEMMA RequestedText ==
    ASSUME request \in Requests, request.via = "text"
    PROVE  /\ request.admission \in Admission(Provider)
           /\ request.providers \in Seq(Provider)
           /\ request.facts \in Companyfacts \cup {None}
           /\ Permitted \in Seq(Provider)
<1>1. request \in TextRequest
  BY AssuranceAssumption DEF TextRequest, SecRequest, LogicRequest
<1>2. /\ request.admission \in Admission(Provider)
      /\ request.providers \in Seq(Provider)
      /\ request.facts \in Companyfacts \cup {None}
  BY <1>1 DEF TextRequest
<1>3. Permitted \in Seq(Provider)
  BY <1>2, ChainFacts DEF Permitted, WithinDecision
<1> QED
  BY <1>2, <1>3

LEMMA EgressInvKeeps == ASSUME ReviewInv, TypeOK, EgressInv, [Next]_vars PROVE EgressInv'
<1>1. request' = request
  BY DEF Next, Work, vars, Admit, Contact, ProposeText, BeginSec, ResolveTicker, FetchFacts,
         ProposeSec, BeginLogic, Certify, EnforceClaim, Alter
<1>2. Permitted' = Permitted
  BY <1>1 DEF Permitted
<1>3. CASE Admit
  <2>1. /\ pc = "begin" /\ request.via = "text" /\ chain' = Permitted /\ sent' = sent
        /\ reply' = reply
        /\ pc' = IF chain' = <<>> THEN "propose" ELSE "call"
    BY <1>3 DEF Admit, Permitted
  <2>2. sent' = <<>> /\ reply' = NoReply
    BY <2>1 DEF EgressInv
  <2>3. Permitted \in Seq(Provider)
    BY <2>1, RequestedText DEF ReviewInv
  <2>4. Along(sent', chain', Permitted)
    BY <2>1, <2>2, <2>3, AlongStart
  <2>5. chain' = <<>> => sent' = Permitted /\ Begins(sent', Permitted)
    BY <2>3, <2>4, AlongEnds
  <2> QED
    BY <1>1, <1>2, <2>1, <2>2, <2>4, <2>5 DEF EgressInv
<1>4. CASE Contact
  <2>1. /\ pc = "call" /\ request.via = "text" /\ chain # <<>>
        /\ Along(sent, chain, Permitted)
    BY <1>4 DEF Contact, EgressInv, TypeOK
  <2>2. Permitted \in Seq(Provider)
    BY <2>1, RequestedText DEF ReviewInv
  <2>3. /\ sent' = Append(sent, Head(chain))
        /\ pc' = IF chain' = <<>> THEN "propose" ELSE "call"
    BY <1>4 DEF Contact
  <2>4. Along(sent', Tail(chain), Permitted) /\ Begins(sent', Permitted)
    BY <2>1, <2>2, <2>3, AlongStep
  <2>5. CASE reply' \in Replies /\ chain' = <<>>
    <3>1. reply' # NoReply
      BY <2>5, AssuranceAssumption
    <3> QED
      BY <1>1, <1>2, <2>1, <2>3, <2>4, <2>5, <3>1 DEF EgressInv
  <2>6. CASE reply' = NoReply /\ chain' = Tail(chain)
    <3>1. chain' = <<>> => sent' = Permitted
      BY <2>2, <2>4, <2>6, AlongEnds
    <3> QED
      BY <1>1, <1>2, <2>1, <2>3, <2>4, <2>6, <3>1 DEF EgressInv
  <2> QED
    BY <1>4, <2>5, <2>6 DEF Contact, AfterAnswer
<1>5. CASE pc \notin {"begin", "call"} /\ pc' \notin {"begin", "call"}
           /\ sent' = sent /\ reply' = reply /\ chain' = chain
  BY <1>1, <1>2, <1>5 DEF EgressInv
<1>6. CASE BeginSec \/ BeginLogic
  <2>1. /\ pc = "begin" /\ request.via # "text" /\ pc' # "call"
        /\ sent' = sent /\ reply' = reply /\ chain' = chain
    BY <1>6 DEF BeginSec, BeginLogic
  <2> QED
    BY <1>1, <2>1 DEF EgressInv
<1>7. CASE UNCHANGED vars
  BY <1>2, <1>7 DEF EgressInv, vars
<1>8. CASE ProposeText \/ ResolveTicker \/ FetchFacts \/ ProposeSec \/ Certify \/ EnforceClaim
           \/ Alter
  BY <1>5, <1>8 DEF ProposeText, ResolveTicker, FetchFacts, ProposeSec, Certify, EnforceClaim,
                    Alter
<1> QED
  BY <1>3, <1>4, <1>6, <1>7, <1>8 DEF Next, Work

\* What a request for a figure brings.
LEMMA RequestedSec ==
    ASSUME request \in Requests, request.via = "sec"
    PROVE  request.figure \in Figure /\ request.facts \in Companyfacts \cup {None}
<1>1. request \in SecRequest
  BY AssuranceAssumption DEF TextRequest, SecRequest, LogicRequest
<1> QED
  BY <1>1 DEF SecRequest

LEMMA TypeKeeps ==
    ASSUME TextInv, ReviewInv, TypeOK, ReviewInv', TextInv', [Next]_vars
    PROVE  TypeOK'
<1>1. CASE UNCHANGED vars
  BY <1>1 DEF TypeOK, vars
<1>2. CASE Admit
  <2>1. request.via = "text" /\ chain' = Permitted /\ facts' = request.facts
    BY <1>2 DEF Admit, Permitted
  <2>2. chain' \in Seq(Provider) /\ facts' \in Companyfacts \cup {None}
    BY <2>1, RequestedText DEF ReviewInv
  <2> QED
    BY <1>2, <2>2 DEF TypeOK, Admit
<1>3. CASE Contact
  <2>1. chain \in Seq(Provider) /\ chain # <<>> /\ sent \in Seq(Provider)
    BY <1>3 DEF TypeOK, Contact
  <2>2. Head(chain) \in Provider /\ Tail(chain) \in Seq(Provider) /\ <<>> \in Seq(Provider)
    BY <2>1
  <2>3. sent' = Append(sent, Head(chain)) /\ chain' \in {<<>>, Tail(chain)}
    BY <1>3 DEF Contact, AfterAnswer
  <2>4. Append(sent, Head(chain)) \in Seq(Provider)
    BY <2>1, <2>2
  <2>5. sent' \in Seq(Provider) /\ chain' \in Seq(Provider)
    BY <2>2, <2>3, <2>4
  <2> QED
    BY <1>3, <2>5 DEF TypeOK, Contact
<1>4. CASE ProposeText
  BY <1>4, LLMHasNoProof DEF TypeOK, ProposeText, Unreviewed
<1>5. CASE BeginSec
  <2>1. cik' \in Nat \cup {None} /\ facts' \in Companyfacts \cup {None}
    BY <1>5, RequestedSec DEF BeginSec, ReviewInv, Figure
  <2>2. pc' \in {"propose", "fetch", "resolve"}
    BY <1>5 DEF BeginSec
  <2> QED
    BY <1>5, <2>1, <2>2 DEF TypeOK, BeginSec
<1>6. CASE ResolveTicker
  BY <1>6, AssuranceAssumption DEF TypeOK, ResolveTicker
<1>7. CASE FetchFacts
  BY <1>7, AssuranceAssumption DEF TypeOK, FetchFacts
<1>8. CASE ProposeSec
  <2>1. pc' \in {"certify", "raised"}
    BY <1>8 DEF ProposeSec
  <2>2. proposal' = proposal \/ proposal'.advisories \in Seq(Severity)
    <3>1. \A f, p : ProposeFinancial(f, p, <<>>).advisories \in Seq(Severity)
      BY LiteralAdvisories, FinancialAdvisories
    <3> QED
      BY <1>8, <3>1 DEF ProposeSec
  <2> QED
    BY <1>8, <2>1, <2>2 DEF TypeOK, ProposeSec
<1>9. CASE BeginLogic
  <2>1. ProposeLogic(request.reviewed).advisories \in Seq(Severity)
    BY LogicAdvisories
  <2> QED
    BY <1>9, <2>1 DEF TypeOK, BeginLogic
<1>10. CASE Certify
  <2>1. cert'.status \in Status
    BY DEF ReviewInv, CertifiedAsReviewed, Status
  <2> QED
    BY <1>10, <2>1 DEF TypeOK, Certify
<1>11. CASE EnforceClaim
  <2>1. outcome' \in Rulings
    BY <1>11, EnforceFacts DEF TypeOK, EnforceClaim
  <2>2. DOMAIN receipt' = {"content", "hash", "signatures"}
    BY <1>11 DEF EnforceClaim, Receipt
  <2> QED
    BY <1>11, <2>1, <2>2 DEF TypeOK, EnforceClaim
<1>12. CASE Alter
  <2>1. DOMAIN receipt' = DOMAIN receipt
    BY <1>12 DEF Alter
  <2> QED
    BY <1>12, <2>1 DEF TypeOK, Alter
<1> QED
  BY <1>1, <1>2, <1>3, <1>4, <1>5, <1>6, <1>7, <1>8, <1>9, <1>10, <1>11, <1>12 DEF Next, Work

LEMMA Invariance == Spec => []IInv
<1>1. IInv /\ [Next]_vars => IInv'
  BY TextInvKeeps, ReviewInvKeeps, TypeKeeps, EgressInvKeeps DEF IInv
<1> QED
  BY <1>1, InitIInv, PTL DEF Spec
-----------------------------------------------------------------------------
(* Theorems *)

\* The LLM cannot mint a status or raise a release, whatever it answers and
\* whatever is on record.
THEOREM TextStaysUnreleased == Spec => []TextIsNeverReleased
<1>1. IInv => TextIsNeverReleased
  BY DEF IInv, TextInv, TextIsUnproved, TextIsNeverReleased
<1> QED
  BY <1>1, Invariance, PTL

\* After any number of alterations, a receipt that verifies with a key says
\* what the engine decided.
THEOREM AlterationShows == Spec => []ReceiptShowsAlteration
<1>1. IInv => ReceiptShowsAlteration
  <2>1. ASSUME IInv, pc = "done", NEW key \in Key, NEW required,
               VerifyReceipt(receipt, key, required, None)
        PROVE  receipt.content = issued
    <3>1. receipt.hash = receipt.content /\ <<key, receipt.hash>> \in receipt.signatures
      BY <2>1, AssuranceAssumption DEF VerifyReceipt
    <3>2. receipt.signatures \subseteq Key \X {issued}
      BY <2>1 DEF IInv, TextInv, SignedAsIssued
    <3> QED
      BY <3>1, <3>2
  <2>2. ~ VerifyReceipt(receipt, None, TRUE, None)
    BY DEF VerifyReceipt
  <2> QED
    BY <2>1, <2>2 DEF ReceiptShowsAlteration
<1> QED
  BY <1>1, Invariance, PTL
\* A definitive status, and any release, rests on a review of the very claim
\* and, for a figure, on a trusted record of the very company, in which a
\* verified figure is found; the decision is the one of the status.
THEOREM DefinitiveNeedsReview == Spec => []DefinitiveIsReviewed
<1>1. IInv => DefinitiveIsReviewed
  <2> SUFFICES ASSUME IInv, pc = "done",
                      cert.status \in {"VERIFIED", "REFUTED"} \/ outcome.decision \in Released
               PROVE  /\ outcome.decision = IF cert.status = "VERIFIED" THEN "ALLOW" ELSE "REFUSE"
                      /\ Established
    BY DEF DefinitiveIsReviewed, Established
  <2>1. /\ outcome = Enforce(cert, proposal.advisories)
        /\ cert.status \in {"UNVERIFIED", "CONTESTED", "VERIFIED", "REFUTED"}
        /\ cert.status \in {"VERIFIED", "REFUTED"} => cert.definitive /\ Established
        /\ ~ cert.modelDerived
    BY DEF IInv, ReviewInv, CertifiedAsReviewed, DecidedAsCertified
  <2>2. proposal.advisories \in Seq(Severity)
    BY AdvisoriesAreSeverities DEF IInv
  <2>3. cert.status \in {"VERIFIED", "REFUTED"}
    <3>1. cert.status \in Status
      BY <2>1 DEF Status
    <3> QED
      BY <2>1, <2>2, <3>1, EnforceFacts
  <2>4. cert.definitive /\ Established
    BY <2>1, <2>3
  <2>5. cert.status = "VERIFIED" => proposal.advisories = <<>>
    BY <2>4 DEF Established
  <2> QED
    BY <2>1, <2>2, <2>3, <2>4, <2>5, EnforceDefinitive
<1> QED
  BY <1>1, Invariance, PTL

\* Which providers see the prompt: allowed ones, in the order of preference,
\* none after an answer, a second one only with the permission to fall back,
\* and with it all of them before the call is given up.
THEOREM EgressIsContained == Spec => []EgressWithinDecision
<1>1. IInv => EgressWithinDecision
  <2> SUFFICES ASSUME IInv, request.via = "text"
               PROVE  /\ \A i \in DOMAIN sent : sent[i] \in request.admission.allowed
                      /\ \A i, j \in DOMAIN sent : i < j =>
                           \E k, l \in DOMAIN request.providers :
                             /\ k < l
                             /\ request.providers[k] = sent[i]
                             /\ request.providers[l] = sent[j]
                      /\ ~ MayFallBack => Len(sent) <= 1
                      /\ pc \in {"propose", "certify", "enforce", "done"} /\ reply = NoReply
                           /\ MayFallBack =>
                           \A i \in DOMAIN request.providers :
                             request.providers[i] \in request.admission.allowed =>
                               \E j \in DOMAIN sent : sent[j] = request.providers[i]
    BY DEF IInv, EgressInv, EgressWithinDecision
  <2> DEFINE list == request.providers
             allowed == request.admission.allowed
             decision == GatewayDecision(request.admission)
  <2>1. /\ request.admission \in Admission(Provider) /\ list \in Seq(Provider)
        /\ Permitted \in Seq(Provider)
    BY RequestedText DEF IInv, ReviewInv
  <2>2. decision.allowed = allowed /\ (decision.fallback <=> MayFallBack)
    BY <2>1 DEF GatewayDecision, Admission, MayFallBack
  <2>3. DOMAIN list = 1..Len(list)
    BY <2>1
  <2>4. /\ \A j \in 1..Len(Permitted) : Permitted[j] \in allowed
        /\ \A j, h \in 1..Len(Permitted) : j < h =>
             \E k, l \in 1..Len(list) : k < l /\ list[k] = Permitted[j] /\ list[l] = Permitted[h]
        /\ ~ MayFallBack => Len(Permitted) <= 1
        /\ MayFallBack =>
             \A k \in 1..Len(list) : list[k] \in allowed =>
               \E j \in 1..Len(Permitted) : Permitted[j] = list[k]
    <3>1. CASE Admitted(request.admission)
      <4>1. Permitted = Chain(decision, list)
        BY <3>1 DEF Permitted
      <4> HIDE DEF decision, list, allowed
      <4>2. WithinDecision(Permitted, decision, list)
        BY <2>1, <4>1, ChainFacts
      <4> QED
        BY <2>2, <4>2 DEF WithinDecision
    <3>2. CASE ~ Admitted(request.admission)
      <4>1. Permitted = <<>> /\ allowed = {}
        BY <3>2 DEF Permitted, Admitted
      <4> QED
        BY <4>1
    <3> QED
      BY <3>1, <3>2
  <2>5. /\ Begins(sent, Permitted)
        /\ pc \notin {"begin", "call"} /\ reply = NoReply => sent = Permitted
    <3>1. CASE pc = "begin"
      BY <2>1, <3>1 DEF IInv, EgressInv, Begins
    <3>2. CASE pc = "call"
      <4>1. Along(sent, chain, Permitted)
        BY <3>2 DEF IInv, EgressInv
      <4>2. Len(sent) \in Nat /\ Len(chain) \in Nat /\ Len(sent) + Len(chain) = Len(Permitted)
        BY <4>1 DEF Along
      <4> QED
        BY <3>2, <4>1, <4>2 DEF Along, Begins
    <3>3. CASE pc \notin {"begin", "call"}
      BY <3>3 DEF IInv, EgressInv
    <3> QED
      BY <3>1, <3>2, <3>3
  <2>6. /\ DOMAIN sent = 1..Len(sent) /\ Len(sent) \in Nat /\ Len(Permitted) \in Nat
        /\ Len(sent) <= Len(Permitted)
        /\ \A i \in 1..Len(sent) : i \in 1..Len(Permitted) /\ sent[i] = Permitted[i]
    BY <2>1, <2>5 DEF Begins
  <2> HIDE DEF list, allowed
  <2>7. \A i \in DOMAIN sent : sent[i] \in allowed
    BY <2>4, <2>6
  <2>8. \A i, j \in DOMAIN sent : i < j =>
          \E k, l \in DOMAIN list : k < l /\ list[k] = sent[i] /\ list[l] = sent[j]
    <3> SUFFICES ASSUME NEW i \in DOMAIN sent, NEW j \in DOMAIN sent, i < j
                 PROVE  \E k, l \in DOMAIN list : k < l /\ list[k] = sent[i] /\ list[l] = sent[j]
      OBVIOUS
    <3>1. /\ i \in 1..Len(Permitted) /\ sent[i] = Permitted[i]
          /\ j \in 1..Len(Permitted) /\ sent[j] = Permitted[j]
      BY <2>6
    <3>2. PICK k \in 1..Len(list), l \in 1..Len(list) :
            k < l /\ list[k] = Permitted[i] /\ list[l] = Permitted[j]
      BY <2>4, <3>1
    <3> QED
      BY <2>3, <3>1, <3>2
  <2>9. ~ MayFallBack => Len(sent) <= 1
    BY <2>4, <2>6
  <2>10. pc \in {"propose", "certify", "enforce", "done"} /\ reply = NoReply /\ MayFallBack =>
           \A i \in DOMAIN list : list[i] \in allowed =>
             \E j \in DOMAIN sent : sent[j] = list[i]
    <3> SUFFICES ASSUME pc \in {"propose", "certify", "enforce", "done"}, reply = NoReply,
                        MayFallBack, NEW i \in DOMAIN list, list[i] \in allowed
                 PROVE  \E j \in DOMAIN sent : sent[j] = list[i]
      OBVIOUS
    <3>1. sent = Permitted
      BY <2>5
    <3>2. PICK j \in 1..Len(Permitted) : Permitted[j] = list[i]
      BY <2>3, <2>4
    <3> QED
      BY <2>6, <3>1, <3>2
  <2> QED
    BY <2>7, <2>8, <2>9, <2>10 DEF list, allowed
<1> QED
  BY <1>1, Invariance, PTL

-----------------------------------------------------------------------------
(* A company's filings: what the record holds *)

Of(S, accession) == {x \in S : x.accession = accession}

Covered(year, coverage) == {y \in Years : year - y \in coverage}

IsAnnual(a, year, R, P) ==
    \E coverage \in Coverages :
        /\ Covered(year, coverage) # {}
        /\ \E value \in [Covered(year, coverage) -> Amounts] :
             /\ R = {Row(a, year, y, FALSE, FullTag, value[y]) : y \in Covered(year, coverage)}
             /\ P = {ReportOf(a, year, y, "FY", FullTag, value[y]) : y \in Covered(year, coverage)}

IsAmendment(a, year, R, P) ==
    \E tag \in Tags, value \in Amounts :
        /\ R = {Row(a, year, year, TRUE, tag, value)}
        /\ P = {ReportOf(a, year, year, "FY", tag, value)}

IsQuarter(a, year, R, P) ==
    \E value \in Amounts :
        /\ R = {[Row(a, year, year, FALSE, FullTag, value) EXCEPT
                   !.fp = "Q4", !.start = calendar[year].end - 91]}
        /\ P = {ReportOf(a, year, year, "Q4", FullTag, value)}

\* R and P are the rows and the reports of a filing for the year.
IsFiling(a, year, R, P) ==
    \/ IsAnnual(a, year, R, P)
    \/ IsAmendment(a, year, R, P)
    \/ IsQuarter(a, year, R, P)

Numbered ==
    /\ IsFiniteSet(rows) /\ rows \subseteq SecFact
    /\ IsFiniteSet(reports) /\ reports \subseteq Report
    /\ {f.accession : f \in rows} = 1..(Accession - 1)
    /\ {r.accession : r \in reports} = 1..(Accession - 1)

\* The record is that of the filings made, of which every year filed has an
\* annual report.
FilingsInv ==
    /\ calendar \in Calendars
    /\ filed \subseteq Years
    /\ Numbered
    /\ \A a \in 1..(Accession - 1) :
         \E year \in filed : IsFiling(a, year, Of(rows, a), Of(reports, a))
    /\ \A year \in filed :
         \E a \in 1..(Accession - 1) : IsAnnual(a, year, Of(rows, a), Of(reports, a))
    /\ answers = AnswersOn(rows)

LEMMA FullTagTyped == FullTag \in Tag
  BY DEF FullTag, Tag

LEMMA CalendarFacts ==
    ASSUME calendar \in Calendars, NEW y \in Years
    PROVE  calendar[y].start \in Int /\ calendar[y].end \in Int /\ y \in Nat
  BY FilingsAssumption

LEMMA RowTyped ==
    ASSUME calendar \in Calendars, NEW a \in Nat, NEW year \in Years, NEW y \in Years,
           NEW amended \in BOOLEAN, NEW tag \in Tag, NEW v \in Int
    PROVE  Row(a, year, y, amended, tag, v) \in SecFact
<1>1. calendar[y].start \in Int /\ calendar[y].end \in Int /\ year \in Int
  BY CalendarFacts
<1>2. "FY" \in FiscalPeriod
  BY DEF FiscalPeriod
<1>3. tag.end = "date" \/ tag.end \in {None} \cup Unreadable
  BY DEF Tag
<1>4. (IF tag.end = "date" THEN calendar[y].end ELSE tag.end) \in Int \cup {None} \cup Unreadable
  BY <1>1, <1>3
<1>5. (IF tag.end = "date" THEN calendar[y].start ELSE None) \in Int \cup {None}
  BY <1>1
<1> QED
  BY <1>1, <1>2, <1>4, <1>5 DEF Row, SecFact

LEMMA ReportTyped ==
    ASSUME NEW a \in Nat, NEW year \in Years, NEW y \in Years, NEW fp \in FiscalPeriod,
           NEW tag \in Tag, NEW v \in Int
    PROVE  ReportOf(a, year, y, fp, tag, v) \in Report
  BY DEF ReportOf, Report

\* The years a filing covers are finitely many.
LEMMA CoveredFacts ==
    ASSUME NEW year \in Years, NEW coverage \in Coverages
    PROVE  /\ IsFiniteSet(Covered(year, coverage))
           /\ Covered(year, coverage) \subseteq Years
           /\ \A y \in Covered(year, coverage) : y <= year /\ y \in Nat /\ year - y \in coverage
<1>1. Years \subseteq Nat /\ coverage \subseteq Nat
  BY FilingsAssumption
<1>2. \A y \in Covered(year, coverage) : y \in 0..year
  BY <1>1 DEF Covered
<1>3. IsFiniteSet(0..year)
  BY <1>1, FS_Interval
<1>4. IsFiniteSet(Covered(year, coverage))
  BY <1>2, <1>3, FS_Subset
<1> QED
  BY <1>1, <1>2, <1>4 DEF Covered

\* What a filing consists of.
LEMMA FilingFacts ==
    ASSUME calendar \in Calendars, NEW a \in Nat, NEW year \in Years, NEW R, NEW P,
           IsFiling(a, year, R, P)
    PROVE  /\ IsFiniteSet(R) /\ R # {} /\ R \subseteq SecFact
           /\ IsFiniteSet(P) /\ P # {} /\ P \subseteq Report
           /\ \A f \in R : f.accession = a
           /\ \A r \in P : r.accession = a
<1>0. Amounts \subseteq Int /\ Tags \subseteq Tag
  BY FilingsAssumption
<1>1. CASE IsAnnual(a, year, R, P)
  <2>1. PICK coverage \in Coverages :
          /\ Covered(year, coverage) # {}
          /\ \E value \in [Covered(year, coverage) -> Amounts] :
             /\ R = {Row(a, year, y, FALSE, FullTag, value[y]) : y \in Covered(year, coverage)}
             /\ P = {ReportOf(a, year, y, "FY", FullTag, value[y]) : y \in Covered(year, coverage)}
    BY <1>1 DEF IsAnnual
  <2> DEFINE C == Covered(year, coverage)
  <2>2. PICK value \in [C -> Amounts] :
             /\ R = {Row(a, year, y, FALSE, FullTag, value[y]) : y \in C}
             /\ P = {ReportOf(a, year, y, "FY", FullTag, value[y]) : y \in C}
    BY <2>1
  <2>3. C # {} /\ C \subseteq Years /\ IsFiniteSet(C)
    BY <2>1, CoveredFacts
  <2> HIDE DEF C
  <2>4. IsFiniteSet(R) /\ IsFiniteSet(P)
    <3> DEFINE f == [y \in C |-> Row(a, year, y, FALSE, FullTag, value[y])]
               g == [y \in C |-> ReportOf(a, year, y, "FY", FullTag, value[y])]
    <3>1. f \in Surjection(C, R) /\ g \in Surjection(C, P)
      BY <2>2 DEF Surjection
    <3> HIDE DEF f, g
    <3> QED
      BY <2>3, <3>1, FS_Surjection
  <2>5. R # {} /\ P # {}
    BY <2>2, <2>3
  <2>6. ASSUME NEW y \in C
        PROVE  /\ Row(a, year, y, FALSE, FullTag, value[y]) \in SecFact
               /\ ReportOf(a, year, y, "FY", FullTag, value[y]) \in Report
               /\ Row(a, year, y, FALSE, FullTag, value[y]).accession = a
               /\ ReportOf(a, year, y, "FY", FullTag, value[y]).accession = a
    <3>1. y \in Years /\ value[y] \in Int /\ "FY" \in FiscalPeriod
      BY <1>0, <2>2, <2>3 DEF FiscalPeriod
    <3>2. Row(a, year, y, FALSE, FullTag, value[y]) \in SecFact
      BY <3>1, FullTagTyped, RowTyped
    <3>3. ReportOf(a, year, y, "FY", FullTag, value[y]) \in Report
      BY <3>1, FullTagTyped, ReportTyped
    <3>4. Row(a, year, y, FALSE, FullTag, value[y]).accession = a
      BY DEF Row
    <3>5. ReportOf(a, year, y, "FY", FullTag, value[y]).accession = a
      BY DEF ReportOf
    <3> QED
      BY <3>2, <3>3, <3>4, <3>5
  <2> QED
    BY <2>2, <2>4, <2>5, <2>6
<1>2. CASE IsAmendment(a, year, R, P)
  <2>1. PICK tag \in Tags, v \in Amounts :
        /\ R = {Row(a, year, year, TRUE, tag, v)}
        /\ P = {ReportOf(a, year, year, "FY", tag, v)}
    BY <1>2 DEF IsAmendment
  <2>2. v \in Int /\ "FY" \in FiscalPeriod /\ tag \in Tag
    BY <1>0, <2>1 DEF FiscalPeriod
  <2>3. Row(a, year, year, TRUE, tag, v) \in SecFact
    BY <2>2, RowTyped
  <2>4. ReportOf(a, year, year, "FY", tag, v) \in Report
    BY <2>2, ReportTyped
  <2>5. Row(a, year, year, TRUE, tag, v).accession = a
    BY DEF Row
  <2>6. ReportOf(a, year, year, "FY", tag, v).accession = a
    BY DEF ReportOf
  <2>7. IsFiniteSet(R) /\ IsFiniteSet(P)
    BY <2>1, FS_Singleton
  <2> QED
    BY <2>1, <2>3, <2>4, <2>5, <2>6, <2>7
<1>3. CASE IsQuarter(a, year, R, P)
  <2>1. PICK v \in Amounts :
        /\ R = {[Row(a, year, year, FALSE, FullTag, v) EXCEPT
                   !.fp = "Q4", !.start = calendar[year].end - 91]}
        /\ P = {ReportOf(a, year, year, "Q4", FullTag, v)}
    BY <1>3 DEF IsQuarter
  <2> DEFINE f == Row(a, year, year, FALSE, FullTag, v)
             q == [f EXCEPT !.fp = "Q4", !.start = calendar[year].end - 91]
  <2>2. v \in Int /\ "Q4" \in FiscalPeriod /\ calendar[year].end - 91 \in Int
    BY <1>0, <2>1, CalendarFacts DEF FiscalPeriod
  <2>3. f \in SecFact
    BY <2>2, FullTagTyped, RowTyped
  <2>4. ReportOf(a, year, year, "Q4", FullTag, v) \in Report
    BY <2>2, FullTagTyped, ReportTyped
  <2>5. f.accession = a
    BY DEF Row
  <2>6. ReportOf(a, year, year, "Q4", FullTag, v).accession = a
    BY DEF ReportOf
  <2>7. IsFiniteSet(R) /\ IsFiniteSet(P)
    BY <2>1, FS_Singleton
  <2> HIDE DEF f
  <2>8. q \in SecFact /\ q.accession = a
    BY <2>2, <2>3, <2>5 DEF SecFact
  <2> QED
    BY <2>1, <2>4, <2>6, <2>7, <2>8 DEF f
<1> QED
  BY <1>1, <1>2, <1>3 DEF IsFiling

\* A step files as the next accession one of these.
LEMMA StepFiles ==
    ASSUME FilingsInv, FilingsNext
    PROVE  \E year \in filed' \cap Years : \E R, P :
             /\ File(R, P) /\ IsFiling(Accession, year, R, P)
             /\ \/ filed' = filed
                \/ /\ filed' = filed \cup {year} /\ IsAnnual(Accession, year, R, P)
                   /\ \A y \in filed : y < year
<1>1. PICK year \in Years :
        \/ \E coverage \in Coverages : FileAnnual(year, coverage)
        \/ \E tag \in Tags, value \in Amounts : FileAmendment(year, tag, value)
        \/ \E value \in Amounts : FileQuarter(year, value)
  BY DEF FilingsNext
<1>2. ASSUME NEW coverage \in Coverages, FileAnnual(year, coverage)
      PROVE  \E R, P : /\ File(R, P) /\ IsAnnual(Accession, year, R, P)
                       /\ filed' = filed \cup {year} /\ \A y \in filed : y < year
  <2> DEFINE C == Covered(year, coverage)
  <2>1. PICK value \in [C -> Amounts] :
          File({Row(Accession, year, y, FALSE, FullTag, value[y]) : y \in C},
               {ReportOf(Accession, year, y, "FY", FullTag, value[y]) : y \in C})
    BY <1>2 DEF FileAnnual, Covered
  <2>2. C # {} /\ filed' = filed \cup {year} /\ \A y \in filed : y < year
    BY <1>2 DEF FileAnnual, Covered
  <2>3. IsAnnual(Accession, year,
          {Row(Accession, year, y, FALSE, FullTag, value[y]) : y \in C},
          {ReportOf(Accession, year, y, "FY", FullTag, value[y]) : y \in C})
    BY <2>1, <2>2 DEF IsAnnual
  <2> QED
    BY <2>1, <2>2, <2>3
<1>3. ASSUME NEW tag \in Tags, NEW value \in Amounts, FileAmendment(year, tag, value)
      PROVE  /\ \E R, P : File(R, P) /\ IsAmendment(Accession, year, R, P)
             /\ filed' = filed /\ year \in filed
  <2>1. IsAmendment(Accession, year, {Row(Accession, year, year, TRUE, tag, value)},
                    {ReportOf(Accession, year, year, "FY", tag, value)})
    BY DEF IsAmendment
  <2> QED
    BY <1>3, <2>1 DEF FileAmendment
<1>4. ASSUME NEW value \in Amounts, FileQuarter(year, value)
      PROVE  /\ \E R, P : File(R, P) /\ IsQuarter(Accession, year, R, P)
             /\ filed' = filed /\ year \in filed
  <2>1. IsQuarter(Accession, year,
          {[Row(Accession, year, year, FALSE, FullTag, value) EXCEPT
              !.fp = "Q4", !.start = calendar[year].end - 91]},
          {ReportOf(Accession, year, year, "Q4", FullTag, value)})
    BY DEF IsQuarter
  <2> QED
    BY <1>4, <2>1 DEF FileQuarter
<1>5. CASE \E coverage \in Coverages : FileAnnual(year, coverage)
  BY <1>2, <1>5 DEF IsFiling
<1>6. CASE \E tag \in Tags, value \in Amounts : FileAmendment(year, tag, value)
  BY <1>3, <1>6 DEF IsFiling
<1>7. CASE \E value \in Amounts : FileQuarter(year, value)
  BY <1>4, <1>7 DEF IsFiling
<1> QED
  BY <1>1, <1>5, <1>6, <1>7

LEMMA FilingsInvInit == FilingsInit => FilingsInv
<1> SUFFICES ASSUME FilingsInit
             PROVE  FilingsInv
  OBVIOUS
<1>1. {r.accession : r \in reports} = {} /\ {f.accession : f \in rows} = {}
  BY DEF FilingsInit
<1>2. Accession = 1
  BY <1>1, FS_EmptySet DEF Accession
<1>3. Numbered
  BY <1>1, <1>2, FS_EmptySet DEF Numbered, FilingsInit
<1> QED
  BY <1>2, <1>3 DEF FilingsInv, FilingsInit

LEMMA AccessionFacts ==
    ASSUME FilingsInv
    PROVE  Accession \in Nat /\ Accession >= 1
<1>1. IsFiniteSet({r.accession : r \in reports})
  <2> DEFINE f == [r \in reports |-> r.accession]
  <2>1. f \in Surjection(reports, {r.accession : r \in reports})
    BY DEF Surjection
  <2> HIDE DEF f
  <2>2. IsFiniteSet(reports)
    BY DEF FilingsInv, Numbered
  <2> QED
    BY <2>1, <2>2, FS_Surjection
<1> QED
  BY <1>1, FS_CardinalityType DEF Accession

\* The next filing takes the next number and leaves the others as they are.
LEMMA FileAdds ==
    ASSUME FilingsInv, NEW R, NEW P, NEW year \in Years, File(R, P),
           IsFiling(Accession, year, R, P)
    PROVE  /\ Numbered'
           /\ Accession' = Accession + 1
           /\ rows' = rows \cup R /\ reports' = reports \cup P
           /\ calendar' = calendar
           /\ \A a \in 1..(Accession - 1) : Of(rows', a) = Of(rows, a) /\ Of(reports', a) = Of(reports, a)
           /\ Of(rows', Accession) = R /\ Of(reports', Accession) = P
<1> DEFINE N == Accession - 1
<1>1. Accession \in Nat /\ N \in Nat /\ Accession = N + 1
  BY AccessionFacts
<1>2. /\ IsFiniteSet(R) /\ R # {} /\ R \subseteq SecFact
      /\ IsFiniteSet(P) /\ P # {} /\ P \subseteq Report
      /\ \A f \in R : f.accession = Accession
      /\ \A r \in P : r.accession = Accession
  BY <1>1, FilingFacts DEF FilingsInv
<1>3. rows' = rows \cup R /\ reports' = reports \cup P /\ calendar' = calendar
  BY DEF File
<1>4. /\ IsFiniteSet(rows) /\ rows \subseteq SecFact
      /\ IsFiniteSet(reports) /\ reports \subseteq Report
      /\ {f.accession : f \in rows} = 1..N
      /\ {r.accession : r \in reports} = 1..N
  BY DEF FilingsInv, Numbered
<1>5. /\ \A f \in rows : f.accession \in 1..N
      /\ \A r \in reports : r.accession \in 1..N
  BY <1>4
<1> HIDE DEF N
<1>6. /\ {f.accession : f \in rows'} = 1..(N + 1)
      /\ {r.accession : r \in reports'} = 1..(N + 1)
  <2>1. 1..(N + 1) = (1..N) \cup {N + 1}
    BY <1>1
  <2>2. {f.accession : f \in rows'} = {f.accession : f \in rows} \cup {Accession}
    BY <1>2, <1>3
  <2>3. {r.accession : r \in reports'} = {r.accession : r \in reports} \cup {Accession}
    BY <1>2, <1>3
  <2> QED
    BY <1>1, <1>4, <2>1, <2>2, <2>3
<1>7. Accession' = Accession + 1
  <2>1. Cardinality(1..(N + 1)) = N + 1
    BY <1>1, FS_Interval
  <2>2. Accession' = Cardinality({r.accession : r \in reports'}) + 1
    BY DEF Accession
  <2> QED
    BY <1>1, <1>6, <2>1, <2>2
<1>8. IsFiniteSet(rows') /\ IsFiniteSet(reports') /\ rows' \subseteq SecFact /\ reports' \subseteq Report
  BY <1>2, <1>3, <1>4, FS_Union
<1>9. Numbered'
  BY <1>1, <1>6, <1>7, <1>8 DEF Numbered
<1>10. \A a \in 1..N : Of(rows', a) = Of(rows, a) /\ Of(reports', a) = Of(reports, a)
  <2>1. \A a \in 1..N : a # Accession
    BY <1>1
  <2> QED
    BY <1>2, <1>3, <2>1 DEF Of
<1>11. Of(rows', Accession) = R /\ Of(reports', Accession) = P
  <2>1. Accession \notin 1..N
    BY <1>1
  <2> QED
    BY <1>2, <1>3, <1>5, <2>1 DEF Of
<1> QED
  BY <1>3, <1>7, <1>9, <1>10, <1>11 DEF N

\* What a filing says does not depend on the others.
LEMMA FilingStays ==
    ASSUME NEW a, NEW year, NEW R, NEW P, calendar' = calendar
    PROVE  /\ IsFiling(a, year, R, P) => IsFiling(a, year, R, P)'
           /\ IsAnnual(a, year, R, P) => IsAnnual(a, year, R, P)'
<1>1. IsAnnual(a, year, R, P) => IsAnnual(a, year, R, P)'
  BY DEF IsAnnual, Row, ReportOf
<1>2. IsAmendment(a, year, R, P) => IsAmendment(a, year, R, P)'
  BY DEF IsAmendment, Row, ReportOf
<1>3. IsQuarter(a, year, R, P) => IsQuarter(a, year, R, P)'
  BY DEF IsQuarter, Row, ReportOf
<1> QED
  BY <1>1, <1>2, <1>3 DEF IsFiling

LEMMA FileKeeps ==
    ASSUME FilingsInv, NEW R, NEW P, NEW year \in Years, File(R, P),
           IsFiling(Accession, year, R, P),
           \/ filed' = filed /\ year \in filed
           \/ filed' = filed \cup {year} /\ IsAnnual(Accession, year, R, P)
    PROVE  FilingsInv'
<1>1. /\ Accession \in Nat /\ Accession >= 1
      /\ Numbered'
      /\ Accession' = Accession + 1
      /\ calendar' = calendar
      /\ \A a \in 1..(Accession - 1) : Of(rows', a) = Of(rows, a) /\ Of(reports', a) = Of(reports, a)
      /\ Of(rows', Accession) = R /\ Of(reports', Accession) = P
  BY AccessionFacts, FileAdds
<1>2. /\ calendar \in Calendars
      /\ filed \subseteq Years
      /\ \A a \in 1..(Accession - 1) :
           \E y \in filed : IsFiling(a, y, Of(rows, a), Of(reports, a))
      /\ \A y \in filed :
           \E a \in 1..(Accession - 1) : IsAnnual(a, y, Of(rows, a), Of(reports, a))
  BY DEF FilingsInv
<1>3. /\ calendar' \in Calendars
      /\ filed' \subseteq Years /\ filed \subseteq filed' /\ year \in filed'
  BY <1>1, <1>2
<1>4. 1..(Accession' - 1) = (1..(Accession - 1)) \cup {Accession}
  BY <1>1
<1>5. ASSUME NEW a \in 1..(Accession' - 1)
      PROVE  \E y \in filed' : IsFiling(a, y, Of(rows, a), Of(reports, a))'
  <2>1. CASE a = Accession
    <3>1. IsFiling(a, year, R, P)'
      BY <1>1, <2>1, FilingStays
    <3> QED
      BY <1>1, <1>3, <2>1, <3>1
  <2>2. CASE a \in 1..(Accession - 1)
    <3>1. PICK y \in filed : IsFiling(a, y, Of(rows, a), Of(reports, a))
      BY <1>2, <2>2
    <3>2. IsFiling(a, y, Of(rows', a), Of(reports', a))
      BY <1>1, <2>2, <3>1
    <3>3. IsFiling(a, y, Of(rows, a), Of(reports, a))'
      BY <1>1, <3>2, FilingStays
    <3> QED
      BY <1>3, <3>3
  <2> QED
    BY <1>4, <2>1, <2>2
<1>6. ASSUME NEW y \in filed'
      PROVE  \E a \in 1..(Accession' - 1) : IsAnnual(a, y, Of(rows, a), Of(reports, a))'
  <2>1. CASE y \in filed
    <3>1. PICK a \in 1..(Accession - 1) : IsAnnual(a, y, Of(rows, a), Of(reports, a))
      BY <1>2, <2>1
    <3>2. IsAnnual(a, y, Of(rows', a), Of(reports', a))
      BY <1>1, <3>1
    <3>3. IsAnnual(a, y, Of(rows, a), Of(reports, a))'
      BY <1>1, <3>2, FilingStays
    <3> QED
      BY <1>4, <3>3
  <2>2. CASE y \notin filed
    <3>1. y = year /\ IsAnnual(Accession, year, R, P)
      BY <2>2
    <3>2. PICK a \in 1..(Accession' - 1) : a = Accession
      BY <1>4
    <3>3. IsAnnual(a, year, R, P)'
      BY <1>1, <3>1, <3>2, FilingStays
    <3> QED
      BY <1>1, <3>1, <3>2, <3>3
  <2> QED
    BY <2>1, <2>2
<1>7. answers' = AnswersOn(rows')
  BY DEF File
<1>8. (answers = AnswersOn(rows))'
  BY <1>7 DEF AnswersOn
<1> QED
  BY <1>1, <1>3, <1>5, <1>6, <1>8 DEF FilingsInv

LEMMA FilingsInvKeeps == ASSUME FilingsInv, [FilingsNext]_filingsVars PROVE FilingsInv'
<1>1. CASE FilingsNext
  <2>1. PICK year \in filed' \cap Years : \E R, P :
             /\ File(R, P) /\ IsFiling(Accession, year, R, P)
             /\ \/ filed' = filed
                \/ /\ filed' = filed \cup {year} /\ IsAnnual(Accession, year, R, P)
                   /\ \A y \in filed : y < year
    BY <1>1, StepFiles
  <2> QED
    BY <2>1, FileKeeps
<1>2. CASE UNCHANGED filingsVars
  <2>1. /\ calendar' = calendar /\ filed' = filed /\ rows' = rows /\ reports' = reports
        /\ answers' = answers
    BY <1>2 DEF filingsVars
  <2>2. Accession' = Accession
    BY <2>1 DEF Accession
  <2>3. Numbered'
    BY <2>1, <2>2 DEF FilingsInv, Numbered
  <2>4. \A a \in 1..(Accession - 1) :
          \E y \in filed : IsFiling(a, y, Of(rows, a), Of(reports, a))'
    <3> TAKE a \in 1..(Accession - 1)
    <3>1. PICK y \in filed : IsFiling(a, y, Of(rows', a), Of(reports', a))
      BY <2>1 DEF FilingsInv
    <3>2. IsFiling(a, y, Of(rows, a), Of(reports, a))'
      BY <2>1, <3>1, FilingStays
    <3> QED
      BY <3>2
  <2>5. \A y \in filed : \E a \in 1..(Accession - 1) :
          IsAnnual(a, y, Of(rows, a), Of(reports, a))'
    <3> TAKE y \in filed
    <3>1. PICK a \in 1..(Accession - 1) : IsAnnual(a, y, Of(rows', a), Of(reports', a))
      BY <2>1 DEF FilingsInv
    <3>2. IsAnnual(a, y, Of(rows, a), Of(reports, a))'
      BY <2>1, <3>1, FilingStays
    <3> QED
      BY <3>2
  <2>6. (answers = AnswersOn(rows))'
    BY <2>1 DEF FilingsInv, AnswersOn
  <2> QED
    BY <2>1, <2>2, <2>3, <2>4, <2>5, <2>6 DEF FilingsInv
<1> QED
  BY <1>1, <1>2

LEMMA FilingsInvariance == FilingsSpec => []FilingsInv
<1>1. FilingsInit => FilingsInv
  BY FilingsInvInit
<1>2. FilingsInv /\ [FilingsNext]_filingsVars => FilingsInv'
  BY FilingsInvKeeps
<1> QED
  BY <1>1, <1>2, PTL DEF FilingsSpec

-----------------------------------------------------------------------------
(* What an answer says of the rows compared *)

LEMMA DecidedFinancial ==
    ASSUME NEW claim, NEW record, IsFiniteSet(record.rows),
           NEW answer, answer = VerifyFinancialClaim(claim, record),
           answer.status \in {"VERIFIED", "REFUTED"},
           NEW period, period = Period(claim, record)
    PROVE  /\ claim.bound = TRUE /\ Bindable(claim, record)
           /\ period # {}
           /\ \A f, g \in period : f.value = g.value
           /\ \A f \in period : answer.status = "VERIFIED" <=> Equal(claim.value, f.value)
           /\ answer.accession = CitedFrom(claim, period)
<1> DEFINE value == CHOOSE v \in Distinct(period) : TRUE
           matched == Equal(claim.value, value)
           found == Verdict("MECHANICAL", "OK", {LookupResult(claim, record, matched)}, {}).status
           unbound == \/ ~ Bindable(claim, record)
                      \/ period = {}
                      \/ \E f \in period : Magnitude(f.value) >= Limit
           many == Cardinality(Distinct(period)) > 1
           cited == AsReported(claim, period, found)
<1>1. answer = IF unbound THEN Unbound
               ELSE IF many THEN [status |-> "CONTESTED", accession |-> None]
               ELSE [status |-> found, accession |-> cited]
  BY DEF VerifyFinancialClaim
<1>2. ~ unbound /\ ~ many /\ answer.status = found /\ answer.accession = cited
  <2> HIDE DEF unbound, many, found, cited
  <2> QED
    BY <1>1 DEF Unbound
<1>3. Bindable(claim, record) /\ period # {}
  BY <1>2
<1>4. /\ claim.bound = TRUE
      /\ found = "VERIFIED" => matched
      /\ found = "REFUTED" => ~ matched
  <2>1. matched \in BOOLEAN
    BY DEF Equal
  <2> HIDE DEF matched
  <2> QED
    BY <1>2, <2>1, DefinitiveLookup
<1>5. cited = CitedFrom(claim, period)
  <2> HIDE DEF found
  <2> QED
    BY <1>2 DEF AsReported
<1>6. \A f, g \in period : f.value = g.value
  <2>1. IsFiniteSet(period)
    BY PeriodInRecord, FS_Subset
  <2>2. IsFiniteSet(Distinct(period))
    <3> DEFINE h == [f \in period |-> f.value]
    <3>1. h \in Surjection(period, Distinct(period))
      BY DEF Surjection, Distinct
    <3> HIDE DEF h
    <3> QED
      BY <2>1, <3>1, FS_Surjection
  <2>3. Cardinality(Distinct(period)) \in Nat /\ Cardinality(Distinct(period)) <= 1
    BY <1>2, <2>2, FS_CardinalityType
  <2> SUFFICES ASSUME NEW f \in period, NEW g \in period, f.value # g.value
               PROVE  FALSE
    OBVIOUS
  <2>4. {f.value, g.value} \subseteq Distinct(period)
    BY DEF Distinct
  <2>5. Cardinality({f.value, g.value}) <= Cardinality(Distinct(period))
    BY <2>2, <2>4, FS_Subset
  <2>6. Cardinality({f.value, g.value}) = 2
    <3>1. {f.value, g.value} = {f.value} \cup {g.value} /\ g.value \notin {f.value}
      OBVIOUS
    <3> DEFINE x == f.value
               y == g.value
    <3>2. IsFiniteSet({x}) /\ Cardinality({x}) = 1
      BY FS_Singleton
    <3>3. Cardinality({x} \cup {y}) = 2
      <4>1. y \notin {x}
        BY <3>1
      <4> DEFINE single == {x}
      <4>2. IsFiniteSet(single) /\ Cardinality(single) = 1 /\ y \notin single
        BY <3>2, <4>1
      <4> HIDE DEF x, y, single
      <4>3. Cardinality(single \cup {y}) = Cardinality(single) + 1
        BY <4>2, FS_AddElement
      <4> QED
        BY <4>2, <4>3 DEF single
    <3> QED
      BY <3>1, <3>3
  <2> QED
    BY <2>3, <2>5, <2>6
<1>7. \A f \in period : value = f.value
  <2>1. Distinct(period) # {}
    BY <1>3 DEF Distinct
  <2>2. value \in Distinct(period)
    BY <2>1
  <2> HIDE DEF value
  <2> QED
    BY <1>6, <2>2 DEF Distinct
<1> HIDE DEF value, found, cited, unbound, many
<1> QED
  BY <1>2, <1>3, <1>4, <1>5, <1>6, <1>7

\* A figure is equal to itself.
LEMMA EqualToItself == \A v \in Int : Equal(v, v)
<1> TAKE v \in Int
<1>1. Magnitude(v - v) = 0
  BY DEF Magnitude
<1> QED
  BY <1>1 DEF Equal

LEMMA VerifiedFinancial ==
    ASSUME NEW claim, NEW record, Bindable(claim, record),
           claim.bound = TRUE, record.trusted = TRUE,
           Period(claim, record) # {},
           \A f \in Period(claim, record) : f.value = claim.value,
           claim.value \in Int, Magnitude(claim.value) < Limit
    PROVE  VerifyFinancialClaim(claim, record).status = "VERIFIED"
<1> DEFINE period == Period(claim, record)
           value == CHOOSE v \in Distinct(period) : TRUE
           matched == Equal(claim.value, value)
           found == Verdict("MECHANICAL", "OK", {LookupResult(claim, record, matched)}, {}).status
           unbound == \/ ~ Bindable(claim, record)
                      \/ period = {}
                      \/ \E f \in period : Magnitude(f.value) >= Limit
           many == Cardinality(Distinct(period)) > 1
           cited == AsReported(claim, period, found)
<1>1. VerifyFinancialClaim(claim, record)
        = IF unbound THEN Unbound
          ELSE IF many THEN [status |-> "CONTESTED", accession |-> None]
          ELSE [status |-> found, accession |-> cited]
  BY DEF VerifyFinancialClaim
<1>2. Distinct(period) = {claim.value}
  BY DEF Distinct
<1>3. ~ many
  <2>1. \A v : Cardinality({v}) = 1
    BY FS_Singleton
  <2> QED
    BY <1>2, <2>1
<1>4. ~ unbound
  <2>1. Magnitude(claim.value) \in Int
    BY DEF Magnitude
  <2> QED
    BY <2>1, LaneAssumption
<1>5. matched
  <2>1. value = claim.value
    BY <1>2
  <2> QED
    BY <2>1, EqualToItself
<1>6. found = "VERIFIED"
  <2> HIDE DEF matched
  <2>1. matched \in BOOLEAN
    BY DEF matched, Equal
  <2> QED
    BY <1>5, <2>1, DefinitiveLookup
<1> HIDE DEF unbound, many, found, cited
<1> QED
  BY <1>1, <1>3, <1>4, <1>6

-----------------------------------------------------------------------------
(* Days and years *)

LEMMA WholeYears ==
    ASSUME NEW gap \in Int, NEW n \in Nat, n >= 1, Magnitude(4 * gap - 1461 * n) <= 160
    PROVE  YearsIn(gap) = n /\ Aligned(gap)
<1>1. 4 * gap - 1461 * n <= 160 /\ 4 * gap - 1461 * n >= -160
  BY DEF Magnitude
<1>2. (8 * gap + 1461) \div 2922 = n
  BY <1>1
<1> QED
  BY <1>2 DEF YearsIn, Aligned

-----------------------------------------------------------------------------
(* The rows of a period, as the record grows *)

LEMMA OwnRowsExist ==
    ASSUME NEW S, S \subseteq SecFact, IsFiniteSet(S), S # {}
    PROVE  OwnRows(S) # {}
<1>1. PICK f \in S : TRUE
  OBVIOUS
<1> DEFINE G == {g \in S : g.accession = f.accession /\ Dated(g)}
           E == {g.end : g \in G}
<1>2. CASE G = {}
  BY <1>1, <1>2 DEF OwnRows
<1>3. CASE G # {}
  <2>1. IsFiniteSet(G) /\ \A g \in G : g.end \in Int
    <3>1. IsFiniteSet(G)
      BY FS_Subset
    <3>2. \A g \in G : g.end \in Int
      BY DEF Dated
    <3> QED
      BY <3>1, <3>2
  <2>2. IsFiniteSet(E)
    <3> DEFINE h == [g \in G |-> g.end]
    <3>1. h \in Surjection(G, E)
      BY DEF Surjection
    <3> HIDE DEF h, G
    <3> QED
      BY <2>1, <3>1, FS_Surjection
  <2>3. E \subseteq Int /\ E # {}
    BY <1>3, <2>1
  <2>4. Max(E) \in E /\ \A x \in E : x <= Max(E)
    <3> HIDE DEF E, G
    <3> QED
      BY <2>2, <2>3, MaxOfFinite
  <2>5. PICK g \in G : g.end = Max(E)
    BY <2>4
  <2>6. \A x \in S : x.accession = g.accession /\ Dated(x) => x.end <= g.end
    BY <2>4, <2>5
  <2>7. g \in S
    BY <2>5
  <2> HIDE DEF E, G
  <2> QED
    BY <2>6, <2>7 DEF OwnRows
<1> QED
  BY <1>2, <1>3

LEMMA PeriodFactsGrow ==
    ASSUME NEW S, NEW T, NEW fy, NEW fp,
           \A f \in S, g \in T : f.accession # g.accession
    PROVE  /\ OwnRows(Labelled(S, fy, fp)) \subseteq OwnRows(Labelled(S \cup T, fy, fp))
           /\ PeriodFacts(S, fy, fp) \subseteq PeriodFacts(S \cup T, fy, fp)
<1>1. OwnRows(Labelled(S, fy, fp)) \subseteq OwnRows(Labelled(S \cup T, fy, fp))
  <2> SUFFICES ASSUME NEW f \in OwnRows(Labelled(S, fy, fp))
               PROVE  f \in OwnRows(Labelled(S \cup T, fy, fp))
    OBVIOUS
  <2>1. f \in S /\ f \in Labelled(S \cup T, fy, fp)
    BY DEF OwnRows, Labelled
  <2>2. \A g \in Labelled(S \cup T, fy, fp) :
          g.accession = f.accession => g \in Labelled(S, fy, fp)
    BY <2>1 DEF Labelled
  <2> QED
    BY <2>1, <2>2 DEF OwnRows
<1> DEFINE own == OwnRows(Labelled(S, fy, fp))
           own2 == OwnRows(Labelled(S \cup T, fy, fp))
<1>2. \A f : MayBelong(f, own) => MayBelong(f, own2)
  <2> HIDE DEF own, own2
  <2> QED
    BY <1>1 DEF MayBelong, own, own2
<1> HIDE DEF own, own2
<1>3. PeriodFacts(S, fy, fp) = IF own = {} THEN {} ELSE own \cup {f \in S : MayBelong(f, own)}
  BY DEF PeriodFacts, own
<1>4. PeriodFacts(S \cup T, fy, fp)
        = IF own2 = {} THEN {} ELSE own2 \cup {f \in S \cup T : MayBelong(f, own2)}
  BY DEF PeriodFacts, own2
<1>5. own \subseteq own2
  BY <1>1 DEF own, own2
<1> QED
  BY <1>1, <1>2, <1>3, <1>4, <1>5

\* A filing says of its own rows what it said when it was filed.
LEMMA ComparativesStay ==
    ASSUME NEW S, NEW T, NEW f \in S,
           \A g \in S, h \in T : g.accession # h.accession
    PROVE  /\ IsComparative(f, S \cup T) <=> IsComparative(f, S)
           /\ FiscalYear(f, S \cup T) = FiscalYear(f, S)
<1>1. OwnEnd(S \cup T, f.accession) = OwnEnd(S, f.accession)
  <2>1. {g \in S \cup T : g.accession = f.accession /\ Dated(g)}
          = {g \in S : g.accession = f.accession /\ Dated(g)}
    OBVIOUS
  <2> QED
    BY <2>1 DEF OwnEnd
<1>2. FilingLabels(S \cup T, f.accession) = FilingLabels(S, f.accession)
  <2>1. {g \in S \cup T : g.accession = f.accession /\ g.fy # None}
          = {g \in S : g.accession = f.accession /\ g.fy # None}
    OBVIOUS
  <2> QED
    BY <2>1 DEF FilingLabels
<1> QED
  BY <1>1, <1>2 DEF IsComparative, FiscalYear

-----------------------------------------------------------------------------
(* What the rows tell *)

\* Row f of a filing for the year tells report r.
Tells(f, r, year) ==
    /\ f.accession = r.accession /\ f.value = r.value
    /\ f.fy = IF r.tag.fy THEN year ELSE None
    /\ f.fp = IF r.tag.fp THEN r.fp ELSE None
    /\ f.end = IF r.tag.end = "date" THEN calendar[r.year].end ELSE r.tag.end
    /\ r.fp = "FY" /\ r.tag.end = "date" => f.start = calendar[r.year].start
    /\ r.year \in Years /\ r.year <= year
    /\ r.own <=> r.year = year
    /\ r.fp \in {"FY", "Q4"}
    /\ r.tag \in Tags \cup {FullTag}
    /\ r.tag # FullTag => f.amended /\ r.fp = "FY"

\* Each row of filing a tells a report, and each report is told by a row; a
\* filing with a comparative is an annual report, properly labelled.
FiledFor(a, year) ==
    /\ Of(reports, a) # {}
    /\ \A f \in Of(rows, a) : \E r \in Of(reports, a) : Tells(f, r, year)
    /\ \A r \in Of(reports, a) : \E f \in Of(rows, a) : Tells(f, r, year)
    /\ \A r, s \in Of(reports, a) : r.own \/ (s.tag = FullTag /\ s.fp = "FY")
    /\ OwnYearFiled => \E r \in Of(reports, a) : r.own

AnnualFor(a, year) ==
    /\ FiledFor(a, year)
    /\ \A r \in Of(reports, a) : r.tag = FullTag /\ r.fp = "FY"

LEMMA TagFacts ==
    ASSUME NEW tag \in Tags \cup {FullTag}
    PROVE  /\ tag \in Tag /\ tag.fy \in BOOLEAN /\ tag.fp \in BOOLEAN
           /\ tag.end # "date" => tag.end \in {None} \cup Unreadable /\ tag.end \notin Int
<1>1. tag \in Tag
  BY FilingsAssumption, FullTagTyped
<1>2. tag.fy \in BOOLEAN /\ tag.fp \in BOOLEAN /\ tag.end \in {"date", None} \cup Unreadable
  BY <1>1 DEF Tag
<1>3. \A x \in {None} \cup Unreadable : x \notin Int
  BY LaneAssumption
<1> QED
  BY <1>1, <1>2, <1>3

\* A row with a date has that of its year.
LEMMA DatedRow ==
    ASSUME NEW f, NEW r, NEW year, Tells(f, r, year), Dated(f)
    PROVE  r.tag.end = "date" /\ f.end = calendar[r.year].end
<1>1. r.tag.end # "date" => r.tag.end \notin Int
  BY TagFacts DEF Tells
<1>2. r.tag.end # "date" => f.end = r.tag.end
  BY DEF Tells
<1>3. r.tag.end = "date" => f.end = calendar[r.year].end
  BY DEF Tells
<1> QED
  BY <1>1, <1>2, <1>3 DEF Dated

LEMMA FullTagFields == FullTag.fy /\ FullTag.fp /\ FullTag.end = "date"
  BY DEF FullTag

LEMMA RowTells ==
    ASSUME NEW a, NEW year \in Years, NEW y \in Years, y <= year,
           NEW amended, NEW tag \in Tags \cup {FullTag}, tag # FullTag => amended, NEW v
    PROVE  Tells(Row(a, year, y, amended, tag, v), ReportOf(a, year, y, "FY", tag, v), year)
<1> DEFINE f == Row(a, year, y, amended, tag, v)
           r == ReportOf(a, year, y, "FY", tag, v)
<1>1. /\ f.accession = a /\ f.value = v /\ f.amended = amended
      /\ f.fy = IF tag.fy THEN year ELSE None
      /\ f.fp = IF tag.fp THEN "FY" ELSE None
      /\ f.start = IF tag.end = "date" THEN calendar[y].start ELSE None
      /\ f.end = IF tag.end = "date" THEN calendar[y].end ELSE tag.end
  BY DEF Row
<1>2. /\ r.accession = a /\ r.year = y /\ r.fp = "FY" /\ r.value = v
      /\ r.own = (y = year) /\ r.tag = tag
  BY DEF ReportOf
<1> HIDE DEF f, r
<1> QED
  BY <1>1, <1>2 DEF Tells, f, r

LEMMA AnnualIsFiled ==
    ASSUME calendar \in Calendars, NEW a, NEW year \in Years,
           IsAnnual(a, year, Of(rows, a), Of(reports, a))
    PROVE  AnnualFor(a, year)
<1>1. PICK coverage \in Coverages :
        /\ Covered(year, coverage) # {}
        /\ \E value \in [Covered(year, coverage) -> Amounts] :
             /\ Of(rows, a) = {Row(a, year, y, FALSE, FullTag, value[y]) : y \in Covered(year, coverage)}
             /\ Of(reports, a) = {ReportOf(a, year, y, "FY", FullTag, value[y]) : y \in Covered(year, coverage)}
  BY DEF IsAnnual
<1> DEFINE C == Covered(year, coverage)
<1>2. PICK value \in [C -> Amounts] :
        /\ Of(rows, a) = {Row(a, year, y, FALSE, FullTag, value[y]) : y \in C}
        /\ Of(reports, a) = {ReportOf(a, year, y, "FY", FullTag, value[y]) : y \in C}
  BY <1>1
<1>3. C # {} /\ \A y \in C : y \in Years /\ y <= year
  BY <1>1, CoveredFacts
<1>4. OwnYearFiled => year \in C
  <2>1. year \in Nat
    BY FilingsAssumption
  <2> QED
    BY <2>1 DEF OwnYearFiled, Covered
<1> HIDE DEF C
<1>5. ASSUME NEW y \in C
      PROVE  Tells(Row(a, year, y, FALSE, FullTag, value[y]),
                   ReportOf(a, year, y, "FY", FullTag, value[y]), year)
  BY <1>3, RowTells
<1>6. \A y : LET r == ReportOf(a, year, y, "FY", FullTag, value[y])
             IN  r.tag = FullTag /\ r.fp = "FY" /\ r.own = (y = year)
  BY DEF ReportOf
<1>7. Of(reports, a) # {}
  BY <1>2, <1>3
<1>8. /\ \A f \in Of(rows, a) : \E r \in Of(reports, a) : Tells(f, r, year)
      /\ \A r \in Of(reports, a) : \E f \in Of(rows, a) : Tells(f, r, year)
  BY <1>2, <1>5
<1>9. \A r \in Of(reports, a) : r.tag = FullTag /\ r.fp = "FY"
  BY <1>2, <1>6
<1>10. OwnYearFiled => \E r \in Of(reports, a) : r.own
  BY <1>2, <1>4, <1>6
<1> QED
  BY <1>7, <1>8, <1>9, <1>10 DEF AnnualFor, FiledFor

LEMMA AmendmentIsFiled ==
    ASSUME NEW a, NEW year \in Years, IsAmendment(a, year, Of(rows, a), Of(reports, a))
    PROVE  FiledFor(a, year)
<1>1. PICK tag \in Tags, v \in Amounts :
        /\ Of(rows, a) = {Row(a, year, year, TRUE, tag, v)}
        /\ Of(reports, a) = {ReportOf(a, year, year, "FY", tag, v)}
  BY DEF IsAmendment
<1>2. year <= year
  BY FilingsAssumption
<1>3. Tells(Row(a, year, year, TRUE, tag, v), ReportOf(a, year, year, "FY", tag, v), year)
  BY <1>2, RowTells
<1>4. ReportOf(a, year, year, "FY", tag, v).own
  BY DEF ReportOf
<1> QED
  BY <1>1, <1>3, <1>4 DEF FiledFor

LEMMA QuarterIsFiled ==
    ASSUME calendar \in Calendars, NEW a \in Nat, NEW year \in Years,
           IsQuarter(a, year, Of(rows, a), Of(reports, a))
    PROVE  FiledFor(a, year)
<1>1. PICK v \in Amounts :
        /\ Of(rows, a) = {[Row(a, year, year, FALSE, FullTag, v) EXCEPT
                             !.fp = "Q4", !.start = calendar[year].end - 91]}
        /\ Of(reports, a) = {ReportOf(a, year, year, "Q4", FullTag, v)}
  BY DEF IsQuarter
<1> DEFINE g == Row(a, year, year, FALSE, FullTag, v)
           f == [g EXCEPT !.fp = "Q4", !.start = calendar[year].end - 91]
           r == ReportOf(a, year, year, "Q4", FullTag, v)
<1>2. year \in Nat
  BY FilingsAssumption
<1>3. /\ r.accession = a /\ r.year = year /\ r.fp = "Q4" /\ r.value = v
      /\ r.own /\ r.tag = FullTag
  BY DEF ReportOf
<1>4. /\ g.accession = a /\ g.value = v /\ g.fy = year
      /\ g.end = calendar[year].end
  BY FullTagFields DEF Row
<1>5. g \in SecFact
  <2>1. v \in Int
    BY <1>1, FilingsAssumption
  <2> QED
    BY <2>1, FullTagTyped, RowTyped
<1> HIDE DEF g
<1>6. /\ f.accession = g.accession /\ f.value = g.value /\ f.fy = g.fy
      /\ f.end = g.end /\ f.fp = "Q4"
  BY <1>5 DEF SecFact
<1> HIDE DEF f, r
<1>7. Tells(f, r, year)
  BY <1>2, <1>3, <1>4, <1>6, FullTagFields DEF Tells
<1>8. Of(rows, a) = {f} /\ Of(reports, a) = {r}
  BY <1>1 DEF f, r, g
<1> QED
  BY <1>3, <1>7, <1>8 DEF FiledFor

\* Every row and every report is of a filing for a year that has an annual
\* report.
LEMMA RecordTells ==
    ASSUME FilingsInv
    PROVE  /\ \A f \in rows : \E year \in filed : FiledFor(f.accession, year)
           /\ \A r \in reports : \E year \in filed : FiledFor(r.accession, year)
           /\ \A year \in filed : \E a \in Nat : AnnualFor(a, year)
<1>1. calendar \in Calendars /\ filed \subseteq Years
  BY DEF FilingsInv
<1>2. ASSUME NEW a \in 1..(Accession - 1)
      PROVE  \E year \in filed : FiledFor(a, year)
  <2>1. PICK year \in filed : IsFiling(a, year, Of(rows, a), Of(reports, a))
    BY DEF FilingsInv
  <2>2. a \in Nat /\ year \in Years
    BY <1>1, AccessionFacts
  <2>3. FiledFor(a, year)
    BY <1>1, <2>1, <2>2, AnnualIsFiled, AmendmentIsFiled, QuarterIsFiled DEF IsFiling, AnnualFor
  <2> QED
    BY <2>3
<1>3. ASSUME NEW year \in filed
      PROVE  \E a \in Nat : AnnualFor(a, year)
  <2>1. PICK a \in 1..(Accession - 1) : IsAnnual(a, year, Of(rows, a), Of(reports, a))
    BY DEF FilingsInv
  <2>2. a \in Nat
    BY AccessionFacts
  <2> QED
    BY <1>1, <2>1, <2>2, AnnualIsFiled
<1>4. /\ \A f \in rows : f.accession \in 1..(Accession - 1)
      /\ \A r \in reports : r.accession \in 1..(Accession - 1)
  BY DEF FilingsInv, Numbered
<1> QED
  BY <1>2, <1>3, <1>4

LEMMA LabelledFacts ==
    ASSUME FilingsInv, NEW fy \in Int, NEW fp \in FiscalPeriod,
           NEW f \in Labelled(rows, fy, fp)
    PROVE  /\ fy \in filed /\ f \in rows /\ FiledFor(f.accession, fy)
           /\ \E r \in Of(reports, f.accession) : Tells(f, r, fy) /\ r.fp = fp
<1>1. f \in rows /\ f.fy = fy /\ f.fp = fp /\ fy # None /\ fp # None
  BY LaneAssumption DEF Labelled
<1>2. PICK year \in filed : FiledFor(f.accession, year)
  BY <1>1, RecordTells
<1>3. PICK r \in Of(reports, f.accession) : Tells(f, r, year)
  BY <1>1, <1>2 DEF FiledFor, Of
<1>4. year = fy /\ r.fp = fp
  BY <1>1, <1>3 DEF Tells
<1> QED
  BY <1>1, <1>2, <1>3, <1>4

\* A year with an annual report has rows labelled with it.
LEMMA FiledIsLabelled ==
    ASSUME FilingsInv, NEW year \in filed
    PROVE  \E a \in Nat : /\ AnnualFor(a, year)
                          /\ Of(rows, a) # {}
                          /\ Of(rows, a) \subseteq Labelled(rows, year, "FY")
<1>1. PICK a \in Nat : AnnualFor(a, year)
  BY RecordTells
<1>2. Of(rows, a) # {}
  BY <1>1 DEF AnnualFor, FiledFor
<1>3. ASSUME NEW f \in Of(rows, a)
      PROVE  f \in Labelled(rows, year, "FY")
  <2>1. PICK r \in Of(reports, a) : Tells(f, r, year)
    BY <1>1 DEF AnnualFor, FiledFor
  <2>2. r.tag = FullTag /\ r.fp = "FY"
    BY <1>1, <2>1 DEF AnnualFor
  <2>3. f.fy = year /\ f.fp = "FY"
    BY <2>1, <2>2, FullTagFields DEF Tells
  <2> QED
    BY <2>3 DEF Of, Labelled
<1> QED
  BY <1>1, <1>2, <1>3

LEMMA OwnEndFacts ==
    ASSUME FilingsInv, NEW f \in rows, Dated(f)
    PROVE  /\ OwnEnd(rows, f.accession) \in Int
           /\ \E g \in rows : g.accession = f.accession /\ g.end = OwnEnd(rows, f.accession)
           /\ \A g \in rows : g.accession = f.accession /\ Dated(g) =>
                                g.end <= OwnEnd(rows, f.accession)
<1> DEFINE G == {g \in rows : g.accession = f.accession /\ Dated(g)}
           E == {g.end : g \in G}
<1>1. IsFiniteSet(G) /\ \A g \in G : g.end \in Int
  <2>1. IsFiniteSet(rows) /\ rows \subseteq SecFact
    BY DEF FilingsInv, Numbered
  <2>2. IsFiniteSet(G)
    BY <2>1, FS_Subset
  <2>3. \A g \in G : g.end \in Int
    BY DEF Dated
  <2> QED
    BY <2>2, <2>3
<1>2. IsFiniteSet(E)
  <2> DEFINE h == [g \in G |-> g.end]
  <2>1. h \in Surjection(G, E)
    BY DEF Surjection
  <2> HIDE DEF h, G
  <2> QED
    BY <1>1, <2>1, FS_Surjection
<1>3. E \subseteq Int /\ E # {}
  BY <1>1
<1>4. Max(E) \in E /\ \A x \in E : x <= Max(E)
  <2> HIDE DEF E, G
  <2> QED
    BY <1>2, <1>3, MaxOfFinite
<1>5. OwnEnd(rows, f.accession) = Max(E)
  BY DEF OwnEnd
<1> QED
  BY <1>3, <1>4, <1>5

\* The years of a calendar end one after the other.
LEMMA EndsFollow ==
    ASSUME calendar \in Calendars, NEW y \in Years, NEW z \in Years
    PROVE  /\ y <= z <=> calendar[y].end <= calendar[z].end
           /\ y = z <=> calendar[y].end = calendar[z].end
<1>1. /\ y \in Nat /\ z \in Nat
      /\ calendar[y].end \in Int /\ calendar[z].end \in Int
      /\ y < z => calendar[y].end < calendar[z].end
      /\ z < y => calendar[z].end < calendar[y].end
  BY FilingsAssumption
<1> QED
  BY <1>1

\* A comparative row is in an annual report for a later year, which is, if
\* the report has a row for its own year, the year it counts back from.
LEMMA ComparativeRow ==
    ASSUME FilingsInv, NEW f \in rows, IsComparative(f, rows)
    PROVE  \E year \in filed, r \in Of(reports, f.accession) :
             /\ FiledFor(f.accession, year)
             /\ Tells(f, r, year) /\ ~ r.own /\ r.tag = FullTag /\ r.fp = "FY"
             /\ f.end = calendar[r.year].end /\ f.start = calendar[r.year].start
             /\ r.year < year
             /\ FiscalYear(f, rows) \in Int /\ FiscalYear(f, rows) < year
             /\ OwnYearFiled => /\ FiscalYear(f, rows) = r.year
                                /\ Aligned(Gap(calendar, r.year, year))
<1> DEFINE last == OwnEnd(rows, f.accession)
<1>1. /\ f.start # None /\ Dated(f) /\ f.end # last
      /\ Cardinality(FilingLabels(rows, f.accession)) = 1
      /\ Aligned(last - f.end)
  BY DEF IsComparative
<1>2. PICK year \in filed : FiledFor(f.accession, year)
  BY RecordTells
<1>3. calendar \in Calendars /\ filed \subseteq Years /\ year \in Years
  BY DEF FilingsInv
<1>4. PICK r \in Of(reports, f.accession) : Tells(f, r, year)
  BY <1>2 DEF FiledFor, Of
<1>5. /\ last \in Int
      /\ \E g \in rows : g.accession = f.accession /\ g.end = last
      /\ \A g \in rows : g.accession = f.accession /\ Dated(g) => g.end <= last
  BY <1>1, OwnEndFacts
<1> HIDE DEF last
<1>6. r.tag.end = "date" /\ f.end = calendar[r.year].end /\ r.year \in Years /\ r.year <= year
  BY <1>1, <1>4, DatedRow DEF Tells
<1>7. /\ calendar[r.year].end \in Int /\ calendar[year].end \in Int
      /\ year \in Nat /\ r.year \in Nat
  BY <1>3, <1>6, CalendarFacts
<1>8. last <= calendar[year].end
  <2>1. PICK g \in rows : g.accession = f.accession /\ g.end = last
    BY <1>5
  <2>2. PICK s \in Of(reports, f.accession) : Tells(g, s, year)
    BY <1>2, <2>1 DEF FiledFor, Of
  <2>3. Dated(g)
    BY <1>5, <2>1 DEF Dated
  <2>4. g.end = calendar[s.year].end /\ s.year \in Years /\ s.year <= year
    BY <2>2, <2>3, DatedRow DEF Tells
  <2> QED
    BY <1>3, <2>1, <2>4, EndsFollow
<1>9. ~ r.own /\ r.year < year
  <2>1. f.end < last
    BY <1>1, <1>5, <1>6, <1>7
  <2>2. r.year # year
    BY <1>5, <1>6, <1>7, <1>8, <2>1
  <2> QED
    BY <1>4, <1>7, <2>2 DEF Tells
<1>10. \A s \in Of(reports, f.accession) : s.tag = FullTag /\ s.fp = "FY"
  BY <1>2, <1>4, <1>9 DEF FiledFor
<1>11. FilingLabels(rows, f.accession) = {year}
  <2>1. \A g \in rows : g.accession = f.accession => g.fy = year
    <3> TAKE g \in rows
    <3> HAVE g.accession = f.accession
    <3>1. PICK s \in Of(reports, f.accession) : Tells(g, s, year)
      BY <1>2 DEF FiledFor, Of
    <3> QED
      BY <1>10, <3>1, FullTagFields DEF Tells
  <2>2. year # None
    BY <1>7, LaneAssumption
  <2> QED
    BY <2>1, <2>2 DEF FilingLabels
<1>12. FiscalYear(f, rows) = year - YearsIn(last - f.end)
  <2>1. (CHOOSE fy \in {year} : TRUE) = year
    OBVIOUS
  <2> QED
    BY <1>11, <2>1 DEF FiscalYear, last
<1>13. YearsIn(last - f.end) \in Int /\ YearsIn(last - f.end) >= 1
  <2>1. last - f.end \in Int
    BY <1>5, <1>6, <1>7
  <2>2. YearsIn(last - f.end) \in Int
    BY <2>1 DEF YearsIn
  <2> QED
    BY <1>1, <2>2 DEF Aligned
<1>14. f.start = calendar[r.year].start
  BY <1>4, <1>6, <1>10 DEF Tells
<1>15. ASSUME OwnYearFiled
       PROVE  FiscalYear(f, rows) = r.year /\ Aligned(Gap(calendar, r.year, year))
  <2>1. PICK s \in Of(reports, f.accession) : s.own
    BY <1>2, <1>15 DEF FiledFor
  <2>2. PICK g \in Of(rows, f.accession) : Tells(g, s, year)
    BY <1>2 DEF FiledFor
  <2>3. g.end = calendar[year].end
    BY <1>10, <2>1, <2>2, FullTagFields DEF Tells
  <2>4. Dated(g) /\ g \in rows /\ g.accession = f.accession
    BY <1>7, <2>2, <2>3 DEF Of, Dated
  <2>5. last = calendar[year].end
    BY <1>5, <1>7, <1>8, <2>3, <2>4
  <2>6. Aligned(Gap(calendar, r.year, year)) /\ Gap(calendar, r.year, year) = last - f.end
    BY <1>1, <1>6, <2>5 DEF Gap
  <2>7. Anniversary(calendar, r.year, year, 40)
    BY <1>3, <1>6, <1>9, <2>6, FilingsAssumption
  <2>8. YearsIn(Gap(calendar, r.year, year)) = year - r.year
    <3>1. year - r.year \in Nat /\ year - r.year >= 1
      BY <1>7, <1>9
    <3>2. Gap(calendar, r.year, year) \in Int
      BY <1>7 DEF Gap
    <3>3. Magnitude(4 * Gap(calendar, r.year, year) - 1461 * (year - r.year)) <= 160
      BY <2>7 DEF Anniversary
    <3> QED
      BY <3>1, <3>2, <3>3, WholeYears
  <2>9. FiscalYear(f, rows) = r.year
    BY <1>7, <1>12, <2>6, <2>8
  <2> QED
    BY <2>6, <2>9
<1> QED
  BY <1>2, <1>4, <1>6, <1>7, <1>9, <1>10, <1>12, <1>13, <1>14, <1>15

\* Conversely, for a report with a row for its own year.
LEMMA ComparativeOf ==
    ASSUME FilingsInv, OwnYearFiled, NEW year \in filed, NEW f \in rows,
           FiledFor(f.accession, year), NEW r \in Of(reports, f.accession),
           Tells(f, r, year), ~ r.own,
           Aligned(Gap(calendar, r.year, year)),
           calendar[r.year].end - calendar[r.year].start \in 350..380
    PROVE  IsComparative(f, rows)
<1> DEFINE last == OwnEnd(rows, f.accession)
<1>1. \A s \in Of(reports, f.accession) : s.tag = FullTag /\ s.fp = "FY"
  BY DEF FiledFor
<1>2. calendar \in Calendars /\ year \in Years /\ r.year \in Years /\ r.year <= year /\ r.year # year
  BY DEF FilingsInv, Tells
<1>3. /\ calendar[r.year].end \in Int /\ calendar[year].end \in Int
      /\ calendar[r.year].start \in Int
      /\ year \in Nat /\ r.year \in Nat
  BY <1>2, CalendarFacts
<1>4. f.end = calendar[r.year].end /\ f.start = calendar[r.year].start
  BY <1>1, FullTagFields DEF Tells
<1>5. Dated(f) /\ f.start # None
  BY <1>3, <1>4, LaneAssumption DEF Dated
<1>6. last = calendar[year].end
  <2>1. /\ last \in Int
        /\ \E g \in rows : g.accession = f.accession /\ g.end = last
        /\ \A g \in rows : g.accession = f.accession /\ Dated(g) => g.end <= last
    BY <1>5, OwnEndFacts
  <2> HIDE DEF last
  <2>2. PICK s \in Of(reports, f.accession) : s.own
    BY DEF FiledFor
  <2>3. PICK g \in Of(rows, f.accession) : Tells(g, s, year)
    BY DEF FiledFor
  <2>4. g.end = calendar[year].end
    BY <1>1, <2>2, <2>3, FullTagFields DEF Tells
  <2>5. Dated(g) /\ g \in rows /\ g.accession = f.accession
    BY <1>3, <2>3, <2>4 DEF Of, Dated
  <2>6. PICK h \in rows : h.accession = f.accession /\ h.end = last
    BY <2>1
  <2>7. PICK t \in Of(reports, f.accession) : Tells(h, t, year)
    BY <2>6 DEF FiledFor, Of
  <2>8. h.end = calendar[t.year].end /\ t.year \in Years /\ t.year <= year
    BY <1>1, <2>7, FullTagFields DEF Tells
  <2>9. last <= calendar[year].end
    BY <1>2, <2>6, <2>8, EndsFollow
  <2> QED
    BY <1>3, <2>1, <2>4, <2>5, <2>9
<1> HIDE DEF last
<1>7. f.end # last
  BY <1>2, <1>4, <1>6, EndsFollow
<1>8. FilingLabels(rows, f.accession) = {year}
  <2>1. \A g \in rows : g.accession = f.accession => g.fy = year
    <3> TAKE g \in rows
    <3> HAVE g.accession = f.accession
    <3>1. PICK s \in Of(reports, f.accession) : Tells(g, s, year)
      BY DEF FiledFor, Of
    <3> QED
      BY <1>1, <3>1, FullTagFields DEF Tells
  <2>2. year # None
    BY <1>3, LaneAssumption
  <2> QED
    BY <2>1, <2>2 DEF FilingLabels
<1>9. Cardinality(FilingLabels(rows, f.accession)) = 1
  BY <1>8, FS_Singleton
<1>10. Aligned(last - f.end)
  BY <1>4, <1>6 DEF Gap
<1> QED
  BY <1>4, <1>5, <1>7, <1>9, <1>10 DEF IsComparative, last

-----------------------------------------------------------------------------
(* A further filing *)

LEMMA LabelsOfFiling ==
    ASSUME NEW a, NEW year, NEW R, NEW P, IsFiling(a, year, R, P)
    PROVE  \A f \in R : f.fy \in {year, None}
<1>1. \A y, amended, tag, v : Row(a, year, y, amended, tag, v).fy \in {year, None}
  BY DEF Row
<1>2. \A v, s : [Row(a, year, year, FALSE, FullTag, v) EXCEPT !.fp = "Q4", !.start = s].fy
                  = Row(a, year, year, FALSE, FullTag, v).fy
  BY DEF Row
<1>3. CASE IsAnnual(a, year, R, P)
  BY <1>1, <1>3 DEF IsAnnual
<1>4. CASE IsAmendment(a, year, R, P)
  BY <1>1, <1>4 DEF IsAmendment
<1>5. CASE IsQuarter(a, year, R, P)
  <2>1. PICK v : R = {[Row(a, year, year, FALSE, FullTag, v) EXCEPT
                         !.fp = "Q4", !.start = calendar[year].end - 91]}
    BY <1>5 DEF IsQuarter
  <2> DEFINE f == Row(a, year, year, FALSE, FullTag, v)
             q == [f EXCEPT !.fp = "Q4", !.start = calendar[year].end - 91]
  <2>2. q.fy = f.fy
    BY <1>2
  <2>3. R = {q}
    BY <2>1
  <2>4. f.fy \in {year, None}
    BY <1>1
  <2> HIDE DEF q, f
  <2> QED
    BY <2>2, <2>3, <2>4
<1> QED
  BY <1>3, <1>4, <1>5 DEF IsFiling

\* Rows are compared as primary ones when some are labelled with the period.
LEMMA PrimaryFacts ==
    ASSUME NEW S, S \subseteq SecFact, IsFiniteSet(S), NEW fy, NEW fp
    PROVE  PeriodFacts(S, fy, fp) = {} <=> Labelled(S, fy, fp) = {}
<1>1. Labelled(S, fy, fp) \subseteq S
  BY DEF Labelled
<1>2. IsFiniteSet(Labelled(S, fy, fp)) /\ Labelled(S, fy, fp) \subseteq SecFact
  BY <1>1, FS_Subset
<1>3. OwnRows(Labelled(S, fy, fp)) = {} <=> Labelled(S, fy, fp) = {}
  BY <1>2, OwnRowsExist DEF OwnRows
<1> QED
  BY <1>3 DEF PeriodFacts

Companyrecord(S) == [cik |-> RecordCik, trusted |-> TRUE, rows |-> S]

LEMMA PeriodOf ==
    ASSUME NEW claim, NEW S
    PROVE  /\ PeriodFacts(S, claim.fy, claim.fp) # {} =>
                Period(claim, Companyrecord(S)) = PeriodFacts(S, claim.fy, claim.fp)
           /\ PeriodFacts(S, claim.fy, claim.fp) = {} =>
                Period(claim, Companyrecord(S)) = ComparativePeriodFacts(S, claim.fy, claim.fp)
  BY DEF Period, Companyrecord

\* What a definitive answer says of the rows it compared.
LEMMA DecidedRecord ==
    ASSUME NEW claim, NEW S, IsFiniteSet(S),
           VerifyFinancialClaim(claim, Companyrecord(S)).status \in {"VERIFIED", "REFUTED"}
    PROVE  LET answer == VerifyFinancialClaim(claim, Companyrecord(S))
               period == Period(claim, Companyrecord(S))
           IN  /\ claim.bound = TRUE /\ Bindable(claim, Companyrecord(S))
               /\ period # {} /\ period \subseteq S
               /\ \A f, g \in period : f.value = g.value
               /\ \A f \in period : answer.status = "VERIFIED" <=> Equal(claim.value, f.value)
               /\ answer.accession = CitedFrom(claim, period)
<1>1. PICK record : record = Companyrecord(S) /\ record.rows = S
  BY DEF Companyrecord
<1>2. PICK answer : answer = VerifyFinancialClaim(claim, record)
  OBVIOUS
<1>3. PICK period : period = Period(claim, record)
  OBVIOUS
<1>4. answer.status \in {"VERIFIED", "REFUTED"} /\ IsFiniteSet(record.rows)
  BY <1>1, <1>2
<1>5. /\ claim.bound = TRUE /\ Bindable(claim, record)
      /\ period # {}
      /\ \A f, g \in period : f.value = g.value
      /\ \A f \in period : answer.status = "VERIFIED" <=> Equal(claim.value, f.value)
      /\ answer.accession = CitedFrom(claim, period)
  BY <1>2, <1>3, <1>4, DecidedFinancial
<1>6. period \subseteq S
  BY <1>1, <1>3, PeriodInRecord
<1> QED
  BY <1>1, <1>2, <1>3, <1>5, <1>6

\* The rows compared by the fallback: comparatives that end with one for the
\* fiscal year.
LEMMA FallbackFacts ==
    ASSUME NEW S, NEW fy, NEW fp, ComparativePeriodFacts(S, fy, fp) # {}
    PROVE  /\ fp = "FY"
           /\ \A f \in ComparativePeriodFacts(S, fy, fp) :
                /\ f \in S /\ IsComparative(f, S) /\ FiscalYear(f, S) = fy
           /\ \A f, g \in S :
                /\ IsComparative(f, S) /\ IsComparative(g, S)
                /\ f.end = g.end /\ FiscalYear(g, S) = fy
                => f \in ComparativePeriodFacts(S, fy, fp)
  BY DEF ComparativePeriodFacts

LEMMA FallbackGrows ==
    ASSUME FilingsInv, NEW R, NEW P, NEW year, IsFiling(Accession, year, R, P),
           \A f \in rows, g \in R : f.accession # g.accession,
           R \subseteq SecFact, IsFiniteSet(R),
           year \in filed \/ \A y \in filed : y < year,
           NEW fy, NEW fp, fy # None,
           PeriodFacts(rows, fy, fp) = {},
           NEW f \in ComparativePeriodFacts(rows, fy, fp)
    PROVE  /\ PeriodFacts(rows \cup R, fy, fp) = {}
           /\ ComparativePeriodFacts(rows \cup R, fy, fp) # {} =>
                f \in ComparativePeriodFacts(rows \cup R, fy, fp)
<1>1. /\ fp = "FY"
      /\ f \in rows /\ IsComparative(f, rows) /\ FiscalYear(f, rows) = fy
  BY FallbackFacts
<1>2. PICK z \in filed : fy \in Int /\ fy < z
  BY <1>1, ComparativeRow
<1>3. IsFiniteSet(rows) /\ rows \subseteq SecFact
  BY DEF FilingsInv, Numbered
<1>4. Labelled(rows, fy, fp) = {}
  BY <1>3, PrimaryFacts
<1>5. fy \notin filed
  BY <1>1, <1>4, FiledIsLabelled
<1>6. fy # year
  <2>1. fy \in Nat => ~ (z < fy)
    <3>1. z \in Nat
      BY FilingsAssumption DEF FilingsInv
    <3> QED
      BY <1>2, <3>1
  <2>2. z \in Nat
    BY FilingsAssumption DEF FilingsInv
  <2>3. ~ (z < fy)
    BY <1>2, <2>2
  <2> QED
    BY <1>2, <1>5, <2>3
<1>7. Labelled(rows \cup R, fy, fp) = {}
  <2>1. \A g \in R : g.fy # fy
    BY <1>6, LabelsOfFiling
  <2> QED
    BY <1>4, <2>1 DEF Labelled
<1>8. PeriodFacts(rows \cup R, fy, fp) = {}
  <2>1. IsFiniteSet(rows \cup R) /\ rows \cup R \subseteq SecFact
    BY <1>3, FS_Union
  <2> QED
    BY <1>7, <2>1, PrimaryFacts
<1>9. ASSUME ComparativePeriodFacts(rows \cup R, fy, fp) # {}
      PROVE  f \in ComparativePeriodFacts(rows \cup R, fy, fp)
  <2>1. IsComparative(f, rows \cup R) /\ FiscalYear(f, rows \cup R) = fy
    BY <1>1, ComparativesStay
  <2> QED
    BY <1>1, <1>9, <2>1, FallbackFacts
<1> QED
  BY <1>8, <1>9

\* As long as both answers are definitive, they were compared with a common
\* row.
LEMMA AnswerStays ==
    ASSUME FilingsInv, FilingsNext, NEW claim \in Claims, Decided(claim), Decided(claim)'
    PROVE  answers'[claim].status = answers[claim].status
<1>0. PICK year \in filed' \cap Years : \E R, P :
        /\ File(R, P) /\ IsFiling(Accession, year, R, P)
        /\ \/ filed' = filed
           \/ /\ filed' = filed \cup {year} /\ IsAnnual(Accession, year, R, P)
              /\ \A y \in filed : y < year
  BY StepFiles
<1>1. PICK R, P :
        /\ File(R, P) /\ IsFiling(Accession, year, R, P)
        /\ \/ filed' = filed
           \/ /\ filed' = filed \cup {year} /\ IsAnnual(Accession, year, R, P)
              /\ \A y \in filed : y < year
  BY <1>0
<1>2. rows' = rows \cup R /\ answers' = AnswersOn(rows')
  BY <1>1 DEF File
<1>3. IsFiniteSet(rows) /\ rows \subseteq SecFact /\ calendar \in Calendars
  BY DEF FilingsInv, Numbered
<1>4. IsFiniteSet(R) /\ R \subseteq SecFact /\ \A g \in R : g.accession = Accession
  BY <1>1, <1>3, AccessionFacts, FilingFacts
<1>5. \A f \in rows, g \in R : f.accession # g.accession
  <2>1. \A f \in rows : f.accession \in 1..(Accession - 1)
    BY DEF FilingsInv, Numbered
  <2>2. Accession \notin 1..(Accession - 1)
    BY AccessionFacts
  <2> QED
    BY <1>4, <2>1, <2>2
<1> DEFINE S == rows \cup R
           old == VerifyFinancialClaim(claim, Companyrecord(rows))
           new == VerifyFinancialClaim(claim, Companyrecord(S))
           period == Period(claim, Companyrecord(rows))
           later == Period(claim, Companyrecord(S))
<1>6. answers[claim] = old /\ answers'[claim] = new
  <2>1. answers = AnswersOn(rows)
    BY DEF FilingsInv
  <2> QED
    BY <1>2, <2>1 DEF AnswersOn, Companyrecord
<1>7. old.status \in {"VERIFIED", "REFUTED"} /\ new.status \in {"VERIFIED", "REFUTED"}
  <2>1. answers[claim].status \in {"VERIFIED", "REFUTED"} /\ answers'[claim].status \in {"VERIFIED", "REFUTED"}
    BY DEF Decided
  <2> QED
    BY <1>6, <2>1
<1>8. /\ period # {} /\ Bindable(claim, Companyrecord(rows))
      /\ \A f \in period : old.status = "VERIFIED" <=> Equal(claim.value, f.value)
  BY <1>3, <1>7, DecidedRecord
<1>9. claim.fy # None
  BY <1>8 DEF Bindable
<1>10. /\ later # {}
       /\ \A f \in later : new.status = "VERIFIED" <=> Equal(claim.value, f.value)
  <2>1. IsFiniteSet(S)
    BY <1>3, <1>4, FS_Union
  <2> HIDE DEF S
  <2> QED
    BY <1>7, <2>1, DecidedRecord
<1>11. \E f \in period : f \in later
  <2>1. CASE PeriodFacts(rows, claim.fy, claim.fp) # {}
    <3>1. PeriodFacts(rows, claim.fy, claim.fp) \subseteq PeriodFacts(S, claim.fy, claim.fp)
      BY <1>5, PeriodFactsGrow
    <3> HIDE DEF S
    <3>2. period = PeriodFacts(rows, claim.fy, claim.fp) /\ later = PeriodFacts(S, claim.fy, claim.fp)
      BY <2>1, <3>1, PeriodOf
    <3> QED
      BY <2>1, <3>1, <3>2
  <2>2. CASE PeriodFacts(rows, claim.fy, claim.fp) = {}
    <3>1. period = ComparativePeriodFacts(rows, claim.fy, claim.fp)
      BY <2>2, PeriodOf
    <3>2. PICK f \in ComparativePeriodFacts(rows, claim.fy, claim.fp) : f \in period
      BY <1>8, <3>1
    <3>3. year \in filed \/ \A y \in filed : y < year
      BY <1>1
    <3>4. /\ PeriodFacts(S, claim.fy, claim.fp) = {}
          /\ ComparativePeriodFacts(S, claim.fy, claim.fp) # {} =>
               f \in ComparativePeriodFacts(S, claim.fy, claim.fp)
      BY <1>1, <1>4, <1>5, <1>9, <2>2, <3>2, <3>3, FallbackGrows
    <3> HIDE DEF S
    <3>5. later = ComparativePeriodFacts(S, claim.fy, claim.fp)
      BY <3>4, PeriodOf
    <3> QED
      BY <1>10, <3>2, <3>4, <3>5
  <2> QED
    BY <2>1, <2>2
<1> HIDE DEF old, new, period, later
<1>12. old.status = "VERIFIED" <=> new.status = "VERIFIED"
  BY <1>8, <1>10, <1>11
<1> QED
  BY <1>6, <1>7, <1>12

\* A further filing never turns VERIFIED into REFUTED or back, whatever
\* calendar, labels and coverage the filings have (the rule of
\* verify_financial_claim that every row of the period must agree).
THEOREM AnswersNeverFlip == FilingsSpec => FilingsNeverFlip
<1>1. ASSUME FilingsInv, [FilingsNext]_filingsVars
      PROVE  [\A claim \in Claims :
                Decided(claim) /\ Decided(claim)' =>
                  answers'[claim].status = answers[claim].status]_filingsVars
  <2>1. CASE FilingsNext
    BY <1>1, <2>1, AnswerStays
  <2>2. CASE UNCHANGED filingsVars
    BY <2>2
  <2> QED
    BY <1>1, <2>1, <2>2
<1> QED
  BY <1>1, FilingsInvariance, PTL DEF FilingsSpec, FilingsNeverFlip

-----------------------------------------------------------------------------
(* The rows compared and the reports of the period *)

\* The own row of a filing with a row for its own year is the one that tells
\* the figure of that year.
LEMMA OwnRowIsOwn ==
    ASSUME FilingsInv, OwnYearFiled, NEW fy \in Int, NEW fp \in FiscalPeriod,
           NEW f \in OwnRows(Labelled(rows, fy, fp))
    PROVE  /\ fy \in filed /\ f \in Labelled(rows, fy, fp)
           /\ \E r \in reports : /\ Tells(f, r, fy) /\ r.own /\ r.year = fy /\ r.fp = fp
                                 /\ r.accession = f.accession
<1>1. f \in Labelled(rows, fy, fp)
  BY DEF OwnRows
<1>2. PICK r \in Of(reports, f.accession) : Tells(f, r, fy) /\ r.fp = fp
  BY <1>1, LabelledFacts
<1>3. fy \in filed /\ f \in rows /\ FiledFor(f.accession, fy)
  BY <1>1, LabelledFacts
<1>4. calendar \in Calendars /\ fy \in Years
  BY <1>3 DEF FilingsInv
<1>5. ASSUME ~ r.own PROVE FALSE
  <2>1. \A s \in Of(reports, f.accession) : s.tag = FullTag /\ s.fp = "FY"
    BY <1>2, <1>3, <1>5 DEF FiledFor
  <2>2. PICK s \in Of(reports, f.accession) : s.own
    BY <1>3 DEF FiledFor
  <2>3. PICK g \in Of(rows, f.accession) : Tells(g, s, fy)
    BY <1>3 DEF FiledFor
  <2>4. g.end = calendar[fy].end /\ g.fy = fy /\ g.fp = fp
    BY <1>2, <2>1, <2>2, <2>3, FullTagFields DEF Tells
  <2>5. f.end = calendar[r.year].end /\ r.year \in Years /\ r.year <= fy /\ r.year # fy
    BY <1>2, <1>5, <2>1, FullTagFields DEF Tells
  <2>6. calendar[fy].end \in Int /\ calendar[r.year].end \in Int /\ fy \in Nat /\ r.year \in Nat
    BY <1>4, <2>5, CalendarFacts
  <2>7. Dated(f) /\ Dated(g)
    BY <2>4, <2>5, <2>6 DEF Dated
  <2>8. g \in Labelled(rows, fy, fp) /\ g.accession = f.accession
    BY <2>3, <2>4 DEF Labelled, Of
  <2>9. g.end <= f.end
    BY <2>7, <2>8 DEF OwnRows
  <2>10. fy <= r.year
    BY <1>4, <2>4, <2>5, <2>9, EndsFollow
  <2> QED
    BY <2>5, <2>6, <2>10
<1> QED
  BY <1>1, <1>2, <1>3, <1>5 DEF Of, Tells

\* Conversely, if the row has its labels.
LEMMA OwnReportIsOwn ==
    ASSUME FilingsInv, NEW year \in filed, NEW f \in rows, FiledFor(f.accession, year),
           NEW r, Tells(f, r, year), r.own, r.tag.fy, r.tag.fp
    PROVE  f \in OwnRows(Labelled(rows, year, r.fp))
<1>1. f \in Labelled(rows, year, r.fp)
  BY DEF Tells, Labelled
<1>2. calendar \in Calendars /\ year \in Years /\ r.year = year
  BY DEF FilingsInv, Tells
<1>3. Dated(f) => f.end = calendar[year].end
  BY <1>2, DatedRow
<1>4. ASSUME NEW g \in Labelled(rows, year, r.fp), g.accession = f.accession, Dated(g)
      PROVE  g.end <= calendar[year].end
  <2>1. PICK s \in Of(reports, f.accession) : Tells(g, s, year)
    BY <1>4 DEF FiledFor, Labelled, Of
  <2>2. g.end = calendar[s.year].end /\ s.year \in Years /\ s.year <= year
    BY <1>4, <2>1, DatedRow DEF Tells
  <2> QED
    BY <1>2, <2>2, EndsFollow
<1> QED
  BY <1>1, <1>3, <1>4 DEF OwnRows

LEMMA CitedRow ==
    ASSUME NEW claim, NEW period, IsFiniteSet(period), period # {}, period \subseteq SecFact
    PROVE  \E f \in period :
             /\ f.accession = CitedFrom(claim, period)
             /\ Labelled(period, claim.fy, claim.fp) # {} =>
                  f \in Labelled(period, claim.fy, claim.fp)
<1> DEFINE own == Labelled(period, claim.fy, claim.fp)
           S == IF own # {} THEN own ELSE period
           A == {f.accession : f \in S}
<1>1. S # {} /\ S \subseteq period
  BY DEF Labelled
<1>2. CitedFrom(claim, period) = Max(A)
  BY DEF CitedFrom
<1>3. own # {} => S = own
  OBVIOUS
<1> HIDE DEF S
<1>4. IsFiniteSet(A) /\ A # {} /\ A \subseteq Int
  <2>1. IsFiniteSet(S)
    BY <1>1, FS_Subset
  <2>2. IsFiniteSet(A)
    <3> DEFINE h == [f \in S |-> f.accession]
    <3>1. h \in Surjection(S, A)
      BY DEF Surjection
    <3> HIDE DEF h, A
    <3> QED
      BY <2>1, <3>1, FS_Surjection
  <2>3. \A f \in S : f.accession \in Int
    BY <1>1 DEF SecFact
  <2> QED
    BY <1>1, <2>2, <2>3
<1>5. Max(A) \in A
  <2> HIDE DEF A
  <2> QED
    BY <1>4, MaxOfFinite
<1>6. PICK f \in S : f.accession = Max(A)
  BY <1>5
<1> QED
  BY <1>1, <1>2, <1>3, <1>6

LEMMA AnswerOf ==
    ASSUME FilingsInv, NEW claim \in Claims
    PROVE  /\ answers[claim] = VerifyFinancialClaim(claim, Companyrecord(rows))
           /\ IsFiniteSet(rows) /\ rows \subseteq SecFact
           /\ claim.value \in Int /\ claim.fp \in FiscalPeriod
           /\ claim.fy \in Int \cup {None}
           /\ claim.bound \in BOOLEAN
<1>1. answers = AnswersOn(rows)
  BY DEF FilingsInv
<1>2. answers[claim] = VerifyFinancialClaim(claim, Companyrecord(rows))
  BY <1>1 DEF AnswersOn, Companyrecord
<1>3. claim \in FinancialClaim
  BY FilingsAssumption
<1> QED
  BY <1>2, <1>3 DEF FinancialClaim, FilingsInv, Numbered

\* The row a definitive answer cites tells the figure of the claimed period.
LEMMA CitedReport ==
    ASSUME FilingsInv, OwnYearFiled, NEW claim \in Claims, claim.fy \in Int,
           NEW period, period = Period(claim, Companyrecord(rows)),
           period # {}
    PROVE  \E f \in period, r \in Reported(claim) :
             /\ f.accession = CitedFrom(claim, period)
             /\ r.accession = f.accession /\ r.value = f.value
<1>1. IsFiniteSet(rows) /\ rows \subseteq SecFact /\ claim.fp \in FiscalPeriod
  BY AnswerOf
<1>2. claim.fy # None /\ claim.fp # None
  BY <1>1, LaneAssumption
<1>3. period \subseteq rows
  <2>1. Companyrecord(rows).rows = rows
    BY DEF Companyrecord
  <2> QED
    BY <2>1, PeriodInRecord
<1>4. IsFiniteSet(period) /\ period \subseteq SecFact
  BY <1>1, <1>3, FS_Subset
<1>5. PICK f \in period :
        /\ f.accession = CitedFrom(claim, period)
        /\ Labelled(period, claim.fy, claim.fp) # {} =>
             f \in Labelled(period, claim.fy, claim.fp)
  BY <1>4, CitedRow
<1>6. CASE PeriodFacts(rows, claim.fy, claim.fp) # {}
  <2> DEFINE own == OwnRows(Labelled(rows, claim.fy, claim.fp))
  <2>1. period = PeriodFacts(rows, claim.fy, claim.fp)
    BY <1>6, PeriodOf
  <2>2. own # {} /\ period = own \cup {g \in rows : MayBelong(g, own)}
    BY <1>6, <2>1 DEF PeriodFacts
  <2>3. \A g \in own : g \in Labelled(period, claim.fy, claim.fp)
    BY <2>2 DEF OwnRows, Labelled
  <2>4. f.fy = claim.fy /\ f.fp = claim.fp
    BY <1>5, <2>2, <2>3 DEF Labelled
  <2>5. f \in own
    <3> HIDE DEF own
    <3> QED
      BY <1>2, <2>2, <2>4 DEF MayBelong
  <2>6. PICK r \in reports : /\ Tells(f, r, claim.fy) /\ r.own /\ r.year = claim.fy
                             /\ r.fp = claim.fp /\ r.accession = f.accession
    BY <1>1, <2>5, OwnRowIsOwn
  <2> QED
    BY <1>5, <2>6 DEF Tells, Reported
<1>7. CASE PeriodFacts(rows, claim.fy, claim.fp) = {}
  <2>1. period = ComparativePeriodFacts(rows, claim.fy, claim.fp)
    BY <1>7, PeriodOf
  <2>2. /\ claim.fp = "FY"
        /\ f \in rows /\ IsComparative(f, rows) /\ FiscalYear(f, rows) = claim.fy
    BY <1>5, <2>1, FallbackFacts
  <2>3. PICK year \in filed, r \in Of(reports, f.accession) :
          /\ Tells(f, r, year) /\ r.fp = "FY" /\ FiscalYear(f, rows) = r.year
    BY <2>2, ComparativeRow
  <2> QED
    BY <1>5, <2>2, <2>3 DEF Tells, Reported, Of
<1> QED
  BY <1>6, <1>7

LEMMA AnswersTruly == ASSUME FilingsInv, OwnYearFiled PROVE AnswersForClaimedPeriod
<1> SUFFICES ASSUME NEW claim \in Claims,
                    answers[claim].status \in {"VERIFIED", "REFUTED"}
             PROVE  /\ claim.bound
                    /\ claim.ticker \/ claim.cik # None => claim.cik = RecordCik
                    /\ \E r \in Reported(claim) :
                         /\ r.accession = answers[claim].accession
                         /\ answers[claim].status = "VERIFIED" <=> Equal(claim.value, r.value)
  BY DEF AnswersForClaimedPeriod
<1>1. /\ answers[claim] = VerifyFinancialClaim(claim, Companyrecord(rows))
      /\ IsFiniteSet(rows) /\ claim.fy \in Int \cup {None}
  BY AnswerOf
<1> DEFINE period == Period(claim, Companyrecord(rows))
           answer == VerifyFinancialClaim(claim, Companyrecord(rows))
<1>2. /\ claim.bound = TRUE /\ Bindable(claim, Companyrecord(rows))
      /\ period # {}
      /\ \A f \in period : answer.status = "VERIFIED" <=> Equal(claim.value, f.value)
      /\ answer.accession = CitedFrom(claim, period)
  <2>1. answer.status \in {"VERIFIED", "REFUTED"}
    BY <1>1
  <2> QED
    BY <1>1, <2>1, DecidedRecord
<1>3. claim.fy \in Int /\ EntityBound(claim, Companyrecord(rows))
  BY <1>1, <1>2 DEF Bindable
<1>4. claim.ticker \/ claim.cik # None => claim.cik = RecordCik
  BY <1>3 DEF EntityBound, Companyrecord
<1>5. \E f \in period, r \in Reported(claim) :
             /\ f.accession = CitedFrom(claim, period)
             /\ r.accession = f.accession /\ r.value = f.value
  BY <1>2, <1>3, CitedReport
<1> HIDE DEF period, answer
<1> QED
  BY <1>1, <1>2, <1>4, <1>5 DEF answer

\* A definitive answer is about the claimed period: it cites a filing that
\* reports that period's figure, and compares the claim with that figure, for
\* any calendars and labels, if an annual report has a row for its own year
\* (_period_facts, _comparative_period_facts).
THEOREM AnswersAreForThePeriod ==
    ASSUME OwnYearFiled
    PROVE  FilingsSpec => []AnswersForClaimedPeriod
<1>1. FilingsInv => AnswersForClaimedPeriod
  BY AnswersTruly
<1> QED
  BY <1>1, FilingsInvariance, PTL

\* Every figure a filing gives to its own period is among those compared, if
\* what its row has of labels and dates places it.
LEMMA OwnReportCompared ==
    ASSUME FilingsInv, OwnYearFiled, NEW r \in reports, r.own, Placed(r)
    PROVE  \E f \in PeriodFacts(rows, r.year, r.fp) : f.value = r.value
<1>1. PICK year \in filed : FiledFor(r.accession, year)
  BY RecordTells
<1>2. PICK f \in Of(rows, r.accession) : Tells(f, r, year)
  BY <1>1 DEF FiledFor, Of
<1>3. f \in rows /\ f.accession = r.accession /\ r.year = year /\ f.value = r.value
  BY <1>2 DEF Of, Tells
<1> DEFINE own == OwnRows(Labelled(rows, year, r.fp))
<1>4. PeriodFacts(rows, r.year, r.fp)
        = IF own = {} THEN {} ELSE own \cup {g \in rows : MayBelong(g, own)}
  BY <1>3 DEF PeriodFacts
<1>5. CASE r.tag.fy /\ r.tag.fp
  <2>1. f \in own
    BY <1>1, <1>2, <1>3, <1>5, OwnReportIsOwn
  <2> HIDE DEF own
  <2> QED
    BY <1>3, <1>4, <2>1
<1>6. CASE ~ (r.tag.fy /\ r.tag.fp)
  <2>1. r.tag # FullTag /\ r.tag \in Tags
    BY <1>2, <1>6, FullTagFields DEF Tells
  <2>2. f.amended /\ r.fp = "FY"
    BY <1>2, <2>1 DEF Tells
  <2>3. PICK a \in Nat : AnnualFor(a, year)
    BY RecordTells
  <2>4. PICK s \in Of(reports, a) : s.own /\ s.tag = FullTag /\ s.fp = "FY"
    BY <2>3 DEF AnnualFor, FiledFor
  <2>5. PICK g \in Of(rows, a) : Tells(g, s, year)
    BY <2>3, <2>4 DEF AnnualFor, FiledFor
  <2>6. g \in rows /\ g.accession = a /\ g.end = calendar[year].end
    BY <2>4, <2>5, FullTagFields DEF Of, Tells
  <2>7. g \in own
    <3>1. FiledFor(g.accession, year)
      BY <2>3, <2>6 DEF AnnualFor
    <3>2. g \in OwnRows(Labelled(rows, year, s.fp))
      BY <2>4, <2>5, <2>6, <3>1, FullTagFields, OwnReportIsOwn
    <3> QED
      BY <2>2, <2>4, <3>2
  <2>8. /\ f.fy = None \/ f.fp = None
        /\ \/ f.end = calendar[year].end
           \/ f.fy = None /\ f.fp = None /\ f.end = None
    <3>1. \/ r.tag.end = "date"
          \/ ~ r.tag.fy /\ ~ r.tag.fp /\ r.tag.end = None
      BY <1>6 DEF Placed
    <3>2. f.fy = None \/ f.fp = None
      BY <1>2, <1>6 DEF Tells
    <3>3. r.tag.end = "date" => f.end = calendar[year].end
      BY <1>2, <1>3 DEF Tells
    <3>4. ~ r.tag.fy /\ ~ r.tag.fp /\ r.tag.end = None /\ r.tag.end # "date" =>
            f.fy = None /\ f.fp = None /\ f.end = None
      BY <1>2 DEF Tells
    <3> QED
      BY <3>1, <3>2, <3>3, <3>4
  <2>9. calendar[year].end # None
    <3>1. calendar \in Calendars /\ year \in Years
      BY DEF FilingsInv
    <3> QED
      BY <3>1, CalendarFacts, LaneAssumption
  <2> HIDE DEF own
  <2>10. MayBelong(f, own)
    BY <2>2, <2>6, <2>7, <2>8, <2>9 DEF MayBelong
  <2> QED
    BY <1>3, <1>4, <2>7, <2>10
<1> QED
  BY <1>5, <1>6

\* Without a filing of its own for the period, there are no primary rows.
LEMMA NoOwnReport ==
    ASSUME FilingsInv, OwnYearFiled, NEW fy \in Int, NEW fp \in FiscalPeriod,
           \A r \in reports : ~ (r.own /\ r.year = fy /\ r.fp = fp)
    PROVE  PeriodFacts(rows, fy, fp) = {}
<1>1. \A f : f \notin OwnRows(Labelled(rows, fy, fp))
  BY OwnRowIsOwn
<1>2. OwnRows(Labelled(rows, fy, fp)) = {}
  BY <1>1
<1> QED
  BY <1>2 DEF PeriodFacts

\* A comparative figure another filing gives to the year is compared, if it
\* lies whole years back from that filing's own year and some are compared.
LEMMA ComparativeCompared ==
    ASSUME FilingsInv, OwnYearFiled, NEW fy, NEW fp,
           ComparativePeriodFacts(rows, fy, fp) # {},
           NEW r \in reports, ~ r.own, r.year = fy, Placed(r)
    PROVE  \E f \in ComparativePeriodFacts(rows, fy, fp) : f.value = r.value
<1>1. PICK g \in rows : fp = "FY" /\ IsComparative(g, rows) /\ FiscalYear(g, rows) = fy
  BY FallbackFacts
<1>2. PICK year \in filed, s \in Of(reports, g.accession) :
        /\ g.end = calendar[s.year].end /\ g.start = calendar[s.year].start
        /\ s.year < year /\ FiscalYear(g, rows) = s.year
        /\ Aligned(Gap(calendar, s.year, year))
        /\ Tells(g, s, year)
  BY <1>1, ComparativeRow
<1>3. s.year = fy /\ fy \in Years /\ calendar \in Calendars /\ year \in Years /\ filed \subseteq Years
  BY <1>1, <1>2 DEF Tells, FilingsInv
<1>4. PICK z \in filed : FiledFor(r.accession, z)
  BY RecordTells
<1>5. PICK f \in Of(rows, r.accession) : Tells(f, r, z)
  BY <1>4 DEF FiledFor, Of
<1>6. f \in rows /\ f.accession = r.accession /\ f.value = r.value
  BY <1>5 DEF Of, Tells
<1>7. PICK x \in reports :
        x.own /\ x.accession = r.accession /\ Aligned(Gap(calendar, r.year, x.year))
  BY DEF Placed
<1>8. Aligned(Gap(calendar, fy, z))
  <2>1. PICK h \in Of(rows, r.accession) : Tells(h, x, z)
    BY <1>4, <1>7 DEF FiledFor, Of
  <2>2. x.year = z
    BY <1>7, <2>1 DEF Tells
  <2> QED
    BY <1>7, <2>2
<1>9. calendar[fy].end - calendar[fy].start \in 350..380
  BY <1>1, <1>2, <1>3 DEF IsComparative
<1>10. IsComparative(f, rows)
  BY <1>4, <1>5, <1>6, <1>8, <1>9, ComparativeOf DEF Of
<1>11. f.end = g.end
  <2>1. r.tag = FullTag
    BY <1>4 DEF FiledFor, Of
  <2> QED
    BY <1>2, <1>3, <1>5, <2>1, FullTagFields DEF Tells
<1> QED
  BY <1>1, <1>6, <1>10, <1>11, FallbackFacts

LEMMA FilingsTyped == ASSUME FilingsInv PROVE FilingsTypeOK
<1>1. /\ rows \subseteq SecFact /\ reports \subseteq Report
      /\ {f.accession : f \in rows} = 1..(Accession - 1)
  BY DEF FilingsInv, Numbered
<1>2. ASSUME NEW claim \in Claims
      PROVE  /\ answers[claim].status \in {"VERIFIED", "REFUTED", "CONTESTED", "UNVERIFIED"}
             /\ IF answers[claim].status \in {"VERIFIED", "REFUTED"}
                THEN answers[claim].accession \in {f.accession : f \in rows}
                ELSE answers[claim].accession = None
  <2> DEFINE record == Companyrecord(rows)
             answer == VerifyFinancialClaim(claim, record)
             period == Period(claim, record)
  <2>1. answers[claim] = answer /\ IsFiniteSet(rows) /\ rows \subseteq SecFact
    BY AnswerOf
  <2>2. answer.status \in {"VERIFIED", "REFUTED", "CONTESTED", "UNVERIFIED"}
    BY DefinitiveFinancial
  <2>3. CASE answer.status \in {"VERIFIED", "REFUTED"}
    <3>1. period # {} /\ period \subseteq rows /\ answer.accession = CitedFrom(claim, period)
      BY <2>1, <2>3, DecidedRecord
    <3>2. IsFiniteSet(period) /\ period \subseteq SecFact
      BY <2>1, <3>1, FS_Subset
    <3> HIDE DEF period, answer
    <3>3. PICK f \in period : f.accession = CitedFrom(claim, period)
      BY <3>1, <3>2, CitedRow
    <3> QED
      BY <2>1, <2>2, <2>3, <3>1, <3>3
  <2>4. CASE answer.status \notin {"VERIFIED", "REFUTED"}
    <3> DEFINE value == CHOOSE v \in Distinct(period) : TRUE
               matched == Equal(claim.value, value)
               found == Verdict("MECHANICAL", "OK", {LookupResult(claim, record, matched)}, {}).status
               unbound == \/ ~ Bindable(claim, record)
                          \/ period = {}
                          \/ \E f \in period : Magnitude(f.value) >= Limit
               many == Cardinality(Distinct(period)) > 1
               cited == AsReported(claim, period, found)
    <3>1. answer = IF unbound THEN Unbound
                   ELSE IF many THEN [status |-> "CONTESTED", accession |-> None]
                   ELSE [status |-> found, accession |-> cited]
      BY DEF VerifyFinancialClaim
    <3>2. found \notin {"VERIFIED", "REFUTED"} => cited = None
      <4> HIDE DEF found, period
      <4> QED
        BY DEF AsReported
    <3> HIDE DEF unbound, many, found, cited
    <3>3. answer.accession = None
      <4> HIDE DEF answer
      <4> QED
        BY <2>4, <3>1, <3>2 DEF Unbound
    <3> HIDE DEF answer
    <3> QED
      BY <2>1, <2>2, <2>4, <3>3
  <2> QED
    BY <2>3, <2>4
<1> QED
  BY <1>1, <1>2 DEF FilingsTypeOK

LEMMA OneValue ==
    ASSUME NEW S, \A r, s \in S : r.value = s.value
    PROVE  ~ (Cardinality({r.value : r \in S}) > 1)
<1>1. CASE S = {}
  <2>1. {r.value : r \in S} = {}
    BY <1>1
  <2> QED
    BY <2>1, FS_EmptySet
<1>2. CASE S # {}
  <2>1. PICK r \in S : TRUE
    BY <1>2
  <2>2. {s.value : s \in S} = {r.value}
    BY <2>1
  <2>3. Cardinality({r.value}) = 1
    BY FS_Singleton
  <2> QED
    BY <2>2, <2>3
<1> QED
  BY <1>1, <1>2

LEMMA AllCompared ==
    ASSUME FilingsInv, OwnYearFiled,
           NEW claim \in Claims, claim.fy \in Int,
           NEW period, period = Period(claim, Companyrecord(rows)), period # {},
           NEW r \in Deciding(claim), Placed(r)
    PROVE  \E f \in period : f.value = r.value
<1>1. claim.fp \in FiscalPeriod
  BY AnswerOf
<1> DEFINE ownReports == {s \in Reported(claim) : s.own}
<1>2. Deciding(claim) = IF ownReports # {} THEN ownReports ELSE Reported(claim)
  BY DEF Deciding
<1>3. r \in reports /\ r.year = claim.fy /\ r.fp = claim.fp
  BY <1>2 DEF Reported
<1>4. CASE ownReports # {}
  <2>1. r.own
    BY <1>2, <1>4
  <2>2. PICK f \in PeriodFacts(rows, claim.fy, claim.fp) : f.value = r.value
    BY <1>3, <2>1, OwnReportCompared
  <2>3. period = PeriodFacts(rows, claim.fy, claim.fp)
    BY <2>2, PeriodOf
  <2> QED
    BY <2>2, <2>3
<1>5. CASE ownReports = {}
  <2>1. \A s \in reports : ~ (s.own /\ s.year = claim.fy /\ s.fp = claim.fp)
    BY <1>5 DEF Reported
  <2>2. PeriodFacts(rows, claim.fy, claim.fp) = {}
    BY <1>1, <2>1, NoOwnReport
  <2>3. period = ComparativePeriodFacts(rows, claim.fy, claim.fp)
    BY <2>2, PeriodOf
  <2> QED
    BY <1>3, <2>1, <2>3, ComparativeCompared
<1> QED
  BY <1>4, <1>5

LEMMA DisagreementTells ==
    ASSUME FilingsInv, OwnYearFiled
    PROVE  PlacedDisagreementIsContested
<1> SUFFICES ASSUME NEW claim \in Claims, Decided(claim)
             PROVE  ~ (Cardinality({r.value : r \in {d \in Deciding(claim) : Placed(d)}}) > 1)
  BY FilingsTyped DEF PlacedDisagreementIsContested
<1> DEFINE period == Period(claim, Companyrecord(rows))
           answer == VerifyFinancialClaim(claim, Companyrecord(rows))
<1>1. answers[claim] = answer /\ IsFiniteSet(rows) /\ claim.fy \in Int \cup {None}
  BY AnswerOf
<1>2. /\ Bindable(claim, Companyrecord(rows))
      /\ period # {}
      /\ \A f, g \in period : f.value = g.value
  <2>1. answer.status \in {"VERIFIED", "REFUTED"}
    BY <1>1 DEF Decided
  <2> QED
    BY <1>1, <2>1, DecidedRecord
<1>3. claim.fy \in Int
  BY <1>1, <1>2 DEF Bindable
<1> DEFINE placed == {r \in Deciding(claim) : Placed(r)}
<1>4. \A r \in placed : \E f \in period : f.value = r.value
  BY <1>2, <1>3, AllCompared
<1> HIDE DEF period, answer
<1>5. \A r, s \in placed : r.value = s.value
  BY <1>2, <1>4
<1> QED
  BY <1>5, OneValue

\* Two filings whose figures for a period can both be placed, and differ,
\* leave every claim about it without a definitive answer, for any calendars
\* and whatever labels and dates the rows of other amendments lack, if an
\* annual report has a row for its own year (_period_facts,
\* _comparative_period_facts, the CONTESTED return of verify_financial_claim).
THEOREM PlacedDisagreementStaysContested ==
    ASSUME OwnYearFiled
    PROVE  FilingsSpec => []PlacedDisagreementIsContested
<1>1. FilingsInv => PlacedDisagreementIsContested
  BY DisagreementTells
<1> QED
  BY <1>1, FilingsInvariance, PTL

\* With all its labels, each primary row tells a report of the period by its
\* own filing.
LEMMA PrimaryIsOwn ==
    ASSUME FilingsInv, OwnYearFiled, NEW fy \in Int, NEW fp \in FiscalPeriod,
           \A r \in reports : r.tag = FullTag,
           NEW f \in PeriodFacts(rows, fy, fp)
    PROVE  \E r \in reports : /\ r.own /\ r.year = fy /\ r.fp = fp
                              /\ f.value = r.value
<1> DEFINE own == OwnRows(Labelled(rows, fy, fp))
<1>1. f \in own \/ (f \in rows /\ MayBelong(f, own))
  BY DEF PeriodFacts
<1>2. f \in own => f \in rows
  BY DEF OwnRows, Labelled
<1>3. f.fy # None /\ f.fp # None
  <2>1. PICK year \in filed : FiledFor(f.accession, year)
    BY <1>1, <1>2, RecordTells
  <2>2. PICK r \in Of(reports, f.accession) : Tells(f, r, year)
    BY <1>1, <1>2, <2>1 DEF FiledFor, Of
  <2>3. f.fy = year /\ f.fp = r.fp /\ r.fp \in {"FY", "Q4"}
    BY <2>2, FullTagFields DEF Tells, Of
  <2>4. year \in Int
    <3>1. filed \subseteq Years
      BY DEF FilingsInv
    <3>2. Years \subseteq Nat
      BY FilingsAssumption
    <3> QED
      BY <3>1, <3>2
  <2> QED
    BY <2>3, <2>4, LaneAssumption DEF FiscalPeriod
<1>4. f \in own
  <2> HIDE DEF own
  <2> QED
    BY <1>1, <1>3 DEF MayBelong
<1>5. \E r \in reports : /\ Tells(f, r, fy) /\ r.own /\ r.year = fy /\ r.fp = fp
                         /\ r.accession = f.accession
  <2>1. f \in OwnRows(Labelled(rows, fy, fp))
    BY <1>4
  <2> HIDE DEF own
  <2> QED
    BY <2>1, OwnRowIsOwn
<1> HIDE DEF own
<1>6. PICK r \in reports : Tells(f, r, fy) /\ r.own /\ r.year = fy /\ r.fp = fp
  BY <1>5
<1> QED
  BY <1>6 DEF Tells

LEMMA FallbackIf ==
    ASSUME NEW S, NEW fy, NEW f \in S, IsComparative(f, S),
           \A g \in S : IsComparative(g, S) => (FiscalYear(g, S) = fy <=> g.end = f.end)
    PROVE  ComparativePeriodFacts(S, fy, "FY")
             = {g \in S : IsComparative(g, S) /\ FiscalYear(g, S) = fy}
<1> DEFINE comparatives == {g \in S : IsComparative(g, S)}
           matching == {g.end : g \in {h \in comparatives : FiscalYear(h, S) = fy}}
           candidates == {g \in comparatives : g.end \in matching}
<1>1. matching = {f.end}
  OBVIOUS
<1>2. Cardinality(matching) = 1
  BY <1>1, FS_Singleton
<1>3. candidates = {g \in S : IsComparative(g, S) /\ FiscalYear(g, S) = fy}
  BY <1>1
<1>4. \A g \in candidates : FiscalYear(g, S) = fy
  BY <1>3
<1> QED
  BY <1>2, <1>3, <1>4 DEF ComparativePeriodFacts

\* The filer that keeps its calendar gives each comparative the whole years
\* that it lies back.
LEMMA SteadyComparative ==
    ASSUME FilingsInv, OwnYearFiled, Steady, NEW r \in reports, ~ r.own
    PROVE  \E f \in rows : /\ IsComparative(f, rows)
                           /\ f.end = calendar[r.year].end
<1>1. PICK z \in filed : FiledFor(r.accession, z)
  BY RecordTells
<1>2. PICK f \in Of(rows, r.accession) : Tells(f, r, z)
  BY <1>1 DEF FiledFor, Of
<1>3. f \in rows /\ f.accession = r.accession
  BY <1>2 DEF Of
<1>4. calendar \in Calendars /\ z \in Years /\ r.year \in Years /\ r.year <= z /\ r.year # z
  BY <1>2 DEF FilingsInv, Tells
<1>5. /\ r.year \in Nat /\ z \in Nat /\ r.year < z
      /\ calendar[r.year].end \in Int /\ calendar[r.year].start \in Int /\ calendar[z].end \in Int
  BY <1>4, CalendarFacts
<1>6. /\ calendar[r.year].end - calendar[r.year].start \in 350..380
      /\ Anniversary(calendar, r.year, z, 7)
  BY <1>4, <1>5 DEF Steady
<1>7. Aligned(Gap(calendar, r.year, z))
  <2>1. Gap(calendar, r.year, z) \in Int
    BY <1>5 DEF Gap
  <2>2. Magnitude(4 * Gap(calendar, r.year, z) - 1461 * (z - r.year)) <= 160
    <3>1. Magnitude(4 * Gap(calendar, r.year, z) - 1461 * (z - r.year)) <= 28
      BY <1>6 DEF Anniversary
    <3>2. Magnitude(4 * Gap(calendar, r.year, z) - 1461 * (z - r.year)) \in Int
      BY <1>5, <2>1 DEF Magnitude
    <3> QED
      BY <3>1, <3>2
  <2>3. z - r.year \in Nat /\ z - r.year >= 1
    BY <1>5
  <2> QED
    BY <2>1, <2>2, <2>3, WholeYears
<1>8. IsComparative(f, rows)
  BY <1>1, <1>2, <1>3, <1>6, <1>7, ComparativeOf DEF Of
<1>9. f.end = calendar[r.year].end
  <2>1. r.tag = FullTag
    BY <1>1 DEF FiledFor, Of
  <2> QED
    BY <1>2, <2>1, FullTagFields DEF Tells
<1> QED
  BY <1>3, <1>8, <1>9

\* The rows compared with a figure that all give alike.
LEMMA AgreedPeriod ==
    ASSUME FilingsInv, OwnYearFiled, Steady, NEW claim \in Claims,
           Reported(claim) # {}, claim.fp = "FY",
           \A r \in reports : r.tag = FullTag,
           \A r \in Deciding(claim) : r.value = claim.value,
           NEW period, period = Period(claim, Companyrecord(rows))
    PROVE  /\ claim.fy \in Int
           /\ period # {}
           /\ \A f \in period : f.value = claim.value
<1>1. claim.fy \in Years /\ claim.fy \in Int /\ "FY" \in FiscalPeriod
  <2>1. PICK r \in reports : r.year = claim.fy
    BY DEF Reported
  <2>2. r \in Report
    BY <2>1 DEF FilingsInv, Numbered
  <2>3. claim.fy \in Years
    BY <2>1, <2>2 DEF Report
  <2>4. Years \subseteq Nat
    BY FilingsAssumption
  <2>5. claim.fy \in Nat
    BY <2>3, <2>4
  <2>6. "FY" \in FiscalPeriod
    BY DEF FiscalPeriod
  <2> QED
    BY <2>3, <2>5, <2>6
<1> DEFINE ownReports == {r \in Reported(claim) : r.own}
<1>2. Deciding(claim) = IF ownReports # {} THEN ownReports ELSE Reported(claim)
  BY DEF Deciding
<1>3. CASE ownReports # {}
  <2>1. PICK r \in reports : r.own /\ r.year = claim.fy /\ r.fp = "FY"
    BY <1>3 DEF Reported
  <2>2. PICK year \in filed : FiledFor(r.accession, year)
    BY RecordTells
  <2>3. PICK f \in Of(rows, r.accession) : Tells(f, r, year)
    BY <2>1, <2>2 DEF FiledFor, Of
  <2>4. f \in rows /\ f.accession = r.accession /\ year = claim.fy
    BY <2>1, <2>3 DEF Of, Tells
  <2>5. f \in OwnRows(Labelled(rows, claim.fy, "FY"))
    BY <2>1, <2>2, <2>3, <2>4, FullTagFields, OwnReportIsOwn
  <2>6. PeriodFacts(rows, claim.fy, claim.fp) # {}
    BY <2>5 DEF PeriodFacts
  <2>7. period = PeriodFacts(rows, claim.fy, claim.fp)
    BY <2>6, PeriodOf
  <2>8. ASSUME NEW g \in period
        PROVE  g.value = claim.value
    <3>1. PICK s \in reports : s.own /\ s.year = claim.fy /\ s.fp = claim.fp /\ g.value = s.value
      BY <1>1, <2>7, PrimaryIsOwn
    <3> QED
      BY <1>2, <1>3, <3>1 DEF Reported
  <2> QED
    BY <1>1, <2>6, <2>7, <2>8
<1>4. CASE ownReports = {}
  <2>1. \A s \in reports : ~ (s.own /\ s.year = claim.fy /\ s.fp = claim.fp)
    BY <1>4 DEF Reported
  <2>2. PeriodFacts(rows, claim.fy, claim.fp) = {}
    BY <1>1, <2>1, NoOwnReport
  <2>3. period = ComparativePeriodFacts(rows, claim.fy, "FY")
    BY <2>2, PeriodOf
  <2>4. PICK r \in reports : r.year = claim.fy /\ r.fp = claim.fp
    BY DEF Reported
  <2>5. PICK f \in rows : IsComparative(f, rows) /\ f.end = calendar[claim.fy].end
    BY <2>1, <2>4, SteadyComparative
  <2>6. ASSUME NEW g \in rows, IsComparative(g, rows)
        PROVE  \E s \in reports : /\ FiscalYear(g, rows) = s.year /\ s.fp = "FY"
                                  /\ s.value = g.value
                                  /\ s.year = claim.fy <=> g.end = f.end
    <3>1. PICK z \in filed, s \in Of(reports, g.accession) :
            /\ Tells(g, s, z) /\ s.fp = "FY"
            /\ g.end = calendar[s.year].end
            /\ FiscalYear(g, rows) = s.year
      BY <2>6, ComparativeRow
    <3>2. s \in reports /\ s.year \in Years /\ s.value = g.value /\ calendar \in Calendars
      BY <3>1 DEF Of, Tells, FilingsInv
    <3>3. s.year = claim.fy <=> g.end = f.end
      BY <1>1, <2>5, <3>1, <3>2, EndsFollow
    <3> QED
      BY <3>1, <3>2, <3>3
  <2>7. period = {g \in rows : IsComparative(g, rows) /\ FiscalYear(g, rows) = claim.fy}
    <3>1. \A g \in rows : IsComparative(g, rows) =>
            (FiscalYear(g, rows) = claim.fy <=> g.end = f.end)
      BY <2>6
    <3> QED
      BY <2>3, <2>5, <3>1, FallbackIf
  <2>8. f \in period
    BY <2>5, <2>6, <2>7
  <2>9. ASSUME NEW g \in period
        PROVE  g.value = claim.value
    <3>1. PICK s \in reports : s.year = claim.fy /\ s.fp = "FY" /\ s.value = g.value
      BY <2>6, <2>7, <2>9
    <3>2. s \in Deciding(claim)
      BY <1>2, <1>4, <3>1 DEF Reported
    <3> QED
      BY <3>1, <3>2
  <2> QED
    BY <1>1, <2>8, <2>9
<1> QED
  BY <1>3, <1>4

LEMMA AgreementTells == ASSUME FilingsInv, OwnYearFiled PROVE AgreedFigureIsVerified
<1> SUFFICES ASSUME Steady, NEW claim \in Claims,
                    Reported(claim) # {}, claim.fp = "FY",
                    \A r \in reports : r.tag = FullTag,
                    {r.value : r \in Deciding(claim)} = {claim.value},
                    claim.bound, claim.cik = RecordCik, Magnitude(claim.value) < Limit
             PROVE  answers[claim].status = "VERIFIED"
  BY DEF AgreedFigureIsVerified
<1>1. /\ answers[claim] = VerifyFinancialClaim(claim, Companyrecord(rows))
      /\ claim.value \in Int /\ claim.bound = TRUE
  BY AnswerOf
<1>2. \A r \in Deciding(claim) : r.value = claim.value
  OBVIOUS
<1>3. /\ claim.fy \in Int
      /\ Period(claim, Companyrecord(rows)) # {}
      /\ \A f \in Period(claim, Companyrecord(rows)) : f.value = claim.value
  BY <1>2, AgreedPeriod
<1>4. Bindable(claim, Companyrecord(rows))
  <2>1. claim.fy # None /\ claim.cik # None
    BY <1>3, FilingsAssumption, LaneAssumption
  <2>2. Companyrecord(rows).cik = RecordCik
    BY DEF Companyrecord
  <2> QED
    BY <2>1, <2>2 DEF Bindable, EntityBound
<1>5. Companyrecord(rows).trusted = TRUE
  BY DEF Companyrecord
<1> QED
  BY <1>1, <1>3, <1>4, <1>5, VerifiedFinancial

\* A figure of a fiscal year that all filings report alike is VERIFIED when
\* claimed, for any filer that keeps its calendar and labels its rows
\* (_equal, _period_facts, _comparative_period_facts).
THEOREM AgreedFiguresAreVerified ==
    ASSUME OwnYearFiled
    PROVE  FilingsSpec => []AgreedFigureIsVerified
<1>1. FilingsInv => AgreedFigureIsVerified
  BY AgreementTells
<1> QED
  BY <1>1, FilingsInvariance, PTL
=============================================================================
