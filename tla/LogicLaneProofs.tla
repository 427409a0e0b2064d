-------------------------- MODULE LogicLaneProofs --------------------------
(***************************************************************************)
(* The logic lane for any formulas, shared or cyclic, any claims, reviews  *)
(* and bounds, and any order of the assignments.                           *)
(***************************************************************************)
EXTENDS LogicLane, EvidenceStatusProofs, SequenceTheorems

-----------------------------------------------------------------------------
(* The recursive definitions of the lane *)

LEMMA KidFacts ==
    ASSUME NEW n \in Node
    PROVE  /\ Formula[n] \in Expression /\ Kids(n) \in Seq(Node \cup {None})
           /\ DOMAIN Kids(n) = 1..Len(Kids(n)) /\ Len(Kids(n)) \in Nat
           /\ WellFormed(Formula[n]) => Kids(n) \in Seq(Node)
<1>1. Formula[n] \in Expression /\ Kids(n) \in Seq(Node \cup {None})
  BY LogicAssumption DEF Expression, Kids
<1>2. DOMAIN Kids(n) = 1..Len(Kids(n)) /\ Len(Kids(n)) \in Nat
  BY <1>1
<1>3. ASSUME WellFormed(Formula[n])
      PROVE  Kids(n) \in Seq(Node)
  <2>1. \A i \in 1..Len(Kids(n)) : Kids(n)[i] \in Node
    BY <1>1, <1>2, <1>3 DEF WellFormed, Kids
  <2> QED
    BY <1>1, <1>2, <2>1
<1> QED
  BY <1>1, <1>2, <1>3

ShapedFrom(f) ==
    [d \in Nat |->
       [n \in Node |-> ~ Beyond(d, n) /\ \A i \in DOMAIN Kids(n) : f[d - 1][Kids(n)[i]]]]

LEMMA ShapedDef == Shaped = ShapedFrom(Shaped)
<1> DEFINE S == [Node -> BOOLEAN]
           base == [n \in Node |-> FALSE]
           step == [g \in S |-> [n \in Node |-> /\ WellFormed(Formula[n])
                                                /\ \A i \in DOMAIN Kids(n) : g[Kids(n)[i]]]]
<1>1. base \in S /\ step \in [S -> S]
  OBVIOUS
<1>2. PICK F \in [Nat -> S] : F[0] = base /\ \A i \in Nat : F[i + 1] = step[F[i]]
  <2> HIDE DEF S, base, step
  <2>1. \E F : Iteration(F, S, base, step)
    BY <1>1, Iterates
  <2> QED
    BY <2>1 DEF Iteration
<1>3. ASSUME NEW d \in Nat
      PROVE  F[d] = [n \in Node |-> ~ Beyond(d, n) /\ \A i \in DOMAIN Kids(n) : F[d - 1][Kids(n)[i]]]
  <2>1. CASE d = 0
    BY <1>2, <2>1 DEF Beyond
  <2>2. CASE d # 0
    <3>1. d - 1 \in Nat /\ F[d - 1] \in S /\ F[d] = step[F[d - 1]]
      <4>1. d - 1 \in Nat /\ (d - 1) + 1 = d
        BY <2>2
      <4> HIDE DEF S, step
      <4> QED
        BY <1>2, <4>1
    <3> QED
      BY <2>2, <3>1 DEF Beyond
  <2> QED
    BY <2>1, <2>2
<1>4. F = ShapedFrom(F)
  BY <1>2, <1>3 DEF ShapedFrom
<1>5. Shaped = CHOOSE f : f = ShapedFrom(f)
  BY DEF Shaped, ShapedFrom
<1> QED
  BY <1>4, <1>5

\* What the shape check says of an expression, from what it says of its
\* operands.
LEMMA ShapedAt ==
    ASSUME NEW d \in Nat, NEW n \in Node
    PROVE  Shaped[d][n] <=> /\ ~ Beyond(d, n)
                            /\ \A i \in DOMAIN Kids(n) : Shaped[d - 1][Kids(n)[i]]
<1>1. Shaped[d] = ShapedFrom(Shaped)[d]
  BY ShapedDef
<1>2. ShapedFrom(Shaped)[d] =
        [k \in Node |-> ~ Beyond(d, k) /\ \A i \in DOMAIN Kids(k) : Shaped[d - 1][Kids(k)[i]]]
  BY DEF ShapedFrom
<1> QED
  BY <1>1, <1>2

TotalFrom(s, f) == [i \in 0..Len(s) |-> IF i = 0 THEN 0 ELSE f[i - 1] + s[i]]

\* G holds the first m partial sums.
PartialSums(G, s, m) ==
    /\ G \in [0..m -> Nat]
    /\ G[0] = 0
    /\ \A i \in 1..m : G[i] = G[i - 1] + s[i]

LEMMA TotalType == ASSUME NEW s \in Seq(Nat) PROVE Total(s) \in Nat
<1>0. Len(s) \in Nat /\ \A i \in 1..Len(s) : s[i] \in Nat
  OBVIOUS
<1> DEFINE T == {m \in Nat : m <= Len(s) => \E G : PartialSums(G, s, m)}
<1>1. 0 \in T
  <2>1. PartialSums([i \in 0..0 |-> 0], s, 0)
    BY DEF PartialSums
  <2> QED
    BY <2>1
<1>2. ASSUME NEW m \in Nat, m \in T
      PROVE  m + 1 \in T
  <2> SUFFICES ASSUME m + 1 <= Len(s)
               PROVE  \E G : PartialSums(G, s, m + 1)
    OBVIOUS
  <2>0. m <= Len(s)
    BY <1>0
  <2>1. PICK G : PartialSums(G, s, m)
    BY <1>2, <2>0
  <2> DEFINE H == [i \in 0..(m + 1) |-> IF i = m + 1 THEN G[m] + s[m + 1] ELSE G[i]]
  <2>2. G[m] \in Nat /\ s[m + 1] \in Nat
    BY <1>0, <2>1 DEF PartialSums
  <2>3. H \in [0..(m + 1) -> Nat]
    BY <2>1, <2>2 DEF PartialSums
  <2>4. H[0] = 0
    BY <2>1 DEF PartialSums
  <2>5. \A i \in 1..(m + 1) : H[i] = H[i - 1] + s[i]
    <3> TAKE i \in 1..(m + 1)
    <3>1. CASE i = m + 1
      BY <3>1
    <3>2. CASE i # m + 1
      <4>1. i \in 1..m /\ i \in 0..(m + 1) /\ i - 1 \in 0..(m + 1) /\ i - 1 # m + 1
        BY <3>2
      <4> QED
        BY <2>1, <3>2, <4>1 DEF PartialSums
    <3> QED
      BY <3>1, <3>2
  <2> HIDE DEF H
  <2> QED
    BY <2>3, <2>4, <2>5 DEF PartialSums
<1>3. Len(s) \in T
  <2> HIDE DEF T
  <2> QED
    BY <1>0, <1>1, <1>2, DepthInduction
<1>4. PICK G : PartialSums(G, s, Len(s))
  BY <1>0, <1>3
<1>5. G = TotalFrom(s, G)
  BY <1>0, <1>4 DEF TotalFrom, PartialSums
<1> DEFINE sum == CHOOSE f : f = TotalFrom(s, f)
<1>6. sum = TotalFrom(s, sum)
  BY <1>5
<1>7. Total(s) = sum[Len(s)]
  BY DEF Total, TotalFrom
<1> HIDE DEF sum
<1>8. sum[0] = 0 /\ \A i \in 1..Len(s) : sum[i] = sum[i - 1] + s[i]
  BY <1>0, <1>6 DEF TotalFrom
<1> DEFINE U == {m \in Nat : m <= Len(s) => sum[m] \in Nat}
<1>9. 0 \in U
  BY <1>8
<1>10. ASSUME NEW m \in Nat, m \in U
       PROVE  m + 1 \in U
  <2> SUFFICES ASSUME m + 1 <= Len(s)
               PROVE  sum[m + 1] \in Nat
    OBVIOUS
  <2>1. m + 1 \in 1..Len(s) /\ (m + 1) - 1 = m /\ sum[m] \in Nat
    BY <1>0, <1>10
  <2> QED
    BY <1>0, <1>8, <2>1
<1>11. Len(s) \in U
  <2> HIDE DEF U
  <2> QED
    BY <1>0, <1>9, <1>10, DepthInduction
<1> QED
  BY <1>0, <1>7, <1>11

SizeFrom(f) ==
    [d \in Nat |->
       [n \in Node |->
          IF Beyond(d, n) THEN 1
          ELSE 1 + Total([i \in DOMAIN Kids(n) |-> f[d - 1][Kids(n)[i]]])]]

LEMMA SizeType == \A d \in Nat : Size[d] \in [Node -> Nat]
<1> DEFINE S == [Node -> Nat]
           base == [n \in Node |-> 1]
           step == [g \in S |-> [n \in Node |->
                      IF ~ WellFormed(Formula[n]) THEN 1
                      ELSE 1 + Total([i \in DOMAIN Kids(n) |-> g[Kids(n)[i]]])]]
<1>1. base \in S /\ step \in [S -> S]
  <2>1. ASSUME NEW g \in S, NEW n \in Node, WellFormed(Formula[n])
        PROVE  1 + Total([i \in DOMAIN Kids(n) |-> g[Kids(n)[i]]]) \in Nat
    <3>1. Kids(n) \in Seq(Node) /\ DOMAIN Kids(n) = 1..Len(Kids(n)) /\ Len(Kids(n)) \in Nat
      BY <2>1, KidFacts
    <3>2. [i \in DOMAIN Kids(n) |-> g[Kids(n)[i]]] \in Seq(Nat)
      BY <3>1
    <3>3. Total([i \in DOMAIN Kids(n) |-> g[Kids(n)[i]]]) \in Nat
      BY <3>2, TotalType
    <3> QED
      BY <3>3
  <2> QED
    BY <2>1
<1>2. PICK F \in [Nat -> S] : F[0] = base /\ \A i \in Nat : F[i + 1] = step[F[i]]
  <2> HIDE DEF S, base, step
  <2>1. \E F : Iteration(F, S, base, step)
    BY <1>1, Iterates
  <2> QED
    BY <2>1 DEF Iteration
<1>3. ASSUME NEW d \in Nat
      PROVE  F[d] = [n \in Node |->
                       IF Beyond(d, n) THEN 1
                       ELSE 1 + Total([i \in DOMAIN Kids(n) |-> F[d - 1][Kids(n)[i]]])]
  <2>1. CASE d = 0
    BY <1>2, <2>1 DEF Beyond
  <2>2. CASE d # 0
    <3>1. d - 1 \in Nat /\ F[d - 1] \in S /\ F[d] = step[F[d - 1]]
      <4>1. d - 1 \in Nat /\ (d - 1) + 1 = d
        BY <2>2
      <4> HIDE DEF S, step
      <4> QED
        BY <1>2, <4>1
    <3> QED
      BY <2>2, <3>1 DEF Beyond
  <2> QED
    BY <2>1, <2>2
<1>4. F = SizeFrom(F)
  BY <1>2, <1>3 DEF SizeFrom
<1>5. Size = CHOOSE f : f = SizeFrom(f)
  BY DEF Size, SizeFrom
<1>6. Size = SizeFrom(Size)
  BY <1>4, <1>5
<1> DEFINE T == {d \in Nat : Size[d] \in [Node -> Nat]}
<1>7. 0 \in T
  <2>1. Size[0] = [n \in Node |-> 1]
    BY <1>6 DEF SizeFrom, Beyond
  <2> QED
    BY <2>1
<1>8. ASSUME NEW d \in Nat, d \in T
      PROVE  d + 1 \in T
  <2>1. Size[d + 1] = step[Size[d]]
    <3>1. (d + 1) - 1 = d /\ d + 1 # 0 /\ d + 1 \in Nat /\ Size[d] \in S
      BY <1>8
    <3> QED
      BY <1>6, <3>1 DEF SizeFrom, Beyond
  <2>2. step[Size[d]] \in S
    <3> HIDE DEF step
    <3> QED
      BY <1>1, <1>8
  <2>3. Size[d + 1] \in [Node -> Nat]
    BY <2>1, <2>2
  <2> HIDE DEF step
  <2> QED
    BY <2>3
<1> HIDE DEF T
<1>9. \A d \in Nat : d \in T
  BY <1>7, <1>8, DepthInduction
<1> QED
  BY <1>9 DEF T

VarsFrom(f) ==
    [d \in Nat |->
       [n \in Node |->
          IF Beyond(d, n) THEN {}
          ELSE IF Formula[n].op = "var" THEN {Formula[n].arg}
          ELSE UNION {f[d - 1][Kids(n)[i]] : i \in DOMAIN Kids(n)}]]

LEMMA VarsDef == VarsIn = VarsFrom(VarsIn)
<1> DEFINE S == [Node -> SUBSET Name]
           base == [n \in Node |-> {}]
           step == [g \in S |-> [n \in Node |->
                      IF ~ WellFormed(Formula[n]) THEN {}
                      ELSE IF Formula[n].op = "var" THEN {Formula[n].arg}
                      ELSE UNION {g[Kids(n)[i]] : i \in DOMAIN Kids(n)}]]
<1>1. base \in S /\ step \in [S -> S]
  <2>1. ASSUME NEW g \in S, NEW n \in Node, WellFormed(Formula[n]), Formula[n].op # "var"
        PROVE  UNION {g[Kids(n)[i]] : i \in DOMAIN Kids(n)} \subseteq Name
    <3>1. Kids(n) \in Seq(Node) /\ DOMAIN Kids(n) = 1..Len(Kids(n)) /\ Len(Kids(n)) \in Nat
      BY <2>1, KidFacts
    <3>2. \A i \in DOMAIN Kids(n) : g[Kids(n)[i]] \subseteq Name
      BY <3>1
    <3> QED
      BY <3>2
  <2>2. ASSUME NEW n \in Node, WellFormed(Formula[n]), Formula[n].op = "var"
        PROVE  {Formula[n].arg} \subseteq Name
    BY <2>2 DEF WellFormed
  <2>3. ASSUME NEW g \in S
        PROVE  step[g] \in S
    BY <2>1, <2>2
  <2> QED
    BY <2>3
<1>2. PICK F \in [Nat -> S] : F[0] = base /\ \A i \in Nat : F[i + 1] = step[F[i]]
  <2> HIDE DEF S, base, step
  <2>1. \E F : Iteration(F, S, base, step)
    BY <1>1, Iterates
  <2> QED
    BY <2>1 DEF Iteration
<1>3. ASSUME NEW d \in Nat
      PROVE  F[d] = [n \in Node |->
                       IF Beyond(d, n) THEN {}
                       ELSE IF Formula[n].op = "var" THEN {Formula[n].arg}
                       ELSE UNION {F[d - 1][Kids(n)[i]] : i \in DOMAIN Kids(n)}]
  <2>1. CASE d = 0
    BY <1>2, <2>1 DEF Beyond
  <2>2. CASE d # 0
    <3>1. d - 1 \in Nat /\ F[d - 1] \in S /\ F[d] = step[F[d - 1]]
      <4>1. d - 1 \in Nat /\ (d - 1) + 1 = d
        BY <2>2
      <4> HIDE DEF S, step
      <4> QED
        BY <1>2, <4>1
    <3> QED
      BY <2>2, <3>1 DEF Beyond
  <2> QED
    BY <2>1, <2>2
<1>4. F = VarsFrom(F)
  BY <1>2, <1>3 DEF VarsFrom
<1>5. VarsIn = CHOOSE f : f = VarsFrom(f)
  BY DEF VarsIn, VarsFrom
<1> QED
  BY <1>4, <1>5

LEMMA VarsAt ==
    ASSUME NEW d \in Nat, NEW n \in Node
    PROVE  VarsIn[d][n] = IF Beyond(d, n) THEN {}
                          ELSE IF Formula[n].op = "var" THEN {Formula[n].arg}
                          ELSE UNION {VarsIn[d - 1][Kids(n)[i]] : i \in DOMAIN Kids(n)}
<1>1. VarsIn[d] = VarsFrom(VarsIn)[d]
  BY VarsDef
<1>2. VarsFrom(VarsIn)[d] =
        [k \in Node |-> IF Beyond(d, k) THEN {}
                        ELSE IF Formula[k].op = "var" THEN {Formula[k].arg}
                        ELSE UNION {VarsIn[d - 1][Kids(k)[i]] : i \in DOMAIN Kids(k)}]
  BY DEF VarsFrom
<1> QED
  BY <1>1, <1>2

\* The variables of an expression are names.
LEMMA VarsAreNames == ASSUME NEW d \in Nat, NEW n \in Node PROVE VarsIn[d][n] \subseteq Name
<1> DEFINE T == {k \in Nat : \A m \in Node : VarsIn[k][m] \subseteq Name}
<1>1. 0 \in T
  BY VarsAt DEF Beyond
<1>2. ASSUME NEW k \in Nat, k \in T
      PROVE  k + 1 \in T
  <2> SUFFICES ASSUME NEW m \in Node
               PROVE  VarsIn[k + 1][m] \subseteq Name
    OBVIOUS
  <2>1. (k + 1) - 1 = k /\ k + 1 \in Nat
    OBVIOUS
  <2>2. VarsIn[k + 1][m] = IF Beyond(k + 1, m) THEN {}
                           ELSE IF Formula[m].op = "var" THEN {Formula[m].arg}
                           ELSE UNION {VarsIn[k][Kids(m)[i]] : i \in DOMAIN Kids(m)}
    <3>1. VarsIn[k + 1][m] = IF Beyond(k + 1, m) THEN {}
                             ELSE IF Formula[m].op = "var" THEN {Formula[m].arg}
                             ELSE UNION {VarsIn[(k + 1) - 1][Kids(m)[i]] : i \in DOMAIN Kids(m)}
      BY <2>1, VarsAt
    <3> QED
      BY <2>1, <3>1, Zenon
  <2>3. CASE Beyond(k + 1, m)
    BY <2>2, <2>3
  <2>4. CASE ~ Beyond(k + 1, m) /\ Formula[m].op = "var"
    BY <2>2, <2>4 DEF Beyond, WellFormed
  <2>5. CASE ~ Beyond(k + 1, m) /\ Formula[m].op # "var"
    <3>1. \A i \in DOMAIN Kids(m) : Kids(m)[i] \in Node
      BY <2>5, KidFacts DEF Beyond
    <3>2. \A i \in DOMAIN Kids(m) : VarsIn[k][Kids(m)[i]] \subseteq Name
      BY <1>2, <3>1
    <3> QED
      BY <2>2, <2>5, <3>2
  <2> QED
    BY <2>3, <2>4, <2>5
<1>3. d \in T
  <2> HIDE DEF T
  <2> QED
    BY <1>1, <1>2, DepthInduction
<1> QED
  BY <1>3

-----------------------------------------------------------------------------
(* The values of expressions *)

Value == {"true", "false", "error"}

\* all and any return the neutral value when every operand has it, and else
\* an operand that has not.
LEMMA ShortCircuitFacts ==
    ASSUME NEW k \in Nat, NEW v \in [1..k -> Value], NEW neutral \in Value
    PROVE  /\ ShortCircuit(neutral, v) \in Value
           /\ ShortCircuit(neutral, v) = neutral <=> \A i \in 1..k : v[i] = neutral
           /\ ShortCircuit(neutral, v) # neutral =>
                \E i \in 1..k : ShortCircuit(neutral, v) = v[i]
<1> DEFINE others == {i \in DOMAIN v : v[i] # neutral}
<1>1. CASE others = {}
  BY <1>1 DEF ShortCircuit
<1>2. CASE others # {}
  <2>1. others \subseteq Nat /\ others \subseteq 1..k
    OBVIOUS
  <2>2. Min(others) \in others
    <3> HIDE DEF others
    <3> QED
      BY <1>2, <2>1, MinOfNaturals
  <2>3. ShortCircuit(neutral, v) = v[Min(others)]
    BY <1>2 DEF ShortCircuit
  <2>4. PICK i \in others : ShortCircuit(neutral, v) = v[i]
    BY <2>2, <2>3
  <2>5. i \in 1..k /\ v[i] # neutral /\ v[i] \in Value
    OBVIOUS
  <2> QED
    BY <2>4, <2>5
<1> QED
  BY <1>1, <1>2

LEMMA ShortCircuitPair ==
    ASSUME NEW x \in Value, NEW y \in Value, NEW s, s = ShortCircuit("false", <<x, y>>)
    PROVE  /\ s = "false" <=> x = "false" /\ y = "false"
           /\ s # "false" => s = x \/ s = y
<1> DEFINE w == <<x, y>>
<1>1. PICK k \in Nat : k = 2
  OBVIOUS
<1>2. w \in [1..k -> Value] /\ w[1] = x /\ w[2] = y
  BY <1>1
<1>3. \A i \in 1..k : i = 1 \/ i = 2
  BY <1>1
<1>4. 1 \in 1..k /\ 2 \in 1..k /\ "false" \in Value /\ s = ShortCircuit("false", w)
  BY <1>1 DEF Value
<1> HIDE DEF w
<1>5. /\ s = "false" <=> \A i \in 1..k : w[i] = "false"
      /\ s # "false" => \E i \in 1..k : s = w[i]
  BY <1>2, <1>4, ShortCircuitFacts
<1> QED
  BY <1>2, <1>3, <1>4, <1>5

\* A well-formed expression has the operands its operator needs.
LEMMA OperandFacts ==
    ASSUME NEW n \in Node, WellFormed(Formula[n])
    PROVE  /\ Formula[n].op \in {"const", "var", "not", "and", "or", "imp", "iff", "xor"}
           /\ Formula[n].op = "not" => DOMAIN Kids(n) = 1..1
           /\ Formula[n].op \in {"imp", "iff", "xor"} => DOMAIN Kids(n) = 1..2
<1> DEFINE o == Formula[n].op
           k == Len(Kids(n))
<1>1. k \in Nat /\ DOMAIN Kids(n) = 1..k /\ Formula[n] \in Expression
  BY KidFacts
<1>2. Arity(o, k)
  BY DEF WellFormed, Kids
<1>3. o \in {"const", "var", "not", "and", "or", "imp", "iff", "xor", "other"}
  BY <1>1 DEF Expression
<1>4. o # "other"
  BY <1>2 DEF Arity
<1>5. o = "not" => k = 1
  BY <1>2 DEF Arity
<1>6. o \in {"imp", "iff", "xor"} => k = 2
  BY <1>2 DEF Arity
<1> QED
  BY <1>1, <1>3, <1>4, <1>5, <1>6

\* The value of an expression is a value, and no error where none of its
\* operands has one and its variable is bound.
LEMMA ValuedFacts ==
    ASSUME NEW n \in Node, WellFormed(Formula[n]), NEW a \in Model,
           NEW v \in [DOMAIN Kids(n) -> Value]
    PROVE  /\ Valued(Formula[n], a, v) \in Value
           /\ /\ \A i \in DOMAIN Kids(n) : v[i] # "error"
              /\ Formula[n].op = "var" => Formula[n].arg \in DOMAIN a
              => Valued(Formula[n], a, v) # "error"
<1> DEFINE f == Formula[n]
           k == Len(Kids(n))
<1>1. k \in Nat /\ DOMAIN Kids(n) = 1..k /\ f \in Expression
  BY KidFacts
<1>2. v \in [1..k -> Value]
  BY <1>1
<1>3. f.op \in {"const", "var", "not", "and", "or", "imp", "iff", "xor"}
  BY OperandFacts
<1>4. CASE f.op = "const"
  BY <1>4 DEF Valued, WellFormed, Value
<1>5. CASE f.op = "var"
  <2>1. f.arg \in DOMAIN a => a[f.arg] \in BOOLEAN
    BY DEF Model
  <2> QED
    BY <1>5, <2>1 DEF Valued, Value, Truth
<1>6. CASE f.op \in {"and", "or"}
  <2>1. PICK neutral \in {"true", "false"} : Valued(f, a, v) = ShortCircuit(neutral, v)
    BY <1>6 DEF Valued, Connective
  <2>2. /\ ShortCircuit(neutral, v) \in Value
        /\ ShortCircuit(neutral, v) # neutral => \E i \in 1..k : ShortCircuit(neutral, v) = v[i]
    <3>1. neutral \in Value
      BY DEF Value
    <3> HIDE DEF k
    <3> QED
      BY <1>1, <1>2, <3>1, ShortCircuitFacts
  <2> QED
    BY <1>1, <1>6, <2>1, <2>2
<1>7. CASE f.op = "not"
  <2>1. v[1] \in Value /\ 1 \in DOMAIN Kids(n)
    BY <1>7, OperandFacts
  <2>2. Valued(f, a, v) = Negated(v[1])
    BY <1>7 DEF Valued, Connective
  <2> QED
    BY <1>7, <2>1, <2>2 DEF Negated, Value
<1>8. CASE f.op \in {"imp", "iff", "xor"}
  <2>1. v[1] \in Value /\ v[2] \in Value /\ 1 \in DOMAIN Kids(n) /\ 2 \in DOMAIN Kids(n)
    BY <1>8, OperandFacts
  <2>2. CASE f.op = "imp"
    <3>1. Valued(f, a, v) = ShortCircuit("false", <<Negated(v[1]), v[2]>>)
      BY <2>2 DEF Valued, Connective
    <3>2. Negated(v[1]) \in Value /\ (v[1] # "error" => Negated(v[1]) # "error")
      BY <2>1 DEF Negated, Value
    <3>3. /\ Valued(f, a, v) = "false" <=> Negated(v[1]) = "false" /\ v[2] = "false"
          /\ Valued(f, a, v) # "false" => Valued(f, a, v) = Negated(v[1]) \/ Valued(f, a, v) = v[2]
      BY <2>1, <3>1, <3>2, ShortCircuitPair
    <3> QED
      BY <2>1, <2>2, <3>2, <3>3 DEF Value
  <2>3. CASE f.op = "iff"
    BY <2>1, <2>3 DEF Valued, Connective, Truth, Value
  <2>4. CASE f.op = "xor"
    BY <2>1, <2>4 DEF Valued, Connective, Truth, Value
  <2> QED
    BY <1>8, <2>2, <2>3, <2>4
<1> QED
  BY <1>3, <1>4, <1>5, <1>6, <1>7, <1>8

\* A definite value is the truth: of the expression, when those of its
\* operands are.
LEMMA ValuedSound ==
    ASSUME NEW n \in Node, WellFormed(Formula[n]), NEW a \in Model, NEW env \in Extending(a),
           NEW v \in [DOMAIN Kids(n) -> Value], NEW K \in [DOMAIN Kids(n) -> BOOLEAN],
           \A i \in DOMAIN Kids(n) : (v[i] = "true" => K[i]) /\ (v[i] = "false" => ~ K[i])
    PROVE  /\ Valued(Formula[n], a, v) = "true" => Satisfied(Formula[n], env, K)
           /\ Valued(Formula[n], a, v) = "false" => ~ Satisfied(Formula[n], env, K)
<1> DEFINE f == Formula[n]
           k == Len(Kids(n))
<1>1. k \in Nat /\ DOMAIN Kids(n) = 1..k /\ f \in Expression
  BY KidFacts
<1>2. v \in [1..k -> Value]
  BY <1>1
<1>3. f.op \in {"const", "var", "not", "and", "or", "imp", "iff", "xor"}
  BY OperandFacts
<1>4. CASE f.op = "const"
  BY <1>4 DEF Valued, Satisfied, WellFormed
<1>5. CASE f.op = "var"
  <2>1. f.arg \in DOMAIN a => a[f.arg] = env[f.arg]
    BY DEF Extending
  <2> QED
    BY <1>5, <2>1 DEF Valued, Satisfied, Truth
<1>6. CASE f.op = "and"
  <2>1. Valued(f, a, v) = ShortCircuit("true", v)
    BY <1>6 DEF Valued, Connective
  <2>2. Satisfied(f, env, K) <=> \A i \in DOMAIN K : K[i]
    BY <1>6 DEF Satisfied
  <2>3. /\ ShortCircuit("true", v) = "true" <=> \A i \in 1..k : v[i] = "true"
        /\ ShortCircuit("true", v) # "true" => \E i \in 1..k : ShortCircuit("true", v) = v[i]
    <3>1. "true" \in Value
      BY DEF Value
    <3> HIDE DEF k
    <3> QED
      BY <1>1, <1>2, <3>1, ShortCircuitFacts
  <2> QED
    BY <1>1, <2>1, <2>2, <2>3
<1>7. CASE f.op = "or"
  <2>1. Valued(f, a, v) = ShortCircuit("false", v)
    BY <1>7 DEF Valued, Connective
  <2>2. Satisfied(f, env, K) <=> \E i \in DOMAIN K : K[i]
    BY <1>7 DEF Satisfied
  <2>3. /\ ShortCircuit("false", v) = "false" <=> \A i \in 1..k : v[i] = "false"
        /\ ShortCircuit("false", v) # "false" => \E i \in 1..k : ShortCircuit("false", v) = v[i]
    <3>1. "false" \in Value
      BY DEF Value
    <3> HIDE DEF k
    <3> QED
      BY <1>1, <1>2, <3>1, ShortCircuitFacts
  <2> QED
    BY <1>1, <2>1, <2>2, <2>3
<1>8. CASE f.op = "not"
  <2>1. v[1] \in Value /\ 1 \in DOMAIN Kids(n)
    BY <1>8, OperandFacts
  <2> QED
    BY <1>8, <2>1 DEF Valued, Connective, Negated, Satisfied, Value
<1>9. CASE f.op \in {"imp", "iff", "xor"}
  <2>1. v[1] \in Value /\ v[2] \in Value /\ 1 \in DOMAIN Kids(n) /\ 2 \in DOMAIN Kids(n)
    BY <1>9, OperandFacts
  <2>2. CASE f.op = "imp"
    <3>1. Valued(f, a, v) = ShortCircuit("false", <<Negated(v[1]), v[2]>>)
      BY <2>2 DEF Valued, Connective
    <3>2. /\ Negated(v[1]) \in Value
          /\ Negated(v[1]) = "true" => ~ K[1]
          /\ Negated(v[1]) = "false" => K[1]
      BY <2>1 DEF Negated, Value
    <3>3. /\ Valued(f, a, v) = "false" <=> Negated(v[1]) = "false" /\ v[2] = "false"
          /\ Valued(f, a, v) # "false" => Valued(f, a, v) = Negated(v[1]) \/ Valued(f, a, v) = v[2]
      BY <2>1, <3>1, <3>2, ShortCircuitPair
    <3>4. Satisfied(f, env, K) <=> (K[1] => K[2])
      BY <2>2 DEF Satisfied
    <3> QED
      BY <2>1, <3>2, <3>3, <3>4
  <2>3. CASE f.op = "iff"
    BY <2>1, <2>3 DEF Valued, Connective, Truth, Value, Satisfied
  <2>4. CASE f.op = "xor"
    BY <2>1, <2>4 DEF Valued, Connective, Truth, Value, Satisfied
  <2> QED
    BY <1>9, <2>2, <2>3, <2>4
<1> QED
  BY <1>3, <1>4, <1>5, <1>6, <1>7, <1>8, <1>9

-----------------------------------------------------------------------------
(* Evaluation and truth, at every depth *)

Operands(g, n) == [i \in DOMAIN Kids(n) |-> g[Kids(n)[i]]]

LEMMA OperandsType ==
    ASSUME NEW V, NEW g \in [Node -> V], NEW n \in Node, WellFormed(Formula[n])
    PROVE  Operands(g, n) \in [DOMAIN Kids(n) -> V]
<1>1. \A i \in DOMAIN Kids(n) : Kids(n)[i] \in Node
  BY KidFacts
<1> QED
  BY <1>1 DEF Operands

EvalFrom(a, f) ==
    [d \in Nat |->
       [n \in Node |->
          IF Beyond(d, n) THEN "error"
          ELSE Valued(Formula[n], a, [i \in DOMAIN Kids(n) |-> f[d - 1][Kids(n)[i]]])]]

EvalAt(a) == CHOOSE f : f = EvalFrom(a, f)

LEMMA EvalDef == ASSUME NEW a \in Model PROVE EvalAt(a) = EvalFrom(a, EvalAt(a))
<1> DEFINE S == [Node -> Value]
           base == [n \in Node |-> "error"]
           step == [g \in S |-> [n \in Node |->
                      IF ~ WellFormed(Formula[n]) THEN "error"
                      ELSE Valued(Formula[n], a, [i \in DOMAIN Kids(n) |-> g[Kids(n)[i]]])]]
<1>1. base \in S /\ step \in [S -> S]
  <2>1. ASSUME NEW g \in S, NEW n \in Node, WellFormed(Formula[n])
        PROVE  Valued(Formula[n], a, [i \in DOMAIN Kids(n) |-> g[Kids(n)[i]]]) \in Value
    <3>1. Operands(g, n) \in [DOMAIN Kids(n) -> Value]
      BY <2>1, OperandsType
    <3>2. Valued(Formula[n], a, Operands(g, n)) \in Value
      BY <2>1, <3>1, ValuedFacts
    <3> QED
      BY <3>2 DEF Operands
  <2>2. "error" \in Value
    BY DEF Value
  <2> QED
    BY <2>1, <2>2
<1>2. PICK F \in [Nat -> S] : F[0] = base /\ \A i \in Nat : F[i + 1] = step[F[i]]
  <2> HIDE DEF S, base, step
  <2>1. \E F : Iteration(F, S, base, step)
    BY <1>1, Iterates
  <2> QED
    BY <2>1 DEF Iteration
<1>3. ASSUME NEW d \in Nat
      PROVE  F[d] = [n \in Node |->
                       IF Beyond(d, n) THEN "error"
                       ELSE Valued(Formula[n], a, [i \in DOMAIN Kids(n) |-> F[d - 1][Kids(n)[i]]])]
  <2>1. CASE d = 0
    BY <1>2, <2>1 DEF Beyond
  <2>2. CASE d # 0
    <3>1. d - 1 \in Nat /\ F[d - 1] \in S /\ F[d] = step[F[d - 1]]
      <4>1. d - 1 \in Nat /\ (d - 1) + 1 = d
        BY <2>2
      <4> HIDE DEF S, step
      <4> QED
        BY <1>2, <4>1
    <3> QED
      BY <2>2, <3>1 DEF Beyond
  <2> QED
    BY <2>1, <2>2
<1>4. F = EvalFrom(a, F)
  BY <1>2, <1>3 DEF EvalFrom
<1> QED
  BY <1>4 DEF EvalAt

\* Where an expression has a value, it comes from those of its operands.
LEMMA EvalStep ==
    ASSUME NEW a \in Model, NEW d \in Nat, NEW n \in Node
    PROVE  /\ Beyond(0, n) /\ EvalAt(a)[0][n] = "error"
           /\ Beyond(d + 1, n) <=> ~ WellFormed(Formula[n])
           /\ EvalAt(a)[d + 1][n] = IF Beyond(d + 1, n) THEN "error"
                                    ELSE Valued(Formula[n], a, Operands(EvalAt(a)[d], n))
<1> DEFINE f == EvalAt(a)
<1>1. f = EvalFrom(a, f)
  BY EvalDef
<1> HIDE DEF f
<1>2. \A c \in Nat : f[c] = [m \in Node |->
        IF Beyond(c, m) THEN "error"
        ELSE Valued(Formula[m], a, [i \in DOMAIN Kids(m) |-> f[c - 1][Kids(m)[i]]])]
  BY <1>1 DEF EvalFrom
<1>3. Beyond(0, n) /\ (Beyond(d + 1, n) <=> ~ WellFormed(Formula[n]))
  BY DEF Beyond
<1>4. f[0][n] = "error"
  BY <1>2, <1>3
<1>5. d + 1 \in Nat /\ (d + 1) - 1 = d
  OBVIOUS
<1>6. f[d + 1][n] = IF Beyond(d + 1, n) THEN "error"
                    ELSE Valued(Formula[n], a, Operands(f[(d + 1) - 1], n))
  BY <1>2, <1>5, Zenon DEF Operands
<1>7. f[d + 1][n] = IF Beyond(d + 1, n) THEN "error" ELSE Valued(Formula[n], a, Operands(f[d], n))
  BY <1>5, <1>6, Zenon
<1> QED
  BY <1>3, <1>4, <1>7 DEF f

LEMMA EvalType == ASSUME NEW a \in Model, NEW d \in Nat PROVE EvalAt(a)[d] \in [Node -> Value]
<1> DEFINE T == {c \in Nat : EvalAt(a)[c] \in [Node -> Value]}
<1>1. ASSUME NEW c \in Nat
      PROVE  EvalAt(a)[c] = [n \in Node |-> EvalAt(a)[c][n]]
  BY EvalDef DEF EvalFrom
<1>2. 0 \in T
  <2>1. \A n \in Node : EvalAt(a)[0][n] \in Value
    BY EvalStep DEF Value
  <2> QED
    BY <1>1, <2>1
<1>3. ASSUME NEW c \in Nat, c \in T
      PROVE  c + 1 \in T
  <2>1. ASSUME NEW n \in Node
        PROVE  EvalAt(a)[c + 1][n] \in Value
    <3>1. CASE Beyond(c + 1, n)
      BY <3>1, EvalStep DEF Value
    <3>2. CASE ~ Beyond(c + 1, n)
      <4>1. WellFormed(Formula[n])
        BY <3>2, EvalStep
      <4>2. Operands(EvalAt(a)[c], n) \in [DOMAIN Kids(n) -> Value]
        BY <1>3, <4>1, OperandsType
      <4>3. Valued(Formula[n], a, Operands(EvalAt(a)[c], n)) \in Value
        BY <4>1, <4>2, ValuedFacts
      <4> QED
        BY <3>2, <4>3, EvalStep
    <3> QED
      BY <3>1, <3>2
  <2>2. EvalAt(a)[c + 1] = [n \in Node |-> EvalAt(a)[c + 1][n]]
    BY <1>1
  <2>3. EvalAt(a)[c + 1] \in [Node -> Value]
    BY <2>1, <2>2
  <2> QED
    BY <2>3
<1>4. d \in T
  <2> HIDE DEF T
  <2> QED
    BY <1>2, <1>3, DepthInduction
<1> QED
  BY <1>4

LEMMA EvalMeaning ==
    ASSUME NEW a, NEW e
    PROVE  Eval(e, a) = IF e = None THEN "error" ELSE EvalAt(a)[MaxDepth][e]
  BY DEF Eval, EvalAt, EvalFrom

HoldsFrom(env, f) ==
    [d \in Nat |->
       [n \in Node |->
          /\ ~ Beyond(d, n)
          /\ Satisfied(Formula[n], env, [i \in DOMAIN Kids(n) |-> f[d - 1][Kids(n)[i]]])]]

HoldsAt(env) == CHOOSE f : f = HoldsFrom(env, f)

LEMMA SatisfiedIsBoolean ==
    ASSUME NEW n \in Node, WellFormed(Formula[n]), NEW env \in [Name -> BOOLEAN],
           NEW K \in [DOMAIN Kids(n) -> BOOLEAN]
    PROVE  Satisfied(Formula[n], env, K) \in BOOLEAN
<1>1. Formula[n].op \in {"const", "var", "not", "and", "or", "imp", "iff", "xor"}
  BY OperandFacts
<1>2. CASE Formula[n].op = "var"
  <2>1. Formula[n].arg \in Name
    BY <1>2 DEF WellFormed
  <2> QED
    BY <1>2, <2>1 DEF Satisfied
<1>3. CASE Formula[n].op = "not"
  <2>1. K[1] \in BOOLEAN
    BY <1>3, OperandFacts
  <2> QED
    BY <1>3, <2>1 DEF Satisfied
<1>4. CASE Formula[n].op \notin {"var", "not"}
  BY <1>1, <1>4 DEF Satisfied
<1> QED
  BY <1>2, <1>3, <1>4

LEMMA HoldsDef == ASSUME NEW env \in [Name -> BOOLEAN] PROVE HoldsAt(env) = HoldsFrom(env, HoldsAt(env))
<1> DEFINE S == [Node -> BOOLEAN]
           base == [n \in Node |-> FALSE]
           step == [g \in S |-> [n \in Node |->
                      /\ WellFormed(Formula[n])
                      /\ Satisfied(Formula[n], env, [i \in DOMAIN Kids(n) |-> g[Kids(n)[i]]])]]
<1>1. base \in S /\ step \in [S -> S]
  <2>1. base \in S
    OBVIOUS
  <2>2. ASSUME NEW g \in S
        PROVE  [n \in Node |->
                  /\ WellFormed(Formula[n])
                  /\ Satisfied(Formula[n], env, [i \in DOMAIN Kids(n) |-> g[Kids(n)[i]]])] \in S
    BY Zenon
  <2> QED
    BY <2>1, <2>2, Zenon
<1>2. PICK F \in [Nat -> S] : F[0] = base /\ \A i \in Nat : F[i + 1] = step[F[i]]
  <2> HIDE DEF S, base, step
  <2>1. \E F : Iteration(F, S, base, step)
    BY <1>1, Iterates
  <2> QED
    BY <2>1 DEF Iteration
<1>3. ASSUME NEW d \in Nat
      PROVE  F[d] = [n \in Node |->
                       /\ ~ Beyond(d, n)
                       /\ Satisfied(Formula[n], env, [i \in DOMAIN Kids(n) |-> F[d - 1][Kids(n)[i]]])]
  <2>1. CASE d = 0
    BY <1>2, <2>1 DEF Beyond
  <2>2. CASE d # 0
    <3>1. d - 1 \in Nat /\ F[d - 1] \in S /\ F[d] = step[F[d - 1]]
      <4>1. d - 1 \in Nat /\ (d - 1) + 1 = d
        BY <2>2
      <4> HIDE DEF S, step
      <4> QED
        BY <1>2, <4>1
    <3> QED
      BY <2>2, <3>1 DEF Beyond
  <2> QED
    BY <2>1, <2>2
<1>4. F = HoldsFrom(env, F)
  BY <1>2, <1>3 DEF HoldsFrom
<1> QED
  BY <1>4 DEF HoldsAt

LEMMA HoldsStep ==
    ASSUME NEW env \in [Name -> BOOLEAN], NEW d \in Nat, NEW n \in Node
    PROVE  /\ HoldsAt(env)[0][n] <=> FALSE
           /\ HoldsAt(env)[d + 1][n] <=>
                WellFormed(Formula[n]) /\ Satisfied(Formula[n], env, Operands(HoldsAt(env)[d], n))
<1> DEFINE f == HoldsAt(env)
<1>1. f = HoldsFrom(env, f)
  BY HoldsDef
<1> HIDE DEF f
<1>2. \A c \in Nat : f[c] = [m \in Node |->
        ~ Beyond(c, m) /\ Satisfied(Formula[m], env, [i \in DOMAIN Kids(m) |-> f[c - 1][Kids(m)[i]]])]
  BY <1>1 DEF HoldsFrom
<1>3. Beyond(0, n) /\ (Beyond(d + 1, n) <=> ~ WellFormed(Formula[n]))
  BY DEF Beyond
<1>4. f[0][n] <=> FALSE
  BY <1>2, <1>3
<1>5. d + 1 \in Nat /\ (d + 1) - 1 = d
  OBVIOUS
<1>6. f[d + 1][n] <=> ~ Beyond(d + 1, n) /\ Satisfied(Formula[n], env, Operands(f[(d + 1) - 1], n))
  BY <1>2, <1>5, Zenon DEF Operands
<1>7. f[d + 1][n] <=> ~ Beyond(d + 1, n) /\ Satisfied(Formula[n], env, Operands(f[d], n))
  BY <1>5, <1>6, Zenon
<1> QED
  BY <1>3, <1>4, <1>7 DEF f

LEMMA HoldsMeaning ==
    ASSUME NEW env, NEW e
    PROVE  Holds(e, env) <=> HoldsAt(env)[MaxDepth][e]
  BY DEF Holds, HoldsAt, HoldsFrom

LEMMA HoldsType ==
    ASSUME NEW env \in [Name -> BOOLEAN], NEW d \in Nat
    PROVE  HoldsAt(env)[d] \in [Node -> BOOLEAN]
<1> DEFINE f == HoldsAt(env)
<1>1. f = HoldsFrom(env, f)
  BY HoldsDef
<1> HIDE DEF f
<1>2. f[d] = [m \in Node |->
        ~ Beyond(d, m) /\ Satisfied(Formula[m], env, [i \in DOMAIN Kids(m) |-> f[d - 1][Kids(m)[i]]])]
  BY <1>1 DEF HoldsFrom
<1>3. f[d] \in [Node -> BOOLEAN]
  BY <1>2, Zenon
<1> QED
  BY <1>3 DEF f

\* A definite value is the truth in every environment that extends the model.
LEMMA EvalSound ==
    ASSUME NEW a \in Model, NEW env \in Extending(a), NEW d \in Nat, NEW n \in Node
    PROVE  /\ EvalAt(a)[d][n] = "true" => HoldsAt(env)[d][n]
           /\ EvalAt(a)[d][n] = "false" => ~ HoldsAt(env)[d][n]
<1>0. env \in [Name -> BOOLEAN]
  BY DEF Extending
<1> DEFINE Sound(c, m) == /\ EvalAt(a)[c][m] = "true" => HoldsAt(env)[c][m]
                          /\ EvalAt(a)[c][m] = "false" => ~ HoldsAt(env)[c][m]
           T == {c \in Nat : \A m \in Node : Sound(c, m)}
<1>1. 0 \in T
  BY EvalStep
<1>2. ASSUME NEW c \in Nat, c \in T
      PROVE  c + 1 \in T
  <2> SUFFICES ASSUME NEW m \in Node
               PROVE  Sound(c + 1, m)
    OBVIOUS
  <2>1. CASE ~ WellFormed(Formula[m])
    BY <2>1, EvalStep
  <2>2. CASE WellFormed(Formula[m])
    <3> DEFINE v == Operands(EvalAt(a)[c], m)
               K == Operands(HoldsAt(env)[c], m)
    <3>1. v \in [DOMAIN Kids(m) -> Value]
      BY <2>2, EvalType, OperandsType
    <3>2. K \in [DOMAIN Kids(m) -> BOOLEAN]
      BY <1>0, <2>2, HoldsType, OperandsType
    <3>3. \A i \in DOMAIN Kids(m) : (v[i] = "true" => K[i]) /\ (v[i] = "false" => ~ K[i])
      <4>1. \A i \in DOMAIN Kids(m) : Kids(m)[i] \in Node
        BY <2>2, KidFacts
      <4>2. \A i \in DOMAIN Kids(m) : Sound(c, Kids(m)[i])
        BY <1>2, <4>1
      <4> QED
        BY <4>2 DEF Operands
    <3>4. EvalAt(a)[c + 1][m] = Valued(Formula[m], a, v)
      BY <2>2, EvalStep
    <3>5. HoldsAt(env)[c + 1][m] <=> Satisfied(Formula[m], env, K)
      BY <1>0, <2>2, HoldsStep
    <3> HIDE DEF v, K
    <3>6. /\ Valued(Formula[m], a, v) = "true" => Satisfied(Formula[m], env, K)
          /\ Valued(Formula[m], a, v) = "false" => ~ Satisfied(Formula[m], env, K)
      BY <2>2, <3>1, <3>2, <3>3, ValuedSound
    <3> QED
      BY <3>4, <3>5, <3>6
  <2> QED
    BY <2>1, <2>2
<1>3. d \in T
  <2> HIDE DEF T
  <2> QED
    BY <1>1, <1>2, DepthInduction
<1> QED
  BY <1>3

\* What passed the shape check and has its variables bound has a value.
LEMMA EvalDefined ==
    ASSUME NEW a \in Model, NEW d \in Nat, NEW n \in Node,
           Shaped[d][n], VarsIn[d][n] \subseteq DOMAIN a
    PROVE  EvalAt(a)[d][n] # "error"
<1> DEFINE Ready(c, m) == Shaped[c][m] /\ VarsIn[c][m] \subseteq DOMAIN a
           T == {c \in Nat : \A m \in Node : Ready(c, m) => EvalAt(a)[c][m] # "error"}
<1>1. 0 \in T
  BY ShapedAt DEF Beyond
<1>2. ASSUME NEW c \in Nat, c \in T
      PROVE  c + 1 \in T
  <2> SUFFICES ASSUME NEW m \in Node, Ready(c + 1, m)
               PROVE  EvalAt(a)[c + 1][m] # "error"
    OBVIOUS
  <2>1. c + 1 \in Nat /\ (c + 1) - 1 = c
    OBVIOUS
  <2>2. ~ Beyond(c + 1, m) /\ \A i \in DOMAIN Kids(m) : Shaped[c][Kids(m)[i]]
    BY <2>1, ShapedAt
  <2>3. WellFormed(Formula[m])
    BY <2>2 DEF Beyond
  <2>4. VarsIn[c + 1][m] = IF Formula[m].op = "var" THEN {Formula[m].arg}
                           ELSE UNION {VarsIn[(c + 1) - 1][Kids(m)[i]] : i \in DOMAIN Kids(m)}
    BY <2>1, <2>2, VarsAt
  <2>5. Formula[m].op = "var" => Formula[m].arg \in DOMAIN a
    BY <2>4
  <2>6. ASSUME Formula[m].op # "var", NEW i \in DOMAIN Kids(m)
        PROVE  EvalAt(a)[c][Kids(m)[i]] # "error"
    <3>1. Kids(m)[i] \in Node
      BY <2>3, KidFacts
    <3>2. VarsIn[c][Kids(m)[i]] \subseteq VarsIn[c + 1][m]
      BY <2>1, <2>4, <2>6, Zenon
    <3>3. Ready(c, Kids(m)[i])
      BY <2>2, <3>2
    <3> QED
      BY <1>2, <3>1, <3>3
  <2> DEFINE v == Operands(EvalAt(a)[c], m)
  <2>7. v \in [DOMAIN Kids(m) -> Value]
    BY <2>3, EvalType, OperandsType
  <2>8. EvalAt(a)[c + 1][m] = Valued(Formula[m], a, v)
    BY <2>2, EvalStep
  <2>9. CASE Formula[m].op # "var"
    <3>1. \A i \in DOMAIN Kids(m) : v[i] # "error"
      BY <2>6, <2>9 DEF Operands
    <3> HIDE DEF v
    <3> QED
      BY <2>3, <2>7, <2>8, <2>9, <3>1, ValuedFacts
  <2>10. CASE Formula[m].op = "var"
    <3>1. \A i \in DOMAIN Kids(m) : FALSE
      BY <2>3, <2>10, KidFacts DEF WellFormed, Arity, Kids
    <3> HIDE DEF v
    <3> QED
      BY <2>3, <2>5, <2>7, <2>8, <3>1, ValuedFacts
  <2> QED
    BY <2>9, <2>10
<1>3. d \in T
  <2> HIDE DEF T
  <2> QED
    BY <1>1, <1>2, DepthInduction
<1> QED
  BY <1>3

-----------------------------------------------------------------------------
(* Lists of expressions, and claims *)

LEMMA EvalFacts ==
    ASSUME NEW a \in Model, NEW e \in Node \cup {None}
    PROVE  /\ Eval(e, a) \in Value
           /\ e = None => Eval(e, a) = "error"
           /\ \A env \in Extending(a) : /\ Eval(e, a) = "true" => Holds(e, env)
                                        /\ Eval(e, a) = "false" => ~ Holds(e, env)
<1>1. MaxDepth \in Nat
  BY LogicAssumption
<1>2. CASE e = None
  BY <1>2, EvalMeaning DEF Value
<1>3. CASE e # None
  <2>1. Eval(e, a) = EvalAt(a)[MaxDepth][e] /\ e \in Node
    BY <1>3, EvalMeaning
  <2>2. EvalAt(a)[MaxDepth] \in [Node -> Value]
    BY <1>1, EvalType
  <2>3. ASSUME NEW env \in Extending(a)
        PROVE  /\ Eval(e, a) = "true" => Holds(e, env)
               /\ Eval(e, a) = "false" => ~ Holds(e, env)
    <3>1. Holds(e, env) <=> HoldsAt(env)[MaxDepth][e]
      BY HoldsMeaning
    <3>2. /\ EvalAt(a)[MaxDepth][e] = "true" => HoldsAt(env)[MaxDepth][e]
          /\ EvalAt(a)[MaxDepth][e] = "false" => ~ HoldsAt(env)[MaxDepth][e]
      BY <1>1, <2>1, EvalSound
    <3> QED
      BY <2>1, <3>1, <3>2
  <2> QED
    BY <1>3, <2>1, <2>2, <2>3
<1> QED
  BY <1>2, <1>3

LEMMA AllTrueFacts ==
    ASSUME NEW exprs \in Seq(Node \cup {None}), NEW a \in Model
    PROVE  /\ AllTrue(exprs, a) \in Value
           /\ AllTrue(exprs, a) = "true" <=> \A i \in DOMAIN exprs : Eval(exprs[i], a) = "true"
           /\ AllTrue(exprs, a) # "true" => \E i \in DOMAIN exprs : AllTrue(exprs, a) = Eval(exprs[i], a)
<1> DEFINE k == Len(exprs)
           v == [i \in DOMAIN exprs |-> Eval(exprs[i], a)]
<1>1. k \in Nat /\ DOMAIN exprs = 1..k /\ \A i \in DOMAIN exprs : exprs[i] \in Node \cup {None}
  OBVIOUS
<1>2. \A i \in DOMAIN exprs : Eval(exprs[i], a) \in Value
  BY <1>1, EvalFacts
<1>3. v \in [1..k -> Value] /\ \A i \in 1..k : v[i] = Eval(exprs[i], a)
  BY <1>1, <1>2
<1>4. AllTrue(exprs, a) = ShortCircuit("true", v) /\ "true" \in Value
  BY DEF AllTrue, Value
<1> HIDE DEF k, v
<1>5. /\ ShortCircuit("true", v) \in Value
      /\ ShortCircuit("true", v) = "true" <=> \A i \in 1..k : v[i] = "true"
      /\ ShortCircuit("true", v) # "true" => \E i \in 1..k : ShortCircuit("true", v) = v[i]
  BY <1>1, <1>3, <1>4, ShortCircuitFacts
<1> QED
  BY <1>1, <1>3, <1>4, <1>5

\* The value of the premises tells of every environment that extends the
\* model whether it is a model of the claim.
LEMMA PremisesSound ==
    ASSUME NEW c \in Claim, NEW a \in Model, NEW env \in Extending(a)
    PROVE  /\ AllTrue(c.constraints, a) = "true" => env \in Models(c)
           /\ AllTrue(c.constraints, a) = "false" => env \notin Models(c)
<1>1. c.constraints \in Seq(Node \cup {None}) /\ env \in [Name -> BOOLEAN]
  BY DEF Claim, Extending
<1>2. \A i \in DOMAIN c.constraints : c.constraints[i] \in Node \cup {None}
  BY <1>1
<1>3. ASSUME AllTrue(c.constraints, a) = "true", NEW i \in DOMAIN c.constraints
      PROVE  Holds(c.constraints[i], env)
  <2>1. Eval(c.constraints[i], a) = "true"
    BY <1>1, <1>3, AllTrueFacts
  <2> QED
    BY <1>2, <2>1, EvalFacts
<1>4. ASSUME AllTrue(c.constraints, a) = "false"
      PROVE  \E i \in DOMAIN c.constraints : ~ Holds(c.constraints[i], env)
  <2>1. PICK i \in DOMAIN c.constraints : Eval(c.constraints[i], a) = "false"
    BY <1>1, <1>4, AllTrueFacts
  <2>2. ~ Holds(c.constraints[i], env)
    BY <1>2, <2>1, EvalFacts
  <2> QED
    BY <2>2
<1> QED
  BY <1>1, <1>3, <1>4 DEF Models, AllHold

LEMMA VarsOfFacts ==
    ASSUME NEW c \in Claim
    PROVE  /\ VarsOf(c) \subseteq Name
           /\ \A i \in DOMAIN c.constraints :
                c.constraints[i] # None => VarsIn[MaxDepth][c.constraints[i]] \subseteq VarsOf(c)
           /\ c.mode = "entailment" /\ c.target # None =>
                VarsIn[MaxDepth][c.target] \subseteq VarsOf(c)
<1> DEFINE s == c.constraints
           t == Enumerated(c)
<1>1. s \in Seq(Node \cup {None}) /\ c.target \in Node \cup {None} /\ MaxDepth \in Nat
  BY LogicAssumption DEF Claim
<1>2. t \in Seq(Node \cup {None})
  BY <1>1 DEF Enumerated
<1>3. \A i \in DOMAIN s : i \in DOMAIN t /\ t[i] = s[i]
  <2>1. CASE c.mode = "entailment"
    <3>1. t = Append(s, c.target)
      BY <2>1 DEF Enumerated
    <3>2. \A i \in DOMAIN s : i \in DOMAIN Append(s, c.target) /\ Append(s, c.target)[i] = s[i]
      BY <1>1
    <3> QED
      BY <3>1, <3>2
  <2>2. CASE c.mode # "entailment"
    BY <2>2 DEF Enumerated
  <2> QED
    BY <2>1, <2>2
<1>4. ASSUME c.mode = "entailment"
      PROVE  \E i \in DOMAIN t : t[i] = c.target
  <2>1. t = Append(s, c.target)
    BY <1>4 DEF Enumerated
  <2>2. Len(s) + 1 \in DOMAIN Append(s, c.target) /\ Append(s, c.target)[Len(s) + 1] = c.target
    BY <1>1
  <2> QED
    BY <2>1, <2>2
<1>5. \A i \in DOMAIN t : t[i] # None => t[i] \in Node
  BY <1>2
<1> HIDE DEF t
<1>6. VarsOf(c) = UNION {VarsIn[MaxDepth][t[i]] : i \in {j \in DOMAIN t : t[j] # None}}
  BY DEF VarsOf, t
<1>7. \A i \in DOMAIN t : t[i] # None =>
        /\ VarsIn[MaxDepth][t[i]] \subseteq VarsOf(c)
        /\ VarsIn[MaxDepth][t[i]] \subseteq Name
  BY <1>1, <1>5, <1>6, VarsAreNames
<1>8. VarsOf(c) \subseteq Name
  BY <1>6, <1>7
<1> QED
  BY <1>3, <1>4, <1>7, <1>8

\* Every environment extends one of the assignments that are enumerated, and
\* every assignment extends to an environment.
LEMMA AssignmentFacts ==
    ASSUME NEW c \in Claim
    PROVE  /\ [VarsOf(c) -> BOOLEAN] \subseteq Model
           /\ \A env \in [Name -> BOOLEAN] : \E a \in [VarsOf(c) -> BOOLEAN] : env \in Extending(a)
           /\ \A a \in Model : \E env \in [Name -> BOOLEAN] : env \in Extending(a)
<1>1. VarsOf(c) \subseteq Name
  BY VarsOfFacts
<1> HIDE DEF VarsOf
<1>2. [VarsOf(c) -> BOOLEAN] \subseteq Model
  BY <1>1 DEF Model
<1>3. ASSUME NEW env \in [Name -> BOOLEAN]
      PROVE  \E a \in [VarsOf(c) -> BOOLEAN] : env \in Extending(a)
  <2> DEFINE a == [n \in VarsOf(c) |-> env[n]]
  <2>1. a \in [VarsOf(c) -> BOOLEAN] /\ env \in Extending(a)
    BY <1>1 DEF Extending
  <2> QED
    BY <2>1
<1>4. ASSUME NEW a \in Model
      PROVE  \E env \in [Name -> BOOLEAN] : env \in Extending(a)
  <2>1. PICK names \in SUBSET Name : a \in [names -> BOOLEAN]
    BY DEF Model
  <2> DEFINE env == [n \in Name |-> IF n \in names THEN a[n] ELSE TRUE]
  <2>2. env \in [Name -> BOOLEAN]
    BY <2>1
  <2>3. env \in Extending(a)
    BY <2>1, <2>2 DEF Extending
  <2> QED
    BY <2>2, <2>3
<1> QED
  BY <1>2, <1>3, <1>4

\* Under an assignment of its variables, a claim that is enumerated has a
\* value: the enumeration meets no error.
LEMMA EnumerationDefined ==
    ASSUME NEW c \in Claim, ShapeOK(c), Enumerable(c), NEW a \in [VarsOf(c) -> BOOLEAN]
    PROVE  /\ AllTrue(c.constraints, a) \in {"true", "false"}
           /\ c.mode = "entailment" => Eval(c.target, a) \in {"true", "false"}
<1>1. /\ c.constraints \in Seq(Node \cup {None}) /\ c.target \in Node \cup {None}
      /\ MaxDepth \in Nat /\ a \in Model /\ DOMAIN a = VarsOf(c)
  BY LogicAssumption, AssignmentFacts DEF Claim
<1>2. ASSUME NEW e \in Node, Shaped[MaxDepth][e], VarsIn[MaxDepth][e] \subseteq VarsOf(c), e # None
      PROVE  Eval(e, a) \in {"true", "false"}
  <2>1. EvalAt(a)[MaxDepth][e] # "error"
    BY <1>1, <1>2, EvalDefined
  <2>2. Eval(e, a) # "error" /\ Eval(e, a) \in Value
    BY <1>1, <1>2, <2>1, EvalMeaning, EvalFacts
  <2> QED
    BY <2>2 DEF Value
<1>3. ASSUME NEW i \in DOMAIN c.constraints
      PROVE  Eval(c.constraints[i], a) \in {"true", "false"}
  <2>1. c.constraints[i] # None /\ c.constraints[i] \in Node
    BY <1>1 DEF Enumerable
  <2>2. Shaped[MaxDepth][c.constraints[i]]
    BY <2>1 DEF ShapeOK, Roots
  <2>3. VarsIn[MaxDepth][c.constraints[i]] \subseteq VarsOf(c)
    BY <2>1, VarsOfFacts
  <2> QED
    BY <1>2, <2>1, <2>2, <2>3
<1>4. ASSUME c.mode = "entailment"
      PROVE  Eval(c.target, a) \in {"true", "false"}
  <2>1. c.target # None /\ c.target \in Node
    BY <1>1, <1>4 DEF Enumerable
  <2>2. Shaped[MaxDepth][c.target]
    BY <2>1 DEF ShapeOK, Roots
  <2>3. VarsIn[MaxDepth][c.target] \subseteq VarsOf(c)
    BY <1>4, <2>1, VarsOfFacts
  <2> QED
    BY <1>2, <2>1, <2>2, <2>3
<1>5. AllTrue(c.constraints, a) \in {"true", "false"}
  <2>1. CASE AllTrue(c.constraints, a) = "true"
    BY <2>1
  <2>2. CASE AllTrue(c.constraints, a) # "true"
    <3>1. PICK i \in DOMAIN c.constraints : AllTrue(c.constraints, a) = Eval(c.constraints[i], a)
      BY <1>1, <2>2, AllTrueFacts
    <3> QED
      BY <1>3, <3>1
  <2> QED
    BY <2>1, <2>2
<1> QED
  BY <1>4, <1>5

-----------------------------------------------------------------------------
(* The invariant: how far the enumeration has come, what it has found so   *)
(* far, that the answer is right, what it costs, and that the result says  *)
(* no more than the answer.                                                *)

Assignments == [VarsOf(submitted) -> BOOLEAN]
Premises(a) == AllTrue(submitted.constraints, a) = "true"

Stages ==
    /\ call \in Calls
    /\ pc \in {"shape", "decide", "try", "report", "done"}
    /\ pc \in {"shape", "decide"} => todo = {} /\ steps = 0 /\ premiseModel = FALSE
    /\ pc \in {"shape", "decide", "try"} => answer = Abstain
    /\ pc \in {"decide", "try"} => ShapeOK(submitted)
    /\ pc = "try" => Enumerable(submitted)
    /\ todo \subseteq Assignments
    /\ todo # {} => submitted.mode # "model_check"

\* Of the assignments tried, none has ended the enumeration, and premiseModel
\* tells whether one of them satisfies the premises.
Searched ==
    /\ premiseModel \in BOOLEAN
    /\ pc = "try" =>
         /\ \A a \in Assignments \ todo : ~ Found(submitted, a)
         /\ premiseModel <=> \E a \in Assignments \ todo : Premises(a)

Refutes(c, model) ==
    /\ c.mode = "satisfiable" => model = None
    /\ c.mode # "satisfiable" => model \in Model
    /\ c.mode = "model_check" => Extending(model) \cap Models(c) = {}
    /\ c.mode = "unsatisfiable" => Extending(model) \subseteq Models(c)
    /\ c.mode = "entailment" =>
         \A env \in Extending(model) : env \in Models(c) /\ ~ Holds(c.target, env)

Right(c, x) ==
    /\ x.verdict \in {"pass", "fail", "abstain"} /\ x.counterexample \in Model \cup {None}
    /\ x.verdict = "pass" => IsTrue(c)
    /\ x.verdict = "fail" => c.mode # "other" /\ IsFalse(c) /\ Refutes(c, x.counterexample)

Budget ==
    /\ steps \in Nat
    /\ steps + Cardinality(todo) * NodeCount(submitted) <= MaxEvalSteps

Returned ==
    [form |-> Verdict("MECHANICAL", "OK",
                {[kind |-> "INTRINSIC", outcome |-> OutcomeOf(answer.verdict),
                  isLLM |-> FALSE, applicable |-> TRUE, authoritative |-> FALSE,
                  integrity |-> FALSE, bound |-> trusted]}, {}),
     counterexample |-> IF answer.verdict = "fail" /\ trusted
                        THEN answer.counterexample ELSE None]

Reported ==
    /\ pc = "done" => result = Returned
    /\ pc # "done" => result = None

IInv == Stages /\ Searched /\ Right(submitted, answer) /\ Budget /\ Reported

-----------------------------------------------------------------------------
(* The three answers are right. *)

LEMMA CheckedRight ==
    ASSUME NEW c \in Claim, c.mode = "model_check", c.model # None, NEW x,
           \/ x = Abstain
           \/ AllTrue(c.constraints, c.model) = "true" /\ x = [Abstain EXCEPT !.verdict = "pass"]
           \/ /\ AllTrue(c.constraints, c.model) = "false"
              /\ x = [verdict |-> "fail", counterexample |-> c.model]
    PROVE  Right(c, x)
<1>1. c.model \in Model
  BY DEF Claim
<1>2. CASE x = Abstain
  BY <1>2 DEF Right, Abstain
<1>3. CASE AllTrue(c.constraints, c.model) = "true" /\ x = [Abstain EXCEPT !.verdict = "pass"]
  <2>1. x.verdict = "pass" /\ x.counterexample = None
    BY <1>3 DEF Abstain
  <2>2. Extending(c.model) \subseteq Models(c)
    BY <1>1, <1>3, PremisesSound
  <2>3. IsTrue(c)
    BY <2>2 DEF IsTrue
  <2> QED
    BY <2>1, <2>3 DEF Right
<1>4. CASE /\ AllTrue(c.constraints, c.model) = "false"
           /\ x = [verdict |-> "fail", counterexample |-> c.model]
  <2>1. x.verdict = "fail" /\ x.counterexample = c.model
    BY <1>4
  <2>2. Extending(c.model) \cap Models(c) = {}
    BY <1>1, <1>4, PremisesSound
  <2>3. IsFalse(c) /\ Refutes(c, c.model)
    BY <1>1, <2>2 DEF IsFalse, Refutes
  <2> QED
    BY <1>1, <2>1, <2>3 DEF Right
<1> QED
  BY <1>2, <1>3, <1>4

LEMMA FoundRight ==
    ASSUME NEW c \in Claim, Enumerable(c), NEW a \in [VarsOf(c) -> BOOLEAN], Found(c, a), NEW x,
           x = [verdict |-> IF c.mode = "satisfiable" THEN "pass" ELSE "fail", counterexample |-> a]
    PROVE  Right(c, x)
<1>1. /\ a \in Model /\ AllTrue(c.constraints, a) = "true"
      /\ c.mode \in {"entailment", "satisfiable", "unsatisfiable"}
  BY AssignmentFacts DEF Found, Enumerable
<1>2. Extending(a) \subseteq Models(c)
  BY <1>1, PremisesSound
<1>3. PICK env \in Extending(a) : env \in Models(c)
  BY <1>1, <1>2, AssignmentFacts
<1>4. x.counterexample = a
  OBVIOUS
<1>5. CASE c.mode = "satisfiable"
  <2>1. IsTrue(c)
    BY <1>3, <1>5 DEF IsTrue
  <2> QED
    BY <1>1, <1>4, <1>5, <2>1 DEF Right
<1>6. CASE c.mode = "unsatisfiable"
  <2>1. IsFalse(c) /\ Refutes(c, a)
    BY <1>1, <1>2, <1>3, <1>6 DEF IsFalse, Refutes
  <2> QED
    BY <1>1, <1>4, <1>6, <2>1 DEF Right
<1>7. CASE c.mode = "entailment"
  <2>1. Eval(c.target, a) = "false" /\ c.target \in Node \cup {None}
    BY <1>7 DEF Found, Claim
  <2>2. \A e \in Extending(a) : ~ Holds(c.target, e)
    BY <1>1, <2>1, EvalFacts
  <2>3. IsFalse(c) /\ Refutes(c, a)
    BY <1>1, <1>2, <1>3, <1>7, <2>2 DEF IsFalse, Refutes
  <2> QED
    BY <1>1, <1>4, <1>7, <2>3 DEF Right
<1> QED
  BY <1>1, <1>5, <1>6, <1>7

\* When no assignment ended the enumeration: every model of the claim extends
\* one that was tried, so there is none, or the target holds in all of them.
LEMMA ExhaustedRight ==
    ASSUME NEW c \in Claim, ShapeOK(c), Enumerable(c), NEW some \in BOOLEAN,
           \A a \in [VarsOf(c) -> BOOLEAN] : ~ Found(c, a),
           some <=> \E a \in [VarsOf(c) -> BOOLEAN] : AllTrue(c.constraints, a) = "true",
           NEW x, x = [Abstain EXCEPT !.verdict = ExhaustedVerdict(c.mode, some)]
    PROVE  Right(c, x)
<1>1. ASSUME NEW env \in Models(c)
      PROVE  \E a \in [VarsOf(c) -> BOOLEAN] :
               env \in Extending(a) /\ a \in Model /\ AllTrue(c.constraints, a) = "true"
  <2>1. env \in [Name -> BOOLEAN]
    BY DEF Models
  <2>2. PICK a \in [VarsOf(c) -> BOOLEAN] : env \in Extending(a)
    BY <2>1, AssignmentFacts
  <2>3. a \in Model /\ AllTrue(c.constraints, a) \in {"true", "false"}
    BY AssignmentFacts, EnumerationDefined
  <2>4. AllTrue(c.constraints, a) # "false"
    BY <2>2, <2>3, PremisesSound
  <2> QED
    BY <2>2, <2>3, <2>4
<1>2. c.mode \in {"entailment", "satisfiable", "unsatisfiable"}
  BY DEF Enumerable
<1>3. x.counterexample = None /\ x.verdict = ExhaustedVerdict(c.mode, some)
  BY DEF Abstain
<1>4. CASE c.mode # "entailment"
  <2>1. Models(c) = {}
    BY <1>1, <1>4 DEF Found
  <2>2. CASE c.mode = "satisfiable"
    <3>1. IsFalse(c) /\ Refutes(c, None)
      BY <2>1, <2>2 DEF IsFalse, Refutes
    <3> QED
      BY <1>3, <2>2, <3>1 DEF Right, ExhaustedVerdict
  <2>3. CASE c.mode = "unsatisfiable"
    <3>1. IsTrue(c)
      BY <2>1, <2>3 DEF IsTrue
    <3> QED
      BY <1>3, <2>3, <3>1 DEF Right, ExhaustedVerdict
  <2> QED
    BY <1>2, <1>4, <2>2, <2>3
<1>5. CASE c.mode = "entailment" /\ ~ some
  BY <1>3, <1>5 DEF Right, ExhaustedVerdict
<1>6. CASE c.mode = "entailment" /\ some
  <2>1. PICK a \in [VarsOf(c) -> BOOLEAN] : AllTrue(c.constraints, a) = "true"
    BY <1>6
  <2>2. a \in Model
    BY AssignmentFacts
  <2>3. PICK e \in [Name -> BOOLEAN] : e \in Extending(a)
    BY <2>2, AssignmentFacts
  <2>4. e \in Models(c)
    BY <2>1, <2>2, <2>3, PremisesSound
  <2>5. ASSUME NEW env \in Models(c)
        PROVE  Holds(c.target, env)
    <3>1. PICK b \in [VarsOf(c) -> BOOLEAN] :
            env \in Extending(b) /\ b \in Model /\ AllTrue(c.constraints, b) = "true"
      BY <1>1
    <3>2. Eval(c.target, b) # "false"
      BY <1>6, <3>1 DEF Found
    <3>3. Eval(c.target, b) \in {"true", "false"}
      BY <1>6, EnumerationDefined
    <3>4. c.target \in Node \cup {None}
      BY DEF Claim
    <3> QED
      BY <3>1, <3>2, <3>3, <3>4, EvalFacts
  <2>6. IsTrue(c)
    BY <1>6, <2>4, <2>5 DEF IsTrue
  <2> QED
    BY <1>3, <1>6, <2>6 DEF Right, ExhaustedVerdict
<1> QED
  BY <1>2, <1>4, <1>5, <1>6

-----------------------------------------------------------------------------
(* What the enumeration costs *)

LEMMA NodeCountType == ASSUME NEW c \in Claim PROVE NodeCount(c) \in Nat
<1> DEFINE s == c.constraints
           counts == [i \in DOMAIN s |-> IF s[i] = None THEN 0 ELSE Size[MaxDepth][s[i]]]
           last == IF c.target = None THEN 0 ELSE Size[MaxDepth][c.target]
<1>1. s \in Seq(Node \cup {None}) /\ c.target \in Node \cup {None} /\ MaxDepth \in Nat
  BY LogicAssumption DEF Claim
<1>2. Size[MaxDepth] \in [Node -> Nat]
  BY <1>1, SizeType
<1>3. \A i \in DOMAIN s : counts[i] \in Nat
  BY <1>1, <1>2
<1>4. counts \in Seq(Nat)
  <2>1. Len(s) \in Nat /\ DOMAIN s = 1..Len(s) /\ DOMAIN counts = DOMAIN s
    BY <1>1
  <2>2. counts = [i \in 1..Len(s) |-> counts[i]]
    BY <2>1
  <2> HIDE DEF counts
  <2>3. [i \in 1..Len(s) |-> counts[i]] \in Seq(Nat)
    BY <1>3, <2>1
  <2> QED
    BY <2>2, <2>3
<1>5. last \in Nat
  BY <1>1, <1>2
<1>6. NodeCount(c) = Total(counts) + last
  BY DEF NodeCount
<1> HIDE DEF counts, last
<1> QED
  BY <1>4, <1>5, <1>6, TotalType

\* There are as many assignments as the budget reckons with.
LEMMA AssignmentCount ==
    ASSUME NEW V, IsFiniteSet(V)
    PROVE  IsFiniteSet([V -> BOOLEAN]) /\ Cardinality([V -> BOOLEAN]) = 2 ^ Cardinality(V)
<1> DEFINE f == [W \in SUBSET V |-> [n \in V |-> n \in W]]
<1>1. f \in [SUBSET V -> [V -> BOOLEAN]]
  OBVIOUS
<1>2. ASSUME NEW W \in SUBSET V, NEW X \in SUBSET V, f[W] = f[X]
      PROVE  W = X
  <2>1. \A n \in V : f[W][n] <=> f[X][n]
    BY <1>2
  <2>2. \A n \in V : (f[W][n] <=> n \in W) /\ (f[X][n] <=> n \in X)
    OBVIOUS
  <2> HIDE DEF f
  <2> QED
    BY <2>1, <2>2
<1>3. ASSUME NEW a \in [V -> BOOLEAN]
      PROVE  \E W \in SUBSET V : f[W] = a
  <2> DEFINE W == {n \in V : a[n]}
  <2>1. \A n \in V : (n \in W) = a[n]
    OBVIOUS
  <2>2. f[W] = [n \in V |-> n \in W]
    OBVIOUS
  <2>3. f[W] = a
    BY <2>1, <2>2
  <2> QED
    BY <2>3
<1> HIDE DEF f
<1>4. f \in Bijection(SUBSET V, [V -> BOOLEAN])
  BY <1>1, <1>2, <1>3 DEF Bijection, Injection, Surjection, IsInjective
<1>5. ExistsBijection(SUBSET V, [V -> BOOLEAN])
  BY <1>4 DEF ExistsBijection
<1>6. IsFiniteSet(SUBSET V) /\ Cardinality(SUBSET V) = 2 ^ Cardinality(V)
  BY FS_SUBSET
<1> QED
  BY <1>5, <1>6, FS_Bijection

LEMMA EnumerationFits ==
    ASSUME NEW c \in Claim, Enumerable(c)
    PROVE  /\ IsFiniteSet([VarsOf(c) -> BOOLEAN])
           /\ Cardinality([VarsOf(c) -> BOOLEAN]) * NodeCount(c) <= MaxEvalSteps
<1> DEFINE N == Cardinality([VarsOf(c) -> BOOLEAN])
           M == Max({1, NodeCount(c)})
<1>1. IsFiniteSet(VarsOf(c))
  BY VarsOfFacts, LogicAssumption, FS_Subset
<1>2. IsFiniteSet([VarsOf(c) -> BOOLEAN]) /\ N = 2 ^ Cardinality(VarsOf(c))
  BY <1>1, AssignmentCount
<1>3. N \in Nat
  BY <1>2, FS_CardinalityType
<1>4. NodeCount(c) \in Nat /\ MaxEvalSteps \in Nat
  BY NodeCountType, LogicAssumption
<1>5. M \in Nat /\ NodeCount(c) <= M
  <2>1. \E x \in {1, NodeCount(c)} : \A y \in {1, NodeCount(c)} : x >= y
    BY <1>4
  <2>2. M \in {1, NodeCount(c)} /\ \A y \in {1, NodeCount(c)} : M >= y
    BY <2>1 DEF Max
  <2> QED
    BY <1>4, <2>2
<1>6. N * M <= MaxEvalSteps
  BY <1>2 DEF Enumerable, Estimated
<1> HIDE DEF N, M
<1>7. N * NodeCount(c) <= N * M
  BY <1>3, <1>4, <1>5
<1>8. N * NodeCount(c) \in Nat /\ N * M \in Nat
  BY <1>3, <1>4, <1>5
<1>9. N * NodeCount(c) <= MaxEvalSteps
  BY <1>4, <1>6, <1>7, <1>8
<1> QED
  BY <1>2, <1>9 DEF N

-----------------------------------------------------------------------------
(* Reviews and results *)

\* A binding is trusted when it was issued for the claim as it stands.
LEMMA TrustedReview == ASSUME trusted PROVE ReviewedAsItStands
<1> DEFINE r == call.review
           c == submitted
           proof == IssueBinding(r.method, r.ok, Subject(r.claim), Canonical(r.claim))
<1>1. /\ ProofOf(r) # NoProof /\ ProofOf(r).ok /\ ProofOf(r).method \in TrustedMethods
      /\ ProofOf(r).token = "binding"
      /\ SubjectMatches(ProofOf(r), Subject(c), Canonical(c))
  BY DEF trusted, BindingTrusted
<1>2. r # None
  BY <1>1 DEF ProofOf
<1>3. proof = [token |-> "binding", method |-> r.method, ok |-> r.ok,
               subject |-> Digest(r.claim, Canonical(r.claim))]
  BY DEF IssueBinding, Subject
<1> HIDE DEF proof
<1>4. ~ r.copied
  <2> SUFFICES ASSUME r.copied
               PROVE  FALSE
    OBVIOUS
  <2>1. ProofOf(r) = Copied(proof)
    BY <1>2 DEF ProofOf, proof
  <2>2. Copied(proof).token = "none"
    BY <1>3 DEF Copied
  <2> QED
    BY <1>1, <2>1, <2>2
<1>5. ProofOf(r) = proof
  BY <1>2, <1>4 DEF ProofOf, proof
<1>6. r.ok /\ r.method \in {"provenance", "semantic", "human"}
  BY <1>1, <1>3, <1>5 DEF TrustedMethods
<1>7. r.claim = c
  <2>1. /\ Digest(c, Canonical(c)) # NoHash
        /\ Digest(r.claim, Canonical(r.claim)) = Digest(c, Canonical(c))
    BY <1>1, <1>3, <1>5 DEF SubjectMatches, Subject
  <2> QED
    BY <2>1 DEF Digest
<1> QED
  BY <1>2, <1>4, <1>6, <1>7 DEF ReviewedAsItStands

LEMMA ReturnedFacts ==
    ASSUME answer.verdict \in {"pass", "fail", "abstain"},
           answer.counterexample \in Model \cup {None}
    PROVE  /\ Returned # None
           /\ Returned.form.status = IF trusted /\ answer.verdict = "pass" THEN "VERIFIED"
                                     ELSE IF trusted /\ answer.verdict = "fail" THEN "REFUTED"
                                     ELSE "UNVERIFIED"
           /\ Returned.counterexample = IF answer.verdict = "fail" /\ trusted
                                        THEN answer.counterexample ELSE None
<1> DEFINE t == trusted
           o == OutcomeOf(answer.verdict)
           v == [kind |-> "INTRINSIC", outcome |-> o, isLLM |-> FALSE, applicable |-> TRUE,
                 authoritative |-> FALSE, integrity |-> FALSE, bound |-> t]
           form == Verdict("MECHANICAL", "OK", {v}, {})
           shown == IF answer.verdict = "fail" /\ t THEN answer.counterexample ELSE None
<1>1. Returned = [form |-> form, counterexample |-> shown]
  BY DEF Returned
<1>2. t \in BOOLEAN
  BY Zenon DEF trusted, BindingTrusted
<1>3. o = IF t /\ answer.verdict = "pass" THEN "PASS"
          ELSE IF t /\ answer.verdict = "fail" THEN "FAIL" ELSE "INCONCLUSIVE"
  BY DEF OutcomeOf
<1> HIDE DEF t, o
<1>4. IsDefinitive(v) /\ v.outcome = o /\ v.bound = t
  BY DEF IsDefinitive
<1>5. "MECHANICAL" \in Class /\ "OK" \notin Incomplete /\ Ceiling("MECHANICAL") = "VERIFIED"
  BY DEF Class, Incomplete, Ceiling
<1> HIDE DEF v
<1>6. form \in DecisionForms("MECHANICAL")
  BY <1>5, VerdictForms
<1>7. form \in Forms
  BY <1>5, <1>6 DEF Forms
<1>8. shown \in Model \cup {None}
  OBVIOUS
<1>9. form.status = Capped(Signal({v}, {}), "MECHANICAL")
  BY <1>5, VerdictStatus
<1>10. /\ Definitive({v}, "FAIL", TRUE) # {} <=> o = "FAIL" /\ t
       /\ Definitive({v}, "PASS", TRUE) # {} <=> o = "PASS" /\ t
  BY <1>2, <1>4 DEF Definitive
<1>11. Contradicts({}) = {} /\ Supports({}) = {} /\ ~ Enough({})
  <2>1. Contradicts({}) = {} /\ Supports({}) = {}
    BY DEF Contradicts, Supports
  <2>2. Lineages(Trusted({})) = {}
    BY DEF Lineages, Trusted
  <2>3. Cardinality({}) = 0
    BY FS_EmptySet
  <2> QED
    BY <2>1, <2>2, <2>3, PolicyAssumption DEF Enough
<1>12. Signal({v}, {}) = IF t /\ answer.verdict = "pass" THEN "VERIFIED"
                         ELSE IF t /\ answer.verdict = "fail" THEN "REFUTED" ELSE "UNVERIFIED"
  BY <1>3, <1>10, <1>11 DEF Signal, Told
<1>13. Capped(Signal({v}, {}), "MECHANICAL") = Signal({v}, {})
  BY <1>5, <1>12 DEF Capped, Positive
<1> HIDE DEF form, shown
<1>14. Returned \in [form : Forms, counterexample : Model \cup {None}]
  BY <1>1, <1>7, <1>8
<1>15. Returned # None
  BY <1>14, LogicAssumption
<1>16. Returned.form = form /\ Returned.counterexample = shown
  BY <1>1
<1> QED
  BY <1>9, <1>12, <1>13, <1>15, <1>16 DEF shown, t

-----------------------------------------------------------------------------
(* The invariant gives the properties. *)

LEMMA InvIsTyped == ASSUME IInv PROVE TypeOK
<1>1. result # None <=> pc = "done"
  BY ReturnedFacts DEF IInv, Right, Reported, Stages
<1> QED
  BY <1>1 DEF IInv, Stages, Searched, Right, Budget, TypeOK, Assignments

LEMMA InvIsTrue == ASSUME IInv PROVE SaysWhatIsTrue
<1> SUFFICES ASSUME result # None
             PROVE  /\ result.form.status = "VERIFIED" => ReviewedAsItStands /\ IsTrue(submitted)
                    /\ result.form.status = "REFUTED" => ReviewedAsItStands /\ IsFalse(submitted)
                    /\ result.form.status \in {"VERIFIED", "REFUTED", "UNVERIFIED"}
  BY DEF SaysWhatIsTrue
<1>1. result = Returned
  BY DEF IInv, Reported
<1>2. /\ answer.verdict = "pass" => IsTrue(submitted)
      /\ answer.verdict = "fail" => IsFalse(submitted)
      /\ answer.verdict \in {"pass", "fail", "abstain"}
      /\ answer.counterexample \in Model \cup {None}
  BY DEF IInv, Right
<1>3. result.form.status = IF trusted /\ answer.verdict = "pass" THEN "VERIFIED"
                           ELSE IF trusted /\ answer.verdict = "fail" THEN "REFUTED"
                           ELSE "UNVERIFIED"
  BY <1>1, <1>2, ReturnedFacts
<1> QED
  BY <1>2, <1>3, TrustedReview

LEMMA InvShows == ASSUME IInv PROVE CounterexampleRefutes
<1> DEFINE m == result.counterexample
<1> SUFFICES ASSUME result # None
             PROVE  /\ m # None <=> result.form.status = "REFUTED" /\ submitted.mode # "satisfiable"
                    /\ m # None =>
                         LET shown == Extending(m)
                         IN  CASE submitted.mode = "model_check" -> shown \cap Models(submitted) = {}
                               [] submitted.mode = "unsatisfiable" -> shown \subseteq Models(submitted)
                               [] submitted.mode = "entailment" ->
                                    \A env \in shown :
                                      env \in Models(submitted) /\ ~ Holds(submitted.target, env)
  BY DEF CounterexampleRefutes
<1>1. result = Returned
  BY DEF IInv, Reported
<1>2. /\ answer.verdict = "fail" => submitted.mode # "other" /\ Refutes(submitted, answer.counterexample)
      /\ answer.verdict \in {"pass", "fail", "abstain"}
      /\ answer.counterexample \in Model \cup {None}
  BY DEF IInv, Right
<1>3. result.form.status = "REFUTED" <=> trusted /\ answer.verdict = "fail"
  BY <1>1, <1>2, ReturnedFacts
<1>4. m = IF answer.verdict = "fail" /\ trusted THEN answer.counterexample ELSE None
  BY <1>1, <1>2, ReturnedFacts
<1>5. None \notin Model
  BY LogicAssumption
<1>6. submitted.mode \in Mode
  BY LogicAssumption DEF IInv, Stages, submitted, Claim
<1> HIDE DEF m
<1>7. CASE ~ (answer.verdict = "fail" /\ trusted)
  BY <1>3, <1>4, <1>7
<1>8. CASE answer.verdict = "fail" /\ trusted
  <2>1. m = answer.counterexample /\ Refutes(submitted, m) /\ submitted.mode # "other"
    BY <1>2, <1>4, <1>8
  <2>2. m # None <=> submitted.mode # "satisfiable"
    BY <1>5, <2>1 DEF Refutes
  <2>3. CASE submitted.mode = "satisfiable"
    BY <1>3, <1>8, <2>2, <2>3
  <2>4. CASE submitted.mode = "model_check"
    BY <1>3, <1>8, <2>1, <2>2, <2>4 DEF Refutes
  <2>5. CASE submitted.mode = "unsatisfiable"
    BY <1>3, <1>8, <2>1, <2>2, <2>5 DEF Refutes
  <2>6. CASE submitted.mode = "entailment"
    BY <1>3, <1>8, <2>1, <2>2, <2>6 DEF Refutes
  <2> QED
    BY <1>6, <2>1, <2>3, <2>4, <2>5, <2>6 DEF Mode
<1> QED
  BY <1>7, <1>8

-----------------------------------------------------------------------------
(* The invariant holds initially and no step breaks it. *)

LEMMA SubmittedIsClaim == ASSUME call \in Calls PROVE submitted \in Claim
  BY LogicAssumption DEF submitted

LEMMA RightAbstain == ASSUME NEW c PROVE Right(c, Abstain)
  BY DEF Right, Abstain

LEMMA NothingSpent == ASSUME NEW c \in Claim PROVE 0 + Cardinality({}) * NodeCount(c) <= MaxEvalSteps
  BY NodeCountType, FS_EmptySet, LogicAssumption

LEMMA InitInv == ASSUME Init PROVE IInv
<1>1. submitted \in Claim
  BY SubmittedIsClaim DEF Init
<1>2. Stages /\ Searched /\ Reported
  BY DEF Init, Stages, Searched, Reported
<1>3. Right(submitted, answer)
  BY RightAbstain DEF Init
<1>4. Budget
  BY <1>1, NothingSpent DEF Init, Budget
<1> QED
  BY <1>2, <1>3, <1>4 DEF IInv

\* An answer ends the enumeration and changes nothing of what it cost.
LEMMA AnswerKeeps ==
    ASSUME IInv, NEW x, Answer(x), pc \in {"decide", "try"}, Right(submitted, x),
           UNCHANGED <<todo, premiseModel, steps>>
    PROVE  IInv'
<1>1. submitted' = submitted /\ Assignments' = Assignments
  BY DEF Answer, submitted, Assignments
<1>2. Stages' /\ Searched' /\ Reported'
  BY <1>1 DEF IInv, Stages, Searched, Reported, Answer
<1>3. Right(submitted, answer)'
  BY <1>1 DEF Answer
<1>4. Budget'
  BY <1>1 DEF IInv, Budget
<1> QED
  BY <1>2, <1>3, <1>4 DEF IInv

LEMMA CheckShapeKeeps == ASSUME IInv, CheckShape PROVE IInv'
<1>1. submitted' = submitted /\ Assignments' = Assignments
  BY DEF CheckShape, submitted, Assignments
<1>2. Stages' /\ Searched' /\ Reported'
  BY <1>1 DEF IInv, Stages, Searched, Reported, CheckShape
<1>3. Right(submitted, answer)' /\ Budget'
  BY <1>1 DEF IInv, Budget, CheckShape
<1> QED
  BY <1>2, <1>3 DEF IInv

LEMMA OverflowKeeps == ASSUME IInv, Overflow PROVE IInv'
  BY AnswerKeeps, RightAbstain DEF Overflow

LEMMA DeclineKeeps == ASSUME IInv, Decline PROVE IInv'
  BY AnswerKeeps, RightAbstain DEF Decline

LEMMA CheckModelKeeps == ASSUME IInv, CheckModel PROVE IInv'
<1> DEFINE c == submitted
           there == c.model # None /\ DOMAIN c.model # {} /\ c.constraints # <<>>
           value == AllTrue(c.constraints, c.model)
           x == CASE there /\ value = "true"  -> [Abstain EXCEPT !.verdict = "pass"]
                  [] there /\ value = "false" -> [verdict |-> "fail", counterexample |-> c.model]
                  [] OTHER -> Abstain
<1>1. c \in Claim /\ c.mode = "model_check" /\ pc = "decide"
  BY SubmittedIsClaim DEF IInv, Stages, CheckModel
<1>2. Answer(x) /\ UNCHANGED <<todo, premiseModel, steps>>
  BY DEF CheckModel
<1>3. Right(c, x)
  <2>1. CASE there /\ value = "true"
    BY <1>1, <2>1, CheckedRight
  <2>2. CASE there /\ value = "false"
    BY <1>1, <2>2, CheckedRight
  <2>3. CASE ~ (there /\ value = "true") /\ ~ (there /\ value = "false")
    <3>1. x = Abstain
      BY <2>3
    <3> QED
      BY <3>1, RightAbstain
  <2> QED
    BY <2>1, <2>2, <2>3
<1> HIDE DEF x
<1> QED
  BY <1>1, <1>2, <1>3, AnswerKeeps

LEMMA EnumerateKeeps == ASSUME IInv, Enumerate PROVE IInv'
<1>1. submitted' = submitted /\ Assignments' = Assignments /\ todo' = Assignments
  BY DEF Enumerate, submitted, Assignments
<1>2. submitted \in Claim /\ Enumerable(submitted) /\ pc = "decide"
  BY SubmittedIsClaim DEF IInv, Stages, Enumerate
<1>3. Stages' /\ Reported'
  BY <1>1, <1>2 DEF IInv, Stages, Reported, Enumerate, Enumerable
<1>4. Searched'
  <2>1. premiseModel' = FALSE /\ Assignments' \ todo' = {}
    BY <1>1, <1>2 DEF IInv, Stages, Enumerate
  <2> QED
    BY <2>1 DEF Searched
<1>5. Right(submitted, answer)'
  BY <1>1 DEF IInv, Enumerate
<1>6. Budget'
  <2>1. steps' = 0
    BY <1>2 DEF IInv, Stages, Enumerate
  <2>2. Cardinality(todo') * NodeCount(submitted') <= MaxEvalSteps
    BY <1>1, <1>2, EnumerationFits DEF Assignments
  <2>3. Cardinality(todo') \in Nat /\ NodeCount(submitted') \in Nat
    BY <1>1, <1>2, EnumerationFits, FS_CardinalityType, NodeCountType DEF Assignments
  <2>4. Cardinality(todo') * NodeCount(submitted') \in Nat
    BY <2>3
  <2> QED
    BY <2>1, <2>2, <2>4 DEF Budget
<1> QED
  BY <1>3, <1>4, <1>5, <1>6 DEF IInv

LEMMA TryKeeps == ASSUME IInv, NEW a \in todo, Try(a) PROVE IInv'
<1> DEFINE c == submitted
           x == [verdict |-> IF c.mode = "satisfiable" THEN "pass" ELSE "fail", counterexample |-> a]
<1>1. call' = call /\ result' = result
  BY DEF Try, Answer
<1>2. submitted' = submitted /\ Assignments' = Assignments
  BY <1>1 DEF submitted, Assignments
<1>3. /\ pc = "try" /\ c \in Claim /\ ShapeOK(c) /\ Enumerable(c)
      /\ todo \subseteq Assignments /\ a \in Assignments /\ todo' = todo \ {a}
      /\ call \in Calls /\ result = None
  BY SubmittedIsClaim DEF IInv, Stages, Reported, Try
<1>4. Budget'
  <2> DEFINE k == Cardinality(todo)
             n == NodeCount(c)
  <2>1. IsFiniteSet(todo)
    BY <1>3, EnumerationFits, FS_Subset DEF Assignments
  <2>2. k \in Nat /\ n \in Nat /\ Cardinality(todo \ {a}) = k - 1 /\ Cardinality(todo \ {a}) \in Nat
    BY <1>3, <2>1, FS_CardinalityType, FS_RemoveElement, NodeCountType
  <2>3. steps \in Nat /\ steps + k * n <= MaxEvalSteps /\ steps' = steps + n
    BY DEF IInv, Budget, Try
  <2> HIDE DEF k, n
  <2>4. steps' \in Nat
    BY <2>2, <2>3
  <2>5. (k - 1) * n = k * n - n /\ k * n \in Nat
    BY <2>2
  <2>6. steps' + (k - 1) * n <= MaxEvalSteps
    BY <2>2, <2>3, <2>5, LogicAssumption
  <2>7. steps' + Cardinality(todo') * NodeCount(submitted') <= MaxEvalSteps
    BY <1>2, <1>3, <2>2, <2>6 DEF n
  <2> QED
    BY <2>4, <2>7 DEF Budget
<1>5. CASE Found(c, a)
  <2>1. Answer(x)
    BY <1>5 DEF Try
  <2>2. answer' = x /\ pc' = "report"
    BY <2>1 DEF Answer
  <2>3. Right(c, x)
    BY <1>3, <1>5, FoundRight DEF Assignments
  <2> HIDE DEF x
  <2>4. premiseModel' \in BOOLEAN
    BY DEF Try, IInv, Searched
  <2>5. Stages' /\ Searched' /\ Reported'
    BY <1>1, <1>2, <1>3, <2>2, <2>4 DEF IInv, Stages, Searched, Reported
  <2>6. Right(submitted, answer)'
    BY <1>2, <2>2, <2>3
  <2> QED
    BY <1>4, <2>5, <2>6 DEF IInv
<1>6. CASE ~ Found(c, a)
  <2>1. pc' = pc /\ answer' = answer
    BY <1>6 DEF Try
  <2>2. Stages' /\ Reported'
    BY <1>1, <1>2, <1>3, <2>1 DEF IInv, Stages, Reported
  <2>3. Assignments' \ todo' = (Assignments \ todo) \cup {a}
    BY <1>2, <1>3
  <2>4. \A b \in Assignments' \ todo' : ~ Found(submitted', b)
    BY <1>2, <1>3, <1>6, <2>3 DEF IInv, Searched
  <2>5. premiseModel' <=> \E b \in Assignments' \ todo' : Premises(b)'
    <3>1. premiseModel' <=> premiseModel \/ Premises(a)
      BY DEF Try, Premises
    <3>2. premiseModel <=> \E b \in Assignments \ todo : Premises(b)
      BY <1>3 DEF IInv, Searched
    <3>3. \A b : Premises(b)' <=> Premises(b)
      BY <1>2 DEF Premises
    <3> QED
      BY <2>3, <3>1, <3>2, <3>3
  <2>6. premiseModel' \in BOOLEAN
    BY DEF Try, IInv, Searched
  <2>7. Searched'
    BY <2>4, <2>5, <2>6 DEF Searched
  <2>8. Right(submitted, answer)'
    BY <1>2, <2>1 DEF IInv
  <2> QED
    BY <1>4, <2>2, <2>7, <2>8 DEF IInv
<1> QED
  BY <1>5, <1>6

LEMMA ExhaustKeeps == ASSUME IInv, Exhaust PROVE IInv'
<1> DEFINE c == submitted
           x == [Abstain EXCEPT !.verdict = ExhaustedVerdict(c.mode, premiseModel)]
<1>1. /\ pc = "try" /\ todo = {} /\ Answer(x) /\ UNCHANGED <<todo, premiseModel, steps>>
  BY DEF Exhaust
<1>2. c \in Claim /\ ShapeOK(c) /\ Enumerable(c)
  BY <1>1, SubmittedIsClaim DEF IInv, Stages
<1>3. /\ premiseModel \in BOOLEAN
      /\ \A a \in [VarsOf(c) -> BOOLEAN] : ~ Found(c, a)
      /\ premiseModel <=> \E a \in [VarsOf(c) -> BOOLEAN] : AllTrue(c.constraints, a) = "true"
  BY <1>1 DEF IInv, Searched, Assignments, Premises
<1>4. Right(c, x)
  BY <1>2, <1>3, ExhaustedRight
<1> HIDE DEF x
<1> QED
  BY <1>1, <1>4, AnswerKeeps

LEMMA ReportKeeps == ASSUME IInv, Report PROVE IInv'
<1>1. submitted' = submitted /\ Assignments' = Assignments /\ answer' = answer /\ trusted' = trusted
  BY DEF Report, submitted, Assignments, trusted
<1>2. result' = Returned /\ pc' = "done"
  BY DEF Report, Returned
<1>3. Returned' = Returned
  BY <1>1 DEF Returned, OutcomeOf
<1>4. Stages' /\ Searched' /\ Budget'
  BY <1>1, <1>2 DEF IInv, Stages, Searched, Budget, Report
<1>5. Right(submitted, answer)'
  BY <1>1 DEF IInv
<1> QED
  BY <1>2, <1>3, <1>4, <1>5 DEF IInv, Reported

LEMMA IdleKeeps == ASSUME IInv, UNCHANGED vars PROVE IInv'
<1>1. /\ submitted' = submitted /\ Assignments' = Assignments /\ Returned' = Returned
      /\ UNCHANGED <<call, pc, todo, premiseModel, answer, steps, result>>
  BY DEF vars, submitted, Assignments, Returned, OutcomeOf, trusted
<1>2. Stages' /\ Budget' /\ Right(submitted, answer)'
  BY <1>1 DEF IInv, Stages, Budget
<1>3. Searched'
  <2>1. \A b : Premises(b)' <=> Premises(b)
    BY <1>1 DEF Premises
  <2> QED
    BY <1>1, <2>1 DEF IInv, Searched
<1>4. Reported'
  BY <1>1 DEF IInv, Reported
<1> QED
  BY <1>2, <1>3, <1>4 DEF IInv

LEMMA InvKeeps == ASSUME IInv, [Next]_vars PROVE IInv'
<1>1. CASE UNCHANGED vars
  BY <1>1, IdleKeeps
<1>2. CASE CheckShape
  BY <1>2, CheckShapeKeeps
<1>3. CASE Overflow
  BY <1>3, OverflowKeeps
<1>4. CASE CheckModel
  BY <1>4, CheckModelKeeps
<1>5. CASE Decline
  BY <1>5, DeclineKeeps
<1>6. CASE Enumerate
  BY <1>6, EnumerateKeeps
<1>7. ASSUME NEW a \in todo, Try(a)
      PROVE  IInv'
  BY <1>7, TryKeeps
<1>8. CASE Exhaust
  BY <1>8, ExhaustKeeps
<1>9. CASE Report
  BY <1>9, ReportKeeps
<1> QED
  BY <1>1, <1>2, <1>3, <1>4, <1>5, <1>6, <1>7, <1>8, <1>9 DEF Next

THEOREM LogicInvariant == Spec => []IInv
<1>1. Init => IInv
  BY InitInv
<1>2. IInv /\ [Next]_vars => IInv'
  BY InvKeeps
<1> QED
  BY <1>1, <1>2, PTL DEF Spec

\* VERIFIED and REFUTED are said only of claims reviewed as they stand, and are
\* then right (SaysWhatIsTrue), however the lane came to them: by evaluating
\* the model given or by trying every assignment in any order.
THEOREM NeverAGuess == Spec => []SaysWhatIsTrue
<1>1. IInv => SaysWhatIsTrue
  BY InvIsTrue
<1> QED
  BY <1>1, LogicInvariant, PTL

\* The counterexample that comes with a refuted claim does refute it
\* (CounterexampleRefutes).
THEOREM CounterexamplesRefute == Spec => []CounterexampleRefutes
<1>1. IInv => CounterexampleRefutes
  BY InvShows
<1> QED
  BY <1>1, LogicInvariant, PTL

\* The state is well formed, and the expressions evaluated so far and those of
\* the assignments left never exceed MAX_EVAL_STEPS (WithinBudget).
THEOREM EnumerationWithinBudget == Spec => []WithinBudget
<1>1. IInv => WithinBudget
  BY InvIsTyped DEF IInv, Budget, WithinBudget
<1> QED
  BY <1>1, LogicInvariant, PTL
=============================================================================
