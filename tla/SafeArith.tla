----------------------------- MODULE SafeArith -----------------------------
(***************************************************************************)
(* The bounded evaluation of arithmetic relations                          *)
(* (glass_ionomer/verify/safe_arith.py), on the trees Python's parser      *)
(* makes of them, with the types Python gives the results.                 *)
(*                                                                         *)
(* Fractions and integers are exact.  A float is the multiple of 1/Grid    *)
(* next to the value: a coarse grid in place of the 53 bits of a double.   *)
(* No tree has a power with a float that is no whole number as exponent.   *)
(***************************************************************************)
EXTENDS Integers, Sequences, FiniteSetsExt

CONSTANTS Tree,         \* the arithmetic trees, each with its operands
          MaxNodes, MaxDepth, MaxOperand, MaxExponent,
          Grid,
          Error         \* an exception

Unary == {"plus", "minus"}
Binary == {"+", "-", "*", "/", "//", "%", "**"}
Comparator == {"==", "!=", "<", ">", "<=", ">="}

\* The operands of a tree: numbers, truth values, and the syntax that is not
\* arithmetic (a name, a call) have none.
Operands(t) ==
    IF t.op \in Unary THEN {t.arg}
    ELSE IF t.op \in Binary THEN {t.left, t.right} ELSE {}

\* ok = left op right, and so on along the chain.
Relation(r) == /\ r.operands \in Seq(Tree) /\ r.comparators \in Seq(Comparator)
               /\ Len(r.operands) = Len(r.comparators) + 1 /\ r.comparators # <<>>

-----------------------------------------------------------------------------
(* The bounds on a tree *)

\* Nodes of Python's tree, in which every operator is a node of its own.
Nodes[t \in Tree] ==
    CASE t.op \in Unary  -> 2 + Nodes[t.arg]
      [] t.op \in Binary -> 2 + Nodes[t.left] + Nodes[t.right]
      [] OTHER           -> 1

\* A number as Python holds it: n / d, of one of the types.
Value == [type : {"int", "frac", "float"}, n : Int, d : Nat \ {0}]

\* What the parser makes is finite: every tree has its nodes, and more of them
\* than its operands.
ASSUME SafeArithAssumption ==
    /\ {MaxNodes, MaxDepth, MaxOperand, MaxExponent} \subseteq Nat
    /\ Grid \in Nat \ {0}
    /\ Error \notin Value
    /\ \A t \in Tree :
         /\ Nodes[t] \in Nat
         /\ \A s \in Operands(t) : s \in Tree /\ Nodes[s] < Nodes[t]
         /\ t.op = "number" => t.n \in Int /\ t.d \in Nat \ {0}

Depth[t \in Tree] ==
    IF Operands(t) = {} THEN 0 ELSE 1 + Max({Depth[s] : s \in Operands(t)})

\* check_arithmetic_bounds, on the expression, its comparison, the comparison
\* operators and the sides.
WithinBounds(r) ==
    /\ 2 + Len(r.comparators) + MapThenSumSet(LAMBDA i : Nodes[r.operands[i]], DOMAIN r.operands)
         <= MaxNodes
    /\ \A i \in DOMAIN r.operands : 2 + Depth[r.operands[i]] <= MaxDepth

-----------------------------------------------------------------------------
(* Numbers *)

Sign(n) == IF n < 0 THEN -1 ELSE 1
Abs(n) == Sign(n) * n
Floor(n, d) == (Sign(d) * n) \div Abs(d)

\* n / d as an integer or a fraction in lowest terms.
Rational(type, n, d) ==
    LET g == Max({k \in 1..Abs(d) : n % k = 0 /\ d % k = 0})
    IN  [type |-> type, n |-> Floor(n, Sign(d) * g), d |-> Abs(d) \div g]

\* The float next to n / d.
Float(n, d) == [type |-> "float", n |-> Floor(2 * Grid * n + d, 2 * d), d |-> Grid]

\* n raised to the power k.
ToPower(n, k) ==
    LET power[i \in Nat] == IF i = 0 THEN 1 ELSE n * power[i - 1]
    IN  power[k]

Number(type, n, d) == IF type = "float" THEN Float(n, d) ELSE Rational(type, n, d)

\* The type in which Python computes with two numbers.
Common(a, b) ==
    CASE "float" \in {a.type, b.type} -> "float"
      [] "float" \notin {a.type, b.type} /\ "frac" \in {a.type, b.type} -> "frac"
      [] OTHER -> "int"

\* _bound_operand
Bounded(a) == IF a # Error /\ Abs(a.n) > MaxOperand * a.d THEN Error ELSE a

Compare(op, a, b) ==
    LET x == a.n * b.d
        y == b.n * a.d
    IN  CASE op = "==" -> x = y
          [] op = "!=" -> x # y
          [] op = "<"  -> x < y
          [] op = ">"  -> x > y
          [] op = "<=" -> x <= y
          [] op = ">=" -> x >= y

-----------------------------------------------------------------------------
(* Operators *)

\* int / int is a float; with a fraction it is a fraction.
Quotient(a, b) ==
    LET type == IF Common(a, b) = "int" THEN "float" ELSE Common(a, b)
    IN  IF b.n = 0 THEN Error ELSE Number(type, a.n * b.d, a.d * b.n)

\* fraction // fraction is an int.
FloorQuotient(a, b) ==
    LET type == IF Common(a, b) = "float" THEN "float" ELSE "int"
    IN  IF b.n = 0 THEN Error ELSE Number(type, Floor(a.n * b.d, a.d * b.n), 1)

Remainder(a, b) ==
    IF b.n = 0 THEN Error
    ELSE Number(Common(a, b),
                a.n * b.d - Floor(a.n * b.d, a.d * b.n) * (b.n * a.d), a.d * b.d)

\* An int to a negative power is a float when the exponent is an int, and a
\* fraction when it is a fraction.
Power(a, b) ==
    LET k    == b.n \div b.d
        type == IF "float" \in {a.type, b.type} THEN "float"
                ELSE IF a.type = "frac" THEN "frac"
                ELSE IF k >= 0 THEN "int"
                ELSE IF b.type = "int" THEN "float" ELSE "frac"
    IN  IF \/ Abs(b.n) > MaxExponent * b.d
           \/ b.type = "frac" /\ b.d # 1
           \/ a.n = 0 /\ k < 0
        THEN Error
        ELSE IF k = 0 THEN Number(type, 1, 1)
        ELSE IF k > 0 THEN Number(type, ToPower(a.n, k), ToPower(a.d, k))
                      ELSE Number(type, ToPower(a.d, -k), ToPower(a.n, -k))

\* _UNARY_OPS
Signed(op, a) == IF op = "minus" THEN [a EXCEPT !.n = - @] ELSE a

Apply(op, a, b) ==
    CASE op = "+"  -> Number(Common(a, b), a.n * b.d + b.n * a.d, a.d * b.d)
      [] op = "-"  -> Number(Common(a, b), a.n * b.d - b.n * a.d, a.d * b.d)
      [] op = "*"  -> Number(Common(a, b), a.n * b.n, a.d * b.d)
      [] op = "/"  -> Quotient(a, b)
      [] op = "//" -> FloorQuotient(a, b)
      [] op = "%"  -> Remainder(a, b)
      [] op = "**" -> Power(a, b)

\* A number taken into a computation with floats is made one first.
Operand(a, other) ==
    IF other.type = "float" THEN Float(a.n, a.d) ELSE a

-----------------------------------------------------------------------------
(* Evaluation *)

\* Mutated form of Literal: an integer is left the int it is parsed as.
LiteralAsParsed(t) == Bounded(Rational(IF t.d = 1 THEN "int" ELSE "frac", t.n, t.d))

Literal(t) == Bounded(Rational("frac", t.n, t.d))

\* Whatever raises, the evaluation ends there.
OneOperand(op, a) == IF a = Error THEN Error ELSE Bounded(Signed(op, a))
TwoOperands(op, a, b) ==
    IF Error \in {a, b} THEN Error ELSE Bounded(Apply(op, Operand(a, b), Operand(b, a)))

\* _numeric, for relations.
Numeric[t \in Tree] ==
    IF t.op = "number" THEN Literal(t)
    ELSE IF t.op \in Unary THEN OneOperand(t.op, Numeric[t.arg])
    ELSE IF t.op \in Binary THEN TwoOperands(t.op, Numeric[t.left], Numeric[t.right])
    ELSE Error

\* Mutated form of EvaluateRelation: an operand is compared with the first one.
EvaluateFromFirst(r) ==
    LET value == [i \in DOMAIN r.operands |-> Numeric[r.operands[i]]]
    IN  IF ~ WithinBounds(r) \/ \E i \in DOMAIN value : value[i] = Error THEN "ERROR"
        ELSE IF \A i \in DOMAIN r.comparators : Compare(r.comparators[i], value[1], value[i + 1])
             THEN "PASS" ELSE "FAIL"

\* evaluate_relation: every side is evaluated, also when a link has failed.
EvaluateRelation(r) ==
    LET value == [i \in DOMAIN r.operands |-> Numeric[r.operands[i]]]
    IN  IF ~ WithinBounds(r) \/ \E i \in DOMAIN value : value[i] = Error THEN "ERROR"
        ELSE IF \A i \in DOMAIN r.comparators : Compare(r.comparators[i], value[i], value[i + 1])
             THEN "PASS" ELSE "FAIL"

-----------------------------------------------------------------------------
(* What a relation says, for comparison: arithmetic on exact fractions *)

ExactOne(op, a) == IF a = Error THEN Error ELSE Signed(op, a)
ExactTwo(op, a, b) ==
    LET value == Apply(op, a, b)
    IN  IF Error \in {a, b} \/ value = Error THEN Error ELSE Rational("frac", value.n, value.d)

Exact[t \in Tree] ==
    IF t.op = "number" THEN Rational("frac", t.n, t.d)
    ELSE IF t.op \in Unary THEN ExactOne(t.op, Exact[t.arg])
    ELSE IF t.op \in Binary THEN ExactTwo(t.op, Exact[t.left], Exact[t.right])
    ELSE Error

IsTrue(r) ==
    \A i \in DOMAIN r.comparators :
        Compare(r.comparators[i], Exact[r.operands[i]], Exact[r.operands[i + 1]])

\* Whether a floor division, whose value is an int, is divided, divides or is
\* raised to a power.
HasFloor[t \in Tree] == t.op = "//" \/ \E s \in Operands(t) : HasFloor[s]
DividesFloor[t \in Tree] ==
    \/ t.op \in {"/", "**"} /\ \E s \in Operands(t) : HasFloor[s]
    \/ \E s \in Operands(t) : DividesFloor[s]
=============================================================================
