------------------------------ MODULE LogicLane ------------------------------
(***************************************************************************)
(* One call of verify_logic_claim (glass_ionomer/lanes/logic/verify.py):   *)
(* a propositional claim is checked against one model, or by trying every  *)
(* assignment of its variables, and the outcome goes through decide_status.*)
(*                                                                         *)
(* Expressions are the nodes of a table.  Its kids may be shared and, as   *)
(* the code takes lists, may form cycles, which the shape check has to     *)
(* refuse.                                                                 *)
(***************************************************************************)
EXTENDS DecisionRule, Trust, Sequences

CONSTANTS Node, Formula,  \* the expressions, and what each of them is
          Name,           \* names of variables
          Calls,          \* the claims submitted
          None,           \* no expression, no model, no answer
          MaxVars, MaxDepth, MaxNodes, MaxEvalSteps,
          StackDepth      \* the depth at which the interpreter's stack may end

\* op "other" is an unknown operator, or an object that is no expression.  arg
\* is the operand of const and var, "" being one of the wrong type; a kid None
\* is an operand that is no expression.
Expression == [op   : {"const", "var", "not", "and", "or", "imp", "iff", "xor", "other"},
               arg  : {"true", "false", ""} \cup Name,
               kids : Seq(Node \cup {None})]

Mode == {"model_check", "entailment", "satisfiable", "unsatisfiable", "other"}

\* A model may leave variables out.
Model == UNION {[names -> BOOLEAN] : names \in SUBSET Name}

\* text stands for the claim's identity and wording.
Claim == [text        : Nat,
          mode        : Mode,
          constraints : Seq(Node \cup {None}),
          target      : Node \cup {None},
          model       : Model \cup {None}]

ASSUME LogicAssumption ==
    /\ Formula \in [Node -> Expression]
    /\ IsFiniteSet(Node) /\ IsFiniteSet(Name)
    /\ MaxVars \in Nat /\ MaxDepth \in Nat /\ MaxNodes \in Nat /\ MaxEvalSteps \in Nat
    /\ StackDepth \in Nat
    /\ \A call \in Calls : call.claim \in Claim
    /\ None \notin Model \cup [form : Forms, counterexample : Model \cup {None}]

-----------------------------------------------------------------------------
(* Expressions.  The functions take the depth that is left: a path through *)
(* a cycle uses it up.                                                     *)

Arity(op, n) ==
    CASE op \in {"const", "var"}       -> n = 0
      [] op = "not"                    -> n = 1
      [] op \in {"imp", "iff", "xor"}  -> n = 2
      [] op \in {"and", "or"}          -> n >= 2
      [] op = "other"                  -> FALSE

\* Mutated form of WellFormed: the operand of const is not looked at.
WellFormedLoose(f) == Arity(f.op, Len(f.kids)) /\ \A i \in DOMAIN f.kids : f.kids[i] # None

WellFormed(f) ==
    /\ Arity(f.op, Len(f.kids))
    /\ f.op = "const" => f.arg \in {"true", "false"}
    /\ f.op = "var" => f.arg \in Name
    /\ \A i \in DOMAIN f.kids : f.kids[i] # None

\* Where a path leaves what passes the shape check: at no depth, or at an
\* expression that is not well formed.
Beyond(d, n) == d = 0 \/ ~ WellFormed(Formula[n])

Kids(n) == Formula[n].kids

\* _check_shape: every path ends within the depth in well-formed expressions.
Shaped[d \in Nat] ==
    [n \in Node |-> ~ Beyond(d, n) /\ \A i \in DOMAIN Kids(n) : Shaped[d - 1][Kids(n)[i]]]

Total(counts) ==
    LET sum[i \in 0..Len(counts)] == IF i = 0 THEN 0 ELSE sum[i - 1] + counts[i]
    IN  sum[Len(counts)]

\* The nodes it counts, a shared one as often as it is reached.
Size[d \in Nat] ==
    [n \in Node |->
       IF Beyond(d, n) THEN 1
       ELSE 1 + Total([i \in DOMAIN Kids(n) |-> Size[d - 1][Kids(n)[i]]])]

\* _collect_vars, of expressions that passed the shape check
VarsIn[d \in Nat] ==
    [n \in Node |->
       IF Beyond(d, n) THEN {}
       ELSE IF Formula[n].op = "var" THEN {Formula[n].arg}
       ELSE UNION {VarsIn[d - 1][Kids(n)[i]] : i \in DOMAIN Kids(n)}]

\* all and any: the first operand that is not the neutral value decides, and
\* those after it are not evaluated.
ShortCircuit(neutral, values) ==
    LET others == {i \in DOMAIN values : values[i] # neutral}
    IN  IF others = {} THEN neutral ELSE values[Min(others)]

Truth(b) == IF b THEN "true" ELSE "false"
Negated(v) == CASE v = "true" -> "false" [] v = "false" -> "true" [] v = "error" -> "error"

\* Mutated form of Connective: an implication looks at its conclusion only.
ConnectiveConclusion(op, v) ==
    IF op = "imp" THEN v[2]
    ELSE CASE op = "not" -> Negated(v[1])
           [] op = "and" -> ShortCircuit("true", v)
           [] op = "or"  -> ShortCircuit("false", v)
           [] op = "iff" -> IF "error" \in {v[1], v[2]} THEN "error" ELSE Truth(v[1] = v[2])
           [] op = "xor" -> IF "error" \in {v[1], v[2]} THEN "error" ELSE Truth(v[1] # v[2])

Connective(op, v) ==
    CASE op = "not" -> Negated(v[1])
      [] op = "and" -> ShortCircuit("true", v)
      [] op = "or"  -> ShortCircuit("false", v)
      [] op = "imp" -> ShortCircuit("false", <<Negated(v[1]), v[2]>>)
      [] op = "iff" -> IF "error" \in {v[1], v[2]} THEN "error" ELSE Truth(v[1] = v[2])
      [] op = "xor" -> IF "error" \in {v[1], v[2]} THEN "error" ELSE Truth(v[1] # v[2])

\* An expression, from the values of its operands: "error" for a variable the
\* environment does not bind.
Valued(f, env, v) ==
    CASE f.op = "const" -> f.arg
      [] f.op = "var"   -> IF f.arg \in DOMAIN env THEN Truth(env[f.arg]) ELSE "error"
      [] OTHER          -> Connective(f.op, v)

\* _eval, of expressions that passed the shape check
Eval(e, env) ==
    LET value[d \in Nat] ==
          [n \in Node |->
             IF Beyond(d, n) THEN "error"
             ELSE Valued(Formula[n], env, [i \in DOMAIN Kids(n) |-> value[d - 1][Kids(n)[i]]])]
    IN  IF e = None THEN "error" ELSE value[MaxDepth][e]

-----------------------------------------------------------------------------
(* Claims *)

Roots(c) == ({c.constraints[i] : i \in DOMAIN c.constraints} \cup {c.target}) \ {None}

\* A constraint that is None is passed over by the shape check.
NodeCount(c) ==
    Total([i \in DOMAIN c.constraints |->
             IF c.constraints[i] = None THEN 0 ELSE Size[MaxDepth][c.constraints[i]]])
    + IF c.target = None THEN 0 ELSE Size[MaxDepth][c.target]

ShapeOK(c) ==
    /\ \A e \in Roots(c) : Shaped[MaxDepth][e]
    /\ NodeCount(c) <= MaxNodes

\* A formula is too deep for the stack when some path is longer than StackDepth.
Deep(c) == \E e \in Roots(c) : ~ Shaped[StackDepth][e]

\* The expressions whose variables are enumerated.
Enumerated(c) == IF c.mode = "entailment" THEN Append(c.constraints, c.target)
                                          ELSE c.constraints

VarsOf(c) ==
    UNION {VarsIn[MaxDepth][Enumerated(c)[i]] :
             i \in {j \in DOMAIN Enumerated(c) : Enumerated(c)[j] # None}}

\* The paths from an expression that are at least k long.
Endless[k \in Nat, n \in Node] ==
    \/ k = 0
    \/ \E i \in DOMAIN Formula[n].kids :
         Formula[n].kids[i] # None /\ Endless[k - 1, Formula[n].kids[i]]

\* A subject that holds a cycle has no digest.
Canonical(c) == \A e \in Roots(c) : ~ Endless[Cardinality(Node), e]

\* Mutated form of Subject: the target is left out of what is reviewed.
SubjectUntargeted(c) == [c EXCEPT !.target = None]

\* logic_binding_subject
Subject(c) == c

-----------------------------------------------------------------------------
(* A call.  review is what an operator reviewed: nothing, or a claim with  *)
(* the method and finding of the review, the proof of which may have been  *)
(* copied on its way.                                                      *)

ProofOf(review) ==
    IF review = None THEN NoProof
    ELSE LET proof == IssueBinding(review.method, review.ok, Subject(review.claim),
                                   Canonical(review.claim))
         IN  IF review.copied THEN Copied(proof) ELSE proof

VARIABLES call,    \* the claim and its review
          pc,      \* "shape", "decide", "try", "report" or "done"
          todo,    \* the assignments not tried yet
          premiseModel,  \* any_premise_model: some assignment satisfied the premises
          answer,  \* what _decide returned, and its counterexample
          steps,   \* expressions evaluated by the enumeration, at most
          result   \* the LogicResult

vars == <<call, pc, todo, premiseModel, answer, steps, result>>

submitted == call.claim
trusted == BindingTrusted(ProofOf(call.review), Subject(submitted), Canonical(submitted))
Abstain == [verdict |-> "abstain", counterexample |-> None]

Init ==
    /\ call \in Calls
    /\ pc = "shape"
    /\ todo = {} /\ premiseModel = FALSE /\ steps = 0
    /\ answer = Abstain
    /\ result = None

Answer(a) ==
    /\ answer' = a
    /\ pc' = "report"
    /\ UNCHANGED <<call, result>>

CheckShape ==
    /\ pc = "shape"
    /\ pc' = IF ShapeOK(submitted) THEN "decide" ELSE "report"
    /\ UNCHANGED <<call, todo, premiseModel, answer, steps, result>>

\* The recursion of _eval and _collect_vars ends in a RecursionError.
Overflow ==
    /\ pc \in {"decide", "try"}
    /\ Deep(submitted)
    /\ Answer(Abstain)
    /\ UNCHANGED <<todo, premiseModel, steps>>

\* The values of a list of expressions: the first that is not true decides.
AllTrue(exprs, env) == ShortCircuit("true", [i \in DOMAIN exprs |-> Eval(exprs[i], env)])

CheckModel ==
    /\ pc = "decide" /\ submitted.mode = "model_check"
    /\ LET there == submitted.model # None /\ DOMAIN submitted.model # {} /\ submitted.constraints # <<>>
           value == AllTrue(submitted.constraints, submitted.model)
       IN  Answer(CASE there /\ value = "true"  -> [Abstain EXCEPT !.verdict = "pass"]
                    [] there /\ value = "false" -> [verdict |-> "fail", counterexample |-> submitted.model]
                    [] OTHER -> Abstain)
    /\ UNCHANGED <<todo, premiseModel, steps>>

\* Mutated form of Estimated: the size of the formulas is forgotten.
EstimatedAssignments(claim) == 2 ^ Cardinality(VarsOf(claim))

Estimated(claim) == 2 ^ Cardinality(VarsOf(claim)) * Max({1, NodeCount(claim)})

Enumerable(claim) ==
    /\ claim.mode \in {"entailment", "satisfiable", "unsatisfiable"}
    /\ claim.mode = "entailment" => claim.target # None
    /\ \A i \in DOMAIN claim.constraints : claim.constraints[i] # None
    /\ Cardinality(VarsOf(claim)) <= MaxVars
    /\ Estimated(claim) <= MaxEvalSteps

\* No target, an operand that is no expression, an unknown mode, too many
\* variables or too much work.
Decline ==
    /\ pc = "decide" /\ submitted.mode # "model_check" /\ ~ Enumerable(submitted)
    /\ Answer(Abstain)
    /\ UNCHANGED <<todo, premiseModel, steps>>

Enumerate ==
    /\ pc = "decide" /\ Enumerable(submitted)
    /\ todo' = [VarsOf(submitted) -> BOOLEAN]
    /\ pc' = "try"
    /\ UNCHANGED <<call, premiseModel, answer, steps, result>>

\* Mutated form of Found: entailment looks for a model of the target instead
\* of one that violates it.
FoundModel(claim, a) ==
    /\ AllTrue(claim.constraints, a) = "true"
    /\ claim.mode = "entailment" => Eval(claim.target, a) = "true"

\* The assignment that ends the enumeration.
Found(claim, a) ==
    /\ AllTrue(claim.constraints, a) = "true"
    /\ claim.mode = "entailment" => Eval(claim.target, a) = "false"

\* The order of itertools.product is left open.
Try(a) ==
    /\ pc = "try" /\ a \in todo
    /\ todo' = todo \ {a}
    /\ steps' = steps + NodeCount(submitted)
    /\ premiseModel' = (premiseModel \/ AllTrue(submitted.constraints, a) = "true")
    /\ IF Found(submitted, a)
       THEN Answer([verdict |-> IF submitted.mode = "satisfiable" THEN "pass" ELSE "fail",
                    counterexample |-> a])
       ELSE UNCHANGED <<call, pc, answer, result>>

\* Mutated form of ExhaustedVerdict: premises without a model entail anything.
VacuousVerdict(mode, some) == IF mode = "satisfiable" THEN "fail" ELSE "pass"

ExhaustedVerdict(mode, some) ==
    CASE mode = "entailment"    -> IF some THEN "pass" ELSE "abstain"
      [] mode = "satisfiable"   -> "fail"
      [] mode = "unsatisfiable" -> "pass"

Exhaust ==
    /\ pc = "try" /\ todo = {}
    /\ Answer([Abstain EXCEPT !.verdict = ExhaustedVerdict(submitted.mode, premiseModel)])
    /\ UNCHANGED <<todo, premiseModel, steps>>

OutcomeOf(verdict) ==
    CASE trusted /\ verdict = "pass" -> "PASS"
      [] trusted /\ verdict = "fail" -> "FAIL"
      [] OTHER                       -> "INCONCLUSIVE"

Report ==
    /\ pc = "report"
    /\ result' = [form |-> Verdict("MECHANICAL", "OK",
                             {[kind |-> "INTRINSIC", outcome |-> OutcomeOf(answer.verdict),
                               isLLM |-> FALSE, applicable |-> TRUE, authoritative |-> FALSE,
                               integrity |-> FALSE, bound |-> trusted]}, {}),
                  counterexample |-> IF answer.verdict = "fail" /\ trusted
                                     THEN answer.counterexample ELSE None]
    /\ pc' = "done"
    /\ UNCHANGED <<call, todo, premiseModel, answer, steps>>

Next == CheckShape \/ Overflow \/ CheckModel \/ Decline \/ Enumerate
        \/ (\E a \in todo : Try(a)) \/ Exhaust \/ Report

Spec == Init /\ [][Next]_vars /\ WF_vars(Next)

-----------------------------------------------------------------------------
(* Properties.  The meaning of a formula is stated on its own: two-valued, *)
(* over environments that bind every name.                                 *)

Satisfied(f, env, K) ==
    CASE f.op = "const" -> f.arg = "true"
      [] f.op = "var"   -> env[f.arg]
      [] f.op = "not"   -> ~ K[1]
      [] f.op = "and"   -> \A i \in DOMAIN K : K[i]
      [] f.op = "or"    -> \E i \in DOMAIN K : K[i]
      [] f.op = "imp"   -> K[1] => K[2]
      [] f.op = "iff"   -> K[1] <=> K[2]
      [] f.op = "xor"   -> ~ (K[1] <=> K[2])

Holds(e, env) ==
    LET holds[d \in Nat] ==
          [n \in Node |->
             /\ ~ Beyond(d, n)
             /\ Satisfied(Formula[n], env, [i \in DOMAIN Kids(n) |-> holds[d - 1][Kids(n)[i]]])]
    IN  holds[MaxDepth][e]

AllHold(claim, env) == \A i \in DOMAIN claim.constraints : Holds(claim.constraints[i], env)

\* The environments that extend a model.
Extending(model) == {env \in [Name -> BOOLEAN] : \A n \in DOMAIN model : env[n] = model[n]}

Models(claim) == {env \in [Name -> BOOLEAN] : AllHold(claim, env)}

IsTrue(claim) ==
    CASE claim.mode = "model_check"   -> Extending(claim.model) \subseteq Models(claim)
      [] claim.mode = "entailment"    -> /\ Models(claim) # {}
                                         /\ \A env \in Models(claim) : Holds(claim.target, env)
      [] claim.mode = "satisfiable"   -> Models(claim) # {}
      [] claim.mode = "unsatisfiable" -> Models(claim) = {}

IsFalse(claim) ==
    CASE claim.mode = "model_check"   -> Extending(claim.model) \cap Models(claim) = {}
      [] claim.mode = "entailment"    -> \E env \in Models(claim) : ~ Holds(claim.target, env)
      [] claim.mode = "satisfiable"   -> Models(claim) = {}
      [] claim.mode = "unsatisfiable" -> Models(claim) # {}

\* A trusted review of this very claim, whose proof arrived uncopied.
ReviewedAsItStands ==
    /\ call.review # None
    /\ call.review.claim = submitted
    /\ call.review.ok /\ ~ call.review.copied
    /\ call.review.method \in {"provenance", "semantic", "human"}

\* A result exists exactly when the call has returned, and only a call that
\* enumerates has assignments left.
TypeOK ==
    /\ pc \in {"shape", "decide", "try", "report", "done"}
    /\ todo \subseteq [VarsOf(submitted) -> BOOLEAN]
    /\ premiseModel \in BOOLEAN
    /\ answer.verdict \in {"pass", "fail", "abstain"}
    /\ answer.counterexample \in Model \cup {None}
    /\ steps \in Nat
    /\ result # None <=> pc = "done"
    /\ todo # {} => submitted.mode # "model_check" /\ pc # "decide"

\* VERIFIED and REFUTED are only said of a claim reviewed exactly as it
\* stands, and then they are right: of every environment there is, also of
\* those that bind what a partial model leaves open ("never a guessed status").
SaysWhatIsTrue ==
    result # None =>
      /\ result.form.status = "VERIFIED" => ReviewedAsItStands /\ IsTrue(submitted)
      /\ result.form.status = "REFUTED" => ReviewedAsItStands /\ IsFalse(submitted)
      /\ result.form.status \in {"VERIFIED", "REFUTED", "UNVERIFIED"}

\* A refuted claim comes with a counterexample (a claim of satisfiability has
\* none to show), the counterexample does refute the claim, and no other
\* result carries one.
CounterexampleRefutes ==
    result # None =>
      /\ result.counterexample # None <=>
           result.form.status = "REFUTED" /\ submitted.mode # "satisfiable"
      /\ result.counterexample # None =>
           LET shown == Extending(result.counterexample)
           IN  CASE submitted.mode = "model_check" -> shown \cap Models(submitted) = {}
                 [] submitted.mode = "unsatisfiable" -> shown \subseteq Models(submitted)
                 [] submitted.mode = "entailment" ->
                      \A env \in shown : env \in Models(submitted) /\ ~ Holds(submitted.target, env)

\* The work done and the work left never exceed the budget, for any order of
\* the assignments and whatever the mode.
WithinBudget ==
    /\ TypeOK
    /\ steps + Cardinality(todo) * NodeCount(submitted) <= MaxEvalSteps

\* A claim the lane undertakes to decide: well formed, within every bound, a
\* model that binds what it is checked against, premises that are not vacuous.
Decidable ==
    /\ ShapeOK(submitted) /\ ~ Deep(submitted)
    /\ \A i \in DOMAIN submitted.constraints : submitted.constraints[i] # None
    /\ submitted.mode = "model_check" =>
         /\ submitted.model # None /\ submitted.constraints # <<>>
         /\ DOMAIN submitted.model # {} /\ VarsOf(submitted) \subseteq DOMAIN submitted.model
    /\ submitted.mode \in {"entailment", "satisfiable", "unsatisfiable"} =>
         /\ Cardinality(VarsOf(submitted)) <= MaxVars
         /\ 2 ^ Cardinality(VarsOf(submitted)) * Max({1, NodeCount(submitted)}) <= MaxEvalSteps
    /\ submitted.mode = "entailment" => submitted.target # None /\ Models(submitted) # {}
    /\ submitted.mode # "other"

\* Every call returns, and a reviewed claim the lane undertakes to decide is
\* decided: the enumeration never gives up before its budget, however the
\* assignments are ordered.
Settled ==
    <>(/\ result # None
       /\ ReviewedAsItStands /\ Decidable => result.form.status \in {"VERIFIED", "REFUTED"})
=============================================================================
