----------------------------- MODULE Verifiers -----------------------------
(***************************************************************************)
(* From a text to what the verifiers return for it: extraction with its    *)
(* round-trip check (glass_ionomer/verify/extraction.py) and the three     *)
(* verifiers of glass_ionomer/verify/verifiers.py.                         *)
(***************************************************************************)
EXTENDS DecisionRule, SafeArith

CONSTANTS Registry,   \* what a registry verifier holds under each key
          Absent      \* no record, no value

\* authoritative: the tier of the record is AUTHORITATIVE.  unaltered: its
\* hash is that of its value.  trusted: issued by the operator's boundary.
RegistryRecord == [value : Nat, authoritative : BOOLEAN, unaltered : BOOLEAN, trusted : BOOLEAN]

ASSUME RegistryAssumption ==
    \A k \in DOMAIN Registry : Registry[k] = Absent \/ Registry[k] \in RegistryRecord

\* A lookup names a key and the value expected there, Absent when it has no
\* "=".  A relation is as parsed; canonical: but for blanks it is written as
\* the parser's tree is printed.  opinion: the text holds an opinion marker.
Text(t) ==
    /\ t.opinion \in BOOLEAN
    /\ \/ t.form = "lookup" /\ t.key \in DOMAIN Registry /\ t.expected \in Nat \cup {Absent}
       \/ t.form = "relation" /\ Relation(t.relation) /\ t.canonical \in BOOLEAN
       \/ t.form = "prose"

-----------------------------------------------------------------------------
(* Extraction *)

\* _is_safe
Safe[t \in Tree] == t.op # "syntax" /\ \A s \in Operands(t) : Safe[s]

\* _try_canonical_relation finds one.
IsFormal(t) ==
    /\ t.form = "relation"
    /\ WithinBounds(t.relation)
    /\ \A i \in DOMAIN t.relation.operands : Safe[t.relation.operands[i]]

Classify(t) ==
    IF t.form = "lookup" \/ IsFormal(t) THEN "MECHANICAL"
    ELSE IF t.opinion THEN "INTERPRETIVE" ELSE "EMPIRICAL"

\* Mutated form of BindingOK: what was parsed is taken for what was written.
BindingParsed(t) == t.form = "lookup" \/ IsFormal(t)

\* binding_ok: the formalization printed again is the text.
BindingOK(t) == t.form = "lookup" \/ (IsFormal(t) /\ t.canonical)

-----------------------------------------------------------------------------
(* The verifiers *)

Verifier == {"arith", "registry", "llm-entailment", "other"}

\* verifier_is_registered: exactly the code's own types.
Registered(v) == v \in {"arith", "registry", "llm-entailment"}

\* applies_to; a verifier of the caller's own may say so of any claim.
AppliesTo(v, t) ==
    CASE v = "arith"    -> IsFormal(t)
      [] v = "registry" -> t.form = "lookup"
      [] OTHER          -> TRUE

Result(kind, outcome, bound) ==
    [kind |-> kind, outcome |-> outcome, isLLM |-> kind = "LLM", applicable |-> TRUE,
     authoritative |-> FALSE, integrity |-> FALSE, bound |-> bound]

\* ArithmeticVerifier
Arithmetic(t) == Result("INTRINSIC", EvaluateRelation(t.relation), BindingOK(t))

\* Mutated form of LookUp: a record's own hash vouches for it.
LookUpSelfHashed(t) ==
    LET record == Registry[t.key]
    IN  IF t.expected = Absent THEN Result("SOURCED", "ERROR", FALSE)
        ELSE IF record = Absent THEN Result("SOURCED", "INCONCLUSIVE", FALSE)
        ELSE [Result("SOURCED", IF record.value = t.expected THEN "PASS" ELSE "FAIL", TRUE)
                EXCEPT !.authoritative = record.authoritative, !.integrity = record.unaltered]

\* RegistryVerifier
LookUp(t) ==
    LET record == Registry[t.key]
    IN  IF t.expected = Absent THEN Result("SOURCED", "ERROR", FALSE)
        ELSE IF record = Absent THEN Result("SOURCED", "INCONCLUSIVE", FALSE)
        ELSE [Result("SOURCED", IF record.value = t.expected THEN "PASS" ELSE "FAIL", TRUE)
                EXCEPT !.authoritative = record.authoritative,
                       !.integrity = record.unaltered /\ record.trusted]

Verify(v, t) ==
    CASE v = "arith"    -> Arithmetic(t)
      [] v = "registry" -> LookUp(t)
      [] v = "llm-entailment" -> Result("LLM", "PASS", TRUE)

\* verify_extracted: verifiers of other types are left out, whatever they say.
Results(verifiers, t) ==
    {Verify(v, t) : v \in {w \in verifiers : Registered(w) /\ AppliesTo(w, t)}}
=============================================================================
