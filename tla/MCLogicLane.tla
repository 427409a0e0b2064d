----------------------------- MODULE MCLogicLane -----------------------------
(* Formulas of every operator over three names, of which an enumeration may *)
(* have two; formulas at and over each bound; claims of every mode; reviews *)
(* of the claim as it stands and of neighbours of it.                       *)
EXTENDS LogicLane

MCName == {"p", "q", "r"}

E(o, a, k) == [op |-> o, arg |-> a, kids |-> k]
MCFormula == [
    p |-> E("var", "p", <<>>), q |-> E("var", "q", <<>>), r |-> E("var", "r", <<>>),
    yes  |-> E("const", "true", <<>>),
    np   |-> E("not", "", <<"p">>),
    pq   |-> E("and", "", <<"p", "q">>),
    poq  |-> E("or", "", <<"p", "q">>),
    piq  |-> E("imp", "", <<"p", "q">>),
    peq  |-> E("iff", "", <<"p", "q">>),
    pxq  |-> E("xor", "", <<"p", "q">>),
    rop  |-> E("or", "", <<"np", "r">>),
    big  |-> E("and", "", <<"pq", "poq", "q">>),
    n2   |-> E("not", "", <<"np">>),
    n3   |-> E("not", "", <<"n2">>),
    n4   |-> E("not", "", <<"n3">>),   \* deeper than the stack
    n5   |-> E("not", "", <<"n4">>),   \* deeper than MAX_DEPTH
    loop |-> E("and", "", <<"p", "loop">>),
    untyped |-> E("const", "", <<>>),
    single  |-> E("or", "", <<"p">>),
    unknown |-> E("other", "", <<"p">>)]
MCNode == DOMAIN MCFormula

Plain == {"p", "np", "pq", "poq", "piq", "peq", "pxq", "yes"}
Odd == {"big", "n3", "n4", "n5", "loop", "untyped", "single", "unknown", "rop", None}

Singles == {<<>>} \cup {<<e>> : e \in Plain \cup Odd}
MCLists == Singles \cup {<<e, f>> : e \in {"p", "np"}, f \in Plain \cup {"poq"}}
           \cup {<<"poq", "loop">>, <<"np", None>>, <<"big", "big">>, <<"big", "big", "big">>}

MCModels == {None, <<>>} \cup [{"p"} -> BOOLEAN] \cup [{"p", "q"} -> BOOLEAN]

MCClaims ==
    [text : {1}, mode : {"model_check"}, constraints : Singles \cup {<<"np", "q">>, <<"p", None>>},
     target : {None}, model : MCModels]
    \cup [text : {1}, mode : {"entailment"}, constraints : MCLists,
          target : {"q", "r", "piq", None}, model : {None}]
    \cup [text : {1}, mode : {"satisfiable", "unsatisfiable", "other"},
          constraints : MCLists, target : {None, "p"}, model : {None}]

Review(c) == [claim |-> c, method |-> "human", ok |-> TRUE, copied |-> FALSE]

\* Reviews that do not vouch for the claim.
Flawed(c) ==
    {None,
     [Review(c) EXCEPT !.claim.text = 2],
     [Review(c) EXCEPT !.claim.target = IF c.target = "p" THEN "q" ELSE "p"],
     [Review(c) EXCEPT !.method = "lexical"],
     [Review(c) EXCEPT !.ok = FALSE],
     [Review(c) EXCEPT !.copied = TRUE]}

MCCalls == {[claim |-> c, review |-> Review(c)] : c \in MCClaims}
           \cup UNION {{[claim |-> c, review |-> v] : v \in Flawed(c)} :
                         c \in {k \in MCClaims : k.constraints = <<"p", "np">>
                                              \/ k.constraints = <<"poq">>}}
=============================================================================
