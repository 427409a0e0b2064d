------------------------------ MODULE MCEngine ------------------------------
(* Two premises; the certifications the two lanes give, against two source *)
(* records, and two that rest on lineages only, one of them on the model's *)
(* word.                                                                   *)
EXTENDS Engine, TLC

Cert(s, def, model, r) ==
    [status |-> s, definitive |-> def, modelDerived |-> model, record |-> r]
MCRecord == 1..2
LaneCerts ==
    {Cert("VERIFIED", TRUE, FALSE, 1), Cert("VERIFIED", TRUE, FALSE, 2),
     Cert("REFUTED", TRUE, FALSE, 1)}
MCCerts ==
    LaneCerts \cup {Cert("CORROBORATED", FALSE, FALSE, 1),
                    Cert("CORROBORATED", FALSE, TRUE, 1)}
MCAdvisories ==
    {<<>>, <<"BLOCK">>, <<"BLOCK", "CAUTION">>, <<"INFO", "CAUTION", "BLOCK">>}

\* The premises are interchangeable and only invariants are checked.
PremiseSymmetry == Permutations(Claim)
=============================================================================
