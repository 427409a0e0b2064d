------------------------- MODULE MCStatusLifecycle -------------------------
(* Three claims; one positive outcome per rung that matters and the two    *)
(* ways of not being positive, with and without a TTL.                     *)
EXTENDS StatusLifecycle

MCOutcomes ==
    {Form("VERIFIED", "SUPPORTS", FALSE, FALSE),
     Form("SUPPORTED", "SUPPORTS", FALSE, FALSE),
     Form("UNVERIFIED", "NEUTRAL", FALSE, FALSE),
     Form("REFUTED", "REFUTES", FALSE, FALSE)}
MCTTLs == {2, Never}
=============================================================================
