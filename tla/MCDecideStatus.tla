--------------------------- MODULE MCDecideStatus ---------------------------
(* Evidence around every threshold and gate decide_status has; results of  *)
(* each kind, definitive or just short of it.  Strengths 0, 1, 2 stand for *)
(* below both minima, enough to support, and enough to contradict.         *)
EXTENDS DecideStatus

Item == [lineage |-> 1, key |-> NoKey, entailment |-> "ENTAILS", strength |-> 1,
         applicable |-> TRUE, integrity |-> TRUE, fresh |-> TRUE,
         quoteBound |-> TRUE, modelStance |-> FALSE, provenance |-> TRUE]
MCEvidence ==
    {Item,
     [Item EXCEPT !.lineage = 2, !.key = 7],
     [Item EXCEPT !.lineage = 3, !.key = 7, !.modelStance = TRUE],
     [Item EXCEPT !.lineage = 2, !.key = 7, !.provenance = FALSE],
     [Item EXCEPT !.lineage = 4, !.fresh = FALSE],
     [Item EXCEPT !.lineage = 5, !.quoteBound = FALSE],
     [Item EXCEPT !.entailment = "CONTRADICTS"],
     [Item EXCEPT !.entailment = "CONTRADICTS", !.strength = 2]}

Result == [kind |-> "INTRINSIC", outcome |-> "PASS", isLLM |-> FALSE, applicable |-> TRUE,
           authoritative |-> FALSE, integrity |-> FALSE, bound |-> TRUE]
MCResults ==
    {Result,
     [Result EXCEPT !.bound = FALSE],
     [Result EXCEPT !.isLLM = TRUE],
     [Result EXCEPT !.kind = "LLM", !.isLLM = TRUE, !.outcome = "FAIL"],
     [Result EXCEPT !.kind = "SOURCED", !.outcome = "FAIL", !.integrity = TRUE,
                    !.authoritative = TRUE],
     [Result EXCEPT !.outcome = "FAIL", !.bound = FALSE]}

MCExecutions == {"OK", "TIMEOUT"}
=============================================================================
