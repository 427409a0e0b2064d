--------------------------- MODULE MCComposeGraph ---------------------------
(* The calls compose_graph is checked on.  For its loops: all graphs of     *)
(* four nodes with at most ManyEdges edges, none to itself, and all graphs  *)
(* of three ids, one or none of them unassessed or without a node, self-    *)
(* dependencies included.  For the decisions it returns: graphs of three    *)
(* ids with at most FewEdges edges and decisions that are live, about to    *)
(* lapse, lapsed but stored as positive, contested, or refuted, none of     *)
(* them depending on itself.                                               *)
EXTENDS ComposeGraph

CONSTANTS ManyEdges, FewEdges

MCId == 1..4
MCNow == 5

Held(s, dir, cont, until) ==
    [status |-> s, direction |-> dir, contested |-> cont,
     modelDerived |-> FALSE, expires |-> until]
Live == Held("VERIFIED", "SUPPORTS", FALSE, Never)
MCDecisions ==
    {Live,
     Held("CORROBORATED", "SUPPORTS", FALSE, MCNow + 1),
     Held("VERIFIED", "SUPPORTS", FALSE, MCNow),
     Held("CONTESTED", "NEUTRAL", TRUE, Never),
     Held("REFUTED", "REFUTES", FALSE, Never)}

UpTo(S, max) == UNION {kSubset(k, S) : k \in 0..max}
GraphOf(nodes, edges) == [n \in nodes |-> {e[2] : e \in {f \in edges : f[1] = n}}]
Calls(decisions, assessed, nodes, pairs, max) ==
    {[deps |-> GraphOf(nodes, E), given |-> g] :
        E \in UpTo(pairs, max), g \in [assessed -> decisions]}

ToOthers(pairs) == {e \in pairs : e[1] # e[2]}
Shapes == {<<1..3, 1..3>>, <<1..3, 1..2>>, <<1..2, 1..2>>}

FourNodes == Calls({Live}, 1..4, 1..4, ToOthers((1..4) \X (1..4)), ManyEdges)
ThreeIds == UNION {Calls({Live}, s[1], s[2], s[2] \X (1..3), ManyEdges) : s \in Shapes}
WithData ==
    UNION {Calls(MCDecisions, s[1], s[2], ToOthers(s[2] \X (1..3)), FewEdges) : s \in Shapes}
MCInputs == FourNodes \cup ThreeIds \cup WithData
=============================================================================
