--------------------------- MODULE GraphAssurance ---------------------------
(***************************************************************************)
(* What compose_graph promises, without saying how: given decisions and a  *)
(* dependency graph among their claims, one step returns the decisions the *)
(* claims are left with.                                                   *)
(***************************************************************************)
EXTENDS EvidenceStatus

CONSTANT Now

VARIABLES deps,      \* the dependencies declared by each node
          given,     \* the decision given for each assessed claim
          finished,
          result     \* the decisions returned

graph == <<deps, given, finished, result>>

Node == DOMAIN deps
Assessed == DOMAIN given

\* A set of nodes none of which can be established before the others: each
\* has a dependency nobody assessed or one inside the set.
Blocked(U) ==
    \A n \in U : deps[n] \ Assessed # {} \/ deps[n] \cap U # {}

\* Exactly the nodes from which a cycle or an unassessed claim is reached.
Unestablished == UNION {U \in SUBSET Node : Blocked(U)}

\* The one thing said about a node that cannot be established.
Downgrade(d) ==
    IF d.status \in Positive \cup {"CONTESTED"}
    THEN [d EXCEPT !.status = "UNVERIFIED", !.direction = "NEUTRAL"]
    ELSE d

\* The fixpoint: every established node is composed with its dependencies as
\* they are returned.  It has one solution, since the established part of the
\* graph has no cycle.
Fixpoint ==
    /\ DOMAIN result = Assessed
    /\ \A n \in Unestablished : result[n] = Downgrade(given[n])
    /\ \A n \in Node \ Unestablished :
         result[n] = Compose(given[n], {result[m] : m \in deps[n]}, Now)
    /\ \A n \in Assessed \ Node : result[n] = given[n]

Finish ==
    /\ ~ finished
    /\ finished' = TRUE
    /\ UNCHANGED <<deps, given>>
    /\ Fixpoint'

Init == ~ finished /\ result = given

Spec == Init /\ [][Finish]_graph
=============================================================================
