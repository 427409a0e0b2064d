---------------------------- MODULE ComposeGraph ----------------------------
(***************************************************************************)
(* compose_graph (glass_ionomer/verify/identity.py): composition over a    *)
(* whole dependency graph, loop by loop.                                   *)
(*                                                                         *)
(* The graph and the decisions come from the caller and may be anything:   *)
(* a dependency may be unassessed, an assessed claim may have no node, and *)
(* there may be cycles.  A node's dependencies are a set, taken in any     *)
(* order, which covers every order of the tuples and dictionaries of the   *)
(* code; a repeated dependency changes nothing there.                      *)
(***************************************************************************)
EXTENDS EvidenceStatus, SequencesExt

CONSTANTS Id,      \* claim ids
          Inputs,  \* the calls: [deps, given] with given over the assessed ids
          Now      \* the time of the call

\* Graphs are anything; what one node declares is a tuple, hence finite.
ASSUME GraphAssumption ==
    /\ Now \in Nat
    /\ \A in \in Inputs :
         \E assessed \in SUBSET Id, nodes \in SUBSET Id :
           /\ nodes \subseteq assessed
           /\ in.deps \in [nodes -> SUBSET Id]
           /\ \A n \in nodes : IsFiniteSet(in.deps[n])
           /\ in.given \in [assessed -> Decision]

VARIABLES deps,        \* node -> declared dependencies, for assessed nodes
          given,       \* by_claim_id and the decisions at the call
          pc,          \* the loop being executed
          colour,      \* three-colour marks of the depth-first search
          stack,       \* its stack of (node, dependencies left to look at)
          path,        \* the nodes from the root of the search to its top
          onCycle,
          unresolved,
          indegree,
          ready,       \* Kahn's queue; any member may be next, see TakeReady
          order,       \* the topological order it builds
          composed,    \* how many of its nodes have been composed
          out          \* the decisions returned

input == <<deps, given>>
search == <<colour, stack, path, onCycle>>
kahn == <<indegree, ready, order>>
vars == <<input, pc, search, unresolved, kahn, composed, out>>

Node == DOMAIN deps
Assessed == DOMAIN given
Frame == [node : Id, left : SUBSET Id]

\* The dependencies the search follows: those that are nodes themselves.
Edges(n) == deps[n] \cap Node

Top == Last(stack)

-----------------------------------------------------------------------------
(* 1) Missing dependencies, and the initial values *)

\* Mutated form of MissingDep: a node whose dependencies are all unassessed
\* counts, one with a single unassessed dependency does not.
MissingAll == {n \in Node : deps[n] # {} /\ deps[n] \cap Assessed = {}}

MissingDep == {n \in Node : ~ deps[n] \subseteq Assessed}

Init ==
    /\ \E in \in Inputs : deps = in.deps /\ given = in.given
    /\ pc = "search"
    /\ colour = [n \in Node |-> "WHITE"]
    /\ stack = <<>>
    /\ path = <<>>
    /\ onCycle = {}
    /\ unresolved = {}
    /\ indegree = [n \in Node |-> 0]
    /\ ready = {}
    /\ order = <<>>
    /\ composed = 0
    /\ out = given

-----------------------------------------------------------------------------
(* 2) Cycle detection *)

\* for cid in deps: if white, visit it
Visit(n) ==
    /\ pc = "search" /\ stack = <<>>
    /\ colour[n] = "WHITE"
    /\ colour' = [colour EXCEPT ![n] = "GREY"]
    /\ stack' = <<[node |-> n, left |-> Edges(n)]>>
    /\ path' = <<n>>
    /\ UNCHANGED <<input, pc, onCycle, unresolved, kahn, composed, out>>

\* The dependency m of the top node has been looked at.
Advance(m) ==
    [stack EXCEPT ![Len(stack)].left = @ \ {m}]

\* The part of the path from m on.
PathFrom(m) ==
    LET i == CHOOSE i \in DOMAIN path : path[i] = m /\ \A j \in 1..(i-1) : path[j] # m
    IN  {path[j] : j \in i..Len(path)}

\* Mutated form of BackEdge: only the two ends of the edge are marked, and
\* the wrong one when they differ.
BackEdgeTarget(m) ==
    /\ pc = "search" /\ stack # <<>>
    /\ m \in Top.left /\ colour[m] = "GREY"
    /\ onCycle' = onCycle \cup (IF m = Top.node THEN {m} ELSE {})
    /\ stack' = Advance(m)
    /\ UNCHANGED <<input, pc, colour, path, unresolved, kahn, composed, out>>

\* A grey dependency closes a cycle: the path from it to the top is marked.
BackEdge(m) ==
    /\ pc = "search" /\ stack # <<>>
    /\ m \in Top.left /\ colour[m] = "GREY"
    /\ onCycle' = onCycle \cup {Top.node}
                    \cup (IF m \in Range(path) THEN PathFrom(m) ELSE {m})
    /\ stack' = Advance(m)
    /\ UNCHANGED <<input, pc, colour, path, unresolved, kahn, composed, out>>

\* A white dependency is entered.
Descend(m) ==
    /\ pc = "search" /\ stack # <<>>
    /\ m \in Top.left /\ colour[m] = "WHITE"
    /\ colour' = [colour EXCEPT ![m] = "GREY"]
    /\ path' = Append(path, m)
    /\ stack' = Append(Advance(m), [node |-> m, left |-> Edges(m)])
    /\ UNCHANGED <<input, pc, onCycle, unresolved, kahn, composed, out>>

\* A black dependency is passed over.
SkipBlack(m) ==
    /\ pc = "search" /\ stack # <<>>
    /\ m \in Top.left /\ colour[m] = "BLACK"
    /\ stack' = Advance(m)
    /\ UNCHANGED <<input, pc, colour, path, onCycle, unresolved, kahn, composed, out>>

\* Mutated form of Retreat: the node stays on the path.
RetreatKeepsPath ==
    /\ pc = "search" /\ stack # <<>> /\ Top.left = {}
    /\ colour' = [colour EXCEPT ![Top.node] = "BLACK"]
    /\ stack' = Front(stack)
    /\ UNCHANGED <<input, pc, path, onCycle, unresolved, kahn, composed, out>>

\* No dependency is left: the node is finished and leaves stack and path.
Retreat ==
    /\ pc = "search" /\ stack # <<>> /\ Top.left = {}
    /\ colour' = [colour EXCEPT ![Top.node] = "BLACK"]
    /\ stack' = Front(stack)
    /\ path' = IF path # <<>> /\ Last(path) = Top.node THEN Front(path) ELSE path
    /\ UNCHANGED <<input, pc, onCycle, unresolved, kahn, composed, out>>

SearchDone ==
    /\ pc = "search" /\ stack = <<>>
    /\ \A n \in Node : colour[n] # "WHITE"
    /\ pc' = "propagate"
    /\ unresolved' = MissingDep \cup onCycle
    /\ UNCHANGED <<input, search, kahn, composed, out>>

-----------------------------------------------------------------------------
(* 3) Unresolved nodes, and an order on the others *)

\* Mutated form of CanPropagate: a node already unresolved counts as a change.
CanPropagateAgain(n) == n \in Node /\ deps[n] \cap unresolved # {}

CanPropagate(n) == n \in Node \ unresolved /\ deps[n] \cap unresolved # {}

\* while changed: a node with an unresolved dependency becomes unresolved.
Propagate(n) ==
    /\ pc = "propagate"
    /\ CanPropagate(n)
    /\ unresolved' = unresolved \cup {n}
    /\ UNCHANGED <<input, pc, search, kahn, composed, out>>

Resolvable == Node \ unresolved

\* Mutated form of InitialIndegree: dependencies that are no nodes count too.
IndegreeOfAll(n) == IF n \in Resolvable THEN Cardinality(deps[n]) ELSE 0

InitialIndegree(n) ==
    IF n \in Resolvable THEN Cardinality(deps[n] \cap Resolvable) ELSE 0

\* Nothing changed: indegrees are counted and the nodes without any queued.
PropagateDone ==
    /\ pc = "propagate"
    /\ \A n \in Node : ~ CanPropagate(n)
    /\ pc' = "order"
    /\ indegree' = [n \in Node |-> InitialIndegree(n)]
    /\ ready' = {n \in Resolvable : indegree'[n] = 0}
    /\ UNCHANGED <<input, search, unresolved, order, composed, out>>

\* Mutated form of Children: unresolved nodes are children too.
ChildrenOfAll(n) == {c \in Node : n \in deps[c]}

\* children[n]
Children(n) == {c \in Resolvable : n \in deps[c]}

\* Mutated form of TakeReady: a child is queued when it is first reached.
TakeReadyEagerly(n) ==
    /\ pc = "order" /\ n \in ready
    /\ order' = Append(order, n)
    /\ indegree' = [c \in Node |-> IF c \in Children(n) THEN 0 ELSE indegree[c]]
    /\ ready' = (ready \ {n}) \cup {c \in Children(n) : indegree[c] > 0}
    /\ UNCHANGED <<input, pc, search, unresolved, composed, out>>

\* queue.pop(0).  The code takes the oldest of the queue; any member may be
\* taken here, which includes the oldest.
TakeReady(n) ==
    /\ pc = "order" /\ n \in ready
    /\ order' = Append(order, n)
    /\ indegree' = [c \in Node |-> indegree[c] - (IF c \in Children(n) THEN 1 ELSE 0)]
    /\ ready' = (ready \ {n}) \cup {c \in Children(n) : indegree'[c] = 0}
    /\ UNCHANGED <<input, pc, search, unresolved, composed, out>>

OrderDone ==
    /\ pc = "order" /\ ready = {}
    /\ pc' = "compose"
    /\ UNCHANGED <<input, search, unresolved, kahn, composed, out>>

-----------------------------------------------------------------------------
(* 4) Composition in that order, and 5) downgrades *)

\* Mutated form of ComposeOne: premises are read as they were given.
ComposeOneFromGiven ==
    /\ pc = "compose" /\ composed < Len(order)
    /\ LET n == order[composed + 1]
       IN  out' = [out EXCEPT ![n] = Compose(@, {given[m] : m \in deps[n]}, Now)]
    /\ composed' = composed + 1
    /\ UNCHANGED <<input, pc, search, unresolved, kahn>>

\* The next node of the order; a leaf has nothing to compose with and is only
\* refreshed, which is what Compose does with no premises.
ComposeOne ==
    /\ pc = "compose" /\ composed < Len(order)
    /\ LET n == order[composed + 1]
       IN  out' = [out EXCEPT ![n] = Compose(@, {out[m] : m \in deps[n] \cap Assessed}, Now)]
    /\ composed' = composed + 1
    /\ UNCHANGED <<input, pc, search, unresolved, kahn>>

\* Mutated form of Downgrade: a contested decision is left as it is.
DowngradePositive(d) ==
    IF d.status \in Positive
    THEN [d EXCEPT !.status = "UNVERIFIED", !.direction = "NEUTRAL"]
    ELSE d

Downgrade(d) ==
    IF d.status \in Positive \cup {"CONTESTED"}
    THEN [d EXCEPT !.status = "UNVERIFIED", !.direction = "NEUTRAL"]
    ELSE d

\* for cid in sorted(unresolved): the iterations do not read one another.
DowngradeUnresolved ==
    /\ pc = "compose" /\ composed = Len(order)
    /\ pc' = "done"
    /\ out' = [n \in Assessed |->
                 IF n \in unresolved THEN Downgrade(out[n]) ELSE out[n]]
    /\ UNCHANGED <<input, search, unresolved, kahn, composed>>

-----------------------------------------------------------------------------
Search(n) ==
    \/ Visit(n)
    \/ BackEdge(n)
    \/ Descend(n)
    \/ SkipBlack(n)

Next ==
    \/ \E n \in Node : Search(n) \/ Propagate(n) \/ TakeReady(n)
    \/ Retreat
    \/ SearchDone
    \/ PropagateDone
    \/ OrderDone
    \/ ComposeOne
    \/ DowngradeUnresolved

\* compose_graph is one synchronous call: while it has a step to take it
\* takes it.
Spec == Init /\ [][Next]_vars /\ WF_vars(Next)

-----------------------------------------------------------------------------
(* Properties *)

Phase == {"search", "propagate", "order", "compose", "done"}

TypeOK ==
    /\ Node \subseteq Assessed /\ Assessed \subseteq Id
    /\ deps \in [Node -> SUBSET Id]
    /\ given \in [Assessed -> Decision]
    /\ pc \in Phase
    /\ colour \in [Node -> {"WHITE", "GREY", "BLACK"}]
    /\ stack \in Seq(Frame)
    /\ path \in Seq(Node)
    /\ onCycle \subseteq Node
    /\ unresolved \subseteq Node
    /\ indegree \in [Node -> Nat]
    /\ ready \subseteq Node
    /\ order \in Seq(Node)
    /\ composed \in 0..Len(order)
    /\ out \in [Assessed -> Decision]

\* The claims a claim rests on: its dependencies, theirs, and so on, whether
\* they were assessed or not.
DependsOn(n) == IF n \in Node THEN deps[n] ELSE {}
Below(n) ==
    LET closed == {S \in SUBSET Id : /\ DependsOn(n) \subseteq S
                                    /\ \A m \in S : DependsOn(m) \subseteq S}
    IN  {m \in Id : \A S \in closed : m \in S}

\* The two records of the search agree: path holds the nodes of the stack,
\* which are the grey ones, each entered over an edge from the one before
\* (the slice path[path.index(nxt):] is a cycle only then).
SearchPath ==
    /\ TypeOK
    /\ path = [i \in DOMAIN stack |-> stack[i].node]
    /\ {n \in Node : colour[n] = "GREY"} = Range(path)
    /\ IsInjective(path)
    /\ \A i \in 1..(Len(path) - 1) : path[i+1] \in Edges(path[i]) \ stack[i].left

\* The search marks nodes that lie on cycles and no others, and every cycle
\* has a marked node ("CYCLES are detected").  It need not mark all nodes of
\* a cycle: one first reached after the rest is black stays unmarked.
CyclesCut ==
    pc # "search" =>
        /\ \A n \in onCycle : n \in Below(n)
        /\ \A U \in SUBSET (Node \ onCycle) :
             U # {} => \E n \in U : deps[n] \cap U = {}

Abstract == INSTANCE GraphAssurance WITH
              finished <- pc = "done",
              result <- IF pc = "done" THEN out ELSE given

\* What the search missed is caught by propagation: the unresolved nodes are
\* exactly those from which a cycle or an unassessed claim is reached ("every
\* node on a dependency cycle is downgraded").
UnresolvedExact ==
    pc \in {"order", "compose", "done"} => unresolved = Abstract!Unestablished

\* Kahn's loop reaches every node that is not unresolved, once, after all its
\* dependencies: no node is left out of both composition and downgrade.
OrderIsTopological ==
    /\ \A i \in DOMAIN order :
         deps[order[i]] \cap Node \subseteq {order[j] : j \in 1..(i-1)}
    /\ pc \in {"compose", "done"} =>
         IsInjective(order) /\ Range(order) = Resolvable

\* A node returned as positive outranks and outlives nothing below it: every
\* claim it rests on, however far down, was assessed, is positive now, no
\* weaker, and lapses no earlier ("a weak leaf drags down every ancestor").
NoElevation ==
    pc = "done" =>
        \A n \in Node : out[n].status \in Positive =>
            \A m \in Below(n) :
                /\ m \in Assessed
                /\ Refresh(given[m], Now).status \in Positive
                /\ Ladder(out[n].status) <= Ladder(given[m].status)
                /\ given[m].expires # Never =>
                     out[n].expires \in 0..given[m].expires

\* The loops compute the fixpoint.
ImplementsFixpoint == Abstract!Spec

\* Composition is a point of reuse: no decision is returned as positive after
\* its deadline (identity.py: "reuse is still a boundary", without which "an
\* expired leaf could be handed back as VERIFIED").
ReturnedFresh ==
    pc = "done" => \A c \in Assessed : ~ IsExpired(out[c], Now)

\* Every call returns, on every graph ("no infinite loop").
Termination == <>(pc = "done")
=============================================================================
