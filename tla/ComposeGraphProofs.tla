------------------------- MODULE ComposeGraphProofs -------------------------
(***************************************************************************)
(* compose_graph for every graph, finite or not in its number of nodes,    *)
(* and all decisions its nodes may hold.                                   *)
(***************************************************************************)
EXTENDS ComposeGraph, EvidenceStatusProofs, SequenceTheorems

-----------------------------------------------------------------------------
(* The invariant, loop by loop *)

\* SearchPath, position by position, of a stack s, a path p and colours c.
Trail(s, p, c) ==
    /\ Len(p) = Len(s)
    /\ \A i \in 1..Len(s) : p[i] = s[i].node
    /\ \A n \in Node : c[n] = "GREY" <=> \E i \in 1..Len(s) : p[i] = n
    /\ \A i, j \in 1..Len(s) : p[i] = p[j] => i = j
    /\ \A i \in 1..(Len(s) - 1) : p[i+1] \in Edges(p[i]) \ s[i].left

\* A dependency of a node on the stack that has been looked at is finished, is
\* the next node of the stack, or is grey still, and then the edge to it has
\* closed a cycle and the node is among the marked ones, y.
LookedAt(s, c, y) ==
    \A i \in 1..Len(s) :
      /\ s[i].left \subseteq Edges(s[i].node)
      /\ \A m \in Edges(s[i].node) \ s[i].left :
           \/ c[m] = "BLACK"
           \/ c[m] = "GREY" /\ s[i].node \in y
           \/ i < Len(s) /\ m = s[i+1].node

\* The dependencies of a node that is finished and unmarked are finished.
BlackBelow(c, y) ==
    \A n \in Node \ y : c[n] = "BLACK" => \A m \in Edges(n) : c[m] = "BLACK"

\* The search.
SearchInv ==
    /\ TypeOK
    /\ Trail(stack, path, colour)
    /\ LookedAt(stack, colour, onCycle)
    /\ BlackBelow(colour, onCycle)

\* What is finished and unmarked is well founded.
FoundedIn(c, y) ==
    \A U \in SUBSET {n \in Node \ y : c[n] = "BLACK"} :
      U # {} => \E n \in U : deps[n] \cap U = {}

Founded == FoundedIn(colour, onCycle)

Searched == pc # "search" => \A n \in Node : colour[n] = "BLACK"

Marked == \A n \in onCycle : n \in Below(n)

\* Propagation only ever adds nodes that cannot be established, and has added
\* all of them when it ends.
PropagateInv ==
    /\ pc = "propagate" => MissingDep \cup onCycle \subseteq unresolved
    /\ unresolved \subseteq Abstract!Unestablished
    /\ pc \in {"order", "compose", "done"} => unresolved = Abstract!Unestablished

\* Kahn's loop.  An indegree counts the dependencies not yet in the order, and
\* the queue holds the nodes that have none of those.
KahnInv ==
    /\ pc \in {"search", "propagate"} => order = <<>> /\ ready = {}
    /\ Range(order) \subseteq Resolvable /\ IsInjective(order)
    /\ \A i \in DOMAIN order :
         deps[order[i]] \cap Node \subseteq {order[j] : j \in 1..(i-1)}
    /\ pc \in {"order", "compose", "done"} =>
         /\ \A n \in Resolvable :
              indegree[n] = Cardinality((deps[n] \cap Resolvable) \ Range(order))
         /\ ready = {n \in Resolvable \ Range(order) : indegree[n] = 0}
    /\ pc \in {"compose", "done"} => Range(order) = Resolvable

\* Composition.  The nodes composed so far are composed with their
\* dependencies as they are now; the other decisions are as they were given.
ComposeInv ==
    /\ pc \in {"search", "propagate", "order"} => composed = 0
    /\ pc = "done" => composed = Len(order)
    /\ \A i \in 1..composed :
         out[order[i]] = Compose(given[order[i]], {out[m] : m \in deps[order[i]]}, Now)
    /\ pc # "done" =>
         \A c \in Assessed \ {order[i] : i \in 1..composed} : out[c] = given[c]
    /\ pc = "done" =>
         \A c \in Assessed \ {order[i] : i \in 1..composed} :
            out[c] = IF c \in unresolved THEN Downgrade(given[c]) ELSE given[c]

FiniteDeps == \A n \in Node : IsFiniteSet(deps[n])

IInv == /\ FiniteDeps /\ SearchInv /\ Founded /\ Searched /\ Marked
        /\ PropagateInv /\ KahnInv /\ ComposeInv

-----------------------------------------------------------------------------
(* Graphs *)

\* Below(n) is closed under dependencies, the least such set that holds those
\* of n, and what is below something below n is below n.
LEMMA BelowFacts ==
    ASSUME TypeOK, NEW n \in Id
    PROVE  /\ Below(n) \subseteq Id /\ DependsOn(n) \subseteq Below(n)
           /\ \A S \in SUBSET Id :
                DependsOn(n) \subseteq S /\ (\A m \in S : DependsOn(m) \subseteq S)
                  => Below(n) \subseteq S
           /\ \A m \in Below(n) : Below(m) \subseteq Below(n)
<1>1. \A m \in Id : DependsOn(m) \subseteq Id
  BY DEF TypeOK, DependsOn
<1>2. \A S \in SUBSET Id :
        DependsOn(n) \subseteq S /\ (\A m \in S : DependsOn(m) \subseteq S)
          => Below(n) \subseteq S
  BY DEF Below
<1>3. Below(n) \subseteq Id /\ DependsOn(n) \subseteq Below(n)
  BY <1>1 DEF Below
<1>4. ASSUME NEW m \in Below(n), NEW k \in Below(m)
      PROVE  k \in Below(n)
  <2>1. m \in Id /\ k \in Id
    BY <1>3, <1>4 DEF Below
  <2>2. SUFFICES ASSUME NEW S \in SUBSET Id, DependsOn(n) \subseteq S,
                        \A x \in S : DependsOn(x) \subseteq S
                 PROVE  k \in S
    BY <2>1 DEF Below
  <2>3. m \in S
    BY <1>4, <2>2 DEF Below
  <2> QED
    BY <1>4, <2>2, <2>3 DEF Below
<1> QED
  BY <1>2, <1>3, <1>4

\* The nodes that cannot be established are blocked together; a node with a
\* dependency among them, or with one nobody assessed, is one of them.
LEMMA UnestablishedFacts ==
    ASSUME TypeOK
    PROVE  /\ Abstract!Unestablished \subseteq Node
           /\ Abstract!Blocked(Abstract!Unestablished)
           /\ MissingDep \subseteq Abstract!Unestablished
           /\ \A n \in Node : deps[n] \cap Abstract!Unestablished # {}
                                => n \in Abstract!Unestablished
<1> DEFINE B == Abstract!Unestablished
<1>1. B \subseteq Node
  BY DEF Abstract!Unestablished, Abstract!Node, Node
<1>2. Abstract!Blocked(B)
  BY DEF Abstract!Unestablished, Abstract!Blocked
<1>3. \A U \in SUBSET Node : Abstract!Blocked(U) => U \subseteq B
  BY DEF Abstract!Unestablished, Abstract!Node, Node
<1> HIDE DEF B
<1>4. ASSUME NEW n \in MissingDep PROVE n \in B
  <2>1. Abstract!Blocked({n}) /\ {n} \in SUBSET Node
    BY <1>4 DEF MissingDep, Abstract!Blocked, Abstract!Assessed, Assessed
  <2> QED
    BY <1>3, <2>1
<1>5. ASSUME NEW n \in Node, deps[n] \cap B # {} PROVE n \in B
  <2>1. Abstract!Blocked(B \cup {n})
    BY <1>2, <1>5 DEF Abstract!Blocked
  <2> QED
    BY <1>1, <1>3, <2>1
<1> QED
  BY <1>1, <1>2, <1>4, <1>5 DEF B

\* A node on a cycle cannot be established.
LEMMA CyclesBlock ==
    ASSUME TypeOK, NEW n \in Node, n \in Below(n)
    PROVE  n \in Abstract!Unestablished
<1> DEFINE U == {x \in Node : n \in Below(x)}
<1>0. Node \subseteq Id
  BY DEF TypeOK
<1>1. ASSUME NEW x \in U PROVE deps[x] \ Assessed # {} \/ deps[x] \cap U # {}
  <2> SUFFICES ASSUME deps[x] \subseteq Assessed, deps[x] \cap U = {}
               PROVE  FALSE
    OBVIOUS
  <2> DEFINE S == {y \in Id : y # n /\ n \notin Below(y)}
  <2>1. ASSUME NEW y \in deps[x] PROVE y \in S
    <3>1. y \in Id
      BY <1>0, <2>1 DEF TypeOK
    <3>2. y # n
      BY <2>1
    <3>3. CASE y \notin Node
      <4>1. DependsOn(y) \subseteq {}
        BY <3>3 DEF DependsOn
      <4>2. Below(y) \subseteq {}
        BY <3>1, <4>1, BelowFacts
      <4> QED
        BY <3>1, <3>2, <4>2
    <3>4. CASE y \in Node
      BY <2>1, <3>1, <3>2, <3>4
    <3> QED
      BY <3>3, <3>4
  <2>2. ASSUME NEW y \in S, NEW z \in DependsOn(y) PROVE z \in S
    <3>1. z \in Below(y) /\ z \in Id
      BY <2>2, BelowFacts
    <3>2. Below(z) \subseteq Below(y)
      BY <2>2, <3>1, BelowFacts
    <3> QED
      BY <2>2, <3>1, <3>2
  <2>3. DependsOn(x) \subseteq S
    BY <2>1 DEF DependsOn
  <2>4. Below(x) \subseteq S
    <3> HIDE DEF S
    <3>1. S \in SUBSET Id
      BY DEF S
    <3> QED
      BY <1>0, <2>2, <2>3, <3>1, BelowFacts
  <2> QED
    BY <2>4
<1>2. Abstract!Blocked(U)
  BY <1>1 DEF Abstract!Blocked, Abstract!Assessed, Assessed
<1>3. U \in SUBSET Node /\ n \in U
  OBVIOUS
<1> HIDE DEF U
<1> QED
  BY <1>2, <1>3 DEF Abstract!Unestablished, Abstract!Node, Node

\* A step keeps what is asked of the graph as it is.
LEMMA GraphStays ==
    ASSUME UNCHANGED input
    PROVE  /\ Node' = Node /\ Assessed' = Assessed /\ MissingDep' = MissingDep
           /\ \A n : Edges(n)' = Edges(n) /\ Below(n)' = Below(n)
           /\ Abstract!Unestablished' = Abstract!Unestablished
           /\ FiniteDeps' = FiniteDeps
  BY DEF input, Node, Assessed, MissingDep, Edges, Below, DependsOn, FiniteDeps,
         Abstract!Unestablished, Abstract!Blocked, Abstract!Node, Abstract!Assessed

-----------------------------------------------------------------------------
(* The search *)

\* What a sequence of the search is, position by position.
LEMMA Sequences ==
    ASSUME NEW S, NEW s \in Seq(S)
    PROVE  /\ Len(s) \in Nat /\ DOMAIN s = 1..Len(s)
           /\ \A i \in 1..Len(s) : s[i] \in S
           /\ s # <<>> => Len(s) \in 1..Len(s)
<1>1. Len(s) \in Nat /\ DOMAIN s = 1..Len(s) /\ s \in [1..Len(s) -> S]
  BY LenProperties
<1>2. s # <<>> => Len(s) \in 1..Len(s)
  BY EmptySeq, <1>1
<1> QED
  BY <1>1, <1>2

LEMMA FrontFacts ==
    ASSUME NEW S, NEW s \in Seq(S), s # <<>>
    PROVE  /\ Front(s) \in Seq(S) /\ Len(Front(s)) = Len(s) - 1
           /\ \A i \in 1..(Len(s) - 1) : Front(s)[i] = s[i]
<1> DEFINE h == Len(s) - 1
<1>1. h \in Nat /\ 1 \in Int /\ h \in Int /\ \A i \in 1..h : i \in 1..Len(s)
  BY Sequences
<1>2. \A i \in 1..h : s[i] \in S
  BY <1>1, Sequences
<1> HIDE DEF h
<1>3. /\ SubSeq(s, 1, h) \in Seq(S)
      /\ Len(SubSeq(s, 1, h)) = IF 1 <= h THEN h - 1 + 1 ELSE 0
      /\ \A i \in 1..(h - 1 + 1) : SubSeq(s, 1, h)[i] = s[1 + i - 1]
  BY <1>1, <1>2, SubSeqProperties
<1>4. Len(SubSeq(s, 1, h)) = h /\ \A i \in 1..h : SubSeq(s, 1, h)[i] = s[i]
  BY <1>1, <1>3
<1> QED
  BY <1>3, <1>4 DEF Front, h

LEMMA TrailIsSearchPath ==
    TypeOK /\ Trail(stack, path, colour) => SearchPath
<1> SUFFICES ASSUME TypeOK, Trail(stack, path, colour) PROVE SearchPath
  OBVIOUS
<1>1. /\ Len(stack) \in Nat /\ DOMAIN stack = 1..Len(stack)
      /\ DOMAIN path = 1..Len(path) /\ path \in [1..Len(path) -> Node]
  BY LenProperties DEF TypeOK
<1>2. path = [i \in DOMAIN stack |-> stack[i].node]
  BY <1>1 DEF Trail
<1>3. {n \in Node : colour[n] = "GREY"} = Range(path)
  BY <1>1 DEF Trail, Range
<1>4. IsInjective(path)
  BY <1>1 DEF Trail, IsInjective
<1> QED
  BY <1>1, <1>2, <1>3, <1>4 DEF Trail, SearchPath

\* Looking at a dependency takes it off the list of the top of the stack.
Advanced(s, m) == [s EXCEPT ![Len(s)].left = @ \ {m}]

LEMMA AdvanceFacts ==
    ASSUME NEW s \in Seq(Frame), s # <<>>, NEW m,
           NEW t, t = Advanced(s, m)
    PROVE  /\ t \in Seq(Frame) /\ Len(t) = Len(s)
           /\ \A i \in 1..Len(s) : t[i].node = s[i].node
           /\ \A i \in 1..Len(s) : i # Len(s) => t[i].left = s[i].left
           /\ t[Len(s)].left = s[Len(s)].left \ {m}
<1> DEFINE k == Len(s)
           e == [s[k] EXCEPT !.left = @ \ {m}]
<1>2. k \in 1..k
  BY Sequences
<1>3. s[k] \in Frame
  BY <1>2, ElementOfSeq
<1>4. e \in Frame /\ e.node = s[k].node /\ e.left = s[k].left \ {m}
  BY <1>3 DEF Frame
<1>5. t = [s EXCEPT ![k] = e]
  BY DEF Advanced
<1> HIDE DEF e
<1>6. /\ t \in Seq(Frame) /\ Len(t) = k
      /\ \A j \in 1..k : t[j] = IF j = k THEN e ELSE s[j]
  BY <1>2, <1>4, <1>5, ExceptSeq
<1>7. \A i \in 1..k : i # k => t[i] = s[i]
  BY <1>6
<1>8. t[k] = e
  BY <1>2, <1>6
<1>9. \A i \in 1..k : t[i].node = s[i].node
  BY <1>4, <1>7, <1>8, Zenon
<1>10. t[k].left = s[k].left \ {m}
  BY <1>4, <1>8, Zenon
<1>11. \A i \in 1..k : i # k => t[i].left = s[i].left
  BY <1>7, Zenon
<1> QED
  BY <1>6, <1>9, <1>10, <1>11

LEMMA AdvanceKeeps ==
    ASSUME NEW s \in Seq(Frame), s # <<>>, NEW m, NEW p, NEW c, NEW y, NEW z,
           NEW t, t = Advanced(s, m),
           Trail(s, p, c), LookedAt(s, c, y), y \subseteq z,
           m \in Node => c[m] = "BLACK" \/ (c[m] = "GREY" /\ s[Len(s)].node \in z)
    PROVE  Trail(t, p, c) /\ LookedAt(t, c, z)
<1> DEFINE k == Len(s)
<1>1. k \in Nat /\ k \in 1..k
  BY Sequences
<1>2. /\ Len(t) = k
      /\ \A i \in 1..k : t[i].node = s[i].node
      /\ \A i \in 1..k : i # k => t[i].left = s[i].left
      /\ t[k].left = s[k].left \ {m}
  BY AdvanceFacts
<1>3. \A i \in 1..k : t[i].left \subseteq s[i].left
  BY <1>2
<1>4. Trail(t, p, c)
  BY <1>1, <1>2, <1>3 DEF Trail
<1>5. ASSUME NEW i \in 1..k, NEW x \in Edges(s[i].node) \ t[i].left
      PROVE  \/ c[x] = "BLACK"
             \/ c[x] = "GREY" /\ s[i].node \in z
             \/ i < k /\ x = t[i+1].node
  <2>1. CASE x \in s[i].left
    <3>1. i = k /\ x = m /\ x \in Node
      BY <1>2, <1>5, <2>1 DEF Edges
    <3> QED
      BY <3>1
  <2>2. CASE x \notin s[i].left
    <3>1. i < k => t[i+1].node = s[i+1].node
      BY <1>1, <1>2
    <3> QED
      BY <1>5, <2>2, <3>1 DEF LookedAt
  <2> QED
    BY <2>1, <2>2
<1>6. \A i \in 1..k : t[i].left \subseteq Edges(s[i].node)
  BY <1>3 DEF LookedAt
<1> QED
  BY <1>2, <1>4, <1>5, <1>6 DEF LookedAt

\* The frame with which a node is entered.
Entry(n) == [node |-> n, left |-> Edges(n)]

\* A node is entered as the only one, or over an edge from the top.
LEMMA StartKeeps ==
    ASSUME NEW n \in Node, Node \subseteq Id, NEW c \in [Node -> {"WHITE", "GREY", "BLACK"}],
           NEW y, Trail(<<>>, <<>>, c), BlackBelow(c, y), c[n] = "WHITE",
           NEW t, t = <<Entry(n)>>,
           NEW d, d = [c EXCEPT ![n] = "GREY"], deps \in [Node -> SUBSET Id]
    PROVE  /\ t \in Seq(Frame) /\ <<n>> \in Seq(Node)
           /\ d \in [Node -> {"WHITE", "GREY", "BLACK"}]
           /\ Trail(t, <<n>>, d) /\ LookedAt(t, d, y) /\ BlackBelow(d, y)
<1> DEFINE e == Entry(n)
           q == <<n>>
<1>1. e \in Frame /\ e.node = n /\ e.left = Edges(n)
  BY DEF Entry, Frame, Edges
<1>2. t = <<e>>
  OBVIOUS
<1> HIDE DEF e
<1>3. t \in Seq(Frame) /\ Len(t) = 1 /\ t[1] = e
  BY <1>1, <1>2
<1>4. q \in Seq(Node) /\ Len(q) = 1 /\ q[1] = n
  OBVIOUS
<1> HIDE DEF q
<1>5. \A m \in Node : d[m] = IF m = n THEN "GREY" ELSE c[m]
  OBVIOUS
<1>6. \A m \in Node : c[m] # "GREY"
  BY DEF Trail
<1>7. Trail(t, q, d)
  BY <1>1, <1>3, <1>4, <1>5, <1>6 DEF Trail
<1>8. LookedAt(t, d, y)
  BY <1>1, <1>3 DEF LookedAt
<1>9. BlackBelow(d, y)
  BY <1>5 DEF BlackBelow, Edges
<1> QED
  BY <1>3, <1>4, <1>7, <1>8, <1>9 DEF q

\* t is s with m entered from its top, position by position.
Entered(s, t, m) ==
    /\ t \in Seq(Frame) /\ Len(t) = Len(s) + 1
    /\ \A i \in 1..Len(s) : t[i].node = s[i].node
    /\ \A i \in 1..Len(s) : i # Len(s) => t[i].left = s[i].left
    /\ t[Len(s)].left = s[Len(s)].left \ {m}
    /\ t[Len(s)+1].node = m /\ t[Len(s)+1].left = Edges(m)

\* q is p with m at its end.
Extended(p, q, m) ==
    /\ Len(q) = Len(p) + 1 /\ q[Len(p) + 1] = m
    /\ \A i \in 1..Len(p) : q[i] = p[i]

LEMMA PushFacts ==
    ASSUME Node \subseteq Id, deps \in [Node -> SUBSET Id],
           NEW s \in Seq(Frame), s # <<>>, NEW m \in Node
    PROVE  Entered(s, Append(Advanced(s, m), Entry(m)), m)
<1> DEFINE k == Len(s)
           a == Advanced(s, m)
           e == Entry(m)
           t == Append(a, e)
<1>1. k \in Nat /\ k \in 1..k
  BY Sequences
<1>2. e \in Frame /\ e.node = m /\ e.left = Edges(m)
  BY DEF Entry, Frame, Edges
<1>3. /\ a \in Seq(Frame) /\ Len(a) = k
      /\ \A i \in 1..k : a[i].node = s[i].node
      /\ \A i \in 1..k : i # k => a[i].left = s[i].left
      /\ a[k].left = s[k].left \ {m}
  BY AdvanceFacts
<1> HIDE DEF a, e
<1>4. /\ t \in Seq(Frame) /\ Len(t) = Len(a) + 1 /\ t[Len(a) + 1] = e
      /\ \A i \in 1..Len(a) : t[i] = a[i]
  BY <1>2, <1>3, AppendProperties
<1> HIDE DEF t
<1>5. t[k] = a[k] /\ t[k+1] = e
      /\ \A i \in 1..k : t[i].node = a[i].node /\ t[i].left = a[i].left
  BY <1>1, <1>3, <1>4, Zenon
<1>6. Entered(s, t, m)
  BY <1>2, <1>3, <1>4, <1>5, Zenon DEF Entered
<1> QED
  BY <1>6 DEF t, a, e

LEMMA PushKeeps ==
    ASSUME Node \subseteq Id, deps \in [Node -> SUBSET Id],
           NEW s \in Seq(Frame), s # <<>>, NEW p \in Seq(Node),
           NEW c \in [Node -> {"WHITE", "GREY", "BLACK"}], NEW y,
           Trail(s, p, c), LookedAt(s, c, y), BlackBelow(c, y),
           NEW m \in Node, m \in s[Len(s)].left, c[m] = "WHITE",
           NEW t, Entered(s, t, m),
           NEW q, Extended(p, q, m),
           NEW d, d = [c EXCEPT ![m] = "GREY"]
    PROVE  Trail(t, q, d) /\ LookedAt(t, d, y) /\ BlackBelow(d, y)
<1> DEFINE k == Len(s)
<1>1. k \in Nat /\ k \in 1..k
  BY Sequences
<1>2. m \in Node /\ m \in Edges(s[k].node)
  BY <1>1 DEF LookedAt, Edges
<1>6. t \in Seq(Frame) /\ Len(t) = k + 1
  BY DEF Entered
<1>7. /\ \A i \in 1..k : t[i].node = s[i].node
      /\ \A i \in 1..k : i # k => t[i].left = s[i].left
      /\ t[k].left = s[k].left \ {m}
      /\ t[k+1].node = m /\ t[k+1].left = Edges(m)
  BY DEF Entered
<1>8. \A i \in 1..k : p[i] = s[i].node
  BY DEF Trail
<1>9. Len(q) = k + 1 /\ q[k+1] = m /\ \A i \in 1..k : q[i] = p[i]
  <2>1. Len(p) = k
    BY DEF Trail
  <2> QED
    BY <2>1 DEF Extended
<1>10. /\ d \in [Node -> {"WHITE", "GREY", "BLACK"}] /\ d[m] = "GREY"
       /\ \A n \in Node : n # m => d[n] = c[n]
  BY <1>2
<1>11. \A i \in 1..k : p[i] # m
  BY <1>2 DEF Trail
<1>12. \A i \in 1..(k+1) : i \in 1..k \/ i = k + 1
  BY <1>1
<1>13. Trail(t, q, d)
  <2>1. \A i \in 1..(k+1) : q[i] = t[i].node
    <3>1. \A i \in 1..k : q[i] = t[i].node
      BY <1>7, <1>8, <1>9, Zenon
    <3> QED
      BY <1>7, <1>9, <1>12, <3>1
  <2>2. ASSUME NEW n \in Node
        PROVE  d[n] = "GREY" <=> \E i \in 1..(k+1) : q[i] = n
    <3>1. CASE n = m
      BY <1>1, <1>9, <1>10, <3>1
    <3>2. CASE n # m
      <4>1. (\E i \in 1..(k+1) : q[i] = n) => \E i \in 1..k : p[i] = n
        BY <1>9, <1>12, <3>2
      <4>2. \A i \in 1..k : i \in 1..(k+1)
        BY <1>1
      <4>3. (\E i \in 1..k : p[i] = n) => \E i \in 1..(k+1) : q[i] = n
        BY <1>9, <4>2
      <4> QED
        BY <1>10, <3>2, <4>1, <4>3 DEF Trail
    <3> QED
      BY <3>1, <3>2
  <2>3. \A i, j \in 1..(k+1) : q[i] = q[j] => i = j
    BY <1>9, <1>11, <1>12 DEF Trail
  <2>4. ASSUME NEW i \in 1..k PROVE q[i+1] \in Edges(q[i]) \ t[i].left
    <3>1. CASE i = k
      BY <1>2, <1>7, <1>9, <3>1 DEF Trail
    <3>2. CASE i # k
      <4>1. i \in 1..(k-1) /\ i + 1 \in 1..k
        BY <1>1, <3>2
      <4>2. p[i+1] \in Edges(p[i]) \ s[i].left
        BY <4>1 DEF Trail
      <4> QED
        BY <1>7, <1>9, <3>2, <4>1, <4>2
    <3> QED
      BY <3>1, <3>2
  <2>5. (k + 1) - 1 = k
    BY <1>1
  <2> QED
    BY <1>6, <1>9, <2>1, <2>2, <2>3, <2>4, <2>5 DEF Trail
<1>14. LookedAt(t, d, y)
  <2>1. ASSUME NEW i \in 1..k, NEW x \in Edges(s[i].node) \ t[i].left
        PROVE  \/ d[x] = "BLACK"
               \/ d[x] = "GREY" /\ s[i].node \in y
               \/ i < k + 1 /\ x = t[i+1].node
    <3>1. CASE i = k /\ x = m
      <4>1. k < k + 1
        BY <1>1
      <4>2. t[i+1].node = m
        BY <1>7, <3>1
      <4> QED
        BY <3>1, <4>1, <4>2
    <3>2. CASE i # k \/ x # m
      <4>1. x \in Edges(s[i].node) \ s[i].left /\ x \in Node
        BY <1>7, <2>1, <3>2 DEF Edges
      <4>2. i < k => i + 1 \in 1..k
        BY <1>1
      <4>3. \/ c[x] = "BLACK"
            \/ c[x] = "GREY" /\ s[i].node \in y
            \/ i < k /\ x = s[i+1].node
        BY <4>1 DEF LookedAt
      <4>4. i < k => i < k + 1 /\ t[i+1].node = s[i+1].node
        <5>1. i < k => i < k + 1
          BY <1>1
        <5>2. \A j \in 1..k : t[j].node = s[j].node
          BY <1>7
        <5> QED
          BY <4>2, <5>1, <5>2, Zenon
      <4>5. c[x] \in {"BLACK", "GREY"} => x # m
        BY <1>2
      <4> QED
        BY <1>10, <4>1, <4>3, <4>4, <4>5
    <3> QED
      BY <3>1, <3>2
  <2>2. \A i \in 1..k : t[i].left \subseteq Edges(s[i].node)
    BY <1>7 DEF LookedAt
  <2>3. ASSUME NEW i \in 1..(k+1)
        PROVE  /\ t[i].left \subseteq Edges(t[i].node)
               /\ \A x \in Edges(t[i].node) \ t[i].left :
                    \/ d[x] = "BLACK"
                    \/ d[x] = "GREY" /\ t[i].node \in y
                    \/ i < k + 1 /\ x = t[i+1].node
    <3>1. CASE i \in 1..k
      BY <1>7, <2>1, <2>2, <3>1
    <3>2. CASE i = k + 1
      BY <1>7, <3>2
    <3> QED
      BY <1>12, <3>1, <3>2
  <2> QED
    BY <1>6, <2>3 DEF LookedAt
<1>15. BlackBelow(d, y)
  BY <1>10, <1>2 DEF BlackBelow, Edges
<1> QED
  BY <1>13, <1>14, <1>15

\* A node with no dependency left is finished.
LEMMA PopKeeps ==
    ASSUME Node \subseteq Id, deps \in [Node -> SUBSET Id],
           NEW s \in Seq(Frame), s # <<>>, NEW p \in Seq(Node),
           NEW c \in [Node -> {"WHITE", "GREY", "BLACK"}], NEW y,
           Trail(s, p, c), LookedAt(s, c, y), BlackBelow(c, y),
           s[Len(s)].left = {},
           NEW t, t = Front(s), NEW q, q = Front(p),
           NEW d, d = [c EXCEPT ![s[Len(s)].node] = "BLACK"]
    PROVE  /\ t \in Seq(Frame) /\ q \in Seq(Node)
           /\ d \in [Node -> {"WHITE", "GREY", "BLACK"}]
           /\ Trail(t, q, d) /\ LookedAt(t, d, y) /\ BlackBelow(d, y)
<1> DEFINE k == Len(s)
           h == k - 1
           n == s[k].node
<1>1. k \in Nat /\ k \in 1..k /\ h \in Nat /\ h + 1 = k
  BY Sequences
<1>2. /\ t \in Seq(Frame) /\ Len(t) = h /\ \A i \in 1..h : t[i] = s[i]
  BY FrontFacts DEF h
<1>3. Len(p) = k /\ p # <<>>
  BY <1>1 DEF Trail
<1>4. /\ q \in Seq(Node) /\ Len(q) = h /\ \A i \in 1..h : q[i] = p[i]
  BY <1>3, FrontFacts DEF h
<1>5. n = p[k] /\ n \in Node
  BY <1>1, <1>3, Sequences DEF Trail
<1> HIDE DEF n, h
<1>6. /\ d \in [Node -> {"WHITE", "GREY", "BLACK"}] /\ d[n] = "BLACK"
      /\ \A x \in Node : x # n => d[x] = c[x]
  BY <1>5 DEF n
<1>7. \A i \in 1..h : i \in 1..k /\ i + 1 \in 1..k /\ i # k
  BY <1>1
<1>8. \A i \in 1..k : i \in 1..h \/ i = k
  BY <1>1
<1>9. Trail(t, q, d)
  <2>1. \A i \in 1..h : q[i] = t[i].node
    BY <1>2, <1>4, <1>7 DEF Trail
  <2>2. ASSUME NEW x \in Node
        PROVE  d[x] = "GREY" <=> \E i \in 1..h : q[i] = x
    <3>1. CASE x = n
      <4>1. \A i \in 1..h : p[i] # p[k]
        BY <1>1, <1>7 DEF Trail
      <4> QED
        BY <1>4, <1>5, <1>6, <3>1, <4>1
    <3>2. CASE x # n
      <4>1. (\E i \in 1..h : q[i] = x) <=> \E i \in 1..k : p[i] = x
        BY <1>4, <1>5, <1>7, <1>8, <3>2
      <4> QED
        BY <1>6, <3>2, <4>1 DEF Trail
    <3> QED
      BY <3>1, <3>2
  <2>3. ASSUME NEW i \in 1..h, NEW j \in 1..h, q[i] = q[j] PROVE i = j
    <3>1. i \in 1..k /\ j \in 1..k /\ p[i] = p[j]
      BY <1>4, <1>7, <2>3
    <3> QED
      BY <3>1 DEF Trail
  <2>4. ASSUME NEW i \in 1..(h - 1) PROVE q[i+1] \in Edges(q[i]) \ t[i].left
    <3>1. i \in 1..h /\ i + 1 \in 1..h /\ i \in 1..(k - 1)
      BY <1>1
    <3>2. p[i+1] \in Edges(p[i]) \ s[i].left
      BY <3>1 DEF Trail
    <3> QED
      BY <1>2, <1>4, <3>1, <3>2
  <2> QED
    BY <1>2, <1>4, <2>1, <2>2, <2>3, <2>4 DEF Trail
<1>10. LookedAt(t, d, y)
  <2>1. ASSUME NEW i \in 1..h, NEW x \in Edges(s[i].node) \ s[i].left
        PROVE  \/ d[x] = "BLACK"
               \/ d[x] = "GREY" /\ s[i].node \in y
               \/ i < h /\ x = s[i+1].node
    <3>1. i \in 1..k /\ x \in Node
      BY <1>7, <2>1 DEF Edges
    <3>2. CASE x = n
      BY <1>6, <3>2
    <3>3. CASE x # n
      <4>1. \/ c[x] = "BLACK"
            \/ c[x] = "GREY" /\ s[i].node \in y
            \/ i < k /\ x = s[i+1].node
        BY <2>1, <3>1 DEF LookedAt
      <4>2. i = h => s[i+1].node = n
        BY <1>1 DEF n
      <4> QED
        BY <1>1, <1>6, <3>1, <3>3, <4>1, <4>2
    <3> QED
      BY <3>2, <3>3
  <2>2. \A i \in 1..h : s[i].left \subseteq Edges(s[i].node)
    BY <1>7 DEF LookedAt
  <2>3. \A i \in 1..h : i < h => t[i+1] = s[i+1]
    BY <1>1, <1>2
  <2> QED
    BY <1>2, <2>1, <2>2, <2>3 DEF LookedAt
<1>11. n \notin y => \A x \in Edges(n) : c[x] = "BLACK"
  BY <1>1 DEF LookedAt, n
<1>12. BlackBelow(d, y)
  BY <1>6, <1>11 DEF BlackBelow, Edges
<1> QED
  BY <1>2, <1>4, <1>6, <1>9, <1>10, <1>12

\* A set that is closed under dependencies and holds those of a node on the
\* path holds the rest of the path, and the dependencies of its end.
LEMMA PathReaches ==
    ASSUME NEW s \in Seq(Frame), NEW p \in Seq(Node), NEW c, Trail(s, p, c),
           NEW S, \A x \in S : DependsOn(x) \subseteq S,
           NEW a \in 1..Len(s), DependsOn(p[a]) \subseteq S
    PROVE  /\ \A l \in (a+1)..Len(s) : p[l] \in S
           /\ DependsOn(p[Len(s)]) \subseteq S
<1> DEFINE k == Len(s)
           T == {l \in (a+1)..k : p[l] \notin S}
<1>1. k \in Nat /\ a \in Nat /\ (\A i \in 1..k : p[i] \in Node)
      /\ \A i \in 1..(k - 1) : p[i+1] \in Edges(p[i])
  BY Sequences DEF Trail
<1>2. ASSUME T # {} PROVE FALSE
  <2>1. T \subseteq Nat
    BY <1>1
  <2>2. PICK l \in T : \A x \in T : l <= x
    BY <1>2, <2>1, MinOfNaturals
  <2>3. l \in (a+1)..k /\ p[l] \notin S
    BY <2>2
  <2>4. PICK h \in 1..(k - 1) : l = h + 1
    BY <1>1, <2>3
  <2>5. p[l] \in DependsOn(p[h])
    BY <1>1, <2>4 DEF DependsOn, Edges
  <2>6. h # a
    BY <2>3, <2>5
  <2>7. h \in (a+1)..k /\ ~ (l <= h)
    BY <1>1, <2>3, <2>4, <2>6
  <2>8. p[h] \in S
    BY <2>2, <2>7
  <2> QED
    BY <2>3, <2>5, <2>8
<1>3. \A l \in (a+1)..k : p[l] \in S
  BY <1>2
<1>4. k = a \/ k \in (a+1)..k
  BY <1>1
<1> QED
  BY <1>3, <1>4

\* An edge from the end of the path back to m closes a cycle through every
\* node of the path from m on.
LEMMA PathIsCycle ==
    ASSUME Node \subseteq Id, NEW s \in Seq(Frame), NEW p \in Seq(Node), NEW c,
           Trail(s, p, c), NEW i \in 1..Len(s), p[i] \in Edges(p[Len(s)]),
           NEW j \in i..Len(s)
    PROVE  p[j] \in Below(p[j])
<1> DEFINE k == Len(s)
<1>1. k \in Nat /\ i \in Nat /\ j \in Nat /\ j \in 1..k /\ k \in 1..k
      /\ \A l \in 1..k : p[l] \in Node
  <2>1. k \in Nat /\ i \in Nat /\ j \in Nat /\ j \in 1..k /\ k \in 1..k
    BY Sequences
  <2>2. Len(p) = k
    BY DEF Trail
  <2> QED
    BY <2>1, <2>2, Sequences
<1> SUFFICES ASSUME NEW S \in SUBSET Id, DependsOn(p[j]) \subseteq S,
                    \A x \in S : DependsOn(x) \subseteq S
             PROVE  p[j] \in S
  BY <1>1 DEF Below
<1>2. DependsOn(p[k]) \subseteq S
  BY <1>1, PathReaches
<1>3. p[i] \in S
  BY <1>1, <1>2 DEF DependsOn, Edges
<1>4. \A l \in (i+1)..k : p[l] \in S
  <2>1. DependsOn(p[i]) \subseteq S
    BY <1>3
  <2> QED
    BY <2>1, PathReaches
<1>5. j = i \/ j \in (i+1)..k
  BY <1>1
<1> QED
  BY <1>3, <1>4, <1>5

\* What is finished and unmarked stays well founded when a node is finished.
LEMMA PopFounded ==
    ASSUME Node \subseteq Id, deps \in [Node -> SUBSET Id],
           NEW s \in Seq(Frame), s # <<>>, NEW p \in Seq(Node),
           NEW c \in [Node -> {"WHITE", "GREY", "BLACK"}], NEW y,
           Trail(s, p, c), LookedAt(s, c, y), BlackBelow(c, y),
           s[Len(s)].left = {}, FoundedIn(c, y),
           NEW d, d = [c EXCEPT ![s[Len(s)].node] = "BLACK"]
    PROVE  FoundedIn(d, y)
<1> DEFINE k == Len(s)
           n == s[k].node
<1>1. k \in Nat /\ k \in 1..k
  BY Sequences
<1>2. n \in Node /\ c[n] = "GREY"
  <2>1. Len(p) = k /\ n = p[k]
    BY <1>1 DEF Trail
  <2>2. n \in Node
    BY <1>1, <2>1, Sequences
  <2> QED
    BY <1>1, <2>1, <2>2 DEF Trail
<1>3. n \notin y => \A x \in Edges(n) : c[x] = "BLACK"
  BY <1>1 DEF LookedAt
<1> HIDE DEF n
<1>4. SUFFICES ASSUME NEW U \in SUBSET {x \in Node \ y : d[x] = "BLACK"}, U # {}
               PROVE  \E x \in U : deps[x] \cap U = {}
  BY DEF FoundedIn
<1>5. \A x \in U : x # n => x \in Node \ y /\ c[x] = "BLACK"
  BY <1>2 DEF n
<1>6. CASE n \notin U
  BY <1>4, <1>5, <1>6 DEF FoundedIn
<1>7. CASE n \in U
  <2>1. n \notin Edges(n)
    BY <1>2, <1>3, <1>4, <1>7
  <2> DEFINE W == U \ {n}
  <2>2. CASE W = {}
    BY <1>2, <1>7, <2>1, <2>2 DEF Edges
  <2>3. CASE W # {}
    <3>1. PICK x \in W : deps[x] \cap W = {}
      BY <1>5, <2>3 DEF FoundedIn
    <3>2. n \notin deps[x]
      <4>1. x \in Node \ y /\ c[x] = "BLACK"
        BY <1>5, <3>1
      <4> QED
        BY <1>2, <4>1 DEF BlackBelow, Edges
    <3> QED
      BY <3>1, <3>2
  <2> QED
    BY <2>2, <2>3
<1> QED
  BY <1>6, <1>7

\* What a step of the search leaves alone, and what it then has to keep.
SearchOnly == UNCHANGED <<input, pc, unresolved, kahn, composed, out>>

LEMMA SearchKeeps ==
    ASSUME TypeOK, SearchOnly, Searched, pc = "search",
           stack' \in Seq(Frame), path' \in Seq(Node),
           colour' \in [Node -> {"WHITE", "GREY", "BLACK"}], onCycle' \subseteq Node,
           Trail(stack', path', colour'), LookedAt(stack', colour', onCycle'),
           BlackBelow(colour', onCycle'), FoundedIn(colour', onCycle'),
           \A n \in onCycle' : n \in Below(n)
    PROVE  SearchInv' /\ Founded' /\ Searched' /\ Marked'
<1>1. deps' = deps /\ given' = given /\ pc' = pc /\ UNCHANGED input
  BY DEF SearchOnly, input
<1>2. TypeOK'
  BY <1>1 DEF TypeOK, SearchOnly, kahn, Node, Assessed
<1>3. Trail(stack, path, colour)'
  BY <1>1 DEF Trail, Edges, Node
<1>4. LookedAt(stack, colour, onCycle)'
  BY <1>1 DEF LookedAt, Edges, Node
<1>5. BlackBelow(colour, onCycle)'
  BY <1>1 DEF BlackBelow, Edges, Node
<1>6. Founded'
  BY <1>1 DEF Founded, FoundedIn, Node
<1>7. Marked'
  BY <1>1 DEF Marked, Below, DependsOn, Node
<1>8. Searched'
  BY <1>1 DEF Searched
<1> QED
  BY <1>2, <1>3, <1>4, <1>5, <1>6, <1>7, <1>8 DEF SearchInv

LEMMA SearchStep ==
    ASSUME SearchInv, Founded, Searched, Marked, NEW n \in Node, Search(n)
    PROVE  SearchOnly /\ SearchInv' /\ Founded' /\ Searched' /\ Marked'
<1>1. /\ TypeOK /\ Trail(stack, path, colour) /\ LookedAt(stack, colour, onCycle)
      /\ BlackBelow(colour, onCycle) /\ FoundedIn(colour, onCycle)
      /\ \A x \in onCycle : x \in Below(x)
  BY DEF SearchInv, Founded, Marked
<1>2. /\ stack \in Seq(Frame) /\ path \in Seq(Node) /\ onCycle \subseteq Node
      /\ colour \in [Node -> {"WHITE", "GREY", "BLACK"}]
      /\ Node \subseteq Id /\ deps \in [Node -> SUBSET Id]
  BY <1>1 DEF TypeOK
<1>3. CASE Visit(n)
  <2>1. /\ SearchOnly /\ pc = "search" /\ stack = <<>> /\ colour[n] = "WHITE"
        /\ colour' = [colour EXCEPT ![n] = "GREY"]
        /\ stack' = <<Entry(n)>>
        /\ path' = <<n>> /\ onCycle' = onCycle
    BY <1>3 DEF Visit, SearchOnly, Entry
  <2>2. path = <<>>
    BY <1>1, <1>2, <2>1, EmptySeq DEF Trail
  <2>3. /\ stack' \in Seq(Frame) /\ path' \in Seq(Node)
        /\ colour' \in [Node -> {"WHITE", "GREY", "BLACK"}]
        /\ Trail(stack', path', colour') /\ LookedAt(stack', colour', onCycle')
        /\ BlackBelow(colour', onCycle')
    <3>1. Trail(<<>>, <<>>, colour)
      BY <1>1, <2>1, <2>2
    <3>2. /\ stack' = <<Entry(n)>>
          /\ colour' = [colour EXCEPT ![n] = "GREY"] /\ colour[n] = "WHITE"
      BY <2>1
    <3>3. /\ stack' \in Seq(Frame) /\ <<n>> \in Seq(Node)
          /\ colour' \in [Node -> {"WHITE", "GREY", "BLACK"}]
          /\ Trail(stack', <<n>>, colour') /\ LookedAt(stack', colour', onCycle)
          /\ BlackBelow(colour', onCycle)
      BY <1>1, <1>2, <3>1, <3>2, StartKeeps, Zenon
    <3> QED
      BY <2>1, <3>3
  <2>4. FoundedIn(colour', onCycle')
    BY <1>1, <1>2, <2>1 DEF FoundedIn
  <2> QED
    BY <1>1, <1>2, <2>1, <2>3, <2>4, SearchKeeps
<1>4. CASE BackEdge(n)
  <2>1. /\ SearchOnly /\ pc = "search" /\ stack # <<>>
        /\ n \in Top.left /\ colour[n] = "GREY"
        /\ onCycle' = onCycle \cup {Top.node}
                        \cup (IF n \in Range(path) THEN PathFrom(n) ELSE {n})
        /\ stack' = Advanced(stack, n)
        /\ colour' = colour /\ path' = path
    BY <1>4 DEF BackEdge, SearchOnly, Advance, Advanced
  <2> DEFINE k == Len(stack)
  <2>2. k \in 1..k /\ k \in Nat /\ Top = stack[k] /\ Len(path) = k
        /\ DOMAIN path = 1..k
    BY <1>1, <1>2, <2>1, Sequences DEF Top, Last, Trail
  <2>3. path[k] = Top.node /\ n \in Edges(path[k])
    BY <1>1, <2>1, <2>2 DEF Trail, LookedAt
  <2>4. PICK i \in 1..k : path[i] = n
    BY <1>1, <2>1 DEF Trail
  <2>5. PathFrom(n) = {path[j] : j \in i..k}
    <3> DEFINE First(a) == path[a] = n /\ \A j \in 1..(a-1) : path[j] # n
    <3>1. \A a \in 1..k : First(a) => a = i
      BY <1>1, <2>4 DEF Trail
    <3>2. First(i)
      <4>1. \A j \in 1..(i-1) : j \in 1..k /\ j # i
        BY <2>2
      <4> QED
        BY <1>1, <2>4, <4>1 DEF Trail
    <3> HIDE DEF First
    <3>3. (CHOOSE a \in DOMAIN path : First(a)) = i
      BY <2>2, <2>4, <3>1, <3>2
    <3> QED
      BY <2>2, <3>3 DEF PathFrom, First
  <2>6. \A j \in i..k : path[j] \in Below(path[j]) /\ path[j] \in Node
    <3>1. \A j \in i..k : j \in 1..k
      BY <2>2
    <3>2. \A j \in 1..k : path[j] \in Node
      BY <1>2, <2>2, Sequences
    <3> QED
      BY <1>1, <1>2, <2>3, <2>4, <3>1, <3>2, PathIsCycle
  <2>7. Range(path) = {path[j] : j \in 1..k}
    BY <2>2 DEF Range
  <2>8. onCycle' = onCycle \cup {path[j] : j \in i..k} /\ Top.node \in onCycle'
    <3>1. k \in i..k /\ n \in Range(path)
      BY <2>2, <2>4, <2>7
    <3> QED
      BY <2>1, <2>3, <2>5, <3>1
  <2>9. onCycle' \subseteq Node /\ \A x \in onCycle' : x \in Below(x)
    BY <1>1, <1>2, <2>6, <2>8
  <2>10. Trail(stack', path', colour') /\ LookedAt(stack', colour', onCycle')
         /\ stack' \in Seq(Frame)
    BY <1>1, <1>2, <2>1, <2>2, <2>8, AdvanceKeeps, AdvanceFacts
  <2>11. BlackBelow(colour', onCycle') /\ FoundedIn(colour', onCycle')
    BY <1>1, <2>1, <2>8 DEF BlackBelow, FoundedIn
  <2> QED
    BY <1>1, <1>2, <2>1, <2>9, <2>10, <2>11, SearchKeeps
<1>5. CASE Descend(n)
  <2>1. /\ SearchOnly /\ pc = "search" /\ stack # <<>>
        /\ n \in Top.left /\ colour[n] = "WHITE"
        /\ colour' = [colour EXCEPT ![n] = "GREY"]
        /\ path' = Append(path, n)
        /\ stack' = Append(Advanced(stack, n), Entry(n))
        /\ onCycle' = onCycle /\ Top = stack[Len(stack)]
    BY <1>5 DEF Descend, SearchOnly, Entry, Advance, Advanced, Top, Last
  <2>2. /\ stack' \in Seq(Frame) /\ path' \in Seq(Node)
        /\ colour' \in [Node -> {"WHITE", "GREY", "BLACK"}]
        /\ Trail(stack', path', colour') /\ LookedAt(stack', colour', onCycle')
        /\ BlackBelow(colour', onCycle')
    <3>1. n \in stack[Len(stack)].left
      BY <2>1
    <3>2. n \in Node /\ stack # <<>> /\ colour[n] = "WHITE"
      BY <2>1
    <3>3. Entered(stack, stack', n)
      BY <1>2, <2>1, PushFacts
    <3>4. path' \in Seq(Node) /\ Extended(path, path', n)
      BY <1>2, <2>1, AppendProperties DEF Extended
    <3>5. colour' = [colour EXCEPT ![n] = "GREY"]
      BY <2>1
    <3>6. /\ Trail(stack', path', colour') /\ LookedAt(stack', colour', onCycle)
          /\ BlackBelow(colour', onCycle)
      <4>1. /\ Trail(stack, path, colour) /\ LookedAt(stack, colour, onCycle)
            /\ BlackBelow(colour, onCycle) /\ Extended(path, path', n)
        BY <1>1, <3>4
      <4> QED
        BY <1>2, <3>1, <3>2, <3>3, <3>5, <4>1, PushKeeps, Zenon
    <3>7. colour' \in [Node -> {"WHITE", "GREY", "BLACK"}]
      BY <1>2, <3>5
    <3>8. stack' \in Seq(Frame)
      BY <3>3 DEF Entered
    <3> QED
      BY <2>1, <3>4, <3>6, <3>7, <3>8
  <2>3. FoundedIn(colour', onCycle')
    BY <1>1, <1>2, <2>1 DEF FoundedIn
  <2> QED
    BY <1>1, <1>2, <2>1, <2>2, <2>3, SearchKeeps
<1>6. CASE SkipBlack(n)
  <2>1. /\ SearchOnly /\ pc = "search" /\ stack # <<>>
        /\ n \in Top.left /\ colour[n] = "BLACK"
        /\ stack' = Advanced(stack, n)
        /\ colour' = colour /\ path' = path /\ onCycle' = onCycle
    BY <1>6 DEF SkipBlack, SearchOnly, Advance, Advanced
  <2>2. Trail(stack', path', colour') /\ LookedAt(stack', colour', onCycle')
        /\ stack' \in Seq(Frame)
    BY <1>1, <1>2, <2>1, AdvanceKeeps, AdvanceFacts
  <2> QED
    BY <1>1, <1>2, <2>1, <2>2, SearchKeeps
<1> QED
  BY <1>3, <1>4, <1>5, <1>6 DEF Search

LEMMA RetreatStep ==
    ASSUME SearchInv, Founded, Searched, Marked, Retreat
    PROVE  SearchOnly /\ SearchInv' /\ Founded' /\ Searched' /\ Marked'
<1>1. /\ TypeOK /\ Trail(stack, path, colour) /\ LookedAt(stack, colour, onCycle)
      /\ BlackBelow(colour, onCycle) /\ FoundedIn(colour, onCycle)
      /\ \A x \in onCycle : x \in Below(x)
  BY DEF SearchInv, Founded, Marked
<1>2. /\ stack \in Seq(Frame) /\ path \in Seq(Node) /\ onCycle \subseteq Node
      /\ colour \in [Node -> {"WHITE", "GREY", "BLACK"}]
      /\ Node \subseteq Id /\ deps \in [Node -> SUBSET Id]
  BY <1>1 DEF TypeOK
<1>3. /\ SearchOnly /\ pc = "search" /\ stack # <<>> /\ Top.left = {}
      /\ colour' = [colour EXCEPT ![Top.node] = "BLACK"]
      /\ stack' = Front(stack)
      /\ path' = IF path # <<>> /\ Last(path) = Top.node THEN Front(path) ELSE path
      /\ onCycle' = onCycle /\ Top = stack[Len(stack)]
  BY DEF Retreat, SearchOnly, Top, Last
<1>4. path' = Front(path)
  <2>1. Len(stack) \in 1..Len(stack) /\ Len(path) = Len(stack)
        /\ path[Len(path)] = Top.node
    BY <1>1, <1>2, <1>3, Sequences DEF Trail
  <2>2. path # <<>>
    BY <2>1
  <2> QED
    BY <1>3, <2>1, <2>2 DEF Last
<1>5. /\ stack' \in Seq(Frame) /\ path' \in Seq(Node)
      /\ colour' \in [Node -> {"WHITE", "GREY", "BLACK"}]
      /\ Trail(stack', path', colour') /\ LookedAt(stack', colour', onCycle')
      /\ BlackBelow(colour', onCycle')
  <2>1. /\ stack[Len(stack)].left = {} /\ stack' = Front(stack)
        /\ colour' = [colour EXCEPT ![stack[Len(stack)].node] = "BLACK"]
    BY <1>3
  <2> QED
    BY <1>1, <1>2, <1>3, <1>4, <2>1, PopKeeps, Zenon
<1>6. FoundedIn(colour', onCycle')
  BY <1>1, <1>2, <1>3, PopFounded
<1> QED
  BY <1>1, <1>2, <1>3, <1>5, <1>6, SearchKeeps

-----------------------------------------------------------------------------
(* The loops after the search *)

\* What a step of the search keeps without looking at it.
LEMMA LaterPartsStay ==
    ASSUME SearchOnly, pc = "search", PropagateInv, KahnInv, ComposeInv
    PROVE  PropagateInv' /\ KahnInv' /\ ComposeInv'
<1>1. deps' = deps /\ given' = given /\ pc' = pc /\ unresolved' = unresolved
      /\ indegree' = indegree /\ ready' = ready /\ order' = order
      /\ composed' = composed /\ out' = out /\ UNCHANGED input
  BY DEF SearchOnly, input, kahn
<1>2. PropagateInv'
  BY <1>1, GraphStays DEF PropagateInv
<1>3. KahnInv'
  BY <1>1 DEF KahnInv, Resolvable, Node
<1>4. ComposeInv'
  BY <1>1 DEF ComposeInv, Assessed
<1> QED
  BY <1>2, <1>3, <1>4

\* Once the search is over its part of the invariant stays as it is.
LEMMA SearchPartStays ==
    ASSUME SearchInv, Founded, Marked, FiniteDeps, UNCHANGED <<input, search>>,
           TypeOK', \A n \in Node : colour[n] = "BLACK"
    PROVE  SearchInv' /\ Founded' /\ Searched' /\ Marked' /\ FiniteDeps'
<1>1. deps' = deps /\ colour' = colour /\ stack' = stack /\ path' = path
      /\ onCycle' = onCycle /\ UNCHANGED input
  BY DEF input, search
<1>2. SearchInv'
  <2>1. Trail(stack, path, colour)'
    BY <1>1 DEF SearchInv, Trail, Edges, Node
  <2>2. LookedAt(stack, colour, onCycle)'
    BY <1>1 DEF SearchInv, LookedAt, Edges, Node
  <2>3. BlackBelow(colour, onCycle)'
    BY <1>1 DEF SearchInv, BlackBelow, Edges, Node
  <2> QED
    BY <2>1, <2>2, <2>3 DEF SearchInv
<1>3. Founded' /\ Searched'
  BY <1>1 DEF Founded, FoundedIn, Searched, Node
<1>4. Marked' /\ FiniteDeps'
  BY <1>1 DEF Marked, Below, DependsOn, Node, FiniteDeps
<1> QED
  BY <1>2, <1>3, <1>4

LEMMA SearchDoneStep ==
    ASSUME IInv, SearchDone
    PROVE  IInv'
<1>1. TypeOK /\ Trail(stack, path, colour)
  BY DEF IInv, SearchInv
<1>2. /\ UNCHANGED <<input, search>> /\ deps' = deps /\ given' = given
      /\ pc = "search" /\ stack = <<>> /\ (\A n \in Node : colour[n] # "WHITE")
      /\ pc' = "propagate" /\ unresolved' = MissingDep \cup onCycle
      /\ indegree' = indegree /\ ready' = ready /\ order' = order
      /\ composed' = composed /\ out' = out /\ colour' = colour
      /\ onCycle' = onCycle /\ stack' = stack /\ path' = path
  BY DEF SearchDone, input, search, kahn
<1>3. \A n \in Node : colour[n] = "BLACK"
  <2>1. \A n \in Node : colour[n] # "GREY"
    BY <1>1, <1>2, EmptySeq DEF Trail
  <2> QED
    BY <1>1, <1>2, <2>1 DEF TypeOK
<1>4. TypeOK'
  <2>1. MissingDep \cup onCycle \subseteq Node
    BY <1>1 DEF TypeOK, MissingDep
  <2> QED
    BY <1>1, <1>2, <2>1 DEF TypeOK, Node, Assessed, Phase
<1>5. SearchInv' /\ Founded' /\ Searched' /\ Marked' /\ FiniteDeps'
  BY <1>2, <1>3, <1>4, SearchPartStays DEF IInv
<1>6. PropagateInv'
  <2>1. MissingDep \cup onCycle \subseteq Abstract!Unestablished
    BY <1>1, UnestablishedFacts, CyclesBlock DEF IInv, Marked, TypeOK
  <2>2. (MissingDep \cup onCycle)' = MissingDep \cup onCycle
    BY <1>2, GraphStays
  <2>3. Abstract!Unestablished' = Abstract!Unestablished
    BY <1>2, GraphStays
  <2> QED
    BY <1>2, <2>1, <2>2, <2>3 DEF PropagateInv
<1>7. KahnInv'
  <2>1. order = <<>> /\ ready = {}
    BY <1>2 DEF IInv, KahnInv
  <2>2. Range(order) = {} /\ DOMAIN order = {}
    BY <2>1 DEF Range
  <2> QED
    BY <1>2, <2>1, <2>2 DEF KahnInv, IsInjective, Range
<1>8. ComposeInv'
  BY <1>2 DEF IInv, ComposeInv, Assessed
<1> QED
  BY <1>5, <1>6, <1>7, <1>8 DEF IInv

LEMMA PropagateStep ==
    ASSUME IInv, NEW n \in Node, Propagate(n)
    PROVE  IInv'
<1>1. TypeOK
  BY DEF IInv, SearchInv
<1>2. /\ UNCHANGED <<input, search>> /\ deps' = deps /\ given' = given
      /\ pc = "propagate" /\ pc' = pc /\ CanPropagate(n)
      /\ unresolved' = unresolved \cup {n}
      /\ indegree' = indegree /\ ready' = ready /\ order' = order
      /\ composed' = composed /\ out' = out /\ colour' = colour
      /\ onCycle' = onCycle /\ stack' = stack /\ path' = path
  BY DEF Propagate, input, search, kahn
<1>3. \A x \in Node : colour[x] = "BLACK"
  BY <1>2 DEF IInv, Searched
<1>4. TypeOK'
  BY <1>1, <1>2 DEF TypeOK, Node, Assessed
<1>5. SearchInv' /\ Founded' /\ Searched' /\ Marked' /\ FiniteDeps'
  BY <1>2, <1>3, <1>4, SearchPartStays DEF IInv
<1>6. PropagateInv'
  <2>1. unresolved \subseteq Abstract!Unestablished /\ MissingDep \cup onCycle \subseteq unresolved
    BY <1>2 DEF IInv, PropagateInv
  <2>2. n \in Abstract!Unestablished
    BY <1>1, <1>2, <2>1, UnestablishedFacts DEF CanPropagate
  <2>3. MissingDep' = MissingDep /\ Abstract!Unestablished' = Abstract!Unestablished
    BY <1>2, GraphStays
  <2> QED
    BY <1>2, <2>1, <2>2, <2>3 DEF PropagateInv
<1>7. KahnInv'
  <2>1. order = <<>> /\ ready = {}
    BY <1>2 DEF IInv, KahnInv
  <2>2. Range(order) = {} /\ DOMAIN order = {}
    BY <2>1 DEF Range
  <2> QED
    BY <1>2, <2>1, <2>2 DEF KahnInv, IsInjective, Range
<1>8. ComposeInv'
  BY <1>2 DEF IInv, ComposeInv, Assessed
<1> QED
  BY <1>5, <1>6, <1>7, <1>8 DEF IInv

\* When nothing is left to propagate, every node that cannot be established
\* is unresolved: the others of them would be black, unmarked and blocked.
LEMMA PropagationComplete ==
    ASSUME IInv, pc = "propagate", \A n \in Node : ~ CanPropagate(n)
    PROVE  unresolved = Abstract!Unestablished
<1>1. TypeOK
  BY DEF IInv, SearchInv
<1>2. unresolved \subseteq Abstract!Unestablished /\ MissingDep \cup onCycle \subseteq unresolved
  BY DEF IInv, PropagateInv
<1> DEFINE B == Abstract!Unestablished
           V == B \ unresolved
<1>3. B \subseteq Node /\ Abstract!Blocked(B)
  BY <1>1, UnestablishedFacts
<1> HIDE DEF B
<1>4. \A n \in Node : colour[n] = "BLACK"
  BY DEF IInv, Searched
<1>5. ASSUME V # {} PROVE FALSE
  <2>1. V \in SUBSET {n \in Node \ onCycle : colour[n] = "BLACK"}
    BY <1>2, <1>3, <1>4
  <2>2. PICK n \in V : deps[n] \cap V = {}
    BY <1>5, <2>1 DEF IInv, Founded, FoundedIn
  <2>3. n \in Node /\ n \notin unresolved /\ deps[n] \subseteq Assessed
    BY <1>2, <1>3, <2>2 DEF MissingDep
  <2>4. deps[n] \cap B # {}
    BY <1>3, <2>2, <2>3 DEF Abstract!Blocked, Abstract!Assessed, Assessed
  <2> QED
    BY <2>2, <2>3, <2>4 DEF CanPropagate
<1> QED
  BY <1>2, <1>5 DEF B

LEMMA PropagateDoneStep ==
    ASSUME IInv, PropagateDone
    PROVE  IInv'
<1>1. TypeOK /\ FiniteDeps
  BY DEF IInv, SearchInv
<1>2. /\ UNCHANGED <<input, search>> /\ deps' = deps /\ given' = given
      /\ pc = "propagate" /\ pc' = "order" /\ (\A n \in Node : ~ CanPropagate(n))
      /\ indegree' = [n \in Node |-> InitialIndegree(n)]
      /\ ready' = {n \in Resolvable : indegree'[n] = 0}
      /\ unresolved' = unresolved /\ order' = order
      /\ composed' = composed /\ out' = out /\ colour' = colour
      /\ onCycle' = onCycle /\ stack' = stack /\ path' = path
  BY DEF PropagateDone, input, search
<1>3. \A x \in Node : colour[x] = "BLACK"
  BY <1>2 DEF IInv, Searched
<1>4. \A n \in Node : InitialIndegree(n) \in Nat
  <2> SUFFICES ASSUME NEW n \in Node PROVE InitialIndegree(n) \in Nat
    OBVIOUS
  <2>1. IsFiniteSet(deps[n] \cap Resolvable)
    BY <1>1, FS_Intersection DEF FiniteDeps
  <2> QED
    BY <2>1, FS_CardinalityType DEF InitialIndegree
<1>5. TypeOK'
  <2>1. ready' \subseteq Node
    BY <1>2 DEF Resolvable
  <2> QED
    BY <1>1, <1>2, <1>4, <2>1 DEF TypeOK, Node, Assessed, Phase
<1>6. SearchInv' /\ Founded' /\ Searched' /\ Marked' /\ FiniteDeps'
  BY <1>2, <1>3, <1>5, SearchPartStays DEF IInv
<1>7. PropagateInv'
  <2>1. unresolved = Abstract!Unestablished
    BY <1>2, PropagationComplete
  <2>2. Abstract!Unestablished' = Abstract!Unestablished
    BY <1>2, GraphStays
  <2> QED
    BY <1>2, <2>1, <2>2 DEF PropagateInv
<1>8. KahnInv'
  <2>1. order = <<>>
    BY <1>2 DEF IInv, KahnInv
  <2>2. Range(order) = {} /\ DOMAIN order = {}
    BY <2>1 DEF Range
  <2>3. Range(order)' = {} /\ (DOMAIN order)' = {} /\ Resolvable' = Resolvable
    BY <1>2, <2>2 DEF Range, Resolvable, Node
  <2>4. \A n \in Resolvable : indegree'[n] = Cardinality((deps[n] \cap Resolvable) \ {})
    <3>1. \A n \in Resolvable : (deps[n] \cap Resolvable) \ {} = deps[n] \cap Resolvable
      OBVIOUS
    <3>2. \A n \in Resolvable : n \in Node /\ InitialIndegree(n) = Cardinality(deps[n] \cap Resolvable)
      BY DEF InitialIndegree, Resolvable
    <3> QED
      BY <1>2, <3>1, <3>2
  <2>5. ready' = {n \in Resolvable \ {} : indegree'[n] = 0}
    BY <1>2
  <2> QED
    BY <1>2, <2>3, <2>4, <2>5 DEF KahnInv, IsInjective
<1>9. ComposeInv'
  BY <1>2 DEF IInv, ComposeInv, Assessed
<1> QED
  BY <1>6, <1>7, <1>8, <1>9 DEF IInv

\* In the order loop: a resolvable node depends on resolvable nodes only, and
\* its indegree is 0 exactly when they are all in the order.
LEMMA OrderLoop ==
    ASSUME IInv, pc \in {"order", "compose", "done"}
    PROVE  /\ \A n \in Resolvable :
                /\ deps[n] \subseteq Assessed /\ deps[n] \cap Node \subseteq Resolvable
                /\ deps[n] \cap Resolvable = deps[n] \cap Node
           /\ pc = "order" => \A n \in Resolvable :
                /\ IsFiniteSet((deps[n] \cap Node) \ Range(order))
                /\ indegree[n] = Cardinality((deps[n] \cap Node) \ Range(order))
                /\ indegree[n] = 0 <=> deps[n] \cap Node \subseteq Range(order)
<1>1. TypeOK /\ FiniteDeps
  BY DEF IInv, SearchInv
<1>2. unresolved = Abstract!Unestablished
  BY DEF IInv, PropagateInv
<1>3. ASSUME NEW n \in Resolvable
      PROVE  /\ deps[n] \subseteq Assessed /\ deps[n] \cap Node \subseteq Resolvable
             /\ deps[n] \cap Resolvable = deps[n] \cap Node
  <2>1. n \in Node /\ n \notin unresolved
    BY <1>3 DEF Resolvable
  <2>2. deps[n] \subseteq Assessed
    BY <1>1, <1>2, <2>1, UnestablishedFacts DEF MissingDep
  <2>3. deps[n] \cap unresolved = {}
    BY <1>1, <1>2, <2>1, UnestablishedFacts
  <2> QED
    BY <2>2, <2>3 DEF Resolvable
<1>4. ASSUME pc = "order", NEW n \in Resolvable
      PROVE  /\ IsFiniteSet((deps[n] \cap Node) \ Range(order))
             /\ indegree[n] = Cardinality((deps[n] \cap Node) \ Range(order))
             /\ indegree[n] = 0 <=> deps[n] \cap Node \subseteq Range(order)
  <2> DEFINE D == (deps[n] \cap Node) \ Range(order)
  <2>1. IsFiniteSet(deps[n])
    BY <1>1, <1>4 DEF FiniteDeps, Resolvable
  <2>2. IsFiniteSet(D)
    BY <2>1, FS_Subset
  <2>3. indegree[n] = Cardinality(D)
    BY <1>3, <1>4 DEF IInv, KahnInv
  <2>4. Cardinality(D) = 0 <=> D = {}
    BY <2>2, FS_EmptySet
  <2> QED
    BY <2>2, <2>3, <2>4
<1> QED
  BY <1>3, <1>4

LEMMA TakeReadyStep ==
    ASSUME IInv, NEW n \in Node, TakeReady(n)
    PROVE  IInv'
<1>1. TypeOK /\ FiniteDeps
  BY DEF IInv, SearchInv
<1>2. /\ UNCHANGED <<input, search>> /\ deps' = deps /\ given' = given
      /\ pc = "order" /\ pc' = pc /\ n \in ready
      /\ order' = Append(order, n)
      /\ indegree' = [c \in Node |-> indegree[c] - (IF c \in Children(n) THEN 1 ELSE 0)]
      /\ ready' = (ready \ {n}) \cup {c \in Children(n) : indegree'[c] = 0}
      /\ unresolved' = unresolved
      /\ composed' = composed /\ out' = out /\ colour' = colour
      /\ onCycle' = onCycle /\ stack' = stack /\ path' = path
  BY DEF TakeReady, input, search
<1>3. /\ Range(order) \subseteq Resolvable /\ IsInjective(order)
      /\ \A i \in DOMAIN order :
           deps[order[i]] \cap Node \subseteq {order[j] : j \in 1..(i-1)}
      /\ ready = {x \in Resolvable \ Range(order) : indegree[x] = 0}
  BY <1>2 DEF IInv, KahnInv
<1>4. n \in Resolvable /\ n \notin Range(order) /\ indegree[n] = 0
  BY <1>2, <1>3
<1> DEFINE k == Len(order)
           Left(c) == (deps[c] \cap Node) \ Range(order)
<1>5. \A c \in Resolvable :
        /\ IsFiniteSet(Left(c)) /\ indegree[c] = Cardinality(Left(c))
        /\ indegree[c] = 0 <=> deps[c] \cap Node \subseteq Range(order)
        /\ deps[c] \cap Resolvable = deps[c] \cap Node
  BY <1>2, OrderLoop
<1>6. k \in Nat /\ DOMAIN order = 1..k /\ order \in Seq(Node)
  BY <1>1, Sequences DEF TypeOK
<1>7. /\ order' \in Seq(Node) /\ Len(order') = k + 1 /\ order'[k+1] = n
      /\ \A i \in 1..k : order'[i] = order[i]
  BY <1>2, <1>6, AppendProperties
<1>8. DOMAIN order' = 1..(k+1)
  BY <1>7, LenProperties
<1>9. \A i \in 1..(k+1) : i \in 1..k \/ i = k + 1
  BY <1>6
<1>10. \A i \in 1..k : i \in 1..(k+1) /\ i # k + 1
  BY <1>6
<1>11. Range(order) = {order[i] : i \in 1..k}
  BY <1>6 DEF Range
<1>12. Range(order') = Range(order) \cup {n}
  <2>1. Range(order') = {order'[i] : i \in 1..(k+1)}
    BY <1>8 DEF Range
  <2>2. k + 1 \in 1..(k+1)
    BY <1>6
  <2>3. ASSUME NEW x \in Range(order') PROVE x \in Range(order) \cup {n}
    BY <1>7, <1>9, <1>11, <2>1, <2>3
  <2>4. ASSUME NEW x \in Range(order) PROVE x \in Range(order')
    BY <1>7, <1>10, <1>11, <2>1, <2>4
  <2>5. n \in Range(order')
    BY <1>7, <2>1, <2>2
  <2> QED
    BY <2>3, <2>4, <2>5
<1>13. \A c \in Resolvable : c \in Range(order) => n \notin deps[c]
  <2> SUFFICES ASSUME NEW i \in 1..k, n \in deps[order[i]] PROVE FALSE
    BY <1>11
  <2>1. n \in {order[j] : j \in 1..(i-1)}
    BY <1>3, <1>6
  <2>2. \A j \in 1..(i-1) : j \in 1..k
    BY <1>6
  <2> QED
    BY <1>4, <1>11, <2>1, <2>2
<1>14. \A c \in Resolvable :
         indegree'[c] = Cardinality((deps[c] \cap Node) \ (Range(order) \cup {n}))
  <2> SUFFICES ASSUME NEW c \in Resolvable
               PROVE  indegree'[c] = Cardinality(Left(c) \ {n})
    <3>1. \A c \in Resolvable : (deps[c] \cap Node) \ (Range(order) \cup {n}) = Left(c) \ {n}
      OBVIOUS
    <3> QED
      BY <3>1
  <2>1. n \in Left(c) <=> n \in deps[c]
    BY <1>4
  <2>2. c \in Children(n) <=> n \in deps[c]
    BY DEF Children
  <2>3. c \in Node
    BY DEF Resolvable
  <2>4. Cardinality(Left(c) \ {n}) = IF n \in Left(c) THEN Cardinality(Left(c)) - 1
                                                     ELSE Cardinality(Left(c))
    BY <1>5, FS_RemoveElement
  <2>5. Cardinality(Left(c)) \in Nat
    BY <1>5, FS_CardinalityType
  <2> HIDE DEF Left
  <2> QED
    BY <1>2, <1>5, <2>1, <2>2, <2>3, <2>4, <2>5
<1>15. \A c \in Resolvable :
         indegree'[c] = 0 <=> deps[c] \cap Node \subseteq Range(order) \cup {n}
  <2> SUFFICES ASSUME NEW c \in Resolvable
               PROVE  indegree'[c] = 0 <=> Left(c) \ {n} = {}
    OBVIOUS
  <2>1. IsFiniteSet(Left(c) \ {n})
    BY <1>5, FS_RemoveElement
  <2>2. (deps[c] \cap Node) \ (Range(order) \cup {n}) = Left(c) \ {n}
    OBVIOUS
  <2> QED
    BY <1>14, <2>1, <2>2, FS_EmptySet
<1>16. ready' = {x \in Resolvable \ (Range(order) \cup {n}) : indegree'[x] = 0}
  <2>1. \A c : c \in Children(n) <=> c \in Resolvable /\ n \in deps[c]
    BY DEF Children
  <2>2. n \notin deps[n]
    BY <1>4, <1>5
  <2>3. ASSUME NEW c \in Resolvable, c \notin Range(order), c # n
        PROVE  c \in ready' <=> indegree'[c] = 0
    <3>1. CASE n \in deps[c]
      <4>1. c \notin ready
        BY <1>3, <1>4, <1>5, <2>3, <3>1
      <4> QED
        BY <1>2, <2>1, <2>3, <3>1, <4>1
    <3>2. CASE n \notin deps[c]
      <4>1. indegree'[c] = 0 <=> indegree[c] = 0
        BY <1>5, <1>15, <2>3, <3>2
      <4> QED
        BY <1>2, <1>3, <2>1, <2>3, <3>2, <4>1
    <3> QED
      BY <3>1, <3>2
  <2>4. \A c \in ready' : c \in Resolvable /\ c \notin Range(order) /\ c # n
    BY <1>2, <1>3, <1>13, <2>1, <2>2
  <2> QED
    BY <2>3, <2>4
<1>17. indegree' \in [Node -> Nat]
  <2> SUFFICES ASSUME NEW c \in Node PROVE indegree'[c] \in Nat
    BY <1>2
  <2>1. CASE c \in Children(n)
    <3>1. c \in Resolvable
      BY <2>1 DEF Children
    <3>2. IsFiniteSet(Left(c) \ {n})
      BY <1>5, <3>1, FS_RemoveElement
    <3>3. (deps[c] \cap Node) \ (Range(order) \cup {n}) = Left(c) \ {n}
      OBVIOUS
    <3> QED
      BY <1>14, <3>1, <3>2, <3>3, FS_CardinalityType
  <2>2. CASE c \notin Children(n)
    BY <1>1, <1>2, <2>2 DEF TypeOK
  <2> QED
    BY <2>1, <2>2
<1>18. TypeOK'
  <2>1. ready' \subseteq Node
    BY <1>16 DEF Resolvable
  <2>2. composed' \in 0..Len(order')
    BY <1>1, <1>2, <1>6, <1>7 DEF TypeOK
  <2> QED
    BY <1>1, <1>2, <1>7, <1>17, <2>1, <2>2 DEF TypeOK, Node, Assessed
<1>19. SearchInv' /\ Founded' /\ Searched' /\ Marked' /\ FiniteDeps'
  <2>1. \A x \in Node : colour[x] = "BLACK"
    BY <1>2 DEF IInv, Searched
  <2> QED
    BY <1>2, <1>18, <2>1, SearchPartStays DEF IInv
<1>20. PropagateInv'
  <2>1. MissingDep' = MissingDep /\ Abstract!Unestablished' = Abstract!Unestablished
    BY <1>2, GraphStays
  <2> QED
    BY <1>2, <2>1 DEF IInv, PropagateInv
<1>21. KahnInv'
  <2>1. Resolvable' = Resolvable /\ Node' = Node
    BY <1>2 DEF Resolvable, Node
  <2>2. Range(order') \subseteq Resolvable
    BY <1>3, <1>4, <1>12
  <2>3. \A i, j \in 1..(k+1) : order'[i] = order'[j] => i = j
    <3>1. \A i \in 1..k : order[i] # n
      BY <1>4, <1>11
    <3>2. \A i, j \in 1..k : order[i] = order[j] => i = j
      BY <1>3, <1>6 DEF IsInjective
    <3> QED
      BY <1>7, <1>9, <3>1, <3>2
  <2>4. \A i \in 1..(k+1) :
          deps[order'[i]] \cap Node \subseteq {order'[j] : j \in 1..(i-1)}
    <3>1. ASSUME NEW i \in 1..k
          PROVE  deps[order'[i]] \cap Node \subseteq {order'[j] : j \in 1..(i-1)}
      <4>1. \A j \in 1..(i-1) : j \in 1..k
        BY <1>6
      <4>2. \A j \in 1..(i-1) : order'[j] = order[j]
        BY <1>7, <4>1
      <4>3. {order'[j] : j \in 1..(i-1)} = {order[j] : j \in 1..(i-1)}
        BY <4>2
      <4> QED
        BY <1>3, <1>6, <1>7, <4>3
    <3>2. deps[n] \cap Node \subseteq {order'[j] : j \in 1..((k+1)-1)}
      <4>1. (k + 1) - 1 = k
        BY <1>6
      <4>2. {order'[j] : j \in 1..k} = Range(order)
        BY <1>7, <1>11
      <4> QED
        BY <1>4, <1>5, <4>1, <4>2
    <3> QED
      BY <1>7, <1>9, <3>1, <3>2
  <2>5. \A c \in Resolvable :
          indegree'[c] = Cardinality((deps[c] \cap Resolvable) \ Range(order'))
    BY <1>5, <1>12, <1>14
  <2>6. ready' = {x \in Resolvable \ Range(order') : indegree'[x] = 0}
    BY <1>12, <1>16
  <2>7. IsInjective(order)'
    BY <1>8, <2>3 DEF IsInjective
  <2>8. Range(order)' = Range(order')
    BY DEF Range
  <2> QED
    BY <1>2, <1>8, <2>1, <2>2, <2>4, <2>5, <2>6, <2>7, <2>8 DEF KahnInv
<1>22. ComposeInv'
  <2>1. composed = 0 /\ composed' = 0 /\ \A c \in Assessed : out[c] = given[c]
    BY <1>2 DEF IInv, ComposeInv
  <2> QED
    BY <1>2, <2>1 DEF ComposeInv, Assessed
<1> QED
  BY <1>19, <1>20, <1>21, <1>22 DEF IInv

\* Kahn's loop leaves no resolvable node out: those it left would be blocked
\* among themselves.
LEMMA OrderDoneStep ==
    ASSUME IInv, OrderDone
    PROVE  IInv'
<1>1. TypeOK
  BY DEF IInv, SearchInv
<1>2. /\ UNCHANGED <<input, search>> /\ deps' = deps /\ given' = given
      /\ pc = "order" /\ pc' = "compose" /\ ready = {}
      /\ indegree' = indegree /\ ready' = ready /\ order' = order
      /\ unresolved' = unresolved
      /\ composed' = composed /\ out' = out /\ colour' = colour
      /\ onCycle' = onCycle /\ stack' = stack /\ path' = path
  BY DEF OrderDone, input, search, kahn
<1>3. \A x \in Node : colour[x] = "BLACK"
  BY <1>2 DEF IInv, Searched
<1> DEFINE V == Resolvable \ Range(order)
<1>4. ASSUME V # {} PROVE FALSE
  <2>1. onCycle \subseteq unresolved
    BY <1>1, <1>2, CyclesBlock DEF IInv, PropagateInv, Marked, TypeOK
  <2>2. V \in SUBSET {n \in Node \ onCycle : colour[n] = "BLACK"}
    BY <1>3, <2>1 DEF Resolvable
  <2>3. PICK n \in V : deps[n] \cap V = {}
    BY <1>4, <2>2 DEF IInv, Founded, FoundedIn
  <2>4. deps[n] \cap Node \subseteq Range(order)
    BY <1>2, <2>3, OrderLoop
  <2>5. n \in ready
    BY <1>2, <2>3, <2>4, OrderLoop DEF IInv, KahnInv
  <2> QED
    BY <1>2, <2>5
<1>5. Range(order) = Resolvable
  BY <1>2, <1>4 DEF IInv, KahnInv
<1>6. TypeOK'
  BY <1>1, <1>2 DEF TypeOK, Node, Assessed, Phase
<1>7. SearchInv' /\ Founded' /\ Searched' /\ Marked' /\ FiniteDeps'
  BY <1>2, <1>3, <1>6, SearchPartStays DEF IInv
<1>8. PropagateInv'
  <2>1. Abstract!Unestablished' = Abstract!Unestablished
    BY <1>2, GraphStays
  <2> QED
    BY <1>2, <2>1 DEF IInv, PropagateInv
<1>9. KahnInv'
  BY <1>2, <1>5 DEF IInv, KahnInv, Range, Resolvable, Node, IsInjective
<1>10. ComposeInv'
  BY <1>2 DEF IInv, ComposeInv, Assessed
<1> QED
  BY <1>7, <1>8, <1>9, <1>10 DEF IInv

\* The order as a sequence, once it is complete.
LEMMA OrderFacts ==
    ASSUME IInv, pc = "compose"
    PROVE  /\ Len(order) \in Nat
           /\ Resolvable = {order[i] : i \in 1..Len(order)}
           /\ \A i \in 1..Len(order) : order[i] \in Resolvable /\ order[i] \in Assessed
           /\ \A i, j \in 1..Len(order) : order[i] = order[j] => i = j
           /\ \A i \in 1..Len(order) :
                /\ deps[order[i]] \subseteq Assessed
                /\ deps[order[i]] \cap unresolved = {}
                /\ deps[order[i]] \cap Node \subseteq {order[j] : j \in 1..(i-1)}
<1>1. TypeOK
  BY DEF IInv, SearchInv
<1>2. Len(order) \in Nat /\ DOMAIN order = 1..Len(order)
  BY <1>1, Sequences DEF TypeOK
<1>3. /\ Range(order) = Resolvable /\ IsInjective(order)
      /\ \A i \in DOMAIN order :
           deps[order[i]] \cap Node \subseteq {order[j] : j \in 1..(i-1)}
  BY DEF IInv, KahnInv
<1>4. Resolvable = {order[i] : i \in 1..Len(order)}
  BY <1>2, <1>3 DEF Range
<1>5. \A n \in Resolvable : n \in Assessed
  BY <1>1 DEF TypeOK, Resolvable
<1>6. \A n \in Resolvable : deps[n] \subseteq Assessed /\ deps[n] \cap Node \subseteq Resolvable
  BY OrderLoop
<1>7. \A n \in Resolvable : deps[n] \cap unresolved = {}
  BY <1>1, <1>6 DEF TypeOK, Resolvable
<1>8. \A i, j \in 1..Len(order) : order[i] = order[j] => i = j
  BY <1>2, <1>3 DEF IsInjective
<1>9. \A i \in 1..Len(order) : order[i] \in Resolvable
  BY <1>4
<1> QED
  BY <1>2, <1>3, <1>4, <1>5, <1>6, <1>7, <1>8, <1>9

LEMMA ComposeOneStep ==
    ASSUME IInv, ComposeOne
    PROVE  IInv'
<1> USE GraphAssumption
<1>1. TypeOK
  BY DEF IInv, SearchInv
<1> DEFINE k == composed + 1
           n == order[k]
           K == Compose(out[n], {out[m] : m \in deps[n] \cap Assessed}, Now)
<1>2. /\ UNCHANGED <<input, search>> /\ deps' = deps /\ given' = given
      /\ pc = "compose" /\ pc' = pc /\ composed < Len(order)
      /\ out' = [out EXCEPT ![n] = K] /\ composed' = k
      /\ indegree' = indegree /\ ready' = ready /\ order' = order
      /\ unresolved' = unresolved /\ colour' = colour
      /\ onCycle' = onCycle /\ stack' = stack /\ path' = path
  BY DEF ComposeOne, input, search, kahn
<1>3. \A x \in Node : colour[x] = "BLACK"
  BY <1>2 DEF IInv, Searched
<1>4. /\ Len(order) \in Nat /\ composed \in Nat /\ k \in Nat
      /\ k \in 1..Len(order) /\ 1..k \subseteq 1..Len(order)
      /\ \A i \in 1..k : i \in 1..composed \/ i = k
  BY <1>1, <1>2, OrderFacts DEF TypeOK
<1>5. n \in Resolvable /\ n \in Assessed /\ deps[n] \subseteq Assessed
  BY <1>2, <1>4, OrderFacts
<1>6. \A i \in 1..composed : order[i] # n
  <2>1. \A i \in 1..composed : i \in 1..Len(order) /\ i # k
    BY <1>4
  <2> QED
    BY <1>2, <1>4, <2>1, OrderFacts
<1>7. \A i \in 1..k : n \notin deps[order[i]]
  <2> SUFFICES ASSUME NEW i \in 1..k, n \in deps[order[i]] PROVE FALSE
    OBVIOUS
  <2>1. n \in {order[j] : j \in 1..(i-1)}
    BY <1>2, <1>4, <1>5, OrderFacts DEF Resolvable
  <2>2. \A j \in 1..(i-1) : j \in 1..composed
    BY <1>4
  <2> QED
    BY <1>6, <2>1, <2>2
<1>8. out[n] = given[n]
  BY <1>2, <1>5, <1>6 DEF IInv, ComposeInv
<1>9. K \in Decision
  <2>1. out[n] \in Decision /\ {out[m] : m \in deps[n] \cap Assessed} \subseteq Decision
    BY <1>1, <1>5 DEF TypeOK
  <2> QED
    BY <2>1, ComposeIsWeakestLink
<1> HIDE DEF K
<1>10. out' \in [Assessed -> Decision] /\ out'[n] = K
       /\ \A c \in Assessed : c # n => out'[c] = out[c]
  BY <1>1, <1>2, <1>5, <1>9 DEF TypeOK
<1>11. TypeOK'
  <2>1. composed' \in 0..Len(order)
    BY <1>2, <1>4
  <2> QED
    BY <1>1, <1>2, <1>10, <2>1 DEF TypeOK, Node, Assessed, Phase
<1>12. SearchInv' /\ Founded' /\ Searched' /\ Marked' /\ FiniteDeps'
  BY <1>2, <1>3, <1>11, SearchPartStays DEF IInv
<1>13. PropagateInv'
  <2>1. Abstract!Unestablished' = Abstract!Unestablished
    BY <1>2, GraphStays
  <2> QED
    BY <1>2, <2>1 DEF IInv, PropagateInv
<1>14. KahnInv'
  BY <1>2 DEF IInv, KahnInv, Range, Resolvable, Node, IsInjective
<1>15. ComposeInv'
  <2>1. \A i \in 1..k : {out'[m] : m \in deps[order[i]]} = {out[m] : m \in deps[order[i]]}
    <3> SUFFICES ASSUME NEW i \in 1..k, NEW m \in deps[order[i]] PROVE out'[m] = out[m]
      OBVIOUS
    <3>1. deps[order[i]] \subseteq Assessed
      BY <1>2, <1>4, OrderFacts
    <3> QED
      BY <1>7, <1>10, <3>1
  <2>2. K = Compose(given[n], {out[m] : m \in deps[n]}, Now)
    <3>1. deps[n] \cap Assessed = deps[n]
      BY <1>5
    <3> QED
      BY <1>8, <3>1 DEF K
  <2>3. ASSUME NEW i \in 1..k
        PROVE  out'[order[i]] = Compose(given[order[i]], {out'[m] : m \in deps[order[i]]}, Now)
    <3>1. CASE i \in 1..composed
      <4>1. out[order[i]] = Compose(given[order[i]], {out[m] : m \in deps[order[i]]}, Now)
        BY <3>1 DEF IInv, ComposeInv
      <4>2. out'[order[i]] = out[order[i]]
        BY <1>2, <1>4, <1>6, <1>10, <3>1, OrderFacts
      <4> QED
        BY <2>1, <4>1, <4>2
    <3>2. CASE i = k
      BY <1>10, <2>1, <2>2, <3>2
    <3> QED
      BY <1>4, <3>1, <3>2
  <2>4. ASSUME NEW c \in Assessed \ {order[i] : i \in 1..k} PROVE out'[c] = given[c]
    <3>1. c # n
      BY <1>4, <2>4
    <3>2. c \notin {order[i] : i \in 1..composed}
      BY <1>4, <2>4
    <3> QED
      BY <1>2, <1>10, <3>1, <3>2 DEF IInv, ComposeInv
  <2> HIDE DEF k, n
  <2> QED
    BY <1>2, <2>3, <2>4 DEF ComposeInv, Assessed
<1> QED
  BY <1>12, <1>13, <1>14, <1>15 DEF IInv

LEMMA DowngradeStep ==
    ASSUME IInv, DowngradeUnresolved
    PROVE  IInv'
<1>1. TypeOK
  BY DEF IInv, SearchInv
<1>2. /\ UNCHANGED <<input, search>> /\ deps' = deps /\ given' = given
      /\ pc = "compose" /\ pc' = "done" /\ composed = Len(order)
      /\ out' = [c \in Assessed |->
                   IF c \in unresolved THEN Downgrade(out[c]) ELSE out[c]]
      /\ composed' = composed
      /\ indegree' = indegree /\ ready' = ready /\ order' = order
      /\ unresolved' = unresolved /\ colour' = colour
      /\ onCycle' = onCycle /\ stack' = stack /\ path' = path
  BY DEF DowngradeUnresolved, input, search, kahn
<1>3. \A x \in Node : colour[x] = "BLACK"
  BY <1>2 DEF IInv, Searched
<1>4. out' \in [Assessed -> Decision]
  <2>1. \A d \in Decision : Downgrade(d) \in Decision
    BY DEF Downgrade, Decision, Status, Direction
  <2> QED
    BY <1>1, <1>2, <2>1 DEF TypeOK
<1>5. TypeOK'
  BY <1>1, <1>2, <1>4 DEF TypeOK, Node, Assessed, Phase
<1>6. SearchInv' /\ Founded' /\ Searched' /\ Marked' /\ FiniteDeps'
  BY <1>2, <1>3, <1>5, SearchPartStays DEF IInv
<1>7. PropagateInv'
  <2>1. Abstract!Unestablished' = Abstract!Unestablished
    BY <1>2, GraphStays
  <2> QED
    BY <1>2, <2>1 DEF IInv, PropagateInv
<1>8. KahnInv'
  BY <1>2 DEF IInv, KahnInv, Range, Resolvable, Node, IsInjective
<1>9. ComposeInv'
  <2>1. \A c \in Assessed : c \notin unresolved => out'[c] = out[c]
    BY <1>2
  <2>2. \A i \in 1..composed :
          /\ order[i] \notin unresolved /\ order[i] \in Assessed
          /\ deps[order[i]] \subseteq Assessed /\ deps[order[i]] \cap unresolved = {}
    BY <1>2, OrderFacts DEF Resolvable
  <2>3. ASSUME NEW i \in 1..composed
        PROVE  out'[order[i]] = Compose(given[order[i]], {out'[m] : m \in deps[order[i]]}, Now)
    <3>1. out[order[i]] = Compose(given[order[i]], {out[m] : m \in deps[order[i]]}, Now)
      BY <2>3 DEF IInv, ComposeInv
    <3>2. \A m \in deps[order[i]] : out'[m] = out[m]
      BY <2>1, <2>2
    <3>3. {out'[m] : m \in deps[order[i]]} = {out[m] : m \in deps[order[i]]}
      BY <3>2
    <3> QED
      BY <2>1, <2>2, <3>1, <3>3
  <2>4. ASSUME NEW c \in Assessed \ {order[i] : i \in 1..composed}
        PROVE  out'[c] = IF c \in unresolved THEN Downgrade(given[c]) ELSE given[c]
    <3>1. out[c] = given[c]
      BY <1>2, <2>4 DEF IInv, ComposeInv
    <3> QED
      BY <1>2, <2>4, <3>1
  <2>5. (\A i \in 1..composed :
           out[order[i]] = Compose(given[order[i]], {out[m] : m \in deps[order[i]]}, Now))'
    BY <1>2, <2>3
  <2>6. (\A c \in Assessed \ {order[i] : i \in 1..composed} :
            out[c] = IF c \in unresolved THEN Downgrade(given[c]) ELSE given[c])'
    BY <1>2, <2>4 DEF Assessed
  <2> QED
    BY <1>2, <2>5, <2>6 DEF ComposeInv
<1> QED
  BY <1>6, <1>7, <1>8, <1>9 DEF IInv

-----------------------------------------------------------------------------
(* The invariant is inductive *)

LEMMA InitIInv == Init => IInv
<1> SUFFICES ASSUME Init PROVE IInv
  OBVIOUS
<1>1. /\ pc = "search" /\ colour = [n \in Node |-> "WHITE"] /\ stack = <<>>
      /\ path = <<>> /\ onCycle = {} /\ unresolved = {}
      /\ indegree = [n \in Node |-> 0] /\ ready = {} /\ order = <<>>
      /\ composed = 0 /\ out = given
  BY DEF Init
<1>2. /\ Node \subseteq Assessed /\ Assessed \subseteq Id
      /\ deps \in [Node -> SUBSET Id] /\ given \in [Assessed -> Decision]
      /\ FiniteDeps
  <2>1. PICK in \in Inputs : deps = in.deps /\ given = in.given
    BY DEF Init
  <2>2. PICK assessed \in SUBSET Id, nodes \in SUBSET Id :
          /\ nodes \subseteq assessed
          /\ in.deps \in [nodes -> SUBSET Id]
          /\ \A n \in nodes : IsFiniteSet(in.deps[n])
          /\ in.given \in [assessed -> Decision]
    BY <2>1, GraphAssumption
  <2>3. Node = nodes /\ Assessed = assessed
    BY <2>1, <2>2 DEF Node, Assessed
  <2> QED
    BY <2>1, <2>2, <2>3 DEF FiniteDeps
<1>3. TypeOK
  <2>1. Len(order) = 0 /\ 0 \in 0..0
    BY <1>1
  <2> QED
    BY <1>1, <1>2, <2>1 DEF TypeOK, Phase
<1>4. Trail(<<>>, <<>>, colour) /\ LookedAt(<<>>, colour, onCycle)
  BY <1>1 DEF Trail, LookedAt
<1>5. BlackBelow(colour, onCycle)
  BY <1>1 DEF BlackBelow
<1>6. SearchInv
  BY <1>1, <1>3, <1>4, <1>5 DEF SearchInv
<1>7. Founded /\ Searched /\ Marked
  BY <1>1 DEF Founded, FoundedIn, Searched, Marked
<1>8. PropagateInv
  BY <1>1 DEF PropagateInv
<1>9. KahnInv
  <2>1. Range(order) = {} /\ DOMAIN order = {}
    BY <1>1 DEF Range
  <2> QED
    BY <1>1, <2>1 DEF KahnInv, IsInjective
<1>10. ComposeInv
  BY <1>1 DEF ComposeInv
<1> QED
  BY <1>2, <1>6, <1>7, <1>8, <1>9, <1>10 DEF IInv

LEMMA StepIInv == IInv /\ [Next]_vars => IInv'
<1> SUFFICES ASSUME IInv, [Next]_vars PROVE IInv'
  OBVIOUS
<1>1. ASSUME SearchOnly, pc = "search",
             SearchInv' /\ Founded' /\ Searched' /\ Marked'
      PROVE  IInv'
  <2>1. PropagateInv' /\ KahnInv' /\ ComposeInv'
    BY <1>1, LaterPartsStay DEF IInv
  <2>2. FiniteDeps'
    BY <1>1, GraphStays DEF IInv, SearchOnly
  <2> QED
    BY <1>1, <2>1, <2>2 DEF IInv
<1>2. ASSUME NEW n \in Node, Search(n) PROVE IInv'
  <2>1. pc = "search"
    BY <1>2 DEF Search, Visit, BackEdge, Descend, SkipBlack
  <2> QED
    BY <1>1, <1>2, <2>1, SearchStep DEF IInv
<1>3. ASSUME NEW n \in Node, Propagate(n) PROVE IInv'
  BY <1>3, PropagateStep
<1>4. ASSUME NEW n \in Node, TakeReady(n) PROVE IInv'
  BY <1>4, TakeReadyStep
<1>5. CASE Retreat
  <2>1. pc = "search"
    BY <1>5 DEF Retreat
  <2> QED
    BY <1>1, <1>5, <2>1, RetreatStep DEF IInv
<1>6. CASE SearchDone
  BY <1>6, SearchDoneStep
<1>7. CASE PropagateDone
  BY <1>7, PropagateDoneStep
<1>8. CASE OrderDone
  BY <1>8, OrderDoneStep
<1>9. CASE ComposeOne
  BY <1>9, ComposeOneStep
<1>10. CASE DowngradeUnresolved
  BY <1>10, DowngradeStep
<1>11. CASE UNCHANGED vars
  <2>1. /\ UNCHANGED input /\ deps' = deps /\ given' = given /\ pc' = pc
        /\ colour' = colour /\ stack' = stack /\ path' = path /\ onCycle' = onCycle
        /\ unresolved' = unresolved /\ indegree' = indegree /\ ready' = ready
        /\ order' = order /\ composed' = composed /\ out' = out
    BY <1>11 DEF vars, input, search, kahn
  <2>2. TypeOK'
    BY <2>1 DEF IInv, SearchInv, TypeOK, Node, Assessed
  <2>3. SearchInv'
    <3>1. Trail(stack, path, colour)'
      BY <2>1 DEF IInv, SearchInv, Trail, Edges, Node
    <3>2. LookedAt(stack, colour, onCycle)'
      BY <2>1 DEF IInv, SearchInv, LookedAt, Edges, Node
    <3>3. BlackBelow(colour, onCycle)'
      BY <2>1 DEF IInv, SearchInv, BlackBelow, Edges, Node
    <3> QED
      BY <2>2, <3>1, <3>2, <3>3 DEF SearchInv
  <2>7. Founded' /\ Searched' /\ Marked' /\ FiniteDeps'
    BY <2>1 DEF IInv, Founded, FoundedIn, Searched, Marked, Below, DependsOn,
         FiniteDeps, Node
  <2>4. PropagateInv'
    BY <2>1, GraphStays DEF IInv, PropagateInv
  <2>5. KahnInv'
    BY <2>1 DEF IInv, KahnInv, Range, IsInjective, Resolvable, Node
  <2>6. ComposeInv'
    <3>1. ComposeInv
      BY DEF IInv
    <3>2. Assessed' = Assessed
      BY <2>1 DEF Assessed
    <3>3. {order'[i] : i \in 1..composed'} = {order[i] : i \in 1..composed}
      BY <2>1
    <3>4. (\A i \in 1..composed :
             out[order[i]] = Compose(given[order[i]], {out[m] : m \in deps[order[i]]}, Now))'
      <4> SUFFICES ASSUME NEW i \in 1..composed
                   PROVE  out'[order'[i]] = Compose(given'[order'[i]],
                                                    {out'[m] : m \in deps'[order'[i]]}, Now)
        BY <2>1
      <4>1. out[order[i]] = Compose(given[order[i]], {out[m] : m \in deps[order[i]]}, Now)
        BY <3>1 DEF ComposeInv
      <4> QED
        BY <2>1, <4>1
    <3>5. (pc # "done" =>
             \A c \in Assessed \ {order[i] : i \in 1..composed} : out[c] = given[c])'
      BY <2>1, <3>1, <3>2, <3>3 DEF ComposeInv
    <3>6. (pc = "done" =>
             \A c \in Assessed \ {order[i] : i \in 1..composed} :
                out[c] = IF c \in unresolved THEN Downgrade(given[c]) ELSE given[c])'
      BY <2>1, <3>1, <3>2, <3>3 DEF ComposeInv
    <3>7. (pc \in {"search", "propagate", "order"} => composed = 0)'
          /\ (pc = "done" => composed = Len(order))'
      BY <2>1, <3>1 DEF ComposeInv
    <3> QED
      BY <3>4, <3>5, <3>6, <3>7 DEF ComposeInv
  <2> QED
    BY <2>3, <2>4, <2>5, <2>6, <2>7 DEF IInv
<1> QED
  BY <1>2, <1>3, <1>4, <1>5, <1>6, <1>7, <1>8, <1>9, <1>10, <1>11 DEF Next

LEMMA Invariance == Spec => []IInv
  BY InitIInv, StepIInv, PTL DEF Spec

-----------------------------------------------------------------------------
(* What compose_graph does, for every graph *)

\* In every state of the search the path is the nodes of the stack, which are
\* the grey ones, each entered over an edge from the one before; the marks,
\* queues and decisions have their types.
THEOREM SearchRecordsAgree == Spec => []SearchPath
<1>1. IInv => SearchPath
  BY TrailIsSearchPath DEF IInv, SearchInv
<1> QED
  BY <1>1, Invariance, PTL

\* The search marks only nodes of cycles, and a node of every cycle, so that
\* what it left unmarked is well founded.
THEOREM EveryCycleIsCut == Spec => []CyclesCut
<1>1. IInv => CyclesCut
  <2> SUFFICES ASSUME IInv, pc # "search"
               PROVE  /\ \A n \in onCycle : n \in Below(n)
                      /\ \A U \in SUBSET (Node \ onCycle) :
                           U # {} => \E n \in U : deps[n] \cap U = {}
    BY DEF CyclesCut
  <2>1. \A n \in Node : colour[n] = "BLACK"
    BY DEF IInv, Searched
  <2>2. {n \in Node \ onCycle : colour[n] = "BLACK"} = Node \ onCycle
    BY <2>1
  <2> QED
    BY <2>2 DEF IInv, Marked, Founded, FoundedIn
<1> QED
  BY <1>1, Invariance, PTL

\* The nodes downgraded are exactly those from which a cycle or an unassessed
\* claim is reached.
THEOREM UnresolvedIsUnestablished == Spec => []UnresolvedExact
<1>1. IInv => UnresolvedExact
  BY DEF IInv, PropagateInv, UnresolvedExact
<1> QED
  BY <1>1, Invariance, PTL

\* Kahn's loop orders every other node, once, after all its dependencies.
THEOREM OrderIsComplete == Spec => []OrderIsTopological
<1>1. IInv => OrderIsTopological
  BY DEF IInv, KahnInv, OrderIsTopological
<1> QED
  BY <1>1, Invariance, PTL

\* A node returned as positive was composed, and with premises that are all
\* assessed, positive, live, no weaker and no longer lived.
LEMMA PositiveNode ==
    ASSUME IInv, pc = "done", NEW n \in Node, out[n].status \in Positive
    PROVE  /\ \A d \in {given[n]} \cup {out[m] : m \in deps[n]} :
                /\ d.status \in Positive
                /\ d.expires # Never =>
                     /\ Now < d.expires
                     /\ out[n].expires # Never /\ out[n].expires <= d.expires
                /\ Ladder(out[n].status) <= Ladder(d.status)
           /\ deps[n] \subseteq Assessed
<1>1. TypeOK /\ n \in Assessed
  BY DEF IInv, SearchInv, TypeOK
<1>2. Range(order) = Resolvable /\ composed = Len(order) /\ DOMAIN order = 1..Len(order)
  BY <1>1, Sequences DEF IInv, KahnInv, ComposeInv, TypeOK
<1>3. {order[i] : i \in 1..composed} = Resolvable
  BY <1>2 DEF Range
<1>4. n \in Resolvable
  <2> SUFFICES ASSUME n \in unresolved PROVE FALSE
    BY DEF Resolvable
  <2>1. n \in Assessed \ {order[i] : i \in 1..composed}
    BY <1>1, <1>3 DEF Resolvable
  <2>2. out[n] = Downgrade(given[n])
    BY <2>1 DEF IInv, ComposeInv
  <2>3. given[n] \in Decision
    BY <1>1 DEF TypeOK
  <2> QED
    BY <2>2, <2>3 DEF Downgrade, Decision, Positive
<1>5. PICK i \in 1..composed : order[i] = n
  BY <1>3, <1>4
<1>6. out[n] = Compose(given[n], {out[m] : m \in deps[n]}, Now)
  BY <1>5 DEF IInv, ComposeInv
<1>7. deps[n] \subseteq Assessed
  BY <1>4, OrderLoop
<1> DEFINE ps == {out[m] : m \in deps[n]}
<1>8. given[n] \in Decision /\ ps \subseteq Decision
  BY <1>1, <1>7 DEF TypeOK
<1> HIDE DEF ps
<1>9. out[n] = Compose(given[n], ps, Now)
  BY <1>6 DEF ps
<1>10. /\ \A d \in ps \cup {given[n]} : d.expires # Never =>
            out[n].expires # Never /\ out[n].expires <= d.expires
       /\ \A d \in ps \cup {given[n]} :
            /\ d.status \in Positive
            /\ d.expires # Never => Now < d.expires
            /\ Ladder(out[n].status) <= Ladder(d.status)
  BY <1>8, <1>9, ComposeIsWeakestLink, GraphAssumption
<1> QED
  BY <1>7, <1>10 DEF ps

\* Nothing below a node that is returned as positive is missing, not positive,
\* weaker or shorter lived, however long the way there: the claims that are
\* none of these are closed under dependencies.
THEOREM ChainsHold == Spec => []NoElevation
<1>1. IInv => NoElevation
  <2> SUFFICES ASSUME IInv, pc = "done", NEW n \in Node, out[n].status \in Positive
               PROVE  \A m \in Below(n) :
                        /\ m \in Assessed
                        /\ Refresh(given[m], Now).status \in Positive
                        /\ Ladder(out[n].status) <= Ladder(given[m].status)
                        /\ given[m].expires # Never =>
                             out[n].expires \in 0..given[m].expires
    BY DEF NoElevation
  <2>1. TypeOK /\ n \in Id
    BY DEF IInv, SearchInv, TypeOK
  <2> DEFINE Holds(d) ==
               /\ d.status \in Positive
               /\ d.expires # Never =>
                    /\ Now < d.expires
                    /\ out[n].expires # Never /\ out[n].expires <= d.expires
               /\ Ladder(out[n].status) <= Ladder(d.status)
             S == {m \in Assessed : Holds(out[m]) /\ Holds(given[m])}
  <2>2. \A m \in Assessed : out[m] \in Decision /\ given[m] \in Decision
    BY <2>1 DEF TypeOK
  <2>3. \A d \in Decision : Ladder(d.status) \in Nat /\ d.expires \in Deadline
    BY LadderRungs DEF Decision
  <2>4. ASSUME NEW m \in Assessed \ Node PROVE out[m] = given[m]
    <3>1. DOMAIN order = 1..Len(order) /\ Range(order) \subseteq Node /\ composed = Len(order)
      BY <2>1, Sequences DEF IInv, KahnInv, ComposeInv, TypeOK, Resolvable
    <3>2. m \in Assessed \ {order[i] : i \in 1..composed} /\ m \notin unresolved
      BY <2>1, <2>4, <3>1 DEF Range, TypeOK
    <3> QED
      BY <3>2 DEF IInv, ComposeInv
  <2>5. ASSUME NEW m \in Node, out[m].status \in Positive,
               Ladder(out[n].status) <= Ladder(out[m].status),
               out[m].expires # Never =>
                 out[n].expires # Never /\ out[n].expires <= out[m].expires,
               NEW x \in deps[m]
        PROVE  x \in S
    <3>1. /\ x \in Assessed /\ m \in Assessed /\ n \in Assessed
          /\ out[x].status \in Positive
          /\ out[x].expires # Never =>
               /\ Now < out[x].expires
               /\ out[m].expires # Never /\ out[m].expires <= out[x].expires
          /\ Ladder(out[m].status) <= Ladder(out[x].status)
      BY <2>1, <2>5, PositiveNode DEF TypeOK
    <3>2. Holds(out[x])
      BY <2>2, <2>3, <2>5, <3>1 DEF Deadline, Never
    <3>3. CASE x \notin Node
      BY <2>4, <3>1, <3>2, <3>3
    <3>4. CASE x \in Node
      <4>1. /\ given[x].status \in Positive
            /\ given[x].expires # Never =>
                 /\ Now < given[x].expires
                 /\ out[x].expires # Never /\ out[x].expires <= given[x].expires
            /\ Ladder(out[x].status) <= Ladder(given[x].status)
        BY <3>1, <3>4, PositiveNode
      <4>2. Holds(given[x])
        BY <2>2, <2>3, <3>1, <3>2, <4>1 DEF Deadline, Never
      <4> QED
        BY <3>1, <3>2, <4>2
    <3> QED
      BY <3>3, <3>4
  <2>6. DependsOn(n) \subseteq S
    <3>1. n \in Assessed
      BY <2>1 DEF TypeOK
    <3>2. Ladder(out[n].status) <= Ladder(out[n].status)
          /\ (out[n].expires # Never => out[n].expires <= out[n].expires)
      BY <2>2, <2>3, <3>1 DEF Deadline, Never
    <3> HIDE DEF S, Holds
    <3> QED
      BY <2>5, <3>2 DEF DependsOn
  <2>7. \A m \in S : DependsOn(m) \subseteq S
    <3> SUFFICES ASSUME NEW m \in S, NEW x \in DependsOn(m) PROVE x \in S
      OBVIOUS
    <3>1. m \in Node /\ x \in deps[m]
      BY DEF DependsOn
    <3>2. /\ out[m].status \in Positive
          /\ Ladder(out[n].status) <= Ladder(out[m].status)
          /\ out[m].expires # Never =>
               out[n].expires # Never /\ out[n].expires <= out[m].expires
      OBVIOUS
    <3> HIDE DEF S, Holds
    <3> QED
      BY <2>5, <3>1, <3>2
  <2>8. Below(n) \subseteq S
    <3>1. S \in SUBSET Id
      BY <2>1 DEF TypeOK
    <3> HIDE DEF S, Holds
    <3> QED
      BY <2>1, <2>6, <2>7, <3>1, BelowFacts
  <2>9. ASSUME NEW m \in S
        PROVE  /\ Refresh(given[m], Now).status \in Positive
               /\ given[m].expires # Never => out[n].expires \in 0..given[m].expires
    <3>1. /\ given[m].status \in Positive /\ m \in Assessed /\ n \in Assessed
          /\ given[m].expires # Never =>
               /\ Now < given[m].expires
               /\ out[n].expires # Never /\ out[n].expires <= given[m].expires
      BY <2>1 DEF TypeOK
    <3>2. given[m].expires \in Deadline /\ out[n].expires \in Deadline /\ Now \in Nat
      BY <2>2, <2>3, <3>1, GraphAssumption
    <3>3. ~ IsExpired(given[m], Now)
      BY <3>1, <3>2 DEF IsExpired, Deadline, Never
    <3>4. Refresh(given[m], Now) = given[m]
      BY <3>3 DEF Refresh
    <3>5. given[m].expires # Never => out[n].expires \in 0..given[m].expires
      BY <3>1, <3>2 DEF Deadline, Never
    <3> QED
      BY <3>1, <3>4, <3>5
  <2> QED
    BY <2>8, <2>9
<1> QED
  BY <1>1, Invariance, PTL

\* The specification of the result speaks of the same operations.
LEMMA SameOperations ==
    /\ \A d : Abstract!Downgrade(d) = Downgrade(d)
    /\ \A c, ps, now : Abstract!Compose(c, ps, now) = Compose(c, ps, now)
<1>1. \A d : Abstract!Downgrade(d) = Downgrade(d)
  BY DEF Downgrade, Abstract!Downgrade, Positive, Abstract!Positive
<1>2. \A d, now : Abstract!IsExpired(d, now) = IsExpired(d, now)
  BY DEF IsExpired, Abstract!IsExpired, Never, Abstract!Never, Positive, Abstract!Positive
<1>3. \A d, now : Abstract!Refresh(d, now) = Refresh(d, now)
  BY <1>2 DEF Refresh, Abstract!Refresh
<1>4. \A x : Abstract!Ladder(x) = Ladder(x)
  BY DEF Ladder, Abstract!Ladder
<1>5. \A S : Abstract!Min(S) = Min(S)
  BY DEF Min, Abstract!Min
<1>6. \A c, ps : Abstract!EarliestDeadline(c, ps) = EarliestDeadline(c, ps)
  BY <1>5 DEF EarliestDeadline, Abstract!EarliestDeadline, Never, Abstract!Never
<1>7. \A ps : Abstract!Weakest(ps) = Weakest(ps)
  BY <1>4 DEF Weakest, Abstract!Weakest
<1>8. \A c, ps : Abstract!Conjoin(c, ps) = Conjoin(c, ps)
  <2> SUFFICES ASSUME NEW c, NEW ps
               PROVE  Abstract!Conjoin(c, ps) = Conjoin(c, ps)
    OBVIOUS
  <2>1. /\ Abstract!EarliestDeadline(c, ps) = EarliestDeadline(c, ps)
        /\ Abstract!Weakest(ps) = Weakest(ps)
        /\ Abstract!Ladder(Weakest(ps)) = Ladder(Weakest(ps))
        /\ Abstract!Ladder(c.status) = Ladder(c.status)
    BY <1>4, <1>6, <1>7
  <2> QED
    BY <2>1 DEF Conjoin, Abstract!Conjoin
<1>9. \A c, ps, now : Abstract!Compose(c, ps, now) = Compose(c, ps, now)
  BY <1>3, <1>8 DEF Compose, Abstract!Compose
<1> QED
  BY <1>1, <1>9

\* The loops compute the fixpoint: every step of a call is a step that takes
\* the given decisions to the unique solution at once, or leaves them.
THEOREM LoopsImplementFixpoint == Spec => ImplementsFixpoint
<1> DEFINE fin == pc = "done"
           res == IF pc = "done" THEN out ELSE given
<1>1. Init => Abstract!Init
  BY DEF Init, Abstract!Init
<1>2. IInv /\ IInv' /\ [Next]_vars => [Abstract!Finish]_Abstract!graph
  <2> SUFFICES ASSUME IInv, IInv', [Next]_vars
               PROVE  [Abstract!Finish]_Abstract!graph
    OBVIOUS
  <2>1. CASE DowngradeUnresolved
    <3>1. /\ pc = "compose" /\ pc' = "done" /\ deps' = deps /\ given' = given
          /\ unresolved' = unresolved
      BY <2>1 DEF DowngradeUnresolved, input
    <3>2. TypeOK' /\ DOMAIN out' = Assessed'
      BY DEF IInv, SearchInv, TypeOK
    <3>3. /\ Range(order)' = Resolvable' /\ composed' = Len(order')
          /\ DOMAIN order' = 1..Len(order')
      <4>1. Range(order)' = Resolvable' /\ composed' = Len(order')
        BY <3>1 DEF IInv, KahnInv, ComposeInv
      <4>2. order' \in Seq(Node')
        BY <3>2 DEF TypeOK
      <4> QED
        BY <4>1, <4>2, Sequences
    <3>4. {order'[i] : i \in 1..composed'} = Resolvable'
      BY <3>3 DEF Range
    <3>5. Abstract!Unestablished' = unresolved'
      BY <3>1 DEF IInv, PropagateInv
    <3>6. Node' = Node /\ Assessed' = Assessed
      BY <3>1 DEF Node, Assessed
    <3>7. \A n \in unresolved' : out'[n] = Downgrade(given'[n])
      BY <3>1, <3>2, <3>4 DEF IInv, ComposeInv, Resolvable, TypeOK
    <3>8. \A n \in Node' \ unresolved' :
            out'[n] = Compose(given'[n], {out'[m] : m \in deps'[n]}, Now)
      <4> SUFFICES ASSUME NEW n \in Resolvable'
                   PROVE  out'[n] = Compose(given'[n], {out'[m] : m \in deps'[n]}, Now)
        BY DEF Resolvable
      <4>1. PICK i \in 1..composed' : order'[i] = n
        BY <3>4
      <4>2. (\A j \in 1..composed :
               out[order[j]] = Compose(given[order[j]], {out[m] : m \in deps[order[j]]}, Now))'
        BY DEF IInv, ComposeInv
      <4> QED
        BY <4>1, <4>2
    <3>9. \A n \in Assessed' \ Node' : out'[n] = given'[n]
      BY <3>1, <3>2, <3>4 DEF IInv, ComposeInv, Resolvable, TypeOK
    <3>11. Abstract!Fixpoint'
      <4>1. /\ \A n \in unresolved' : out'[n] = Abstract!Downgrade(given'[n])
            /\ \A n \in Node' \ unresolved' :
                 out'[n] = Abstract!Compose(given'[n], {out'[m] : m \in deps'[n]}, Now)
        BY <3>7, <3>8, SameOperations
      <4>2. Abstract!Node' = Node' /\ Abstract!Assessed' = Assessed'
        BY DEF Abstract!Node, Abstract!Assessed, Node, Assessed
      <4>3. (IF pc = "done" THEN out ELSE given)' = out'
        BY <3>1
      <4> DEFINE r == IF pc = "done" THEN out ELSE given
      <4>4. \A n : {out'[m] : m \in deps'[n]} = {r'[m] : m \in deps'[n]}
        BY <4>3
      <4>5. DOMAIN r' = Assessed' /\ \A n : r'[n] = out'[n]
        BY <3>2, <4>3
      <4> HIDE DEF r
      <4>6. /\ \A n \in unresolved' : r'[n] = Abstract!Downgrade(given'[n])
            /\ \A n \in Node' \ unresolved' :
                 r'[n] = Abstract!Compose(given'[n], {r'[m] : m \in deps'[n]}, Now)
            /\ \A n \in Assessed' \ Node' : r'[n] = given'[n]
        BY <3>9, <4>1, <4>4, <4>5
      <4> QED
        BY <3>5, <4>2, <4>5, <4>6 DEF Abstract!Fixpoint, r
    <3> QED
      BY <3>1, <3>11 DEF Abstract!Finish
  <2>2. CASE ~ DowngradeUnresolved
    <3>1. deps' = deps /\ given' = given /\ (fin' <=> fin) /\ res' = res
      <4>1. CASE UNCHANGED vars
        BY <4>1 DEF vars, input
      <4>2. CASE Next
        BY <2>2, <4>2 DEF Next, Search, Visit, BackEdge, Descend, SkipBlack, Retreat,
           SearchDone, Propagate, PropagateDone, TakeReady, OrderDone, ComposeOne, input
      <4> QED
        BY <4>1, <4>2
    <3> QED
      BY <3>1 DEF Abstract!graph
  <2> QED
    BY <2>1, <2>2
<1> QED
  BY <1>1, <1>2, Invariance, PTL DEF Spec, Abstract!Spec, ImplementsFixpoint
=============================================================================
