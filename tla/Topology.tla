------------------------------ MODULE Topology ------------------------------
(***************************************************************************)
(* Which UPFs a session runs on (nf/nf-smf/src/topology.rs, the start-up   *)
(* in nf/nf-smf/src/main.rs, SmfState::connect, connect_with_topology and  *)
(* resolve_path).  Either the settings name an anchor, perhaps an          *)
(* intermediate UPF and a second anchor, the same for every session; or a  *)
(* file describes a graph, searched breadth first from the access network  *)
(* to the nearest UPF that serves the DNN.                                 *)
(*                                                                         *)
(* Nodes are numbered in the order of their names, the order a BTreeMap    *)
(* gives.  The links of a node are visited in the order of the file: any   *)
(* order, as each node is visited once.  Addresses and prefixes are data   *)
(* the file is refused for when they are malformed; they are left out.     *)
(***************************************************************************)
EXTENDS Integers, Sequences, FiniteSetsExt

CONSTANTS
    N,          \* nodes of the graph
    AccessSets  \* the sets of nodes that may be access networks

TopologyAssumption == N \in Nat \ {0} /\ AccessSets \subseteq SUBSET (1 .. N)

VARIABLES
    topo,    \* the parsed file or settings
    queue, seen, prev,   \* the search
    result   \* "search", "refused", or the session's path

vars == <<topo, queue, seen, prev, result>>

Nodes == 1 .. N
Edges == {{a, b} : a, b \in Nodes}
NoNode == 0
Refused == [anchor |-> NoNode, intermediate |-> NoNode, breakout |-> NoNode, nodes |-> <<>>]
Searching == [Refused EXCEPT !.nodes = <<NoNode>>]

\* The first access network, the source of every path (an_node).
an_node(t) == Min(t.access)

\* Topology::validate: there is an access network, it serves no DNN, and a route leads
\* through a UPF of the graph.  Links to unknown nodes are not in Edges.
validate(t) == t.access # {} /\ t.serves \cap t.access = {} /\ t.via \notin t.access

Graphs ==
    {[routing |-> "graph", access |-> a, links |-> l, serves |-> s, via |-> v] :
        a \in AccessSets, l \in SUBSET {e \in Edges : Cardinality(e) = 2}, s \in SUBSET Nodes, v \in {NoNode, N}}

\* The settings: an anchor always, an intermediate UPF or none, a second anchor and its
\* prefix together or neither (main refuses to start with one of them).
Fixed == {[routing |-> "fixed", intermediate |-> i, psa2 |-> p] : i, p \in BOOLEAN}

Init ==
    /\ topo \in {g \in Graphs : validate(g)} \cup Fixed
    /\ prev = [n \in Nodes |-> NoNode] /\ result = Searching
    /\ IF topo.routing = "graph" THEN queue = <<an_node(topo)>> /\ seen = {an_node(topo)}
       ELSE queue = <<>> /\ seen = {}

----------------------------------------------------------------------------
(* path_for_dnn *)

adjacency(t, n) == {m \in Nodes : {n, m} \in t.links}

\* The chain back from an anchor, the access network left out.
Chain(n) ==
    LET back[m \in Nodes] == IF prev[m] = an_node(topo) THEN <<m>> ELSE Append(back[prev[m]], m)
    IN back[n]

Orders(S) == {s \in [1 .. Cardinality(S) -> S] : \A i, j \in DOMAIN s : s[i] = s[j] => i = j}

\* One round of the loop: a node that serves the DNN ends it, another adds its new neighbours.
Visit ==
    LET n == Head(queue) new == adjacency(topo, n) \ seen IN
    /\ result = Searching /\ queue # <<>> /\ (n \in topo.serves => n = an_node(topo))
    /\ seen' = seen \cup new /\ prev' = [m \in Nodes |-> IF m \in new THEN n ELSE prev[m]]
    /\ \E o \in Orders(new) : queue' = Tail(queue) \o o
    /\ UNCHANGED <<topo, result>>

----------------------------------------------------------------------------
(* resolve_path *)

\* A node that is not a UPF has no N4 peer, and a session cannot be built on it.
Connected(n) == n \notin topo.access

\* At most one intermediate UPF, and a breakout route only where there is one to classify at.
Resolved(path) ==
    LET anchor == path[Len(path)]
        inter == IF Len(path) = 2 THEN path[1] ELSE NoNode
    IN IF \/ Len(path) > 2
          \/ topo.via # NoNode /\ inter = NoNode
          \/ \E n \in {anchor, inter} : n # NoNode /\ ~Connected(n)
       THEN Refused
       ELSE [anchor |-> anchor, intermediate |-> inter, breakout |-> topo.via, nodes |-> path]

Arrive ==
    LET n == Head(queue) IN
    /\ result = Searching /\ queue # <<>> /\ n # an_node(topo) /\ n \in topo.serves
    /\ result' = Resolved(Chain(n)) /\ UNCHANGED <<topo, queue, seen, prev>>

Exhaust ==
    /\ topo.routing = "graph" /\ result = Searching /\ queue = <<>>
    /\ result' = Refused /\ UNCHANGED <<topo, queue, seen, prev>>

\* SmfState::connect: a second anchor without an intermediate UPF is ignored.
FixedPath ==
    [Refused EXCEPT !.anchor = 1, !.intermediate = IF topo.intermediate THEN 2 ELSE NoNode,
                    !.breakout = IF topo.psa2 /\ topo.intermediate THEN 3 ELSE NoNode]
TakeFixed ==
    /\ topo.routing = "fixed" /\ result = Searching
    /\ result' = FixedPath /\ UNCHANGED <<topo, queue, seen, prev>>

Next == Visit \/ Arrive \/ Exhaust \/ TakeFixed
Spec == Init /\ [][Next]_vars
FairSpec == Spec /\ WF_vars(Next)

----------------------------------------------------------------------------
(* Properties, against the definition of a distance *)

\* The nodes at most k links from the access network.
Within(k) ==
    LET ball[i \in 0 .. N] == IF i = 0 THEN {an_node(topo)}
                              ELSE LET near == ball[i - 1] IN near \cup {m \in Nodes : \E n \in near : {n, m} \in topo.links}
    IN ball[k]
Distance(n) == CHOOSE k \in 0 .. N : n \in Within(k) /\ (k = 0 \/ n \notin Within(k - 1))
Reachable == topo.serves \cap Within(N)
Nearest == {n \in Reachable : \A m \in Reachable : Distance(n) <= Distance(m)}
Ended == result # Searching

\* A session is put on the nearest UPF that serves its DNN, over a shortest chain of linked
\* nodes, and a DNN is refused only where no such UPF can be reached, the nearest is more
\* than one intermediate away, or a breakout has no classifier (path_for_dnn, resolve_path),
\* with one access network.
NearestAnchor ==
    Ended /\ topo.routing = "graph" /\ Cardinality(topo.access) = 1 =>
        IF result = Refused
        THEN \/ Reachable = {} \/ \A n \in Nearest : Distance(n) > 2
             \/ topo.via # NoNode /\ \A n \in Nearest : Distance(n) = 1
        ELSE LET p == result.nodes IN
             /\ result.anchor \in Nearest /\ Len(p) = Distance(result.anchor) /\ p[Len(p)] = result.anchor
             /\ {an_node(topo), p[1]} \in topo.links
             /\ \A i \in 2 .. Len(p) : {p[i - 1], p[i]} \in topo.links

\* A breakout anchor is only ever part of a path that has an intermediate UPF to classify at,
\* with the settings and with the file.
BreakoutIsClassified == Ended /\ result.breakout # NoNode => result.intermediate # NoNode

\* The search ends, also in a graph with cycles: a node is queued once.
SearchEnds == <>Ended

(* Refuted *)

\* "The kind of a UP node: the access network (the RAN, a BFS source only) or a UPF"
\* (NodeKind): a second access network is no hop of a path, so a DNN that an anchor serves
\* over at most one UPF is not refused.
PathIsUpfs ==
    Ended /\ topo.routing = "graph" /\ result = Refused /\ topo.via = NoNode =>
        ~ \E a \in topo.serves, i \in Nodes \ topo.access :
              {an_node(topo), i} \in topo.links /\ (i = a \/ {i, a} \in topo.links)
=============================================================================
