--------------------------------- MODULE NAG ---------------------------------
(***************************************************************************)
(* src/paludis/resolver/nag.cc: the node and adjacency graph of the        *)
(* orderer.  A node is a resolvent that has been fetched or that is done;  *)
(* an edge goes from what needs to what is needed.  The graph is a pure    *)
(* data structure, so that its operations are operators here; their users  *)
(* keep graphs in variables.                                               *)
(***************************************************************************)
EXTENDS Naturals, Sequences, FiniteSets

CONSTANT Resolvents   \* numbered, in the order of operator< on Resolvent

ASSUME ResolventsAssumption == Resolvents \subseteq Nat /\ IsFiniteSet(Resolvents)

(***************************************************************************)
(* NAGIndex, and its order.                                                *)
(***************************************************************************)
Fetched(r) == [resolvent |-> r, role |-> "fetched"]
Done(r) == [resolvent |-> r, role |-> "done"]
Indices == [resolvent : Resolvents, role : {"fetched", "done"}]

Precedes(a, b) ==
    \/ a.resolvent < b.resolvent
    \/ a.resolvent = b.resolvent /\ a.role = "fetched" /\ b.role = "done"

Properties == [always : BOOLEAN, build : BOOLEAN, build_all_met : BOOLEAN,
               run : BOOLEAN, run_all_met : BOOLEAN]

AllMet(p) == p.build_all_met /\ p.run_all_met

(***************************************************************************)
(* add_edge(), for every member of a set of edges [from, to, with]: the    *)
(* properties of edges between the same nodes are merged.                  *)
(***************************************************************************)
AddEdges(added) ==
    [e \in {<<a.from, a.to>> : a \in added} |->
        LET merged == {a.with : a \in {x \in added : <<x.from, x.to>> = e}} IN
            [always |-> \E p \in merged : p.always,
             build |-> \E p \in merged : p.build,
             build_all_met |-> \A p \in merged : p.build_all_met,
             run |-> \E p \in merged : p.run,
             run_all_met |-> \A p \in merged : p.run_all_met]]

VerifyEdges(g) == \A e \in DOMAIN g.edge : e[1] \in g.node /\ e[2] \in g.node

EdgesFrom(g, n) == {e \in DOMAIN g.edge : e[1] = n}

(* The graph without the nodes outside S and without the edges that are    *)
(* not kept.                                                               *)
Subgraph(g, S, Keep(_)) ==
    [node |-> S,
     edge |-> [e \in {e \in DOMAIN g.edge : e[1] \in S /\ e[2] \in S /\ Keep(g.edge[e])} |->
                  g.edge[e]]]

-----------------------------------------------------------------------------

(***************************************************************************)
(* The pairs of nodes between which there is a path of an edge or more.    *)
(* What can be reached from a node is the least set of nodes that has what *)
(* the node and its own members have edges to.                             *)
(***************************************************************************)
Direct(n, pairs) == {e[2] : e \in {e \in pairs : e[1] = n}}

ClosedSets(node, pairs) == {S \in SUBSET node : \A e \in pairs : e[1] \in S => e[2] \in S}

Connected(node, pairs) ==
    LET closed == ClosedSets(node, pairs)
        Reached(n) == LET direct == Direct(n, pairs)
                          around == {S \in closed : direct \subseteq S}
                      IN  {m \in node : \A S \in around : m \in S}
    IN  UNION {{n} \X Reached(n) : n \in node}

(* Tarjan's algorithm, by what it finds.                                   *)
SCCs(g) ==
    LET C == Connected(g.node, DOMAIN g.edge)
    IN  {{n} \cup {m \in g.node : <<n, m>> \in C /\ <<m, n>> \in C} : n \in g.node}

First(S) == CHOOSE n \in S : \A m \in S : m = n \/ Precedes(n, m)

(* order_score_one(): lower is better, and means earlier.                  *)
Score(n, early) ==
    (IF n.role = "fetched" THEN 10 ELSE 20)
        + (CASE early[n.resolvent] = "yes" -> 0 [] early[n.resolvent] = "maybe" -> 1 [] OTHER -> 2)

BestScore(scc, early) ==
    CHOOSE s \in {Score(n, early) : n \in scc} : \A n \in scc : s <= Score(n, early)

(* The order of orderable_now: by score, then by representative.           *)
OrderedBefore(a, b, early) ==
    \/ BestScore(a, early) < BestScore(b, early)
    \/ BestScore(a, early) = BestScore(b, early) /\ Precedes(First(a), First(b))

IsFetch(scc) == Cardinality(scc) = 1 /\ First(scc).role = "fetched"

(* S as a sequence: the i-th is the one that i - 1 others are before.      *)
Ranked(S, before) ==
    [i \in 1..Cardinality(S) |-> CHOOSE n \in S : Cardinality({m \in S : <<m, n>> \in before}) = i - 1]

InOrder(S) == Ranked(S, {e \in S \X S : Precedes(e[1], e[2])})
SCCsInOrder(S) == Ranked(S, {e \in S \X S : Precedes(First(e[1]), First(e[2]))})

(* Mutant of Push: a fetch goes out when what needs it is done.            *)
PushFetchAfter(sorted, scc, needed) ==
    LET fetches == needed \cap sorted.pending
    IN  [sorted EXCEPT !.result = (@ \o <<scc>>) \o SCCsInOrder(fetches), !.pending = @ \ fetches]

(* Lazy fetching: a fetch waits until something that needs it is ordered.  *)
Push(sorted, scc, needed) ==
    LET fetches == needed \cap sorted.pending
    IN  [sorted EXCEPT !.result = (@ \o SCCsInOrder(fetches)) \o <<scc>>, !.pending = @ \ fetches]

(***************************************************************************)
(* sorted_strongly_connected_components(): the components, each after      *)
(* those that it has edges to.  One component is ordered at a time, the    *)
(* best of those that need nothing that is not ordered.                    *)
(***************************************************************************)
Needs(all, pairs) ==
    [c \in all |-> {d \in all \ {c} : \E e \in pairs : e[1] \in c /\ e[2] \in d}]

OrderableNow(sorted, needs) == {c \in DOMAIN needs \ sorted.done : needs[c] \subseteq sorted.done}

OrderingNow(orderable, early) ==
    CHOOSE c \in orderable : \A d \in orderable \ {c} : OrderedBefore(c, d, early)

OrderOne(sorted, needs, early) ==
    LET now == OrderingNow(OrderableNow(sorted, needs), early)
        ordered == [sorted EXCEPT !.done = @ \cup {now}]
    IN  IF OrderableNow(sorted, needs) = {} THEN sorted
        ELSE IF IsFetch(now) THEN [ordered EXCEPT !.pending = @ \cup {now}]
        ELSE Push(ordered, now, needs[now])

NothingSorted == [result |-> <<>>, done |-> {}, pending |-> {}]

Sort(needs, early) ==
    LET Sorted[k \in Nat] ==
            IF k = 0 THEN NothingSorted ELSE OrderOne(Sorted[k - 1], needs, early)
    IN  Sorted

(* That fetches are left pending, or components not ordered, is an error.  *)
SortedSCCs(g, early) ==
    LET all == SCCs(g)
        sorted == Sort(Needs(all, DOMAIN g.edge), early)[Cardinality(all)]
    IN  [result |-> sorted.result,
         fails |-> sorted.pending # {} \/ Cardinality(sorted.done) # Cardinality(all)]
==============================================================================
