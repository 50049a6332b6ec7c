----------------------------- MODULE GraphReads -----------------------------
(***************************************************************************)
(* The reads of the thought graph (edges.rs, temporal.rs), as functions of *)
(* the thoughts that exist and of the edges: a partial function from edge  *)
(* ids, numbers in the binary order of the ids, to records [source,        *)
(* target, type, from, until]. Instants are numbers and an absent bound is *)
(* Nil: every stored bound is one that link_thoughts and expire_edge      *)
(* accept, so that no read fails on it.                                    *)
(*                                                                         *)
(* The order in which SQLite delivers the rows of one hop is not stated by *)
(* the code; the walks below take the order of the edge ids, and nothing   *)
(* that is claimed of them depends on it.                                  *)
(***************************************************************************)
EXTENDS Integers, FiniteSets, SequencesExt

CONSTANTS
    EdgeIds,    \* numbers
    EdgeTypes,
    MaxDepth,   \* the longest walk; 5 in the code
    Nil

\* The numbers of a set in their order.
Ascending(S) ==
    [n \in 1 .. Cardinality(S) |-> CHOOSE m \in S : Cardinality({k \in S : k <= m}) = n]

Clamp(low, value, high) == IF value < low THEN low ELSE IF value > high THEN high ELSE value

\* active_at: an interval is closed at its start and open at its end.
ActiveAt(edge, now) ==
    /\ edge.from = Nil \/ edge.from <= now
    /\ edge.until = Nil \/ now < edge.until

\* The edges a read follows. types = {} stands for no type filter; now =
\* Nil for include_expired.
Followed(edges, types, now) ==
    {e \in DOMAIN edges : /\ types = {} \/ edges[e].type \in types
                          /\ now = Nil \/ ActiveAt(edges[e], now)}

\* neighbors: the outgoing hops of a node, then the incoming ones.
Hops(edges, picked, node, thoughts) ==
    LET out == Ascending({e \in picked : edges[e].source = node /\ edges[e].target \in thoughts})
        in == Ascending({e \in picked : edges[e].target = node /\ edges[e].source \in thoughts})
    IN  [n \in DOMAIN out |-> [edge |-> out[n], to |-> edges[out[n]].target, way |-> "outgoing"]]
        \o [n \in DOMAIN in |-> [edge |-> in[n], to |-> edges[in[n]].source, way |-> "incoming"]]

-----------------------------------------------------------------------------
(* The breadth-first walk of traverse_graph_at and fetch_graph_related_at: *)
(* a queue of nodes, the depth and the first hop of every node met, in the *)
(* order of meeting, and the hops seen from every node that was expanded.  *)

Start(seeds) == [queue |-> seeds, order |-> seeds,
                 depth |-> [n \in ToSet(seeds) |-> 0],
                 via |-> <<>>, links |-> [n \in ToSet(seeds) |-> <<>>]]

Also(f, key, value) == [k \in DOMAIN f \cup {key} |-> IF k = key THEN value ELSE f[k]]

Met(walk, node, hop) ==
    [queue |-> Append(walk.queue, hop.to), order |-> Append(walk.order, hop.to),
     depth |-> Also(walk.depth, hop.to, walk.depth[node] + 1),
     via |-> Also(walk.via, hop.to, hop), links |-> Also(walk.links, hop.to, <<>>)]

\* Mutant: a node that is met again is moved to the later depth.
MeetAgain(walk, node, hop) ==
    IF hop.to \in DOMAIN walk.depth
    THEN [walk EXCEPT !.depth = Also(@, hop.to, walk.depth[node] + 1)]
    ELSE Met(walk, node, hop)

\* A node that was met before is left as it is.
Meet(walk, node, hop) ==
    IF hop.to \in DOMAIN walk.depth THEN walk ELSE Met(walk, node, hop)

\* The node shows its hops, and these are followed one after the other.
Follow(walk, node, hops) ==
    LET met[k \in 0 .. Len(hops)] ==
          IF k = 0 THEN [walk EXCEPT !.links = Also(@, node, hops)]
          ELSE Meet(met[k - 1], node, hops[k])
    IN  met[Len(hops)]

Expand(walk, cap, edges, picked, thoughts) ==
    LET node == Head(walk.queue)
        popped == [walk EXCEPT !.queue = Tail(@)]
    IN  IF walk.queue = <<>> THEN walk
        ELSE IF walk.depth[node] >= cap THEN popped
        ELSE Follow(popped, node, Hops(edges, picked, node, thoughts))

\* Every node enters the queue once, so that these rounds empty it.
Walk(seeds, cap, edges, picked, thoughts) ==
    LET rounds == Cardinality(thoughts \cup ToSet(seeds))
        after[k \in 0 .. rounds] ==
          IF k = 0 THEN Start(seeds) ELSE Expand(after[k - 1], cap, edges, picked, thoughts)
    IN  after[rounds]

\* traverse_graph_at: nothing when the root does not exist.
Traverse(root, depth, types, now, edges, thoughts) ==
    IF root \notin thoughts THEN Start(<<>>)
    ELSE Walk(<<root>>, Clamp(0, depth, MaxDepth), edges, Followed(edges, types, now), thoughts)

\* fetch_graph_related_at: what is met around the results of a search.
Related(results, depth, now, edges, thoughts) ==
    IF depth <= 0 \/ results = <<>> THEN Start(<<>>)
    ELSE Walk(results, Clamp(1, depth, MaxDepth), edges, Followed(edges, {}, now), thoughts)

\* get_connections_at: the hops of one thought.
Connections(node, types, now, edges, thoughts) ==
    Hops(edges, Followed(edges, types, now), node, thoughts)

-----------------------------------------------------------------------------
(* active_edges_page: the next size edges of one type in the order of      *)
(* their ids, of which the active ones are returned.                       *)

Rest(edges, type, after) ==
    {e \in DOMAIN edges : edges[e].type = type /\ (after = Nil \/ e > after)}

\* Mutant: the page continues after the last edge it returns.
CursorOfReturned(scanned, returned) == IF returned = <<>> THEN Nil ELSE Last(returned)

Cursor(scanned, returned) == IF scanned = <<>> THEN Nil ELSE Last(scanned)

PageOf(scanned, returned, edges, type) ==
    LET last == Cursor(scanned, returned)
    IN  [edges |-> returned,
         next |-> IF last # Nil /\ Rest(edges, type, last) # {} THEN last ELSE Nil]

First(rows, limit) == SubSeq(rows, 1, IF Len(rows) < limit THEN Len(rows) ELSE limit)

ActivePage(edges, type, after, size, now) ==
    LET scanned == First(Ascending(Rest(edges, type, after)), size)
        active == {e \in ToSet(scanned) : ActiveAt(edges[e], now)}
    IN  PageOf(scanned, Ascending(active), edges, type)

-----------------------------------------------------------------------------
(* What the walks are to compute.                                          *)

Adjacent(edges, picked, m, n) ==
    \E e \in picked : <<edges[e].source, edges[e].target>> \in {<<m, n>>, <<n, m>>}

\* Within[k]: the thoughts at most k hops away from the seeds.
Within(seeds, cap, edges, picked, thoughts) ==
    LET within[k \in 0 .. cap] ==
          IF k = 0 THEN seeds
          ELSE LET nearer == within[k - 1]
               IN  nearer \cup {n \in thoughts : \E m \in nearer : Adjacent(edges, picked, m, n)}
    IN  within

\* The walk met exactly the thoughts in reach, each once, at its distance
\* and from a thought one hop nearer; and it shows every followed edge of
\* the thoughts that are not at the limit, and no edge of those.
IsShortestWalk(walk, seeds, cap, edges, picked, thoughts) ==
    LET within == Within(ToSet(seeds), cap, edges, picked, thoughts)
        reach == DOMAIN walk.depth
    IN  /\ ToSet(walk.order) = reach /\ Len(walk.order) = Cardinality(reach)
        /\ \A k \in 0 .. cap : {n \in reach : walk.depth[n] <= k} = within[k]
        /\ reach = {n \in reach : walk.depth[n] <= cap}
        /\ \A n \in DOMAIN walk.via :
             LET e == edges[walk.via[n].edge]
                 from == IF walk.via[n].way = "outgoing" THEN e.source ELSE e.target
             IN  walk.depth[from] = walk.depth[n] - 1
        /\ \A n \in reach :
             {l.edge : l \in ToSet(walk.links[n])} =
                 IF walk.depth[n] = cap THEN {}
                 ELSE {e \in picked : n \in {edges[e].source, edges[e].target}}
=============================================================================
