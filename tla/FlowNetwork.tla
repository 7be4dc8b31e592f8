------------------------------ MODULE FlowNetwork ------------------------------
(***************************************************************************)
(* The graph every tidal-flow solver works on: struct Graph of             *)
(* algorithm/tidalflow/graph.h after one of the two builders of graph.c    *)
(* has filled it, together with the source and the sink the solver is      *)
(* called with.  A case is the read-only part of that call; flow[], the    *)
(* only array the solvers change, is a parameter of the operators below.   *)
(*                                                                         *)
(* Nodes and edge slots are numbered from 0, as in the code.               *)
(***************************************************************************)
EXTENDS Sequences, Sums, Ints

Nodes(c) == 0 .. (c.nodeCount - 1)
Edges(c) == 0 .. (c.edgeCount - 1)

Lesser(a, b) == IF a < b THEN a ELSE b

-------------------------------------------------------------------------------
(* What the builders of graph.c establish.                                 *)

\* ver[] is the CSR index: the slots of u are ver[u] .. ver[u+1]-1.
IsIndexed(c) ==
  /\ c.ver \in [0 .. c.nodeCount -> 0 .. c.edgeCount]
  /\ \A x \in Nodes(c) : c.ver[x] <= c.ver[x + 1]
  /\ \A x \in Nodes(c), a \in Edges(c) :
        c.src[a] = x <=> c.ver[x] <= a /\ a < c.ver[x + 1]

\* rev[] pairs every slot with another slot of the opposite direction.
IsPaired(c) ==
  /\ c.rev \in [Edges(c) -> Edges(c)]
  /\ \A a \in Edges(c) :
        /\ c.rev[a] # a
        /\ c.rev[c.rev[a]] = a
        /\ c.src[c.rev[a]] = c.dst[a]
        /\ c.dst[c.rev[a]] = c.src[a]

\* The two capacities of a pair add up to an int.  With reverse slots of
\* capacity 0 this always holds; a strict build does not check it.
FitsInt(c) ==
  \A a \in Edges(c) : c.capacity[a] + c.capacity[c.rev[a]] <= IntMax

IsCase(c) ==
  /\ c.nodeCount \in Nat
  /\ c.edgeCount \in Nat
  /\ c.src \in [Edges(c) -> Nodes(c)]
  /\ c.dst \in [Edges(c) -> Nodes(c)]
  /\ c.capacity \in [Edges(c) -> 0 .. IntMax]
  /\ c.source \in Nodes(c)
  /\ c.sink \in Nodes(c)
  /\ c.source # c.sink
  /\ IsIndexed(c)
  /\ IsPaired(c)
  /\ FitsInt(c)

-------------------------------------------------------------------------------
(* Residual graph, levels, feasible flows and minimum cuts.                *)

Out(c, x) == {a \in Edges(c) : c.src[a] = x}

Residual(c, flow, a) == c.capacity[a] - flow[a]

ResidualEdges(c, flow) == {a \in Edges(c) : Residual(c, flow, a) > 0}

\* The nodes at most 0, 1, ..., n steps away from start; a step leads from x to
\* the members of near[x], one of which is x.
Spread(start, near, n) ==
  LET ball[k \in 0 .. n] ==
        IF k = 0 THEN start ELSE UNION {near[x] : x \in ball[k - 1]}
  IN  [k \in 0 .. n |-> ball[k]]

\* The nodes at most 0, 1, 2, ... residual edges away from the source.
Balls(c, flow) ==
  LET E == ResidualEdges(c, flow)
      around == [x \in Nodes(c) |-> {x} \cup {c.dst[a] : a \in {b \in E : c.src[b] = x}}]
  IN  Spread({c.source}, around, c.nodeCount)

\* Residual distance of every node from the source, -1 where there is no residual
\* path: one more than the number of balls around the source, the source itself
\* left aside, that the node is not in.
Distances(c, flow) ==
  LET balls == Balls(c, flow)
      outside(x) == Cardinality({k \in 1 .. c.nodeCount : x \notin balls[k]})
  IN  [x \in Nodes(c) |->
         IF x = c.source THEN 0
         ELSE IF outside(x) = c.nodeCount THEN -1 ELSE outside(x) + 1]

HasAugmentingPath(c, flow) == Distances(c, flow)[c.sink] # -1

CapacityOK(c, flow) == \A a \in Edges(c) : flow[a] <= c.capacity[a]

SkewSymmetry(c, flow) == \A a \in Edges(c) : flow[c.rev[a]] = -flow[a]

\* Flow leaving x minus flow entering it (flow[] is skew-symmetric).
NetOutflow(c, flow, x) == SumOver(flow, Out(c, x))

Conserves(c, flow) ==
  \A x \in Nodes(c) \ {c.source, c.sink} : NetOutflow(c, flow, x) = 0

IsFlow(c, flow) ==
  /\ CapacityOK(c, flow)
  /\ SkewSymmetry(c, flow)
  /\ Conserves(c, flow)

FlowValue(c, flow) == NetOutflow(c, flow, c.source)

\* Reference answer, independent of any residual graph: the least capacity of
\* the edges that leave a set of nodes holding the source but not the sink.
MinCut(c) ==
  LET sides  == {S \cup {c.source} : S \in SUBSET (Nodes(c) \ {c.source, c.sink})}
      cut(S) == {a \in Edges(c) : c.src[a] \in S /\ c.dst[a] \notin S}
  IN  Min({SumOver(c.capacity, cut(S)) : S \in sides})

-------------------------------------------------------------------------------
(* The level graph of a flow, as all solvers mean it: residual edges from  *)
(* a level to the next, up to the level of the sink.                       *)

LevelEdgesAt(c, flow, dist) ==
  {a \in ResidualEdges(c, flow) :
     /\ dist[c.src[a]] # -1
     /\ dist[c.dst[a]] = dist[c.src[a]] + 1
     /\ dist[c.dst[a]] <= dist[c.sink]}

LevelEdges(c, flow) == LevelEdgesAt(c, flow, Distances(c, flow))

\* Nodes from which the sink can be reached along edges of E.
CoReach(c, E) ==
  LET before == [x \in Nodes(c) |-> {x} \cup {c.src[a] : a \in {b \in E : c.dst[b] = x}}]
  IN  Spread({c.sink}, before, c.nodeCount)[c.nodeCount]

Between(c, E, live) == {a \in E : c.src[a] \in live /\ c.dst[a] \in live}

\* The level edges that lie on a shortest augmenting path.
ShortestPathEdges(c, flow) ==
  LET E == LevelEdges(c, flow) IN Between(c, E, CoReach(c, E))

===============================================================================
