-------------------------------- MODULE TidalSeq -------------------------------
(***************************************************************************)
(* The state and the loops that the four sequential solvers                *)
(* tidalFlowSeq_{BASELINE,BLOCKING,PRUNING,COMBINED}.c share.  The four    *)
(* files repeat these loops text for text; the modules TidalBaseline,      *)
(* TidalBlocking, TidalPruning and TidalCombined put them together the way *)
(* each file does and add what is its own.                                 *)
(*                                                                         *)
(* One action is one iteration of a loop, or the straight-line code before *)
(* or after it.  levelEdges[] with levelEdgeCount is a sequence, so is     *)
(* queue[] with tail; p[] is indexed like levelEdges; reach[] is the set   *)
(* of nodes whose entry is 1.  The solver is one sequential call: pc says  *)
(* which loop it is in.                                                    *)
(*                                                                         *)
(* A definition called X_Y is a mutant: X with the mistake Y.  No action   *)
(* uses it; it shows that a property notices this mistake.                 *)
(***************************************************************************)
EXTENDS SolverCalls

\* edgeCount is an int, so are the capacities, and a long long holds the product
\* of two ints.
ASSUME SlotsAssumption == \A c \in Cases : c.edgeCount * IntMax <= LLongMax

VARIABLES
  g,            \* the graph, the source and the sink of the call
  flow,         \* g->flow[]
  maxFlow,      \* the driver's maxFlow, in the end the returned value
  pc,           \* the loop the call is in
  dist,         \* dist[], -1 where the node has not been discovered
  queue,        \* queue[0 .. tail-1]
  head,         \* number of nodes taken from the queue
  levelEnd,     \* tail when the current level was started
  u,            \* the node whose edges are being scanned
  e,            \* the slot that is scanned next
  levelEdges,   \* levelEdges[0 .. levelEdgeCount-1]
  idx,          \* position in levelEdges of the loops over it
  write,        \* length of the compacted prefix of levelEdges
  reach,        \* nodes from which the sink is known to be reachable
  h,            \* high tide; in the erosion, flow waiting at a node
  p,            \* flow promised to, then sent through, a level edge
  l,            \* low tide
  sent          \* the value the last tide cycle returned

callVars   == <<g, maxFlow>>
searchVars == <<dist, queue, head, levelEnd, u, e>>
pruneVars  == <<write, reach>>
tideVars   == <<h, p, l, sent>>

vars == <<callVars, flow, pc, searchVars, levelEdges, idx, pruneVars, tideVars>>

Labels == {"alloc", "build", "bfs", "scan", "reach", "compact",
           "tide", "high", "low", "erosion", "returned", "done", "failed"}

Running == pc \notin {"done", "failed"}

\* The arrays hold whatever malloc returned; every cell is written before it
\* is read, so any contents do.
Init ==
  /\ g \in Cases
  /\ flow = [a \in Edges(g) |-> 0]
  /\ maxFlow = 0
  /\ pc = "alloc"
  /\ dist = [x \in Nodes(g) |-> -1]
  /\ queue = <<>>
  /\ head = 0
  /\ levelEnd = 0
  /\ u = g.source
  /\ e = 0
  /\ levelEdges = <<>>
  /\ idx = 1
  /\ write = 0
  /\ reach = {}
  /\ h = [x \in Nodes(g) |-> 0]
  /\ p = [i \in 1 .. g.edgeCount |-> 0]
  /\ l = [x \in Nodes(g) |-> 0]
  /\ sent = 0

\* All scratch arrays are there, or the call returns -1.
Allocate ==
  /\ pc = "alloc"
  /\ \/ pc' = "build" /\ UNCHANGED maxFlow
     \/ pc' = "failed" /\ maxFlow' = -1
  /\ UNCHANGED <<g, flow, searchVars, levelEdges, idx, pruneVars, tideVars>>

-------------------------------------------------------------------------------
(* buildLevelGraph: breadth-first search, one whole level at a time.       *)

\* Starting a search, up to what the combined solver does to h[] besides.
Start ==
  /\ pc = "build"
  /\ dist' = [x \in Nodes(g) |-> IF x = g.source THEN 0 ELSE -1]
  /\ queue' = <<g.source>>
  /\ head' = 0
  /\ levelEnd' = 0
  /\ levelEdges' = <<>>
  /\ pc' = "bfs"
  /\ UNCHANGED <<callVars, flow, u, e, idx, pruneVars, p, l, sent>>

BuildStart == Start /\ UNCHANGED h

\* The level is finished; the search goes on unless it has met the sink or the
\* queue is empty.
SearchEnded_OneLeft == dist[g.sink] # -1 \/ head >= Len(queue) - 1

SearchEnded == dist[g.sink] # -1 \/ head = Len(queue)

NextLevel ==
  /\ pc = "bfs"
  /\ head = levelEnd
  /\ ~SearchEnded
  /\ levelEnd' = Len(queue)
  /\ UNCHANGED <<callVars, flow, pc, dist, queue, head, u, e,
                 levelEdges, idx, pruneVars, tideVars>>

Dequeue ==
  /\ pc = "bfs"
  /\ head < levelEnd
  /\ u' = queue[head + 1]
  /\ head' = head + 1
  /\ e' = g.ver[u']
  /\ pc' = "scan"
  /\ UNCHANGED <<callVars, flow, dist, queue, levelEnd,
                 levelEdges, idx, pruneVars, tideVars>>

LeadsOn_AnyLevel(a) == Residual(g, flow, a) > 0

LeadsOn_FirstOnly(a) == Residual(g, flow, a) > 0 /\ dist[g.dst[a]] = -1

\* The slot has residual capacity and leads to the next level, or to a node
\* seen for the first time, which is thereby on the next level.
LeadsOn(a) ==
  /\ Residual(g, flow, a) > 0
  /\ dist[g.dst[a]] \in {-1, dist[u] + 1}

\* Only a node seen for the first time is queued.
IsNew(x) == dist[x] = -1

SkipEdge ==
  /\ pc = "scan"
  /\ e < g.ver[u + 1]
  /\ ~LeadsOn(e)
  /\ e' = e + 1
  /\ UNCHANGED <<callVars, flow, pc, dist, queue, head, levelEnd, u,
                 levelEdges, idx, pruneVars, tideVars>>

\* Recording a level edge, up to what the combined solver does besides.
Record ==
  /\ pc = "scan"
  /\ e < g.ver[u + 1]
  /\ LeadsOn(e)
  /\ dist' = [dist EXCEPT ![g.dst[e]] = dist[u] + 1]
  /\ queue' = IF IsNew(g.dst[e]) THEN Append(queue, g.dst[e]) ELSE queue
  /\ levelEdges' = Append(levelEdges, e)
  /\ e' = e + 1
  /\ UNCHANGED <<callVars, flow, pc, head, levelEnd, u, idx, pruneVars, l, sent>>

RecordEdge == Record /\ UNCHANGED <<h, p>>

ScanEnd ==
  /\ pc = "scan"
  /\ e = g.ver[u + 1]
  /\ pc' = "bfs"
  /\ UNCHANGED <<callVars, flow, searchVars, levelEdges, idx, pruneVars, tideVars>>

\* Return of a builder that does not prune.
BuildEnd ==
  /\ pc = "bfs"
  /\ head = levelEnd
  /\ SearchEnded
  /\ pc' = IF dist[g.sink] # -1 THEN "tide" ELSE "done"
  /\ UNCHANGED <<callVars, flow, searchVars, levelEdges, idx, pruneVars, tideVars>>

-------------------------------------------------------------------------------
(* Pruning: keep the level edges between nodes that reach the sink.        *)

PruneStart ==
  /\ pc = "bfs"
  /\ head = levelEnd
  /\ SearchEnded
  /\ IF dist[g.sink] # -1
     THEN pc' = "reach" /\ reach' = {g.sink} /\ idx' = Len(levelEdges)
     ELSE pc' = "done" /\ UNCHANGED <<reach, idx>>
  /\ UNCHANGED <<callVars, flow, searchVars, levelEdges, write, tideVars>>

MarkReach ==
  /\ pc = "reach"
  /\ idx > 0
  /\ LET a == levelEdges[idx]
     IN  reach' = IF g.dst[a] \in reach THEN reach \cup {g.src[a]} ELSE reach
  /\ idx' = idx - 1
  /\ UNCHANGED <<callVars, flow, pc, searchVars, levelEdges, write, tideVars>>

MarkEnd ==
  /\ pc = "reach"
  /\ idx = 0
  /\ idx' = 1
  /\ write' = 0
  /\ pc' = "compact"
  /\ UNCHANGED <<callVars, flow, searchVars, levelEdges, reach, tideVars>>

IsKept_TailOnly(a) == g.src[a] \in reach

IsKept(a) == g.src[a] \in reach /\ g.dst[a] \in reach

\* The loop body up to p[], which only the combined solver moves along.
Compact ==
  /\ pc = "compact"
  /\ idx <= Len(levelEdges)
  /\ \/ /\ IsKept(levelEdges[idx])
        /\ levelEdges' = [levelEdges EXCEPT ![write + 1] = levelEdges[idx]]
        /\ write' = write + 1
     \/ /\ ~IsKept(levelEdges[idx])
        /\ UNCHANGED <<levelEdges, write>>
  /\ idx' = idx + 1
  /\ UNCHANGED <<callVars, flow, pc, searchVars, reach, h, l, sent>>

CompactEdge == Compact /\ UNCHANGED p

CompactEnd ==
  /\ pc = "compact"
  /\ idx > Len(levelEdges)
  /\ levelEdges' = SubSeq(levelEdges, 1, write)
  /\ pc' = IF write > 0 /\ g.source \in reach THEN "tide" ELSE "done"
  /\ UNCHANGED <<callVars, flow, searchVars, idx, pruneVars, tideVars>>

-------------------------------------------------------------------------------
(* tideCycle: high tide, low tide, erosion.                                *)

TideStart ==
  /\ pc = "tide"
  /\ h' = [x \in Nodes(g) |-> IF x = g.source THEN LLongMax ELSE 0]
  /\ l' = [x \in Nodes(g) |-> 0]
  /\ idx' = 1
  /\ pc' = "high"
  /\ UNCHANGED <<callVars, flow, searchVars, levelEdges, pruneVars, p, sent>>

Promise_OffByOne(a) == Lesser(Residual(g, flow, a) - 1, h[g.src[a]])

\* What high tide promises to slot a.
Promise(a) == Lesser(Residual(g, flow, a), h[g.src[a]])

HighTide ==
  /\ pc = "high"
  /\ idx <= Len(levelEdges)
  /\ LET a == levelEdges[idx]
     IN  /\ p' = [p EXCEPT ![idx] = Promise(a)]
         /\ h' = [h EXCEPT ![g.dst[a]] = @ + Promise(a)]
  /\ idx' = idx + 1
  /\ UNCHANGED <<callVars, flow, pc, searchVars, levelEdges, pruneVars, l, sent>>

\* If the high tide did not get to the sink the cycle returns 0.
HighTideEnd ==
  /\ pc = "high"
  /\ idx > Len(levelEdges)
  /\ IF h[g.sink] = 0
     THEN sent' = 0 /\ pc' = "returned" /\ UNCHANGED l
     ELSE l' = [l EXCEPT ![g.sink] = h[g.sink]] /\ pc' = "low" /\ UNCHANGED sent
  /\ idx' = Len(levelEdges)
  /\ UNCHANGED <<callVars, flow, searchVars, levelEdges, pruneVars, h, p>>

Pullback_NoSpare(i) == Lesser(p[i], l[g.dst[levelEdges[i]]])

Pullback_NoDemand(i) ==
  LET x == g.src[levelEdges[i]]
  IN  Lesser(p[i], IF h[x] < l[x] THEN 0 ELSE h[x] - l[x])

\* What low tide pulls back through position i: no more than was promised,
\* than the tail node was offered and has not used, than the head node wants.
Pullback(i) ==
  LET a         == levelEdges[i]
      spare     == h[g.src[a]] - l[g.src[a]]
      available == IF spare < 0 THEN 0 ELSE spare
  IN  Lesser(p[i], Lesser(available, l[g.dst[a]]))

LowTide ==
  /\ pc = "low"
  /\ idx > 0
  /\ LET a      == levelEdges[idx]
         pushed == Pullback(idx)
     IN  /\ p' = [p EXCEPT ![idx] = pushed]
         /\ l' = [[l EXCEPT ![g.dst[a]] = @ - pushed] EXCEPT ![g.src[a]] = @ + pushed]
  /\ idx' = idx - 1
  /\ UNCHANGED <<callVars, flow, pc, searchVars, levelEdges, pruneVars, h, sent>>

LowTideEnd ==
  /\ pc = "low"
  /\ idx = 0
  /\ h' = [x \in Nodes(g) |-> IF x = g.source THEN l[g.source] ELSE 0]
  /\ idx' = 1
  /\ pc' = "erosion"
  /\ UNCHANGED <<callVars, flow, searchVars, levelEdges, pruneVars, p, l, sent>>

Amount_NoLimit(i) == p[i]

\* What position i may carry, of what waits at its tail node.
Amount(i) == Lesser(p[i], h[g.src[levelEdges[i]]])

Push_NoReverse(a, amount) == [flow EXCEPT ![a] = @ + amount]

Push(a, amount) == [[flow EXCEPT ![a] = @ + amount] EXCEPT ![g.rev[a]] = @ - amount]

Erosion ==
  /\ pc = "erosion"
  /\ idx <= Len(levelEdges)
  /\ LET a      == levelEdges[idx]
         amount == Amount(idx)
     IN  /\ p' = [p EXCEPT ![idx] = amount]
         /\ h' = [[h EXCEPT ![g.src[a]] = @ - amount] EXCEPT ![g.dst[a]] = @ + amount]
         /\ flow' = Push(a, amount)
  /\ idx' = idx + 1
  /\ UNCHANGED <<callVars, pc, searchVars, levelEdges, pruneVars, l, sent>>

ErosionEnd ==
  /\ pc = "erosion"
  /\ idx > Len(levelEdges)
  /\ sent' = h[g.sink]
  /\ pc' = "returned"
  /\ UNCHANGED <<callVars, flow, searchVars, levelEdges, idx, pruneVars, h, p, l>>

-------------------------------------------------------------------------------
(* What the drivers do with the value of a cycle.                          *)

\* Add it and search again (one cycle per search).
AddAndRebuild ==
  /\ pc = "returned"
  /\ maxFlow' = maxFlow + sent
  /\ pc' = "build"
  /\ UNCHANGED <<g, flow, searchVars, levelEdges, idx, pruneVars, tideVars>>

Blocked_TooEarly == sent <= 1

Blocked_Never == sent < 0

\* The level graph gives nothing more.
Blocked == sent <= 0

\* Add it and run another cycle on the same level graph.
AddAndRepeat ==
  /\ pc = "returned"
  /\ ~Blocked
  /\ maxFlow' = maxFlow + sent
  /\ pc' = "tide"
  /\ UNCHANGED <<g, flow, searchVars, levelEdges, idx, pruneVars, tideVars>>

Rebuild ==
  /\ pc = "returned"
  /\ Blocked
  /\ pc' = "build"
  /\ UNCHANGED <<callVars, flow, searchVars, levelEdges, idx, pruneVars, tideVars>>

-------------------------------------------------------------------------------
(* Properties.                                                             *)

\* The type of every variable; in particular no tide is ever negative.
TypeOK ==
  /\ IsCase(g)
  /\ flow \in [Edges(g) -> Int]
  /\ maxFlow \in Int
  /\ pc \in Labels
  /\ dist \in [Nodes(g) -> Nat \cup {-1}]
  /\ queue \in Seq(Nodes(g))
  /\ head \in 0 .. Len(queue)
  /\ levelEnd \in 0 .. Len(queue)
  /\ u \in Nodes(g)
  /\ e \in 0 .. g.edgeCount
  /\ levelEdges \in Seq(Edges(g))
  /\ idx \in Nat
  /\ write \in Nat
  /\ reach \subseteq Nodes(g)
  /\ h \in [Nodes(g) -> Nat]
  /\ p \in [1 .. g.edgeCount -> Nat]
  /\ l \in [Nodes(g) -> Nat]
  /\ sent \in Nat

\* No slot ever carries more than its capacity, also not between the two writes
\* of an erosion step and the next step, and rev[] slots mirror each other.
FlowIsFeasible == CapacityOK(g, flow) /\ SkewSymmetry(g, flow)

\* The residual capacity every loop computes as an int is one.
ResidualFitsInt == \A a \in Edges(g) : Residual(g, flow, a) \in 0 .. IntMax

\* No tide overflows a long long.  The source starts with LLONG_MAX, so one level
\* edge into the source would be enough.
TidesFitLongLong == \A x \in Nodes(g) : h[x] <= LLongMax

\* Every scratch array is long enough: a node is queued at most once, a slot is
\* a level edge at most once.
BuffersSuffice ==
  /\ Len(queue) <= g.nodeCount
  /\ Len(levelEdges) <= g.edgeCount

\* The low tide never promises a node more than the high tide brought to it.
LowTideBound == pc = "low" => \A x \in Nodes(g) : l[x] <= h[x]

\* Everything the low tide asked of the source arrives at the sink: no flow
\* strands at an inner node when the erosion ends.
ErosionDelivers ==
  pc = "erosion" /\ idx > Len(levelEdges) =>
    \A x \in Nodes(g) : h[x] = IF x = g.sink THEN l[g.source] ELSE 0

LevelEdgeSet == {levelEdges[i] : i \in DOMAIN levelEdges}

HasNoRepeats(s) == \A i, j \in DOMAIN s : s[i] = s[j] => i = j

\* A cycle that sends nothing has found every path of the level graph blocked.
ZeroCycleMeansBlocked ==
  pc = "returned" /\ sent <= 0 =>
    g.source \notin CoReach(g, {a \in LevelEdgeSet : Residual(g, flow, a) > 0})

\* When a solver that repeats cycles searches again, the sink has moved away:
\* the next shortest augmenting path, if any, is longer.
PhasesLengthen ==
  pc = "build" /\ dist[g.sink] # -1 =>
    Distances(g, flow)[g.sink] \notin 0 .. dist[g.sink]

\* The returned value is the capacity of a minimum cut.
ResultIsMaxFlow == pc = "done" => maxFlow = MinCut(g)

\* The builder returns exactly the level graph of the current flow ...
BuildsLevelGraph ==
  [][pc = "bfs" /\ pc' \notin {"bfs", "scan"} =>
       /\ HasNoRepeats(levelEdges)
       /\ dist[g.sink] = Distances(g, flow)[g.sink]
       /\ HasAugmentingPath(g, flow) => LevelEdgeSet = LevelEdges(g, flow)]_vars

\* ... and pruning leaves exactly the edges on its source-sink paths.
PruningIsExact ==
  [][pc = "compact" /\ pc' # "compact" =>
       /\ HasNoRepeats(levelEdges')
       /\ LevelEdgeSet' = ShortestPathEdges(g, flow)
       /\ pc' = "tide"]_vars

\* Every call returns.
Terminates == <>~Running

\* The call returns a flow that fills a cut: no residual edge leads from the
\* nodes the last search has discovered to the others, and the sink is there.
CutCertificate ==
  pc = "done" =>
    /\ dist[g.source] # -1
    /\ dist[g.sink] = -1
    /\ \A a \in Edges(g) :
          dist[g.src[a]] # -1 /\ dist[g.dst[a]] = -1 => flow[a] = g.capacity[a]

-------------------------------------------------------------------------------
(* The inductive invariant behind FlowIsFeasible, BuffersSuffice,          *)
(* LowTideBound and CutCertificate.                                        *)

IsTaken(x) == \E k \in 1 .. head : queue[k] = x

\* The queue holds the discovered nodes, each once.
QueueInv ==
  /\ HasNoRepeats(queue)
  /\ \A x \in Nodes(g) : dist[x] # -1 <=> \E k \in DOMAIN queue : queue[k] = x
  /\ pc \notin {"alloc", "build", "failed"} => dist[g.source] = 0
  /\ pc = "scan" => /\ head > 0
                    /\ u = queue[head]
                    /\ e \in g.ver[u] .. g.ver[u + 1]

\* Recorded slots lead one level on; so none of them is another one's rev[].
LevelInv ==
  \A i \in DOMAIN levelEdges :
     /\ dist[g.src[levelEdges[i]]] # -1
     /\ dist[g.dst[levelEdges[i]]] = dist[g.src[levelEdges[i]]] + 1

\* A slot of a node not yet taken, or not yet scanned, has not been recorded.
ScanInv ==
  pc \in {"bfs", "scan"} =>
    \A i \in DOMAIN levelEdges :
       /\ IsTaken(g.src[levelEdges[i]])
       /\ pc = "scan" /\ g.src[levelEdges[i]] = u => levelEdges[i] < e

\* The positions of levelEdges[] that count: while it is being compacted, the
\* part already written and the part still to be read.
Live ==
  IF pc = "compact" THEN (1 .. write) \cup (idx .. Len(levelEdges))
                    ELSE DOMAIN levelEdges

NoRepeatInv ==
  /\ pc = "compact" => write < idx /\ idx <= Len(levelEdges) + 1
  /\ \A i, j \in Live : levelEdges[i] = levelEdges[j] => i = j

\* The positions whose promise is current: made, and not yet turned into flow.
Promised ==
  CASE pc = "high"    -> 1 .. (idx - 1)
    [] pc = "low"     -> DOMAIN levelEdges
    [] pc = "erosion" -> idx .. Len(levelEdges)
    [] OTHER          -> {}

PromiseInv ==
  /\ pc \in {"high", "erosion"} => idx \in 1 .. (Len(levelEdges) + 1)
  /\ pc \in {"low", "reach"} => idx <= Len(levelEdges)
  /\ pc = "high" => \A x \in Nodes(g) : l[x] = 0
  /\ \A i \in Promised : p[i] <= Residual(g, flow, levelEdges[i])

\* Residual edges of the scanned nodes lead to discovered nodes.
CutInv ==
  pc \in {"bfs", "scan"} =>
    \A a \in ResidualEdges(g, flow) :
       IsTaken(g.src[a]) /\ ~(pc = "scan" /\ g.src[a] = u /\ a >= e) => dist[g.dst[a]] # -1

\* Nodes are queued, and their slots recorded, by increasing distance, and every
\* discovered node but the source is entered by a level edge.
OrderInv ==
  pc \in {"bfs", "scan", "reach"} =>
    /\ \A j, k \in DOMAIN queue : j <= k => dist[queue[j]] <= dist[queue[k]]
    /\ \A i, j \in DOMAIN levelEdges :
          i <= j => dist[g.src[levelEdges[i]]] <= dist[g.src[levelEdges[j]]]
    /\ \A x \in Nodes(g) : dist[x] = 0 => x = g.source
    /\ \A x \in Nodes(g) :
          dist[x] > 0 => \E i \in DOMAIN levelEdges : g.dst[levelEdges[i]] = x

FrontierInv ==
  pc \in {"bfs", "scan"} =>
    /\ head = 0 => Len(queue) = 1
    /\ head > 0 => \A k \in DOMAIN queue : dist[queue[k]] <= dist[queue[head]] + 1

\* The backward pass over the positions above idx has marked what it must, and
\* nothing that does not lead to the sink by one of them; if it has not yet come
\* to the source, an edge below idx will bring it nearer.
ReachInv ==
  pc = "reach" =>
    /\ g.sink \in reach
    /\ dist[g.sink] # -1
    /\ \A x \in reach : \/ x = g.sink
                        \/ \E i \in (idx + 1) .. Len(levelEdges) :
                              g.src[levelEdges[i]] = x /\ g.dst[levelEdges[i]] \in reach
    /\ \A i \in (idx + 1) .. Len(levelEdges) :
          g.dst[levelEdges[i]] \in reach => g.src[levelEdges[i]] \in reach
    /\ \E x \in reach : \/ x = g.source
                        \/ \E i \in 1 .. idx : g.dst[levelEdges[i]] = x

\* The pass has come to the source, so some edge is kept.
KeptInv ==
  pc = "compact" =>
    /\ g.source \in reach
    /\ write > 0 \/ \E i \in idx .. Len(levelEdges) : IsKept(levelEdges[i])

IInv ==
  /\ TypeOK
  /\ FlowIsFeasible
  /\ BuffersSuffice
  /\ QueueInv
  /\ LevelInv
  /\ ScanInv
  /\ NoRepeatInv
  /\ PromiseInv
  /\ LowTideBound
  /\ CutInv
  /\ OrderInv
  /\ FrontierInv
  /\ ReachInv
  /\ KeptInv
  /\ CutCertificate

-------------------------------------------------------------------------------
(* The inductive invariant behind BuildsLevelGraph, PruningIsExact and     *)
(* PhasesLengthen, on top of IInv: the labels of the search are distances. *)

\* The distance of the nodes of the level that is being scanned.
Depth == IF levelEnd = 0 THEN -1 ELSE dist[queue[levelEnd]]

\* A level ends at levelEnd; what has been queued behind it is the next level, the
\* only one the sink can be on.
DepthInv ==
  pc \in {"bfs", "scan"} =>
    /\ head <= levelEnd
    /\ dist[g.sink] \in {-1, Depth + 1}
    /\ \A k \in DOMAIN queue : /\ k > head => dist[queue[k]] >= Depth
                               /\ k > levelEnd => dist[queue[k]] = Depth + 1
    /\ pc = "scan" => dist[u] = Depth

\* A residual slot that has been scanned leads at most one level on, and has been
\* recorded if it does.
ScannedInv ==
  pc \in {"bfs", "scan"} =>
    /\ LevelEdgeSet \subseteq ResidualEdges(g, flow)
    /\ \A a \in ResidualEdges(g, flow) :
          IsTaken(g.src[a]) /\ ~(pc = "scan" /\ g.src[a] = u /\ a >= e) =>
            /\ dist[g.dst[a]] <= dist[g.src[a]] + 1
            /\ dist[g.dst[a]] = dist[g.src[a]] + 1 => a \in LevelEdgeSet

\* The backward pass marks no node that does not lead to the sink, and in the end all
\* that do; the compaction drops none of the edges between them.
MarkedInv ==
  /\ pc = "reach" =>
       /\ LevelEdgeSet = LevelEdges(g, flow)
       /\ reach \subseteq CoReach(g, LevelEdges(g, flow))
  /\ pc = "compact" =>
       /\ reach = CoReach(g, LevelEdges(g, flow))
       /\ \A i \in Live : levelEdges[i] \in LevelEdges(g, flow)
       /\ \A i \in 1 .. write : IsKept(levelEdges[i])
       /\ \A a \in LevelEdges(g, flow) : IsKept(a) => \E i \in Live : levelEdges[i] = a

\* Until the next search, and although erosions make new residual edges, no residual
\* edge below the level of the sink skips a level, and those to the next level that
\* could be on a path of level edges are level edges.
LabelInv ==
  /\ pc = "alloc" => dist[g.sink] = -1
  /\ pc \in {"reach", "compact", "tide", "high", "low", "erosion", "returned", "build"} =>
       \A a \in ResidualEdges(g, flow) :
         dist[g.src[a]] \in 0 .. (dist[g.sink] - 1) =>
           /\ dist[g.dst[a]] \in 0 .. (dist[g.src[a]] + 1)
           /\ dist[g.dst[a]] = dist[g.src[a]] + 1 =>
                IF pc \in {"reach", "compact"}
                THEN a \in LevelEdges(g, flow)
                ELSE g.dst[a] \in CoReach(g, LevelEdgeSet) => a \in LevelEdgeSet

LevelGraphInv ==
  /\ DepthInv
  /\ ScannedInv
  /\ MarkedInv
  /\ LabelInv

-------------------------------------------------------------------------------
(* The inductive invariant behind ErosionDelivers, ZeroCycleMeansBlocked   *)
(* and ResultIsMaxFlow, on top of IInv: what the tides carry.              *)

\* What the positions of I carry out of x, and into x.
Outgoing(x, I) == SumOver(p, {i \in I : g.src[levelEdges[i]] = x})

Incoming(x, I) == SumOver(p, {i \in I : g.dst[levelEdges[i]] = x})

\* Level edges are kept in the order of their levels, also by the compaction.
SortedInv ==
  \A i, j \in Live : i <= j => dist[g.src[levelEdges[i]]] <= dist[g.src[levelEdges[j]]]

\* What the running cycle has taken out of the source, and brought to the sink.
TakenOut  == CASE pc = "erosion" -> l[g.source] [] pc = "returned" -> sent [] OTHER -> 0
BroughtIn == IF pc = "returned" THEN sent ELSE 0

\* A node has given away what it was given, up to what waits there during an
\* erosion; only the source and the sink have got a balance.
ConservationInv ==
  /\ pc = "alloc" => maxFlow = 0
  /\ pc # "failed" =>
       \A x \in Nodes(g) :
          NetOutflow(g, flow, x) + (IF pc = "erosion" THEN h[x] ELSE 0) =
            CASE x = g.source -> maxFlow + TakenOut
              [] x = g.sink   -> -(maxFlow + BroughtIn)
              [] OTHER        -> 0

\* The high tide over the positions of I has risen at the nodes of N: although
\* h[] of a node was read while other nodes were still rising, a high tide over
\* all of I would promise the same.
Risen(I, N) ==
  /\ h[g.source] = LLongMax
  /\ \A i \in I : p[i] = Promise(levelEdges[i])
  /\ \A x \in N \ {g.source} : h[x] = Incoming(x, I)

RisenInv == pc = "high" => Risen(1 .. (idx - 1), Nodes(g))

\* A demand is what was pulled out of a node and not yet out of its suppliers ...
Demanded ==
  \A x \in Nodes(g) :
     l[x] = Outgoing(x, (idx + 1) .. Len(levelEdges))
              - Incoming(x, (idx + 1) .. Len(levelEdges))
              + (IF x = g.sink THEN h[g.sink] ELSE 0)

\* ... an edge that promises something has suppliers before it ...
Supplied ==
  \A i \in 1 .. idx :
     p[i] > 0 => LET x == g.src[levelEdges[i]]
                 IN  /\ h[x] > 0
                     /\ \/ x = g.source
                        \/ \E k \in 1 .. (i - 1) : g.dst[levelEdges[k]] = x /\ p[k] > 0

\* ... and there always is a demand that an edge still to come can answer.
Answerable ==
  \E x \in Nodes(g) :
     /\ l[x] > 0
     /\ \/ x = g.source
        \/ \E i \in 1 .. idx : g.dst[levelEdges[i]] = x /\ p[i] > 0

DemandInv == pc = "low" => Demanded /\ Supplied /\ Answerable

\* The edges still to be eroded can carry away what waits or will arrive.
ErosionInv ==
  pc = "erosion" =>
    /\ l[g.source] > 0
    /\ \A x \in Nodes(g) \ {g.sink} :
          h[x] + Incoming(x, idx .. Len(levelEdges)) <= Outgoing(x, idx .. Len(levelEdges))

\* A cycle that sent nothing leaves behind a high tide that has reached every
\* node it could, and not the sink.
BlockedInv ==
  pc = "returned" /\ sent = 0 =>
    /\ h[g.source] > 0
    /\ h[g.sink] = 0
    /\ \A i \in DOMAIN levelEdges :
          h[g.src[levelEdges[i]]] > 0 /\ Residual(g, flow, levelEdges[i]) > 0 =>
            h[g.dst[levelEdges[i]]] > 0

MassInv ==
  /\ SortedInv
  /\ ConservationInv
  /\ RisenInv
  /\ DemandInv
  /\ ErosionInv
  /\ BlockedInv

\* The high tide of a node is bounded by the capacities around it; an erosion only
\* moves what has been taken out of the source.
TidesInv ==
  /\ g \in Cases
  /\ TidesFitLongLong
  /\ pc = "erosion" => /\ l[g.source] <= LLongMax
                       /\ SumOver(h, Nodes(g)) = l[g.source]

SolverInv == IInv /\ LevelGraphInv /\ MassInv /\ TidesInv

-------------------------------------------------------------------------------
(* The abstract view of the state: a cycle counts when the driver adds it. *)
(* Until then the slots it has already eroded are seen without it.         *)

Eroded ==
  CASE pc = "erosion"               -> 1 .. (idx - 1)
    [] pc = "returned" /\ sent > 0  -> DOMAIN levelEdges
    [] OTHER                        -> {}

\* What slot a has been sent by the positions of I, and the flow without it.
SentBy(I, a) ==
  IF \E i \in I : levelEdges[i] = a THEN p[CHOOSE i \in I : levelEdges[i] = a] ELSE 0

FlowWithout(I) ==
  [a \in Edges(g) |-> flow[a] - SentBy(I, a) + SentBy(I, g.rev[a])]

CommittedFlow == FlowWithout(Eroded)

Status == IF Running THEN "running" ELSE pc

Abstract == INSTANCE MaxFlow WITH flow <- CommittedFlow, value <- maxFlow, status <- Status

\* The solver implements MaxFlow: a tide cycle that delivers is an Augment.
ImplementsMaxFlow == Abstract!Spec

===============================================================================
