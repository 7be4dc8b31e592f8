----------------------------- MODULE CudaLevelGraph ----------------------------
(***************************************************************************)
(* What the builders of tidalFlowCUDA.cu and tidalFlowCUDAPrefix.cu share: *)
(* the host's loop over the levels, the kernel of the backward pass and    *)
(* the kernel of the compaction.  The kernel of the search differs; the    *)
(* modules that extend this one add it.                                    *)
(*                                                                         *)
(* Device arrays keep their names without d_; reach[] is dist[], as in the *)
(* call, and levelEdges[] starts with what the tides left in it, as p[] is *)
(* the same array.  A launch is over when all its threads are; the host    *)
(* waits for it.  A thread of the search is named by its frontier          *)
(* position, a thread of the other kernels by the position of its edge.    *)
(*                                                                         *)
(* One behaviour is one call, with flow[] all zero: with edges in both     *)
(* directions any residual graph is that of such a call.                   *)
(***************************************************************************)
EXTENDS SolverCalls

VARIABLES
  g, flow,                          \* the arguments of the call, read only
  pc,                               \* the part of the call the host is in
  dist,                             \* dist[], after the search reach[]
  frontier, frontierSize,
  nextFrontier, nextFrontierSize,
  levelEdges, levelEdgeCount,
  level, levelVer, oldLevelVer,
  at, edge,                         \* where a thread of the search is, its slot
  lvl, todo,                        \* a later launch: its level, threads to come
  compactedLevelEdges, writeCount,
  result                            \* the returned value, -1 before

callVars     == <<g, flow>>
frontierVars == <<frontier, frontierSize>>
foundVars    == <<nextFrontier, nextFrontierSize, levelEdges, levelEdgeCount>>
levelVars    == <<level, levelVer>>
threadVars   == <<at, edge>>
pruneVars    == <<oldLevelVer, lvl, todo, compactedLevelEdges, writeCount>>

sharedVars == <<callVars, pc, dist, frontierVars, foundVars, levelVars, threadVars,
                pruneVars, result>>

\* The first slot of the node a thread takes; threads beyond the frontier do nothing.
FirstSlots(nodes, size) == [t \in Nodes(g) |-> IF t < size THEN g.ver[nodes[t]] ELSE 0]

CallInit ==
  /\ g \in Cases
  /\ flow = [a \in Edges(g) |-> 0]
  /\ pc = "search"
  /\ dist = [x \in Nodes(g) |-> IF x = g.source THEN 0 ELSE -1]
  /\ frontier = [t \in Nodes(g) |-> IF t = 0 THEN g.source ELSE -1]
  /\ frontierSize = 1
  /\ nextFrontier = [t \in Nodes(g) |-> -1]
  /\ nextFrontierSize = 0
  /\ \E stale \in {0, 1} : levelEdges = [i \in Edges(g) |-> stale]
  /\ levelEdgeCount = 0
  /\ level = 0
  /\ levelVer = [k \in 0 .. g.nodeCount |-> 0]
  /\ oldLevelVer = [k \in 0 .. g.nodeCount |-> 0]
  /\ at = [t \in Nodes(g) |-> "scan"]
  /\ edge = FirstSlots(frontier, 1)
  /\ lvl = 0
  /\ todo = {}
  /\ compactedLevelEdges = [i \in Edges(g) |-> -1]
  /\ writeCount = 0
  /\ result = -1

-------------------------------------------------------------------------------
(* Threads of the search.                                                  *)

Launched == {t \in Nodes(g) : t < frontierSize}

Target(t) == g.dst[edge[t]]

GoTo(t, label) == at' = [at EXCEPT ![t] = label]

Advance(t) == edge' = [edge EXCEPT ![t] = @ + 1]

HasSlot(t) == edge[t] < g.ver[frontier[t] + 1]

HasScanned(t) == at[t] = "scan" /\ ~HasSlot(t)

Looks(t) == at[t] = "scan" /\ HasSlot(t)

IsOpen(t) == Residual(g, flow, edge[t]) > 0

SkipEdge(t) ==
  /\ Looks(t)
  /\ ~IsOpen(t)
  /\ Advance(t)
  /\ UNCHANGED <<callVars, pc, dist, frontierVars, foundVars, levelVars, at, pruneVars, result>>

\* The compare-and-swap on dist[v], by the value it finds there.
Claims(t) == dist[Target(t)] = -1

Claim(t) ==
  dist' = IF Claims(t) THEN [dist EXCEPT ![Target(t)] = level + 1] ELSE dist

LeadsOn(t) == Claims(t) \/ dist[Target(t)] = level + 1

-------------------------------------------------------------------------------
(* The host between two launches of the search.                            *)

\* The positions of level k, by the index array ver.
Positions(ver, k) == ver[k] .. (ver[k + 1] - 1)

\* The sink has a distance: reach[] takes the place of dist[], only the sink marked.
PruneStart ==
  /\ dist[g.sink] # -1
  /\ pc' = "reach"
  /\ oldLevelVer' = levelVer'
  /\ dist' = [x \in Nodes(g) |-> IF x = g.sink THEN 1 ELSE 0]
  /\ lvl' = level
  /\ todo' = Positions(levelVer', level)
  /\ UNCHANGED <<frontier, nextFrontier, nextFrontierSize, threadVars, result>>

\* The frontiers change places and the kernel is launched again.
Relaunch ==
  /\ dist[g.sink] = -1
  /\ nextFrontierSize > 0
  /\ frontier' = nextFrontier
  /\ nextFrontier' = frontier
  /\ nextFrontierSize' = 0
  /\ at' = [t \in Nodes(g) |-> "scan"]
  /\ edge' = FirstSlots(nextFrontier, nextFrontierSize)
  /\ UNCHANGED <<pc, dist, oldLevelVer, lvl, todo, result>>

GiveUp ==
  /\ dist[g.sink] = -1
  /\ nextFrontierSize = 0
  /\ pc' = "return"
  /\ result' = 0
  /\ UNCHANGED <<dist, frontier, nextFrontier, nextFrontierSize, threadVars, oldLevelVer,
                 lvl, todo>>

LevelEnd ==
  /\ pc = "search"
  /\ frontierSize' = nextFrontierSize
  /\ level' = level + 1
  /\ levelVer' = [levelVer EXCEPT ![level + 1] = levelEdgeCount]
  /\ PruneStart \/ Relaunch \/ GiveUp
  /\ UNCHANGED <<callVars, levelEdges, levelEdgeCount, compactedLevelEdges, writeCount>>

-------------------------------------------------------------------------------
(* The backward pass and the compaction, one launch per level.             *)

MarkReach(i) ==
  /\ pc = "reach"
  /\ i \in todo
  /\ dist' = IF dist[g.dst[levelEdges[i]]] # 0
             THEN [dist EXCEPT ![g.src[levelEdges[i]]] = 1]
             ELSE dist
  /\ todo' = todo \ {i}
  /\ UNCHANGED <<callVars, pc, frontierVars, foundVars, levelVars, threadVars, oldLevelVer,
                 lvl, compactedLevelEdges, writeCount, result>>

MarkLevel ==
  /\ pc = "reach"
  /\ todo = {}
  /\ IF lvl > 0
     THEN /\ lvl' = lvl - 1
          /\ todo' = Positions(oldLevelVer, lvl - 1)
          /\ UNCHANGED <<pc, levelVer, writeCount>>
     ELSE /\ levelVer' = [levelVer EXCEPT ![0] = 0]
          /\ writeCount' = 0
          /\ todo' = Positions(oldLevelVer, 0)
          /\ pc' = "compact"
          /\ UNCHANGED lvl
  /\ UNCHANGED <<callVars, dist, frontierVars, foundVars, level, threadVars, oldLevelVer,
                 compactedLevelEdges, result>>

IsKept(a) == dist[g.src[a]] # 0 /\ dist[g.dst[a]] # 0

\* A position is taken by atomicAdd and belongs to this thread alone.
Compact(i) ==
  /\ pc = "compact"
  /\ i \in todo
  /\ IF IsKept(levelEdges[i])
     THEN /\ compactedLevelEdges' = [compactedLevelEdges EXCEPT ![writeCount] = levelEdges[i]]
          /\ writeCount' = writeCount + 1
     ELSE UNCHANGED <<compactedLevelEdges, writeCount>>
  /\ todo' = todo \ {i}
  /\ UNCHANGED <<callVars, pc, dist, frontierVars, foundVars, levelVars, threadVars,
                 oldLevelVer, lvl, result>>

CompactLevel ==
  /\ pc = "compact"
  /\ todo = {}
  /\ levelVer' = [levelVer EXCEPT ![lvl + 1] = writeCount]
  /\ IF lvl + 1 < level
     THEN /\ lvl' = lvl + 1
          /\ todo' = Positions(oldLevelVer, lvl + 1)
          /\ UNCHANGED <<pc, result>>
     ELSE /\ result' = IF writeCount > 0 /\ dist[g.source] # 0 THEN 1 ELSE 0
          /\ pc' = "return"
          /\ UNCHANGED <<lvl, todo>>
  /\ UNCHANGED <<callVars, dist, frontierVars, foundVars, level, threadVars, oldLevelVer,
                 compactedLevelEdges, writeCount>>

Prune ==
  \/ \E i \in todo : MarkReach(i) \/ Compact(i)
  \/ MarkLevel \/ CompactLevel

-------------------------------------------------------------------------------
(* Properties.                                                             *)

\* The level graph returned holds, level by level, exactly the edges of shortest
\* augmenting paths, each once, although reach[] is written over dist[]; 0 is
\* returned if and only if there is no such path.
LevelGraphIsExact ==
  pc = "return" =>
    /\ result = 1 <=> HasAugmentingPath(g, flow)
    /\ result = 1 =>
         LET d == Distances(g, flow)
             E == ShortestPathEdges(g, flow)
             edgesOf(k) == {compactedLevelEdges[i] : i \in Positions(levelVer, k)}
         IN  /\ level = d[g.sink]
             /\ levelVer[0] = 0
             /\ \A k \in 0 .. (level - 1) :
                  /\ edgesOf(k) = {a \in E : d[g.src[a]] = k}
                  /\ Cardinality(edgesOf(k)) = levelVer[k + 1] - levelVer[k]

===============================================================================
