------------------------------ MODULE OmpLevelGraph ----------------------------
(***************************************************************************)
(* buildLevelGraph of tidalFlowOpenMP.c: a breadth-first search in which   *)
(* the threads of a parallel region share the frontier, claim nodes by     *)
(* compare-and-swap, collect what they find in buffers of their own and    *)
(* copy it behind the finds of the threads before them; then the backward  *)
(* pass and the compaction, one parallel loop per level.                   *)
(*                                                                         *)
(* One behaviour is one call.  An action of a thread touches shared memory *)
(* once; an iteration of a loop after the search, which writes nothing an  *)
(* other iteration of the same loop reads, is one action.  Which thread    *)
(* runs which iterations of a loop, and when, is left open: a schedule of  *)
(* the loop into blocks, one after the other or handed out on demand, is   *)
(* among the choices.  The call is the first one, with flow[] all zero:    *)
(* with edges in both directions any residual graph is that of such a      *)
(* call.                                                                   *)
(***************************************************************************)
EXTENDS SolverCalls

CONSTANT NumThreads   \* omp_get_num_threads()

ASSUME ThreadsAssumption == NumThreads \in Nat \ {0}

Threads == 0 .. (NumThreads - 1)

VARIABLES
  g, flow,          \* the arguments of the call, read only
  pc,               \* the part of the call the master is in
  dist,             \* dist[]
  global,           \* global[]: the frontier, later oldLevelVer[]
  globalSize, newSize,
  levelEdges, levelEdgeCount, levelEdgeBase,
  level, levelVer,
  untaken,          \* frontier positions no thread has begun
  at,               \* where a thread is
  node, edge,       \* the node it scans and the slot it looks at
  localNodes, localLevelEdges,       \* what it has found
  foundNodes, foundLevelEdges,       \* how much, as published
  reach,            \* nodes marked by the backward pass
  lvl, todo,        \* the level of a parallel loop, its positions not done yet
  compactLevelEdges, writeCount,
  result            \* the returned value, -1 before

callVars   == <<g, flow, result>>
searchVars == <<global, globalSize, newSize, levelEdges, levelEdgeCount,
                levelEdgeBase, level, levelVer, untaken>>
threadVars == <<at, node, edge, localNodes, localLevelEdges>>
foundVars  == <<foundNodes, foundLevelEdges>>
pruneVars  == <<reach, lvl, todo, compactLevelEdges, writeCount>>

vars == <<callVars, pc, dist, searchVars, threadVars, foundVars, pruneVars>>

Init ==
  /\ g \in Cases
  /\ flow = [a \in Edges(g) |-> 0]
  /\ pc = "search"
  /\ dist = [x \in Nodes(g) |-> IF x = g.source THEN 0 ELSE -1]
  /\ global = [i \in Nodes(g) |-> IF i = 0 THEN g.source ELSE -1]
  /\ globalSize = 1
  /\ newSize = 0
  /\ levelEdges = [i \in Edges(g) |-> -1]
  /\ levelEdgeCount = 0
  /\ levelEdgeBase = 0
  /\ level = 0
  /\ levelVer = [k \in 0 .. g.nodeCount |-> 0]
  /\ untaken = {0}
  /\ at = [t \in Threads |-> "loop"]
  /\ node = [t \in Threads |-> g.source]
  /\ edge = [t \in Threads |-> 0]
  /\ localNodes = [t \in Threads |-> <<>>]
  /\ localLevelEdges = [t \in Threads |-> <<>>]
  /\ foundNodes = [t \in Threads |-> 0]
  /\ foundLevelEdges = [t \in Threads |-> 0]
  /\ reach = {}
  /\ lvl = 0
  /\ todo = {}
  /\ compactLevelEdges = [i \in Edges(g) |-> -1]
  /\ writeCount = 0
  /\ result = -1

-------------------------------------------------------------------------------
(* The search: one parallel region per level.                              *)

GoTo(t, label) == at' = [at EXCEPT ![t] = label]

LevelBeyond(t) == dist[node[t]] + 1
Target(t)    == g.dst[edge[t]]

\* An iteration of the omp for: the position may be any that is left, of the thread's own
\* block or not.
TakeNode(t, i) ==
  /\ at[t] = "loop"
  /\ i \in untaken
  /\ node' = [node EXCEPT ![t] = global[i]]
  /\ edge' = [edge EXCEPT ![t] = g.ver[global[i]]]
  /\ untaken' = untaken \ {i}
  /\ GoTo(t, "scan")
  /\ UNCHANGED <<callVars, pc, dist, global, globalSize, newSize, levelEdges,
                 levelEdgeCount, levelEdgeBase, level, levelVer,
                 localNodes, localLevelEdges, foundVars, pruneVars>>

Advance_NotSkipped(t, isLevelEdge) ==
  /\ edge' = IF isLevelEdge THEN [edge EXCEPT ![t] = @ + 1] ELSE edge
  /\ localLevelEdges' = IF isLevelEdge
                        THEN [localLevelEdges EXCEPT ![t] = Append(@, edge[t])]
                        ELSE localLevelEdges

\* On to the next slot, keeping this one if it leads to the next level.
Advance(t, isLevelEdge) ==
  /\ edge' = [edge EXCEPT ![t] = @ + 1]
  /\ localLevelEdges' = IF isLevelEdge
                        THEN [localLevelEdges EXCEPT ![t] = Append(@, edge[t])]
                        ELSE localLevelEdges

Scanning(t) == at[t] = "scan" /\ edge[t] < g.ver[node[t] + 1]

SkipEdge(t) ==
  /\ Scanning(t)
  /\ Residual(g, flow, edge[t]) <= 0
  /\ Advance(t, FALSE)
  /\ UNCHANGED <<callVars, pc, dist, searchVars, at, node, localNodes, foundVars, pruneVars>>

ReadDist(t) ==
  /\ Scanning(t)
  /\ Residual(g, flow, edge[t]) > 0
  /\ IF dist[Target(t)] = -1
     THEN GoTo(t, "claim") /\ UNCHANGED <<edge, localLevelEdges>>
     ELSE Advance(t, dist[Target(t)] = LevelBeyond(t)) /\ UNCHANGED at
  /\ UNCHANGED <<callVars, pc, dist, searchVars, node, localNodes, foundVars, pruneVars>>

IsUnclaimed_NotChecked(x) == x \in Nodes(g)

\* The compare-and-swap on dist[v] succeeds.
IsUnclaimed(x) == dist[x] = -1

Claim(t) ==
  /\ at[t] = "claim"
  /\ IF IsUnclaimed(Target(t))
     THEN /\ dist' = [dist EXCEPT ![Target(t)] = LevelBeyond(t)]
          /\ localNodes' = [localNodes EXCEPT ![t] = Append(@, Target(t))]
          /\ Advance(t, TRUE)
          /\ GoTo(t, "scan")
     ELSE /\ GoTo(t, "reread")
          /\ UNCHANGED <<dist, edge, localNodes, localLevelEdges>>
  /\ UNCHANGED <<callVars, pc, searchVars, node, foundVars, pruneVars>>

IsLevelEdge(t) == dist[Target(t)] = LevelBeyond(t)

Reread(t) ==
  /\ at[t] = "reread"
  /\ Advance(t, IsLevelEdge(t))
  /\ GoTo(t, "scan")
  /\ UNCHANGED <<callVars, pc, dist, searchVars, node, localNodes, foundVars, pruneVars>>

ScanEnd(t) ==
  /\ at[t] = "scan"
  /\ edge[t] = g.ver[node[t] + 1]
  /\ GoTo(t, "loop")
  /\ UNCHANGED <<callVars, pc, dist, searchVars, node, edge, localNodes,
                 localLevelEdges, foundVars, pruneVars>>

IsInLoop(t) == at[t] \notin {"barrier", "joined"}

\* There is no barrier behind the loop: a thread is through it when it has no position
\* left to take, also when the others have.
Publish(t) ==
  /\ at[t] = "loop"
  /\ untaken # {} => \E s \in Threads \ {t} : IsInLoop(s)
  /\ foundNodes' = [foundNodes EXCEPT ![t] = Len(localNodes[t])]
  /\ foundLevelEdges' = [foundLevelEdges EXCEPT ![t] = Len(localLevelEdges[t])]
  /\ GoTo(t, "barrier")
  /\ UNCHANGED <<callVars, pc, dist, searchVars, node, edge, localNodes,
                 localLevelEdges, pruneVars>>

HavePublished_NoBarrier == untaken = {}

HavePublished == \A s \in Threads : ~IsInLoop(s)

\* Where the level edges of this region start: levelEdgeCount as it was before the
\* last thread writes it.
Base == levelEdgeBase

Before_Inclusive(found, t) == SumOver(found, 0 .. t)

Before(found, t) == SumOver(found, 0 .. (t - 1))

\* array[] with the elements of s from position i on
Overwrite(array, i, s) ==
  [k \in DOMAIN array |-> IF k \in i .. (i + Len(s) - 1) THEN s[k - i + 1] ELSE array[k]]

Copy(t) ==
  /\ at[t] = "barrier"
  /\ HavePublished
  /\ LET offsetNodes      == Before(foundNodes, t)
         offsetLevelEdges == Base + Before(foundLevelEdges, t)
     IN  /\ global' = Overwrite(global, offsetNodes, localNodes[t])
         /\ levelEdges' = Overwrite(levelEdges, offsetLevelEdges, localLevelEdges[t])
         /\ IF t = NumThreads - 1
            THEN /\ newSize' = offsetNodes + Len(localNodes[t])
                 /\ levelEdgeCount' = offsetLevelEdges + Len(localLevelEdges[t])
            ELSE UNCHANGED <<newSize, levelEdgeCount>>
  /\ GoTo(t, "joined")
  /\ UNCHANGED <<callVars, pc, dist, globalSize, levelEdgeBase, level, levelVer, untaken,
                 node, edge, localNodes, localLevelEdges, foundVars, pruneVars>>

\* The buffers of a new region are empty.
Fresh(finds) == [t \in DOMAIN finds |-> <<>>]

\* The end of the region, and the start of the next one if there is one.
Join ==
  /\ pc = "search"
  /\ \A t \in Threads : at[t] = "joined"
  /\ globalSize' = newSize
  /\ newSize' = 0
  /\ level' = level + 1
  /\ levelVer' = [levelVer EXCEPT ![level + 1] = levelEdgeCount]
  /\ levelEdgeBase' = levelEdgeCount
  /\ untaken' = 0 .. (newSize - 1)
  /\ at' = [t \in Threads |-> "loop"]
  /\ localNodes' = Fresh(localNodes)
  /\ localLevelEdges' = Fresh(localLevelEdges)
  /\ \/ dist[g.sink] # -1 /\ pc' = "prune" /\ UNCHANGED result
     \/ dist[g.sink] = -1 /\ newSize # 0 /\ UNCHANGED <<pc, result>>
     \/ dist[g.sink] = -1 /\ newSize = 0 /\ pc' = "return" /\ result' = 0
  /\ UNCHANGED <<g, flow, dist, global, levelEdges, levelEdgeCount, node, edge,
                 foundVars, pruneVars>>

-------------------------------------------------------------------------------
(* The backward pass and the compaction.                                   *)

\* The positions of level k, by the index array ver.
Positions(ver, k) == ver[k] .. (ver[k + 1] - 1)

PruneStart ==
  /\ pc = "prune"
  /\ reach' = {g.sink}
  /\ lvl' = level - 1
  /\ todo' = Positions(levelVer, level - 1)
  /\ pc' = "reach"
  /\ UNCHANGED <<callVars, dist, searchVars, threadVars, foundVars,
                 compactLevelEdges, writeCount>>

MarkReach(i) ==
  /\ pc = "reach"
  /\ i \in todo
  /\ reach' = IF g.dst[levelEdges[i]] \in reach
              THEN reach \cup {g.src[levelEdges[i]]}
              ELSE reach
  /\ todo' = todo \ {i}
  /\ UNCHANGED <<callVars, pc, dist, searchVars, threadVars, foundVars, lvl,
                 compactLevelEdges, writeCount>>

MarkLevel ==
  /\ pc = "reach"
  /\ todo = {}
  /\ lvl > 0
  /\ lvl' = lvl - 1
  /\ todo' = Positions(levelVer, lvl - 1)
  /\ UNCHANGED <<callVars, pc, dist, searchVars, threadVars, foundVars, reach,
                 compactLevelEdges, writeCount>>

\* global[] is no longer needed and becomes oldLevelVer[].
MarkEnd ==
  /\ pc = "reach"
  /\ todo = {}
  /\ lvl = 0
  /\ global' = [k \in DOMAIN global |-> IF k <= level THEN levelVer[k] ELSE global[k]]
  /\ levelVer' = [levelVer EXCEPT ![0] = 0]
  /\ writeCount' = 0
  /\ todo' = Positions(global', 0)
  /\ pc' = "compact"
  /\ UNCHANGED <<callVars, dist, globalSize, newSize, levelEdges, levelEdgeCount,
                 levelEdgeBase, level, untaken, threadVars, foundVars, reach, lvl,
                 compactLevelEdges>>

IsKept(a) == g.src[a] \in reach /\ g.dst[a] \in reach

\* A position is captured with writeCount++ and belongs to this iteration alone.
Compact(i) ==
  /\ pc = "compact"
  /\ i \in todo
  /\ IF IsKept(levelEdges[i])
     THEN /\ compactLevelEdges' = [compactLevelEdges EXCEPT ![writeCount] = levelEdges[i]]
          /\ writeCount' = writeCount + 1
     ELSE UNCHANGED <<compactLevelEdges, writeCount>>
  /\ todo' = todo \ {i}
  /\ UNCHANGED <<callVars, pc, dist, searchVars, threadVars, foundVars, reach, lvl>>

CompactLevel ==
  /\ pc = "compact"
  /\ todo = {}
  /\ levelVer' = [levelVer EXCEPT ![lvl + 1] = writeCount]
  /\ IF lvl + 1 < level
     THEN /\ lvl' = lvl + 1
          /\ todo' = Positions(global, lvl + 1)
          /\ UNCHANGED <<pc, result>>
     ELSE /\ result' = IF writeCount > 0 /\ g.source \in reach THEN 1 ELSE 0
          /\ pc' = "return"
          /\ UNCHANGED <<lvl, todo>>
  /\ UNCHANGED <<g, flow, dist, global, globalSize, newSize, levelEdges, levelEdgeCount,
                 levelEdgeBase, level, untaken, threadVars, foundVars, reach,
                 compactLevelEdges, writeCount>>

-------------------------------------------------------------------------------
Thread(t) ==
  /\ pc = "search"
  /\ \/ \E i \in untaken : TakeNode(t, i)
     \/ SkipEdge(t) \/ ReadDist(t) \/ Claim(t) \/ Reread(t)
     \/ ScanEnd(t) \/ Publish(t) \/ Copy(t)

Iteration(i) == MarkReach(i) \/ Compact(i)

Next ==
  \/ \E t \in Threads : Thread(t)
  \/ \E i \in todo : Iteration(i)
  \/ Join \/ PruneStart \/ MarkLevel \/ MarkEnd \/ CompactLevel

\* Some thread keeps running; which one is left to the scheduler.
Spec == Init /\ [][Next]_vars /\ WF_vars(Next)

-------------------------------------------------------------------------------
(* Properties.                                                             *)

\* Between two regions the frontier holds every node of the level just finished,
\* each once, whatever thread claimed it and wherever it was copied.
FrontierIsLevel ==
  pc = "search" /\ untaken = 0 .. (globalSize - 1) /\ (\A t \in Threads : at[t] = "loop") =>
    LET frontier == {i \in Nodes(g) : i < globalSize}
        d        == Distances(g, flow)
    IN  /\ {global[i] : i \in frontier} = {x \in Nodes(g) : dist[x] = level}
        /\ \A i, j \in frontier : global[i] = global[j] => i = j
        /\ \A x \in Nodes(g) : dist[x] \in {-1, d[x]}

\* The level graph returned holds, level by level, exactly the edges of shortest
\* augmenting paths, each once; 0 is returned if and only if there is no such path.
LevelGraphIsExact ==
  pc = "return" =>
    /\ result = 1 <=> HasAugmentingPath(g, flow)
    /\ result = 1 =>
         LET d == Distances(g, flow)
             E == ShortestPathEdges(g, flow)
             edgesOf(k) == {compactLevelEdges[i] : i \in Positions(levelVer, k)}
         IN  /\ level = d[g.sink]
             /\ levelVer[0] = 0
             /\ \A k \in 0 .. (level - 1) :
                  /\ edgesOf(k) = {a \in E : d[g.src[a]] = k}
                  /\ Cardinality(edgesOf(k)) = levelVer[k + 1] - levelVer[k]

\* Every buffer is as long as what is written to it, also global[] when it is
\* used again for an index array of level + 1 entries; and what malloc left in
\* them is never taken for a node or an edge.
BuffersSuffice ==
  /\ globalSize <= g.nodeCount
  /\ pc = "search" => \A i \in 0 .. (globalSize - 1) : global[i] \in Nodes(g)
  /\ \A i \in 0 .. (levelVer[level] - 1) : levelEdges[i] \in Edges(g)
  /\ levelEdgeCount <= g.edgeCount
  /\ level <= g.nodeCount
  /\ pc \in {"prune", "reach", "compact"} => level + 1 <= g.nodeCount
  /\ \A t \in Threads : /\ Len(localNodes[t]) <= g.nodeCount
                         /\ Len(localLevelEdges[t]) <= g.edgeCount
  /\ pc = "search" /\ HavePublished =>
       \A t \in Threads :
         /\ Before(foundNodes, t) + Len(localNodes[t]) <= g.nodeCount
         /\ Base + Before(foundLevelEdges, t) + Len(localLevelEdges[t]) <= g.edgeCount

\* The search and the loops after it end, whichever threads the scheduler favours.
BuilderReturns == <>(pc = "return")

===============================================================================
