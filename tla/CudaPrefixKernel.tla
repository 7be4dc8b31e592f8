---------------------------- MODULE CudaPrefixKernel ---------------------------
(***************************************************************************)
(* buildLevelGraph of tidalFlowCUDAPrefix.cu: the threads of a block claim *)
(* nodes and count their finds, the block sums the counts and takes one    *)
(* range of each array for all of them, and the threads scan their slots   *)
(* a second time to fill it.  Blocks run at different speeds: one may be   *)
(* writing while another still claims.                                     *)
(***************************************************************************)
EXTENDS CudaLevelGraph

CONSTANT BLOCK_SIZE

ASSUME BlockAssumption == BLOCK_SIZE \in Nat \ {0}

VARIABLES
  edgeThatDiscoveredVertex,
  localFrontierCount, localLevelEdgeCount,
  frontierWrite, levelEdgeWrite,       \* the next position a thread writes to
  blockFrontierBase                    \* base of a block, -1 before it is taken

countVars == <<localFrontierCount, localLevelEdgeCount>>
writeVars == <<frontierWrite, levelEdgeWrite>>
blockVars == <<edgeThatDiscoveredVertex, countVars, writeVars, blockFrontierBase>>

vars == <<sharedVars, blockVars>>

BlockOf(t)      == t \div BLOCK_SIZE
Blocks          == {BlockOf(t) : t \in Launched}
ThreadsOf(b)    == {t \in Launched : BlockOf(t) = b}

\* What a launch starts with.
Cleared ==
  [edgeThatDiscoveredVertex |-> [x \in Nodes(g) |-> -1],
   zero                     |-> [t \in Nodes(g) |-> 0],
   blockFrontierBase        |-> [b \in Nodes(g) |-> -1]]

Init ==
  /\ CallInit
  /\ edgeThatDiscoveredVertex = Cleared.edgeThatDiscoveredVertex
  /\ localFrontierCount = Cleared.zero
  /\ localLevelEdgeCount = Cleared.zero
  /\ frontierWrite = Cleared.zero
  /\ levelEdgeWrite = Cleared.zero
  /\ blockFrontierBase = Cleared.blockFrontierBase

-------------------------------------------------------------------------------
(* First pass: claim and count.                                            *)

SkipFirst(t) == SkipEdge(t) /\ UNCHANGED blockVars

\* A claimed node still has to get its edge, in the next step of the thread.
TryClaim(t) ==
  /\ Looks(t)
  /\ IsOpen(t)
  /\ Claim(t)
  /\ IF Claims(t)
     THEN GoTo(t, "own") /\ UNCHANGED <<edge, localLevelEdgeCount>>
     ELSE /\ Advance(t)
          /\ localLevelEdgeCount' =
               [localLevelEdgeCount EXCEPT ![t] = IF LeadsOn(t) THEN @ + 1 ELSE @]
          /\ UNCHANGED at
  /\ UNCHANGED <<callVars, pc, frontierVars, foundVars, levelVars, pruneVars, result,
                 edgeThatDiscoveredVertex, localFrontierCount, writeVars, blockFrontierBase>>

Own(t) ==
  /\ at[t] = "own"
  /\ edgeThatDiscoveredVertex' = [edgeThatDiscoveredVertex EXCEPT ![Target(t)] = edge[t]]
  /\ localFrontierCount' = [localFrontierCount EXCEPT ![t] = @ + 1]
  /\ localLevelEdgeCount' = [localLevelEdgeCount EXCEPT ![t] = @ + 1]
  /\ Advance(t)
  /\ GoTo(t, "scan")
  /\ UNCHANGED <<callVars, pc, dist, frontierVars, foundVars, levelVars, pruneVars, result,
                 writeVars, blockFrontierBase>>

-------------------------------------------------------------------------------
(* The block: prefix sums and one atomicAdd per array.                     *)

Sum(count, S) == MapThenSumSet(LAMBDA t : count[t], S)

\* ExclusiveSum: what the threads of the block before t have found.
Offset(count, t) == Sum(count, {s \in ThreadsOf(BlockOf(t)) : s < t})

TakeFrontierRange(b) ==
  /\ \A t \in ThreadsOf(b) : HasScanned(t)
  /\ blockFrontierBase[b] = -1
  /\ blockFrontierBase' = [blockFrontierBase EXCEPT ![b] = nextFrontierSize]
  /\ nextFrontierSize' = nextFrontierSize + Sum(localFrontierCount, ThreadsOf(b))
  /\ UNCHANGED <<callVars, pc, dist, frontierVars, nextFrontier, levelEdges, levelEdgeCount,
                 levelVars, threadVars, pruneVars, result,
                 edgeThatDiscoveredVertex, countVars, writeVars>>

\* After __syncthreads() every thread knows where to write.
TakeEdgeRange(b) ==
  /\ \A t \in ThreadsOf(b) : HasScanned(t)
  /\ blockFrontierBase[b] # -1
  /\ levelEdgeCount' = levelEdgeCount + Sum(localLevelEdgeCount, ThreadsOf(b))
  /\ frontierWrite' = [t \in Nodes(g) |->
       IF t \in ThreadsOf(b)
       THEN blockFrontierBase[b] + Offset(localFrontierCount, t) ELSE frontierWrite[t]]
  /\ levelEdgeWrite' = [t \in Nodes(g) |->
       IF t \in ThreadsOf(b)
       THEN levelEdgeCount + Offset(localLevelEdgeCount, t) ELSE levelEdgeWrite[t]]
  /\ at' = [t \in Nodes(g) |-> IF t \in ThreadsOf(b) THEN "write" ELSE at[t]]
  /\ edge' = [t \in Nodes(g) |->
       IF t \in ThreadsOf(b) THEN g.ver[frontier[t]] ELSE edge[t]]
  /\ UNCHANGED <<callVars, pc, dist, frontierVars, nextFrontier, nextFrontierSize, levelEdges,
                 levelVars, pruneVars, result,
                 edgeThatDiscoveredVertex, countVars, blockFrontierBase>>

-------------------------------------------------------------------------------
(* Second pass: fill the ranges.                                           *)

IsDiscoverer_Any(t) == edgeThatDiscoveredVertex[Target(t)] # -1

\* Only the edge that claimed the node puts it into the frontier.
IsDiscoverer(t) == edgeThatDiscoveredVertex[Target(t)] = edge[t]

PlaceNode(t) ==
  /\ nextFrontier' = [nextFrontier EXCEPT ![frontierWrite[t]] = Target(t)]
  /\ frontierWrite' = [frontierWrite EXCEPT ![t] = @ + 1]

RecordEdge(t) ==
  /\ levelEdges' = [levelEdges EXCEPT ![levelEdgeWrite[t]] = edge[t]]
  /\ levelEdgeWrite' = [levelEdgeWrite EXCEPT ![t] = @ + 1]
  /\ IF IsDiscoverer(t) THEN PlaceNode(t) ELSE UNCHANGED <<nextFrontier, frontierWrite>>

\* dist[] of an open slot's head and the entry this thread may have written for it
\* no longer change, so they are read together.
Write(t) ==
  /\ at[t] = "write"
  /\ HasSlot(t)
  /\ IF IsOpen(t) /\ dist[Target(t)] = level + 1
     THEN RecordEdge(t)
     ELSE UNCHANGED <<nextFrontier, levelEdges, writeVars>>
  /\ Advance(t)
  /\ UNCHANGED <<callVars, pc, dist, frontierVars, nextFrontierSize, levelEdgeCount, levelVars,
                 at, pruneVars, result,
                 edgeThatDiscoveredVertex, countVars, blockFrontierBase>>

Thread(t) == SkipFirst(t) \/ TryClaim(t) \/ Own(t) \/ Write(t)

Block(b) == TakeFrontierRange(b) \/ TakeEdgeRange(b)

KernelEnd ==
  /\ \A t \in Launched : at[t] = "write" /\ ~HasSlot(t)
  /\ LevelEnd
  /\ edgeThatDiscoveredVertex' = Cleared.edgeThatDiscoveredVertex
  /\ localFrontierCount' = Cleared.zero
  /\ localLevelEdgeCount' = Cleared.zero
  /\ frontierWrite' = Cleared.zero
  /\ levelEdgeWrite' = Cleared.zero
  /\ blockFrontierBase' = Cleared.blockFrontierBase

Next ==
  \/ pc = "search" /\ \E t \in Launched : Thread(t)
  \/ pc = "search" /\ \E b \in Blocks : Block(b)
  \/ KernelEnd
  \/ Prune /\ UNCHANGED blockVars

\* The device keeps running some thread; which one is left to its scheduler.
Spec == Init /\ [][Next]_vars /\ WF_vars(Next)

===============================================================================
