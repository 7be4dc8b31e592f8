---------------------------- MODULE CudaAtomicKernel ---------------------------
(***************************************************************************)
(* buildLevelGraph of tidalFlowCUDA.cu: a thread of the search claims a    *)
(* node by compare-and-swap and takes a position for each find by          *)
(* atomicAdd, so both arrays fill up in the order of these additions.      *)
(***************************************************************************)
EXTENDS CudaLevelGraph

vars == sharedVars

Init == CallInit

TryClaim(t) ==
  /\ Looks(t)
  /\ IsOpen(t)
  /\ Claim(t)
  /\ \/ Claims(t) /\ GoTo(t, "place") /\ UNCHANGED edge
     \/ ~Claims(t) /\ LeadsOn(t) /\ GoTo(t, "record") /\ UNCHANGED edge
     \/ ~LeadsOn(t) /\ Advance(t) /\ UNCHANGED at
  /\ UNCHANGED <<callVars, pc, frontierVars, foundVars, levelVars, pruneVars, result>>

PlaceNode(t) ==
  /\ at[t] = "place"
  /\ nextFrontier' = [nextFrontier EXCEPT ![nextFrontierSize] = Target(t)]
  /\ nextFrontierSize' = nextFrontierSize + 1
  /\ GoTo(t, "record")
  /\ UNCHANGED <<callVars, pc, dist, frontierVars, levelEdges, levelEdgeCount, levelVars,
                 edge, pruneVars, result>>

RecordEdge(t) ==
  /\ at[t] = "record"
  /\ levelEdges' = [levelEdges EXCEPT ![levelEdgeCount] = edge[t]]
  /\ levelEdgeCount' = levelEdgeCount + 1
  /\ GoTo(t, "scan")
  /\ Advance(t)
  /\ UNCHANGED <<callVars, pc, dist, frontierVars, nextFrontier, nextFrontierSize, levelVars,
                 pruneVars, result>>

Thread(t) ==
  /\ pc = "search"
  /\ SkipEdge(t) \/ TryClaim(t) \/ PlaceNode(t) \/ RecordEdge(t)

KernelEnd == (\A t \in Launched : HasScanned(t)) /\ LevelEnd

Next == (\E t \in Launched : Thread(t)) \/ KernelEnd \/ Prune

\* The device keeps running some thread; which one is left to its scheduler.
Spec == Init /\ [][Next]_vars /\ WF_vars(Next)

===============================================================================
