----------------------------- MODULE TidalCombined -----------------------------
(***************************************************************************)
(* tidalFlowSeq_COMBINED.c: the high tide rises during the search, the     *)
(* level graph is pruned together with its promises, and one low tide and  *)
(* erosion follow each search.                                             *)
(***************************************************************************)
EXTENDS TidalSeq

\* The two memsets and h[source] at the top of the builder.
StartWithTide ==
  /\ Start
  /\ h' = [x \in Nodes(g) |-> IF x = g.source THEN LLongMax ELSE 0]

\* A level edge gets its promise in the moment it is recorded.
RecordWithTide ==
  /\ Record
  /\ p' = [p EXCEPT ![Len(levelEdges) + 1] = Promise(e)]
  /\ h' = [h EXCEPT ![g.dst[e]] = @ + Promise(e)]

CompactWithPromise_LeftBehind == Compact /\ p' = p

\* The promise of a kept edge moves with it.
CompactWithPromise ==
  /\ Compact
  /\ p' = IF IsKept(levelEdges[idx]) THEN [p EXCEPT ![write + 1] = p[idx]] ELSE p

BuildLevelGraphAndHighTide ==
  \/ StartWithTide \/ NextLevel \/ Dequeue \/ SkipEdge \/ RecordWithTide \/ ScanEnd
  \/ PruneStart \/ MarkReach \/ MarkEnd \/ CompactWithPromise \/ CompactEnd

\* Straight into the low tide, or return 0 if no tide got to the sink.
FinishStart ==
  /\ pc = "tide"
  /\ l' = [x \in Nodes(g) |-> IF x = g.sink THEN h[g.sink] ELSE 0]
  /\ IF h[g.sink] = 0
     THEN sent' = 0 /\ pc' = "returned"
     ELSE pc' = "low" /\ UNCHANGED sent
  /\ idx' = Len(levelEdges)
  /\ UNCHANGED <<callVars, flow, searchVars, levelEdges, pruneVars, h, p>>

FinishTideCycle == FinishStart \/ LowTide \/ LowTideEnd \/ Erosion \/ ErosionEnd

CombinedDriver == Allocate \/ AddAndRebuild

CombinedNext == BuildLevelGraphAndHighTide \/ FinishTideCycle \/ CombinedDriver

\* The call is one thread that keeps running until it returns.
CombinedSpec == Init /\ [][CombinedNext]_vars /\ WF_vars(CombinedNext)

-------------------------------------------------------------------------------

\* The promises made while the search was still running are those a high tide
\* over the finished, pruned level graph would make, although h of a node was
\* read before the search was over and edges were removed afterwards.
HighTideIsCurrent ==
  pc = "tide" =>
    /\ \A i \in DOMAIN levelEdges : p[i] = Promise(levelEdges[i])
    /\ \A x \in {g.dst[a] : a \in LevelEdgeSet} :
          h[x] = SumOver(p, {i \in DOMAIN levelEdges : g.dst[levelEdges[i]] = x})

-------------------------------------------------------------------------------
(* What has to be added to SolverInv: here the promises are made during    *)
(* the search and live through the pruning.                                *)

\* Whoever leads to a marked node is marked, and what has been kept is between
\* marked nodes.
PrunedInv ==
  /\ pc = "compact" => /\ \A i \in 1 .. write : IsKept(levelEdges[i])
                       /\ \A i \in idx .. Len(levelEdges) :
                             g.dst[levelEdges[i]] \in reach => g.src[levelEdges[i]] \in reach
  /\ pc = "tide"    => \A i \in DOMAIN levelEdges : IsKept(levelEdges[i])
  /\ pc \in {"compact", "tide"} => g.source \in reach /\ g.sink \in reach

\* From the moment they are made until the low tide uses them the promises are
\* current; once edges are removed, the tides of the marked nodes only.
CurrentInv ==
  /\ pc \in {"bfs", "scan", "reach"} => Risen(Live, Nodes(g))
  /\ pc \in {"compact", "tide"}      => Risen(Live, reach)

CombinedInv == SolverInv /\ PrunedInv /\ CurrentInv

===============================================================================
