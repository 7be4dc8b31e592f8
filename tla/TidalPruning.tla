------------------------------ MODULE TidalPruning -----------------------------
(***************************************************************************)
(* tidalFlowSeq_PRUNING.c: the blocking solver on a level graph from which *)
(* the edges that do not lead to the sink have been removed.               *)
(***************************************************************************)
EXTENDS TidalSeq

PruningLevelGraph ==
  \/ BuildStart \/ NextLevel \/ Dequeue \/ SkipEdge \/ RecordEdge \/ ScanEnd
  \/ PruneStart \/ MarkReach \/ MarkEnd \/ CompactEdge \/ CompactEnd

PruningTideCycle ==
  TideStart \/ HighTide \/ HighTideEnd \/ LowTide \/ LowTideEnd \/ Erosion \/ ErosionEnd

PruningDriver == Allocate \/ AddAndRepeat \/ Rebuild

PruningNext == PruningLevelGraph \/ PruningTideCycle \/ PruningDriver

\* The call is one thread that keeps running until it returns.
PruningSpec == Init /\ [][PruningNext]_vars /\ WF_vars(PruningNext)

===============================================================================
