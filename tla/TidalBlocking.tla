----------------------------- MODULE TidalBlocking -----------------------------
(***************************************************************************)
(* tidalFlowSeq_BLOCKING.c: tide cycles on one level graph until one of    *)
(* them sends nothing, then the next search.                               *)
(***************************************************************************)
EXTENDS TidalSeq

BlockingLevelGraph ==
  BuildStart \/ NextLevel \/ Dequeue \/ SkipEdge \/ RecordEdge \/ ScanEnd \/ BuildEnd

BlockingTideCycle ==
  TideStart \/ HighTide \/ HighTideEnd \/ LowTide \/ LowTideEnd \/ Erosion \/ ErosionEnd

BlockingDriver == Allocate \/ AddAndRepeat \/ Rebuild

BlockingNext == BlockingLevelGraph \/ BlockingTideCycle \/ BlockingDriver

\* The call is one thread that keeps running until it returns.
BlockingSpec == Init /\ [][BlockingNext]_vars /\ WF_vars(BlockingNext)

===============================================================================
