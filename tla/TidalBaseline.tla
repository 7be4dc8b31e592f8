----------------------------- MODULE TidalBaseline -----------------------------
(***************************************************************************)
(* tidalFlowSeq_BASELINE.c: one search, one tide cycle, search again.      *)
(***************************************************************************)
EXTENDS TidalSeq

BaselineLevelGraph ==
  BuildStart \/ NextLevel \/ Dequeue \/ SkipEdge \/ RecordEdge \/ ScanEnd \/ BuildEnd

BaselineTideCycle ==
  TideStart \/ HighTide \/ HighTideEnd \/ LowTide \/ LowTideEnd \/ Erosion \/ ErosionEnd

BaselineDriver == Allocate \/ AddAndRebuild

BaselineNext == BaselineLevelGraph \/ BaselineTideCycle \/ BaselineDriver

\* The call is one thread that keeps running until it returns.
BaselineSpec == Init /\ [][BaselineNext]_vars /\ WF_vars(BaselineNext)

===============================================================================
