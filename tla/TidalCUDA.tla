------------------------------- MODULE TidalCUDA -------------------------------
(***************************************************************************)
(* tidalFlowWithBlockSize of tidalFlowCUDA.cu and tidalFlowImpl of         *)
(* tidalFlowCUDAPrefix.cu: the tide cycles of TidalOpenMP with a kernel    *)
(* launch in the place of each parallel loop.                              *)
(*                                                                         *)
(* A worker is a device thread and a barrier the end of a launch.  flow[]  *)
(* is d_flow, which is never copied back to the graph; LLongMax stands for *)
(* ULLONG_MAX, the high tide of the source; p[] is indexed by edge.  The   *)
(* last store of an erosion thread, p[e] = commitTotal, is left out: the   *)
(* next high tide overwrites p[e], and before the next search the array is *)
(* only stale contents, which CudaLevelGraph starts with.                  *)
(*                                                                         *)
(* What differs is the end of the low tide, where the host returns before  *)
(* the erosion if nothing has come to the source.                          *)
(***************************************************************************)
EXTENDS TidalOpenMP

\* A block size is supported or it is not; -1 is returned then, as when an
\* allocation fails in TidalOpenMP.
CheckBlockSize == Allocate

CudaHighTide(e) == HighTide(e)

CudaLowTide(e) ==
  \/ ReadHead(e) \/ ReadTail(e)
  \/ CasHead(e) \/ CasTail(e) \/ Restore(e)

CudaErosion(e) == ReadWaiting(e) \/ CasWaiting(e) \/ Deliver(e)

CudaThread(e) == CudaHighTide(e) \/ CudaLowTide(e) \/ CudaErosion(e)

CudaLowTideEnd ==
  IF l[g.source] <= 0
  THEN /\ pc = "low"
       /\ AtBarrier
       /\ level = 1
       /\ sent' = 0
       /\ pc' = "returned"
       /\ UNCHANGED <<callVars, flow, graphVars, level, work, localVars, tideVars>>
  ELSE LowTideEnd

\* The launches of a tide cycle and the copies between them.
CudaTideCycle ==
  \/ TideStart \/ HighTideLevel \/ HighTideEnd
  \/ LowTideLevel \/ CudaLowTideEnd
  \/ ErosionLevel \/ ErosionEnd

CudaMaster ==
  \/ CheckBlockSize \/ BuildLevelGraph
  \/ CudaTideCycle
  \/ AddAndRepeat \/ Rebuild

CudaNext == CudaMaster \/ \E e \in Edges(g) : CudaThread(e)

CudaSpec == Init /\ [][CudaNext]_vars /\ WF_vars(CudaNext)

-------------------------------------------------------------------------------
(* The property of TidalOpenMP to look at is LowTideReachesSource: by it   *)
(* the early return is never taken.  If it were, the next search would     *)
(* find the same level graph again and the call would not end.             *)

===============================================================================
