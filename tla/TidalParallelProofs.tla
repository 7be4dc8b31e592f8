------------------------- MODULE TidalParallelProofs ---------------------------
(***************************************************************************)
(* What holds of every run of tidalFlowOpenMP.c and of the CUDA host, on   *)
(* every network and under every interleaving of the workers of a level.   *)
(*                                                                         *)
(* First the flow: no worker ever spoils it, and the driver stops with a   *)
(* minimum cut.                                                            *)
(*                                                                         *)
(* Then the amounts: whatever the workers of a level do to each other, no  *)
(* demand and no water is lost or doubled, so a tide cycle replaces one    *)
(* flow by another of larger value, and one that sends nothing has found   *)
(* every path of the level graph blocked.                                  *)
(*                                                                         *)
(* At the end, TidalCUDA: a high tide which reached the sink is answered   *)
(* at the source; so the early return of the CUDA host is no behaviour of  *)
(* its own, every step of the CUDA solver is one of the OpenMP solver, and *)
(* what was proved of that one holds of this one.                          *)
(***************************************************************************)
EXTENDS TidalCUDA, FlowNetworkProofs, FiniteSetTheorems, TLAPS

\* What IsCase says of single slots.
LEMMA SlotFacts ==
  ASSUME IsCase(g), NEW a \in Edges(g)
  PROVE  /\ g.src[a] \in Nodes(g)
         /\ g.dst[a] \in Nodes(g)
         /\ g.rev[a] \in Edges(g)
         /\ g.rev[a] # a
         /\ g.rev[g.rev[a]] = a
         /\ g.src[g.rev[a]] = g.dst[a]
         /\ g.dst[g.rev[a]] = g.src[a]
         /\ g.capacity[a] \in Nat
         /\ g.capacity[a] + g.capacity[g.rev[a]] <= IntMax
<1>1. g.src[a] \in Nodes(g) /\ g.dst[a] \in Nodes(g) /\ g.capacity[a] \in 0 .. IntMax
  BY DEF IsCase
<1>2. /\ g.rev[a] \in Edges(g) /\ g.rev[a] # a /\ g.rev[g.rev[a]] = a
      /\ g.src[g.rev[a]] = g.dst[a] /\ g.dst[g.rev[a]] = g.src[a]
  BY DEF IsCase, IsPaired
<1>3. g.capacity[a] + g.capacity[g.rev[a]] <= IntMax
  BY DEF IsCase, FitsInt
<1>4. g.capacity[a] \in Nat
  BY <1>1, IntAssumption, WidthsAssumption
<1> QED
  BY <1>1, <1>2, <1>3, <1>4

\* A feasible flow leaves a natural number of every capacity.
LEMMA ResidualFacts ==
  ASSUME TypeOK, FlowIsFeasible, NEW a \in Edges(g)
  PROVE  /\ flow[a] \in Int
         /\ flow[g.rev[a]] = -flow[a]
         /\ Residual(g, flow, a) \in Nat
         /\ Residual(g, flow, a) = g.capacity[a] - flow[a]
<1>1. IsCase(g) /\ flow[a] \in Int
  BY DEF TypeOK
<1>2. flow[a] <= g.capacity[a] /\ flow[g.rev[a]] = -flow[a]
  BY DEF FlowIsFeasible, CapacityOK, SkewSymmetry
<1>3. g.capacity[a] \in Nat
  BY <1>1, SlotFacts
<1> QED
  BY <1>1, <1>2, <1>3 DEF Residual

\* An edge of the level graph leads from its level to the next, so its reverse is
\* not in the level graph.
LEMMA LevelEdgeFacts ==
  ASSUME TypeOK, LevelInv, pc \in Phase, NEW a \in LevelEdgeSet
  PROVE  /\ a \in Edges(g)
         /\ \E k \in DOMAIN levels : a \in levels[k]
         /\ dist[g.src[a]] \in Nat
         /\ dist[g.dst[a]] = dist[g.src[a]] + 1
         /\ g.rev[a] \notin LevelEdgeSet
<1>1. ASSUME NEW b \in LevelEdgeSet
      PROVE  /\ b \in Edges(g)
             /\ \E k \in DOMAIN levels : b \in levels[k]
             /\ dist[g.src[b]] \in Nat
             /\ dist[g.dst[b]] = dist[g.src[b]] + 1
  <2>1. PICK k \in DOMAIN levels : b \in levels[k]
    BY DEF LevelEdgeSet
  <2>2. levels[k] \in SUBSET Edges(g) /\ k \in Nat /\ k >= 1
    BY DEF TypeOK
  <2>3. dist[g.src[b]] = k - 1 /\ dist[g.dst[b]] = k
    BY <2>1 DEF LevelInv
  <2> QED
    BY <2>1, <2>2, <2>3
<1>2. a \in Edges(g) /\ IsCase(g)
  BY <1>1 DEF TypeOK
<1>3. g.src[g.rev[a]] = g.dst[a] /\ g.dst[g.rev[a]] = g.src[a]
  BY <1>2, SlotFacts
<1>4. g.rev[a] \notin LevelEdgeSet
  <2> SUFFICES ASSUME g.rev[a] \in LevelEdgeSet PROVE FALSE
    OBVIOUS
  <2>1. /\ dist[g.src[a]] \in Nat
        /\ dist[g.dst[a]] = dist[g.src[a]] + 1
    BY <1>1
  <2>2. dist[g.dst[g.rev[a]]] = dist[g.src[g.rev[a]]] + 1
    BY <1>1
  <2> QED
    BY <1>3, <2>1, <2>2
<1> QED
  BY <1>1, <1>4

\* A distance is a number or -1, and only the source has distance 0.
LEMMA SinkDistance ==
  ASSUME NEW c, IsCase(c), NEW f
  PROVE  /\ Distances(c, f) \in [Nodes(c) -> Nat \cup {-1}]
         /\ Distances(c, f)[c.sink] # -1 => Distances(c, f)[c.sink] > 0
  BY DistanceFacts DEF IsCase

-------------------------------------------------------------------------------
(* Steps of the master.                                                    *)

LEMMA InitEstablishesInvariant == Init => IInv
<1> SUFFICES ASSUME Init PROVE IInv
  OBVIOUS
<1>1. IsCase(g)
  BY CasesAssumption DEF Init
<1>2. TypeOK
  <2>1. levels \in Seq(SUBSET Edges(g))
    BY DEF Init
  <2> QED
    BY <1>1, <2>1 DEF Init, TypeOK, Labels, Phase, InLoops, WorkerLabels, Zero
<1>3. FlowIsFeasible
  <2>1. \A a \in Edges(g) : flow[a] = 0 /\ flow[g.rev[a]] = 0 /\ g.capacity[a] \in Nat
    BY <1>1, SlotFacts DEF Init, Zero
  <2> QED
    BY <2>1 DEF FlowIsFeasible, CapacityOK, SkewSymmetry
<1> QED
  BY <1>2, <1>3 DEF Init, IInv, LevelInv, WorkInv, AttemptInv, PromiseInv, Phase, InLoops

LEMMA AllocateKeeps == IInv /\ Allocate => IInv'
<1> SUFFICES ASSUME IInv, Allocate PROVE IInv'
  OBVIOUS
<1>1. /\ pc' \in {"build", "failed"} /\ maxFlow' \in {maxFlow, -1}
      /\ UNCHANGED <<g, flow, dist, levels, level, work, remaining, seen, seenTail, h, p, l, sent>>
  BY DEF Allocate, graphVars, localVars, tideVars
<1>2. TypeOK'
  BY <1>1 DEF IInv, TypeOK, Labels, Phase, InLoops
<1>3. FlowIsFeasible'
  BY <1>1 DEF IInv, FlowIsFeasible, CapacityOK, SkewSymmetry
<1> QED
  BY <1>1, <1>2, <1>3 DEF IInv, LevelInv, WorkInv, AttemptInv, PromiseInv, Phase, InLoops

LEMMA BuildLevelGraphKeeps == IInv /\ BuildLevelGraph => IInv'
<1> SUFFICES ASSUME IInv, BuildLevelGraph PROVE IInv'
  OBVIOUS
<1> DEFINE d == Distances(g, flow)
<1> DEFINE E == LevelEdgesAt(g, flow, d)
<1>1. /\ dist' = d /\ pc' \in {"done", "tide"}
      /\ pc' = "tide" =>
           /\ d[g.sink] # -1
           /\ levels' = [k \in 1 .. d[g.sink] |->
                           {a \in Between(g, E, CoReach(g, E)) : d[g.src[a]] = k - 1}]
      /\ pc' = "done" => levels' = levels
      /\ UNCHANGED <<g, maxFlow, flow, level, work, remaining, seen, seenTail, h, p, l, sent>>
  BY DEF BuildLevelGraph, callVars, localVars, tideVars
<1>2. IsCase(g)
  BY DEF IInv, TypeOK
<1>3. /\ d \in [Nodes(g) -> Nat \cup {-1}]
      /\ d[g.sink] # -1 => d[g.sink] \in Nat \ {0}
  <2>1. d \in [Nodes(g) -> Nat \cup {-1}] /\ (d[g.sink] # -1 => d[g.sink] > 0)
    BY <1>2, SinkDistance
  <2>2. g.sink \in Nodes(g)
    BY <1>2 DEF IsCase
  <2> QED
    BY <2>1, <2>2
<1>4. \A a \in Between(g, E, CoReach(g, E)) :
         /\ a \in Edges(g)
         /\ d[g.dst[a]] = d[g.src[a]] + 1
  BY DEF Between, LevelEdgesAt, ResidualEdges
<1> HIDE DEF d, E
<1>5. CASE pc' = "done"
  <2>1. TypeOK'
    BY <1>1, <1>3, <1>5 DEF IInv, TypeOK, Labels, Phase, InLoops
  <2>2. FlowIsFeasible'
    BY <1>1 DEF IInv, FlowIsFeasible, CapacityOK, SkewSymmetry
  <2> QED
    BY <1>5, <2>1, <2>2 DEF IInv, LevelInv, WorkInv, AttemptInv, PromiseInv, Phase, InLoops
<1>6. CASE pc' = "tide"
  <2> DEFINE n == d[g.sink]
  <2> DEFINE onLevel(k) == {a \in Between(g, E, CoReach(g, E)) : d[g.src[a]] = k - 1}
  <2>1. /\ n \in Nat \ {0}
        /\ levels' = [k \in 1 .. n |-> onLevel(k)]
        /\ \A k \in 1 .. n : onLevel(k) \in SUBSET Edges(g)
    BY <1>1, <1>3, <1>4, <1>6
  <2> HIDE DEF onLevel, n
  <2>2. levels' \in Seq(SUBSET Edges(g)) /\ Len(levels') = n /\ DOMAIN levels' = 1 .. n
    BY <2>1
  <2>3. TypeOK'
    BY <1>1, <1>3, <1>6, <2>1, <2>2 DEF IInv, TypeOK, Labels, Phase, InLoops
  <2>4. FlowIsFeasible'
    BY <1>1 DEF IInv, FlowIsFeasible, CapacityOK, SkewSymmetry
  <2>5. LevelInv'
    <3> SUFFICES ASSUME NEW k \in 1 .. n, NEW a \in levels'[k]
                 PROVE  dist'[g.src[a]] = k - 1 /\ dist'[g.dst[a]] = k
      BY <1>1, <2>2 DEF LevelInv
    <3>1. a \in onLevel(k)
      BY <2>1
    <3>2. d[g.src[a]] = k - 1 /\ d[g.dst[a]] = d[g.src[a]] + 1
      BY <1>4, <3>1 DEF onLevel
    <3> QED
      BY <1>1, <2>1, <3>2
  <2> QED
    BY <1>6, <2>3, <2>4, <2>5 DEF IInv, WorkInv, AttemptInv, PromiseInv, InLoops
<1> QED
  BY <1>1, <1>5, <1>6

\* Starting a loop over level k leaves everything but the workers as it is.
LEMMA BeginFacts ==
  ASSUME TypeOK, NEW k, Begin(k), UNCHANGED <<g, levels>>
  PROVE  /\ level' = k
         /\ work' \in [Edges(g) -> WorkerLabels]
         /\ \A a \in Edges(g) : work'[a] # "idle" => a \in levels[k]
         /\ \A a \in Edges(g) : work'[a] \in {"idle", "loop"}
BY DEF Begin, WorkerLabels

LEMMA TideStartKeeps == IInv /\ TideStart => IInv'
<1> SUFFICES ASSUME IInv, TideStart PROVE IInv'
  OBVIOUS
<1>1. /\ pc = "tide" /\ pc' = "high" /\ Begin(1)
      /\ h' = [x \in Nodes(g) |-> IF x = g.source THEN LLongMax ELSE 0]
      /\ UNCHANGED <<g, maxFlow, flow, dist, levels, remaining, seen, seenTail, p, l, sent>>
  BY DEF TideStart, callVars, graphVars, localVars
<1>2. TypeOK /\ LevelInv /\ Len(levels) \in Nat /\ Len(levels) > 0
  BY <1>1 DEF IInv, TypeOK, Phase
<1>3. /\ level' = 1 /\ work' \in [Edges(g) -> WorkerLabels]
      /\ \A a \in Edges(g) : work'[a] # "idle" => a \in levels[1]
      /\ \A a \in Edges(g) : work'[a] \in {"idle", "loop"}
  BY <1>1, <1>2, BeginFacts
<1>4. h' \in [Nodes(g) -> Nat]
  BY <1>1, IntAssumption, WidthsAssumption
<1>5. TypeOK'
  BY <1>1, <1>2, <1>3, <1>4 DEF TypeOK, Labels, Phase, InLoops
<1>6. FlowIsFeasible'
  BY <1>1 DEF IInv, FlowIsFeasible, CapacityOK, SkewSymmetry
<1>7. LevelInv' /\ WorkInv' /\ AttemptInv'
  BY <1>1, <1>2, <1>3 DEF LevelInv, WorkInv, AttemptInv, Phase
<1>8. PromiseInv'
  <2> SUFFICES ASSUME NEW k \in 1 .. 1, NEW a \in levels[k] PROVE ~(k < 1 \/ work'[a] = "finished")
    BY <1>1, <1>3 DEF PromiseInv
  <2>1. a \in Edges(g)
    BY <1>2 DEF TypeOK
  <2> QED
    BY <1>3, <2>1
<1> QED
  BY <1>5, <1>6, <1>7, <1>8 DEF IInv

LEMMA HighTideLevelKeeps == IInv /\ HighTideLevel => IInv'
<1> SUFFICES ASSUME IInv, HighTideLevel PROVE IInv'
  OBVIOUS
<1>1. /\ pc = "high" /\ pc' = pc /\ AtBarrier /\ level < Len(levels) /\ Begin(level + 1)
      /\ UNCHANGED <<g, maxFlow, flow, dist, levels, remaining, seen, seenTail, h, p, l, sent>>
  BY DEF HighTideLevel, callVars, graphVars, localVars, tideVars
<1>2. TypeOK /\ LevelInv /\ PromiseInv /\ level \in Nat /\ level >= 1 /\ Len(levels) \in Nat
  BY <1>1 DEF IInv, TypeOK, InLoops
<1>3. /\ level' = level + 1 /\ work' \in [Edges(g) -> WorkerLabels]
      /\ \A a \in Edges(g) : work'[a] # "idle" => a \in levels[level + 1]
      /\ \A a \in Edges(g) : work'[a] \in {"idle", "loop"}
  BY <1>1, <1>2, BeginFacts
<1>4. TypeOK'
  BY <1>1, <1>2, <1>3 DEF TypeOK, Labels, Phase, InLoops
<1>5. FlowIsFeasible'
  BY <1>1 DEF IInv, FlowIsFeasible, CapacityOK, SkewSymmetry
<1>6. LevelInv' /\ WorkInv' /\ AttemptInv'
  BY <1>1, <1>2, <1>3 DEF LevelInv, WorkInv, AttemptInv
<1>7. PromiseInv'
  <2> SUFFICES ASSUME NEW k \in 1 .. level + 1, NEW a \in levels[k],
                      k < level + 1 \/ work'[a] = "finished"
               PROVE  p[a] <= Residual(g, flow, a)
    BY <1>1, <1>3 DEF PromiseInv, Residual
  <2>1. a \in Edges(g)
    BY <1>1, <1>2 DEF TypeOK
  <2>2. k \in 1 .. level
    BY <1>2, <1>3, <2>1
  <2>3. k < level \/ work[a] = "finished"
    BY <1>1, <1>2, <2>2 DEF AtBarrier
  <2> QED
    BY <1>1, <1>2, <2>2, <2>3 DEF PromiseInv
<1> QED
  BY <1>4, <1>5, <1>6, <1>7 DEF IInv

LEMMA HighTideEndKeeps == IInv /\ HighTideEnd => IInv'
<1> SUFFICES ASSUME IInv, HighTideEnd PROVE IInv'
  OBVIOUS
<1>1. /\ pc = "high" /\ AtBarrier /\ level = Len(levels)
      /\ UNCHANGED <<g, maxFlow, flow, dist, levels, seen, seenTail, h, p>>
  BY DEF HighTideEnd, callVars, graphVars
<1>2. /\ TypeOK /\ LevelInv /\ PromiseInv /\ g.sink \in Nodes(g)
      /\ Len(levels) \in Nat /\ Len(levels) > 0 /\ levels \in Seq(SUBSET Edges(g))
  BY <1>1 DEF IInv, TypeOK, IsCase, Phase
<1>3. FlowIsFeasible'
  BY <1>1 DEF IInv, FlowIsFeasible, CapacityOK, SkewSymmetry
<1>4. CASE h[g.sink] = 0
  <2>1. pc' = "returned" /\ sent' = 0 /\ UNCHANGED <<level, work, remaining, l>>
    BY <1>4 DEF HighTideEnd
  <2>2. TypeOK'
    BY <1>1, <1>2, <2>1 DEF TypeOK, Labels, Phase, InLoops
  <2> QED
    BY <1>1, <1>2, <1>3, <2>1, <2>2
    DEF IInv, LevelInv, WorkInv, AttemptInv, PromiseInv, Phase, InLoops
<1>5. CASE h[g.sink] # 0
  <2>1. /\ pc' = "low" /\ sent' = sent /\ remaining' = p /\ Begin(Len(levels))
        /\ l' = [x \in Nodes(g) |-> IF x = g.sink THEN h[g.sink] ELSE 0]
    BY <1>5 DEF HighTideEnd
  <2>2. /\ level' = Len(levels) /\ work' \in [Edges(g) -> WorkerLabels]
        /\ \A a \in Edges(g) : work'[a] # "idle" => a \in levels[Len(levels)]
        /\ \A a \in Edges(g) : work'[a] \in {"idle", "loop"}
    BY <1>1, <1>2, <2>1, BeginFacts
  <2>3. l' \in [Nodes(g) -> Nat]
    <3>1. h[g.sink] \in Nat
      BY <1>2 DEF TypeOK
    <3> QED
      BY <2>1, <3>1
  <2>4. TypeOK'
    BY <1>1, <1>2, <2>1, <2>2, <2>3 DEF TypeOK, Labels, Phase, InLoops
  <2>5. LevelInv' /\ WorkInv' /\ AttemptInv'
    BY <1>1, <1>2, <2>1, <2>2 DEF LevelInv, WorkInv, AttemptInv, Phase
  <2>6. PromiseInv'
    <3> SUFFICES ASSUME NEW a \in LevelEdgeSet
                 PROVE  p[a] \in Nat /\ p[a] <= Residual(g, flow, a)
      BY <1>1, <2>1 DEF PromiseInv, Residual, LevelEdgeSet
    <3>1. PICK k \in DOMAIN levels : a \in levels[k]
      BY DEF LevelEdgeSet
    <3>2. k \in 1 .. level /\ (k < level \/ k = level) /\ a \in Edges(g)
      BY <1>1, <1>2, <3>1
    <3>3. k < level \/ work[a] = "finished"
      BY <1>1, <3>1, <3>2 DEF AtBarrier
    <3> QED
      BY <1>1, <1>2, <3>1, <3>2, <3>3 DEF PromiseInv, TypeOK
  <2> QED
    BY <1>3, <2>4, <2>5, <2>6 DEF IInv
<1> QED
  BY <1>4, <1>5

LEMMA LowTideLevelKeeps == IInv /\ LowTideLevel => IInv'
<1> SUFFICES ASSUME IInv, LowTideLevel PROVE IInv'
  OBVIOUS
<1>1. /\ pc = "low" /\ pc' = pc /\ level > 1 /\ Begin(level - 1)
      /\ UNCHANGED <<g, maxFlow, flow, dist, levels, remaining, seen, seenTail, h, p, l, sent>>
  BY DEF LowTideLevel, callVars, graphVars, localVars, tideVars
<1>2. TypeOK /\ LevelInv /\ PromiseInv /\ level \in 1 .. Len(levels) /\ Len(levels) \in Nat
  BY <1>1 DEF IInv, TypeOK, InLoops
<1>3. /\ level' = level - 1 /\ work' \in [Edges(g) -> WorkerLabels]
      /\ \A a \in Edges(g) : work'[a] # "idle" => a \in levels[level - 1]
      /\ \A a \in Edges(g) : work'[a] \in {"idle", "loop"}
  BY <1>1, <1>2, BeginFacts
<1>4. TypeOK'
  BY <1>1, <1>2, <1>3 DEF TypeOK, Labels, Phase, InLoops
<1>5. FlowIsFeasible' /\ PromiseInv'
  BY <1>1, <1>2 DEF IInv, FlowIsFeasible, CapacityOK, SkewSymmetry, PromiseInv, LevelEdgeSet,
                    Residual
<1>6. LevelInv' /\ WorkInv' /\ AttemptInv'
  BY <1>1, <1>2, <1>3 DEF LevelInv, WorkInv, AttemptInv
<1> QED
  BY <1>4, <1>5, <1>6 DEF IInv

LEMMA LowTideEndKeeps == IInv /\ LowTideEnd => IInv'
<1> SUFFICES ASSUME IInv, LowTideEnd PROVE IInv'
  OBVIOUS
<1>1. /\ pc = "low" /\ pc' = "erosion" /\ Begin(1) /\ remaining' = p
      /\ h' = [x \in Nodes(g) |-> IF x = g.source THEN l[g.source] ELSE 0]
      /\ UNCHANGED <<g, maxFlow, flow, dist, levels, seen, seenTail, p, l, sent>>
  BY DEF LowTideEnd, callVars, graphVars
<1>2. /\ TypeOK /\ LevelInv /\ PromiseInv /\ Len(levels) \in Nat /\ Len(levels) > 0
      /\ g.source \in Nodes(g)
  BY <1>1 DEF IInv, TypeOK, IsCase, Phase
<1>3. /\ level' = 1 /\ work' \in [Edges(g) -> WorkerLabels]
      /\ \A a \in Edges(g) : work'[a] # "idle" => a \in levels[1]
      /\ \A a \in Edges(g) : work'[a] \in {"idle", "loop"}
  BY <1>1, <1>2, BeginFacts
<1>4. h' \in [Nodes(g) -> Nat]
  <2>1. l[g.source] \in Nat
    BY <1>2 DEF TypeOK
  <2> QED
    BY <1>1, <2>1
<1>5. TypeOK'
  BY <1>1, <1>2, <1>3, <1>4 DEF TypeOK, Labels, Phase, InLoops
<1>6. FlowIsFeasible' /\ PromiseInv'
  BY <1>1, <1>2 DEF IInv, FlowIsFeasible, CapacityOK, SkewSymmetry, PromiseInv, LevelEdgeSet,
                    Residual
<1>7. LevelInv' /\ WorkInv' /\ AttemptInv'
  BY <1>1, <1>2, <1>3 DEF LevelInv, WorkInv, AttemptInv, Phase
<1> QED
  BY <1>5, <1>6, <1>7 DEF IInv

LEMMA ErosionLevelKeeps == IInv /\ ErosionLevel => IInv'
<1> SUFFICES ASSUME IInv, ErosionLevel PROVE IInv'
  OBVIOUS
<1>1. /\ pc = "erosion" /\ pc' = pc /\ level < Len(levels) /\ Begin(level + 1)
      /\ UNCHANGED <<g, maxFlow, flow, dist, levels, remaining, seen, seenTail, h, p, l, sent>>
  BY DEF ErosionLevel, callVars, graphVars, localVars, tideVars
<1>2. TypeOK /\ LevelInv /\ PromiseInv /\ level \in 1 .. Len(levels) /\ Len(levels) \in Nat
  BY <1>1 DEF IInv, TypeOK, InLoops
<1>3. /\ level' = level + 1 /\ work' \in [Edges(g) -> WorkerLabels]
      /\ \A a \in Edges(g) : work'[a] # "idle" => a \in levels[level + 1]
      /\ \A a \in Edges(g) : work'[a] \in {"idle", "loop"}
  BY <1>1, <1>2, BeginFacts
<1>4. TypeOK'
  BY <1>1, <1>2, <1>3 DEF TypeOK, Labels, Phase, InLoops
<1>5. FlowIsFeasible' /\ PromiseInv'
  BY <1>1, <1>2 DEF IInv, FlowIsFeasible, CapacityOK, SkewSymmetry, PromiseInv, LevelEdgeSet,
                    Residual
<1>6. LevelInv' /\ WorkInv' /\ AttemptInv'
  BY <1>1, <1>2, <1>3 DEF LevelInv, WorkInv, AttemptInv
<1> QED
  BY <1>4, <1>5, <1>6 DEF IInv

LEMMA ErosionEndKeeps == IInv /\ ErosionEnd => IInv'
<1> SUFFICES ASSUME IInv, ErosionEnd PROVE IInv'
  OBVIOUS
<1>1. /\ pc = "erosion" /\ pc' = "returned" /\ sent' = h[g.sink]
      /\ UNCHANGED <<g, maxFlow, flow, dist, levels, level, work, remaining, seen, seenTail, h, p, l>>
  BY DEF ErosionEnd, callVars, graphVars, localVars, tideVars
<1>2. TypeOK /\ h[g.sink] \in Nat
  BY DEF IInv, TypeOK, IsCase
<1>3. TypeOK'
  BY <1>1, <1>2 DEF TypeOK, Labels, Phase, InLoops
<1>4. FlowIsFeasible'
  BY <1>1 DEF IInv, FlowIsFeasible, CapacityOK, SkewSymmetry
<1> QED
  BY <1>1, <1>3, <1>4 DEF IInv, LevelInv, WorkInv, AttemptInv, PromiseInv, Phase, InLoops

LEMMA AddAndRepeatKeeps == IInv /\ AddAndRepeat => IInv'
<1> SUFFICES ASSUME IInv, AddAndRepeat PROVE IInv'
  OBVIOUS
<1>1. /\ pc = "returned" /\ pc' = "tide" /\ maxFlow' = maxFlow + sent
      /\ UNCHANGED <<g, flow, dist, levels, level, work, remaining, seen, seenTail, h, p, l, sent>>
  BY DEF AddAndRepeat, graphVars, localVars, tideVars
<1>2. TypeOK /\ maxFlow' \in Int
  BY <1>1 DEF IInv, TypeOK
<1>3. TypeOK'
  BY <1>1, <1>2 DEF TypeOK, Labels, Phase, InLoops
<1>4. FlowIsFeasible'
  BY <1>1 DEF IInv, FlowIsFeasible, CapacityOK, SkewSymmetry
<1> QED
  BY <1>1, <1>3, <1>4 DEF IInv, LevelInv, WorkInv, AttemptInv, PromiseInv, Phase, InLoops

LEMMA RebuildKeeps == IInv /\ Rebuild => IInv'
<1> SUFFICES ASSUME IInv, Rebuild PROVE IInv'
  OBVIOUS
<1>1. /\ pc = "returned" /\ pc' = "build"
      /\ UNCHANGED <<g, flow, maxFlow, dist, levels, level, work, remaining, seen, seenTail>>
      /\ UNCHANGED <<h, p, l, sent>>
  BY DEF Rebuild, callVars, graphVars, localVars, tideVars
<1>2. TypeOK'
  BY <1>1 DEF IInv, TypeOK, Labels, Phase, InLoops
<1>3. FlowIsFeasible'
  BY <1>1 DEF IInv, FlowIsFeasible, CapacityOK, SkewSymmetry
<1> QED
  BY <1>1, <1>2, <1>3 DEF IInv, LevelInv, WorkInv, AttemptInv, PromiseInv, Phase, InLoops

-------------------------------------------------------------------------------
(* Steps of a worker.                                                      *)

\* The worker of an edge that is under way belongs to the level graph.
LEMMA WorkerFacts ==
  ASSUME TypeOK, WorkInv, pc \in InLoops, NEW a \in Edges(g), work[a] # "idle"
  PROVE  /\ a \in levels[level] /\ level \in DOMAIN levels
         /\ a \in LevelEdgeSet
<1>1. a \in levels[level] /\ level \in DOMAIN levels
  BY DEF WorkInv, TypeOK
<1> QED
  BY <1>1 DEF LevelEdgeSet

LEMMA HighTideKeeps == \A a \in Edges(g) : IInv /\ HighTide(a) => IInv'
<1> SUFFICES ASSUME NEW a \in Edges(g), IInv, HighTide(a) PROVE IInv'
  OBVIOUS
<1>1. /\ pc = "high" /\ pc' = pc /\ work[a] = "loop"
      /\ work' = [work EXCEPT ![a] = "finished"]
      /\ p' = [p EXCEPT ![a] = Promise(a)]
      /\ h' = [h EXCEPT ![g.dst[a]] = @ + Promise(a)]
      /\ UNCHANGED <<g, maxFlow, flow, dist, levels, level, remaining, seen, seenTail, l, sent>>
  BY DEF HighTide, GoTo, callVars, graphVars, localVars
<1>2. /\ TypeOK /\ FlowIsFeasible /\ WorkInv /\ LevelInv /\ PromiseInv /\ IsCase(g)
      /\ work \in [Edges(g) -> WorkerLabels] /\ p \in [Edges(g) -> Nat] /\ h \in [Nodes(g) -> Nat]
  BY DEF IInv, TypeOK
<1>3. Residual(g, flow, a) \in Nat /\ g.src[a] \in Nodes(g) /\ g.dst[a] \in Nodes(g)
  BY <1>2, ResidualFacts, SlotFacts
<1>4. Promise(a) \in Nat /\ Promise(a) <= Residual(g, flow, a)
  BY <1>2, <1>3 DEF Promise, Lesser
<1>5. /\ p' \in [Edges(g) -> Nat] /\ h' \in [Nodes(g) -> Nat]
      /\ work' \in [Edges(g) -> WorkerLabels]
  BY <1>1, <1>2, <1>3, <1>4 DEF WorkerLabels
<1>6. TypeOK'
  BY <1>1, <1>2, <1>5 DEF TypeOK
<1>7. FlowIsFeasible' /\ LevelInv' /\ AttemptInv'
  BY <1>1, <1>2 DEF FlowIsFeasible, CapacityOK, SkewSymmetry, LevelInv, AttemptInv
<1>8. WorkInv'
  BY <1>1, <1>2, WorkerFacts DEF WorkInv, InLoops
<1>9. PromiseInv'
  <2> SUFFICES ASSUME NEW k \in 1 .. level, NEW b \in levels[k],
                      k < level \/ work'[b] = "finished"
               PROVE  p'[b] <= Residual(g, flow, b)
    BY <1>1 DEF PromiseInv, Residual
  <2>1. b \in Edges(g)
    BY <1>1, <1>2 DEF TypeOK, InLoops
  <2>2. CASE b = a
    BY <1>1, <1>2, <1>4, <2>2
  <2>3. CASE b # a
    BY <1>1, <1>2, <2>1, <2>3 DEF PromiseInv
  <2> QED
    BY <2>2, <2>3
<1> QED
  BY <1>6, <1>7, <1>8, <1>9 DEF IInv

\* A step of the low tide: what the worker of edge a may do to the locals of its
\* iteration, whatever l[] it reads and writes.
LEMMA LowTideStepKeeps ==
  ASSUME IInv, pc = "low", NEW a \in Edges(g), work[a] # "idle",
         UNCHANGED <<g, maxFlow, flow, pc, dist, levels, level, h, sent>>,
         NEW label \in WorkerLabels \ {"idle"}, work' = [work EXCEPT ![a] = label],
         l' \in [Nodes(g) -> Nat],
         NEW promise \in Nat, p' = [p EXCEPT ![a] = promise], promise <= p[a],
         NEW rest \in Nat, remaining' = [remaining EXCEPT ![a] = rest], rest <= promise,
         NEW head \in Nat, seen' = [seen EXCEPT ![a] = head],
         NEW tail \in Nat, seenTail' = [seenTail EXCEPT ![a] = tail],
         label \in {"readTail", "casHead", "casTail", "restore"} => head > 0 /\ rest > 0,
         label \in {"casHead", "casTail", "restore"} => h[g.src[a]] > tail
  PROVE  IInv'
<1>1. /\ TypeOK /\ FlowIsFeasible /\ LevelInv /\ WorkInv /\ AttemptInv /\ PromiseInv
      /\ work \in [Edges(g) -> WorkerLabels] /\ p \in [Edges(g) -> Nat]
      /\ remaining \in [Edges(g) -> Nat]
      /\ seen \in [Edges(g) -> Nat] /\ seenTail \in [Edges(g) -> Nat]
  BY DEF IInv, TypeOK
<1>2. /\ work' \in [Edges(g) -> WorkerLabels] /\ p' \in [Edges(g) -> Nat]
      /\ remaining' \in [Edges(g) -> Nat]
      /\ seen' \in [Edges(g) -> Nat] /\ seenTail' \in [Edges(g) -> Nat]
  BY <1>1
<1>3. TypeOK'
  BY <1>1, <1>2 DEF TypeOK
<1>4. FlowIsFeasible' /\ LevelInv'
  BY <1>1 DEF FlowIsFeasible, CapacityOK, SkewSymmetry, LevelInv
<1>5. WorkInv'
  BY <1>1 DEF WorkInv
<1>6. AttemptInv'
  <2> SUFFICES ASSUME NEW b \in Edges(g)
               PROVE  /\ work'[b] \in {"readTail", "casHead", "casTail", "restore"} =>
                           seen'[b] > 0 /\ remaining'[b] > 0
                      /\ work'[b] \in {"casHead", "casTail", "restore"} =>
                           h[g.src[b]] > seenTail'[b]
    BY DEF AttemptInv
  <2>1. CASE b = a
    BY <1>1, <2>1
  <2>2. CASE b # a
    BY <1>1, <2>2 DEF AttemptInv
  <2> QED
    BY <2>1, <2>2
<1>7. PromiseInv'
  <2> SUFFICES ASSUME NEW b \in LevelEdgeSet
               PROVE  remaining'[b] <= p'[b] /\ p'[b] <= Residual(g, flow, b)
    BY DEF PromiseInv, Residual, LevelEdgeSet
  <2>1. b \in Edges(g)
    BY <1>1, LevelEdgeFacts DEF Phase
  <2>2. remaining[b] <= p[b] /\ p[b] <= Residual(g, flow, b)
    BY <1>1 DEF PromiseInv
  <2>3. Residual(g, flow, b) \in Nat
    BY <1>1, <2>1, ResidualFacts
  <2>4. CASE b = a
    BY <1>1, <2>2, <2>3, <2>4
  <2>5. CASE b # a
    BY <1>1, <2>1, <2>2, <2>5
  <2> QED
    BY <2>4, <2>5
<1> QED
  BY <1>3, <1>4, <1>5, <1>6, <1>7 DEF IInv

\* The values a worker of the low tide computes with.
LEMMA LowTideFacts ==
  ASSUME IInv, pc = "low", NEW a \in Edges(g), work[a] # "idle"
  PROVE  /\ p[a] \in Nat /\ remaining[a] \in Nat /\ remaining[a] <= p[a]
         /\ p[a] - remaining[a] \in Nat
         /\ seen[a] \in Nat /\ seenTail[a] \in Nat
         /\ g.src[a] \in Nodes(g) /\ g.dst[a] \in Nodes(g)
         /\ h[g.src[a]] \in Nat /\ l[g.src[a]] \in Nat /\ l[g.dst[a]] \in Nat
         /\ work[a] \in {"readTail", "casHead", "casTail", "restore"} =>
              seen[a] > 0 /\ remaining[a] > 0
         /\ work[a] \in {"casHead", "casTail", "restore"} =>
              /\ h[g.src[a]] > seenTail[a]
              /\ SendBack(a) \in Nat /\ SendBack(a) <= seen[a] /\ SendBack(a) <= remaining[a]
<1>1. /\ TypeOK /\ WorkInv /\ IsCase(g) /\ a \in LevelEdgeSet
      /\ p[a] \in Nat /\ remaining[a] \in Nat /\ seen[a] \in Nat /\ seenTail[a] \in Nat
  BY WorkerFacts DEF IInv, TypeOK, InLoops
<1>2. g.src[a] \in Nodes(g) /\ g.dst[a] \in Nodes(g)
  BY <1>1, SlotFacts
<1>3. h[g.src[a]] \in Nat /\ l[g.src[a]] \in Nat /\ l[g.dst[a]] \in Nat
  BY <1>1, <1>2 DEF TypeOK
<1>4. remaining[a] <= p[a]
  BY <1>1 DEF IInv, PromiseInv
<1>5. /\ work[a] \in {"readTail", "casHead", "casTail", "restore"} =>
            seen[a] > 0 /\ remaining[a] > 0
      /\ work[a] \in {"casHead", "casTail", "restore"} => h[g.src[a]] > seenTail[a]
  BY DEF IInv, AttemptInv
<1>6. ASSUME h[g.src[a]] > seenTail[a]
      PROVE  SendBack(a) \in Nat /\ SendBack(a) <= seen[a] /\ SendBack(a) <= remaining[a]
  BY <1>1, <1>3, <1>6 DEF SendBack, Lesser
<1> QED
  BY <1>1, <1>2, <1>3, <1>4, <1>5, <1>6

\* The worker leaves the loop, its promise being what it has pulled back.
LEMMA FinishKeeps ==
  ASSUME IInv, pc = "low", NEW a \in Edges(g), work[a] # "idle", Finish(a),
         UNCHANGED <<g, maxFlow, flow, pc, dist, levels, level, h, l, sent>>
  PROVE  IInv'
<1>1. /\ p[a] \in Nat /\ remaining[a] \in Nat /\ p[a] - remaining[a] \in Nat
      /\ p[a] - remaining[a] <= p[a]
  BY LowTideFacts
<1>2. /\ p' = [p EXCEPT ![a] = p[a] - remaining[a]]
      /\ remaining' = [remaining EXCEPT ![a] = 0]
      /\ seen' = [seen EXCEPT ![a] = 0] /\ seenTail' = [seenTail EXCEPT ![a] = 0]
      /\ work' = [work EXCEPT ![a] = "finished"]
  BY DEF Finish, Forget, GoTo
<1>3. l' \in [Nodes(g) -> Nat] /\ "finished" \in WorkerLabels \ {"idle"} /\ 0 \in Nat
  BY DEF IInv, TypeOK, WorkerLabels
<1>4. 0 <= p[a] - remaining[a]
  BY <1>1
<1> HIDE DEF Finish
<1> QED
  BY <1>1, <1>2, <1>3, <1>4, LowTideStepKeeps, ZenonT(60)

LEMMA ReadHeadKeeps == \A a \in Edges(g) : IInv /\ ReadHead(a) => IInv'
<1> SUFFICES ASSUME NEW a \in Edges(g), IInv, ReadHead(a) PROVE IInv'
  OBVIOUS
<1>1. /\ pc = "low" /\ work[a] # "idle"
      /\ UNCHANGED <<g, maxFlow, flow, pc, dist, levels, level, h, l, sent>>
  BY DEF ReadHead, callVars, graphVars
<1>2. CASE IsWanted(a)
  <2>1. /\ seen' = [seen EXCEPT ![a] = l[g.dst[a]]]
        /\ work' = [work EXCEPT ![a] = "readTail"]
        /\ UNCHANGED <<p, remaining, seenTail>>
    BY <1>2 DEF ReadHead, GoTo
  <2>2. remaining[a] > 0 /\ l[g.dst[a]] > 0
    BY <1>2 DEF IsWanted
  <2>3. /\ p[a] \in Nat /\ remaining[a] \in Nat /\ remaining[a] <= p[a] /\ p[a] <= p[a]
        /\ l[g.dst[a]] \in Nat /\ seenTail[a] \in Nat
    BY <1>1, LowTideFacts
  <2>4. /\ l' \in [Nodes(g) -> Nat]
        /\ p' = [p EXCEPT ![a] = p[a]] /\ remaining' = [remaining EXCEPT ![a] = remaining[a]]
        /\ seenTail' = [seenTail EXCEPT ![a] = seenTail[a]]
    BY <1>1, <2>1 DEF IInv, TypeOK
  <2>5. "readTail" \in WorkerLabels \ {"idle"} /\ "readTail" \notin {"casHead", "casTail", "restore"}
    BY DEF WorkerLabels
  <2> QED
    BY <1>1, <2>1, <2>2, <2>3, <2>4, <2>5, LowTideStepKeeps, ZenonT(60)
<1>3. CASE ~IsWanted(a)
  BY <1>1, <1>3, FinishKeeps DEF ReadHead
<1> QED
  BY <1>2, <1>3

LEMMA ReadTailKeeps == \A a \in Edges(g) : IInv /\ ReadTail(a) => IInv'
<1> SUFFICES ASSUME NEW a \in Edges(g), IInv, ReadTail(a) PROVE IInv'
  OBVIOUS
<1>1. /\ pc = "low" /\ work[a] = "readTail" /\ work[a] # "idle"
      /\ UNCHANGED <<g, maxFlow, flow, pc, dist, levels, level, h, l, sent>>
  BY DEF ReadTail, callVars, graphVars
<1>2. CASE h[g.src[a]] - l[g.src[a]] > 0
  <2>1. /\ seenTail' = [seenTail EXCEPT ![a] = l[g.src[a]]]
        /\ work' = [work EXCEPT ![a] = "casHead"]
        /\ UNCHANGED <<p, remaining, seen>>
    BY <1>2 DEF ReadTail, GoTo
  <2>2. /\ p[a] \in Nat /\ remaining[a] \in Nat /\ remaining[a] <= p[a] /\ p[a] <= p[a]
        /\ l[g.src[a]] \in Nat /\ h[g.src[a]] \in Nat
        /\ seen[a] \in Nat /\ seen[a] > 0 /\ remaining[a] > 0
    BY <1>1, LowTideFacts
  <2>3. h[g.src[a]] > l[g.src[a]]
    BY <1>2, <2>2
  <2>4. /\ l' \in [Nodes(g) -> Nat]
        /\ p' = [p EXCEPT ![a] = p[a]] /\ remaining' = [remaining EXCEPT ![a] = remaining[a]]
        /\ seen' = [seen EXCEPT ![a] = seen[a]]
    BY <1>1, <2>1 DEF IInv, TypeOK
  <2>5. "casHead" \in WorkerLabels \ {"idle"}
    BY DEF WorkerLabels
  <2> QED
    BY <1>1, <2>1, <2>2, <2>3, <2>4, <2>5, LowTideStepKeeps, ZenonT(60)
<1>3. CASE ~(h[g.src[a]] - l[g.src[a]] > 0)
  BY <1>1, <1>3, FinishKeeps DEF ReadTail
<1> QED
  BY <1>2, <1>3

\* Giving up an attempt and returning to the head of the loop.
LEMMA RetryKeeps ==
  ASSUME IInv, pc = "low", NEW a \in Edges(g), work[a] # "idle",
         l' \in [Nodes(g) -> Nat], NEW rest \in Nat, rest <= remaining[a],
         remaining' = [remaining EXCEPT ![a] = rest],
         work' = [work EXCEPT ![a] = "loop"],
         seen' = [seen EXCEPT ![a] = 0], seenTail' = [seenTail EXCEPT ![a] = 0],
         UNCHANGED <<g, maxFlow, flow, pc, dist, levels, level, h, p, sent>>
  PROVE  IInv'
<1>1. p[a] \in Nat /\ remaining[a] \in Nat /\ remaining[a] <= p[a]
  BY LowTideFacts
<1>2. /\ p' = [p EXCEPT ![a] = p[a]] /\ p[a] <= p[a] /\ rest <= p[a] /\ 0 \in Nat
      /\ "loop" \in WorkerLabels \ {"idle"}
      /\ "loop" \notin {"readTail", "casHead", "casTail", "restore"}
      /\ "loop" \notin {"casHead", "casTail", "restore"}
  BY <1>1 DEF IInv, TypeOK, WorkerLabels
<1> QED
  BY <1>1, <1>2, LowTideStepKeeps, ZenonT(60)

LEMMA CasHeadKeeps == \A a \in Edges(g) : IInv /\ CasHead(a) => IInv'
<1> SUFFICES ASSUME NEW a \in Edges(g), IInv, CasHead(a) PROVE IInv'
  OBVIOUS
<1>1. /\ pc = "low" /\ work[a] = "casHead" /\ work[a] # "idle"
      /\ UNCHANGED <<g, maxFlow, flow, pc, dist, levels, level, remaining, h, p, sent>>
  BY DEF CasHead, callVars, graphVars
<1>2. /\ p[a] \in Nat /\ remaining[a] \in Nat /\ remaining[a] <= p[a] /\ p[a] <= p[a]
      /\ seen[a] \in Nat /\ seenTail[a] \in Nat /\ seen[a] > 0 /\ remaining[a] > 0
      /\ g.dst[a] \in Nodes(g) /\ l[g.dst[a]] \in Nat /\ h[g.src[a]] > seenTail[a]
      /\ SendBack(a) \in Nat /\ SendBack(a) <= seen[a]
  BY <1>1, LowTideFacts
<1>3. /\ l \in [Nodes(g) -> Nat] /\ remaining' = [remaining EXCEPT ![a] = remaining[a]]
      /\ p' = [p EXCEPT ![a] = p[a]]
  BY <1>1 DEF IInv, TypeOK
<1>4. CASE l[g.dst[a]] = seen[a]
  <2>1. /\ l' = [l EXCEPT ![g.dst[a]] = @ - SendBack(a)]
        /\ work' = [work EXCEPT ![a] = "casTail"]
        /\ UNCHANGED <<seen, seenTail>>
    BY <1>4 DEF CasHead, GoTo
  <2>2. l[g.dst[a]] - SendBack(a) \in Nat
    BY <1>2, <1>4
  <2>3. l' \in [Nodes(g) -> Nat]
    BY <1>2, <1>3, <2>1, <2>2
  <2>4. /\ seen' = [seen EXCEPT ![a] = seen[a]]
        /\ seenTail' = [seenTail EXCEPT ![a] = seenTail[a]]
        /\ "casTail" \in WorkerLabels \ {"idle"}
    BY <2>1 DEF IInv, TypeOK, WorkerLabels
  <2> QED
    BY <1>1, <1>2, <1>3, <2>1, <2>3, <2>4, LowTideStepKeeps, ZenonT(60)
<1>5. CASE l[g.dst[a]] # seen[a]
  <2>1. /\ work' = [work EXCEPT ![a] = "loop"]
        /\ seen' = [seen EXCEPT ![a] = 0] /\ seenTail' = [seenTail EXCEPT ![a] = 0]
        /\ l' \in [Nodes(g) -> Nat] /\ remaining[a] <= remaining[a]
    BY <1>2, <1>3, <1>5 DEF CasHead, GoTo, Forget
  <2> QED
    BY <1>1, <1>2, <1>3, <2>1, RetryKeeps, ZenonT(60)
<1> QED
  BY <1>4, <1>5

LEMMA CasTailKeeps == \A a \in Edges(g) : IInv /\ CasTail(a) => IInv'
<1> SUFFICES ASSUME NEW a \in Edges(g), IInv, CasTail(a) PROVE IInv'
  OBVIOUS
<1>1. /\ pc = "low" /\ work[a] = "casTail" /\ work[a] # "idle"
      /\ UNCHANGED <<g, maxFlow, flow, pc, dist, levels, level, h, p, sent>>
  BY DEF CasTail, callVars, graphVars
<1>2. /\ p[a] \in Nat /\ remaining[a] \in Nat /\ remaining[a] <= p[a] /\ p[a] <= p[a]
      /\ seen[a] \in Nat /\ seenTail[a] \in Nat /\ seen[a] > 0 /\ remaining[a] > 0
      /\ g.src[a] \in Nodes(g) /\ h[g.src[a]] > seenTail[a]
      /\ SendBack(a) \in Nat /\ SendBack(a) <= remaining[a]
  BY <1>1, LowTideFacts
<1>3. l \in [Nodes(g) -> Nat]
  BY DEF IInv, TypeOK
<1>4. CASE TailUnchanged(a)
  <2>1. /\ l' = [l EXCEPT ![g.src[a]] = seenTail[a] + SendBack(a)]
        /\ remaining' = [remaining EXCEPT ![a] = remaining[a] - SendBack(a)]
        /\ work' = [work EXCEPT ![a] = "loop"]
        /\ seen' = [seen EXCEPT ![a] = 0] /\ seenTail' = [seenTail EXCEPT ![a] = 0]
    BY <1>4 DEF CasTail, GoTo, Forget
  <2>2. /\ seenTail[a] + SendBack(a) \in Nat
        /\ remaining[a] - SendBack(a) \in Nat /\ remaining[a] - SendBack(a) <= remaining[a]
    BY <1>2
  <2>3. l' \in [Nodes(g) -> Nat]
    BY <1>2, <1>3, <2>1, <2>2
  <2> QED
    BY <1>1, <2>1, <2>2, <2>3, RetryKeeps, ZenonT(60)
<1>5. CASE ~TailUnchanged(a)
  <2>1. /\ work' = [work EXCEPT ![a] = "restore"]
        /\ UNCHANGED <<l, remaining, seen, seenTail>>
    BY <1>5 DEF CasTail, GoTo
  <2>2. /\ l' \in [Nodes(g) -> Nat]
        /\ p' = [p EXCEPT ![a] = p[a]] /\ remaining' = [remaining EXCEPT ![a] = remaining[a]]
        /\ seen' = [seen EXCEPT ![a] = seen[a]]
        /\ seenTail' = [seenTail EXCEPT ![a] = seenTail[a]]
        /\ "restore" \in WorkerLabels \ {"idle"}
    BY <1>1, <1>3, <2>1 DEF IInv, TypeOK, WorkerLabels
  <2> QED
    BY <1>1, <1>2, <2>1, <2>2, LowTideStepKeeps, ZenonT(60)
<1> QED
  BY <1>4, <1>5

LEMMA RestoreKeeps == \A a \in Edges(g) : IInv /\ Restore(a) => IInv'
<1> SUFFICES ASSUME NEW a \in Edges(g), IInv, Restore(a) PROVE IInv'
  OBVIOUS
<1>1. /\ pc = "low" /\ work[a] = "restore" /\ work[a] # "idle"
      /\ l' = [l EXCEPT ![g.dst[a]] = @ + SendBack(a)]
      /\ work' = [work EXCEPT ![a] = "loop"]
      /\ seen' = [seen EXCEPT ![a] = 0] /\ seenTail' = [seenTail EXCEPT ![a] = 0]
      /\ UNCHANGED <<g, maxFlow, flow, pc, dist, levels, level, remaining, h, p, sent>>
  BY DEF Restore, Returned, GoTo, Forget, callVars, graphVars
<1>2. /\ remaining[a] \in Nat /\ remaining[a] <= remaining[a]
      /\ g.dst[a] \in Nodes(g) /\ l[g.dst[a]] \in Nat /\ SendBack(a) \in Nat
  BY <1>1, LowTideFacts
<1>3. l[g.dst[a]] + SendBack(a) \in Nat
  BY <1>2
<1>4. l' \in [Nodes(g) -> Nat] /\ remaining' = [remaining EXCEPT ![a] = remaining[a]]
  BY <1>1, <1>2, <1>3 DEF IInv, TypeOK
<1> QED
  BY <1>1, <1>2, <1>4, RetryKeeps, ZenonT(60)

\* A step of the erosion that does not touch flow[].
LEMMA ErosionStepKeeps ==
  ASSUME IInv, pc = "erosion", NEW a \in Edges(g), work[a] # "idle",
         UNCHANGED <<g, maxFlow, flow, pc, dist, levels, level, remaining, seenTail, p, l, sent>>,
         NEW label \in WorkerLabels \ {"idle"}, work' = [work EXCEPT ![a] = label],
         h' \in [Nodes(g) -> Nat],
         NEW tail \in Nat, seen' = [seen EXCEPT ![a] = tail],
         label \in {"cas", "deliver"} => tail > 0 /\ remaining[a] > 0
  PROVE  IInv'
<1>1. /\ TypeOK /\ FlowIsFeasible /\ LevelInv /\ WorkInv /\ AttemptInv /\ PromiseInv
      /\ work \in [Edges(g) -> WorkerLabels] /\ seen \in [Edges(g) -> Nat]
  BY DEF IInv, TypeOK
<1>2. work' \in [Edges(g) -> WorkerLabels] /\ seen' \in [Edges(g) -> Nat]
  BY <1>1
<1>3. TypeOK'
  BY <1>1, <1>2 DEF TypeOK
<1>4. FlowIsFeasible' /\ LevelInv' /\ PromiseInv'
  BY <1>1 DEF FlowIsFeasible, CapacityOK, SkewSymmetry, LevelInv, PromiseInv, LevelEdgeSet,
              Residual
<1>5. WorkInv'
  BY <1>1 DEF WorkInv
<1>6. AttemptInv'
  <2> SUFFICES ASSUME NEW b \in Edges(g), work'[b] \in {"cas", "deliver"}
               PROVE  seen'[b] > 0 /\ remaining[b] > 0
    BY DEF AttemptInv
  <2>1. CASE b = a
    BY <1>1, <2>1
  <2>2. CASE b # a
    BY <1>1, <2>2 DEF AttemptInv
  <2> QED
    BY <2>1, <2>2
<1> QED
  BY <1>3, <1>4, <1>5, <1>6 DEF IInv

\* The values a worker of the erosion computes with.
LEMMA ErosionFacts ==
  ASSUME IInv, pc = "erosion", NEW a \in Edges(g), work[a] # "idle"
  PROVE  /\ a \in LevelEdgeSet
         /\ remaining[a] \in Nat /\ remaining[a] <= Residual(g, flow, a)
         /\ seen[a] \in Nat
         /\ g.src[a] \in Nodes(g) /\ g.dst[a] \in Nodes(g)
         /\ h[g.src[a]] \in Nat /\ h[g.dst[a]] \in Nat
         /\ work[a] \in {"cas", "deliver"} => seen[a] > 0 /\ remaining[a] > 0
         /\ CommitFlow(a) \in Nat /\ CommitFlow(a) <= seen[a] /\ CommitFlow(a) <= remaining[a]
<1>1. /\ TypeOK /\ WorkInv /\ IsCase(g) /\ a \in LevelEdgeSet
      /\ remaining[a] \in Nat /\ seen[a] \in Nat
  BY WorkerFacts DEF IInv, TypeOK, InLoops
<1>2. g.src[a] \in Nodes(g) /\ g.dst[a] \in Nodes(g)
  BY <1>1, SlotFacts
<1>3. h[g.src[a]] \in Nat /\ h[g.dst[a]] \in Nat
  BY <1>1, <1>2 DEF TypeOK
<1>4. /\ remaining[a] <= Residual(g, flow, a)
      /\ work[a] \in {"cas", "deliver"} => seen[a] > 0 /\ remaining[a] > 0
  BY <1>1 DEF IInv, PromiseInv, AttemptInv
<1>5. CommitFlow(a) \in Nat /\ CommitFlow(a) <= seen[a] /\ CommitFlow(a) <= remaining[a]
  BY <1>1 DEF CommitFlow, Lesser
<1> QED
  BY <1>1, <1>2, <1>3, <1>4, <1>5

LEMMA ReadWaitingKeeps == \A a \in Edges(g) : IInv /\ ReadWaiting(a) => IInv'
<1> SUFFICES ASSUME NEW a \in Edges(g), IInv, ReadWaiting(a) PROVE IInv'
  OBVIOUS
<1>1. /\ pc = "erosion" /\ work[a] # "idle"
      /\ UNCHANGED <<g, maxFlow, flow, pc, dist, levels, level, remaining, seenTail, p, l, sent>>
      /\ UNCHANGED h
  BY DEF ReadWaiting, callVars, graphVars, tideVars
<1>2. /\ h' \in [Nodes(g) -> Nat] /\ seen = [seen EXCEPT ![a] = seen[a]]
      /\ "cas" \in WorkerLabels \ {"idle"} /\ "finished" \in WorkerLabels \ {"idle"}
      /\ "finished" \notin {"cas", "deliver"}
      /\ h[g.src[a]] \in Nat /\ seen[a] \in Nat
  BY <1>1, ErosionFacts DEF IInv, TypeOK, WorkerLabels
<1>3. CASE remaining[a] > 0 /\ h[g.src[a]] > 0
  <2>1. seen' = [seen EXCEPT ![a] = h[g.src[a]]] /\ work' = [work EXCEPT ![a] = "cas"]
    BY <1>3 DEF ReadWaiting, GoTo
  <2> QED
    BY <1>1, <1>2, <1>3, <2>1, ErosionStepKeeps, ZenonT(60)
<1>4. CASE ~(remaining[a] > 0 /\ h[g.src[a]] > 0)
  <2>1. seen' = [seen EXCEPT ![a] = seen[a]] /\ work' = [work EXCEPT ![a] = "finished"]
    BY <1>2, <1>4 DEF ReadWaiting, GoTo
  <2> QED
    BY <1>1, <1>2, <2>1, ErosionStepKeeps, ZenonT(60)
<1> QED
  BY <1>3, <1>4

LEMMA CasWaitingKeeps == \A a \in Edges(g) : IInv /\ CasWaiting(a) => IInv'
<1> SUFFICES ASSUME NEW a \in Edges(g), IInv, CasWaiting(a) PROVE IInv'
  OBVIOUS
<1>1. /\ pc = "erosion" /\ work[a] = "cas" /\ work[a] # "idle"
      /\ UNCHANGED <<g, maxFlow, flow, pc, dist, levels, level, remaining, seenTail, p, l, sent>>
  BY DEF CasWaiting, callVars, graphVars
<1>2. /\ seen[a] \in Nat /\ seen[a] > 0 /\ remaining[a] > 0
      /\ CommitFlow(a) \in Nat /\ CommitFlow(a) <= seen[a] /\ g.src[a] \in Nodes(g)
  BY <1>1, ErosionFacts
<1>3. CASE WaitingUnchanged(a)
  <2>1. /\ h' = [h EXCEPT ![g.src[a]] = seen[a] - CommitFlow(a)]
        /\ work' = [work EXCEPT ![a] = "deliver"] /\ UNCHANGED seen
    BY <1>3 DEF CasWaiting, GoTo
  <2>2. seen[a] - CommitFlow(a) \in Nat
    BY <1>2
  <2>3. /\ h' \in [Nodes(g) -> Nat] /\ seen' = [seen EXCEPT ![a] = seen[a]]
        /\ "deliver" \in WorkerLabels \ {"idle"}
    BY <1>2, <2>1, <2>2 DEF IInv, TypeOK, WorkerLabels
  <2> QED
    BY <1>1, <1>2, <2>1, <2>3, ErosionStepKeeps, ZenonT(60)
<1>4. CASE ~WaitingUnchanged(a)
  <2>1. /\ work' = [work EXCEPT ![a] = "loop"] /\ seen' = [seen EXCEPT ![a] = 0]
        /\ UNCHANGED h
    BY <1>4 DEF CasWaiting, GoTo
  <2>2. /\ h' \in [Nodes(g) -> Nat] /\ "loop" \in WorkerLabels \ {"idle"} /\ 0 \in Nat
        /\ "loop" \notin {"cas", "deliver"}
    BY <2>1 DEF IInv, TypeOK, WorkerLabels
  <2> QED
    BY <1>1, <2>1, <2>2, ErosionStepKeeps, ZenonT(60)
<1> QED
  BY <1>3, <1>4

\* The only step that writes flow[]: what it adds is part of a promise, which fits,
\* and the slot it takes it from is no edge of the level graph.
LEMMA DeliverKeeps == \A a \in Edges(g) : IInv /\ Deliver(a) => IInv'
<1> SUFFICES ASSUME NEW a \in Edges(g), IInv, Deliver(a) PROVE IInv'
  OBVIOUS
<1> DEFINE c == CommitFlow(a)
<1>1. /\ pc = "erosion" /\ work[a] = "deliver" /\ work[a] # "idle"
      /\ h' = [h EXCEPT ![g.dst[a]] = @ + c]
      /\ flow' = [[flow EXCEPT ![g.rev[a]] = @ - c] EXCEPT ![a] = @ + c]
      /\ remaining' = [remaining EXCEPT ![a] = @ - c]
      /\ seen' = [seen EXCEPT ![a] = 0]
      /\ work' = [work EXCEPT ![a] = "loop"]
      /\ UNCHANGED <<g, maxFlow, pc, dist, levels, level, seenTail, p, l, sent>>
  BY DEF Deliver, GoTo, callVars, graphVars
<1>2. /\ a \in LevelEdgeSet /\ remaining[a] \in Nat /\ remaining[a] <= Residual(g, flow, a)
      /\ c \in Nat /\ c <= remaining[a] /\ g.dst[a] \in Nodes(g) /\ h[g.dst[a]] \in Nat
  BY <1>1, ErosionFacts
<1>3. /\ TypeOK /\ FlowIsFeasible /\ LevelInv /\ WorkInv /\ AttemptInv /\ PromiseInv
      /\ IsCase(g) /\ flow \in [Edges(g) -> Int] /\ remaining \in [Edges(g) -> Nat]
      /\ work \in [Edges(g) -> WorkerLabels] /\ seen \in [Edges(g) -> Nat]
      /\ h \in [Nodes(g) -> Nat]
  BY DEF IInv, TypeOK
<1>4. /\ g.rev[a] \in Edges(g) /\ g.rev[a] # a /\ g.rev[g.rev[a]] = a
      /\ g.rev[a] \notin LevelEdgeSet
  BY <1>1, <1>2, <1>3, SlotFacts, LevelEdgeFacts DEF Phase
<1> HIDE DEF c
<1>5. /\ remaining[a] - c \in Nat /\ h[g.dst[a]] + c \in Nat
      /\ flow[a] \in Int /\ flow[g.rev[a]] \in Int
      /\ flow[a] + c \in Int /\ flow[g.rev[a]] - c \in Int
  BY <1>2, <1>3, <1>4
<1>6. \A b \in Edges(g) :
         /\ flow'[b] = IF b = a THEN flow[a] + c
                       ELSE IF b = g.rev[a] THEN flow[g.rev[a]] - c ELSE flow[b]
         /\ remaining'[b] = IF b = a THEN remaining[a] - c ELSE remaining[b]
  BY <1>1, <1>3, <1>4
<1>7. /\ flow' \in [Edges(g) -> Int] /\ remaining' \in [Edges(g) -> Nat]
      /\ h' \in [Nodes(g) -> Nat] /\ seen' \in [Edges(g) -> Nat]
      /\ work' \in [Edges(g) -> WorkerLabels]
  BY <1>1, <1>2, <1>3, <1>4, <1>5 DEF WorkerLabels
<1>8. TypeOK'
  BY <1>1, <1>3, <1>7 DEF TypeOK
<1>9. FlowIsFeasible'
  <2> SUFFICES ASSUME NEW b \in Edges(g)
               PROVE  flow'[b] <= g.capacity[b] /\ flow'[g.rev[b]] = -flow'[b]
    BY <1>1 DEF FlowIsFeasible, CapacityOK, SkewSymmetry
  <2>1. /\ flow[b] \in Int /\ flow[g.rev[b]] = -flow[b] /\ g.capacity[b] \in Nat
        /\ flow[b] <= g.capacity[b]
        /\ g.rev[b] \in Edges(g) /\ g.rev[b] # b /\ g.rev[g.rev[b]] = b
    BY <1>3, SlotFacts DEF FlowIsFeasible, CapacityOK, SkewSymmetry
  <2>2. CASE b = a
    <3>1. flow[a] + c <= g.capacity[a]
      BY <1>2, <1>5, <2>1, <2>2 DEF Residual
    <3>2. flow'[b] = flow[b] + c /\ flow'[g.rev[b]] = flow[g.rev[b]] - c
      BY <1>4, <1>6, <2>2
    <3> QED
      BY <1>2, <2>1, <2>2, <3>1, <3>2
  <2>3. CASE b = g.rev[a]
    <3>1. flow'[b] = flow[b] - c /\ flow'[g.rev[b]] = flow[g.rev[b]] + c
      BY <1>4, <1>6, <2>3
    <3> QED
      BY <1>2, <2>1, <3>1
  <2>4. CASE b # a /\ b # g.rev[a]
    <3>1. g.rev[b] # a /\ g.rev[b] # g.rev[a]
      BY <1>4, <2>1, <2>4
    <3>2. flow'[b] = flow[b] /\ flow'[g.rev[b]] = flow[g.rev[b]]
      BY <1>6, <2>1, <2>4, <3>1
    <3> QED
      BY <2>1, <3>2
  <2> QED
    BY <2>2, <2>3, <2>4
<1>10. LevelInv' /\ WorkInv' /\ AttemptInv'
  <2>1. LevelInv'
    BY <1>1, <1>3 DEF LevelInv
  <2>2. WorkInv'
    BY <1>1, <1>3, WorkerFacts DEF WorkInv, InLoops
  <2>3. AttemptInv'
    <3> SUFFICES ASSUME NEW b \in Edges(g), work'[b] \in {"cas", "deliver"}
                 PROVE  seen'[b] > 0 /\ remaining'[b] > 0
      BY <1>1 DEF AttemptInv
    <3>1. b # a
      BY <1>1, <1>3
    <3>2. work'[b] = work[b] /\ seen'[b] = seen[b] /\ remaining'[b] = remaining[b]
      BY <1>1, <1>3, <3>1
    <3> QED
      BY <1>1, <1>3, <3>2 DEF AttemptInv
  <2> QED
    BY <2>1, <2>2, <2>3
<1>11. PromiseInv'
  <2> SUFFICES ASSUME NEW b \in LevelEdgeSet PROVE remaining'[b] <= g.capacity[b] - flow'[b]
    BY <1>1 DEF PromiseInv, LevelEdgeSet, Residual
  <2>1. b \in Edges(g) /\ b # g.rev[a] /\ remaining[b] <= Residual(g, flow, b)
    BY <1>1, <1>3, <1>4, LevelEdgeFacts DEF PromiseInv, Phase
  <2>2. g.capacity[b] \in Nat /\ flow[b] \in Int /\ remaining[b] \in Nat
    BY <1>3, <2>1, SlotFacts
  <2>3. CASE b = a
    BY <1>2, <1>5, <1>6, <2>1, <2>2, <2>3 DEF Residual
  <2>4. CASE b # a
    BY <1>6, <2>1, <2>4 DEF Residual
  <2> QED
    BY <2>3, <2>4
<1> QED
  BY <1>8, <1>9, <1>10, <1>11 DEF IInv

-------------------------------------------------------------------------------
(* Every step.                                                             *)

LEMMA StutterKeeps == IInv /\ UNCHANGED vars => IInv'
<1> SUFFICES ASSUME IInv, UNCHANGED vars PROVE IInv'
  OBVIOUS
<1>1. /\ UNCHANGED <<g, maxFlow, flow, pc, dist, levels, level, work, remaining, seen>>
      /\ UNCHANGED <<seenTail, h, p, l, sent>>
  BY DEF vars, callVars, graphVars, localVars, tideVars
<1>2. TypeOK'
  BY <1>1 DEF IInv, TypeOK
<1> QED
  BY <1>1, <1>2 DEF IInv, FlowIsFeasible, CapacityOK, SkewSymmetry, LevelInv, WorkInv,
                    AttemptInv, PromiseInv, LevelEdgeSet, Residual, SendBack, CommitFlow

LEMMA NextKeepsIInv == IInv /\ [Next]_vars => IInv'
<1> SUFFICES ASSUME IInv, [Next]_vars PROVE IInv'
  OBVIOUS
<1>1. CASE Master
  BY <1>1, AllocateKeeps, BuildLevelGraphKeeps, TideStartKeeps, HighTideLevelKeeps,
     HighTideEndKeeps, LowTideLevelKeeps, LowTideEndKeeps, ErosionLevelKeeps,
     ErosionEndKeeps, AddAndRepeatKeeps, RebuildKeeps DEF Master
<1>2. ASSUME NEW a \in Edges(g), Worker(a) PROVE IInv'
  BY <1>2, HighTideKeeps, ReadHeadKeeps, ReadTailKeeps, CasHeadKeeps, CasTailKeeps,
     RestoreKeeps, ReadWaitingKeeps, CasWaitingKeeps, DeliverKeeps DEF Worker
<1>3. CASE UNCHANGED vars
  BY <1>3, StutterKeeps
<1> QED
  BY <1>1, <1>2, <1>3 DEF Next

-------------------------------------------------------------------------------
(* The demand is handed on from the sink to the source.                    *)

\* Only the source has distance 0.
LEMMA SourceDistance ==
  ASSUME NEW c, IsCase(c), NEW f, NEW x \in Nodes(c)
  PROVE  Distances(c, f)[x] = 0 <=> x = c.source
<1> DEFINE outside(y) == Cardinality({k \in 1 .. c.nodeCount : y \notin Balls(c, f)[k]})
<1>1. outside(x) \in Nat
  <2>1. IsFiniteSet(1 .. c.nodeCount)
    <3>1. 1 \in Int /\ c.nodeCount \in Int
      BY DEF IsCase
    <3> QED
      BY <3>1, FS_Interval
  <2>2. IsFiniteSet({k \in 1 .. c.nodeCount : x \notin Balls(c, f)[k]})
    BY <2>1, FS_Subset
  <2> QED
    BY <2>2, FS_CardinalityType
<1>2. Distances(c, f) = [y \in Nodes(c) |->
                           IF y = c.source THEN 0
                           ELSE IF outside(y) = c.nodeCount THEN -1 ELSE outside(y) + 1]
  BY DEF Distances
<1> HIDE DEF outside
<1> QED
  BY <1>1, <1>2

\* The parts of the invariant a step refers to.
LEMMA TideFacts ==
  ASSUME TideInv
  PROVE  /\ IInv /\ TypeOK /\ IsCase(g) /\ LevelInv /\ WorkInv /\ AttemptInv
         /\ RouteInv /\ SupplyInv /\ DemandInv /\ HandoverInv
         /\ h \in [Nodes(g) -> Nat] /\ l \in [Nodes(g) -> Nat] /\ p \in [Edges(g) -> Nat]
         /\ remaining \in [Edges(g) -> Nat] /\ seen \in [Edges(g) -> Nat]
         /\ seenTail \in [Edges(g) -> Nat] /\ work \in [Edges(g) -> WorkerLabels]
         /\ g.source \in Nodes(g) /\ g.sink \in Nodes(g) /\ g.source # g.sink
         /\ dist \in [Nodes(g) -> Nat \cup {-1}] /\ levels \in Seq(SUBSET Edges(g))
         /\ pc \in InLoops => level \in 1 .. Len(levels)
<1>1. IInv /\ RouteInv /\ SupplyInv /\ DemandInv /\ HandoverInv
  BY DEF TideInv
<1>2. TypeOK /\ IsCase(g) /\ LevelInv /\ WorkInv /\ AttemptInv
  BY <1>1 DEF IInv, TypeOK
<1> QED
  BY <1>1, <1>2 DEF TypeOK, IsCase

\* Where the edges of a level lead.
LEMMA OnLevel ==
  ASSUME TypeOK, LevelInv, pc \in Phase, NEW k \in 1 .. Len(levels), NEW a \in levels[k]
  PROVE  /\ a \in Edges(g)
         /\ g.src[a] \in Nodes(g) /\ g.dst[a] \in Nodes(g)
         /\ dist[g.src[a]] = k - 1 /\ dist[g.dst[a]] = k
<1>1. levels \in Seq(SUBSET Edges(g)) /\ k \in DOMAIN levels /\ IsCase(g)
  BY DEF TypeOK
<1>2. a \in Edges(g)
  BY <1>1
<1> QED
  BY <1>1, <1>2, SlotFacts DEF LevelInv

-------------------------------------------------------------------------------
(* Steps of the master.                                                    *)

\* Steps that end outside the high and the low tide owe no more than RouteInv.
LEMMA QuietStep ==
  ASSUME TideInv, IInv', pc' \notin {"high", "low"}, pc \in Phase \/ pc' \notin Phase,
         UNCHANGED <<g, dist, levels>>
  PROVE  TideInv'
<1>1. RouteInv'
  BY DEF TideInv, RouteInv
<1> QED
  BY <1>1 DEF TideInv, SupplyInv, DemandInv, HandoverInv

LEMMA AllocateKeepsTide == TideInv /\ Allocate => TideInv'
<1> SUFFICES ASSUME TideInv, Allocate PROVE TideInv'
  OBVIOUS
<1>1. IInv'
  BY AllocateKeeps DEF TideInv
<1>2. pc' \in {"build", "failed"} /\ UNCHANGED <<g, dist, levels>>
  BY DEF Allocate, graphVars
<1> QED
  BY <1>1, <1>2, QuietStep DEF Phase

LEMMA BuildKeepsTide == TideInv /\ BuildLevelGraph => TideInv'
<1> SUFFICES ASSUME TideInv, BuildLevelGraph PROVE TideInv'
  OBVIOUS
<1>1. IInv' /\ IsCase(g)
  BY BuildLevelGraphKeeps, TideFacts DEF TideInv
<1>2. pc' \in {"done", "tide"} /\ UNCHANGED g
  BY DEF BuildLevelGraph, callVars
<1>3. RouteInv'
  <2> SUFFICES ASSUME pc' = "tide"
               PROVE  /\ dist'[g.sink] = Len(levels')
                      /\ \A x \in Nodes(g) : dist'[x] = 0 <=> x = g.source
    BY <1>2 DEF RouteInv, Phase
  <2>1. PICK E :
          /\ dist' = Distances(g, flow)
          /\ Distances(g, flow)[g.sink] # -1
          /\ levels' = [k \in 1 .. Distances(g, flow)[g.sink] |->
               {a \in Between(g, E, CoReach(g, E)) : Distances(g, flow)[g.src[a]] = k - 1}]
    BY DEF BuildLevelGraph
  <2>2. Distances(g, flow)[g.sink] \in Nat
    BY <1>1, <2>1, SinkDistance DEF IsCase
  <2>3. Len(levels') = Distances(g, flow)[g.sink]
    BY <2>1, <2>2
  <2> QED
    BY <1>1, <2>1, <2>3, SourceDistance
<1> QED
  BY <1>1, <1>2, <1>3 DEF TideInv, SupplyInv, DemandInv, HandoverInv

LEMMA TideStartKeepsTide == TideInv /\ TideStart => TideInv'
<1> SUFFICES ASSUME TideInv, TideStart PROVE TideInv'
  OBVIOUS
<1>1. IInv' /\ g.source \in Nodes(g)
  BY TideStartKeeps, TideFacts DEF TideInv
<1>2. /\ pc = "tide" /\ pc' = "high" /\ UNCHANGED <<g, dist, levels>>
      /\ h' = [x \in Nodes(g) |-> IF x = g.source THEN LLongMax ELSE 0]
  BY DEF TideStart, callVars, graphVars
<1>3. RouteInv'
  BY <1>2 DEF TideInv, RouteInv, Phase
<1>4. SupplyInv'
  BY <1>2 DEF SupplyInv
<1> QED
  BY <1>1, <1>2, <1>3, <1>4 DEF TideInv, DemandInv, HandoverInv

LEMMA HighTideLevelKeepsTide == TideInv /\ HighTideLevel => TideInv'
<1> SUFFICES ASSUME TideInv, HighTideLevel PROVE TideInv'
  OBVIOUS
<1>1. IInv' /\ level \in 1 .. Len(levels)
  BY HighTideLevelKeeps, TideFacts DEF TideInv, HighTideLevel, InLoops
<1>2. /\ pc = "high" /\ pc' = "high" /\ level' = level + 1
      /\ UNCHANGED <<g, dist, levels, h, p>>
  BY DEF HighTideLevel, Begin, callVars, graphVars, tideVars
<1>3. RouteInv'
  BY <1>2 DEF TideInv, RouteInv
<1>4. SupplyInv'
  <2> SUFFICES ASSUME NEW x \in Nodes(g) \ {g.source}, h[x] > 0
               PROVE  /\ dist[x] \in 1 .. level'
                      /\ \E a \in levels[dist[x]] :
                           /\ g.dst[a] = x
                           /\ dist[x] < level' \/ work'[a] = "finished"
                           /\ p[a] > 0 /\ h[g.src[a]] > 0
    BY <1>2 DEF SupplyInv
  <2>1. /\ dist[x] \in 1 .. level
        /\ \E a \in levels[dist[x]] : g.dst[a] = x /\ p[a] > 0 /\ h[g.src[a]] > 0
    BY <1>2, TideFacts DEF SupplyInv
  <2>2. dist[x] < level'
    BY <1>1, <1>2, <2>1
  <2> QED
    BY <1>1, <1>2, <2>1, <2>2
<1> QED
  BY <1>1, <1>2, <1>3, <1>4 DEF TideInv, DemandInv, HandoverInv

\* The sink asks for what has come to it, and an edge into it has promised some of it.
LEMMA HighTideEndKeepsTide == TideInv /\ HighTideEnd => TideInv'
<1> SUFFICES ASSUME TideInv, HighTideEnd PROVE TideInv'
  OBVIOUS
<1>1. /\ IInv' /\ level \in 1 .. Len(levels) /\ RouteInv /\ SupplyInv
      /\ h \in [Nodes(g) -> Nat] /\ g.sink \in Nodes(g) \ {g.source}
      /\ dist \in [Nodes(g) -> Nat \cup {-1}]
  BY HighTideEndKeeps, TideFacts DEF TideInv, HighTideEnd, InLoops
<1>2. /\ pc = "high" /\ level = Len(levels) /\ pc' \in {"returned", "low"}
      /\ UNCHANGED <<g, dist, levels, h, p>>
  BY DEF HighTideEnd, callVars, graphVars
<1>3. CASE pc' = "returned"
  BY <1>1, <1>2, <1>3, QuietStep DEF Phase
<1>4. CASE pc' = "low"
  <2>1. /\ h[g.sink] # 0 /\ level' = level /\ remaining' = p
        /\ l' = [x \in Nodes(g) |-> IF x = g.sink THEN h[g.sink] ELSE 0]
        /\ work' = [a \in Edges(g) |-> IF a \in levels[level] THEN "loop" ELSE "idle"]
    BY <1>2, <1>4 DEF HighTideEnd, Begin
  <2>2. h[g.sink] > 0 /\ dist[g.sink] = level
    BY <1>1, <1>2, <2>1 DEF RouteInv, Phase
  <2>3. RouteInv'
    BY <1>2, <1>4 DEF TideInv, RouteInv, Phase
  <2>4. SupplyInv'
    <3> SUFFICES ASSUME NEW x \in Nodes(g), h[x] > 0, dist[x] \in 1 .. (level - 1)
                 PROVE  \E a \in levels[dist[x]] :
                          g.dst[a] = x /\ p[a] > 0 /\ h[g.src[a]] > 0
      BY <1>2, <1>4, <2>1 DEF SupplyInv
    <3>1. CASE x # g.source
      BY <1>1, <1>2, <3>1 DEF SupplyInv
    <3>2. CASE x = g.source
      BY <1>1, <1>2, <3>2 DEF RouteInv, Phase
    <3> QED
      BY <3>1, <3>2
  <2>5. DemandInv'
    BY <1>1, <1>2, <2>1, <2>2 DEF DemandInv
  <2>6. HandoverInv'
    <3>1. PICK a \in levels[level] : g.dst[a] = g.sink /\ p[a] > 0 /\ h[g.src[a]] > 0
      BY <1>1, <1>2, <2>2 DEF SupplyInv
    <3>2. a \in Edges(g)
      BY <1>1, <1>2, <3>1, OnLevel, TideFacts DEF Phase
    <3>3. SeesDemand(a)'
      BY <1>1, <1>2, <2>1, <2>2, <3>1, <3>2 DEF SeesDemand
    <3> QED
      BY <1>2, <2>1, <3>1, <3>3 DEF HandoverInv
  <2> QED
    BY <1>1, <2>3, <2>4, <2>5, <2>6 DEF TideInv
<1> QED
  BY <1>2, <1>3, <1>4

\* At the barrier no worker holds or looks for a demand, so it has arrived one level
\* further on.
LEMMA DemandHasArrived ==
  ASSUME TideInv, pc = "low", AtBarrier
  PROVE  HasArrived
BY DEF TideInv, HandoverInv, HoldsDemand, SeesDemand, AtBarrier

LEMMA LowTideLevelKeepsTide == TideInv /\ LowTideLevel => TideInv'
<1> SUFFICES ASSUME TideInv, LowTideLevel PROVE TideInv'
  OBVIOUS
<1>1. /\ IInv' /\ level \in 1 .. Len(levels) /\ SupplyInv /\ DemandInv
      /\ TypeOK /\ LevelInv /\ dist \in [Nodes(g) -> Nat \cup {-1}]
      /\ pc = "low" /\ AtBarrier /\ level > 1 /\ HasArrived
  BY LowTideLevelKeeps, TideFacts, DemandHasArrived DEF TideInv, LowTideLevel, InLoops
<1>2. /\ pc' = "low" /\ level' = level - 1
      /\ work' = [a \in Edges(g) |-> IF a \in levels[level - 1] THEN "loop" ELSE "idle"]
      /\ UNCHANGED <<g, dist, levels, h, p, l, remaining>>
  BY DEF LowTideLevel, Begin, callVars, graphVars, localVars, tideVars
<1>3. RouteInv'
  BY <1>1, <1>2 DEF TideInv, RouteInv
<1>4. SupplyInv'
  BY <1>1, <1>2 DEF SupplyInv
<1>5. DemandInv'
  BY <1>1, <1>2 DEF DemandInv
<1>6. HandoverInv'
  <2>1. PICK x \in Nodes(g) : dist[x] = level - 1 /\ l[x] > 0
    BY <1>1 DEF HasArrived
  <2>2. h[x] > 0 /\ dist[x] \in 1 .. (level - 1)
    BY <1>1, <2>1 DEF DemandInv
  <2>3. PICK a \in levels[dist[x]] : g.dst[a] = x /\ remaining[a] > 0 /\ h[g.src[a]] > 0
    BY <1>1, <2>2 DEF SupplyInv
  <2>4. a \in levels[level - 1] /\ level - 1 \in 1 .. Len(levels)
    BY <1>1, <2>1, <2>3
  <2>5. a \in Edges(g)
    BY <1>1, <2>4, OnLevel DEF Phase
  <2>6. SeesDemand(a)'
    BY <1>2, <2>1, <2>3, <2>4, <2>5 DEF SeesDemand
  <2> QED
    BY <1>2, <2>4, <2>6 DEF HandoverInv
<1> QED
  BY <1>1, <1>3, <1>4, <1>5, <1>6 DEF TideInv

\* The low tide of the source is positive when the last level of the low tide is over.
LEMMA DemandReachesSource == TideInv => LowTideReachesSource
<1> SUFFICES ASSUME TideInv, pc = "low", level = 1, AtBarrier PROVE l[g.source] > 0
  BY DEF LowTideReachesSource
<1>1. PICK x \in Nodes(g) : dist[x] = level - 1 /\ l[x] > 0
  BY DemandHasArrived DEF HasArrived
<1>2. dist[x] = 0
  BY <1>1
<1>3. x = g.source
  BY <1>2 DEF TideInv, RouteInv, Phase
<1> QED
  BY <1>1, <1>3

LEMMA LowTideEndKeepsTide == TideInv /\ LowTideEnd => TideInv'
<1> SUFFICES ASSUME TideInv, LowTideEnd PROVE TideInv'
  OBVIOUS
<1>1. IInv'
  BY LowTideEndKeeps DEF TideInv
<1>2. pc = "low" /\ pc' = "erosion" /\ UNCHANGED <<g, dist, levels>>
  BY DEF LowTideEnd, callVars, graphVars
<1> QED
  BY <1>1, <1>2, QuietStep DEF Phase

LEMMA ErosionLevelKeepsTide == TideInv /\ ErosionLevel => TideInv'
<1> SUFFICES ASSUME TideInv, ErosionLevel PROVE TideInv'
  OBVIOUS
<1>1. IInv'
  BY ErosionLevelKeeps DEF TideInv
<1>2. pc = "erosion" /\ pc' = "erosion" /\ UNCHANGED <<g, dist, levels>>
  BY DEF ErosionLevel, callVars, graphVars
<1> QED
  BY <1>1, <1>2, QuietStep DEF Phase

LEMMA ErosionEndKeepsTide == TideInv /\ ErosionEnd => TideInv'
<1> SUFFICES ASSUME TideInv, ErosionEnd PROVE TideInv'
  OBVIOUS
<1>1. IInv'
  BY ErosionEndKeeps DEF TideInv
<1>2. pc = "erosion" /\ pc' = "returned" /\ UNCHANGED <<g, dist, levels>>
  BY DEF ErosionEnd, callVars, graphVars
<1> QED
  BY <1>1, <1>2, QuietStep DEF Phase

LEMMA AddAndRepeatKeepsTide == TideInv /\ AddAndRepeat => TideInv'
<1> SUFFICES ASSUME TideInv, AddAndRepeat PROVE TideInv'
  OBVIOUS
<1>1. IInv'
  BY AddAndRepeatKeeps DEF TideInv
<1>2. pc = "returned" /\ pc' = "tide" /\ UNCHANGED <<g, dist, levels>>
  BY DEF AddAndRepeat, graphVars
<1> QED
  BY <1>1, <1>2, QuietStep DEF Phase

LEMMA RebuildKeepsTide == TideInv /\ Rebuild => TideInv'
<1> SUFFICES ASSUME TideInv, Rebuild PROVE TideInv'
  OBVIOUS
<1>1. IInv'
  BY RebuildKeeps DEF TideInv
<1>2. pc' = "build" /\ UNCHANGED <<g, dist, levels>>
  BY DEF Rebuild, callVars, graphVars
<1> QED
  BY <1>1, <1>2, QuietStep DEF Phase

-------------------------------------------------------------------------------
(* Steps of a worker.                                                      *)

\* A promise is water only if there is water at its tail.
LEMMA HighTideKeepsTide == \A a \in Edges(g) : TideInv /\ HighTide(a) => TideInv'
<1> SUFFICES ASSUME NEW a \in Edges(g), TideInv, HighTide(a) PROVE TideInv'
  OBVIOUS
<1>1. /\ IInv' /\ level \in 1 .. Len(levels) /\ SupplyInv
      /\ TypeOK /\ LevelInv /\ WorkInv
      /\ dist \in [Nodes(g) -> Nat \cup {-1}] /\ levels \in Seq(SUBSET Edges(g))
      /\ work \in [Edges(g) -> WorkerLabels]
      /\ h \in [Nodes(g) -> Nat] /\ p \in [Edges(g) -> Nat]
  BY HighTideKeeps, TideFacts DEF TideInv, HighTide, InLoops
<1>2. /\ pc = "high" /\ pc' = "high" /\ work[a] = "loop"
      /\ UNCHANGED <<g, dist, levels, level>>
      /\ work' = [work EXCEPT ![a] = "finished"]
      /\ p' = [p EXCEPT ![a] = Promise(a)]
      /\ h' = [h EXCEPT ![g.dst[a]] = @ + Promise(a)]
  BY DEF HighTide, GoTo, callVars, graphVars
<1>3. a \in levels[level]
  BY <1>1, <1>2 DEF WorkInv, InLoops
<1>4. /\ g.src[a] \in Nodes(g) /\ g.dst[a] \in Nodes(g)
      /\ dist[g.src[a]] = level - 1 /\ dist[g.dst[a]] = level
  BY <1>1, <1>2, <1>3, OnLevel DEF Phase
<1>5. Promise(a) \in Nat /\ Promise(a) <= h[g.src[a]]
  BY <1>1, <1>4, ResidualFacts DEF Promise, Lesser, TideInv, IInv
<1>6. RouteInv'
  BY <1>2 DEF TideInv, RouteInv
<1>7. SupplyInv'
  <2> SUFFICES ASSUME NEW x \in Nodes(g) \ {g.source}, h'[x] > 0
               PROVE  /\ dist[x] \in 1 .. level
                      /\ \E b \in levels[dist[x]] :
                           /\ g.dst[b] = x
                           /\ dist[x] < level \/ work'[b] = "finished"
                           /\ p'[b] > 0 /\ h'[g.src[b]] > 0
    BY <1>2 DEF SupplyInv
  <2>1. g.src[a] # g.dst[a]
    BY <1>1, <1>4
  <2>2. CASE x = g.dst[a] /\ Promise(a) > 0
    <3>1. p'[a] > 0 /\ work'[a] = "finished"
      BY <1>1, <1>2, <2>2
    <3>2. h'[g.src[a]] = h[g.src[a]] /\ h[g.src[a]] > 0
      BY <1>1, <1>2, <1>4, <1>5, <2>1, <2>2
    <3>3. dist[x] = level
      BY <1>4, <2>2
    <3> QED
      BY <1>1, <1>3, <2>2, <3>1, <3>2, <3>3
  <2>3. CASE ~(x = g.dst[a] /\ Promise(a) > 0)
    <3>1. h[x] > 0
      BY <1>1, <1>2, <1>5, <2>3
    <3>2. dist[x] \in 1 .. level
      BY <1>2, <3>1 DEF TideInv, SupplyInv
    <3>3. PICK b \in levels[dist[x]] :
            /\ g.dst[b] = x
            /\ dist[x] < level \/ work[b] = "finished"
            /\ p[b] > 0 /\ h[g.src[b]] > 0
      BY <1>2, <3>1 DEF TideInv, SupplyInv
    <3>4. dist[x] \in 1 .. Len(levels)
      BY <1>1, <3>2
    <3>5. /\ b \in Edges(g) /\ g.src[b] \in Nodes(g)
          /\ dist[g.dst[b]] = dist[x]
      BY <1>1, <1>2, <3>3, <3>4, OnLevel DEF Phase
    <3>6. b # a
      BY <1>1, <1>2, <1>4, <3>3
    <3>7. p'[b] = p[b] /\ work'[b] = work[b]
      BY <1>1, <1>2, <3>5, <3>6
    <3>8. h'[g.src[b]] > 0
      BY <1>1, <1>2, <1>5, <3>3, <3>5
    <3> QED
      BY <3>2, <3>3, <3>7, <3>8
  <2> QED
    BY <2>2, <2>3
<1> QED
  BY <1>1, <1>2, <1>6, <1>7 DEF TideInv, DemandInv, HandoverInv

\* A step of the low tide: it keeps the bookkeeping of its own thread, takes nothing
\* from a tail, takes from a head only to hold it, and gives up no demand it sees.
LEMMA LowTideStepKeepsTide ==
  ASSUME TideInv, IInv', pc = "low", NEW a \in Edges(g), work[a] # "idle",
         UNCHANGED <<g, pc, dist, levels, level, h>>,
         \A b \in Edges(g) \ {a} :
           work'[b] = work[b] /\ remaining'[b] = remaining[b] /\ seenTail'[b] = seenTail[b],
         \A x \in Nodes(g) : l'[x] > 0 => h[x] > 0,
         work'[a] \in {"readTail", "casHead", "casTail", "restore"} => h[g.dst[a]] > 0,
         work'[a] \in {"casHead", "casTail", "restore"} => seenTail'[a] <= l'[g.src[a]],
         \A x \in Nodes(g) : dist[x] = level - 1 => l[x] <= l'[x],
         work'[a] = "casTail" \/ \A x \in Nodes(g) : dist[x] = level => l[x] <= l'[x],
         HoldsDemand(a) \/ SeesDemand(a) =>
           HasArrived' \/ HoldsDemand(a)' \/ SeesDemand(a)'
  PROVE  TideInv'
<1>1. /\ TypeOK /\ LevelInv /\ WorkInv /\ SupplyInv /\ DemandInv /\ HandoverInv
      /\ level \in 1 .. Len(levels) /\ levels \in Seq(SUBSET Edges(g))
      /\ dist \in [Nodes(g) -> Nat \cup {-1}] /\ l \in [Nodes(g) -> Nat]
      /\ seenTail \in [Edges(g) -> Nat]
  BY TideFacts DEF InLoops
<1>2. l' \in [Nodes(g) -> Nat]
  BY DEF IInv, TypeOK
<1>3. a \in levels[level]
  BY <1>1 DEF WorkInv, InLoops
<1>4. \A b \in levels[level] :
        /\ b \in Edges(g) /\ g.src[b] \in Nodes(g) /\ g.dst[b] \in Nodes(g)
        /\ dist[g.src[b]] = level - 1 /\ dist[g.dst[b]] = level
  BY <1>1, OnLevel DEF Phase
<1>5. RouteInv'
  BY DEF TideInv, RouteInv
<1>6. SupplyInv'
  <2> SUFFICES ASSUME NEW x \in Nodes(g), h[x] > 0, dist[x] \in 1 .. (level - 1)
               PROVE  \E b \in levels[dist[x]] :
                        g.dst[b] = x /\ remaining'[b] > 0 /\ h[g.src[b]] > 0
    BY DEF SupplyInv
  <2>1. PICK b \in levels[dist[x]] : g.dst[b] = x /\ remaining[b] > 0 /\ h[g.src[b]] > 0
    BY <1>1 DEF SupplyInv
  <2>2. dist[x] \in 1 .. Len(levels)
    BY <1>1
  <2>3. b \in Edges(g)
    BY <1>1, <2>2, OnLevel DEF Phase
  <2>4. b # a
    BY <1>1, <1>3, <1>4, <2>1
  <2> QED
    BY <2>1, <2>3, <2>4
<1>7. DemandInv'
  <2> SUFFICES ASSUME NEW b \in Edges(g)
               PROVE  /\ work'[b] \in {"readTail", "casHead", "casTail", "restore"} =>
                           h[g.dst[b]] > 0
                      /\ work'[b] \in {"casHead", "casTail", "restore"} =>
                           seenTail'[b] <= l'[g.src[b]]
    BY DEF DemandInv
  <2>1. CASE b = a
    BY <2>1
  <2>2. CASE b # a
    <3>1. work[b] \in {"casHead", "casTail", "restore"} =>
            /\ seenTail[b] <= l[g.src[b]] /\ b \in levels[level]
            /\ seenTail[b] \in Nat
      BY <1>1 DEF DemandInv, WorkInv, InLoops
    <3>2. b \in levels[level] =>
            /\ l[g.src[b]] <= l'[g.src[b]]
            /\ l[g.src[b]] \in Nat /\ l'[g.src[b]] \in Nat
      BY <1>1, <1>2, <1>4
    <3>3. work'[b] = work[b] /\ seenTail'[b] = seenTail[b]
      BY <2>2
    <3>4. work[b] \in {"readTail", "casHead", "casTail", "restore"} => h[g.dst[b]] > 0
      BY <1>1 DEF DemandInv
    <3> QED
      BY <3>1, <3>2, <3>3, <3>4
  <2> QED
    BY <2>1, <2>2
<1>8. HandoverInv'
  <2> SUFFICES HasArrived' \/ \E b \in levels[level] : HoldsDemand(b)' \/ SeesDemand(b)'
    BY DEF HandoverInv, HoldsDemand, SeesDemand
  <2>1. CASE HasArrived
    <3>1. PICK x \in Nodes(g) : dist[x] = level - 1 /\ l[x] > 0
      BY <2>1 DEF HasArrived
    <3>2. l'[x] > 0
      BY <1>1, <1>2, <3>1
    <3> QED
      BY <3>1, <3>2 DEF HasArrived
  <2>2. CASE HoldsDemand(a) \/ SeesDemand(a)
    BY <1>3, <2>2
  <2>3. CASE work'[a] = "casTail"
    BY <1>3, <2>3 DEF HoldsDemand
  <2>4. ASSUME work'[a] # "casTail",
               NEW b \in levels[level], b # a, HoldsDemand(b) \/ SeesDemand(b)
        PROVE  HoldsDemand(b)' \/ SeesDemand(b)'
    <3>1. /\ work'[b] = work[b] /\ remaining'[b] = remaining[b]
          /\ l[g.dst[b]] <= l'[g.dst[b]]
          /\ l[g.dst[b]] \in Nat /\ l'[g.dst[b]] \in Nat
      BY <1>1, <1>2, <1>4, <2>4
    <3> QED
      BY <2>4, <3>1 DEF HoldsDemand, SeesDemand
  <2> QED
    BY <1>1, <2>1, <2>2, <2>3, <2>4 DEF HandoverInv
<1> QED
  BY <1>5, <1>6, <1>7, <1>8 DEF TideInv

\* What a worker of the low tide works on.
LEMMA ThreadFacts ==
  ASSUME TideInv, pc = "low", NEW a \in Edges(g), work[a] # "idle"
  PROVE  /\ g.src[a] \in Nodes(g) /\ g.dst[a] \in Nodes(g)
         /\ dist[g.src[a]] = level - 1 /\ dist[g.dst[a]] = level
         /\ level \in Nat /\ g.src[a] # g.dst[a]
         /\ l \in [Nodes(g) -> Nat] /\ h \in [Nodes(g) -> Nat]
         /\ remaining \in [Edges(g) -> Nat] /\ seen \in [Edges(g) -> Nat]
         /\ seenTail \in [Edges(g) -> Nat] /\ work \in [Edges(g) -> WorkerLabels]
         /\ \A x \in Nodes(g) : l[x] > 0 => h[x] > 0
         /\ work[a] \in {"readTail", "casHead", "casTail", "restore"} => h[g.dst[a]] > 0
         /\ work[a] \in {"casHead", "casTail", "restore"} =>
              /\ seenTail[a] <= l[g.src[a]]
              /\ SendBack(a) \in Nat /\ SendBack(a) > 0 /\ h[g.src[a]] > 0
<1>1. /\ TypeOK /\ LevelInv /\ WorkInv /\ AttemptInv /\ DemandInv /\ IInv
      /\ level \in 1 .. Len(levels) /\ levels \in Seq(SUBSET Edges(g))
      /\ l \in [Nodes(g) -> Nat] /\ h \in [Nodes(g) -> Nat]
      /\ remaining \in [Edges(g) -> Nat] /\ seen \in [Edges(g) -> Nat]
      /\ seenTail \in [Edges(g) -> Nat] /\ work \in [Edges(g) -> WorkerLabels]
  BY TideFacts DEF InLoops
<1>2. a \in levels[level]
  BY <1>1 DEF WorkInv, InLoops
<1>3. /\ g.src[a] \in Nodes(g) /\ g.dst[a] \in Nodes(g)
      /\ dist[g.src[a]] = level - 1 /\ dist[g.dst[a]] = level
  BY <1>1, <1>2, OnLevel DEF Phase
<1>4. level \in Nat /\ g.src[a] # g.dst[a]
  BY <1>1, <1>3
<1>5. /\ \A x \in Nodes(g) : l[x] > 0 => h[x] > 0
      /\ work[a] \in {"readTail", "casHead", "casTail", "restore"} => h[g.dst[a]] > 0
      /\ work[a] \in {"casHead", "casTail", "restore"} => seenTail[a] <= l[g.src[a]]
  BY <1>1 DEF DemandInv
<1>6. work[a] \in {"casHead", "casTail", "restore"} =>
        seen[a] > 0 /\ remaining[a] > 0 /\ h[g.src[a]] > seenTail[a]
  BY <1>1 DEF AttemptInv
<1>7. /\ seen[a] \in Nat /\ remaining[a] \in Nat /\ seenTail[a] \in Nat
      /\ h[g.src[a]] \in Nat
  BY <1>1, <1>3
<1>8. ASSUME seen[a] > 0, remaining[a] > 0, h[g.src[a]] > seenTail[a]
      PROVE  SendBack(a) \in Nat /\ SendBack(a) > 0 /\ h[g.src[a]] > 0
  BY <1>7, <1>8 DEF SendBack, Lesser
<1> QED
  BY <1>1, <1>3, <1>4, <1>5, <1>6, <1>8

\* A worker that gives up does no harm if it sees no demand or another one has
\* already brought some to its tail.
LEMMA FinishKeepsTide ==
  ASSUME TideInv, IInv', pc = "low", NEW a \in Edges(g), work[a] \in {"loop", "readTail"},
         Finish(a), UNCHANGED <<g, pc, dist, levels, level, h, l>>,
         SeesDemand(a) => l[g.src[a]] > 0
  PROVE  TideInv'
<1>1. /\ work' = [work EXCEPT ![a] = "finished"]
      /\ remaining' = [remaining EXCEPT ![a] = 0]
      /\ seenTail' = [seenTail EXCEPT ![a] = 0]
  BY DEF Finish, Forget, GoTo
<1>2. /\ g.src[a] \in Nodes(g) /\ dist[g.src[a]] = level - 1
      /\ l \in [Nodes(g) -> Nat] /\ remaining \in [Edges(g) -> Nat]
      /\ seenTail \in [Edges(g) -> Nat] /\ work \in [Edges(g) -> WorkerLabels]
      /\ \A x \in Nodes(g) : l[x] > 0 => h[x] > 0
  BY ThreadFacts
<1>3. work'[a] = "finished" /\ work[a] # "idle"
  BY <1>1, <1>2
<1>4. \A b \in Edges(g) \ {a} :
        work'[b] = work[b] /\ remaining'[b] = remaining[b] /\ seenTail'[b] = seenTail[b]
  BY <1>1, <1>2
<1>5. \A x \in Nodes(g) : l[x] <= l'[x]
  BY <1>2
<1>6. HoldsDemand(a) \/ SeesDemand(a) => HasArrived'
  BY <1>2 DEF HoldsDemand, HasArrived
<1> QED
  BY <1>2, <1>3, <1>4, <1>5, <1>6, LowTideStepKeepsTide

LEMMA ReadHeadKeepsTide == \A a \in Edges(g) : TideInv /\ ReadHead(a) => TideInv'
<1> SUFFICES ASSUME NEW a \in Edges(g), TideInv, ReadHead(a) PROVE TideInv'
  OBVIOUS
<1>1. IInv' /\ pc = "low" /\ work[a] = "loop" /\ UNCHANGED <<g, pc, dist, levels, level, h, l>>
  BY ReadHeadKeeps DEF TideInv, ReadHead, callVars, graphVars
<1>2. /\ g.dst[a] \in Nodes(g)
      /\ l \in [Nodes(g) -> Nat] /\ work \in [Edges(g) -> WorkerLabels]
      /\ remaining \in [Edges(g) -> Nat]
      /\ \A x \in Nodes(g) : l[x] > 0 => h[x] > 0
  BY <1>1, ThreadFacts
<1>3. CASE IsWanted(a)
  <2>1. /\ work' = [work EXCEPT ![a] = "readTail"] /\ UNCHANGED <<remaining, seenTail>>
        /\ l[g.dst[a]] > 0
    BY <1>3 DEF ReadHead, GoTo, IsWanted
  <2>2. work'[a] = "readTail" /\ \A b \in Edges(g) \ {a} : work'[b] = work[b]
    BY <1>2, <2>1
  <2>3. \A x \in Nodes(g) : l[x] <= l'[x]
    BY <1>1, <1>2
  <2>4. HoldsDemand(a) \/ SeesDemand(a) => SeesDemand(a)'
    BY <1>1, <2>1, <2>2 DEF HoldsDemand, SeesDemand
  <2>5. h[g.dst[a]] > 0
    BY <1>2, <2>1
  <2> QED
    BY <1>1, <1>2, <2>1, <2>2, <2>3, <2>4, <2>5, LowTideStepKeepsTide
<1>4. CASE ~IsWanted(a)
  <2>1. Finish(a)
    BY <1>4 DEF ReadHead
  <2>2. ~SeesDemand(a)
    BY <1>4 DEF IsWanted, SeesDemand
  <2> QED
    BY <1>1, <2>1, <2>2, FinishKeepsTide
<1> QED
  BY <1>3, <1>4

LEMMA ReadTailKeepsTide == \A a \in Edges(g) : TideInv /\ ReadTail(a) => TideInv'
<1> SUFFICES ASSUME NEW a \in Edges(g), TideInv, ReadTail(a) PROVE TideInv'
  OBVIOUS
<1>1. IInv' /\ pc = "low" /\ work[a] = "readTail" /\ UNCHANGED <<g, pc, dist, levels, level, h, l>>
  BY ReadTailKeeps DEF TideInv, ReadTail, callVars, graphVars
<1>2. /\ g.src[a] \in Nodes(g) /\ h[g.dst[a]] > 0
      /\ l \in [Nodes(g) -> Nat] /\ h \in [Nodes(g) -> Nat]
      /\ work \in [Edges(g) -> WorkerLabels] /\ seenTail \in [Edges(g) -> Nat]
      /\ \A x \in Nodes(g) : l[x] > 0 => h[x] > 0
  BY <1>1, ThreadFacts
<1>3. CASE h[g.src[a]] - l[g.src[a]] > 0
  <2>1. /\ work' = [work EXCEPT ![a] = "casHead"] /\ UNCHANGED remaining
        /\ seenTail' = [seenTail EXCEPT ![a] = l[g.src[a]]]
    BY <1>3 DEF ReadTail, GoTo
  <2>2. /\ work'[a] = "casHead" /\ seenTail'[a] = l[g.src[a]]
        /\ \A b \in Edges(g) \ {a} : work'[b] = work[b] /\ seenTail'[b] = seenTail[b]
    BY <1>2, <2>1
  <2>3. \A x \in Nodes(g) : l[x] <= l'[x]
    BY <1>1, <1>2
  <2>4. seenTail'[a] <= l'[g.src[a]]
    BY <1>1, <1>2, <2>2
  <2>5. HoldsDemand(a) \/ SeesDemand(a) => SeesDemand(a)'
    BY <1>1, <2>1, <2>2 DEF HoldsDemand, SeesDemand
  <2> QED
    BY <1>1, <1>2, <2>1, <2>2, <2>3, <2>4, <2>5, LowTideStepKeepsTide
<1>4. CASE ~(h[g.src[a]] - l[g.src[a]] > 0)
  <2>1. Finish(a)
    BY <1>4 DEF ReadTail
  <2>2. SeesDemand(a) => l[g.src[a]] > 0
    BY <1>2, <1>4 DEF SeesDemand
  <2> QED
    BY <1>1, <2>1, <2>2, FinishKeepsTide
<1> QED
  BY <1>3, <1>4

LEMMA CasHeadKeepsTide == \A a \in Edges(g) : TideInv /\ CasHead(a) => TideInv'
<1> SUFFICES ASSUME NEW a \in Edges(g), TideInv, CasHead(a) PROVE TideInv'
  OBVIOUS
<1>1. /\ IInv' /\ pc = "low" /\ work[a] = "casHead"
      /\ UNCHANGED <<g, pc, dist, levels, level, h, remaining>>
  BY CasHeadKeeps DEF TideInv, CasHead, callVars, graphVars
<1>2. /\ g.src[a] \in Nodes(g) /\ g.dst[a] \in Nodes(g) /\ h[g.dst[a]] > 0
      /\ dist[g.dst[a]] = level /\ g.src[a] # g.dst[a] /\ level \in Nat
      /\ l \in [Nodes(g) -> Nat] /\ work \in [Edges(g) -> WorkerLabels]
      /\ seenTail \in [Edges(g) -> Nat] /\ seenTail[a] <= l[g.src[a]]
      /\ \A x \in Nodes(g) : l[x] > 0 => h[x] > 0
  BY <1>1, ThreadFacts
<1>3. CASE l[g.dst[a]] = seen[a]
  <2>1. /\ work' = [work EXCEPT ![a] = "casTail"] /\ UNCHANGED seenTail
        /\ l' = [l EXCEPT ![g.dst[a]] = @ - SendBack(a)]
    BY <1>3 DEF CasHead, GoTo
  <2>2. work'[a] = "casTail" /\ \A b \in Edges(g) \ {a} : work'[b] = work[b]
    BY <1>2, <2>1
  <2>3. \A x \in Nodes(g) : x # g.dst[a] => l'[x] = l[x]
    BY <1>2, <2>1
  <2>4. \A x \in Nodes(g) : l'[x] > 0 => h[x] > 0
    BY <1>2, <2>3
  <2>5. \A x \in Nodes(g) : dist[x] = level - 1 => l[x] <= l'[x]
    BY <1>2, <2>3
  <2>6. seenTail'[a] <= l'[g.src[a]]
    BY <1>2, <2>1, <2>3
  <2>7. HoldsDemand(a)'
    BY <2>2 DEF HoldsDemand
  <2> QED
    BY <1>1, <1>2, <2>1, <2>2, <2>4, <2>5, <2>6, <2>7, LowTideStepKeepsTide
<1>4. CASE l[g.dst[a]] # seen[a]
  <2>1. /\ work' = [work EXCEPT ![a] = "loop"] /\ UNCHANGED l
        /\ seenTail' = [seenTail EXCEPT ![a] = 0]
    BY <1>4 DEF CasHead, GoTo, Forget
  <2>2. /\ work'[a] = "loop"
        /\ \A b \in Edges(g) \ {a} : work'[b] = work[b] /\ seenTail'[b] = seenTail[b]
    BY <1>2, <2>1
  <2>3. \A x \in Nodes(g) : l[x] <= l'[x]
    BY <1>2, <2>1
  <2>4. HoldsDemand(a) \/ SeesDemand(a) => SeesDemand(a)'
    BY <1>1, <2>1, <2>2 DEF HoldsDemand, SeesDemand
  <2> QED
    BY <1>1, <1>2, <2>1, <2>2, <2>3, <2>4, LowTideStepKeepsTide
<1> QED
  BY <1>3, <1>4

LEMMA CasTailKeepsTide == \A a \in Edges(g) : TideInv /\ CasTail(a) => TideInv'
<1> SUFFICES ASSUME NEW a \in Edges(g), TideInv, CasTail(a) PROVE TideInv'
  OBVIOUS
<1>1. /\ IInv' /\ pc = "low" /\ work[a] = "casTail"
      /\ UNCHANGED <<g, pc, dist, levels, level, h>>
  BY CasTailKeeps DEF TideInv, CasTail, callVars, graphVars
<1>2. /\ g.src[a] \in Nodes(g) /\ g.dst[a] \in Nodes(g)
      /\ h[g.dst[a]] > 0 /\ h[g.src[a]] > 0
      /\ dist[g.src[a]] = level - 1 /\ level \in Nat
      /\ SendBack(a) \in Nat /\ SendBack(a) > 0
      /\ l \in [Nodes(g) -> Nat] /\ work \in [Edges(g) -> WorkerLabels]
      /\ remaining \in [Edges(g) -> Nat]
      /\ seenTail \in [Edges(g) -> Nat] /\ seenTail[a] <= l[g.src[a]]
      /\ \A x \in Nodes(g) : l[x] > 0 => h[x] > 0
  BY <1>1, ThreadFacts
<1>3. CASE TailUnchanged(a)
  <2>1. /\ work' = [work EXCEPT ![a] = "loop"]
        /\ l' = [l EXCEPT ![g.src[a]] = seenTail[a] + SendBack(a)]
        /\ remaining' = [remaining EXCEPT ![a] = @ - SendBack(a)]
        /\ seenTail' = [seenTail EXCEPT ![a] = 0]
        /\ l[g.src[a]] = seenTail[a]
    BY <1>3 DEF CasTail, GoTo, Forget, TailUnchanged
  <2>2. /\ work'[a] = "loop"
        /\ \A b \in Edges(g) \ {a} :
             work'[b] = work[b] /\ seenTail'[b] = seenTail[b] /\ remaining'[b] = remaining[b]
    BY <1>2, <2>1
  <2>3. /\ \A x \in Nodes(g) : x # g.src[a] => l'[x] = l[x]
        /\ l'[g.src[a]] = l[g.src[a]] + SendBack(a)
    BY <1>2, <2>1
  <2>4. l'[g.src[a]] > 0 /\ l[g.src[a]] <= l'[g.src[a]]
    BY <1>2, <2>3
  <2>5. \A x \in Nodes(g) : l'[x] > 0 => h[x] > 0
    BY <1>2, <2>3
  <2>6. \A x \in Nodes(g) : l[x] <= l'[x]
    BY <1>2, <2>3, <2>4
  <2>7. HasArrived'
    BY <1>1, <1>2, <2>4 DEF HasArrived
  <2> QED
    BY <1>1, <2>2, <2>5, <2>6, <2>7, LowTideStepKeepsTide
<1>4. CASE ~TailUnchanged(a)
  <2>1. /\ work' = [work EXCEPT ![a] = "restore"]
        /\ UNCHANGED <<l, remaining, seenTail>> /\ l[g.src[a]] # seenTail[a]
    BY <1>4 DEF CasTail, GoTo, TailUnchanged
  <2>2. work'[a] = "restore" /\ \A b \in Edges(g) \ {a} : work'[b] = work[b]
    BY <1>2, <2>1
  <2>3. \A x \in Nodes(g) : l[x] <= l'[x]
    BY <1>2, <2>1
  <2>4. l'[g.src[a]] > 0
    BY <1>2, <2>1
  <2>5. HasArrived'
    BY <1>1, <1>2, <2>4 DEF HasArrived
  <2> QED
    BY <1>1, <1>2, <2>1, <2>2, <2>3, <2>5, LowTideStepKeepsTide
<1> QED
  BY <1>3, <1>4

LEMMA RestoreKeepsTide == \A a \in Edges(g) : TideInv /\ Restore(a) => TideInv'
<1> SUFFICES ASSUME NEW a \in Edges(g), TideInv, Restore(a) PROVE TideInv'
  OBVIOUS
<1>1. /\ IInv' /\ pc = "low" /\ work[a] = "restore"
      /\ UNCHANGED <<g, pc, dist, levels, level, h, remaining>>
      /\ work' = [work EXCEPT ![a] = "loop"]
      /\ l' = [l EXCEPT ![g.dst[a]] = @ + SendBack(a)]
      /\ seenTail' = [seenTail EXCEPT ![a] = 0]
  BY RestoreKeeps DEF TideInv, Restore, Returned, GoTo, Forget, callVars, graphVars
<1>2. /\ g.dst[a] \in Nodes(g) /\ h[g.dst[a]] > 0 /\ SendBack(a) \in Nat
      /\ l \in [Nodes(g) -> Nat] /\ work \in [Edges(g) -> WorkerLabels]
      /\ seenTail \in [Edges(g) -> Nat]
      /\ \A x \in Nodes(g) : l[x] > 0 => h[x] > 0
  BY <1>1, ThreadFacts
<1>3. /\ work'[a] = "loop"
      /\ \A b \in Edges(g) \ {a} : work'[b] = work[b] /\ seenTail'[b] = seenTail[b]
  BY <1>1, <1>2
<1>4. /\ \A x \in Nodes(g) : x # g.dst[a] => l'[x] = l[x]
      /\ l'[g.dst[a]] = l[g.dst[a]] + SendBack(a)
  BY <1>1, <1>2
<1>5. \A x \in Nodes(g) : l'[x] > 0 => h[x] > 0
  BY <1>2, <1>4
<1>6. \A x \in Nodes(g) : l[x] <= l'[x]
  BY <1>2, <1>4
<1>7. ~HoldsDemand(a) /\ ~SeesDemand(a)
  BY <1>1 DEF HoldsDemand, SeesDemand
<1> QED
  BY <1>1, <1>3, <1>5, <1>6, <1>7, LowTideStepKeepsTide

\* The erosion owes no more than RouteInv.
LEMMA ErosionKeepsTide ==
  \A a \in Edges(g) : TideInv /\ (ReadWaiting(a) \/ CasWaiting(a) \/ Deliver(a)) => TideInv'
<1> SUFFICES ASSUME NEW a \in Edges(g), TideInv, ReadWaiting(a) \/ CasWaiting(a) \/ Deliver(a)
             PROVE  TideInv'
  OBVIOUS
<1>1. IInv'
  BY ReadWaitingKeeps, CasWaitingKeeps, DeliverKeeps DEF TideInv
<1>2. pc = "erosion" /\ pc' = "erosion" /\ UNCHANGED <<g, dist, levels>>
  BY DEF ReadWaiting, CasWaiting, Deliver, callVars, graphVars
<1> QED
  BY <1>1, <1>2, QuietStep DEF Phase

-------------------------------------------------------------------------------
(* Every step.                                                             *)

LEMMA InitEstablishesTide == Init => TideInv
<1> SUFFICES ASSUME Init PROVE TideInv
  OBVIOUS
<1>1. IInv /\ pc = "alloc"
  BY InitEstablishesInvariant DEF Init
<1> QED
  BY <1>1 DEF TideInv, RouteInv, SupplyInv, DemandInv, HandoverInv, Phase

LEMMA StutterKeepsTide == TideInv /\ UNCHANGED vars => TideInv'
<1> SUFFICES ASSUME TideInv, UNCHANGED vars PROVE TideInv'
  OBVIOUS
<1>1. UNCHANGED <<g, pc, dist, levels, level, work, remaining, seenTail, h, p, l>>
  BY DEF vars, callVars, graphVars, localVars, tideVars
<1>2. IInv'
  BY StutterKeeps DEF TideInv
<1> QED
  BY <1>1, <1>2 DEF TideInv, RouteInv, SupplyInv, DemandInv, HandoverInv, HasArrived,
                    HoldsDemand, SeesDemand

\* The step of TideInv, for every step of the solver.
LEMMA NextKeepsTide == TideInv /\ [Next]_vars => TideInv'
<1> SUFFICES ASSUME TideInv, [Next]_vars PROVE TideInv'
  OBVIOUS
<1>1. CASE Master
  BY <1>1, AllocateKeepsTide, BuildKeepsTide, TideStartKeepsTide, HighTideLevelKeepsTide,
     HighTideEndKeepsTide, LowTideLevelKeepsTide, LowTideEndKeepsTide, ErosionLevelKeepsTide,
     ErosionEndKeepsTide, AddAndRepeatKeepsTide, RebuildKeepsTide DEF Master
<1>2. ASSUME NEW a \in Edges(g), Worker(a) PROVE TideInv'
  BY <1>2, HighTideKeepsTide, ReadHeadKeepsTide, ReadTailKeepsTide, CasHeadKeepsTide,
     CasTailKeepsTide, RestoreKeepsTide, ErosionKeepsTide DEF Worker
<1>3. CASE UNCHANGED vars
  BY <1>3, StutterKeepsTide
<1> QED
  BY <1>1, <1>2, <1>3 DEF Next

-------------------------------------------------------------------------------
(* The theorems.                                                           *)

\* The invariant holds in every state of every run: the atomic operations of
\* tidalFlowOpenMP.c suffice on every graph, for any number of threads and in
\* every order of their steps.
THEOREM OpenMPInvariant == Spec => []TideInv
  BY InitEstablishesTide, NextKeepsTide, PTL DEF Spec

\* No tide, promise or rest of a promise is ever negative, whatever the workers
\* read before another one wrote it.
THEOREM OpenMPTypeOK == Spec => []TypeOK
<1>1. TideInv => TypeOK
  BY DEF TideInv, IInv
<1> QED
  BY <1>1, OpenMPInvariant, PTL

\* No interleaving of erosion workers overfills a slot or breaks the pairing of
\* flow[] with rev[].
THEOREM OpenMPFlowIsFeasible == Spec => []FlowIsFeasible
<1>1. TideInv => FlowIsFeasible
  BY DEF TideInv, IInv
<1> QED
  BY <1>1, OpenMPInvariant, PTL

\* The int the loops compute as capacity[i] - flow[i] neither overflows nor is
\* negative.
THEOREM OpenMPResidualFitsInt == Spec => []ResidualFitsInt
<1>1. TideInv => ResidualFitsInt
  <2> SUFFICES ASSUME IInv, NEW a \in Edges(g) PROVE Residual(g, flow, a) \in 0 .. IntMax
    BY DEF ResidualFitsInt, TideInv
  <2>1. TypeOK /\ FlowIsFeasible /\ IsCase(g) /\ IntMax \in Nat
    BY IntAssumption, WidthsAssumption DEF IInv, TypeOK
  <2>2. /\ g.rev[a] \in Edges(g) /\ g.capacity[a] \in Nat
        /\ g.capacity[a] + g.capacity[g.rev[a]] <= IntMax
    BY <2>1, SlotFacts
  <2>3. /\ flow[a] \in Int /\ flow[g.rev[a]] = -flow[a]
        /\ Residual(g, flow, a) \in Nat /\ Residual(g, flow, a) = g.capacity[a] - flow[a]
    BY <2>1, ResidualFacts
  <2>4. flow[g.rev[a]] <= g.capacity[g.rev[a]] /\ g.capacity[g.rev[a]] \in Nat
    BY <2>1, <2>2, SlotFacts DEF FlowIsFeasible, CapacityOK
  <2> QED
    BY <2>1, <2>2, <2>3, <2>4
<1> QED
  BY <1>1, OpenMPInvariant, PTL

\* By their distances the tails of a level are not among its heads, and no two of its
\* edges share a slot.
LEMMA InvariantExcludesRaces == IInv => NoDataRace
<1> SUFFICES ASSUME IInv, pc \in InLoops, NEW a \in levels[level], NEW b \in levels[level]
             PROVE  /\ g.src[a] # g.dst[b]
                    /\ a # b => {a, g.rev[a]} \cap {b, g.rev[b]} = {}
  BY DEF NoDataRace
<1>1. /\ TypeOK /\ LevelInv /\ IsCase(g) /\ pc \in Phase
      /\ level \in DOMAIN levels /\ level \in Nat
  <2>1. TypeOK /\ LevelInv /\ IsCase(g) /\ pc \in Phase
    BY DEF IInv, TypeOK, Phase, InLoops
  <2>2. level \in 1 .. Len(levels) /\ level \in Nat /\ levels \in Seq(SUBSET Edges(g))
    BY <2>1 DEF TypeOK
  <2> QED
    BY <2>1, <2>2
<1>2. a \in LevelEdgeSet /\ b \in LevelEdgeSet
  BY <1>1 DEF LevelEdgeSet
<1>3. a \in Edges(g) /\ b \in Edges(g) /\ g.rev[a] \notin LevelEdgeSet
  BY <1>1, <1>2, LevelEdgeFacts
<1>4. dist[g.src[a]] = level - 1 /\ dist[g.dst[b]] = level
  BY <1>1 DEF LevelInv
<1>5. g.rev[g.rev[a]] = a /\ g.rev[g.rev[b]] = b
  BY <1>1, <1>3, SlotFacts
<1> QED
  BY <1>1, <1>2, <1>3, <1>4, <1>5

\* What the loops read and write without atomic operations has one owner: the tide
\* of a tail is not written by the level that reads it, and no two workers share
\* a slot of flow[].
THEOREM OpenMPNoDataRace == Spec => []NoDataRace
<1>1. TideInv => NoDataRace
  BY InvariantExcludesRaces DEF TideInv
<1> QED
  BY <1>1, OpenMPInvariant, PTL

\* Whatever workers give up on, a high tide that reached the sink is answered at the
\* source.
THEOREM OpenMPLowTideReachesSource == Spec => []LowTideReachesSource
  BY DemandReachesSource, OpenMPInvariant, PTL

-------------------------------------------------------------------------------
(* The amounts of a tide cycle.                                            *)

\* One term of a sum has changed.
LEMMA ChangedSum ==
  ASSUME NEW f, NEW k, NEW S, IsFiniteSet(S), NEW a,
         \A b \in S : f[b] \in Int /\ k[b] \in Int,
         \A b \in S \ {a} : k[b] = f[b]
  PROVE  SumOver(k, S) = SumOver(f, S) + (IF a \in S THEN k[a] - f[a] ELSE 0)
<1>0. SumOver(f, S) \in Int
  BY SumType
<1>1. CASE a \in S
  <2>1. SumOver(k, S) = SumOver(f, S) + k[a] - f[a]
    BY <1>1, SumUpdate
  <2>2. f[a] \in Int /\ k[a] \in Int
    BY <1>1
  <2> QED
    BY <1>0, <1>1, <2>1, <2>2
<1>2. CASE a \notin S
  <2>1. SumOver(k, S) = SumOver(f, S)
    BY <1>2, SumSame
  <2> QED
    BY <1>0, <1>2, <2>1
<1> QED
  BY <1>1, <1>2

\* The parts of the invariant a step refers to.
LEMMA CycleFacts ==
  ASSUME CycleInv
  PROVE  /\ TideInv /\ IInv /\ TypeOK /\ IsCase(g) /\ LevelInv /\ WorkInv /\ PromiseInv /\ RouteInv
         /\ RisenInv /\ PullInv /\ DrainInv /\ MassBalance /\ DemandIsKept /\ ZeroCycleMeansBlocked
         /\ pc = "alloc" => maxFlow = 0
         /\ h \in [Nodes(g) -> Nat] /\ l \in [Nodes(g) -> Nat] /\ p \in [Edges(g) -> Nat]
         /\ remaining \in [Edges(g) -> Nat] /\ flow \in [Edges(g) -> Int]
         /\ work \in [Edges(g) -> WorkerLabels] /\ maxFlow \in Int /\ sent \in Nat
         /\ g.source \in Nodes(g) /\ g.sink \in Nodes(g) /\ g.source # g.sink
         /\ FlowIsFeasible
<1>1. /\ TideInv /\ RisenInv /\ PullInv /\ DrainInv /\ MassBalance /\ DemandIsKept
      /\ ZeroCycleMeansBlocked /\ (pc = "alloc" => maxFlow = 0)
  BY DEF CycleInv
<1>2. /\ IInv /\ TypeOK /\ IsCase(g) /\ LevelInv /\ WorkInv /\ RouteInv /\ PromiseInv
      /\ FlowIsFeasible
  BY <1>1 DEF TideInv, IInv, TypeOK
<1> QED
  BY <1>1, <1>2 DEF TypeOK, IsCase

\* Where the edges of the level graph lead.
LEMMA RouteFacts ==
  ASSUME TideInv, pc \in Phase
  PROVE  /\ LevelEdgeSet \subseteq Edges(g) /\ IsFiniteSet(LevelEdgeSet)
         /\ From(g.sink) = {} /\ Into(g.source) = {}
         /\ \A x : /\ From(x) \subseteq LevelEdgeSet /\ Into(x) \subseteq LevelEdgeSet
                   /\ From(x) \subseteq Edges(g) /\ Into(x) \subseteq Edges(g)
                   /\ IsFiniteSet(From(x)) /\ IsFiniteSet(Into(x))
         /\ \A a \in LevelEdgeSet :
              /\ a \in Edges(g) /\ g.src[a] \in Nodes(g) /\ g.dst[a] \in Nodes(g)
              /\ g.src[a] # g.dst[a] /\ g.src[a] # g.sink /\ g.dst[a] # g.source
              /\ g.rev[a] \in Edges(g) /\ g.rev[a] # a /\ g.rev[a] \notin LevelEdgeSet
              /\ \E k \in 1 .. Len(levels) : a \in levels[k]
         /\ \A k \in 1 .. Len(levels) : \A a \in levels[k] :
              /\ a \in LevelEdgeSet /\ dist[g.src[a]] = k - 1 /\ dist[g.dst[a]] = k
<1>1. /\ TypeOK /\ IsCase(g) /\ LevelInv /\ RouteInv /\ levels \in Seq(SUBSET Edges(g))
      /\ g.sink \in Nodes(g) /\ g.source \in Nodes(g)
  BY TideFacts
<1>2. /\ dist[g.sink] = Len(levels) /\ dist[g.source] = 0
      /\ DOMAIN levels = 1 .. Len(levels) /\ Len(levels) \in Nat
  BY <1>1 DEF RouteInv
<1>3. ASSUME NEW k \in 1 .. Len(levels), NEW a \in levels[k]
      PROVE  /\ a \in LevelEdgeSet /\ dist[g.src[a]] = k - 1 /\ dist[g.dst[a]] = k
             /\ k \in Int /\ k >= 1 /\ k <= Len(levels)
  BY <1>1, <1>2, <1>3 DEF LevelInv, LevelEdgeSet
<1>4. ASSUME NEW a \in LevelEdgeSet
      PROVE  /\ a \in Edges(g) /\ g.src[a] \in Nodes(g) /\ g.dst[a] \in Nodes(g)
             /\ g.src[a] # g.dst[a] /\ g.src[a] # g.sink /\ g.dst[a] # g.source
             /\ g.rev[a] \in Edges(g) /\ g.rev[a] # a /\ g.rev[a] \notin LevelEdgeSet
             /\ \E k \in 1 .. Len(levels) : a \in levels[k]
  <2>1. a \in Edges(g) /\ g.rev[a] \notin LevelEdgeSet
    BY <1>1, LevelEdgeFacts
  <2>2. /\ g.src[a] \in Nodes(g) /\ g.dst[a] \in Nodes(g) /\ g.rev[a] \in Edges(g) /\ g.rev[a] # a
    BY <1>1, <2>1, SlotFacts
  <2>3. PICK k \in 1 .. Len(levels) : a \in levels[k]
    BY <1>2 DEF LevelEdgeSet
  <2>4. dist[g.src[a]] = k - 1 /\ dist[g.dst[a]] = k
    BY <1>3, <2>3
  <2> QED
    BY <1>2, <2>1, <2>2, <2>3, <2>4
<1>5. LevelEdgeSet \subseteq Edges(g) /\ IsFiniteSet(LevelEdgeSet)
  <2>1. LevelEdgeSet \subseteq Edges(g)
    BY <1>4
  <2> QED
    BY <1>1, <2>1, NetworkIsFinite
<1>6. From(g.sink) = {} /\ Into(g.source) = {}
  BY <1>4 DEF From, Into
<1>7. ASSUME NEW x
      PROVE  /\ From(x) \subseteq LevelEdgeSet /\ Into(x) \subseteq LevelEdgeSet
             /\ From(x) \subseteq Edges(g) /\ Into(x) \subseteq Edges(g)
             /\ IsFiniteSet(From(x)) /\ IsFiniteSet(Into(x))
  <2>1. From(x) \subseteq LevelEdgeSet /\ Into(x) \subseteq LevelEdgeSet
    BY DEF From, Into
  <2> QED
    BY <1>5, <2>1, FS_Subset
<1> QED
  BY <1>3, <1>4, <1>5, <1>6, <1>7

\* The sums depend on the level graph and on what is summed.
LEMMA SameRoutes ==
  ASSUME UNCHANGED <<g, levels>>, NEW x
  PROVE  From(x)' = From(x) /\ Into(x)' = Into(x) /\ LevelEdgeSet' = LevelEdgeSet
BY DEF From, Into, LevelEdgeSet

\* What workers hold is never negative.
LEMMA AmountFacts ==
  ASSUME CycleInv
  PROVE  /\ \A a \in Edges(g) : Pulled[a] \in Int /\ Pulled[a] = p[a] - remaining[a]
         /\ \A a \in Edges(g) : InHands[a] \in Nat
         /\ pc = "low" => \A a \in Edges(g) : Held[a] \in Nat
         /\ pc = "low" => \A a \in LevelEdgeSet : Pulled[a] \in Nat
<1>1. /\ IInv /\ TypeOK /\ PromiseInv
      /\ p \in [Edges(g) -> Nat] /\ remaining \in [Edges(g) -> Nat]
  BY CycleFacts
<1>2. \A a \in Edges(g) : Pulled[a] \in Int /\ Pulled[a] = p[a] - remaining[a]
  BY <1>1 DEF Pulled
<1>3. ASSUME NEW a \in Edges(g) PROVE InHands[a] \in Nat
  <2>1. CASE pc = "erosion" /\ work[a] = "deliver"
    <3>1. CommitFlow(a) \in Nat
      BY <1>1, <2>1, ErosionFacts
    <3> QED
      BY <2>1, <3>1 DEF InHands
  <2>2. CASE ~(pc = "erosion" /\ work[a] = "deliver")
    BY <2>2 DEF InHands
  <2> QED
    BY <2>1, <2>2
<1>4. ASSUME pc = "low", NEW a \in Edges(g) PROVE Held[a] \in Nat
  <2>1. CASE work[a] \in {"casTail", "restore"}
    <3>1. SendBack(a) \in Nat
      BY <1>1, <1>4, <2>1, LowTideFacts
    <3> QED
      BY <2>1, <3>1 DEF Held
  <2>2. CASE work[a] \notin {"casTail", "restore"}
    BY <2>2 DEF Held
  <2> QED
    BY <2>1, <2>2
<1>5. ASSUME pc = "low", NEW a \in LevelEdgeSet PROVE Pulled[a] \in Nat
  <2>1. a \in Edges(g) /\ remaining[a] <= p[a]
    BY <1>1, <1>5, CycleFacts, RouteFacts DEF PromiseInv, Phase
  <2> QED
    BY <1>1, <1>2, <2>1
<1> QED
  BY <1>2, <1>3, <1>4, <1>5

\* Sums of natural numbers over the edges of a node.
LEMMA SumFacts ==
  ASSUME CycleInv, pc \in Phase, NEW x
  PROVE  /\ SumOver(remaining, From(x)) \in Nat /\ SumOver(remaining, Into(x)) \in Nat
         /\ SumOver(InHands, From(x)) \in Nat
         /\ pc = "low" => /\ SumOver(Held, Into(x)) \in Nat
                          /\ SumOver(Pulled, From(x)) \in Nat /\ SumOver(Pulled, Into(x)) \in Nat
<1>1. /\ From(x) \subseteq LevelEdgeSet /\ Into(x) \subseteq LevelEdgeSet
      /\ From(x) \subseteq Edges(g) /\ Into(x) \subseteq Edges(g)
      /\ IsFiniteSet(From(x)) /\ IsFiniteSet(Into(x))
  BY CycleFacts, RouteFacts
<1>2. \A a \in Edges(g) : remaining[a] \in Nat /\ InHands[a] \in Nat
  BY CycleFacts, AmountFacts
<1>3. /\ SumOver(remaining, From(x)) \in Nat /\ SumOver(remaining, Into(x)) \in Nat
      /\ SumOver(InHands, From(x)) \in Nat
  BY <1>1, <1>2, SumOfNaturals
<1>4. ASSUME pc = "low"
      PROVE  /\ SumOver(Held, Into(x)) \in Nat
             /\ SumOver(Pulled, From(x)) \in Nat /\ SumOver(Pulled, Into(x)) \in Nat
  <2>1. \A a \in Into(x) : Held[a] \in Nat
    BY <1>1, <1>4, AmountFacts
  <2>2. /\ \A a \in Into(x) : Pulled[a] \in Nat
        /\ \A a \in From(x) : Pulled[a] \in Nat
    BY <1>1, <1>4, AmountFacts
  <2> QED
    BY <1>1, <2>1, <2>2, SumOfNaturals
<1> QED
  BY <1>3, <1>4

-------------------------------------------------------------------------------
(* Steps that move no water.                                               *)

\* As long as no flow is sent and no value is added, the balances stand.
LEMMA BalanceStands ==
  ASSUME MassBalance, pc # "failed", UNCHANGED <<g, flow, maxFlow>>,
         pc \notin {"erosion", "returned"},
         pc' \notin {"erosion"}, pc' = "returned" => sent' = 0
  PROVE  MassBalance'
<1>1. Delivered = 0 /\ Delivered' = 0 /\ Arrived = 0 /\ Arrived' = 0
  BY DEF Delivered, Arrived
<1>2. \A x : InTransit(x) = 0 /\ InTransit(x)' = 0
  BY DEF InTransit
<1>3. \A x : NetOutflow(g, flow, x)' = NetOutflow(g, flow, x)
  OBVIOUS
<1>4. g' = g /\ maxFlow' = maxFlow
  OBVIOUS
<1> QED
  BY <1>1, <1>2, <1>3, <1>4 DEF MassBalance

LEMMA NothingUnderWay ==
  ASSUME pc' \notin {"alloc", "high", "low", "erosion", "returned"}
  PROVE  /\ RisenInv' /\ PullInv' /\ DrainInv' /\ DemandIsKept' /\ ZeroCycleMeansBlocked'
         /\ (pc = "alloc" => maxFlow = 0)'
BY DEF RisenInv, PullInv, DrainInv, DemandIsKept, ZeroCycleMeansBlocked

LEMMA InitEstablishesCycle == Init => CycleInv
<1> SUFFICES ASSUME Init PROVE CycleInv
  OBVIOUS
<1>1. TideInv /\ pc = "alloc" /\ maxFlow = 0 /\ IsCase(g) /\ flow = [a \in Edges(g) |-> 0]
  BY InitEstablishesTide, CasesAssumption DEF Init, Zero
<1>2. MassBalance
  <2>1. \A x : InTransit(x) = 0 /\ Delivered = 0 /\ Arrived = 0
    BY <1>1 DEF InTransit, Delivered, Arrived
  <2>2. ASSUME NEW x PROVE NetOutflow(g, flow, x) = 0
    <3>1. IsFiniteSet(Out(g, x)) /\ \A a \in Out(g, x) : flow[a] = 0
      BY <1>1, NetworkIsFinite DEF Out
    <3> QED
      BY <3>1, SumOfZeros DEF NetOutflow
  <2> QED
    BY <1>1, <2>1, <2>2 DEF MassBalance
<1> QED
  BY <1>1, <1>2 DEF CycleInv, RisenInv, PullInv, DrainInv, DemandIsKept, ZeroCycleMeansBlocked

LEMMA AllocateKeepsCycle ==
  ASSUME CycleInv, TideInv', Allocate
  PROVE  CycleInv'
<1>1. /\ pc = "alloc" /\ pc' \in {"build", "failed"} /\ UNCHANGED <<g, flow>>
      /\ pc' = "build" => maxFlow' = maxFlow
  BY DEF Allocate
<1>2. MassBalance'
  <2>1. CASE pc' = "failed"
    BY <2>1 DEF MassBalance
  <2>2. CASE pc' = "build"
    BY <1>1, <2>2, CycleFacts, BalanceStands
  <2> QED
    BY <1>1, <2>1, <2>2
<1> QED
  BY <1>1, <1>2, NothingUnderWay DEF CycleInv

LEMMA SearchOrStartKeepsCycle ==
  ASSUME CycleInv, TideInv', BuildLevelGraph \/ Rebuild
  PROVE  CycleInv'
<1>1. /\ pc \in {"build", "returned"} /\ pc' \in {"build", "tide", "done"}
      /\ UNCHANGED <<g, flow, maxFlow>>
      /\ pc = "returned" => sent = 0
  BY CycleFacts DEF BuildLevelGraph, Rebuild, callVars
<1>2. MassBalance /\ pc # "failed"
  BY <1>1, CycleFacts
<1>3. Delivered = 0 /\ Delivered' = 0 /\ Arrived = 0 /\ Arrived' = 0
  BY <1>1 DEF Delivered, Arrived
<1>4. \A x : InTransit(x) = 0 /\ InTransit(x)' = 0
  BY <1>1 DEF InTransit
<1>5. g' = g /\ flow' = flow /\ maxFlow' = maxFlow /\ pc' # "failed"
  BY <1>1
<1>6. \A x : NetOutflow(g, flow, x)' = NetOutflow(g, flow, x)
  BY <1>5
<1>7. MassBalance'
  BY <1>2, <1>3, <1>4, <1>5, <1>6 DEF MassBalance
<1> QED
  BY <1>1, <1>7, NothingUnderWay DEF CycleInv

\* The driver adds what the cycle has sent.
LEMMA AddAndRepeatKeepsCycle ==
  ASSUME CycleInv, TideInv', AddAndRepeat
  PROVE  CycleInv'
<1>1. /\ pc = "returned" /\ pc' = "tide" /\ maxFlow' = maxFlow + sent /\ UNCHANGED <<g, flow>>
  BY DEF AddAndRepeat
<1>2. MassBalance /\ maxFlow \in Int /\ sent \in Nat
  BY CycleFacts
<1>3. Delivered = sent /\ Delivered' = 0 /\ Arrived = sent /\ Arrived' = 0
  BY <1>1 DEF Delivered, Arrived
<1>4. \A x : InTransit(x) = 0 /\ InTransit(x)' = 0
  BY <1>1 DEF InTransit
<1>5. \A x : NetOutflow(g, flow, x)' = NetOutflow(g, flow, x)
  BY <1>1
<1>6. MassBalance'
  BY <1>1, <1>2, <1>3, <1>4, <1>5 DEF MassBalance
<1> QED
  BY <1>1, <1>6, NothingUnderWay DEF CycleInv

-------------------------------------------------------------------------------
(* The high tide.                                                          *)

LEMMA TideStartKeepsCycle ==
  ASSUME CycleInv, TideInv', TideStart
  PROVE  CycleInv'
<1>1. /\ pc = "tide" /\ pc' = "high" /\ Begin(1) /\ UNCHANGED <<g, flow, maxFlow, levels>>
      /\ h' = [x \in Nodes(g) |-> IF x = g.source THEN LLongMax ELSE 0]
  BY DEF TideStart, callVars, graphVars
<1>2. MassBalance'
  BY <1>1, CycleFacts, BalanceStands
<1>3. level' = 1 /\ \A a \in Edges(g) : work'[a] \in {"idle", "loop"}
  BY <1>1, CycleFacts, BeginFacts
<1>4. RisenInv'
  <2>1. h'[g.source] > 0
    BY <1>1, CycleFacts, IntAssumption, WidthsAssumption
  <2>2. ASSUME NEW k \in 1 .. 1, NEW a \in levels[k]
        PROVE  ~(k < 1 \/ work'[a] = "finished")
    <3>1. a \in Edges(g)
      BY <1>1, CycleFacts, RouteFacts DEF TypeOK, Phase
    <3> QED
      BY <1>3, <3>1
  <2> QED
    BY <1>1, <1>3, <2>1, <2>2 DEF RisenInv
<1> QED
  BY <1>1, <1>2, <1>4 DEF CycleInv, PullInv, DrainInv, DemandIsKept, ZeroCycleMeansBlocked

LEMMA HighTideLevelKeepsCycle ==
  ASSUME CycleInv, TideInv', HighTideLevel
  PROVE  CycleInv'
<1>1. /\ pc = "high" /\ pc' = pc /\ AtBarrier /\ Begin(level + 1)
      /\ UNCHANGED <<g, flow, maxFlow, levels, h>>
  BY DEF HighTideLevel, callVars, graphVars, tideVars
<1>2. MassBalance'
  BY <1>1, CycleFacts, BalanceStands
<1>3. /\ level' = level + 1 /\ level \in Nat /\ \A a \in Edges(g) : work'[a] \in {"idle", "loop"}
      /\ levels \in Seq(SUBSET Edges(g)) /\ level + 1 \in 1 .. Len(levels)
      /\ g.source \in Nodes(g)
  <2>1. level + 1 \in 1 .. Len(levels)'
    <3>1. TypeOK' /\ pc' \in InLoops
      BY <1>1 DEF TideInv, IInv, InLoops
    <3> QED
      BY <1>1, <3>1 DEF TypeOK, Begin
  <2> QED
    BY <1>1, <2>1, CycleFacts, BeginFacts DEF TypeOK
<1>4. RisenInv'
  <2>1. RisenInv /\ h'[g.source] > 0
    BY <1>1, CycleFacts DEF RisenInv
  <2>2. ASSUME NEW k \in 1 .. (level + 1), NEW a \in levels[k],
               k < level + 1 \/ work'[a] = "finished",
               Residual(g, flow, a) > 0, h[g.src[a]] > 0
        PROVE  h[g.dst[a]] > 0
    <3>1. a \in Edges(g)
      BY <1>3
    <3>2. k \in 1 .. level
      BY <1>3, <2>2, <3>1
    <3>3. k < level \/ work[a] = "finished"
      BY <1>1, <1>3, <3>2 DEF AtBarrier
    <3> QED
      BY <1>1, <2>1, <2>2, <3>2, <3>3 DEF RisenInv
  <2>3. Residual(g, flow, 0)' = Residual(g, flow, 0) /\ \A a : Residual(g, flow, a)' = Residual(g, flow, a)
    BY <1>1 DEF Residual
  <2> QED
    BY <1>1, <1>3, <2>1, <2>2, <2>3 DEF RisenInv
<1> QED
  BY <1>1, <1>2, <1>4 DEF CycleInv, PullInv, DrainInv, DemandIsKept, ZeroCycleMeansBlocked

LEMMA HighTideKeepsCycle ==
  ASSUME CycleInv, TideInv', NEW a \in Edges(g), HighTide(a)
  PROVE  CycleInv'
<1>1. /\ pc = "high" /\ pc' = pc /\ work[a] = "loop"
      /\ work' = [work EXCEPT ![a] = "finished"]
      /\ h' = [h EXCEPT ![g.dst[a]] = @ + Promise(a)]
      /\ UNCHANGED <<g, flow, maxFlow, levels, level, dist>>
  BY DEF HighTide, GoTo, callVars, graphVars
<1>2. MassBalance'
  BY <1>1, CycleFacts, BalanceStands
<1>3. /\ TypeOK /\ WorkInv /\ RisenInv /\ pc \in Phase /\ pc \in InLoops
      /\ h \in [Nodes(g) -> Nat] /\ work \in [Edges(g) -> WorkerLabels]
      /\ level \in 1 .. Len(levels) /\ Len(levels) \in Nat /\ level \in Nat
      /\ levels \in Seq(SUBSET Edges(g)) /\ FlowIsFeasible
  <2>1. /\ TypeOK /\ WorkInv /\ RisenInv /\ FlowIsFeasible
        /\ h \in [Nodes(g) -> Nat] /\ work \in [Edges(g) -> WorkerLabels]
    BY CycleFacts
  <2>2. pc \in Phase /\ pc \in InLoops
    BY <1>1 DEF Phase, InLoops
  <2>3. level \in 1 .. Len(levels) /\ levels \in Seq(SUBSET Edges(g)) /\ level \in Nat
    BY <2>1, <2>2 DEF TypeOK
  <2> QED
    BY <2>1, <2>2, <2>3
<1>4. a \in levels[level] /\ a \in LevelEdgeSet
  BY <1>1, <1>3, WorkerFacts
<1>5. /\ g.src[a] \in Nodes(g) /\ g.dst[a] \in Nodes(g) /\ g.src[a] # g.dst[a]
      /\ g.dst[a] # g.source /\ dist[g.dst[a]] = level
  BY <1>3, <1>4, CycleFacts, RouteFacts
<1>6. /\ Residual(g, flow, a) \in Nat /\ h[g.src[a]] \in Nat
      /\ Promise(a) \in Nat
      /\ Residual(g, flow, a) > 0 /\ h[g.src[a]] > 0 => Promise(a) > 0
  <2>1. Residual(g, flow, a) \in Nat /\ h[g.src[a]] \in Nat
    BY <1>3, <1>5, ResidualFacts
  <2> QED
    BY <2>1 DEF Promise, Lesser
<1>7. \A x \in Nodes(g) : /\ h[x] \in Nat
                          /\ h'[x] = h[x] + (IF x = g.dst[a] THEN Promise(a) ELSE 0)
  BY <1>1, <1>3, <1>5, <1>6
<1>8. RisenInv'
  <2>1. h'[g.source] > 0
    BY <1>1, <1>3, <1>5, <1>7, CycleFacts DEF RisenInv
  <2>2. ASSUME NEW k \in 1 .. level, NEW b \in levels[k],
               k < level \/ work'[b] = "finished",
               Residual(g, flow, b) > 0, h'[g.src[b]] > 0
        PROVE  h'[g.dst[b]] > 0
    <3>1. k \in 1 .. Len(levels) /\ k \in Nat /\ k <= level
      BY <1>3
    <3>2. /\ g.src[b] \in Nodes(g) /\ g.dst[b] \in Nodes(g) /\ dist[g.src[b]] = k - 1
          /\ b \in Edges(g)
      BY <1>3, <3>1, CycleFacts, RouteFacts
    <3>3. h[g.src[b]] > 0
      <4>1. g.src[b] # g.dst[a]
        BY <1>3, <1>5, <3>1, <3>2
      <4> QED
        BY <1>7, <2>2, <3>2, <4>1
    <3>4. CASE b = a
      BY <1>5, <1>6, <1>7, <2>2, <3>3, <3>4
    <3>5. CASE b # a
      <4>1. k < level \/ work[b] = "finished"
        BY <1>1, <1>3, <2>2, <3>2, <3>5
      <4>2. h[g.dst[b]] > 0
        BY <1>1, <1>3, <2>2, <3>3, <4>1 DEF RisenInv
      <4> QED
        BY <1>6, <1>7, <3>2, <4>2
    <3> QED
      BY <3>4, <3>5
  <2>3. \A b : Residual(g, flow, b)' = Residual(g, flow, b)
    BY <1>1 DEF Residual
  <2> QED
    BY <1>1, <2>1, <2>2, <2>3 DEF RisenInv
<1> QED
  BY <1>1, <1>2, <1>8 DEF CycleInv, PullInv, DrainInv, DemandIsKept, ZeroCycleMeansBlocked

\* A tide that has not come to the sink has left a set of wet nodes that no edge of
\* the level graph with room leads out of.
LEMMA DryTideIsBlocked ==
  ASSUME CycleInv, pc = "high", AtBarrier, level = Len(levels), h[g.sink] = 0
  PROVE  g.source \notin CoReach(g, {a \in LevelEdgeSet : Residual(g, flow, a) > 0})
<1> DEFINE E == {a \in LevelEdgeSet : Residual(g, flow, a) > 0}
<1> DEFINE T == {x \in Nodes(g) : h[x] > 0}
<1>1. /\ RisenInv /\ TypeOK /\ IsCase(g) /\ TideInv /\ pc \in Phase
      /\ Len(levels) \in Nat /\ g.source \in Nodes(g)
  BY CycleFacts DEF Phase, TypeOK
<1>2. E \in SUBSET Edges(g) /\ g.sink \notin T /\ g.source \in T
  BY <1>1, RouteFacts DEF RisenInv
<1>3. ASSUME NEW a \in E, g.src[a] \in T PROVE g.dst[a] \in T
  <2>1. PICK k \in 1 .. Len(levels) : a \in levels[k]
    BY <1>1, RouteFacts
  <2>2. k < level \/ work[a] = "finished"
    BY <1>1, <2>1 DEF AtBarrier
  <2>3. g.dst[a] \in Nodes(g)
    BY <1>1, RouteFacts
  <2> QED
    BY <1>1, <1>3, <2>1, <2>2, <2>3 DEF RisenInv
<1> HIDE DEF E, T
<1>4. CoReach(g, E) \cap T = {}
  BY <1>1, <1>2, <1>3, BlockedSetHasNoPath
<1> QED
  BY <1>2, <1>4 DEF E

LEMMA HighTideEndKeepsCycle ==
  ASSUME CycleInv, TideInv', HighTideEnd
  PROVE  CycleInv'
<1>1. /\ pc = "high" /\ AtBarrier /\ level = Len(levels)
      /\ UNCHANGED <<g, flow, maxFlow, levels, dist, h, p>>
  BY DEF HighTideEnd, callVars, graphVars
<1>2. /\ IsCase(g) /\ TypeOK /\ h \in [Nodes(g) -> Nat] /\ p \in [Edges(g) -> Nat]
      /\ g.sink \in Nodes(g) /\ Len(levels) \in Nat /\ pc \in Phase /\ TideInv
  BY <1>1, CycleFacts DEF Phase, TypeOK
<1>3. CASE h[g.sink] = 0
  <2>1. pc' = "returned" /\ sent' = 0
    BY <1>3 DEF HighTideEnd
  <2>2. MassBalance'
    BY <1>1, <2>1, CycleFacts, BalanceStands
  <2>3. ZeroCycleMeansBlocked'
    <3>1. g.source \notin CoReach(g, {a \in LevelEdgeSet : Residual(g, flow, a) > 0})
      BY <1>1, <1>3, DryTideIsBlocked
    <3>2. /\ LevelEdgeSet' = LevelEdgeSet
          /\ \A a : Residual(g, flow, a)' = Residual(g, flow, a)
      BY <1>1 DEF LevelEdgeSet, Residual
    <3>3. {a \in LevelEdgeSet : Residual(g, flow, a) > 0}'
            = {a \in LevelEdgeSet : Residual(g, flow, a) > 0}
      BY <3>2
    <3> QED
      BY <1>1, <3>1, <3>3 DEF ZeroCycleMeansBlocked
  <2> QED
    BY <2>1, <2>2, <2>3 DEF CycleInv, RisenInv, PullInv, DrainInv, DemandIsKept
<1>4. CASE h[g.sink] # 0
  <2>1. /\ pc' = "low" /\ remaining' = p /\ Begin(Len(levels))
        /\ l' = [x \in Nodes(g) |-> IF x = g.sink THEN h[g.sink] ELSE 0]
    BY <1>4 DEF HighTideEnd
  <2>2. MassBalance'
    BY <1>1, <2>1, CycleFacts, BalanceStands
  <2>3. level' = Len(levels) /\ \A a \in Edges(g) : work'[a] \in {"idle", "loop"}
    BY <1>1, <1>2, <2>1, BeginFacts
  <2>4. PullInv'
    <3>1. ASSUME NEW k \in Len(levels) .. Len(levels), NEW a \in levels[k]
          PROVE  ~(k > Len(levels) \/ work'[a] = "finished")
      <4>1. k \in 1 .. Len(levels)
        BY <1>2 DEF TypeOK
      <4>2. a \in Edges(g)
        BY <1>2, <4>1, RouteFacts
      <4> QED
        BY <1>2, <2>3, <4>2
    <3> QED
      BY <1>1, <2>3, <3>1 DEF PullInv
  <2>5. DemandIsKept'
    <3> SUFFICES ASSUME NEW x \in Nodes(g)
                 PROVE  /\ l'[x] + SumOver(Held', Into(x)) <= h[x]
                        /\ l'[x] + SumOver(Held', Into(x)) + SumOver(Pulled', Into(x))
                             = IF x = g.sink THEN h[x] ELSE SumOver(Pulled', From(x))
      BY <1>1, SameRoutes DEF DemandIsKept
    <3>1. \A a \in Edges(g) : Held'[a] = 0 /\ Pulled'[a] = 0
      <4>1. \A a \in Edges(g) : p[a] - p[a] = 0
        BY <1>2
      <4> QED
        BY <1>1, <2>1, <2>3, <4>1 DEF Held, Pulled
    <3>2. /\ IsFiniteSet(From(x)) /\ IsFiniteSet(Into(x))
          /\ From(x) \subseteq Edges(g) /\ Into(x) \subseteq Edges(g)
      BY <1>2, RouteFacts
    <3>3. /\ SumOver(Held', Into(x)) = 0 /\ SumOver(Pulled', Into(x)) = 0
          /\ SumOver(Pulled', From(x)) = 0
      BY <3>1, <3>2, SumOfZeros
    <3>4. h[x] \in Nat /\ l'[x] = IF x = g.sink THEN h[x] ELSE 0
      BY <1>2, <2>1
    <3> QED
      BY <3>3, <3>4
  <2> QED
    BY <2>1, <2>2, <2>4, <2>5 DEF CycleInv, RisenInv, DrainInv, ZeroCycleMeansBlocked
<1> QED
  BY <1>3, <1>4

-------------------------------------------------------------------------------
(* The low tide.                                                           *)

\* What the worker of edge a does to the amounts: dh is what it takes into its hands,
\* dp what it pulls back through the edge.
LowTideAmounts(a, dh, dp) ==
  /\ UNCHANGED <<g, flow, maxFlow, pc, dist, levels, level, h>>
  /\ dh \in Int /\ dp \in Nat
  /\ \A b \in Edges(g) \ {a} : work'[b] = work[b] /\ remaining'[b] = remaining[b]
  /\ \A b \in Edges(g) : Held'[b] = IF b = a THEN Held[b] + dh ELSE Held[b]
  /\ \A b \in Edges(g) : Pulled'[b] = IF b = a THEN Pulled[b] + dp ELSE Pulled[b]
  /\ \A x \in Nodes(g) :
       l'[x] = l[x] - (IF x = g.dst[a] THEN dh + dp ELSE 0) + (IF x = g.src[a] THEN dp ELSE 0)
  /\ work'[a] = "finished" => remaining'[a] = 0
  /\ dp > 0 => l'[g.src[a]] <= h[g.src[a]]

LEMMA LowTideAmountsKeep ==
  ASSUME CycleInv, TideInv', pc = "low", NEW a \in Edges(g), work[a] # "idle",
         NEW dh, NEW dp, LowTideAmounts(a, dh, dp)
  PROVE  CycleInv'
<1>1. /\ UNCHANGED <<g, flow, maxFlow, pc, dist, levels, level, h>>
      /\ dh \in Int /\ dp \in Nat
      /\ work'[a] = "finished" => remaining'[a] = 0
      /\ dp > 0 => l'[g.src[a]] <= h[g.src[a]]
  BY DEF LowTideAmounts
<1>2. \A b \in Edges(g) \ {a} : work'[b] = work[b] /\ remaining'[b] = remaining[b]
  BY DEF LowTideAmounts
<1>3. /\ \A b \in Edges(g) : Held'[b] = IF b = a THEN Held[b] + dh ELSE Held[b]
      /\ \A b \in Edges(g) : Pulled'[b] = IF b = a THEN Pulled[b] + dp ELSE Pulled[b]
  BY DEF LowTideAmounts
<1>4. \A x \in Nodes(g) :
         l'[x] = l[x] - (IF x = g.dst[a] THEN dh + dp ELSE 0) + (IF x = g.src[a] THEN dp ELSE 0)
  BY DEF LowTideAmounts
<1> HIDE DEF LowTideAmounts
<1>5. /\ pc \in Phase /\ pc \in InLoops /\ TideInv /\ TypeOK /\ WorkInv
      /\ DemandIsKept /\ PullInv /\ h \in [Nodes(g) -> Nat] /\ l \in [Nodes(g) -> Nat]
  BY CycleFacts DEF Phase, InLoops
<1>6. a \in levels[level] /\ level \in 1 .. Len(levels) /\ a \in LevelEdgeSet
  BY <1>5, WorkerFacts DEF TypeOK
<1>7. /\ g.src[a] \in Nodes(g) /\ g.dst[a] \in Nodes(g) /\ g.src[a] # g.dst[a]
      /\ g.src[a] # g.sink /\ dist[g.src[a]] = level - 1 /\ dist[g.dst[a]] = level
  BY <1>5, <1>6, RouteFacts
<1>8. MassBalance'
  BY <1>1, CycleFacts, BalanceStands
<1>9. PullInv'
  <2> SUFFICES ASSUME NEW k \in level .. Len(levels), NEW b \in levels[k],
                      k > level \/ work'[b] = "finished"
               PROVE  remaining'[b] = 0
    BY <1>1 DEF PullInv
  <2>1. k \in 1 .. Len(levels) /\ level \in Nat
    BY <1>6
  <2>2. b \in Edges(g) /\ dist[g.dst[b]] = k
    BY <1>5, <2>1, RouteFacts
  <2>3. CASE b = a
    BY <1>1, <1>7, <2>1, <2>2, <2>3
  <2>4. CASE b # a
    BY <1>2, <1>5, <2>2, <2>4 DEF PullInv
  <2> QED
    BY <2>3, <2>4
<1>10. DemandIsKept'
  <2> SUFFICES ASSUME NEW x \in Nodes(g)
               PROVE  /\ l'[x] + SumOver(Held', Into(x)) <= h[x]
                      /\ l'[x] + SumOver(Held', Into(x)) + SumOver(Pulled', Into(x))
                           = IF x = g.sink THEN h[x] ELSE SumOver(Pulled', From(x))
    BY <1>1, SameRoutes DEF DemandIsKept
  <2> DEFINE H == SumOver(Held, Into(x))
  <2> DEFINE P == SumOver(Pulled, Into(x))
  <2> DEFINE Q == SumOver(Pulled, From(x))
  <2>1. /\ H \in Nat /\ P \in Nat /\ Q \in Nat /\ h[x] \in Nat /\ l[x] \in Nat
        /\ l[x] + H <= h[x]
        /\ l[x] + H + P = IF x = g.sink THEN h[x] ELSE Q
    BY <1>5, SumFacts DEF DemandIsKept
  <2>2. /\ IsFiniteSet(From(x)) /\ IsFiniteSet(Into(x))
        /\ From(x) \subseteq Edges(g) /\ Into(x) \subseteq Edges(g)
        /\ a \in Into(x) <=> x = g.dst[a]
        /\ a \in From(x) <=> x = g.src[a]
    <3>1. /\ IsFiniteSet(From(x)) /\ IsFiniteSet(Into(x))
          /\ From(x) \subseteq Edges(g) /\ Into(x) \subseteq Edges(g)
      BY <1>5, RouteFacts
    <3>2. /\ a \in Into(x) <=> x = g.dst[a]
          /\ a \in From(x) <=> x = g.src[a]
      BY <1>6 DEF From, Into
    <3> QED
      BY <3>1, <3>2
  <2>3. /\ \A b \in Edges(g) : Held[b] \in Int /\ Pulled[b] \in Int
        /\ \A b \in Edges(g) : Held'[b] \in Int /\ Pulled'[b] \in Int
    <3>1. \A b \in Edges(g) : Held[b] \in Int /\ Pulled[b] \in Int
      BY AmountFacts
    <3> QED
      BY <1>1, <1>3, <3>1
  <2>4. SumOver(Held', Into(x)) = H + (IF x = g.dst[a] THEN dh ELSE 0)
    <3>1. SumOver(Held', Into(x)) = H + (IF a \in Into(x) THEN Held'[a] - Held[a] ELSE 0)
      <4>1. \A b \in Into(x) : Held[b] \in Int /\ Held'[b] \in Int
        BY <2>2, <2>3
      <4>2. \A b \in Into(x) \ {a} : Held'[b] = Held[b]
        BY <1>3, <2>2
      <4> QED
        BY <2>2, <4>1, <4>2, ChangedSum
    <3>2. Held'[a] - Held[a] = dh
      BY <1>1, <1>3, <2>3
    <3> QED
      BY <2>2, <3>1, <3>2
  <2>5. /\ SumOver(Pulled', Into(x)) = P + (IF x = g.dst[a] THEN dp ELSE 0)
        /\ SumOver(Pulled', From(x)) = Q + (IF x = g.src[a] THEN dp ELSE 0)
    <3>1. /\ SumOver(Pulled', Into(x)) = P + (IF a \in Into(x) THEN Pulled'[a] - Pulled[a] ELSE 0)
          /\ SumOver(Pulled', From(x)) = Q + (IF a \in From(x) THEN Pulled'[a] - Pulled[a] ELSE 0)
      <4>1. /\ \A b \in Into(x) : Pulled[b] \in Int /\ Pulled'[b] \in Int
            /\ \A b \in From(x) : Pulled[b] \in Int /\ Pulled'[b] \in Int
        BY <2>2, <2>3
      <4>2. /\ \A b \in Into(x) \ {a} : Pulled'[b] = Pulled[b]
            /\ \A b \in From(x) \ {a} : Pulled'[b] = Pulled[b]
        BY <1>3, <2>2
      <4> QED
        BY <2>2, <4>1, <4>2, ChangedSum
    <3>2. Pulled'[a] - Pulled[a] = dp
      BY <1>1, <1>3, <2>3
    <3> QED
      BY <2>2, <3>1, <3>2
  \* No worker of the level before is under way, so nothing into the tail is held.
  <2>6. x = g.src[a] => H = 0
    <3> SUFFICES ASSUME x = g.src[a], NEW b \in Into(x) PROVE Held[b] = 0
      BY <2>2, SumOfZeros
    <3>1. b \in Edges(g) /\ g.dst[b] = x
      BY <2>2 DEF Into
    <3>2. CASE work[b] = "idle"
      BY <3>1, <3>2 DEF Held
    <3>3. CASE work[b] # "idle"
      <4>1. b \in levels[level]
        BY <1>5, <3>1, <3>3, WorkerFacts
      <4>2. dist[g.dst[b]] = level
        BY <1>5, <1>6, <4>1, RouteFacts
      <4> QED
        BY <1>6, <1>7, <3>1, <4>2
    <3> QED
      BY <3>2, <3>3
  <2> HIDE DEF H, P, Q
  <2>7. CASE x = g.dst[a]
    <3>1. /\ x # g.src[a] /\ l'[x] = l[x] - (dh + dp)
          /\ SumOver(Held', Into(x)) = H + dh /\ SumOver(Pulled', Into(x)) = P + dp
          /\ SumOver(Pulled', From(x)) = Q
      BY <1>1, <1>4, <1>7, <2>1, <2>4, <2>5, <2>7
    <3> QED
      BY <1>1, <2>1, <3>1
  <2>8. CASE x = g.src[a]
    <3>1. /\ x # g.dst[a] /\ x # g.sink /\ l'[x] = l[x] + dp
          /\ SumOver(Held', Into(x)) = 0 /\ SumOver(Pulled', Into(x)) = P
          /\ SumOver(Pulled', From(x)) = Q + dp /\ H = 0
      BY <1>1, <1>4, <1>7, <2>1, <2>4, <2>5, <2>6, <2>8
    <3>2. l'[x] <= h[x]
      <4>1. CASE dp > 0
        BY <1>1, <2>8, <4>1
      <4>2. CASE dp = 0
        BY <2>1, <3>1, <4>2
      <4> QED
        BY <1>1, <4>1, <4>2
    <3> QED
      BY <1>1, <2>1, <3>1, <3>2
  <2>9. CASE x # g.dst[a] /\ x # g.src[a]
    <3>1. /\ l'[x] = l[x]
          /\ SumOver(Held', Into(x)) = H /\ SumOver(Pulled', Into(x)) = P
          /\ SumOver(Pulled', From(x)) = Q
      BY <1>1, <1>4, <2>1, <2>4, <2>5, <2>9
    <3> QED
      BY <2>1, <3>1
  <2> QED
    BY <2>7, <2>8, <2>9
<1> QED
  BY <1>1, <1>8, <1>9, <1>10 DEF CycleInv, RisenInv, DrainInv, ZeroCycleMeansBlocked

\* A step that changes no amount: only labels and what has been read.
LEMMA LowTideReadKeeps ==
  ASSUME CycleInv, TideInv', pc = "low", NEW a \in Edges(g), work[a] # "idle",
         UNCHANGED <<g, flow, maxFlow, pc, dist, levels, level, h, l>>,
         \A b \in Edges(g) \ {a} : /\ work'[b] = work[b] /\ remaining'[b] = remaining[b]
                                   /\ seen'[b] = seen[b] /\ seenTail'[b] = seenTail[b]
                                   /\ p'[b] = p[b],
         p'[a] - remaining'[a] = p[a] - remaining[a],
         work[a] \notin {"casTail", "restore"}, work'[a] \notin {"casTail", "restore"},
         work'[a] = "finished" => remaining'[a] = 0
  PROVE  CycleInv'
<1>1. \A b \in Edges(g) : Held'[b] = Held[b] /\ Held[b] \in Nat /\ Pulled[b] \in Int
  <2> SUFFICES ASSUME NEW b \in Edges(g) PROVE Held'[b] = Held[b]
    BY AmountFacts
  <2>1. CASE b = a
    BY <2>1 DEF Held
  <2>2. CASE b # a
    <3>1. SendBack(b)' = SendBack(b)
      BY <2>2 DEF SendBack
    <3> QED
      BY <2>2, <3>1 DEF Held
  <2> QED
    BY <2>1, <2>2
<1>2. \A b \in Edges(g) : Pulled'[b] = Pulled[b]
  <2> SUFFICES ASSUME NEW b \in Edges(g) PROVE p'[b] - remaining'[b] = p[b] - remaining[b]
    BY DEF Pulled
  <2>1. CASE b = a
    BY <2>1
  <2>2. CASE b # a
    BY <2>2
  <2> QED
    BY <2>1, <2>2
<1>3. \A x \in Nodes(g) : l[x] \in Nat
  BY CycleFacts
<1>4. LowTideAmounts(a, 0, 0)
  BY <1>1, <1>2, <1>3 DEF LowTideAmounts
<1> QED
  BY <1>4, LowTideAmountsKeep

LEMMA FinishKeepsCycle ==
  ASSUME CycleInv, TideInv', pc = "low", NEW a \in Edges(g), work[a] \in {"loop", "readTail"},
         Finish(a), UNCHANGED <<g, flow, maxFlow, pc, dist, levels, level, h, l>>
  PROVE  CycleInv'
<1>1. /\ p \in [Edges(g) -> Nat] /\ remaining \in [Edges(g) -> Nat]
      /\ work \in [Edges(g) -> WorkerLabels] /\ TypeOK
  BY CycleFacts
<1>2. /\ p' = [p EXCEPT ![a] = p[a] - remaining[a]]
      /\ remaining' = [remaining EXCEPT ![a] = 0]
      /\ seen' = [seen EXCEPT ![a] = 0] /\ seenTail' = [seenTail EXCEPT ![a] = 0]
      /\ work' = [work EXCEPT ![a] = "finished"]
  BY DEF Finish, Forget, GoTo
<1>3. /\ work'[a] = "finished" /\ remaining'[a] = 0 /\ p'[a] = p[a] - remaining[a]
      /\ p[a] \in Nat /\ remaining[a] \in Nat
  BY <1>1, <1>2
<1>4. \A b \in Edges(g) \ {a} : /\ work'[b] = work[b] /\ remaining'[b] = remaining[b]
                                /\ seen'[b] = seen[b] /\ seenTail'[b] = seenTail[b]
                                /\ p'[b] = p[b]
  BY <1>1, <1>2 DEF TypeOK
<1>5. p'[a] - remaining'[a] = p[a] - remaining[a]
  BY <1>3
<1> QED
  BY <1>3, <1>4, <1>5, LowTideReadKeeps

LEMMA ReadHeadKeepsCycle ==
  ASSUME CycleInv, TideInv', NEW a \in Edges(g), ReadHead(a)
  PROVE  CycleInv'
<1>1. /\ pc = "low" /\ work[a] = "loop"
      /\ UNCHANGED <<g, flow, maxFlow, pc, dist, levels, level, h, l>>
  BY DEF ReadHead, callVars, graphVars
<1>2. CASE IsWanted(a)
  <2>1. /\ seen' = [seen EXCEPT ![a] = l[g.dst[a]]]
        /\ work' = [work EXCEPT ![a] = "readTail"]
        /\ UNCHANGED <<p, remaining, seenTail>>
    BY <1>2 DEF ReadHead, GoTo
  <2>2. TypeOK
    BY CycleFacts
  <2>3. /\ \A b \in Edges(g) \ {a} : work'[b] = work[b] /\ seen'[b] = seen[b]
        /\ work'[a] = "readTail"
    BY <2>1, <2>2 DEF TypeOK
  <2> QED
    BY <1>1, <2>1, <2>3, LowTideReadKeeps
<1>3. CASE ~IsWanted(a)
  BY <1>1, <1>3, FinishKeepsCycle DEF ReadHead
<1> QED
  BY <1>2, <1>3

LEMMA ReadTailKeepsCycle ==
  ASSUME CycleInv, TideInv', NEW a \in Edges(g), ReadTail(a)
  PROVE  CycleInv'
<1>1. /\ pc = "low" /\ work[a] = "readTail"
      /\ UNCHANGED <<g, flow, maxFlow, pc, dist, levels, level, h, l>>
  BY DEF ReadTail, callVars, graphVars
<1>2. CASE h[g.src[a]] - l[g.src[a]] > 0
  <2>1. /\ seenTail' = [seenTail EXCEPT ![a] = l[g.src[a]]]
        /\ work' = [work EXCEPT ![a] = "casHead"]
        /\ UNCHANGED <<p, remaining, seen>>
    BY <1>2 DEF ReadTail, GoTo
  <2>2. TypeOK
    BY CycleFacts
  <2>3. /\ \A b \in Edges(g) \ {a} : work'[b] = work[b] /\ seenTail'[b] = seenTail[b]
        /\ work'[a] = "casHead"
    BY <2>1, <2>2 DEF TypeOK
  <2> QED
    BY <1>1, <2>1, <2>3, LowTideReadKeeps
<1>3. CASE ~(h[g.src[a]] - l[g.src[a]] > 0)
  BY <1>1, <1>3, FinishKeepsCycle DEF ReadTail
<1> QED
  BY <1>2, <1>3

\* What is held of an edge whose worker neither moves nor loses what it has read.
LEMMA OthersHold ==
  ASSUME UNCHANGED <<g, h, pc>>, NEW a, NEW b \in Edges(g) \ {a},
         work'[b] = work[b], remaining'[b] = remaining[b],
         seen'[b] = seen[b], seenTail'[b] = seenTail[b], p'[b] = p[b]
  PROVE  Held'[b] = Held[b] /\ Pulled'[b] = Pulled[b]
<1>1. SendBack(b)' = SendBack(b)
  BY DEF SendBack
<1> QED
  BY <1>1 DEF Held, Pulled

LEMMA CasHeadKeepsCycle ==
  ASSUME CycleInv, TideInv', NEW a \in Edges(g), CasHead(a)
  PROVE  CycleInv'
<1>1. /\ pc = "low" /\ work[a] = "casHead" /\ work[a] # "idle"
      /\ UNCHANGED <<g, flow, maxFlow, pc, dist, levels, level, h, remaining, p>>
  BY DEF CasHead, callVars, graphVars
<1>2. /\ TypeOK /\ IInv /\ l \in [Nodes(g) -> Nat] /\ g.dst[a] \in Nodes(g)
      /\ g.src[a] \in Nodes(g) /\ g.src[a] # g.dst[a] /\ SendBack(a) \in Nat
      /\ work \in [Edges(g) -> WorkerLabels]
  <2>1. /\ TypeOK /\ IInv /\ TideInv /\ WorkInv /\ l \in [Nodes(g) -> Nat]
        /\ work \in [Edges(g) -> WorkerLabels]
    BY CycleFacts
  <2>2. SendBack(a) \in Nat
    BY <1>1, <2>1, LowTideFacts
  <2>3. a \in LevelEdgeSet
    BY <1>1, <2>1, WorkerFacts DEF InLoops
  <2>4. g.dst[a] \in Nodes(g) /\ g.src[a] \in Nodes(g) /\ g.src[a] # g.dst[a]
    BY <1>1, <2>1, <2>3, RouteFacts DEF Phase
  <2> QED
    BY <2>1, <2>2, <2>4
<1>3. CASE l[g.dst[a]] = seen[a]
  <2>1. /\ l' = [l EXCEPT ![g.dst[a]] = @ - SendBack(a)]
        /\ work' = [work EXCEPT ![a] = "casTail"]
        /\ UNCHANGED <<seen, seenTail>>
    BY <1>3 DEF CasHead, GoTo
  <2>2. \A b \in Edges(g) \ {a} : work'[b] = work[b]
    BY <1>2, <2>1
  <2>3. \A b \in Edges(g) : Held[b] \in Nat /\ Pulled[b] \in Int
    BY <1>1, AmountFacts
  <2>4. Held[a] = 0 /\ Held'[a] = SendBack(a)
    <3>1. SendBack(a)' = SendBack(a)
      BY <1>1, <2>1 DEF SendBack
    <3>2. work'[a] = "casTail"
      BY <1>2, <2>1
    <3> QED
      BY <1>1, <3>1, <3>2 DEF Held
  <2>5. \A b \in Edges(g) : Held'[b] = IF b = a THEN Held[b] + SendBack(a) ELSE Held[b]
    <3> SUFFICES ASSUME NEW b \in Edges(g)
                 PROVE  Held'[b] = IF b = a THEN Held[b] + SendBack(a) ELSE Held[b]
      OBVIOUS
    <3>1. CASE b = a
      BY <1>2, <2>4, <3>1
    <3>2. CASE b # a
      <4>1. work'[b] = work[b] /\ remaining'[b] = remaining[b] /\ seen'[b] = seen[b]
            /\ seenTail'[b] = seenTail[b] /\ p'[b] = p[b]
        BY <1>1, <2>1, <2>2, <3>2
      <4>2. b \in Edges(g) \ {a} /\ UNCHANGED <<g, h, pc>>
        BY <1>1, <3>2
      <4>3. Held'[b] = Held[b]
        BY <4>1, <4>2, OthersHold
      <4> QED
        BY <3>2, <4>3
    <3> QED
      BY <3>1, <3>2
  <2>6. \A b \in Edges(g) : Pulled'[b] = Pulled[b] /\ Pulled[b] \in Int
    BY <1>1, <2>3 DEF Pulled
  <2>7. \A x \in Nodes(g) : /\ l[x] \in Nat
                            /\ l'[x] = l[x] - (IF x = g.dst[a] THEN SendBack(a) ELSE 0)
    BY <1>2, <2>1
  <2>8. LowTideAmounts(a, SendBack(a), 0)
    <3>1. work'[a] # "finished"
      BY <1>2, <2>1
    <3>2. \A b \in Edges(g) : Pulled'[b] = IF b = a THEN Pulled[b] + 0 ELSE Pulled[b]
      BY <2>6
    <3>3. \A x \in Nodes(g) :
             l'[x] = l[x] - (IF x = g.dst[a] THEN SendBack(a) + 0 ELSE 0)
                          + (IF x = g.src[a] THEN 0 ELSE 0)
      BY <1>2, <2>7
    <3> QED
      BY <1>1, <1>2, <2>2, <2>5, <3>1, <3>2, <3>3 DEF LowTideAmounts
  <2> QED
    BY <1>1, <2>8, LowTideAmountsKeep
<1>4. CASE l[g.dst[a]] # seen[a]
  <2>1. /\ work' = [work EXCEPT ![a] = "loop"] /\ UNCHANGED l
        /\ seen' = [seen EXCEPT ![a] = 0] /\ seenTail' = [seenTail EXCEPT ![a] = 0]
    BY <1>4 DEF CasHead, GoTo, Forget
  <2>2. /\ \A b \in Edges(g) \ {a} :
             work'[b] = work[b] /\ seen'[b] = seen[b] /\ seenTail'[b] = seenTail[b]
        /\ work'[a] = "loop"
    BY <1>2, <2>1 DEF TypeOK
  <2> QED
    BY <1>1, <2>1, <2>2, LowTideReadKeeps
<1> QED
  BY <1>3, <1>4

\* A worker whose demand is settled, at the tail or back at the head.
LEMMA SettledKeepsCycle ==
  ASSUME CycleInv, TideInv', pc = "low", NEW a \in Edges(g), work[a] \in {"casTail", "restore"},
         UNCHANGED <<g, flow, maxFlow, pc, dist, levels, level, h, p>>,
         \A b \in Edges(g) \ {a} : /\ work'[b] = work[b] /\ remaining'[b] = remaining[b]
                                   /\ seen'[b] = seen[b] /\ seenTail'[b] = seenTail[b],
         work'[a] = "loop",
         NEW d \in Nat, remaining'[a] = remaining[a] - d, d > 0 => l'[g.src[a]] <= h[g.src[a]],
         \A x \in Nodes(g) : l'[x] = l[x] + (IF x = g.dst[a] THEN SendBack(a) - d ELSE 0)
                                          + (IF x = g.src[a] THEN d ELSE 0)
  PROVE  CycleInv'
<1>1. /\ \A b \in Edges(g) : Held[b] \in Nat /\ Pulled[b] \in Int /\ Pulled[b] = p[b] - remaining[b]
      /\ IInv /\ l \in [Nodes(g) -> Nat] /\ p \in [Edges(g) -> Nat]
      /\ remaining \in [Edges(g) -> Nat]
  BY AmountFacts, CycleFacts
<1>2. SendBack(a) \in Nat /\ Held[a] = SendBack(a) /\ Held'[a] = 0
  <2>1. SendBack(a) \in Nat
    BY <1>1, LowTideFacts
  <2> QED
    BY <2>1 DEF Held
<1>3. \A b \in Edges(g) \ {a} : Held'[b] = Held[b] /\ Pulled'[b] = Pulled[b]
  <2> SUFFICES ASSUME NEW b \in Edges(g) \ {a} PROVE Held'[b] = Held[b] /\ Pulled'[b] = Pulled[b]
    OBVIOUS
  <2>1. work'[b] = work[b] /\ remaining'[b] = remaining[b] /\ seen'[b] = seen[b]
        /\ seenTail'[b] = seenTail[b] /\ p'[b] = p[b]
    OBVIOUS
  <2> QED
    BY <2>1, OthersHold
<1>4. Pulled'[a] = Pulled[a] + d
  <2>1. Pulled'[a] = p[a] - (remaining[a] - d)
    BY DEF Pulled
  <2>2. p[a] \in Nat /\ remaining[a] \in Nat
    BY <1>1
  <2> QED
    BY <1>1, <2>1, <2>2
<1>5. LowTideAmounts(a, -SendBack(a), d)
  <2>1. \A b \in Edges(g) : Held'[b] = IF b = a THEN Held[b] + (-SendBack(a)) ELSE Held[b]
    BY <1>1, <1>2, <1>3
  <2>2. \A b \in Edges(g) : Pulled'[b] = IF b = a THEN Pulled[b] + d ELSE Pulled[b]
    BY <1>3, <1>4
  <2>3. \A x \in Nodes(g) :
          l'[x] = l[x] - (IF x = g.dst[a] THEN -SendBack(a) + d ELSE 0)
                       + (IF x = g.src[a] THEN d ELSE 0)
    BY <1>1, <1>2
  <2> QED
    BY <1>2, <2>1, <2>2, <2>3 DEF LowTideAmounts
<1> QED
  BY <1>5, LowTideAmountsKeep

LEMMA CasTailKeepsCycle ==
  ASSUME CycleInv, TideInv', NEW a \in Edges(g), CasTail(a)
  PROVE  CycleInv'
<1>1. /\ pc = "low" /\ work[a] = "casTail" /\ work[a] # "idle"
      /\ UNCHANGED <<g, flow, maxFlow, pc, dist, levels, level, h, p>>
  BY DEF CasTail, callVars, graphVars
<1>2. /\ TypeOK /\ IInv /\ TideInv /\ WorkInv /\ l \in [Nodes(g) -> Nat]
      /\ work \in [Edges(g) -> WorkerLabels]
      /\ remaining \in [Edges(g) -> Nat] /\ h \in [Nodes(g) -> Nat]
      /\ seenTail \in [Edges(g) -> Nat]
  BY CycleFacts DEF TypeOK
<1>3. /\ g.dst[a] \in Nodes(g) /\ g.src[a] \in Nodes(g) /\ g.src[a] # g.dst[a]
      /\ SendBack(a) \in Nat /\ SendBack(a) <= remaining[a]
      /\ SendBack(a) <= h[g.src[a]] - seenTail[a]
  <2>1. /\ SendBack(a) \in Nat /\ SendBack(a) <= remaining[a]
        /\ SendBack(a) <= h[g.src[a]] - seenTail[a]
    <3>1. /\ SendBack(a) \in Nat /\ SendBack(a) <= remaining[a]
          /\ remaining[a] \in Nat /\ seen[a] \in Nat /\ seenTail[a] \in Nat
          /\ h[g.src[a]] \in Nat
      BY <1>1, <1>2, LowTideFacts
    <3>2. SendBack(a) <= h[g.src[a]] - seenTail[a]
      BY <3>1 DEF SendBack, Lesser
    <3> QED
      BY <3>1, <3>2
  <2>2. a \in LevelEdgeSet
    BY <1>1, <1>2, WorkerFacts DEF InLoops
  <2>3. g.dst[a] \in Nodes(g) /\ g.src[a] \in Nodes(g) /\ g.src[a] # g.dst[a]
    BY <1>1, <1>2, <2>2, RouteFacts DEF Phase
  <2> QED
    BY <2>1, <2>3
<1>4. CASE TailUnchanged(a)
  <2>1. /\ l' = [l EXCEPT ![g.src[a]] = seenTail[a] + SendBack(a)]
        /\ remaining' = [remaining EXCEPT ![a] = remaining[a] - SendBack(a)]
        /\ seen' = [seen EXCEPT ![a] = 0] /\ seenTail' = [seenTail EXCEPT ![a] = 0]
        /\ work' = [work EXCEPT ![a] = "loop"]
        /\ l[g.src[a]] = seenTail[a]
    BY <1>4 DEF CasTail, GoTo, Forget, TailUnchanged
  <2>2. /\ \A b \in Edges(g) \ {a} : /\ work'[b] = work[b] /\ remaining'[b] = remaining[b]
                                     /\ seen'[b] = seen[b] /\ seenTail'[b] = seenTail[b]
        /\ work'[a] = "loop" /\ remaining'[a] = remaining[a] - SendBack(a)
    BY <1>2, <2>1 DEF TypeOK
  <2>3. l'[g.src[a]] <= h[g.src[a]]
    <3>1. seenTail[a] \in Nat /\ h[g.src[a]] \in Nat /\ l'[g.src[a]] = seenTail[a] + SendBack(a)
      BY <1>2, <1>3, <2>1
    <3> QED
      BY <1>3, <3>1
  <2>4. \A x \in Nodes(g) :
          l'[x] = l[x] + (IF x = g.dst[a] THEN SendBack(a) - SendBack(a) ELSE 0)
                       + (IF x = g.src[a] THEN SendBack(a) ELSE 0)
    BY <1>2, <1>3, <2>1
  <2> QED
    BY <1>1, <1>3, <2>2, <2>3, <2>4, SettledKeepsCycle
<1>5. CASE ~TailUnchanged(a)
  <2>1. /\ work' = [work EXCEPT ![a] = "restore"] /\ UNCHANGED <<l, remaining, seen, seenTail>>
    BY <1>5 DEF CasTail, GoTo
  <2>2. \A b \in Edges(g) : Held[b] \in Nat /\ Pulled[b] \in Int
    BY <1>1, AmountFacts
  <2>3. /\ \A b \in Edges(g) \ {a} : work'[b] = work[b]
        /\ work'[a] = "restore"
    BY <1>2, <2>1
  <2>4. \A b \in Edges(g) : Held'[b] = Held[b]
    <3> SUFFICES ASSUME NEW b \in Edges(g) PROVE Held'[b] = Held[b]
      OBVIOUS
    <3>1. SendBack(b)' = SendBack(b)
      BY <1>1, <2>1 DEF SendBack
    <3>2. work'[b] \in {"casTail", "restore"} <=> work[b] \in {"casTail", "restore"}
      BY <1>1, <2>3
    <3> QED
      BY <1>1, <3>1, <3>2 DEF Held
  <2>5. \A b \in Edges(g) : Pulled'[b] = Pulled[b]
    BY <1>1, <2>1 DEF Pulled
  <2>6. LowTideAmounts(a, 0, 0)
    BY <1>1, <1>2, <2>1, <2>2, <2>3, <2>4, <2>5 DEF LowTideAmounts
  <2> QED
    BY <1>1, <2>6, LowTideAmountsKeep
<1> QED
  BY <1>4, <1>5

LEMMA RestoreKeepsCycle ==
  ASSUME CycleInv, TideInv', NEW a \in Edges(g), Restore(a)
  PROVE  CycleInv'
<1>1. /\ pc = "low" /\ work[a] = "restore"
      /\ UNCHANGED <<g, flow, maxFlow, pc, dist, levels, level, h, p, remaining>>
      /\ l' = [l EXCEPT ![g.dst[a]] = @ + SendBack(a)]
      /\ seen' = [seen EXCEPT ![a] = 0] /\ seenTail' = [seenTail EXCEPT ![a] = 0]
      /\ work' = [work EXCEPT ![a] = "loop"]
  BY DEF Restore, Returned, callVars, graphVars, Forget, GoTo
<1>2. /\ TypeOK /\ IInv /\ TideInv /\ WorkInv /\ l \in [Nodes(g) -> Nat]
      /\ work \in [Edges(g) -> WorkerLabels] /\ remaining \in [Edges(g) -> Nat]
  BY CycleFacts
<1>3. SendBack(a) \in Nat
  BY <1>1, <1>2, LowTideFacts
<1>4. /\ \A b \in Edges(g) \ {a} : /\ work'[b] = work[b] /\ remaining'[b] = remaining[b]
                                   /\ seen'[b] = seen[b] /\ seenTail'[b] = seenTail[b]
      /\ work'[a] = "loop"
  BY <1>1, <1>2 DEF TypeOK
<1>5. \A x \in Nodes(g) :
        l'[x] = l[x] + (IF x = g.dst[a] THEN SendBack(a) - 0 ELSE 0)
                     + (IF x = g.src[a] THEN 0 ELSE 0)
  BY <1>1, <1>2, <1>3
<1>6. /\ remaining'[a] = remaining[a] - 0 /\ 0 \in Nat
      /\ pc = "low" /\ work[a] \in {"casTail", "restore"} /\ ~(0 > 0)
      /\ UNCHANGED <<g, flow, maxFlow, pc, dist, levels, level, h, p>>
  BY <1>1, <1>2
<1> QED
  BY <1>4, <1>5, <1>6, SettledKeepsCycle

\* At a barrier no worker is in the middle of anything.
LEMMA BarrierFacts ==
  ASSUME CycleInv, pc \in InLoops, AtBarrier, NEW a \in Edges(g)
  PROVE  work[a] \in {"idle", "finished"}
<1>1. TypeOK /\ WorkInv
  BY CycleFacts
<1> QED
  BY <1>1, WorkerFacts DEF AtBarrier

LEMMA LowTideLevelKeepsCycle ==
  ASSUME CycleInv, TideInv', LowTideLevel
  PROVE  CycleInv'
<1>1. /\ pc = "low" /\ pc' = pc /\ AtBarrier /\ level > 1 /\ Begin(level - 1)
      /\ UNCHANGED <<g, flow, maxFlow, dist, levels, remaining, seen, seenTail, h, p, l>>
  BY DEF LowTideLevel, callVars, graphVars, tideVars, localVars
<1>2. /\ TypeOK /\ PullInv /\ DemandIsKept /\ level \in 1 .. Len(levels)
  BY <1>1, CycleFacts DEF TypeOK, InLoops
<1>3. level' = level - 1 /\ \A a \in Edges(g) : work'[a] \in {"idle", "loop"}
  BY <1>1, <1>2, BeginFacts
<1>4. \A a \in Edges(g) : work[a] \in {"idle", "finished"}
  BY <1>1, BarrierFacts DEF InLoops
<1>5. MassBalance'
  BY <1>1, CycleFacts, BalanceStands
<1>6. PullInv'
  <2> SUFFICES ASSUME NEW k \in (level - 1) .. Len(levels), NEW a \in levels[k],
                      k > level - 1 \/ work'[a] = "finished"
               PROVE  remaining[a] = 0
    BY <1>1, <1>3 DEF PullInv
  <2>1. k \in 1 .. Len(levels)
    BY <1>1, <1>2
  <2>2. a \in Edges(g)
    BY <1>1, <2>1, CycleFacts, RouteFacts DEF Phase
  <2>3. k \in level .. Len(levels)
    BY <1>2, <1>3, <2>1, <2>2
  <2>4. k > level \/ work[a] = "finished"
    BY <1>1, <1>2, <2>3 DEF AtBarrier
  <2> QED
    BY <1>1, <1>2, <2>3, <2>4 DEF PullInv
<1>7. DemandIsKept'
  <2>1. Held = [a \in Edges(g) |-> 0] /\ Held' = [a \in Edges(g) |-> 0]
    BY <1>1, <1>3, <1>4 DEF Held
  <2>2. Held' = Held
    BY <2>1
  <2>3. Pulled' = Pulled
    BY <1>1 DEF Pulled
  <2>4. \A x : Into(x)' = Into(x) /\ From(x)' = From(x)
    BY <1>1, SameRoutes
  <2> HIDE DEF Held, Pulled
  <2> QED
    BY <1>1, <1>2, <2>2, <2>3, <2>4 DEF DemandIsKept
<1> QED
  BY <1>1, <1>5, <1>6, <1>7 DEF CycleInv, RisenInv, DrainInv, ZeroCycleMeansBlocked

\* The demands that have come to the source start the erosion, and no promise is
\* larger than what is wanted behind it.
LEMMA LowTideEndKeepsCycle ==
  ASSUME CycleInv, TideInv', LowTideEnd
  PROVE  CycleInv'
<1>1. /\ pc = "low" /\ pc' = "erosion" /\ AtBarrier /\ level = 1 /\ Begin(1)
      /\ UNCHANGED <<g, flow, maxFlow, dist, levels, p, l>>
      /\ remaining' = p
      /\ h' = [x \in Nodes(g) |-> IF x = g.source THEN l[g.source] ELSE 0]
  BY DEF LowTideEnd, callVars, graphVars
<1>2. /\ TypeOK /\ PullInv /\ DemandIsKept /\ MassBalance /\ l \in [Nodes(g) -> Nat]
      /\ g.source \in Nodes(g) /\ g.sink \in Nodes(g) /\ g.source # g.sink /\ maxFlow \in Int
      /\ p \in [Edges(g) -> Nat] /\ remaining \in [Edges(g) -> Nat] /\ pc \in Phase
  BY <1>1, CycleFacts DEF Phase
<1>3. level' = 1 /\ \A a \in Edges(g) : work'[a] \in {"idle", "loop"}
  BY <1>1, <1>2, BeginFacts
<1>4. \A a \in Edges(g) : work[a] \in {"idle", "finished"}
  BY <1>1, BarrierFacts DEF InLoops
<1>5. l[g.source] > 0
  <2>1. LowTideReachesSource
    BY CycleFacts, DemandReachesSource
  <2> QED
    BY <1>1, <2>1 DEF LowTideReachesSource
<1>6. ASSUME NEW x
      PROVE  /\ IsFiniteSet(From(x)) /\ IsFiniteSet(Into(x))
             /\ From(x) \subseteq LevelEdgeSet /\ Into(x) \subseteq LevelEdgeSet
             /\ From(x) \subseteq Edges(g) /\ Into(x) \subseteq Edges(g)
             /\ From(x)' = From(x) /\ Into(x)' = Into(x)
             /\ Into(g.source) = {}
  BY <1>1, <1>2, CycleFacts, RouteFacts, SameRoutes
<1>7. \A a \in LevelEdgeSet : a \in Edges(g) /\ remaining[a] = 0 /\ Pulled[a] = p[a]
  <2> SUFFICES ASSUME NEW a \in LevelEdgeSet
               PROVE  a \in Edges(g) /\ remaining[a] = 0 /\ Pulled[a] = p[a]
    OBVIOUS
  <2>1. a \in Edges(g) /\ \E k \in 1 .. Len(levels) : a \in levels[k]
    BY <1>2, CycleFacts, RouteFacts
  <2>2. PICK k \in 1 .. Len(levels) : a \in levels[k]
    BY <2>1
  <2>3. k > level \/ work[a] = "finished"
    BY <1>1, <2>2 DEF AtBarrier
  <2>4. remaining[a] = 0
    BY <1>1, <1>2, <2>2, <2>3 DEF PullInv
  <2>5. p[a] \in Nat /\ Pulled[a] = p[a] - remaining[a]
    BY <1>2, <2>1, AmountFacts
  <2> QED
    BY <2>1, <2>4, <2>5
<1>8. ASSUME NEW x
      PROVE  SumOver(InHands', From(x)) = 0
  <2>1. \A a \in From(x) : InHands'[a] = 0
    BY <1>1, <1>3, <1>6 DEF InHands
  <2> QED
    BY <1>6, <2>1, SumOfZeros
<1>9. ASSUME NEW x \in Nodes(g) \ {g.sink}
      PROVE  h'[x] + SumOver(InHands', From(x)) + SumOver(remaining', Into(x))
               <= SumOver(remaining', From(x))
  <2>1. SumOver(Held, Into(x)) = 0
    <3>1. \A a \in Into(x) : Held[a] = 0
      BY <1>4, <1>6 DEF Held
    <3> QED
      BY <1>6, <3>1, SumOfZeros
  <2>2. SumOver(p, Into(x)) = SumOver(Pulled, Into(x)) /\ SumOver(p, From(x)) = SumOver(Pulled, From(x))
    <3>1. /\ \A a \in Into(x) : Pulled[a] \in Int /\ p[a] = Pulled[a]
          /\ \A a \in From(x) : Pulled[a] \in Int /\ p[a] = Pulled[a]
      BY <1>2, <1>6, <1>7
    <3> QED
      BY <1>6, <3>1, SumSame
  <2>3. l[x] + SumOver(Held, Into(x)) + SumOver(Pulled, Into(x)) = SumOver(Pulled, From(x))
    BY <1>1, <1>2 DEF DemandIsKept
  <2>4. SumOver(Pulled, Into(x)) \in Nat /\ SumOver(Pulled, From(x)) \in Nat /\ l[x] \in Nat
    BY <1>1, <1>2, SumFacts
  <2>5. h'[x] \in Nat /\ h'[x] <= l[x]
    BY <1>1, <1>2
  <2> QED
    BY <1>1, <1>8, <2>1, <2>2, <2>3, <2>4, <2>5
<1>10. DrainInv'
  <2>1. l'[g.source] > 0
    BY <1>1, <1>5
  <2>2. ASSUME NEW a \in levels[1] PROVE work'[a] # "finished"
    <3>1. a \in Edges(g)
      BY <1>2, CycleFacts, RouteFacts DEF TypeOK
    <3> QED
      BY <1>3, <3>1
  <2>3. \A x : From(x)' = From(x) /\ Into(x)' = Into(x)
    BY <1>6
  <2>4. \A k \in 1 .. (1 - 1) : FALSE
    OBVIOUS
  <2> QED
    BY <1>1, <1>3, <1>9, <2>1, <2>2, <2>3, <2>4 DEF DrainInv
<1>11. MassBalance'
  <2>1. \A x : NetOutflow(g, flow, x)' = NetOutflow(g, flow, x)
    BY <1>1
  <2>2. \A x \in Nodes(g) : InTransit(x) = 0 /\ InTransit(x)' = IF x = g.source THEN l[g.source] ELSE 0
    <3> SUFFICES ASSUME NEW x \in Nodes(g)
                 PROVE  InTransit(x) = 0 /\ InTransit(x)' = IF x = g.source THEN l[g.source] ELSE 0
      OBVIOUS
    <3>1. SumOver(InHands, From(x))' = 0
      BY <1>6, <1>8
    <3>2. h'[x] = IF x = g.source THEN l[g.source] ELSE 0
      BY <1>1
    <3> QED
      BY <1>1, <1>2, <3>1, <3>2 DEF InTransit
  <2>3. Delivered = 0 /\ Delivered' = l[g.source] /\ Arrived = 0 /\ Arrived' = 0
    BY <1>1, <1>2 DEF Delivered, Arrived
  <2> QED
    BY <1>1, <1>2, <2>1, <2>2, <2>3 DEF MassBalance
<1> QED
  BY <1>1, <1>10, <1>11 DEF CycleInv, RisenInv, PullInv, DemandIsKept, ZeroCycleMeansBlocked

-------------------------------------------------------------------------------
(* The erosion.                                                            *)

\* What is sent over an edge and taken back from its reverse leaves one end for the other.
LEMMA SentOverEdge ==
  ASSUME NEW c, IsCase(c), NEW a \in Edges(c), c.src[a] # c.dst[a], NEW d \in Int,
         NEW f, NEW k, \A b \in Edges(c) : f[b] \in Int,
         \A b \in Edges(c) :
           k[b] = IF b = a THEN f[b] + d ELSE IF b = c.rev[a] THEN f[b] - d ELSE f[b],
         NEW x
  PROVE  NetOutflow(c, k, x) = NetOutflow(c, f, x) + (IF x = c.src[a] THEN d ELSE 0)
                                                   - (IF x = c.dst[a] THEN d ELSE 0)
<1>1. /\ IsFiniteSet(Out(c, x)) /\ \A b \in Out(c, x) : b \in Edges(c) /\ c.src[b] = x
      /\ NetOutflow(c, f, x) = SumOver(f, Out(c, x)) /\ NetOutflow(c, k, x) = SumOver(k, Out(c, x))
  BY NetworkIsFinite, NetOutflowIsSum DEF Out
<1>2. c.rev[a] \in Edges(c) /\ c.rev[a] # a /\ c.src[c.rev[a]] = c.dst[a]
  BY CaseFacts
<1>3. /\ \A b \in Edges(c) : k[b] \in Int
      /\ SumOver(f, Out(c, x)) \in Int
  BY <1>1, SumType
<1>4. \A b \in Out(c, x) : f[b] \in Int /\ k[b] \in Int
  BY <1>1, <1>3
<1>5. CASE x = c.src[a]
  <2>1. a \in Out(c, x) /\ \A b \in Out(c, x) \ {a} : k[b] = f[b]
    BY <1>1, <1>2, <1>5 DEF Out
  <2>2. SumOver(k, Out(c, x)) = SumOver(f, Out(c, x)) + k[a] - f[a]
    BY <1>1, <1>4, <2>1, SumUpdate
  <2>3. k[a] = f[a] + d /\ f[a] \in Int
    OBVIOUS
  <2> QED
    BY <1>1, <1>3, <1>5, <2>2, <2>3
<1>6. CASE x = c.dst[a]
  <2>1. c.rev[a] \in Out(c, x) /\ \A b \in Out(c, x) \ {c.rev[a]} : k[b] = f[b]
    BY <1>1, <1>2, <1>6 DEF Out
  <2>2. SumOver(k, Out(c, x)) = SumOver(f, Out(c, x)) + k[c.rev[a]] - f[c.rev[a]]
    BY <1>1, <1>4, <2>1, SumUpdate
  <2>3. k[c.rev[a]] = f[c.rev[a]] - d /\ f[c.rev[a]] \in Int
    BY <1>2
  <2> QED
    BY <1>1, <1>3, <1>6, <2>2, <2>3
<1>7. CASE x # c.src[a] /\ x # c.dst[a]
  <2>1. \A b \in Out(c, x) : k[b] = f[b]
    BY <1>1, <1>2, <1>7
  <2>2. SumOver(k, Out(c, x)) = SumOver(f, Out(c, x))
    BY <1>1, <1>4, <2>1, SumSame
  <2> QED
    BY <1>1, <1>3, <1>7, <2>2
<1> QED
  BY <1>5, <1>6, <1>7

\* What the worker of edge a does to the amounts: dh is what it takes into its hands,
\* d what it sends over the edge.
ErosionAmounts(a, dh, d) ==
  /\ UNCHANGED <<g, maxFlow, pc, dist, levels, level, l>>
  /\ dh \in Int /\ d \in Nat /\ dh + d >= 0
  /\ \A b \in Edges(g) \ {a} : work'[b] = work[b]
  /\ \A b \in Edges(g) : InHands'[b] = IF b = a THEN InHands[b] + dh ELSE InHands[b]
  /\ \A b \in Edges(g) : remaining'[b] = IF b = a THEN remaining[b] - d ELSE remaining[b]
  /\ \A b \in Edges(g) :
       flow'[b] = IF b = a THEN flow[b] + d ELSE IF b = g.rev[a] THEN flow[b] - d ELSE flow[b]
  /\ \A x \in Nodes(g) :
       h'[x] = h[x] - (IF x = g.src[a] THEN dh + d ELSE 0) + (IF x = g.dst[a] THEN d ELSE 0)
  /\ work'[a] = "finished" => remaining'[a] = 0 \/ h'[g.src[a]] = 0

LEMMA ErosionAmountsKeep ==
  ASSUME CycleInv, TideInv', pc = "erosion", NEW a \in Edges(g), work[a] # "idle",
         NEW dh, NEW d, ErosionAmounts(a, dh, d)
  PROVE  CycleInv'
<1>1. /\ UNCHANGED <<g, maxFlow, pc, dist, levels, level, l>>
      /\ dh \in Int /\ d \in Nat /\ dh + d >= 0
      /\ work'[a] = "finished" => remaining'[a] = 0 \/ h'[g.src[a]] = 0
  BY DEF ErosionAmounts
<1>2. /\ \A b \in Edges(g) \ {a} : work'[b] = work[b]
      /\ \A b \in Edges(g) : InHands'[b] = IF b = a THEN InHands[b] + dh ELSE InHands[b]
      /\ \A b \in Edges(g) : remaining'[b] = IF b = a THEN remaining[b] - d ELSE remaining[b]
  BY DEF ErosionAmounts
<1>3. \A b \in Edges(g) :
        flow'[b] = IF b = a THEN flow[b] + d ELSE IF b = g.rev[a] THEN flow[b] - d ELSE flow[b]
  BY DEF ErosionAmounts
<1>4. \A x \in Nodes(g) :
        h'[x] = h[x] - (IF x = g.src[a] THEN dh + d ELSE 0) + (IF x = g.dst[a] THEN d ELSE 0)
  BY DEF ErosionAmounts
<1> HIDE DEF ErosionAmounts
<1>5. /\ pc \in Phase /\ pc \in InLoops /\ TideInv /\ TypeOK /\ WorkInv /\ IsCase(g)
      /\ DrainInv /\ MassBalance /\ h \in [Nodes(g) -> Nat] /\ maxFlow \in Int
      /\ remaining \in [Edges(g) -> Nat] /\ flow \in [Edges(g) -> Int] /\ l \in [Nodes(g) -> Nat]
      /\ g.source \in Nodes(g) /\ g.sink \in Nodes(g) /\ g.source # g.sink
  BY CycleFacts DEF Phase, InLoops
<1>6. a \in levels[level] /\ level \in 1 .. Len(levels) /\ a \in LevelEdgeSet
  BY <1>5, WorkerFacts DEF TypeOK
<1>7. /\ g.src[a] \in Nodes(g) /\ g.dst[a] \in Nodes(g) /\ g.src[a] # g.dst[a]
      /\ g.src[a] # g.sink /\ g.dst[a] # g.source
      /\ dist[g.src[a]] = level - 1 /\ dist[g.dst[a]] = level
  BY <1>5, <1>6, RouteFacts
<1>8. h' \in [Nodes(g) -> Nat]
  <2>1. TypeOK'
    BY DEF TideInv, IInv
  <2> QED
    BY <1>1, <2>1 DEF TypeOK
<1>9. ASSUME NEW x
      PROVE  /\ IsFiniteSet(From(x)) /\ IsFiniteSet(Into(x))
             /\ From(x) \subseteq Edges(g) /\ Into(x) \subseteq Edges(g)
             /\ a \in Into(x) <=> x = g.dst[a]
             /\ a \in From(x) <=> x = g.src[a]
             /\ From(x)' = From(x) /\ Into(x)' = Into(x)
             /\ SumOver(InHands, From(x)) \in Nat /\ SumOver(remaining, From(x)) \in Nat
             /\ SumOver(remaining, Into(x)) \in Nat
  <2>1. /\ IsFiniteSet(From(x)) /\ IsFiniteSet(Into(x))
        /\ From(x) \subseteq Edges(g) /\ Into(x) \subseteq Edges(g)
    BY <1>5, RouteFacts
  <2>2. /\ a \in Into(x) <=> x = g.dst[a]
        /\ a \in From(x) <=> x = g.src[a]
    BY <1>6 DEF From, Into
  <2>3. /\ SumOver(InHands, From(x)) \in Nat /\ SumOver(remaining, From(x)) \in Nat
        /\ SumOver(remaining, Into(x)) \in Nat
    BY <1>5, SumFacts
  <2>4. From(x)' = From(x) /\ Into(x)' = Into(x)
    BY <1>1, SameRoutes
  <2> QED
    BY <2>1, <2>2, <2>3, <2>4
<1>10. \A b \in Edges(g) : /\ InHands[b] \in Int /\ InHands'[b] \in Int
                           /\ remaining[b] \in Int /\ remaining'[b] \in Int
  <2>1. \A b \in Edges(g) : InHands[b] \in Int /\ remaining[b] \in Int
    BY <1>5, AmountFacts
  <2> QED
    BY <1>1, <1>2, <2>1
<1>11. ASSUME NEW x
       PROVE  /\ SumOver(InHands', From(x))
                   = SumOver(InHands, From(x)) + (IF x = g.src[a] THEN dh ELSE 0)
              /\ SumOver(remaining', From(x))
                   = SumOver(remaining, From(x)) - (IF x = g.src[a] THEN d ELSE 0)
              /\ SumOver(remaining', Into(x))
                   = SumOver(remaining, Into(x)) - (IF x = g.dst[a] THEN d ELSE 0)
  <2>1. /\ IsFiniteSet(From(x)) /\ IsFiniteSet(Into(x))
        /\ \A b \in From(x) : b \in Edges(g)
        /\ \A b \in Into(x) : b \in Edges(g)
    BY <1>9
  <2>2. /\ InHands'[a] - InHands[a] = dh
        /\ remaining'[a] - remaining[a] = -d
    BY <1>1, <1>2, <1>10
  <2>3. SumOver(InHands', From(x))
          = SumOver(InHands, From(x)) + (IF a \in From(x) THEN InHands'[a] - InHands[a] ELSE 0)
    <3>1. /\ \A b \in From(x) : InHands[b] \in Int /\ InHands'[b] \in Int
          /\ \A b \in From(x) \ {a} : InHands'[b] = InHands[b]
      BY <1>2, <1>10, <2>1
    <3> QED
      BY <2>1, <3>1, ChangedSum
  <2>4. SumOver(remaining', From(x))
          = SumOver(remaining, From(x)) + (IF a \in From(x) THEN remaining'[a] - remaining[a] ELSE 0)
    <3>1. /\ \A b \in From(x) : remaining[b] \in Int /\ remaining'[b] \in Int
          /\ \A b \in From(x) \ {a} : remaining'[b] = remaining[b]
      BY <1>2, <1>10, <2>1
    <3> QED
      BY <2>1, <3>1, ChangedSum
  <2>5. SumOver(remaining', Into(x))
          = SumOver(remaining, Into(x)) + (IF a \in Into(x) THEN remaining'[a] - remaining[a] ELSE 0)
    <3>1. /\ \A b \in Into(x) : remaining[b] \in Int /\ remaining'[b] \in Int
          /\ \A b \in Into(x) \ {a} : remaining'[b] = remaining[b]
      BY <1>2, <1>10, <2>1
    <3> QED
      BY <2>1, <3>1, ChangedSum
  <2>6. /\ a \in Into(x) <=> x = g.dst[a]
        /\ a \in From(x) <=> x = g.src[a]
    BY <1>9
  <2>7. /\ SumOver(InHands', From(x))
             = SumOver(InHands, From(x)) + (IF x = g.src[a] THEN dh ELSE 0)
    BY <2>2, <2>3, <2>6
  <2>8. SumOver(remaining', From(x))
          = SumOver(remaining, From(x)) - (IF x = g.src[a] THEN d ELSE 0)
    BY <1>1, <1>9, <2>2, <2>4, <2>6
  <2>9. SumOver(remaining', Into(x))
          = SumOver(remaining, Into(x)) - (IF x = g.dst[a] THEN d ELSE 0)
    BY <1>1, <1>9, <2>2, <2>5, <2>6
  <2> QED
    BY <2>7, <2>8, <2>9
<1>12. DrainInv'
  <2>1. l[g.source] > 0
    BY <1>5 DEF DrainInv
  <2>2. ASSUME NEW k \in 1 .. (level - 1), NEW b \in levels[k] PROVE h'[g.src[b]] = 0
    <3>1. k \in 1 .. Len(levels) /\ level \in Nat
      BY <1>6
    <3>2. b \in LevelEdgeSet /\ dist[g.src[b]] = k - 1
      BY <1>5, <3>1, RouteFacts
    <3>3. h[g.src[b]] = 0 /\ g.src[b] \in Nodes(g)
      BY <1>5, <3>2, RouteFacts DEF DrainInv
    <3>4. g.src[b] # g.src[a] /\ g.src[b] # g.dst[a]
      BY <1>7, <3>1, <3>2
    <3> QED
      BY <1>4, <3>3, <3>4
  <2>3. ASSUME NEW b \in levels[level], work'[b] = "finished"
        PROVE  remaining'[b] = 0 \/ h'[g.src[b]] = 0
    <3>1. b \in LevelEdgeSet /\ dist[g.src[b]] = level - 1 /\ b \in Edges(g) /\ g.src[b] \in Nodes(g)
      BY <1>5, <1>6, RouteFacts
    <3>2. CASE b = a
      BY <1>1, <2>3, <3>2
    <3>3. CASE b # a
      <4>1. remaining[b] = 0 \/ h[g.src[b]] = 0
        BY <1>2, <1>5, <2>3, <3>1, <3>3 DEF DrainInv
      <4>2. remaining'[b] = remaining[b] /\ h'[g.src[b]] \in Nat /\ h[g.src[b]] \in Nat
        BY <1>2, <1>5, <1>8, <3>1, <3>3
      <4>3. h'[g.src[b]] <= h[g.src[b]]
        <5>1. g.src[b] # g.dst[a]
          BY <1>6, <1>7, <3>1
        <5> QED
          BY <1>1, <1>4, <3>1, <4>2, <5>1
      <4> QED
        BY <4>1, <4>2, <4>3
    <3> QED
      BY <3>2, <3>3
  <2>4. ASSUME NEW x \in Nodes(g) \ {g.sink}
        PROVE  h'[x] + SumOver(InHands', From(x)) + SumOver(remaining', Into(x))
                 <= SumOver(remaining', From(x))
    <3>1. h[x] + SumOver(InHands, From(x)) + SumOver(remaining, Into(x))
            <= SumOver(remaining, From(x))
      BY <1>5 DEF DrainInv
    <3> DEFINE I == SumOver(InHands, From(x))
    <3> DEFINE R == SumOver(remaining, Into(x))
    <3> DEFINE Q == SumOver(remaining, From(x))
    <3>2. I \in Nat /\ R \in Nat /\ Q \in Nat /\ h[x] \in Nat /\ h[x] + I + R <= Q
      BY <1>5, <1>9, <3>1
    <3>3. /\ SumOver(InHands', From(x)) = I + (IF x = g.src[a] THEN dh ELSE 0)
          /\ SumOver(remaining', From(x)) = Q - (IF x = g.src[a] THEN d ELSE 0)
          /\ SumOver(remaining', Into(x)) = R - (IF x = g.dst[a] THEN d ELSE 0)
          /\ h'[x] = h[x] - (IF x = g.src[a] THEN dh + d ELSE 0) + (IF x = g.dst[a] THEN d ELSE 0)
      BY <1>4, <1>11
    <3> HIDE DEF I, R, Q
    <3>4. CASE x = g.src[a]
      BY <1>1, <1>7, <3>2, <3>3, <3>4
    <3>5. CASE x = g.dst[a]
      BY <1>1, <1>7, <3>2, <3>3, <3>5
    <3>6. CASE x # g.src[a] /\ x # g.dst[a]
      BY <1>1, <3>2, <3>3, <3>6
    <3> QED
      BY <3>4, <3>5, <3>6
  <2>5. \A x : From(x)' = From(x) /\ Into(x)' = Into(x)
    BY <1>9
  <2> QED
    BY <1>1, <2>1, <2>2, <2>3, <2>4, <2>5 DEF DrainInv
<1>13. MassBalance'
  <2>1. ASSUME NEW x
        PROVE  NetOutflow(g, flow', x) = NetOutflow(g, flow, x) + (IF x = g.src[a] THEN d ELSE 0)
                                                                - (IF x = g.dst[a] THEN d ELSE 0)
    <3> DEFINE k == flow'
    <3>1. /\ IsCase(g) /\ a \in Edges(g) /\ g.src[a] # g.dst[a] /\ d \in Int
          /\ \A b \in Edges(g) : flow[b] \in Int
      BY <1>1, <1>5, <1>7
    <3>2. \A b \in Edges(g) :
            k[b] = IF b = a THEN flow[b] + d ELSE IF b = g.rev[a] THEN flow[b] - d ELSE flow[b]
      BY <1>3
    <3> HIDE DEF k
    <3>3. NetOutflow(g, k, x) = NetOutflow(g, flow, x) + (IF x = g.src[a] THEN d ELSE 0)
                                                       - (IF x = g.dst[a] THEN d ELSE 0)
      BY <3>1, <3>2, SentOverEdge
    <3> QED
      BY <3>3 DEF k
  <2>2. ASSUME NEW x \in Nodes(g)
        PROVE  /\ InTransit(x) \in Int
               /\ InTransit(x)' = InTransit(x) - (IF x = g.src[a] THEN d ELSE 0)
                                               + (IF x = g.dst[a] THEN d ELSE 0)
    <3> DEFINE I == SumOver(InHands, From(x))
    <3>1. InTransit(x) = h[x] + I /\ h[x] \in Nat /\ I \in Nat
      BY <1>5, <1>9 DEF InTransit
    <3>2. InTransit(x)' = h'[x] + SumOver(InHands', From(x))
      BY <1>1, <1>9 DEF InTransit
    <3>3. /\ SumOver(InHands', From(x)) = I + (IF x = g.src[a] THEN dh ELSE 0)
          /\ h'[x] = h[x] - (IF x = g.src[a] THEN dh + d ELSE 0) + (IF x = g.dst[a] THEN d ELSE 0)
      BY <1>4, <1>11
    <3> HIDE DEF I
    <3>4. CASE x = g.src[a]
      BY <1>1, <1>7, <3>1, <3>2, <3>3, <3>4
    <3>5. CASE x # g.src[a]
      BY <1>1, <1>7, <3>1, <3>2, <3>3, <3>5
    <3> QED
      BY <3>4, <3>5
  <2>3. Delivered = l[g.source] /\ Delivered' = l[g.source] /\ l[g.source] \in Nat
    BY <1>1, <1>5 DEF Delivered
  <2>4. /\ Arrived = h[g.sink] /\ Arrived' = h'[g.sink] /\ h[g.sink] \in Nat
        /\ h'[g.sink] = h[g.sink] + (IF g.sink = g.dst[a] THEN d ELSE 0)
    BY <1>1, <1>4, <1>5, <1>7 DEF Arrived
  <2>5. \A x : NetOutflow(g, flow, x)' = NetOutflow(g, flow', x)
    BY <1>1
  <2>6. \A x : NetOutflow(g, flow, x) \in Int
    BY <1>5, NetOutflowType
  <2>7. /\ \A x \in Nodes(g) \ {g.source, g.sink} : NetOutflow(g, flow, x) = -InTransit(x)
        /\ NetOutflow(g, flow, g.source) = maxFlow + Delivered - InTransit(g.source)
        /\ NetOutflow(g, flow, g.sink) = -(maxFlow + Arrived)
    BY <1>5 DEF MassBalance
  <2>8. ASSUME NEW x \in Nodes(g) \ {g.source, g.sink}
        PROVE  NetOutflow(g, flow', x) = -(InTransit(x)')
    <3>1. /\ NetOutflow(g, flow', x) = NetOutflow(g, flow, x) + (IF x = g.src[a] THEN d ELSE 0)
                                                              - (IF x = g.dst[a] THEN d ELSE 0)
          /\ NetOutflow(g, flow, x) = -InTransit(x) /\ NetOutflow(g, flow, x) \in Int
          /\ InTransit(x) \in Int
          /\ InTransit(x)' = InTransit(x) - (IF x = g.src[a] THEN d ELSE 0)
                                          + (IF x = g.dst[a] THEN d ELSE 0)
      BY <2>1, <2>2, <2>6, <2>7
    <3> QED
      BY <1>1, <3>1
  <2>9. NetOutflow(g, flow', g.source) = maxFlow + Delivered' - InTransit(g.source)'
    <3>1. /\ NetOutflow(g, flow', g.source)
               = NetOutflow(g, flow, g.source) + (IF g.source = g.src[a] THEN d ELSE 0)
          /\ NetOutflow(g, flow, g.source) = maxFlow + l[g.source] - InTransit(g.source)
          /\ InTransit(g.source) \in Int
          /\ InTransit(g.source)' = InTransit(g.source) - (IF g.source = g.src[a] THEN d ELSE 0)
      BY <1>1, <1>5, <1>7, <2>1, <2>2, <2>3, <2>6, <2>7
    <3> QED
      BY <1>1, <1>5, <2>3, <3>1
  <2>10. NetOutflow(g, flow', g.sink) = -(maxFlow + Arrived')
    <3>1. NetOutflow(g, flow', g.sink)
            = NetOutflow(g, flow, g.sink) - (IF g.sink = g.dst[a] THEN d ELSE 0)
      BY <1>1, <1>7, <2>1, <2>6
    <3>2. NetOutflow(g, flow, g.sink) = -(maxFlow + h[g.sink])
      BY <2>4, <2>7
    <3> QED
      BY <1>1, <1>5, <2>4, <3>1, <3>2
  <2> QED
    BY <1>1, <2>5, <2>8, <2>9, <2>10 DEF MassBalance
<1> QED
  BY <1>1, <1>12, <1>13 DEF CycleInv, RisenInv, PullInv, DemandIsKept, ZeroCycleMeansBlocked

\* A worker that neither takes nor delivers anything.
LEMMA ErosionReadKeeps ==
  ASSUME CycleInv, TideInv', pc = "erosion", NEW a \in Edges(g), work[a] # "idle",
         UNCHANGED <<g, flow, maxFlow, pc, dist, levels, level, h, l, remaining>>,
         \A b \in Edges(g) \ {a} : work'[b] = work[b] /\ seen'[b] = seen[b],
         work[a] # "deliver", work'[a] # "deliver",
         work'[a] = "finished" => remaining[a] = 0 \/ h[g.src[a]] = 0
  PROVE  CycleInv'
<1>1. \A b \in Edges(g) : InHands'[b] = InHands[b] /\ InHands[b] \in Nat
  <2> SUFFICES ASSUME NEW b \in Edges(g) PROVE InHands'[b] = InHands[b]
    BY AmountFacts
  <2>1. CASE b = a
    BY <2>1 DEF InHands
  <2>2. CASE b # a
    <3>1. CommitFlow(b)' = CommitFlow(b)
      BY <2>2 DEF CommitFlow
    <3> QED
      BY <2>2, <3>1 DEF InHands
  <2> QED
    BY <2>1, <2>2
<1>2. /\ \A b \in Edges(g) : remaining[b] \in Nat /\ flow[b] \in Int
      /\ \A x \in Nodes(g) : h[x] \in Nat
  BY CycleFacts
<1>3. ErosionAmounts(a, 0, 0)
  BY <1>1, <1>2 DEF ErosionAmounts
<1> QED
  BY <1>3, ErosionAmountsKeep

LEMMA ReadWaitingKeepsCycle ==
  ASSUME CycleInv, TideInv', NEW a \in Edges(g), ReadWaiting(a)
  PROVE  CycleInv'
<1>1. /\ pc = "erosion" /\ work[a] = "loop" /\ work[a] # "idle" /\ work[a] # "deliver"
      /\ UNCHANGED <<g, flow, maxFlow, pc, dist, levels, level, h, l, remaining>>
  BY DEF ReadWaiting, callVars, graphVars, tideVars
<1>2. TypeOK /\ remaining \in [Edges(g) -> Nat] /\ h \in [Nodes(g) -> Nat]
  BY CycleFacts
<1>3. remaining[a] \in Nat /\ h[g.src[a]] \in Nat
  BY <1>1, CycleFacts, ErosionFacts
<1>4. CASE remaining[a] > 0 /\ h[g.src[a]] > 0
  <2>1. seen' = [seen EXCEPT ![a] = h[g.src[a]]] /\ work' = [work EXCEPT ![a] = "cas"]
    BY <1>4 DEF ReadWaiting, GoTo
  <2>2. /\ \A b \in Edges(g) \ {a} : work'[b] = work[b] /\ seen'[b] = seen[b]
        /\ work'[a] = "cas"
    BY <1>2, <2>1 DEF TypeOK
  <2> QED
    BY <1>1, <2>2, ErosionReadKeeps
<1>5. CASE ~(remaining[a] > 0 /\ h[g.src[a]] > 0)
  <2>1. seen' = seen /\ work' = [work EXCEPT ![a] = "finished"]
    BY <1>5 DEF ReadWaiting, GoTo
  <2>2. /\ \A b \in Edges(g) \ {a} : work'[b] = work[b] /\ seen'[b] = seen[b]
        /\ work'[a] = "finished"
    BY <1>2, <2>1 DEF TypeOK
  <2>3. remaining[a] = 0 \/ h[g.src[a]] = 0
    BY <1>3, <1>5
  <2> QED
    BY <1>1, <2>2, <2>3, ErosionReadKeeps
<1> QED
  BY <1>4, <1>5

LEMMA CasWaitingKeepsCycle ==
  ASSUME CycleInv, TideInv', NEW a \in Edges(g), CasWaiting(a)
  PROVE  CycleInv'
<1>1. /\ pc = "erosion" /\ work[a] = "cas" /\ work[a] # "idle" /\ work[a] # "deliver"
      /\ UNCHANGED <<g, flow, maxFlow, pc, dist, levels, level, l, remaining>>
  BY DEF CasWaiting, callVars, graphVars
<1>2. /\ TypeOK /\ IInv /\ TideInv /\ remaining \in [Edges(g) -> Nat] /\ h \in [Nodes(g) -> Nat]
      /\ work \in [Edges(g) -> WorkerLabels] /\ flow \in [Edges(g) -> Int]
  BY CycleFacts
<1>3. /\ CommitFlow(a) \in Nat /\ CommitFlow(a) <= seen[a] /\ seen[a] \in Nat
      /\ g.src[a] \in Nodes(g) /\ g.src[a] # g.dst[a]
  <2>1. /\ a \in LevelEdgeSet /\ CommitFlow(a) \in Nat /\ CommitFlow(a) <= seen[a]
        /\ seen[a] \in Nat /\ g.src[a] \in Nodes(g)
    BY <1>1, <1>2, ErosionFacts
  <2>2. g.src[a] # g.dst[a]
    BY <1>1, <1>2, <2>1, RouteFacts DEF Phase
  <2> QED
    BY <2>1, <2>2
<1>4. CASE WaitingUnchanged(a)
  <2>1. /\ h' = [h EXCEPT ![g.src[a]] = seen[a] - CommitFlow(a)]
        /\ work' = [work EXCEPT ![a] = "deliver"] /\ UNCHANGED seen
        /\ h[g.src[a]] = seen[a]
    BY <1>4 DEF CasWaiting, GoTo, WaitingUnchanged
  <2>2. /\ \A b \in Edges(g) \ {a} : work'[b] = work[b]
        /\ work'[a] = "deliver"
    BY <1>2, <2>1
  <2>3. InHands[a] = 0 /\ InHands'[a] = CommitFlow(a)
    <3>1. CommitFlow(a)' = CommitFlow(a)
      BY <1>1, <2>1 DEF CommitFlow
    <3> QED
      BY <1>1, <2>2, <3>1 DEF InHands
  <2>4. \A b \in Edges(g) \ {a} : InHands'[b] = InHands[b]
    <3> SUFFICES ASSUME NEW b \in Edges(g) \ {a} PROVE InHands'[b] = InHands[b]
      OBVIOUS
    <3>1. CommitFlow(b)' = CommitFlow(b)
      BY <1>1, <2>1 DEF CommitFlow
    <3> QED
      BY <1>1, <2>2, <3>1 DEF InHands
  <2>5. \A b \in Edges(g) : InHands'[b] = IF b = a THEN InHands[b] + CommitFlow(a) ELSE InHands[b]
    BY <1>3, <2>3, <2>4
  <2>6. \A x \in Nodes(g) :
          h'[x] = h[x] - (IF x = g.src[a] THEN CommitFlow(a) + 0 ELSE 0)
                       + (IF x = g.dst[a] THEN 0 ELSE 0)
    BY <1>2, <1>3, <2>1
  <2>7. /\ \A b \in Edges(g) : remaining'[b] = IF b = a THEN remaining[b] - 0 ELSE remaining[b]
        /\ \A b \in Edges(g) : flow'[b] = IF b = a THEN flow[b] + 0
                                          ELSE IF b = g.rev[a] THEN flow[b] - 0 ELSE flow[b]
    BY <1>1, <1>2
  <2>8. ErosionAmounts(a, CommitFlow(a), 0)
    BY <1>1, <1>3, <2>2, <2>5, <2>6, <2>7 DEF ErosionAmounts
  <2> QED
    BY <1>1, <2>8, ErosionAmountsKeep
<1>5. CASE ~WaitingUnchanged(a)
  <2>1. /\ work' = [work EXCEPT ![a] = "loop"] /\ seen' = [seen EXCEPT ![a] = 0]
        /\ UNCHANGED h
    BY <1>5 DEF CasWaiting, GoTo
  <2>2. /\ \A b \in Edges(g) \ {a} : work'[b] = work[b] /\ seen'[b] = seen[b]
        /\ work'[a] = "loop"
    BY <1>2, <2>1 DEF TypeOK
  <2> QED
    BY <1>1, <2>1, <2>2, ErosionReadKeeps
<1> QED
  BY <1>4, <1>5

LEMMA DeliverKeepsCycle ==
  ASSUME CycleInv, TideInv', NEW a \in Edges(g), Deliver(a)
  PROVE  CycleInv'
<1>1. /\ pc = "erosion" /\ work[a] = "deliver" /\ work[a] # "idle"
      /\ h' = [h EXCEPT ![g.dst[a]] = @ + CommitFlow(a)]
      /\ flow' = [[flow EXCEPT ![g.rev[a]] = @ - CommitFlow(a)] EXCEPT ![a] = @ + CommitFlow(a)]
      /\ remaining' = [remaining EXCEPT ![a] = @ - CommitFlow(a)]
      /\ seen' = [seen EXCEPT ![a] = 0]
      /\ work' = [work EXCEPT ![a] = "loop"]
      /\ UNCHANGED <<g, maxFlow, pc, dist, levels, level, l>>
  BY DEF Deliver, GoTo, callVars, graphVars
<1>2. /\ TypeOK /\ IInv /\ TideInv /\ remaining \in [Edges(g) -> Nat] /\ h \in [Nodes(g) -> Nat]
      /\ work \in [Edges(g) -> WorkerLabels] /\ flow \in [Edges(g) -> Int]
  BY CycleFacts
<1>3. /\ CommitFlow(a) \in Nat /\ g.src[a] \in Nodes(g) /\ g.dst[a] \in Nodes(g)
      /\ g.src[a] # g.dst[a] /\ g.rev[a] # a /\ g.rev[a] \in Edges(g)
  <2>1. a \in LevelEdgeSet /\ CommitFlow(a) \in Nat
    BY <1>1, <1>2, ErosionFacts
  <2>2. /\ g.src[a] \in Nodes(g) /\ g.dst[a] \in Nodes(g)
        /\ g.src[a] # g.dst[a] /\ g.rev[a] # a /\ g.rev[a] \in Edges(g)
    BY <1>1, <1>2, <2>1, RouteFacts DEF Phase
  <2> QED
    BY <2>1, <2>2
<1>4. /\ \A b \in Edges(g) \ {a} : /\ work'[b] = work[b] /\ seen'[b] = seen[b]
                                   /\ remaining'[b] = remaining[b]
      /\ work'[a] = "loop" /\ remaining'[a] = remaining[a] - CommitFlow(a)
  BY <1>1, <1>2 DEF TypeOK
<1>5. InHands[a] = CommitFlow(a) /\ InHands'[a] = 0
  BY <1>1, <1>4 DEF InHands
<1>6. \A b \in Edges(g) \ {a} : InHands'[b] = InHands[b]
  <2> SUFFICES ASSUME NEW b \in Edges(g) \ {a} PROVE InHands'[b] = InHands[b]
    OBVIOUS
  <2>1. CommitFlow(b)' = CommitFlow(b)
    BY <1>1, <1>4 DEF CommitFlow
  <2> QED
    BY <1>1, <1>4, <2>1 DEF InHands
<1>7. \A b \in Edges(g) : InHands'[b] = IF b = a THEN InHands[b] + (-CommitFlow(a)) ELSE InHands[b]
  BY <1>3, <1>5, <1>6
<1>8. \A x \in Nodes(g) :
        h'[x] = h[x] - (IF x = g.src[a] THEN -CommitFlow(a) + CommitFlow(a) ELSE 0)
                     + (IF x = g.dst[a] THEN CommitFlow(a) ELSE 0)
  BY <1>1, <1>2, <1>3
<1>9. /\ \A b \in Edges(g) :
           remaining'[b] = IF b = a THEN remaining[b] - CommitFlow(a) ELSE remaining[b]
      /\ \A b \in Edges(g) :
           flow'[b] = IF b = a THEN flow[b] + CommitFlow(a)
                      ELSE IF b = g.rev[a] THEN flow[b] - CommitFlow(a) ELSE flow[b]
  BY <1>1, <1>2, <1>3
<1>10. ErosionAmounts(a, -CommitFlow(a), CommitFlow(a))
  <2>1. -CommitFlow(a) \in Int /\ -CommitFlow(a) + CommitFlow(a) >= 0
    BY <1>3
  <2>2. UNCHANGED <<g, maxFlow, pc, dist, levels, level, l>> /\ work'[a] # "finished"
    BY <1>1, <1>4
  <2>3. \A b \in Edges(g) \ {a} : work'[b] = work[b]
    BY <1>4
  <2> QED
    BY <1>3, <1>7, <1>8, <1>9, <2>1, <2>2, <2>3 DEF ErosionAmounts
<1> QED
  BY <1>1, <1>10, ErosionAmountsKeep

\* At a barrier of the erosion nothing is in the hands of a worker, and the nodes the
\* level has left behind are dry.
LEMMA LevelLeavesNothing ==
  ASSUME CycleInv, pc = "erosion", AtBarrier
  PROVE  /\ \A x : SumOver(InHands, From(x)) = 0
         /\ \A k \in 1 .. level : \A a \in levels[k] : h[g.src[a]] = 0
<1>1. /\ TypeOK /\ DrainInv /\ TideInv /\ level \in 1 .. Len(levels) /\ pc \in Phase
      /\ h \in [Nodes(g) -> Nat] /\ remaining \in [Edges(g) -> Nat]
  BY CycleFacts DEF TypeOK, Phase, InLoops
<1>2. ASSUME NEW x
      PROVE  SumOver(InHands, From(x)) = 0
  <2>1. IsFiniteSet(From(x)) /\ From(x) \subseteq Edges(g)
    BY <1>1, RouteFacts
  <2>2. \A a \in From(x) : InHands[a] = 0
    <3> SUFFICES ASSUME NEW a \in From(x) PROVE InHands[a] = 0
      OBVIOUS
    <3>1. a \in Edges(g) /\ work[a] \in {"idle", "finished"}
      BY <2>1, BarrierFacts DEF InLoops
    <3> QED
      BY <3>1 DEF InHands
  <2> QED
    BY <2>1, <2>2, SumOfZeros
<1>3. ASSUME NEW k \in 1 .. level, NEW a \in levels[k]
      PROVE  h[g.src[a]] = 0
  <2>1. k \in 1 .. Len(levels) /\ k \in Int /\ level \in Nat
    BY <1>1
  <2>2. a \in LevelEdgeSet /\ dist[g.src[a]] = k - 1
    BY <1>1, <2>1, RouteFacts
  <2>3. a \in Edges(g) /\ g.src[a] \in Nodes(g) /\ g.src[a] # g.sink
    BY <1>1, <2>2, RouteFacts
  <2>4. CASE k < level
    BY <1>1, <2>1, <2>4 DEF DrainInv
  <2>5. CASE k = level
    <3> DEFINE x == g.src[a]
    <3>1. SUFFICES ASSUME h[x] # 0 PROVE FALSE
      OBVIOUS
    <3>2. /\ From(x) \subseteq Edges(g) /\ IsFiniteSet(From(x))
          /\ IsFiniteSet(Into(x)) /\ \A b \in From(x) : b \in LevelEdgeSet /\ g.src[b] = x
      <4>1. /\ From(x) \subseteq Edges(g) /\ IsFiniteSet(From(x)) /\ IsFiniteSet(Into(x))
            /\ From(x) \subseteq LevelEdgeSet
        BY <1>1, RouteFacts
      <4>2. \A b \in From(x) : g.src[b] = x
        BY DEF From
      <4> QED
        BY <4>1, <4>2
    <3>3. \A b \in From(x) : remaining[b] = 0
      <4> SUFFICES ASSUME NEW b \in From(x) PROVE remaining[b] = 0
        OBVIOUS
      <4>1. PICK j \in 1 .. Len(levels) : b \in levels[j]
        BY <1>1, <3>2, RouteFacts
      <4>2. dist[g.src[b]] = j - 1 /\ g.src[b] = x
        BY <1>1, <3>2, <4>1, RouteFacts
      <4>3. j = level
        BY <2>1, <2>2, <2>5, <4>1, <4>2
      <4>4. work[b] = "finished" /\ b \in levels[level]
        BY <4>1, <4>3 DEF AtBarrier
      <4> QED
        BY <1>1, <3>1, <4>2, <4>4 DEF DrainInv
    <3>4. SumOver(remaining, From(x)) = 0
      BY <3>2, <3>3, SumOfZeros
    <3>5. /\ SumOver(InHands, From(x)) \in Nat /\ SumOver(remaining, Into(x)) \in Nat
          /\ h[x] \in Nat
      BY <1>1, <2>3, SumFacts
    <3>6. h[x] + SumOver(InHands, From(x)) + SumOver(remaining, Into(x))
            <= SumOver(remaining, From(x))
      BY <1>1, <2>3 DEF DrainInv
    <3> QED
      BY <3>1, <3>4, <3>5, <3>6
  <2> QED
    BY <2>1, <2>4, <2>5
<1> QED
  BY <1>2, <1>3

LEMMA ErosionLevelKeepsCycle ==
  ASSUME CycleInv, TideInv', ErosionLevel
  PROVE  CycleInv'
<1>1. /\ pc = "erosion" /\ pc' = pc /\ AtBarrier /\ level < Len(levels) /\ Begin(level + 1)
      /\ UNCHANGED <<g, flow, maxFlow, dist, levels, remaining, seen, seenTail, h, p, l>>
  BY DEF ErosionLevel, callVars, graphVars, tideVars, localVars
<1>2. /\ TypeOK /\ DrainInv /\ MassBalance /\ level \in 1 .. Len(levels) /\ Len(levels) \in Nat
      /\ pc \in Phase
  BY <1>1, CycleFacts DEF TypeOK, InLoops, Phase
<1>3. level' = level + 1 /\ \A a \in Edges(g) : work'[a] \in {"idle", "loop"}
  BY <1>1, <1>2, BeginFacts
<1>4. InHands' = InHands
  <2>1. \A a \in Edges(g) : work[a] \in {"idle", "finished"}
    BY <1>1, BarrierFacts DEF InLoops
  <2>2. InHands = [a \in Edges(g) |-> 0] /\ InHands' = [a \in Edges(g) |-> 0]
    BY <1>1, <1>3, <2>1 DEF InHands
  <2> QED
    BY <2>2
<1>5. \A x : From(x)' = From(x) /\ Into(x)' = Into(x)
  BY <1>1, SameRoutes
<1>6. MassBalance'
  <2>1. \A x : InTransit(x)' = InTransit(x)
    BY <1>1, <1>4, <1>5 DEF InTransit
  <2>2. Delivered' = Delivered /\ Arrived' = Arrived
    BY <1>1 DEF Delivered, Arrived
  <2>3. \A x : NetOutflow(g, flow, x)' = NetOutflow(g, flow, x)
    BY <1>1
  <2> QED
    BY <1>1, <1>2, <2>1, <2>2, <2>3 DEF MassBalance
<1>7. DrainInv'
  <2>1. /\ l[g.source] > 0
        /\ \A x \in Nodes(g) \ {g.sink} :
             h[x] + SumOver(InHands, From(x)) + SumOver(remaining, Into(x))
               <= SumOver(remaining, From(x))
    BY <1>1, <1>2 DEF DrainInv
  <2>2. \A k \in 1 .. ((level + 1) - 1) : \A a \in levels[k] : h[g.src[a]] = 0
    <3>1. (level + 1) - 1 = level
      BY <1>2
    <3> QED
      BY <1>1, <3>1, LevelLeavesNothing
  <2>3. ASSUME NEW a \in levels[level + 1] PROVE work'[a] # "finished"
    <3>1. a \in Edges(g)
      BY <1>1, <1>2, CycleFacts, RouteFacts
    <3> QED
      BY <1>3, <3>1
  <2> QED
    BY <1>1, <1>3, <1>4, <1>5, <2>1, <2>2, <2>3 DEF DrainInv
<1> QED
  BY <1>1, <1>6, <1>7 DEF CycleInv, RisenInv, PullInv, DemandIsKept, ZeroCycleMeansBlocked

\* When the last level is done nothing waits at a node but the sink, and what the
\* source has sent waits there: the balances of all nodes add up to 0.
LEMMA CycleDelivers ==
  ASSUME CycleInv, pc = "erosion", level = Len(levels), AtBarrier
  PROVE  \A x \in Nodes(g) : h[x] = IF x = g.sink THEN l[g.source] ELSE 0
<1> DEFINE N == Nodes(g)
<1> DEFINE net == [x \in N |-> NetOutflow(g, flow, x)]
<1>1. /\ IsCase(g) /\ g.source \in N /\ g.sink \in N /\ g.source # g.sink /\ IsFiniteSet(N)
      /\ h \in [N -> Nat] /\ l[g.source] \in Nat /\ maxFlow \in Int
      /\ flow \in [Edges(g) -> Int] /\ SkewSymmetry(g, flow)
      /\ DrainInv /\ MassBalance /\ pc \in Phase /\ TideInv /\ TypeOK
  BY CycleFacts, NetworkIsFinite DEF FlowIsFeasible, Phase
<1>2. \A x : SumOver(InHands, From(x)) = 0
  BY LevelLeavesNothing
<1>3. ASSUME NEW x \in N \ {g.sink}
      PROVE  h[x] = 0
  <2>1. CASE From(x) = {}
    <3>1. SumOver(remaining, From(x)) = 0
      BY <2>1, SumOfNone
    <3>2. SumOver(remaining, Into(x)) \in Nat /\ h[x] \in Nat
      BY <1>1, SumFacts
    <3>3. h[x] + SumOver(InHands, From(x)) + SumOver(remaining, Into(x))
            <= SumOver(remaining, From(x))
      BY <1>1 DEF DrainInv
    <3>4. SumOver(InHands, From(x)) = 0
      BY <1>2
    <3> QED
      BY <3>1, <3>2, <3>3, <3>4
  <2>2. CASE From(x) # {}
    <3>1. PICK a \in LevelEdgeSet : g.src[a] = x
      BY <2>2 DEF From
    <3>2. PICK k \in 1 .. Len(levels) : a \in levels[k]
      BY <1>1, <3>1, RouteFacts
    <3> QED
      BY <3>1, <3>2, LevelLeavesNothing
  <2> QED
    BY <2>1, <2>2
<1>4. \A x \in N : net[x] \in Int /\ net[x] = NetOutflow(g, flow, x)
  BY <1>1, NetOutflowType
<1>5. SumOver(net, N) = 0
  <2>1. net \in [N -> Int]
    BY <1>4
  <2>2. \A a \in Edges(g) : flow[a] \in Int
    BY <1>1
  <2> HIDE DEF net
  <2> QED
    BY <1>1, <1>4, <2>1, <2>2, SourceFeedsSink
\* Only the source and the sink have a balance other than 0.
<1>6. \A x \in N \ {g.source, g.sink} : net[x] = 0
  <2> SUFFICES ASSUME NEW x \in N \ {g.source, g.sink} PROVE net[x] = 0
    OBVIOUS
  <2>1. InTransit(x) = 0
    BY <1>2, <1>3 DEF InTransit
  <2>2. net[x] = -InTransit(x)
    BY <1>1, <1>4 DEF MassBalance
  <2> HIDE DEF net
  <2>3. net[x] \in Int /\ InTransit(x) \in Int
    BY <1>4, <2>1
  <2>4. net[x] + InTransit(x) = 0
    BY <2>2, <2>3
  <2> QED
    BY <2>1, <2>3, <2>4
<1>7. net[g.source] = maxFlow + l[g.source]
  <2>1. InTransit(g.source) = 0
    BY <1>1, <1>2, <1>3 DEF InTransit
  <2>2. net[g.source] = maxFlow + l[g.source] - InTransit(g.source)
    BY <1>1, <1>4 DEF MassBalance, Delivered
  <2> QED
    BY <1>1, <2>1, <2>2
<1>8. net[g.sink] = -(maxFlow + h[g.sink])
  BY <1>1, <1>4 DEF MassBalance, Arrived
<1>9. SumOver(net, N) = net[g.source] + net[g.sink]
  <2>1. IsFiniteSet(N \ {g.source}) /\ \A x \in N : net[x] \in Int
    BY <1>1, <1>4, FS_Subset
  <2> HIDE DEF net, N
  <2>2. SumOver(net, N) = net[g.source] + SumOver(net, N \ {g.source})
    <3>1. IsFiniteSet(N) /\ g.source \in N
      BY <1>1
    <3> QED
      BY ONLY <2>1, <3>1, SumRemove
  <2>3. SumOver(net, N \ {g.source}) = net[g.sink]
    <3>1. /\ g.sink \in N \ {g.source} /\ net[g.sink] \in Int
          /\ \A x \in (N \ {g.source}) \ {g.sink} : net[x] = 0
      BY <1>1, <1>6, <2>1
    <3> QED
      BY <2>1, <3>1, SumOfOne
  <2> QED
    BY <2>2, <2>3
<1>10. h[g.sink] = l[g.source]
  <2>1. h[g.sink] \in Nat
    BY <1>1
  <2> HIDE DEF net, N
  <2> QED
    BY <1>1, <1>5, <1>7, <1>8, <1>9, <2>1
<1> QED
  BY <1>3, <1>10

LEMMA ErosionEndKeepsCycle ==
  ASSUME CycleInv, TideInv', ErosionEnd
  PROVE  CycleInv' /\ sent' > 0
<1>1. /\ pc = "erosion" /\ pc' = "returned" /\ AtBarrier /\ level = Len(levels)
      /\ sent' = h[g.sink] /\ UNCHANGED <<g, flow, maxFlow, dist, levels, h, l>>
  BY DEF ErosionEnd, callVars, graphVars, tideVars
<1>2. /\ g.source \in Nodes(g) /\ g.sink \in Nodes(g) /\ g.source # g.sink /\ maxFlow \in Int
      /\ DrainInv /\ MassBalance /\ l \in [Nodes(g) -> Nat]
  BY CycleFacts
<1>3. /\ \A x \in Nodes(g) : h[x] = IF x = g.sink THEN l[g.source] ELSE 0
      /\ \A x : SumOver(InHands, From(x)) = 0
  BY <1>1, CycleDelivers, LevelLeavesNothing
<1>4. l[g.source] > 0 /\ sent' = l[g.source] /\ l[g.source] \in Nat
  BY <1>1, <1>2, <1>3 DEF DrainInv
<1>5. MassBalance'
  <2>1. \A x : NetOutflow(g, flow, x)' = NetOutflow(g, flow, x)
    BY <1>1
  <2>2. \A x \in Nodes(g) \ {g.sink} : InTransit(x) = 0 /\ InTransit(x)' = 0
    <3> SUFFICES ASSUME NEW x \in Nodes(g) \ {g.sink} PROVE InTransit(x) = 0 /\ InTransit(x)' = 0
      OBVIOUS
    <3>1. h[x] = 0 /\ SumOver(InHands, From(x)) = 0
      BY <1>3
    <3> QED
      BY <1>1, <3>1 DEF InTransit
  <2>3. Delivered = l[g.source] /\ Delivered' = l[g.source]
    BY <1>1, <1>4 DEF Delivered
  <2>4. Arrived' = Arrived
    BY <1>1 DEF Arrived
  <2> QED
    BY <1>1, <1>2, <2>1, <2>2, <2>3, <2>4 DEF MassBalance
<1>6. ZeroCycleMeansBlocked'
  BY <1>4 DEF ZeroCycleMeansBlocked
<1> QED
  BY <1>1, <1>4, <1>5, <1>6 DEF CycleInv, RisenInv, PullInv, DrainInv, DemandIsKept

-------------------------------------------------------------------------------
(* The invariant.                                                          *)

LEMMA WorkerKeepsCycle ==
  ASSUME CycleInv, TideInv', NEW a \in Edges(g), Worker(a)
  PROVE  CycleInv'
BY HighTideKeepsCycle, ReadHeadKeepsCycle, ReadTailKeepsCycle, CasHeadKeepsCycle,
   CasTailKeepsCycle, RestoreKeepsCycle, ReadWaitingKeepsCycle, CasWaitingKeepsCycle,
   DeliverKeepsCycle DEF Worker

LEMMA MasterKeepsCycle ==
  ASSUME CycleInv, TideInv', Master
  PROVE  CycleInv'
BY AllocateKeepsCycle, SearchOrStartKeepsCycle, TideStartKeepsCycle, HighTideLevelKeepsCycle,
   HighTideEndKeepsCycle, LowTideLevelKeepsCycle, LowTideEndKeepsCycle, ErosionLevelKeepsCycle,
   ErosionEndKeepsCycle, AddAndRepeatKeepsCycle DEF Master

LEMMA StutterKeepsCycle ==
  ASSUME CycleInv, UNCHANGED vars
  PROVE  CycleInv'
<1>1. UNCHANGED <<g, flow, maxFlow, pc, dist, levels, level, work, remaining, seen, seenTail, h, p, l, sent>>
  BY DEF vars, callVars, graphVars, localVars, tideVars
<1>2. TideInv'
  BY CycleFacts, StutterKeepsTide
<1>3. /\ \A x : From(x)' = From(x) /\ Into(x)' = Into(x)
      /\ LevelEdgeSet' = LevelEdgeSet
      /\ \A a : Residual(g, flow, a)' = Residual(g, flow, a)
  BY <1>1, SameRoutes DEF Residual
<1>4. InHands' = InHands /\ Held' = Held /\ Pulled' = Pulled
  <2>1. \A a : CommitFlow(a)' = CommitFlow(a) /\ SendBack(a)' = SendBack(a)
    BY <1>1 DEF CommitFlow, SendBack
  <2> QED
    BY <1>1, <2>1 DEF InHands, Held, Pulled
<1>5. /\ RisenInv' /\ PullInv'
      /\ (pc = "alloc" => maxFlow = 0)'
  BY <1>1, <1>3, CycleFacts DEF RisenInv, PullInv
<1>6. DrainInv' /\ DemandIsKept'
  BY <1>1, <1>3, <1>4, CycleFacts DEF DrainInv, DemandIsKept
<1>7. MassBalance'
  <2>1. /\ \A x : InTransit(x)' = InTransit(x) /\ NetOutflow(g, flow, x)' = NetOutflow(g, flow, x)
        /\ Delivered' = Delivered /\ Arrived' = Arrived
    BY <1>1, <1>3, <1>4 DEF InTransit, Delivered, Arrived
  <2> QED
    BY <1>1, <2>1, CycleFacts DEF MassBalance
<1>8. ZeroCycleMeansBlocked'
  <2>1. {a \in LevelEdgeSet : Residual(g, flow, a) > 0}'
          = {a \in LevelEdgeSet : Residual(g, flow, a) > 0}
    BY <1>3
  <2> QED
    BY <1>1, <2>1, CycleFacts DEF ZeroCycleMeansBlocked
<1> QED
  BY <1>2, <1>5, <1>6, <1>7, <1>8 DEF CycleInv

LEMMA NextKeepsCycle == CycleInv /\ [Next]_vars => CycleInv'
<1> SUFFICES ASSUME CycleInv, [Next]_vars PROVE CycleInv'
  OBVIOUS
<1>1. TideInv /\ TideInv'
  BY CycleFacts, NextKeepsTide
<1>2. CASE Master
  BY <1>1, <1>2, MasterKeepsCycle
<1>3. ASSUME NEW a \in Edges(g), Worker(a) PROVE CycleInv'
  BY <1>1, <1>3, WorkerKeepsCycle
<1>4. CASE UNCHANGED vars
  BY <1>4, StutterKeepsCycle
<1> QED
  BY <1>2, <1>3, <1>4 DEF Next

-------------------------------------------------------------------------------
(* The abstract view.                                                      *)

AbstractStep == [Abstract!Next]_(Abstract!vars)

\* The operators on networks mean the same in MaxFlow.
LEMMA SameNetwork ==
  ASSUME NEW c, NEW f
  PROVE  /\ Abstract!Edges(c) = Edges(c)
         /\ Abstract!IsFlow(c, f) <=> IsFlow(c, f)
         /\ Abstract!FlowValue(c, f) = FlowValue(c, f)
         /\ Abstract!HasAugmentingPath(c, f) <=> HasAugmentingPath(c, f)
<1>1. Abstract!Edges(c) = Edges(c) /\ Abstract!Nodes(c) = Nodes(c)
  BY DEF Abstract!Edges, Edges, Abstract!Nodes, Nodes
<1>2. \A x : Abstract!NetOutflow(c, f, x) = NetOutflow(c, f, x)
  <2>1. \A S : Abstract!SumOver(f, S) = SumOver(f, S)
    BY DEF Abstract!SumOver, SumOver, Abstract!MapThenSumSet, MapThenSumSet,
           Abstract!MapThenFoldSet, MapThenFoldSet
  <2>2. \A x : Abstract!Out(c, x) = Out(c, x)
    BY <1>1 DEF Abstract!Out, Out
  <2> QED
    BY <2>1, <2>2 DEF Abstract!NetOutflow, NetOutflow
<1>3. Abstract!IsFlow(c, f) <=> IsFlow(c, f)
  BY <1>1, <1>2
  DEF Abstract!IsFlow, IsFlow, Abstract!CapacityOK, CapacityOK, Abstract!SkewSymmetry, SkewSymmetry,
      Abstract!Conserves, Conserves
<1>4. Abstract!FlowValue(c, f) = FlowValue(c, f)
  BY <1>2 DEF Abstract!FlowValue, FlowValue
<1>5. Abstract!Distances(c, f) = Distances(c, f)
  <2>1. Abstract!ResidualEdges(c, f) = ResidualEdges(c, f)
    BY <1>1 DEF Abstract!ResidualEdges, ResidualEdges, Abstract!Residual, Residual
  <2>2. \A start, near, n : Abstract!Spread(start, near, n) = Spread(start, near, n)
    BY DEF Abstract!Spread, Spread
  <2>3. Abstract!Balls(c, f) = Balls(c, f)
    BY <1>1, <2>1, <2>2 DEF Abstract!Balls, Balls
  <2>4. \A S : Abstract!Cardinality(S) = Cardinality(S)
    BY DEF Abstract!Cardinality, Cardinality
  <2> QED
    BY <1>1, <2>3, <2>4 DEF Abstract!Distances, Distances
<1>6. Abstract!HasAugmentingPath(c, f) <=> HasAugmentingPath(c, f)
  BY <1>5 DEF Abstract!HasAugmentingPath, HasAugmentingPath
<1> QED
  BY <1>1, <1>3, <1>4, <1>6

\* Between the cycles the balances make flow[] a flow.
LEMMA CycleIsFlow ==
  ASSUME CycleInv, pc \notin {"erosion", "failed"}
  PROVE  IsFlow(g, flow) /\ FlowValue(g, flow) = maxFlow + Delivered
<1>1. MassBalance /\ FlowIsFeasible /\ maxFlow \in Int /\ sent \in Nat
  BY CycleFacts
<1>2. \A x : InTransit(x) = 0
  BY DEF InTransit
<1>3. ASSUME NEW x \in Nodes(g) \ {g.source, g.sink} PROVE NetOutflow(g, flow, x) = 0
  <2>1. NetOutflow(g, flow, x) = -InTransit(x)
    BY <1>1 DEF MassBalance
  <2>2. NetOutflow(g, flow, x) \in Int /\ InTransit(x) \in Int
    BY <1>2, CycleFacts, NetOutflowType
  <2>3. NetOutflow(g, flow, x) + InTransit(x) = 0
    BY <2>1, <2>2
  <2> QED
    BY <1>2, <2>2, <2>3
<1>4. NetOutflow(g, flow, g.source) = maxFlow + Delivered
  <2>1. Delivered \in Nat
    BY <1>1 DEF Delivered
  <2>2. NetOutflow(g, flow, g.source) = maxFlow + Delivered - 0
    BY <1>1, <1>2 DEF MassBalance
  <2> QED
    BY <1>1, <2>1, <2>2
<1> QED
  BY <1>1, <1>3, <1>4 DEF IsFlow, Conserves, FlowValue, FlowIsFeasible

\* Where nothing is eroded the abstract flow is flow[].
LEMMA NothingEroded ==
  ASSUME CycleInv, pc # "erosion", ~(pc = "returned" /\ sent > 0)
  PROVE  CommittedFlow = flow
<1>1. flow \in [Edges(g) -> Int]
  BY CycleFacts
<1>2. \A a : Eroded(a) = 0
  BY DEF Eroded
<1>3. \A a \in Edges(g) : flow[a] - 0 + 0 = flow[a]
  BY <1>1
<1> QED
  BY <1>1, <1>2, <1>3 DEF CommittedFlow

\* A step that changes neither the flow, nor the value, nor what is eroded.
LEMMA NothingCommitted ==
  ASSUME UNCHANGED <<g, maxFlow>>, CommittedFlow' = CommittedFlow, Running, Running'
  PROVE  AbstractStep
<1>1. Status' = Status
  BY DEF Status
<1> QED
  BY <1>1 DEF AbstractStep, Abstract!vars

\* What is eroded is not part of a flow yet unless the cycle is over: its edges are
\* those of the level graph, which holds no edge with its reverse.
LEMMA DeliverIsStutter ==
  ASSUME CycleInv, NEW a \in Edges(g), Deliver(a)
  PROVE  CommittedFlow' = CommittedFlow
<1>1. /\ pc = "erosion" /\ pc' = "erosion" /\ work[a] = "deliver" /\ work[a] # "idle"
      /\ flow' = [[flow EXCEPT ![g.rev[a]] = @ - CommitFlow(a)] EXCEPT ![a] = @ + CommitFlow(a)]
      /\ remaining' = [remaining EXCEPT ![a] = @ - CommitFlow(a)]
      /\ UNCHANGED <<g, levels, p, sent>>
  BY DEF Deliver, callVars, graphVars
<1>2. /\ IInv /\ TideInv /\ IsCase(g) /\ remaining \in [Edges(g) -> Nat] /\ p \in [Edges(g) -> Nat]
      /\ flow \in [Edges(g) -> Int] /\ pc \in Phase
  BY <1>1, CycleFacts DEF Phase
<1>3. /\ CommitFlow(a) \in Nat /\ a \in LevelEdgeSet
      /\ g.rev[a] # a /\ g.rev[a] \in Edges(g) /\ g.rev[a] \notin LevelEdgeSet
  BY <1>1, <1>2, ErosionFacts, RouteFacts
<1>4. LevelEdgeSet' = LevelEdgeSet
  BY <1>1, SameRoutes
<1> DEFINE c == CommitFlow(a)
<1>5. /\ \A b \in Edges(g) :
           /\ flow[b] \in Int
           /\ flow'[b] = IF b = a THEN flow[b] + c ELSE IF b = g.rev[a] THEN flow[b] - c ELSE flow[b]
      /\ \A b \in Edges(g) : remaining'[b] = IF b = a THEN remaining[b] - c ELSE remaining[b]
  BY <1>1, <1>2, <1>3
<1>6. \A b \in Edges(g) : /\ Eroded(b) \in Int
                          /\ Eroded(b)' = IF b = a THEN Eroded(b) + c ELSE Eroded(b)
  <2> SUFFICES ASSUME NEW b \in Edges(g)
               PROVE  /\ Eroded(b) \in Int
                      /\ Eroded(b)' = IF b = a THEN Eroded(b) + c ELSE Eroded(b)
    OBVIOUS
  <2>1. p[b] \in Nat /\ remaining[b] \in Nat /\ c \in Nat
    BY <1>2, <1>3
  <2>2. Eroded(b) = IF b \in LevelEdgeSet THEN p[b] - remaining[b] ELSE 0
    BY <1>1 DEF Eroded
  <2>3. Eroded(b)' = IF b \in LevelEdgeSet THEN p[b] - remaining'[b] ELSE 0
    BY <1>1, <1>4 DEF Eroded
  <2>4. remaining'[b] = IF b = a THEN remaining[b] - c ELSE remaining[b]
    BY <1>5
  <2> HIDE DEF c
  <2>5. CASE b = a
    BY <1>3, <2>1, <2>2, <2>3, <2>4, <2>5
  <2>6. CASE b # a
    BY <2>1, <2>2, <2>3, <2>4, <2>6
  <2> QED
    BY <2>5, <2>6
<1>7. c \in Nat
  BY <1>3
<1> HIDE DEF c
<1>8. \A b \in Edges(g) : g.rev[b] \in Edges(g) /\ g.rev[g.rev[b]] = b
  BY <1>2, SlotFacts
<1>9. ASSUME NEW b \in Edges(g)
      PROVE  flow'[b] - Eroded(b)' + Eroded(g.rev[b])' = flow[b] - Eroded(b) + Eroded(g.rev[b])
  <2> DEFINE r == g.rev[b]
  <2>1. /\ r \in Edges(g) /\ (r = a <=> b = g.rev[a]) /\ Eroded(g.rev[b])' = Eroded(r)'
    BY <1>1, <1>3, <1>8 DEF Eroded
  <2>2. Eroded(r)' = IF r = a THEN Eroded(r) + c ELSE Eroded(r)
    <3>1. PICK e \in Edges(g) : e = r
      BY <2>1
    <3>2. Eroded(e)' = IF e = a THEN Eroded(e) + c ELSE Eroded(e)
      BY <1>6
    <3>3. r' = r
      BY <1>1
    <3> HIDE DEF r
    <3>4. Eroded(r)' = Eroded(e)'
      BY <3>1, <3>3 DEF Eroded
    <3> QED
      BY <3>1, <3>2, <3>4
  <2>3. Eroded(b) \in Int /\ Eroded(r) \in Int /\ flow[b] \in Int
    BY <1>5, <1>6, <2>1
  <2>4. CASE b = a
    BY <1>3, <1>5, <1>6, <1>7, <2>1, <2>2, <2>3, <2>4
  <2>5. CASE b = g.rev[a]
    BY <1>3, <1>5, <1>6, <1>7, <2>1, <2>2, <2>3, <2>5
  <2>6. CASE b # a /\ b # g.rev[a]
    BY <1>5, <1>6, <2>1, <2>2, <2>3, <2>6
  <2> QED
    BY <2>4, <2>5, <2>6
<1> QED
  BY <1>1, <1>9 DEF CommittedFlow

LEMMA WorkerIsStutter ==
  ASSUME CycleInv, NEW a \in Edges(g), Worker(a)
  PROVE  AbstractStep
<1>1. /\ pc' = pc /\ pc \in {"high", "low", "erosion"} /\ UNCHANGED <<g, maxFlow, levels, sent>>
      /\ pc = "erosion" => UNCHANGED p
  BY DEF Worker, HighTide, ReadHead, ReadTail, CasHead, CasTail, Restore, ReadWaiting, CasWaiting,
         Deliver, callVars, graphVars, tideVars
<1>2. CASE Deliver(a)
  BY <1>1, <1>2, DeliverIsStutter, NothingCommitted DEF Running
<1>3. CASE ~Deliver(a)
  <2>1. UNCHANGED flow /\ (pc = "erosion" => UNCHANGED remaining)
    BY <1>3 DEF Worker, HighTide, ReadHead, ReadTail, CasHead, CasTail, Restore, ReadWaiting,
                CasWaiting, callVars, graphVars, tideVars
  <2>2. CommittedFlow' = CommittedFlow
    <3>1. LevelEdgeSet' = LevelEdgeSet
      BY <1>1 DEF LevelEdgeSet
    <3>2. \A b : Eroded(b)' = Eroded(b)
      BY <1>1, <2>1, <3>1 DEF Eroded
    <3>3. \A b : Eroded(g.rev[b])' = Eroded(g.rev[b])
      <4> SUFFICES ASSUME NEW b PROVE Eroded(g.rev[b])' = Eroded(g.rev[b])
        OBVIOUS
      <4>1. PICK r : r = g.rev[b]
        OBVIOUS
      <4>2. Eroded(r)' = Eroded(r) /\ Eroded(g.rev[b])' = Eroded(r)'
        BY <1>1, <3>2, <4>1 DEF Eroded
      <4> QED
        BY <4>1, <4>2
    <3> QED
      BY <1>1, <2>1, <3>2, <3>3 DEF CommittedFlow
  <2> QED
    BY <1>1, <2>2, NothingCommitted DEF Running
<1> QED
  BY <1>2, <1>3

LEMMA NothingErodedNext ==
  ASSUME CycleInv', UNCHANGED g, pc' # "erosion", ~(pc' = "returned" /\ sent' > 0)
  PROVE  CommittedFlow' = flow'
<1>1. flow' \in [Edges(g) -> Int]
  <2>1. TypeOK'
    BY DEF CycleInv, TideInv, IInv
  <2> QED
    BY <2>1 DEF TypeOK
<1>2. \A a : Eroded(a)' = 0
  BY DEF Eroded
<1>3. \A a : Eroded(g.rev[a])' = 0
  BY DEF Eroded
<1>4. \A a \in Edges(g) : flow'[a] - 0 + 0 = flow'[a]
  BY <1>1
<1>5. CommittedFlow' = [a \in Edges(g) |-> flow'[a] - Eroded(a)' + Eroded(g.rev[a])']
  BY DEF CommittedFlow
<1> QED
  BY <1>1, <1>2, <1>3, <1>4, <1>5

LEMMA MasterIsAbstract ==
  ASSUME CycleInv, CycleInv', Master
  PROVE  AbstractStep
\* Nothing is eroded before or after these steps, and flow[] stays as it is.
<1>1. CASE TideStart \/ HighTideLevel \/ HighTideEnd \/ LowTideLevel \/ Rebuild
  <2>1. /\ UNCHANGED <<g, flow, maxFlow>> /\ pc # "erosion" /\ Running /\ Running'
        /\ pc' # "erosion"
        /\ ~(pc = "returned" /\ sent > 0) /\ ~(pc' = "returned" /\ sent' > 0)
    BY <1>1, CycleFacts DEF TideStart, HighTideLevel, HighTideEnd, LowTideLevel, Rebuild, Running,
                            callVars
  <2>2. CommittedFlow' = CommittedFlow
    BY <2>1, NothingEroded, NothingErodedNext
  <2> QED
    BY <2>1, <2>2, NothingCommitted
\* The erosion starts with all of the promises, ...
<1>2. CASE LowTideEnd
  <2>1. /\ UNCHANGED <<g, flow, maxFlow, p>> /\ pc = "low" /\ pc' = "erosion" /\ remaining' = p
    BY <1>2 DEF LowTideEnd, callVars
  <2>2. Running /\ Running' /\ flow \in [Edges(g) -> Int] /\ p \in [Edges(g) -> Nat]
    BY <2>1, CycleFacts DEF Running
  <2>3. CommittedFlow = flow
    BY <2>1, NothingEroded
  <2>4. LevelEdgeSet \subseteq Edges(g) /\ LevelEdgeSet' = LevelEdgeSet
    BY <1>2, <2>1, CycleFacts, RouteFacts DEF Phase, LowTideEnd, graphVars, LevelEdgeSet
  <2>5. \A a : Eroded(a)' = 0
    <3> SUFFICES ASSUME NEW a, a \in LevelEdgeSet PROVE p[a] - p[a] = 0
      BY <2>1, <2>4 DEF Eroded
    <3> QED
      BY <2>2, <2>4
  <2>6. CommittedFlow' = flow
    <3>1. \A a \in Edges(g) : flow[a] - 0 + 0 = flow[a]
      BY <2>2
    <3>2. \A a : Eroded(g.rev[a])' = 0
      <4> SUFFICES ASSUME NEW a PROVE Eroded(g.rev[a])' = 0
        OBVIOUS
      <4>1. PICK r : r = g.rev[a]
        OBVIOUS
      <4>2. Eroded(g.rev[a])' = Eroded(r)'
        BY <2>1, <4>1 DEF Eroded
      <4> QED
        BY <2>5, <4>2
    <3>3. CommittedFlow' = [a \in Edges(g) |-> flow[a] - Eroded(a)' + Eroded(g.rev[a])']
      BY <2>1 DEF CommittedFlow
    <3> QED
      BY <2>2, <2>5, <3>1, <3>2, <3>3
  <2> QED
    BY <2>1, <2>2, <2>3, <2>6, NothingCommitted
\* ... and what it has sent stays eroded until the driver adds it.
<1>3. CASE ErosionLevel \/ ErosionEnd
  <2>1. /\ UNCHANGED <<g, flow, maxFlow, p, remaining, levels>> /\ pc = "erosion" /\ Running /\ Running'
        /\ pc' = "erosion" \/ (pc' = "returned" /\ sent' > 0)
    <3>1. CASE ErosionLevel
      BY <3>1 DEF ErosionLevel, callVars, graphVars, localVars, tideVars, Running
    <3>2. CASE ErosionEnd
      <4>1. TideInv'
        BY DEF CycleInv
      <4>2. sent' > 0
        BY <3>2, <4>1, ErosionEndKeepsCycle
      <4> QED
        BY <3>2, <4>2 DEF ErosionEnd, callVars, graphVars, localVars, tideVars, Running
    <3> QED
      BY <1>3, <3>1, <3>2
  <2>2. LevelEdgeSet' = LevelEdgeSet
    BY <2>1 DEF LevelEdgeSet
  <2>3. \A a : Eroded(a)' = Eroded(a) /\ Eroded(g.rev[a])' = Eroded(g.rev[a])
    BY <2>1, <2>2 DEF Eroded
  <2>4. CommittedFlow' = CommittedFlow
    BY <2>1, <2>3 DEF CommittedFlow
  <2> QED
    BY <2>1, <2>4, NothingCommitted
<1>4. CASE AddAndRepeat
  <2>1. /\ UNCHANGED <<g, flow>> /\ pc = "returned" /\ pc' = "tide" /\ sent > 0
        /\ maxFlow' = maxFlow + sent
    BY <1>4 DEF AddAndRepeat
  <2>2. CommittedFlow' = flow
    BY <2>1, NothingErodedNext
  <2>3. maxFlow' > maxFlow /\ Delivered = sent
    BY <2>1, CycleFacts DEF Delivered
  <2>4. IsFlow(g, flow) /\ FlowValue(g, flow) = maxFlow'
    BY <2>1, <2>3, CycleIsFlow
  <2>5. Status = "running" /\ Status' = "running"
    BY <2>1 DEF Status, Running
  <2>6. Abstract!IsFlow(g, CommittedFlow') /\ Abstract!FlowValue(g, CommittedFlow') = maxFlow'
    <3>1. PICK f : f = CommittedFlow'
      OBVIOUS
    <3>2. IsFlow(g, f) /\ FlowValue(g, f) = maxFlow'
      BY <2>2, <2>4, <3>1
    <3> QED
      BY <3>1, <3>2, SameNetwork
  <2>7. Abstract!Augment
    BY <2>1, <2>3, <2>5, <2>6 DEF Abstract!Augment
  <2> QED
    BY <2>7 DEF AbstractStep, Abstract!Next
<1>5. CASE BuildLevelGraph
  <2>1. /\ UNCHANGED <<g, flow, maxFlow>> /\ pc = "build" /\ pc' \in {"tide", "done"}
        /\ pc' = "done" => Distances(g, flow)[g.sink] = -1
    BY <1>5 DEF BuildLevelGraph, callVars
  <2>2. CommittedFlow = flow /\ CommittedFlow' = flow
    BY <2>1, NothingEroded, NothingErodedNext
  <2>3. CASE pc' = "tide"
    BY <2>1, <2>2, <2>3, NothingCommitted DEF Running
  <2>4. CASE pc' = "done"
    <3>1. Status = "running" /\ Status' = "done"
      BY <2>1, <2>4 DEF Status, Running
    <3>2. ~Abstract!HasAugmentingPath(g, CommittedFlow)
      BY <2>1, <2>2, <2>4, SameNetwork DEF HasAugmentingPath
    <3>3. Abstract!Finish
      BY <2>1, <2>2, <3>1, <3>2 DEF Abstract!Finish
    <3> QED
      BY <3>3 DEF AbstractStep, Abstract!Next
  <2> QED
    BY <2>1, <2>3, <2>4
<1>6. CASE Allocate
  <2>1. /\ UNCHANGED <<g, flow>> /\ pc = "alloc" /\ maxFlow = 0
        /\ \/ pc' = "build" /\ UNCHANGED maxFlow
           \/ pc' = "failed" /\ maxFlow' = -1
    BY <1>6, CycleFacts DEF Allocate
  <2>2. CommittedFlow = flow /\ CommittedFlow' = flow
    BY <2>1, NothingEroded, NothingErodedNext
  <2>3. CASE pc' = "build"
    <3>1. UNCHANGED maxFlow /\ Running /\ Running'
      BY <2>1, <2>3 DEF Running
    <3> QED
      BY <2>1, <2>2, <3>1, NothingCommitted
  <2>4. CASE pc' = "failed"
    <3>1. Status = "running" /\ Status' = "failed" /\ maxFlow' = -1
      BY <2>1, <2>4 DEF Status, Running
    <3>2. Abstract!Fail
      BY <2>1, <2>2, <3>1 DEF Abstract!Fail
    <3> QED
      BY <3>2 DEF AbstractStep, Abstract!Next
  <2> QED
    BY <2>1, <2>3, <2>4
<1> QED
  BY <1>1, <1>2, <1>3, <1>4, <1>5, <1>6 DEF Master

LEMMA NextIsAbstract == CycleInv /\ [Next]_vars => AbstractStep
<1> SUFFICES ASSUME CycleInv, [Next]_vars PROVE AbstractStep
  OBVIOUS
<1>1. CycleInv'
  BY NextKeepsCycle
<1>2. CASE Master
  BY <1>1, <1>2, MasterIsAbstract
<1>3. ASSUME NEW a \in Edges(g), Worker(a) PROVE AbstractStep
  BY <1>3, WorkerIsStutter
<1>4. CASE UNCHANGED vars
  <2>1. UNCHANGED <<g, flow, maxFlow, pc, levels, remaining, p, sent>>
    BY <1>4 DEF vars, callVars, graphVars, localVars, tideVars
  <2>2. LevelEdgeSet' = LevelEdgeSet /\ Status' = Status
    BY <2>1 DEF LevelEdgeSet, Status, Running
  <2>3. \A a : Eroded(a)' = Eroded(a) /\ Eroded(g.rev[a])' = Eroded(g.rev[a])
    BY <2>1, <2>2 DEF Eroded
  <2>4. CommittedFlow' = CommittedFlow
    BY <2>1, <2>3 DEF CommittedFlow
  <2> QED
    BY <2>1, <2>2, <2>4 DEF AbstractStep, Abstract!vars
<1> QED
  BY <1>2, <1>3, <1>4 DEF Next

LEMMA InitIsAbstract == Init => Abstract!Init
<1> SUFFICES ASSUME Init PROVE Abstract!Init
  OBVIOUS
<1>1. /\ g \in Cases /\ flow = [a \in Edges(g) |-> 0] /\ maxFlow = 0 /\ pc = "alloc"
  BY DEF Init, Zero
<1>2. CycleInv
  BY InitEstablishesCycle
<1>3. CommittedFlow = flow
  BY <1>1, <1>2, NothingEroded
<1>4. Status = "running"
  BY <1>1 DEF Status, Running
<1>5. Abstract!Edges(g) = Edges(g)
  BY SameNetwork
<1> QED
  BY <1>1, <1>3, <1>4, <1>5 DEF Abstract!Init

\* A call that has returned its result has left no augmenting path.
NoPathIsLeft == pc = "done" => ~HasAugmentingPath(g, flow)

\* Only the search ends the call, and nothing happens afterwards.
LEMMA NextKeepsNoPath == NoPathIsLeft /\ [Next]_vars => NoPathIsLeft'
<1> SUFFICES ASSUME NoPathIsLeft, [Next]_vars, pc' = "done"
             PROVE  ~HasAugmentingPath(g, flow)'
  BY DEF NoPathIsLeft
<1>1. CASE BuildLevelGraph
  <2>1. g' = g /\ flow' = flow /\ ~HasAugmentingPath(g, flow)
    BY <1>1 DEF BuildLevelGraph, HasAugmentingPath, callVars
  <2> QED
    BY <2>1
<1>2. CASE UNCHANGED vars
  <2>1. g' = g /\ flow' = flow /\ pc' = pc
    BY <1>2 DEF vars, callVars
  <2> QED
    BY <2>1 DEF NoPathIsLeft
<1>3. CASE Master /\ ~BuildLevelGraph
  BY <1>3 DEF Master, Allocate, TideStart, HighTideLevel, HighTideEnd, LowTideLevel,
    LowTideEnd, ErosionLevel, ErosionEnd, AddAndRepeat, Rebuild
<1>4. ASSUME NEW a \in Edges(g), Worker(a) PROVE FALSE
  BY <1>4 DEF Worker, HighTide, ReadHead, ReadTail, CasHead, CasTail, Restore,
    ReadWaiting, CasWaiting, Deliver
<1> QED
  BY <1>1, <1>2, <1>3, <1>4 DEF Next

LEMMA CycleIsMaxFlow == CycleInv /\ NoPathIsLeft => ResultIsMaxFlow
<1> SUFFICES ASSUME CycleInv, NoPathIsLeft, pc = "done" PROVE maxFlow = MinCut(g)
  BY DEF ResultIsMaxFlow
<1>1. IsCase(g) /\ flow \in [Edges(g) -> Int] /\ maxFlow \in Int
  BY CycleFacts
<1>2. IsFlow(g, flow) /\ FlowValue(g, flow) = maxFlow + 0
  BY CycleIsFlow DEF Delivered
<1>3. FlowValue(g, flow) = MinCut(g)
  BY <1>1, <1>2, NoPathIsMinCut DEF NoPathIsLeft
<1> QED
  BY <1>1, <1>2, <1>3

-------------------------------------------------------------------------------
(* The theorems.                                                           *)

\* CycleInv holds in every state of every run: on every graph, for any number of
\* threads and in every order of their steps no demand and no water is lost or doubled.
THEOREM OpenMPCycleInvariant == Spec => []CycleInv
  BY InitEstablishesCycle, NextKeepsCycle, PTL DEF Spec

\* All the low tide asked of the source arrives at the sink, although an erosion worker
\* gives up as soon as it finds nothing waiting at its tail.
THEOREM OpenMPErosionDelivers == Spec => []ErosionDelivers
<1>1. CycleInv => ErosionDelivers
  BY CycleDelivers DEF ErosionDelivers
<1> QED
  BY <1>1, OpenMPCycleInvariant, PTL

\* tideCycle returns 0 only if no residual path of the level graph is left: workers of
\* the low tide that see a demand another one holds, and give up, do no harm.
THEOREM OpenMPZeroCycleMeansBlocked == Spec => []ZeroCycleMeansBlocked
<1>1. CycleInv => ZeroCycleMeansBlocked
  BY DEF CycleInv
<1> QED
  BY <1>1, OpenMPCycleInvariant, PTL

\* The number the call returns is the capacity of a minimum cut.
THEOREM OpenMPResultIsMaxFlow == Spec => []ResultIsMaxFlow
<1>1. Init => NoPathIsLeft
  BY DEF Init, NoPathIsLeft
<1> QED
  BY <1>1, NextKeepsNoPath, CycleIsMaxFlow, OpenMPCycleInvariant, PTL DEF Spec

\* The parallel solver implements MaxFlow: whatever the interleaving, a cycle that
\* delivers replaces one flow by another of larger value, and only a call without
\* augmenting path ends.
THEOREM OpenMPImplementsMaxFlow == Spec => ImplementsMaxFlow
<1>1. CycleInv /\ [Next]_vars => [Abstract!Next]_(Abstract!vars)
  BY NextIsAbstract DEF AbstractStep
<1> QED
  BY <1>1, InitIsAbstract, OpenMPCycleInvariant, PTL DEF Spec, ImplementsMaxFlow, Abstract!Spec

-------------------------------------------------------------------------------
(* The CUDA solver, whose invariant is that of the OpenMP solver.          *)

\* The host of the CUDA solver ends the low tide as the OpenMP master does.
LEMMA NoEarlyReturn ==
  ASSUME TideInv, CudaLowTideEnd
  PROVE  LowTideEnd
<1>1. CASE l[g.source] <= 0
  <2>1. pc = "low" /\ AtBarrier /\ level = 1
    BY <1>1 DEF CudaLowTideEnd
  <2>2. LowTideReachesSource /\ IInv
    BY DemandReachesSource DEF TideInv
  <2>3. l[g.source] > 0
    BY <2>1, <2>2 DEF LowTideReachesSource
  <2>4. l[g.source] \in Nat
    BY <2>2, SlotFacts DEF IInv, TypeOK, IsCase
  <2> QED
    BY <1>1, <2>3, <2>4
<1>2. CASE ~(l[g.source] <= 0)
  BY <1>2 DEF CudaLowTideEnd
<1> QED
  BY <1>1, <1>2

\* Every step of the CUDA solver is a step of the OpenMP solver.
LEMMA CudaStep == TideInv /\ [CudaNext]_vars => [Next]_vars
<1> SUFFICES ASSUME TideInv, [CudaNext]_vars PROVE [Next]_vars
  OBVIOUS
<1>1. CASE CudaMaster
  <2>1. CASE CudaLowTideEnd
    BY <2>1, NoEarlyReturn DEF Next, Master
  <2>2. CASE CudaMaster /\ ~CudaLowTideEnd
    BY <2>2 DEF CudaMaster, CheckBlockSize, CudaTideCycle, Next, Master
  <2> QED
    BY <1>1, <2>1, <2>2
<1>2. ASSUME NEW e \in Edges(g), CudaThread(e) PROVE [Next]_vars
  <2>1. Worker(e)
    BY <1>2 DEF CudaThread, CudaHighTide, CudaLowTide, CudaErosion, Worker
  <2> QED
    BY <2>1 DEF Next
<1> QED
  BY <1>1, <1>2 DEF CudaNext

\* The invariant of the OpenMP solver holds of the CUDA solver.
THEOREM CudaInvariant == CudaSpec => []CycleInv
<1>1. CycleInv /\ [CudaNext]_vars => CycleInv'
  BY CudaStep, CycleFacts, NextKeepsCycle
<1> QED
  BY <1>1, InitEstablishesCycle, PTL DEF CudaSpec

\* A device that has brought water to the sink never hands an unanswered low tide to
\* the host: the early return before the erosion is dead code.
THEOREM CudaLowTideReachesSource == CudaSpec => []LowTideReachesSource
<1>1. CycleInv => LowTideReachesSource
  BY CycleFacts, DemandReachesSource
<1> QED
  BY <1>1, CudaInvariant, PTL

\* Kernel launches in the place of parallel loops add no behaviour.
THEOREM CudaImplementsOpenMP == CudaSpec => Init /\ [][Next]_vars
<1>1. CycleInv /\ [CudaNext]_vars => [Next]_vars
  BY CudaStep, CycleFacts
<1> QED
  BY <1>1, CudaInvariant, PTL DEF CudaSpec

\* No interleaving of device threads overfills a slot or breaks the pairing of
\* d_flow[] with rev[].
THEOREM CudaFlowIsFeasible == CudaSpec => []FlowIsFeasible
<1>1. CycleInv => FlowIsFeasible
  BY CycleFacts DEF IInv
<1> QED
  BY <1>1, CudaInvariant, PTL

\* No two threads of a launch touch the same word unless both do so atomically.
THEOREM CudaNoDataRace == CudaSpec => []NoDataRace
<1>1. CycleInv => NoDataRace
  BY CycleFacts, InvariantExcludesRaces
<1> QED
  BY <1>1, CudaInvariant, PTL

\* What the erosion threads bring to the sink is what the host adds to the result.
THEOREM CudaErosionDelivers == CudaSpec => []ErosionDelivers
<1>1. CycleInv => ErosionDelivers
  BY CycleDelivers DEF ErosionDelivers
<1> QED
  BY <1>1, CudaInvariant, PTL

\* The number the host returns is the capacity of a minimum cut.
THEOREM CudaResultIsMaxFlow == CudaSpec => []ResultIsMaxFlow
<1>1. Init => NoPathIsLeft
  BY DEF Init, NoPathIsLeft
<1>2. CycleInv /\ [CudaNext]_vars /\ NoPathIsLeft => NoPathIsLeft'
  BY CudaStep, CycleFacts, NextKeepsNoPath
<1> QED
  BY <1>1, <1>2, CycleIsMaxFlow, CudaInvariant, PTL DEF CudaSpec

\* The CUDA solver implements MaxFlow: a cycle that delivers replaces one flow by
\* another of larger value, and only a call without augmenting path ends.
THEOREM CudaImplementsMaxFlow == CudaSpec => ImplementsMaxFlow
<1>1. CycleInv /\ [CudaNext]_vars => [Abstract!Next]_(Abstract!vars)
  BY CudaStep, CycleFacts, NextIsAbstract DEF AbstractStep
<1> QED
  BY <1>1, InitIsAbstract, CudaInvariant, PTL DEF CudaSpec, ImplementsMaxFlow, Abstract!Spec

===============================================================================
