----------------------------- MODULE TidalSeqProofs ----------------------------
(***************************************************************************)
(* What holds of every call of the four sequential solvers, on every       *)
(* network.                                                                *)
(*                                                                         *)
(* First the actions the solvers share: each preserves the inductive       *)
(* invariant IInv of TidalSeq, and on top of it LevelGraphInv: the search  *)
(* labels nodes with distances and records the level graph, and pruning    *)
(* leaves the edges on shortest augmenting paths.                          *)
(*                                                                         *)
(* Then what the tides carry: the same actions preserve MassInv, given     *)
(* IInv before and after the step.                                         *)
(*                                                                         *)
(* At the end, the shared actions implement MaxFlow, and solver by solver  *)
(* come its invariant and what follows from it.                            *)
(***************************************************************************)
EXTENDS TidalBaseline, TidalBlocking, TidalPruning, TidalCombined, FlowNetworkProofs

\* What IsCase says of single slots.
LEMMA SlotFacts ==
  ASSUME IsCase(g), NEW a \in Edges(g)
  PROVE  /\ a \in Nat
         /\ g.src[a] \in Nodes(g)
         /\ g.dst[a] \in Nodes(g)
         /\ g.rev[a] \in Edges(g)
         /\ g.rev[a] # a
         /\ g.rev[g.rev[a]] = a
         /\ g.src[g.rev[a]] = g.dst[a]
         /\ g.dst[g.rev[a]] = g.src[a]
         /\ g.capacity[a] \in Nat
         /\ g.capacity[a] + g.capacity[g.rev[a]] <= IntMax
BY IntAssumption, WidthsAssumption, SMTT(30) DEF IsCase, IsPaired, FitsInt, Edges

\* A sequence without repetitions is no longer than its range is large.
LEMMA NoRepeatsFit ==
  ASSUME NEW n \in Nat, NEW s \in Seq(0 .. (n - 1)), HasNoRepeats(s)
  PROVE  Len(s) <= n
<1>1. Len(s) \in Nat /\ s \in [1 .. Len(s) -> 0 .. (n - 1)]
  OBVIOUS
<1>2. /\ IsFiniteSet(1 .. Len(s)) /\ Cardinality(1 .. Len(s)) = Len(s)
      /\ IsFiniteSet(0 .. (n - 1)) /\ Cardinality(0 .. (n - 1)) = n
  <2>1. /\ IsFiniteSet(1 .. Len(s))
        /\ Cardinality(1 .. Len(s)) = IF 1 > Len(s) THEN 0 ELSE Len(s) - 1 + 1
    BY <1>1, FS_Interval, SMTT(30)
  <2>2. /\ IsFiniteSet(0 .. (n - 1))
        /\ Cardinality(0 .. (n - 1)) = IF 0 > n - 1 THEN 0 ELSE (n - 1) - 0 + 1
    BY FS_Interval
  <2> QED
    BY <1>1, <2>1, <2>2
<1>3. CASE n < Len(s)
  <2>1. \E i, j \in 1 .. Len(s) : i # j /\ s[i] = s[j]
    BY <1>1, <1>2, <1>3, FS_PigeonHole
  <2> QED
    BY <1>1, <2>1 DEF HasNoRepeats
<1> QED
  BY <1>1, <1>3

\* What IsCase says of the slots of a node.
LEMMA SlotIndexFacts ==
  ASSUME IsCase(g), NEW x \in Nodes(g)
  PROVE  /\ g.ver[x] \in 0 .. g.edgeCount
         /\ g.ver[x + 1] \in 0 .. g.edgeCount
         /\ g.ver[x] <= g.ver[x + 1]
         /\ \A a \in g.ver[x] .. (g.ver[x + 1] - 1) : a \in Edges(g) /\ g.src[a] = x
         /\ \A a \in Edges(g) : g.src[a] = x => g.ver[x] <= a /\ a < g.ver[x + 1]
<1>1. x \in 0 .. g.nodeCount /\ x + 1 \in 0 .. g.nodeCount
  BY DEF IsCase, Nodes
<1>2. /\ g.ver \in [0 .. g.nodeCount -> 0 .. g.edgeCount]
      /\ g.edgeCount \in Nat
      /\ g.ver[x] <= g.ver[x + 1]
      /\ \A a \in Edges(g) : g.src[a] = x <=> g.ver[x] <= a /\ a < g.ver[x + 1]
  BY DEF IsCase, IsIndexed
<1>3. g.ver[x] \in 0 .. g.edgeCount /\ g.ver[x + 1] \in 0 .. g.edgeCount
  BY <1>1, <1>2
<1>4. \A a \in g.ver[x] .. (g.ver[x + 1] - 1) : a \in Edges(g)
  BY <1>2, <1>3 DEF Edges
<1> QED
  BY <1>2, <1>3, <1>4

\* Lesser returns the smaller of two naturals.
LEMMA LesserFacts ==
  ASSUME NEW m \in Nat, NEW n \in Nat
  PROVE  /\ Lesser(m, n) \in {m, n} /\ Lesser(m, n) \in Nat
         /\ Lesser(m, n) <= m /\ Lesser(m, n) <= n
BY DEF Lesser

\* The level edges stand at the positions 1 to their number.
LEMMA LevelEdgesAreSequence ==
  ASSUME IInv
  PROVE  /\ levelEdges \in Seq(Edges(g))
         /\ DOMAIN levelEdges = 1 .. Len(levelEdges) /\ Len(levelEdges) \in Nat
<1>1. levelEdges \in Seq(Edges(g))
  BY DEF IInv, TypeOK
<1> QED
  BY <1>1

\* What the invariant says of the positions of levelEdges[].
LEMMA LevelEdgeFacts ==
  ASSUME IInv, NEW i \in DOMAIN levelEdges
  PROVE  /\ Len(levelEdges) \in Nat
         /\ DOMAIN levelEdges = 1 .. Len(levelEdges)
         /\ i \in 1 .. g.edgeCount
         /\ levelEdges[i] \in Edges(g)
         /\ levelEdges[i] \in Nat
         /\ g.src[levelEdges[i]] \in Nodes(g)
         /\ g.dst[levelEdges[i]] \in Nodes(g)
         /\ g.rev[levelEdges[i]] \in Edges(g)
         /\ g.src[levelEdges[i]] # g.dst[levelEdges[i]]
<1>1. /\ IsCase(g)
      /\ levelEdges \in Seq(Edges(g))
      /\ dist \in [Nodes(g) -> Nat \cup {-1}]
      /\ Len(levelEdges) <= g.edgeCount
      /\ g.edgeCount \in Nat
  BY DEF IInv, TypeOK, BuffersSuffice, IsCase
<1>2. /\ levelEdges[i] \in Edges(g)
      /\ Len(levelEdges) \in Nat
      /\ DOMAIN levelEdges = 1 .. Len(levelEdges)
  BY <1>1
<1>3. /\ dist[g.src[levelEdges[i]]] # -1
      /\ dist[g.dst[levelEdges[i]]] = dist[g.src[levelEdges[i]]] + 1
  BY DEF IInv, LevelInv
<1> QED
  BY <1>1, <1>2, <1>3, SlotFacts

\* A feasible flow leaves a natural number of every capacity.
LEMMA ResidualFacts ==
  ASSUME IInv, NEW a \in Edges(g)
  PROVE  /\ flow[a] \in Int
         /\ flow[g.rev[a]] = -flow[a]
         /\ Residual(g, flow, a) \in Nat
         /\ Residual(g, flow, a) = g.capacity[a] - flow[a]
<1>1. IsCase(g) /\ flow[a] \in Int
  BY DEF IInv, TypeOK
<1>2. flow[a] <= g.capacity[a] /\ flow[g.rev[a]] = -flow[a]
  BY DEF IInv, FlowIsFeasible, CapacityOK, SkewSymmetry
<1>3. g.capacity[a] \in Nat
  BY <1>1, SlotFacts
<1> QED
  BY <1>1, <1>2, <1>3 DEF Residual

LEMMA InitEstablishesInvariant == Init => IInv
<1> SUFFICES ASSUME Init PROVE IInv
  OBVIOUS
<1>1. IsCase(g)
  BY CasesAssumption DEF Init
<1>2. TypeOK
  BY <1>1 DEF Init, TypeOK, IsCase, Nodes, Edges, Labels
<1>3. FlowIsFeasible
  <2> USE <1>1, SlotFacts
  <2>1. \A a \in Edges(g) : flow[a] = 0 /\ flow[g.rev[a]] = 0
    BY DEF Init
  <2> QED
    BY <2>1 DEF FlowIsFeasible, CapacityOK, SkewSymmetry
<1>4. BuffersSuffice
  BY <1>1 DEF Init, BuffersSuffice, IsCase
<1>5. QueueInv /\ LevelInv /\ ScanInv /\ NoRepeatInv /\ PromiseInv
  BY DEF Init, QueueInv, LevelInv, ScanInv, NoRepeatInv, PromiseInv, HasNoRepeats,
         Live, Promised
<1>6. LowTideBound /\ CutInv /\ OrderInv /\ FrontierInv /\ ReachInv /\ KeptInv /\ CutCertificate
  BY DEF Init, LowTideBound, CutInv, OrderInv, FrontierInv, ReachInv, KeptInv, CutCertificate
<1> QED
  BY <1>2, <1>3, <1>4, <1>5, <1>6 DEF IInv

LEMMA AllocateKeeps == IInv /\ Allocate => IInv'
<1> SUFFICES ASSUME IInv, Allocate PROVE IInv'
  OBVIOUS
<1>0. /\ UNCHANGED <<g, flow, dist, queue, head, levelEnd, u, e, levelEdges, idx>>
      /\ UNCHANGED <<write, reach, h, p, l, sent>>
      /\ pc' \in {"build", "failed"} /\ maxFlow' \in {maxFlow, -1}
  BY DEF Allocate, searchVars, pruneVars, tideVars
<1>1. TypeOK'
  <2>1. maxFlow' \in Int /\ pc' \in Labels
    BY <1>0 DEF IInv, TypeOK, Labels
  <2> QED
    BY <1>0, <2>1 DEF IInv, TypeOK
<1>4. FlowIsFeasible' /\ BuffersSuffice'
  BY <1>0 DEF IInv, FlowIsFeasible, CapacityOK, SkewSymmetry, BuffersSuffice
<1>2. QueueInv' /\ LevelInv' /\ ScanInv' /\ NoRepeatInv' /\ PromiseInv'
  BY DEF IInv, Allocate, searchVars, pruneVars, tideVars, QueueInv, LevelInv, ScanInv,
         NoRepeatInv, PromiseInv, HasNoRepeats, Live, Promised, IsTaken
<1>3. LowTideBound' /\ CutInv' /\ OrderInv' /\ FrontierInv' /\ ReachInv' /\ KeptInv' /\ CutCertificate'
  BY DEF Allocate, LowTideBound, CutInv, OrderInv, FrontierInv, ReachInv, KeptInv, CutCertificate
<1> QED
  BY <1>1, <1>2, <1>3, <1>4 DEF IInv

-------------------------------------------------------------------------------
(* The search.                                                             *)

\* Whatever the solver does to h[] besides, as long as it stays typed.
LEMMA StartKeeps ==
  ASSUME IInv, Start, h' \in [Nodes(g) -> Nat]
  PROVE  IInv'
<1>1. IsCase(g) /\ g.source \in Nodes(g)
  BY DEF IInv, TypeOK, IsCase
<1>2. TypeOK'
  BY <1>1 DEF IInv, TypeOK, Start, callVars, pruneVars, Labels
<1>3. FlowIsFeasible' /\ LowTideBound' /\ CutCertificate'
  BY DEF IInv, Start, callVars, pruneVars, FlowIsFeasible, CapacityOK, SkewSymmetry,
         LowTideBound, CutCertificate
<1>6. OrderInv' /\ FrontierInv' /\ ReachInv' /\ KeptInv'
  BY <1>1 DEF Start, callVars, pruneVars, OrderInv, FrontierInv, ReachInv, KeptInv
<1>4. BuffersSuffice'
  BY <1>1 DEF Start, callVars, pruneVars, BuffersSuffice, IsCase, Nodes
<1>5. QueueInv' /\ LevelInv' /\ ScanInv' /\ NoRepeatInv' /\ PromiseInv' /\ CutInv'
  BY <1>1 DEF Start, callVars, pruneVars, QueueInv, LevelInv, ScanInv, NoRepeatInv,
              PromiseInv, CutInv, HasNoRepeats, Live, Promised, IsTaken
<1> QED
  BY <1>2, <1>3, <1>4, <1>5, <1>6 DEF IInv

LEMMA NextLevelKeeps == IInv /\ NextLevel => IInv'
<1> SUFFICES ASSUME IInv, NextLevel PROVE IInv'
  OBVIOUS
<1>1. TypeOK' /\ FlowIsFeasible' /\ BuffersSuffice' /\ LowTideBound' /\ CutCertificate'
  BY DEF IInv, TypeOK, NextLevel, callVars, pruneVars, tideVars, FlowIsFeasible,
         CapacityOK, SkewSymmetry, BuffersSuffice, LowTideBound, CutCertificate
<1>2. QueueInv' /\ LevelInv' /\ ScanInv' /\ NoRepeatInv' /\ PromiseInv' /\ CutInv'
  BY DEF IInv, NextLevel, callVars, pruneVars, tideVars, QueueInv, LevelInv, ScanInv,
         NoRepeatInv, PromiseInv, CutInv, HasNoRepeats, Live, Promised, IsTaken,
         ResidualEdges, Residual
<1>3. OrderInv' /\ FrontierInv' /\ ReachInv' /\ KeptInv'
  BY DEF IInv, NextLevel, callVars, pruneVars, OrderInv, FrontierInv, ReachInv, KeptInv
<1> QED
  BY <1>1, <1>2, <1>3 DEF IInv

LEMMA DequeueKeeps == IInv /\ Dequeue => IInv'
<1> SUFFICES ASSUME IInv, Dequeue PROVE IInv'
  OBVIOUS
<1> USE DEF callVars, pruneVars, tideVars
<1>1. /\ IsCase(g) /\ queue \in Seq(Nodes(g)) /\ Len(queue) \in Nat
      /\ head \in Nat /\ head + 1 \in 1 .. Len(queue)
  BY SMTT(30) DEF IInv, TypeOK, Dequeue
<1>2. u' \in Nodes(g) /\ u' = queue[head + 1] /\ head' = head + 1 /\ UNCHANGED <<g, queue>>
  BY <1>1 DEF Dequeue
<1>4. /\ g.ver[u'] \in 0 .. g.edgeCount
      /\ g.ver[u' + 1] \in 0 .. g.edgeCount
      /\ g.ver[u'] <= g.ver[u' + 1]
  BY <1>1, <1>2, SlotIndexFacts
<1>3. TypeOK' /\ FlowIsFeasible' /\ BuffersSuffice'
  <2>1. u' \in Nodes(g) /\ e' \in 0 .. g.edgeCount /\ pc' \in Labels /\ head' \in 0 .. Len(queue)
    BY <1>1, <1>2, <1>4 DEF Dequeue, Labels
  <2> QED
    BY <2>1 DEF IInv, TypeOK, Dequeue, FlowIsFeasible, CapacityOK, SkewSymmetry, BuffersSuffice
<1>5. QueueInv'
  BY <1>1, <1>2, <1>4 DEF IInv, Dequeue, QueueInv, HasNoRepeats
<1>6. \A x \in Nodes(g) : IsTaken(x)' <=> IsTaken(x) \/ x = u'
  BY <1>1, <1>2 DEF IsTaken
<1>7. ~IsTaken(u')
  BY <1>1 DEF IInv, QueueInv, HasNoRepeats, Dequeue, IsTaken
<1>8. ScanInv'
  <2>1. \A i \in DOMAIN levelEdges : g.src[levelEdges[i]] \in Nodes(g)
    <3>1. \A i \in DOMAIN levelEdges : levelEdges[i] \in Edges(g)
      BY DEF IInv, TypeOK
    <3> QED
      BY <1>1, <3>1, SlotFacts
  <2> QED
    BY <1>6, <1>7, <2>1 DEF IInv, Dequeue, ScanInv
<1>9. CutInv'
  <2> SUFFICES ASSUME NEW a \in ResidualEdges(g, flow), IsTaken(g.src[a])',
                      ~(g.src[a] = u' /\ a >= e')
               PROVE  dist[g.dst[a]] # -1
    BY DEF Dequeue, CutInv, ResidualEdges, Residual
  <2>1. a \in Edges(g) /\ a \in Nat /\ g.src[a] \in Nodes(g)
    BY <1>1, SlotFacts DEF ResidualEdges
  <2>2. g.src[a] # u'
    BY <1>1, <1>2, <2>1 DEF IsCase, IsIndexed, Dequeue
  <2> QED
    BY <1>6, <2>1, <2>2 DEF IInv, CutInv, Dequeue
<1>10. LevelInv' /\ NoRepeatInv' /\ PromiseInv' /\ LowTideBound' /\ CutCertificate'
  BY DEF IInv, Dequeue, LevelInv, NoRepeatInv, PromiseInv, LowTideBound, CutCertificate,
         Live, Promised
<1>11. OrderInv' /\ ReachInv' /\ KeptInv'
  BY DEF IInv, Dequeue, OrderInv, ReachInv, KeptInv
<1>12. FrontierInv'
  <2>1. \A k \in DOMAIN queue : dist[queue[k]] \in Nat \cup {-1}
    BY DEF IInv, TypeOK
  <2>2. \A k \in DOMAIN queue : dist[queue[k]] <= dist[queue[head + 1]] + 1
    <3>1. CASE head = 0
      BY <1>1, <2>1, <3>1 DEF IInv, FrontierInv, Dequeue
    <3>2. CASE head > 0
      <4>1. /\ \A k \in DOMAIN queue : dist[queue[k]] <= dist[queue[head]] + 1
            /\ dist[queue[head]] <= dist[queue[head + 1]]
        BY <1>1, <3>2 DEF IInv, FrontierInv, OrderInv, Dequeue
      <4>2. head \in DOMAIN queue /\ head + 1 \in DOMAIN queue
        BY <1>1, <3>2
      <4> QED
        BY <2>1, <4>1, <4>2
    <3> QED
      BY <1>1, <3>1, <3>2
  <2> QED
    BY <1>1, <1>2, <2>2 DEF Dequeue, FrontierInv
<1> QED
  BY <1>3, <1>5, <1>8, <1>9, <1>10, <1>11, <1>12 DEF IInv

\* What the invariant says of the slot that is scanned next.
LEMMA ScanFacts ==
  ASSUME IInv, pc = "scan", e < g.ver[u + 1]
  PROVE  /\ IsCase(g) /\ u \in Nodes(g)
         /\ e \in Edges(g) /\ e \in Nat /\ g.src[e] = u /\ g.dst[e] \in Nodes(g)
         /\ e + 1 \in g.ver[u] .. g.ver[u + 1]
         /\ e + 1 \in 0 .. g.edgeCount
<1>1. IsCase(g) /\ u \in Nodes(g) /\ e \in g.ver[u] .. g.ver[u + 1]
  BY DEF IInv, TypeOK, QueueInv
<1>2. /\ g.ver[u] \in 0 .. g.edgeCount /\ g.ver[u + 1] \in 0 .. g.edgeCount
      /\ \A a \in g.ver[u] .. (g.ver[u + 1] - 1) : a \in Edges(g) /\ g.src[a] = u
  BY <1>1, SlotIndexFacts
<1>3. e \in g.ver[u] .. (g.ver[u + 1] - 1)
  BY <1>1, <1>2
<1>4. e \in Edges(g) /\ g.src[e] = u
  BY <1>2, <1>3
<1>5. e + 1 \in g.ver[u] .. g.ver[u + 1] /\ e + 1 \in 0 .. g.edgeCount
  <2>1. g.edgeCount \in Nat
    BY <1>1 DEF IsCase
  <2>2. e \in Nat /\ g.ver[u] \in Nat /\ g.ver[u + 1] \in Nat
    BY <1>2, <1>3, <2>1
  <2>3. g.ver[u] <= e /\ e + 1 <= g.ver[u + 1] /\ g.ver[u + 1] <= g.edgeCount
    BY <1>2, <1>3, <2>1, <2>2
  <2> QED
    BY <2>1, <2>2, <2>3
<1> QED
  BY <1>1, <1>4, <1>5, SlotFacts

LEMMA SkipEdgeKeeps == IInv /\ SkipEdge => IInv'
<1> SUFFICES ASSUME IInv, SkipEdge PROVE IInv'
  OBVIOUS
<1> USE DEF callVars, pruneVars, tideVars
<1>1. IsCase(g)
  BY ScanFacts DEF SkipEdge
<1>2. /\ e \in Edges(g) /\ e \in Nat /\ g.src[e] = u
      /\ e + 1 \in g.ver[u] .. g.ver[u + 1]
      /\ e + 1 \in 0 .. g.edgeCount
  BY ScanFacts DEF SkipEdge
<1>3. TypeOK' /\ FlowIsFeasible' /\ BuffersSuffice'
  BY <1>2 DEF IInv, TypeOK, SkipEdge, FlowIsFeasible, CapacityOK, SkewSymmetry,
              BuffersSuffice
<1>4. QueueInv' /\ LevelInv' /\ NoRepeatInv' /\ PromiseInv' /\ LowTideBound' /\ CutCertificate'
  BY <1>2 DEF IInv, SkipEdge, QueueInv, LevelInv, NoRepeatInv, PromiseInv, LowTideBound,
              CutCertificate, Live, Promised
<1>5. ScanInv'
  BY <1>2, LevelEdgeFacts DEF IInv, SkipEdge, ScanInv, IsTaken
<1>6. CutInv'
  <2> SUFFICES ASSUME NEW a \in ResidualEdges(g, flow), IsTaken(g.src[a]),
                      ~(g.src[a] = u /\ a >= e + 1)
               PROVE  dist[g.dst[a]] # -1
    BY DEF SkipEdge, CutInv, ResidualEdges, Residual, IsTaken
  <2>1. CASE a = e
    BY <2>1 DEF SkipEdge, LeadsOn, ResidualEdges
  <2>2. CASE a # e
    <3>1. a \in Nat
      BY <1>1, SlotFacts DEF ResidualEdges
    <3> QED
      BY <1>2, <2>2, <3>1 DEF IInv, CutInv, SkipEdge
  <2> QED
    BY <2>1, <2>2
<1>7. OrderInv' /\ FrontierInv' /\ ReachInv' /\ KeptInv'
  BY DEF IInv, SkipEdge, OrderInv, FrontierInv, ReachInv, KeptInv
<1> QED
  BY <1>3, <1>4, <1>5, <1>6, <1>7 DEF IInv

\* Whatever the solver does to h[] and p[] besides, as long as it stays typed.
LEMMA RecordKeeps ==
  ASSUME IInv, Record, h' \in [Nodes(g) -> Nat], p' \in [1 .. g.edgeCount -> Nat]
  PROVE  IInv'
<1> USE DEF callVars, pruneVars
<1> DEFINE v == g.dst[e]
<1>1. IsCase(g) /\ u \in Nodes(g)
  BY ScanFacts DEF Record
<1>2. /\ e \in Edges(g) /\ e \in Nat /\ g.src[e] = u /\ v \in Nodes(g)
      /\ e + 1 \in g.ver[u] .. g.ver[u + 1]
      /\ e + 1 \in 0 .. g.edgeCount
  BY ScanFacts DEF Record
<1>3. /\ dist \in [Nodes(g) -> Nat \cup {-1}]
      /\ queue \in Seq(Nodes(g)) /\ Len(queue) \in Nat
      /\ levelEdges \in Seq(Edges(g)) /\ Len(levelEdges) \in Nat
      /\ head \in 0 .. Len(queue) /\ levelEnd \in 0 .. Len(queue)
  BY DEF IInv, TypeOK
<1>4. dist[u] \in Nat /\ u = queue[head] /\ head \in 1 .. Len(queue)
  <2>1. u = queue[head] /\ head \in 1 .. Len(queue)
    BY <1>3 DEF IInv, QueueInv, Record
  <2>2. dist[u] # -1
    BY <1>1, <1>3, <2>1 DEF IInv, QueueInv
  <2> QED
    BY <1>1, <1>3, <2>1, <2>2
<1>5. /\ dist' = [dist EXCEPT ![v] = dist[u] + 1]
      /\ dist[v] \in {-1, dist[u] + 1}
      /\ levelEdges' = Append(levelEdges, e)
      /\ queue' = IF dist[v] = -1 THEN Append(queue, v) ELSE queue
      /\ e' = e + 1 /\ pc = "scan"
      /\ UNCHANGED <<g, flow, pc, head, u, levelEnd, idx, write, l>>
  BY DEF Record, LeadsOn, IsNew
<1>6. \A x \in Nodes(g) : dist'[x] = IF x = v THEN dist[u] + 1 ELSE dist[x]
  BY <1>2, <1>3, <1>5
<1>7. \A k \in 1 .. Len(queue) : k \in DOMAIN queue' /\ queue'[k] = queue[k]
  BY <1>2, <1>3, <1>5
<1>8. \A x \in Nodes(g) : IsTaken(x)' <=> IsTaken(x)
  BY <1>3, <1>5, <1>7 DEF IsTaken
<1>9. \A i \in DOMAIN levelEdges' :
         \/ i \in DOMAIN levelEdges /\ levelEdges'[i] = levelEdges[i]
         \/ i = Len(levelEdges) + 1 /\ levelEdges'[i] = e
  BY <1>2, <1>3, <1>5, SMTT(30)
<1>22. /\ DOMAIN queue = 1 .. Len(queue)
       /\ \A k \in DOMAIN queue' : \/ k \in DOMAIN queue /\ queue'[k] = queue[k]
                                   \/ dist[v] = -1 /\ k = Len(queue) + 1 /\ queue'[k] = v
  <2>0. DOMAIN queue = 1 .. Len(queue)
    BY <1>3
  <2>1. CASE dist[v] = -1
    <3>1. queue' = Append(queue, v)
      BY <1>5, <2>1
    <3>2. /\ DOMAIN queue' = 1 .. Len(queue) + 1
          /\ queue'[Len(queue) + 1] = v
          /\ \A k \in 1 .. Len(queue) : queue'[k] = queue[k]
      BY <1>2, <1>3, <3>1
    <3> QED
      BY <1>3, <2>0, <2>1, <3>2
  <2>2. CASE dist[v] # -1
    <3>1. queue' = queue
      BY <1>5, <2>2
    <3> QED
      BY <2>0, <3>1
  <2> QED
    BY <2>1, <2>2
<1>10. HasNoRepeats(levelEdges')
  <2>1. \A i \in DOMAIN levelEdges : levelEdges[i] # e
    BY <1>1, <1>2, LevelEdgeFacts DEF IInv, ScanInv, Record
  <2>2. HasNoRepeats(levelEdges)
    BY <1>5 DEF IInv, NoRepeatInv, Live, HasNoRepeats
  <2> QED
    BY <1>3, <1>9, <2>1, <2>2 DEF HasNoRepeats
<1>11. HasNoRepeats(queue')
  <2>1. dist[v] = -1 => \A k \in DOMAIN queue : queue[k] # v
    BY <1>2 DEF IInv, QueueInv
  <2>2. HasNoRepeats(queue)
    BY DEF IInv, QueueInv
  <2> QED
    BY <1>3, <1>22, <2>1, <2>2 DEF HasNoRepeats
<1>12. TypeOK'
  <2>1. dist' \in [Nodes(g) -> Nat \cup {-1}] /\ e' \in 0 .. g.edgeCount
    <3>1. dist[u] + 1 \in Nat \cup {-1}
      BY <1>4
    <3> QED
      BY <1>2, <1>3, <1>5, <3>1
  <2>4. queue' \in Seq(Nodes(g)) /\ levelEdges' \in Seq(Edges(g))
    BY <1>2, <1>3, <1>5
  <2>2. head' \in 0 .. Len(queue') /\ levelEnd' \in 0 .. Len(queue')
    BY <1>2, <1>3, <1>5
  <2>3. h' \in [Nodes(g') -> Nat] /\ p' \in [1 .. g'.edgeCount -> Nat]
    BY <1>5
  <2> QED
    BY <2>1, <2>2, <2>3, <2>4 DEF IInv, TypeOK, Record
<1>13. FlowIsFeasible' /\ LowTideBound' /\ CutCertificate'
  BY <1>5 DEF IInv, FlowIsFeasible, CapacityOK, SkewSymmetry, LowTideBound, CutCertificate
<1>14. BuffersSuffice'
  <2>1. /\ g.nodeCount \in Nat /\ g.edgeCount \in Nat
        /\ queue' \in Seq(0 .. (g.nodeCount - 1))
        /\ levelEdges' \in Seq(0 .. (g.edgeCount - 1))
    BY <1>1, <1>5, <1>12 DEF TypeOK, IsCase, Nodes, Edges
  <2> QED
    BY <1>5, <1>10, <1>11, <2>1, NoRepeatsFit DEF BuffersSuffice
<1>15. QueueInv'
  <2>1. \A x \in Nodes(g) : dist'[x] # -1 <=> \E k \in DOMAIN queue' : queue'[k] = x
    <3>1. \A x \in Nodes(g) : dist[x] # -1 <=> \E k \in DOMAIN queue : queue[k] = x
      BY DEF IInv, QueueInv
    <3>2. CASE dist[v] = -1
      <4>1. /\ DOMAIN queue' = 1 .. Len(queue) + 1
            /\ queue'[Len(queue) + 1] = v
            /\ \A k \in 1 .. Len(queue) : queue'[k] = queue[k]
        BY <1>2, <1>3, <1>5, <3>2
      <4>2. ASSUME NEW x \in Nodes(g), x # v
            PROVE  dist'[x] # -1 <=> \E k \in DOMAIN queue' : queue'[k] = x
        <5>1. DOMAIN queue = 1 .. Len(queue) /\ dist'[x] = dist[x]
          BY <1>3, <1>6, <4>2
        <5>2. ASSUME NEW k \in DOMAIN queue', queue'[k] = x
              PROVE  k \in DOMAIN queue /\ queue[k] = x
          BY <1>3, <4>1, <4>2, <5>1, <5>2
        <5>3. ASSUME NEW k \in DOMAIN queue, queue[k] = x
              PROVE  k \in DOMAIN queue' /\ queue'[k] = x
          BY <1>3, <4>1, <5>1, <5>3
        <5>4. (\E k \in DOMAIN queue : queue[k] = x) <=> \E k \in DOMAIN queue' : queue'[k] = x
          BY <5>2, <5>3
        <5>5. dist[x] # -1 <=> \E k \in DOMAIN queue : queue[k] = x
          BY <3>1
        <5> QED
          BY <5>1, <5>4, <5>5
      <4>3. dist'[v] # -1 /\ Len(queue) + 1 \in DOMAIN queue'
        <5>1. dist'[v] = dist[u] + 1
          BY <1>2, <1>6
        <5>2. Len(queue) + 1 \in DOMAIN queue'
          BY <1>3, <4>1
        <5> QED
          BY <1>4, <5>1, <5>2
      <4> QED
        BY <4>1, <4>2, <4>3
    <3>3. CASE dist[v] # -1
      BY <1>2, <1>4, <1>5, <1>6, <3>1, <3>3, SMTT(30)
    <3> QED
      BY <3>2, <3>3
  <2>2. g.source \in Nodes(g) /\ dist[g.source] = 0 /\ dist'[g.source] = 0
    <3>1. g.source \in Nodes(g) /\ dist[g.source] = 0
      <4>1. g.source \in Nodes(g)
        BY <1>1 DEF IsCase
      <4> QED
        BY <1>5, <4>1 DEF IInv, QueueInv
    <3>2. v # g.source
      BY <1>4, <1>5, <3>1
    <3> QED
      BY <1>6, <3>1, <3>2
  <2>3. head > 0 /\ u = queue'[head] /\ e' \in g.ver[u] .. g.ver[u + 1]
    BY <1>2, <1>4, <1>5, <1>7
  <2> QED
    BY <1>5, <1>11, <2>1, <2>2, <2>3 DEF QueueInv
<1>16. LevelInv'
  <2>1. \A i \in DOMAIN levelEdges :
           /\ dist'[g.src[levelEdges[i]]] = dist[g.src[levelEdges[i]]]
           /\ dist'[g.dst[levelEdges[i]]] = dist[g.dst[levelEdges[i]]]
           /\ dist[g.src[levelEdges[i]]] # -1
           /\ dist[g.dst[levelEdges[i]]] = dist[g.src[levelEdges[i]]] + 1
    <3> SUFFICES ASSUME NEW i \in DOMAIN levelEdges
                 PROVE  /\ dist'[g.src[levelEdges[i]]] = dist[g.src[levelEdges[i]]]
                        /\ dist'[g.dst[levelEdges[i]]] = dist[g.dst[levelEdges[i]]]
      BY DEF IInv, LevelInv
    <3>1. /\ g.src[levelEdges[i]] \in Nodes(g) /\ g.dst[levelEdges[i]] \in Nodes(g)
          /\ dist[g.src[levelEdges[i]]] \in Nat \cup {-1}
      BY <1>3, LevelEdgeFacts
    <3>2. /\ dist[g.src[levelEdges[i]]] # -1
          /\ dist[g.dst[levelEdges[i]]] = dist[g.src[levelEdges[i]]] + 1
      BY DEF IInv, LevelInv
    <3>3. dist[g.dst[levelEdges[i]]] # -1
      BY <3>1, <3>2
    <3> QED
      BY <1>5, <1>6, <3>1, <3>2, <3>3
  <2>2. dist'[g.src[e]] # -1 /\ dist'[g.dst[e]] = dist'[g.src[e]] + 1
    BY <1>1, <1>2, <1>4, <1>5, <1>6, SMTT(30)
  <2> QED
    BY <1>5, <1>9, <2>1, <2>2 DEF LevelInv
<1>17. ScanInv'
  <2>1. IsTaken(g.src[e])
    BY <1>2, <1>4 DEF IsTaken
  <2>2. \A i \in DOMAIN levelEdges : /\ IsTaken(g.src[levelEdges[i]])
                                     /\ g.src[levelEdges[i]] = u => levelEdges[i] < e
    BY <1>5 DEF IInv, ScanInv
  <2> QED
    BY <1>1, <1>2, <1>5, <1>8, <1>9, <2>1, <2>2, LevelEdgeFacts, SMTT(30) DEF ScanInv
<1>18. NoRepeatInv' /\ PromiseInv'
  BY <1>5, <1>10 DEF NoRepeatInv, PromiseInv, Live, Promised, HasNoRepeats
<1>19. CutInv'
  <2> SUFFICES ASSUME NEW a \in ResidualEdges(g, flow), IsTaken(g.src[a])',
                      ~(g.src[a] = u /\ a >= e + 1)
               PROVE  dist'[g.dst[a]] # -1
    BY <1>5 DEF CutInv, ResidualEdges, Residual
  <2>1. a \in Nat /\ g.src[a] \in Nodes(g) /\ g.dst[a] \in Nodes(g)
    BY <1>1, SlotFacts DEF ResidualEdges
  <2>2. CASE a = e
    BY <1>2, <1>4, <1>6, <2>2
  <2>3. CASE a # e
    <3>1. IsTaken(g.src[a]) /\ ~(g.src[a] = u /\ a >= e)
      BY <1>2, <1>5, <1>8, <2>1, <2>3
    <3>2. dist[g.dst[a]] # -1
      BY <1>5, <3>1 DEF IInv, CutInv
    <3> QED
      BY <1>4, <1>6, <2>1, <3>2
  <2> QED
    BY <2>2, <2>3
<1>20. \A k \in DOMAIN queue : dist[queue[k]] \in Nat /\ dist'[queue[k]] = dist[queue[k]]
  <2> SUFFICES ASSUME NEW k \in DOMAIN queue
               PROVE  dist[queue[k]] \in Nat /\ dist'[queue[k]] = dist[queue[k]]
    OBVIOUS
  <2>1. queue[k] \in Nodes(g) /\ dist[queue[k]] # -1
    BY <1>3 DEF IInv, QueueInv
  <2> QED
    BY <1>3, <1>5, <1>6, <2>1
<1>21. \A k \in DOMAIN queue : dist[queue[k]] <= dist[u] + 1
  BY <1>4, <1>5 DEF IInv, FrontierInv
<1>23. OrderInv'
  <2>1. \A j, k \in DOMAIN queue' : j <= k => dist'[queue'[j]] <= dist'[queue'[k]]
    <3> SUFFICES ASSUME NEW j \in DOMAIN queue', NEW k \in DOMAIN queue', j <= k
                 PROVE  dist'[queue'[j]] <= dist'[queue'[k]]
      OBVIOUS
    <3>1. CASE k \in DOMAIN queue
      <4>1. j \in DOMAIN queue
        BY <1>3, <1>22, <3>1
      <4>2. dist[queue[j]] <= dist[queue[k]]
        BY <1>5, <3>1, <4>1 DEF IInv, OrderInv
      <4> QED
        BY <1>7, <1>20, <1>22, <3>1, <4>1, <4>2
    <3>2. CASE k = Len(queue) + 1 /\ queue'[k] = v
      <4>1. dist'[queue'[k]] = dist[u] + 1
        BY <1>2, <1>6, <3>2
      <4>2. CASE j \in DOMAIN queue
        BY <1>7, <1>20, <1>21, <1>22, <4>1, <4>2
      <4>3. CASE j = k
        BY <1>4, <4>1, <4>3
      <4> QED
        BY <1>22, <3>2, <4>2, <4>3
    <3> QED
      BY <1>22, <3>1, <3>2
  <2>2. \A i \in DOMAIN levelEdges :
           /\ dist'[g.src[levelEdges[i]]] = dist[g.src[levelEdges[i]]]
           /\ dist[g.src[levelEdges[i]]] \in Nat
           /\ dist[g.src[levelEdges[i]]] <= dist[u]
    <3> SUFFICES ASSUME NEW i \in DOMAIN levelEdges
                 PROVE  /\ dist'[g.src[levelEdges[i]]] = dist[g.src[levelEdges[i]]]
                        /\ dist[g.src[levelEdges[i]]] \in Nat
                        /\ dist[g.src[levelEdges[i]]] <= dist[u]
      OBVIOUS
    <3>1. PICK k \in 1 .. head : queue[k] = g.src[levelEdges[i]]
      BY <1>5 DEF IInv, ScanInv, IsTaken
    <3>2. k \in DOMAIN queue /\ head \in DOMAIN queue /\ k <= head
      BY <1>3, <1>4
    <3>3. dist[queue[k]] <= dist[queue[head]]
      BY <1>5, <3>2 DEF IInv, OrderInv
    <3> QED
      BY <1>4, <1>20, <3>1, <3>2, <3>3
  <2>3. dist'[g.src[e]] = dist[u]
    BY <1>2, <1>4, <1>5, <1>20
  <2>4. \A i, j \in DOMAIN levelEdges' :
           i <= j => dist'[g.src[levelEdges'[i]]] <= dist'[g.src[levelEdges'[j]]]
    <3> SUFFICES ASSUME NEW i \in DOMAIN levelEdges', NEW j \in DOMAIN levelEdges', i <= j
                 PROVE  dist'[g.src[levelEdges'[i]]] <= dist'[g.src[levelEdges'[j]]]
      OBVIOUS
    <3>1. CASE j \in DOMAIN levelEdges
      <4>1. /\ i \in DOMAIN levelEdges
            /\ levelEdges'[i] = levelEdges[i] /\ levelEdges'[j] = levelEdges[j]
        BY <1>3, <1>9, <3>1
      <4>2. dist[g.src[levelEdges[i]]] <= dist[g.src[levelEdges[j]]]
        BY <1>5, <3>1, <4>1 DEF IInv, OrderInv
      <4> QED
        BY <2>2, <3>1, <4>1, <4>2
    <3>2. CASE levelEdges'[j] = e
      <4>1. CASE i \in DOMAIN levelEdges
        BY <1>3, <1>9, <2>2, <2>3, <3>2, <4>1
      <4>2. CASE levelEdges'[i] = e
        BY <1>4, <2>3, <3>2, <4>2
      <4> QED
        BY <1>9, <4>1, <4>2
    <3> QED
      BY <1>9, <3>1, <3>2
  <2>5. \A x \in Nodes(g) : dist'[x] = 0 => x = g.source
    BY <1>4, <1>5, <1>6 DEF IInv, OrderInv
  <2>6. \A x \in Nodes(g) :
           dist'[x] > 0 => \E i \in DOMAIN levelEdges' : g.dst[levelEdges'[i]] = x
    <3> SUFFICES ASSUME NEW x \in Nodes(g), dist'[x] > 0
                 PROVE  \E i \in DOMAIN levelEdges' : g.dst[levelEdges'[i]] = x
      OBVIOUS
    <3>1. CASE x = v
      <4>1. /\ Len(levelEdges) + 1 \in DOMAIN levelEdges'
            /\ levelEdges'[Len(levelEdges) + 1] = e
        BY <1>2, <1>3, <1>5
      <4> QED
        BY <3>1, <4>1
    <3>2. CASE x # v
      <4>1. PICK i \in DOMAIN levelEdges : g.dst[levelEdges[i]] = x
        BY <1>5, <1>6, <3>2 DEF IInv, OrderInv
      <4>2. i \in DOMAIN levelEdges' /\ levelEdges'[i] = levelEdges[i]
        BY <1>2, <1>3, <1>5, SMTT(30)
      <4> QED
        BY <4>1, <4>2
    <3> QED
      BY <3>1, <3>2
  <2> QED
    BY <1>5, <2>1, <2>4, <2>5, <2>6 DEF OrderInv
<1>24. FrontierInv' /\ ReachInv' /\ KeptInv'
  <2>1. dist'[queue'[head]] = dist[u]
    BY <1>3, <1>4, <1>7, <1>20
  <2>2. \A k \in DOMAIN queue' : dist'[queue'[k]] <= dist[u] + 1
    BY <1>2, <1>4, <1>6, <1>20, <1>21, <1>22
  <2> QED
    BY <1>4, <1>5, <2>1, <2>2, SMTT(30) DEF FrontierInv, ReachInv, KeptInv
<1> QED
  BY <1>12, <1>13, <1>14, <1>15, <1>16, <1>17, <1>18, <1>19, <1>23, <1>24 DEF IInv

LEMMA ScanEndKeeps == IInv /\ ScanEnd => IInv'
<1> SUFFICES ASSUME IInv, ScanEnd PROVE IInv'
  OBVIOUS
<1> USE DEF callVars, searchVars, pruneVars, tideVars
<1>1. TypeOK' /\ FlowIsFeasible' /\ BuffersSuffice'
  BY DEF IInv, TypeOK, ScanEnd, Labels, FlowIsFeasible, CapacityOK, SkewSymmetry,
         BuffersSuffice
<1>2. QueueInv' /\ LevelInv' /\ ScanInv' /\ NoRepeatInv' /\ PromiseInv' /\ LowTideBound' /\ CutCertificate'
  BY DEF IInv, ScanEnd, QueueInv, LevelInv, ScanInv, NoRepeatInv, PromiseInv,
         LowTideBound, CutCertificate, IsTaken, Live, Promised
<1>3. CutInv'
  <2>1. \A a \in ResidualEdges(g, flow) : ~(g.src[a] = u /\ a >= e)
    BY SlotIndexFacts, SlotFacts DEF IInv, TypeOK, ScanEnd, ResidualEdges
  <2> QED
    BY <2>1 DEF IInv, ScanEnd, CutInv, IsTaken, ResidualEdges, Residual
<1>4. OrderInv' /\ FrontierInv' /\ ReachInv' /\ KeptInv'
  BY DEF IInv, ScanEnd, OrderInv, FrontierInv, ReachInv, KeptInv
<1> QED
  BY <1>1, <1>2, <1>3, <1>4 DEF IInv

\* When a search ends without the sink, what it has discovered is a filled cut.
LEMMA SearchEndFacts ==
  ASSUME IInv, pc = "bfs", head = levelEnd, SearchEnded
  PROVE  /\ dist[g.source] # -1
         /\ dist[g.sink] = -1 =>
              \A a \in Edges(g) :
                 dist[g.src[a]] # -1 /\ dist[g.dst[a]] = -1 => flow[a] = g.capacity[a]
<1>1. /\ IsCase(g) /\ flow \in [Edges(g) -> Int] /\ queue \in Seq(Nodes(g))
      /\ dist[g.source] = 0
  BY DEF IInv, TypeOK, QueueInv
<1>2. SUFFICES ASSUME dist[g.sink] = -1, NEW a \in Edges(g),
                      dist[g.src[a]] # -1, dist[g.dst[a]] = -1
               PROVE  flow[a] = g.capacity[a]
  BY <1>1
<1>3. /\ g.src[a] \in Nodes(g) /\ g.capacity[a] \in Nat /\ flow[a] \in Int
      /\ flow[a] <= g.capacity[a]
  BY <1>1, SlotFacts DEF IInv, FlowIsFeasible, CapacityOK
<1>4. head = Len(queue)
  BY <1>2 DEF SearchEnded
<1>5. IsTaken(g.src[a])
  <2>1. PICK k \in DOMAIN queue : queue[k] = g.src[a]
    BY <1>2, <1>3 DEF IInv, QueueInv
  <2> QED
    BY <1>1, <1>4, <2>1 DEF IsTaken
<1>6. ~(Residual(g, flow, a) > 0)
  BY <1>2, <1>5 DEF IInv, CutInv, ResidualEdges
<1> QED
  BY <1>3, <1>6 DEF Residual

LEMMA BuildEndKeeps == IInv /\ BuildEnd => IInv'
<1> SUFFICES ASSUME IInv, BuildEnd PROVE IInv'
  OBVIOUS
<1>1. /\ pc = "bfs" /\ pc' \in {"tide", "done"}
      /\ pc' = "done" => dist[g.sink] = -1
      /\ UNCHANGED <<g, maxFlow, flow, dist, queue, head, levelEnd, u, e, levelEdges>>
      /\ UNCHANGED <<idx, write, reach, h, p, l, sent>>
  BY DEF BuildEnd, callVars, searchVars, pruneVars, tideVars
<1>2. TypeOK' /\ FlowIsFeasible' /\ BuffersSuffice'
  BY <1>1 DEF IInv, TypeOK, Labels, FlowIsFeasible, CapacityOK, SkewSymmetry, BuffersSuffice
<1>3. QueueInv' /\ LevelInv' /\ ScanInv' /\ NoRepeatInv' /\ PromiseInv' /\ LowTideBound'
  BY <1>1 DEF IInv, QueueInv, LevelInv, ScanInv, NoRepeatInv, PromiseInv, LowTideBound,
              HasNoRepeats, Live, Promised
<1>4. CutInv' /\ OrderInv' /\ FrontierInv' /\ ReachInv' /\ KeptInv'
  BY <1>1 DEF CutInv, OrderInv, FrontierInv, ReachInv, KeptInv
<1>5. CutCertificate'
  BY <1>1, SearchEndFacts DEF BuildEnd, CutCertificate
<1> QED
  BY <1>2, <1>3, <1>4, <1>5 DEF IInv

-------------------------------------------------------------------------------
(* Pruning.                                                                *)

LEMMA PruneStartKeeps == IInv /\ PruneStart => IInv'
<1> SUFFICES ASSUME IInv, PruneStart PROVE IInv'
  OBVIOUS
<1>1. /\ pc = "bfs" /\ pc' \in {"reach", "done"}
      /\ pc' = "reach" => dist[g.sink] # -1
      /\ pc' = "done" => dist[g.sink] = -1
      /\ pc' = "reach" => reach' = {g.sink} /\ idx' = Len(levelEdges)
      /\ pc' = "done" => UNCHANGED <<reach, idx>>
      /\ UNCHANGED <<g, maxFlow, flow, dist, queue, head, levelEnd, u, e, levelEdges>>
      /\ UNCHANGED <<write, h, p, l, sent>>
  BY DEF PruneStart, callVars, searchVars, tideVars
<1>2. TypeOK'
  <2>1. g.sink \in Nodes(g) /\ Len(levelEdges) \in Nat
    BY DEF IInv, TypeOK, IsCase
  <2>2. pc' \in Labels /\ reach' \subseteq Nodes(g) /\ idx' \in Nat
    BY <1>1, <2>1 DEF IInv, TypeOK, Labels
  <2> QED
    BY <1>1, <2>2 DEF IInv, TypeOK
<1>3. FlowIsFeasible' /\ BuffersSuffice'
  BY <1>1 DEF IInv, FlowIsFeasible, CapacityOK, SkewSymmetry, BuffersSuffice
<1>4. QueueInv' /\ LevelInv' /\ ScanInv' /\ NoRepeatInv' /\ LowTideBound'
  BY <1>1 DEF IInv, QueueInv, LevelInv, ScanInv, NoRepeatInv, LowTideBound,
              HasNoRepeats, Live
<1>5. PromiseInv'
  <2>1. Len(levelEdges) \in Nat
    BY DEF IInv, TypeOK
  <2> QED
    BY <1>1, <2>1 DEF PromiseInv, Promised
<1>6. CutInv' /\ OrderInv' /\ FrontierInv' /\ KeptInv'
  BY <1>1 DEF IInv, CutInv, OrderInv, FrontierInv, KeptInv
<1>7. ReachInv'
  <2>1. /\ Len(levelEdges) \in Nat
        /\ pc' = "reach" => (idx' + 1) .. Len(levelEdges) = {}
        /\ DOMAIN levelEdges = 1 .. Len(levelEdges)
    BY <1>1 DEF IInv, TypeOK
  <2>2. g.sink \in Nodes(g) /\ g.sink # g.source /\ dist[g.sink] \in Nat \cup {-1}
    BY DEF IInv, TypeOK, IsCase
  <2>3. pc' = "reach" => \E i \in 1 .. idx' : g.dst[levelEdges[i]] = g.sink
    BY <1>1, <2>1, <2>2 DEF IInv, OrderInv
  <2> QED
    BY <1>1, <2>1, <2>3 DEF ReachInv
<1>8. CutCertificate'
  BY <1>1, SearchEndFacts DEF PruneStart, CutCertificate
<1> QED
  BY <1>2, <1>3, <1>4, <1>5, <1>6, <1>7, <1>8 DEF IInv

LEMMA MarkReachKeeps == IInv /\ MarkReach => IInv'
<1> SUFFICES ASSUME IInv, MarkReach PROVE IInv'
  OBVIOUS
<1> DEFINE a == levelEdges[idx]
<1>1. /\ pc = "reach" /\ pc' = pc /\ idx' = idx - 1 /\ idx > 0
      /\ reach' = IF g.dst[a] \in reach THEN reach \cup {g.src[a]} ELSE reach
      /\ UNCHANGED <<g, maxFlow, flow, dist, queue, head, levelEnd, u, e, levelEdges>>
      /\ UNCHANGED <<write, h, p, l, sent>>
  BY DEF MarkReach, callVars, searchVars, tideVars
<1>2. /\ idx \in Nat /\ idx \in DOMAIN levelEdges /\ Len(levelEdges) \in Nat
      /\ DOMAIN levelEdges = 1 .. Len(levelEdges)
  BY <1>1 DEF IInv, TypeOK, PromiseInv
<1>3. a \in Edges(g) /\ g.src[a] \in Nodes(g) /\ g.dst[a] \in Nodes(g)
  BY <1>2, LevelEdgeFacts
<1>4. TypeOK'
  <2>1. reach' \subseteq Nodes(g) /\ idx' \in Nat
    BY <1>1, <1>2, <1>3 DEF IInv, TypeOK
  <2> QED
    BY <1>1, <2>1 DEF IInv, TypeOK
<1>5. FlowIsFeasible' /\ BuffersSuffice'
  BY <1>1 DEF IInv, FlowIsFeasible, CapacityOK, SkewSymmetry, BuffersSuffice
<1>6. QueueInv' /\ LevelInv' /\ ScanInv' /\ NoRepeatInv' /\ LowTideBound' /\ CutCertificate'
  BY <1>1 DEF IInv, QueueInv, LevelInv, ScanInv, NoRepeatInv, LowTideBound,
              HasNoRepeats, Live, CutCertificate
<1>7. PromiseInv'
  BY <1>1, <1>2 DEF PromiseInv, Promised
<1>8. CutInv' /\ OrderInv' /\ FrontierInv' /\ KeptInv'
  BY <1>1 DEF IInv, CutInv, OrderInv, FrontierInv, KeptInv
<1>9. /\ reach \subseteq reach'
      /\ \A x \in reach' : x \in reach \/ (x = g.src[a] /\ g.dst[a] \in reach)
  BY <1>1
<1>10. \A x \in reach' : \/ x = g.sink
                         \/ \E i \in (idx' + 1) .. Len(levelEdges) :
                               g.src[levelEdges[i]] = x /\ g.dst[levelEdges[i]] \in reach'
  <2> SUFFICES ASSUME NEW x \in reach', x # g.sink
               PROVE  \E i \in (idx' + 1) .. Len(levelEdges) :
                         g.src[levelEdges[i]] = x /\ g.dst[levelEdges[i]] \in reach'
    OBVIOUS
  <2>1. CASE x \in reach
    <3>1. PICK i \in (idx + 1) .. Len(levelEdges) :
             g.src[levelEdges[i]] = x /\ g.dst[levelEdges[i]] \in reach
      BY <1>1, <2>1 DEF IInv, ReachInv
    <3>2. i \in (idx' + 1) .. Len(levelEdges)
      BY <1>1, <1>2
    <3> QED
      BY <1>9, <3>1, <3>2
  <2>2. CASE x = g.src[a] /\ g.dst[a] \in reach
    <3>1. idx \in (idx' + 1) .. Len(levelEdges)
      BY <1>1, <1>2
    <3> QED
      BY <1>9, <2>2, <3>1
  <2> QED
    BY <1>9, <2>1, <2>2
<1>11. ASSUME NEW i \in (idx' + 1) .. Len(levelEdges), g.dst[levelEdges[i]] \in reach'
       PROVE  g.src[levelEdges[i]] \in reach'
  <2>1. i \in DOMAIN levelEdges /\ (i = idx \/ (i > idx /\ i \in (idx + 1) .. Len(levelEdges)))
    BY <1>1, <1>2
  <2>2. /\ g.src[levelEdges[i]] \in Nodes(g) /\ g.dst[levelEdges[i]] \in Nodes(g)
        /\ dist[g.src[levelEdges[i]]] \in Nat
        /\ dist[g.dst[levelEdges[i]]] = dist[g.src[levelEdges[i]]] + 1
    <3>1. g.src[levelEdges[i]] \in Nodes(g) /\ g.dst[levelEdges[i]] \in Nodes(g)
      BY <2>1, LevelEdgeFacts
    <3> QED
      BY <2>1, <3>1 DEF IInv, TypeOK, LevelInv
  <2>3. CASE g.dst[levelEdges[i]] \in reach /\ i = idx
    BY <1>1, <2>3
  <2>4. CASE g.dst[levelEdges[i]] \in reach /\ i > idx
    BY <1>1, <1>2, <1>9, <2>1, <2>4 DEF IInv, ReachInv
  <2>5. CASE g.dst[levelEdges[i]] = g.src[a]
    <3>1. dist[g.src[a]] <= dist[g.src[levelEdges[i]]]
      BY <1>1, <1>2, <2>1 DEF IInv, OrderInv
    <3> QED
      BY <2>2, <2>5, <3>1
  <2> QED
    BY <1>9, <1>11, <2>1, <2>3, <2>4, <2>5
<1>13. \E x \in reach' : \/ x = g.source
                        \/ \E i \in 1 .. idx' : g.dst[levelEdges[i]] = x
  <2>1. PICK x \in reach : x = g.source \/ \E i \in 1 .. idx : g.dst[levelEdges[i]] = x
    BY <1>1 DEF IInv, ReachInv
  <2>2. CASE x = g.source
    BY <1>9, <2>2
  <2>3. ASSUME NEW i \in 1 .. idx, g.dst[levelEdges[i]] = x, i # idx
        PROVE  \E j \in 1 .. idx' : g.dst[levelEdges[j]] = x
    <3>1. i \in 1 .. idx'
      BY <1>1, <1>2, <2>3
    <3> QED
      BY <2>3, <3>1
  <2>4. CASE g.dst[a] = x
    <3>1. g.src[a] \in reach'
      BY <1>1, <2>4
    <3>2. /\ dist[g.src[a]] \in Nat
          /\ dist[g.src[a]] = 0 => g.src[a] = g.source
      <4>1. dist[g.src[a]] # -1 /\ dist[g.src[a]] \in Nat \cup {-1}
        BY <1>2, <1>3 DEF IInv, TypeOK, LevelInv
      <4>2. dist[g.src[a]] = 0 => g.src[a] = g.source
        BY <1>1, <1>3 DEF IInv, OrderInv
      <4> QED
        BY <4>1, <4>2
    <3>3. ASSUME dist[g.src[a]] > 0
          PROVE  \E j \in 1 .. idx' : g.dst[levelEdges[j]] = g.src[a]
      <4>1. PICK j \in DOMAIN levelEdges : g.dst[levelEdges[j]] = g.src[a]
        BY <1>1, <1>3, <3>3 DEF IInv, OrderInv
      <4>2. g.src[levelEdges[j]] \in Nodes(g)
        BY LevelEdgeFacts
      <4>3. /\ dist[g.src[levelEdges[j]]] \in Nat
            /\ dist[g.src[a]] = dist[g.src[levelEdges[j]]] + 1
        BY <4>1, <4>2 DEF IInv, TypeOK, LevelInv
      <4>4. idx <= j => dist[g.src[a]] <= dist[g.src[levelEdges[j]]]
        BY <1>1, <1>2 DEF IInv, OrderInv
      <4>5. j \in 1 .. idx'
        BY <1>1, <1>2, <3>2, <4>3, <4>4
      <4> QED
        BY <4>1, <4>5
    <3> QED
      BY <3>1, <3>2, <3>3
  <2> QED
    BY <1>9, <2>1, <2>2, <2>3, <2>4
<1>12. ReachInv'
  BY <1>1, <1>9, <1>10, <1>11, <1>13 DEF IInv, ReachInv
<1> QED
  BY <1>4, <1>5, <1>6, <1>7, <1>8, <1>12 DEF IInv

LEMMA MarkEndKeeps == IInv /\ MarkEnd => IInv'
<1> SUFFICES ASSUME IInv, MarkEnd PROVE IInv'
  OBVIOUS
<1>1. /\ pc = "reach" /\ idx = 0 /\ idx' = 1 /\ write' = 0 /\ pc' = "compact"
      /\ UNCHANGED <<g, maxFlow, flow, dist, queue, head, levelEnd, u, e, levelEdges>>
      /\ UNCHANGED <<reach, h, p, l, sent>>
  BY DEF MarkEnd, callVars, searchVars, tideVars
<1>2. TypeOK' /\ FlowIsFeasible' /\ BuffersSuffice'
  BY <1>1 DEF IInv, TypeOK, Labels, FlowIsFeasible, CapacityOK, SkewSymmetry, BuffersSuffice
<1>3. QueueInv' /\ LevelInv' /\ ScanInv' /\ PromiseInv' /\ LowTideBound' /\ CutCertificate'
  BY <1>1 DEF IInv, QueueInv, LevelInv, ScanInv, PromiseInv, LowTideBound,
              HasNoRepeats, Promised, CutCertificate
<1>4. NoRepeatInv'
  <2>1. DOMAIN levelEdges = 1 .. Len(levelEdges) /\ Len(levelEdges) \in Nat
    BY LevelEdgesAreSequence
  <2>2. Live' = DOMAIN levelEdges /\ Live = DOMAIN levelEdges
    BY <1>1, <2>1 DEF Live
  <2> QED
    BY <1>1, <2>1, <2>2 DEF IInv, NoRepeatInv
<1>5. CutInv' /\ OrderInv' /\ FrontierInv' /\ ReachInv'
  BY <1>1 DEF CutInv, OrderInv, FrontierInv, ReachInv
<1>6. KeptInv'
  <2>1. g.source \in reach /\ g.source # g.sink
    BY <1>1 DEF IInv, TypeOK, IsCase, ReachInv
  <2>2. PICK i \in 1 .. Len(levelEdges) :
           g.src[levelEdges[i]] = g.source /\ g.dst[levelEdges[i]] \in reach
    BY <1>1, <2>1 DEF IInv, ReachInv
  <2> QED
    BY <1>1, <2>1, <2>2 DEF KeptInv, IsKept
<1> QED
  BY <1>2, <1>3, <1>4, <1>5, <1>6 DEF IInv

\* Whatever the solver does to p[] besides, as long as it stays typed.
LEMMA CompactKeeps ==
  ASSUME IInv, Compact, p' \in [1 .. g.edgeCount -> Nat]
  PROVE  IInv'
<1> DEFINE a == levelEdges[idx]
<1> DEFINE n == Len(levelEdges)
<1>1. /\ pc = "compact" /\ pc' = pc /\ idx <= n /\ idx' = idx + 1
      /\ \/ IsKept(a) /\ levelEdges' = [levelEdges EXCEPT ![write + 1] = a] /\ write' = write + 1
         \/ ~IsKept(a) /\ levelEdges' = levelEdges /\ write' = write
      /\ UNCHANGED <<g, maxFlow, flow, dist, queue, head, levelEnd, u, e>>
      /\ UNCHANGED <<reach, h, l, sent>>
  BY DEF Compact, callVars, searchVars
<1>2. /\ n \in Nat /\ idx \in 1 .. n /\ write \in Nat /\ write < idx
      /\ levelEdges \in Seq(Edges(g)) /\ DOMAIN levelEdges = 1 .. n
      /\ a \in Edges(g)
  BY <1>1, SMTT(30) DEF IInv, TypeOK, NoRepeatInv
<1>3. /\ Len(levelEdges') = n /\ DOMAIN levelEdges' = 1 .. n
      /\ levelEdges' \in Seq(Edges(g)) /\ write' \in Nat /\ write' <= idx
      /\ \A i \in 1 .. n : i # write' => levelEdges'[i] = levelEdges[i]
      /\ write' # write => IsKept(a) /\ write' = write + 1 /\ levelEdges'[write'] = a
      /\ levelEdges' # levelEdges => write' # write
  BY <1>1, <1>2, SMTT(30)
<1>4. \A i \in 1 .. n : \E j \in 1 .. n : levelEdges'[i] = levelEdges[j]
  BY <1>2, <1>3
<1>5. TypeOK'
  <2>1. idx' \in Nat /\ levelEdges' \in Seq(Edges(g)) /\ write' \in Nat /\ pc' \in Labels
    BY <1>1, <1>2, <1>3 DEF Labels
  <2>2. /\ UNCHANGED <<g, maxFlow, flow, dist, queue, head, levelEnd, u, e>>
        /\ UNCHANGED <<reach, h, l, sent>>
    BY <1>1
  <2> QED
    BY <2>1, <2>2 DEF IInv, TypeOK
<1>6. FlowIsFeasible' /\ BuffersSuffice' /\ QueueInv' /\ LowTideBound' /\ CutCertificate'
  BY <1>1, <1>3 DEF IInv, FlowIsFeasible, CapacityOK, SkewSymmetry, BuffersSuffice,
                    QueueInv, HasNoRepeats, LowTideBound, CutCertificate
<1>7. LevelInv'
  <2>1. \A j \in 1 .. n : /\ dist[g.src[levelEdges[j]]] # -1
                         /\ dist[g.dst[levelEdges[j]]] = dist[g.src[levelEdges[j]]] + 1
    BY <1>2 DEF IInv, LevelInv
  <2>2. \A i \in 1 .. n : /\ dist[g.src[levelEdges'[i]]] # -1
                         /\ dist[g.dst[levelEdges'[i]]] = dist[g.src[levelEdges'[i]]] + 1
    <3> TAKE i \in 1 .. n
    <3>1. PICK j \in 1 .. n : levelEdges'[i] = levelEdges[j]
      BY <1>4
    <3> QED
      BY <2>1, <3>1
  <2>3. UNCHANGED <<g, dist>> /\ DOMAIN levelEdges' = 1 .. n
    BY <1>1, <1>3
  <2> QED
    BY <2>2, <2>3 DEF LevelInv
<1>8. ScanInv' /\ PromiseInv' /\ CutInv' /\ OrderInv' /\ FrontierInv' /\ ReachInv'
  BY <1>1 DEF ScanInv, PromiseInv, Promised, CutInv, OrderInv, FrontierInv, ReachInv
<1>9. NoRepeatInv'
  <2>1. /\ Live = (1 .. write) \cup (idx .. n)
        /\ Live' = (1 .. write') \cup ((idx + 1) .. n)
    BY <1>1, <1>3 DEF Live
  <2>2. \A i \in Live' : \/ i \in Live \ {idx} /\ i # write' /\ levelEdges'[i] = levelEdges[i]
                         \/ i \in Live /\ i # idx /\ i = write /\ write' = write
                              /\ levelEdges'[i] = levelEdges[i]
                         \/ i = write' /\ write' # write /\ levelEdges'[i] = levelEdges[idx]
    BY <1>1, <1>2, <1>3, <2>1
  <2>3. idx \in Live
    BY <1>2, <2>1
  <2>4. \A i, j \in Live : levelEdges[i] = levelEdges[j] => i = j
    BY DEF IInv, NoRepeatInv
  <2>5. \A i, j \in Live' : levelEdges'[i] = levelEdges'[j] => i = j
    BY <2>2, <2>3, <2>4
  <2> QED
    BY <1>1, <1>2, <1>3, <2>5 DEF NoRepeatInv
<1>10. KeptInv'
  <2>1. g.source \in reach
    BY <1>1 DEF IInv, KeptInv
  <2>2. CASE IsKept(a)
    BY <1>1, <1>2, <2>1, <2>2 DEF KeptInv
  <2>3. CASE ~IsKept(a)
    <3>1. write > 0 \/ \E i \in idx .. n : IsKept(levelEdges[i])
      BY <1>1 DEF IInv, KeptInv
    <3>2. CASE write > 0
      BY <1>1, <2>1, <2>3, <3>2 DEF KeptInv
    <3>3. ASSUME NEW i \in idx .. n, IsKept(levelEdges[i])
          PROVE  i \in idx' .. n
      BY <1>1, <1>2, <2>3, <3>3
    <3> QED
      BY <1>1, <2>1, <2>3, <3>1, <3>2, <3>3 DEF KeptInv, IsKept
  <2> QED
    BY <2>2, <2>3
<1> QED
  BY <1>5, <1>6, <1>7, <1>8, <1>9, <1>10 DEF IInv

\* Since an edge has been kept, the pruned level graph is never empty.
LEMMA CompactEndFacts ==
  ASSUME IInv, CompactEnd
  PROVE  /\ pc' = "tide"
         /\ write \in 1 .. Len(levelEdges)
         /\ levelEdges' \in Seq(Edges(g))
         /\ Len(levelEdges') = write
         /\ \A i \in 1 .. write : i \in DOMAIN levelEdges /\ levelEdges'[i] = levelEdges[i]
<1>1. /\ pc = "compact" /\ idx > Len(levelEdges) /\ levelEdges' = SubSeq(levelEdges, 1, write)
      /\ pc' = IF write > 0 /\ g.source \in reach THEN "tide" ELSE "done"
  BY DEF CompactEnd
<1>2. /\ levelEdges \in Seq(Edges(g)) /\ Len(levelEdges) \in Nat /\ write \in Nat /\ idx \in Nat
      /\ write < idx /\ idx <= Len(levelEdges) + 1
  BY <1>1 DEF IInv, TypeOK, NoRepeatInv
<1>3. idx .. Len(levelEdges) = {}
  BY <1>1, <1>2
<1>4. write > 0 /\ g.source \in reach
  BY <1>1, <1>3 DEF IInv, KeptInv
<1> QED
  BY <1>1, <1>2, <1>4

LEMMA CompactEndKeeps == IInv /\ CompactEnd => IInv'
<1> SUFFICES ASSUME IInv, CompactEnd PROVE IInv'
  OBVIOUS
<1>1. /\ pc = "compact"
      /\ UNCHANGED <<g, maxFlow, flow, dist, queue, head, levelEnd, u, e>>
      /\ UNCHANGED <<idx, write, reach, h, p, l, sent>>
  BY DEF CompactEnd, callVars, searchVars, pruneVars, tideVars
<1>2. /\ pc' = "tide" /\ write \in 1 .. Len(levelEdges) /\ Len(levelEdges) \in Nat
      /\ levelEdges' \in Seq(Edges(g)) /\ Len(levelEdges') = write
      /\ DOMAIN levelEdges' = 1 .. write
      /\ \A i \in 1 .. write : i \in DOMAIN levelEdges /\ levelEdges'[i] = levelEdges[i]
  <2>1. levelEdges' \in Seq(Edges(g)) => DOMAIN levelEdges' = 1 .. Len(levelEdges')
    OBVIOUS
  <2>2. Len(levelEdges) \in Nat
    BY DEF IInv, TypeOK
  <2> QED
    BY <2>1, <2>2, CompactEndFacts
<1>3. TypeOK'
  BY <1>1, <1>2 DEF IInv, TypeOK, Labels
<1>4. FlowIsFeasible' /\ QueueInv' /\ LowTideBound' /\ CutCertificate'
  BY <1>1, <1>2 DEF IInv, FlowIsFeasible, CapacityOK, SkewSymmetry, QueueInv, HasNoRepeats,
                    LowTideBound, CutCertificate
<1>5. BuffersSuffice'
  <2>1. g.edgeCount \in Nat /\ Len(levelEdges) <= g.edgeCount /\ Len(queue) <= g.nodeCount
    BY DEF IInv, TypeOK, IsCase, BuffersSuffice
  <2> QED
    BY <1>1, <1>2, <2>1 DEF BuffersSuffice
<1>6. LevelInv'
  BY <1>1, <1>2 DEF IInv, LevelInv
<1>7. NoRepeatInv'
  BY <1>1, <1>2 DEF IInv, NoRepeatInv, Live
<1>8. ScanInv' /\ PromiseInv' /\ CutInv' /\ OrderInv' /\ FrontierInv' /\ ReachInv' /\ KeptInv'
  BY <1>1, <1>2 DEF ScanInv, PromiseInv, Promised, CutInv, OrderInv, FrontierInv, ReachInv,
                    KeptInv
<1> QED
  BY <1>3, <1>4, <1>5, <1>6, <1>7, <1>8 DEF IInv

-------------------------------------------------------------------------------
(* The tide cycle and the drivers.                                         *)

\* A step between the searches keeps what the invariant says of the searches.
LEMMA SearchFrame ==
  ASSUME IInv,
         pc \in {"tide", "high", "low", "erosion", "returned"},
         pc' \in {"tide", "high", "low", "erosion", "returned", "build"},
         UNCHANGED <<g, dist, queue, head, levelEnd, u, e, levelEdges, write, reach>>
  PROVE  /\ BuffersSuffice' /\ QueueInv' /\ LevelInv' /\ ScanInv' /\ NoRepeatInv' /\ CutInv'
         /\ OrderInv' /\ FrontierInv' /\ ReachInv' /\ KeptInv' /\ CutCertificate'
<1>1. BuffersSuffice' /\ LevelInv'
  BY DEF IInv, BuffersSuffice, LevelInv
<1>2. QueueInv'
  BY DEF IInv, QueueInv, HasNoRepeats
<1>3. NoRepeatInv'
  BY DEF IInv, NoRepeatInv, Live
<1>4. /\ ScanInv' /\ CutInv' /\ OrderInv' /\ FrontierInv' /\ ReachInv' /\ KeptInv'
      /\ CutCertificate'
  BY DEF ScanInv, CutInv, OrderInv, FrontierInv, ReachInv, KeptInv, CutCertificate
<1> QED
  BY <1>1, <1>2, <1>3, <1>4

LEMMA TideStartKeeps == IInv /\ TideStart => IInv'
<1> SUFFICES ASSUME IInv, TideStart PROVE IInv'
  OBVIOUS
<1>1. /\ pc = "tide" /\ pc' = "high" /\ idx' = 1
      /\ h' = [x \in Nodes(g) |-> IF x = g.source THEN LLongMax ELSE 0]
      /\ l' = [x \in Nodes(g) |-> 0]
      /\ UNCHANGED <<g, maxFlow, flow, dist, queue, head, levelEnd, u, e, levelEdges>>
      /\ UNCHANGED <<write, reach, p, sent>>
  BY DEF TideStart, callVars, searchVars, pruneVars
<1>2. TypeOK'
  <2>1. h' \in [Nodes(g) -> Nat] /\ l' \in [Nodes(g) -> Nat]
    BY <1>1, IntAssumption, WidthsAssumption
  <2> QED
    BY <1>1, <2>1 DEF IInv, TypeOK, Labels
<1>3. FlowIsFeasible' /\ LowTideBound'
  BY <1>1 DEF IInv, FlowIsFeasible, CapacityOK, SkewSymmetry, LowTideBound
<1>4. PromiseInv'
  <2>1. Len(levelEdges) \in Nat
    BY DEF IInv, TypeOK
  <2> QED
    BY <1>1, <2>1 DEF PromiseInv, Promised
<1> QED
  BY <1>1, <1>2, <1>3, <1>4, SearchFrame DEF IInv

LEMMA HighTideKeeps == IInv /\ HighTide => IInv'
<1> SUFFICES ASSUME IInv, HighTide PROVE IInv'
  OBVIOUS
<1> DEFINE a == levelEdges[idx]
<1>1. /\ pc = "high" /\ pc' = pc /\ idx' = idx + 1 /\ idx <= Len(levelEdges)
      /\ p' = [p EXCEPT ![idx] = Promise(a)]
      /\ h' = [h EXCEPT ![g.dst[a]] = @ + Promise(a)]
      /\ UNCHANGED <<g, maxFlow, flow, dist, queue, head, levelEnd, u, e, levelEdges>>
      /\ UNCHANGED <<write, reach, l, sent>>
  BY DEF HighTide, callVars, searchVars, pruneVars
<1>2. /\ Len(levelEdges) \in Nat /\ idx \in DOMAIN levelEdges /\ idx \in 1 .. Len(levelEdges)
      /\ DOMAIN levelEdges = 1 .. Len(levelEdges)
  BY <1>1 DEF IInv, TypeOK, PromiseInv
<1>3. /\ a \in Edges(g) /\ g.src[a] \in Nodes(g) /\ g.dst[a] \in Nodes(g)
      /\ idx \in 1 .. g.edgeCount
  BY <1>2, LevelEdgeFacts
<1>4. Residual(g, flow, a) \in Nat
  BY <1>3, ResidualFacts
<1>5. /\ h \in [Nodes(g) -> Nat] /\ h[g.src[a]] \in Nat
      /\ p \in [1 .. g.edgeCount -> Nat]
  BY <1>3 DEF IInv, TypeOK
<1>6. Promise(a) \in Nat /\ Promise(a) <= Residual(g, flow, a)
  BY <1>4, <1>5 DEF Promise, Lesser
<1>7. TypeOK'
  <2>1. h' \in [Nodes(g) -> Nat] /\ p' \in [1 .. g.edgeCount -> Nat]
    BY <1>1, <1>3, <1>5, <1>6
  <2> QED
    BY <1>1, <1>2, <2>1, SMTT(30) DEF IInv, TypeOK
<1>8. FlowIsFeasible' /\ LowTideBound'
  BY <1>1 DEF IInv, FlowIsFeasible, CapacityOK, SkewSymmetry, LowTideBound
<1>9. PromiseInv'
  <2>1. Promised = 1 .. (idx - 1) /\ Promised' = 1 .. idx
    BY <1>1, <1>2 DEF Promised
  <2>2. \A i \in 1 .. idx : p'[i] <= Residual(g, flow, levelEdges[i])
    <3> SUFFICES ASSUME NEW i \in 1 .. idx PROVE p'[i] <= Residual(g, flow, levelEdges[i])
      OBVIOUS
    <3>1. CASE i = idx
      BY <1>1, <1>3, <1>5, <1>6, <3>1
    <3>2. CASE i # idx
      <4>1. i \in Promised /\ p'[i] = p[i]
        BY <1>1, <1>2, <1>5, <2>1, <3>2
      <4> QED
        BY <4>1 DEF IInv, PromiseInv
    <3> QED
      BY <3>1, <3>2
  <2>3. idx' \in 1 .. (Len(levelEdges) + 1) /\ \A x \in Nodes(g) : l[x] = 0
    BY <1>1, <1>2 DEF IInv, PromiseInv
  <2> QED
    BY <1>1, <2>1, <2>2, <2>3 DEF PromiseInv, Residual
<1> QED
  BY <1>1, <1>7, <1>8, <1>9, SearchFrame DEF IInv

LEMMA HighTideEndKeeps == IInv /\ HighTideEnd => IInv'
<1> SUFFICES ASSUME IInv, HighTideEnd PROVE IInv'
  OBVIOUS
<1>1. /\ pc = "high" /\ pc' \in {"low", "returned"} /\ idx > Len(levelEdges)
      /\ idx' = Len(levelEdges)
      /\ sent' \in {0, sent}
      /\ l' \in {l, [l EXCEPT ![g.sink] = h[g.sink]]}
      /\ UNCHANGED <<g, maxFlow, flow, dist, queue, head, levelEnd, u, e, levelEdges>>
      /\ UNCHANGED <<write, reach, h, p>>
  BY DEF HighTideEnd, callVars, searchVars, pruneVars
<1>2. /\ h \in [Nodes(g) -> Nat] /\ l \in [Nodes(g) -> Nat] /\ g.sink \in Nodes(g)
      /\ Len(levelEdges) \in Nat /\ DOMAIN levelEdges = 1 .. Len(levelEdges)
      /\ \A x \in Nodes(g) : l[x] = 0
      /\ idx \in 1 .. (Len(levelEdges) + 1)
  BY <1>1 DEF IInv, TypeOK, IsCase, PromiseInv
<1>3. TypeOK'
  <2>1. l' \in [Nodes(g) -> Nat] /\ sent' \in Nat /\ idx' \in Nat /\ pc' \in Labels
    BY <1>1, <1>2 DEF IInv, TypeOK, Labels
  <2> QED
    BY <1>1, <2>1 DEF IInv, TypeOK
<1>4. FlowIsFeasible'
  BY <1>1 DEF IInv, FlowIsFeasible, CapacityOK, SkewSymmetry
<1>5. LowTideBound'
  <2>1. \A x \in Nodes(g) : l'[x] \in {0, h[x]}
    BY <1>1, <1>2
  <2> QED
    BY <1>1, <1>2, <2>1 DEF LowTideBound
<1>6. PromiseInv'
  <2>1. Promised = DOMAIN levelEdges /\ Promised' \in {DOMAIN levelEdges, {}}
    BY <1>1, <1>2 DEF Promised
  <2> QED
    BY <1>1, <1>2, <2>1 DEF IInv, PromiseInv, Residual
<1> QED
  BY <1>1, <1>3, <1>4, <1>5, <1>6, SearchFrame DEF IInv

\* What is pulled back is at most what the promise, the spare and the demand allow.
\* What a step of the low tide does to the edge at idx and to its two nodes.
LowTideStep(a, x, y, pushed) ==
  /\ a = levelEdges[idx]
  /\ x = g.src[a]
  /\ y = g.dst[a]
  /\ pushed = Pullback(idx)
  /\ pc = "low" /\ pc' = pc /\ idx > 0 /\ idx' = idx - 1
  /\ p' = [p EXCEPT ![idx] = pushed]
  /\ UNCHANGED <<g, maxFlow, flow, dist, queue, head, levelEnd, u, e, levelEdges>>
  /\ UNCHANGED <<write, reach, h, sent>>
  /\ Len(levelEdges) \in Nat /\ idx \in DOMAIN levelEdges /\ idx \in 1 .. Len(levelEdges)
  /\ DOMAIN levelEdges = 1 .. Len(levelEdges)
  /\ a \in Edges(g) /\ x \in Nodes(g) /\ y \in Nodes(g) /\ x # y
  /\ idx \in 1 .. g.edgeCount
  /\ h \in [Nodes(g) -> Nat] /\ l \in [Nodes(g) -> Nat] /\ p \in [1 .. g.edgeCount -> Nat]
  /\ h[x] \in Nat /\ l[x] \in Nat /\ l[y] \in Nat /\ p[idx] \in Nat /\ l[x] <= h[x]
  /\ pushed \in Nat /\ pushed <= p[idx] /\ pushed <= h[x] - l[x] /\ pushed <= l[y]
  /\ pushed \in {p[idx], h[x] - l[x], l[y]}
  /\ l' \in [Nodes(g) -> Nat] /\ p' \in [1 .. g.edgeCount -> Nat]
  /\ \A z \in Nodes(g) : l'[z] = CASE z = x -> l[x] + pushed
                                   [] z = y -> l[y] - pushed
                                   [] OTHER -> l[z]

LEMMA LowTideFacts ==
  ASSUME IInv, LowTide
  PROVE  \E a, x, y, pushed : LowTideStep(a, x, y, pushed)
<1> SUFFICES ASSUME NEW a, a = levelEdges[idx],
                    NEW x, x = g.src[a],
                    NEW y, y = g.dst[a],
                    NEW pushed, pushed = Pullback(idx)
             PROVE  LowTideStep(a, x, y, pushed)
  OBVIOUS
<1>1. /\ pc = "low" /\ pc' = pc /\ idx > 0 /\ idx' = idx - 1
      /\ p' = [p EXCEPT ![idx] = pushed]
      /\ l' = [[l EXCEPT ![y] = @ - pushed] EXCEPT ![x] = @ + pushed]
      /\ UNCHANGED <<g, maxFlow, flow, dist, queue, head, levelEnd, u, e, levelEdges>>
      /\ UNCHANGED <<write, reach, h, sent>>
  BY DEF LowTide, callVars, searchVars, pruneVars
<1>2. /\ Len(levelEdges) \in Nat /\ idx \in DOMAIN levelEdges /\ idx \in 1 .. Len(levelEdges)
      /\ DOMAIN levelEdges = 1 .. Len(levelEdges)
  BY <1>1 DEF IInv, TypeOK, PromiseInv
<1>3. /\ a \in Edges(g) /\ x \in Nodes(g) /\ y \in Nodes(g) /\ x # y
      /\ idx \in 1 .. g.edgeCount
  BY <1>2, LevelEdgeFacts
<1>4. /\ h \in [Nodes(g) -> Nat] /\ l \in [Nodes(g) -> Nat] /\ p \in [1 .. g.edgeCount -> Nat]
      /\ \A z \in Nodes(g) : l[z] <= h[z]
  BY <1>1 DEF IInv, TypeOK, LowTideBound
<1>5. /\ h[x] \in Nat /\ l[x] \in Nat /\ l[y] \in Nat /\ p[idx] \in Nat /\ l[x] <= h[x]
  BY <1>3, <1>4
<1>6. pushed \in Nat /\ pushed <= p[idx] /\ pushed <= h[x] - l[x] /\ pushed <= l[y]
      /\ pushed \in {p[idx], h[x] - l[x], l[y]}
  <2>1. pushed = Lesser(p[idx], Lesser(IF h[x] - l[x] < 0 THEN 0 ELSE h[x] - l[x], l[y]))
    BY DEF Pullback
  <2> DEFINE spare == IF h[x] - l[x] < 0 THEN 0 ELSE h[x] - l[x]
  <2>2. spare = h[x] - l[x] /\ spare \in Nat
    BY <1>5
  <2>3. Lesser(spare, l[y]) \in {spare, l[y]} /\ Lesser(spare, l[y]) <= spare
        /\ Lesser(spare, l[y]) <= l[y] /\ Lesser(spare, l[y]) \in Nat
    BY <1>5, <2>2, LesserFacts
  <2>4. PICK rest \in Nat : rest = Lesser(spare, l[y])
    BY <2>3
  <2>5. Lesser(p[idx], rest) \in {p[idx], rest} /\ Lesser(p[idx], rest) <= p[idx]
        /\ Lesser(p[idx], rest) <= rest /\ Lesser(p[idx], rest) \in Nat
    BY <1>5, LesserFacts
  <2>6. pushed = Lesser(p[idx], rest)
    BY <2>1, <2>4
  <2>7. /\ rest \in {h[x] - l[x], l[y]} /\ rest <= h[x] - l[x] /\ rest <= l[y]
    BY <2>2, <2>3, <2>4
  <2>8. PICK least : least = Lesser(p[idx], rest)
    OBVIOUS
  <2>9. least \in {p[idx], h[x] - l[x], l[y]} /\ least <= p[idx] /\ least <= rest /\ least \in Nat
    BY <2>5, <2>7, <2>8
  <2>10. pushed = least
    BY <2>6, <2>8
  <2> HIDE DEF spare
  <2>11. least <= h[x] - l[x] /\ least <= l[y]
    BY <1>5, <2>7, <2>9
  <2> QED
    BY <2>9, <2>10, <2>11
<1>7. /\ l' \in [Nodes(g) -> Nat] /\ p' \in [1 .. g.edgeCount -> Nat]
      /\ \A z \in Nodes(g) : l'[z] = CASE z = x -> l[x] + pushed
                                       [] z = y -> l[y] - pushed
                                       [] OTHER -> l[z]
  <2>1. l[y] - pushed \in Nat /\ l[x] + pushed \in Nat
    BY <1>5, <1>6
  <2>2. \A z \in Nodes(g) : l'[z] = IF z = x THEN l[x] + pushed
                                    ELSE IF z = y THEN l[y] - pushed ELSE l[z]
    BY <1>1, <1>3, <1>4
  <2>3. DOMAIN l' = Nodes(g) /\ l' = [z \in Nodes(g) |-> l'[z]]
    BY <1>1, <1>4
  <2>4. p' \in [1 .. g.edgeCount -> Nat]
    BY <1>1, <1>4, <1>6
  <2>5. \A z \in Nodes(g) : l'[z] \in Nat
    BY <1>4, <2>1, <2>2
  <2> QED
    BY <1>3, <2>2, <2>3, <2>4, <2>5
<1> QED
  BY <1>1, <1>2, <1>3, <1>4, <1>5, <1>6, <1>7 DEF LowTideStep

LEMMA LowTideKeeps == IInv /\ LowTide => IInv'
<1> SUFFICES ASSUME IInv, LowTide PROVE IInv'
  OBVIOUS
<1>0. PICK a, x, y, pushed : LowTideStep(a, x, y, pushed)
  BY LowTideFacts
<1>1. /\ pc = "low" /\ pc' = pc /\ idx > 0 /\ idx' = idx - 1
      /\ p' = [p EXCEPT ![idx] = pushed]
      /\ UNCHANGED <<g, maxFlow, flow, dist, queue, head, levelEnd, u, e, levelEdges>>
      /\ UNCHANGED <<write, reach, h, sent>>
  BY <1>0 DEF LowTideStep
<1>2. /\ Len(levelEdges) \in Nat /\ idx \in DOMAIN levelEdges /\ idx \in 1 .. Len(levelEdges)
      /\ DOMAIN levelEdges = 1 .. Len(levelEdges)
  BY <1>0 DEF LowTideStep
<1>3. /\ a \in Edges(g) /\ x \in Nodes(g) /\ y \in Nodes(g) /\ x # y
      /\ idx \in 1 .. g.edgeCount
  BY <1>0 DEF LowTideStep
<1>4. /\ h \in [Nodes(g) -> Nat] /\ l \in [Nodes(g) -> Nat] /\ p \in [1 .. g.edgeCount -> Nat]
      /\ \A z \in Nodes(g) : l[z] <= h[z]
  BY <1>1 DEF IInv, TypeOK, LowTideBound
<1>5. /\ h[x] \in Nat /\ l[x] \in Nat /\ l[y] \in Nat /\ p[idx] \in Nat /\ l[x] <= h[x]
  BY <1>0 DEF LowTideStep
<1>6. pushed \in Nat /\ pushed <= p[idx] /\ pushed <= h[x] - l[x] /\ pushed <= l[y]
  BY <1>0 DEF LowTideStep
<1>7. /\ l' \in [Nodes(g) -> Nat] /\ p' \in [1 .. g.edgeCount -> Nat]
      /\ \A z \in Nodes(g) : l'[z] = CASE z = x -> l[x] + pushed
                                       [] z = y -> l[y] - pushed
                                       [] OTHER -> l[z]
  BY <1>0 DEF LowTideStep
<1>8. TypeOK'
  <2>1. idx' \in Nat
    BY <1>1, <1>2
  <2> QED
    BY <1>1, <1>7, <2>1 DEF IInv, TypeOK
<1>9. FlowIsFeasible'
  BY <1>1 DEF IInv, FlowIsFeasible, CapacityOK, SkewSymmetry
<1>10. LowTideBound'
  <2>1. \A z \in Nodes(g) : l'[z] <= h[z]
    <3> SUFFICES ASSUME NEW z \in Nodes(g) PROVE l'[z] <= h[z]
      OBVIOUS
    <3>1. l[z] \in Nat /\ h[z] \in Nat /\ l[z] <= h[z]
      BY <1>4
    <3> QED
      BY <1>3, <1>5, <1>6, <1>7, <3>1, SMTT(30)
  <2> QED
    BY <1>1, <2>1 DEF LowTideBound
<1>11. PromiseInv'
  <2>1. Promised = DOMAIN levelEdges /\ Promised' = DOMAIN levelEdges
    BY <1>1 DEF Promised
  <2>2. \A i \in DOMAIN levelEdges : p'[i] <= Residual(g, flow, levelEdges[i])
    <3> SUFFICES ASSUME NEW i \in DOMAIN levelEdges
                 PROVE  p'[i] <= Residual(g, flow, levelEdges[i])
      OBVIOUS
    <3>1. /\ p[i] <= Residual(g, flow, levelEdges[i]) /\ p[i] \in Nat
          /\ Residual(g, flow, levelEdges[i]) \in Nat
      BY <1>4, <2>1, LevelEdgeFacts, ResidualFacts DEF IInv, PromiseInv
    <3>2. p'[i] = IF i = idx THEN pushed ELSE p[i]
      BY <1>1, <1>4, LevelEdgeFacts
    <3> QED
      BY <1>6, <3>1, <3>2
  <2> QED
    BY <1>1, <1>2, <2>1, <2>2 DEF PromiseInv, Residual
<1> QED
  BY <1>1, <1>8, <1>9, <1>10, <1>11, SearchFrame DEF IInv

LEMMA LowTideEndKeeps == IInv /\ LowTideEnd => IInv'
<1> SUFFICES ASSUME IInv, LowTideEnd PROVE IInv'
  OBVIOUS
<1>1. /\ pc = "low" /\ pc' = "erosion" /\ idx' = 1
      /\ h' = [x \in Nodes(g) |-> IF x = g.source THEN l[g.source] ELSE 0]
      /\ UNCHANGED <<g, maxFlow, flow, dist, queue, head, levelEnd, u, e, levelEdges>>
      /\ UNCHANGED <<write, reach, p, l, sent>>
  BY DEF LowTideEnd, callVars, searchVars, pruneVars
<1>2. TypeOK'
  <2>1. h' \in [Nodes(g) -> Nat]
    <3>1. g.source \in Nodes(g) /\ l[g.source] \in Nat
      BY DEF IInv, TypeOK, IsCase
    <3> QED
      BY <1>1, <3>1
  <2> QED
    BY <1>1, <2>1 DEF IInv, TypeOK, Labels
<1>3. FlowIsFeasible' /\ LowTideBound'
  BY <1>1 DEF IInv, FlowIsFeasible, CapacityOK, SkewSymmetry, LowTideBound
<1>4. PromiseInv'
  <2>1. DOMAIN levelEdges = 1 .. Len(levelEdges) /\ Len(levelEdges) \in Nat
    BY LevelEdgesAreSequence
  <2>2. Promised = DOMAIN levelEdges /\ Promised' = DOMAIN levelEdges
    BY <1>1, <2>1 DEF Promised
  <2> QED
    BY <1>1, <2>1, <2>2 DEF IInv, PromiseInv, Residual
<1> QED
  BY <1>1, <1>2, <1>3, <1>4, SearchFrame DEF IInv

\* A level edge leads one level on and is recorded once, so neither its slot nor
\* its rev[] is a slot that a later position still has to erode.
\* What a step of the erosion does to the edge at idx and to its two nodes.
ErosionStep(a, b, x, y, amount) ==
  /\ a = levelEdges[idx]
  /\ b = g.rev[a]
  /\ x = g.src[a]
  /\ y = g.dst[a]
  /\ amount = Amount(idx)
  /\ pc = "erosion" /\ pc' = pc /\ idx <= Len(levelEdges) /\ idx' = idx + 1
  /\ p' = [p EXCEPT ![idx] = amount]
  /\ h' = [[h EXCEPT ![x] = @ - amount] EXCEPT ![y] = @ + amount]
  /\ UNCHANGED <<g, maxFlow, dist, queue, head, levelEnd, u, e, levelEdges>>
  /\ UNCHANGED <<write, reach, l, sent>>
  /\ Len(levelEdges) \in Nat /\ idx \in DOMAIN levelEdges /\ idx \in 1 .. Len(levelEdges)
  /\ DOMAIN levelEdges = 1 .. Len(levelEdges)
  /\ IsCase(g)
  /\ a \in Edges(g) /\ x \in Nodes(g) /\ y \in Nodes(g) /\ x # y
  /\ idx \in 1 .. g.edgeCount
  /\ b \in Edges(g) /\ b # a /\ g.rev[b] = a /\ g.src[b] = y /\ g.dst[b] = x
  /\ h \in [Nodes(g) -> Nat] /\ p \in [1 .. g.edgeCount -> Nat]
  /\ flow \in [Edges(g) -> Int]
  /\ h[x] \in Nat /\ h[y] \in Nat /\ p[idx] \in Nat
  /\ p[idx] <= Residual(g, flow, a)
  /\ flow[a] \in Int /\ flow[b] = -flow[a] /\ g.capacity[a] \in Nat
  /\ Residual(g, flow, a) = g.capacity[a] - flow[a]
  /\ amount \in Nat /\ amount <= p[idx] /\ amount <= h[x] /\ amount \in {p[idx], h[x]}
  /\ flow' \in [Edges(g) -> Int]
  /\ flow'[a] = flow[a] + amount /\ flow'[b] = flow[b] - amount
  /\ \A c \in Edges(g) : c # a /\ c # b => flow'[c] = flow[c]

LEMMA ErosionFacts ==
  ASSUME IInv, Erosion
  PROVE  \E a, b, x, y, amount : ErosionStep(a, b, x, y, amount)
<1> SUFFICES ASSUME NEW a, a = levelEdges[idx],
                    NEW b, b = g.rev[a],
                    NEW x, x = g.src[a],
                    NEW y, y = g.dst[a],
                    NEW amount, amount = Amount(idx)
             PROVE  ErosionStep(a, b, x, y, amount)
  OBVIOUS
<1>1. /\ pc = "erosion" /\ pc' = pc /\ idx <= Len(levelEdges) /\ idx' = idx + 1
      /\ p' = [p EXCEPT ![idx] = amount]
      /\ h' = [[h EXCEPT ![x] = @ - amount] EXCEPT ![y] = @ + amount]
      /\ flow' = [[flow EXCEPT ![a] = @ + amount] EXCEPT ![b] = @ - amount]
      /\ UNCHANGED <<g, maxFlow, dist, queue, head, levelEnd, u, e, levelEdges>>
      /\ UNCHANGED <<write, reach, l, sent>>
  BY DEF Erosion, Push, callVars, searchVars, pruneVars
<1>2. /\ Len(levelEdges) \in Nat /\ idx \in DOMAIN levelEdges /\ idx \in 1 .. Len(levelEdges)
      /\ DOMAIN levelEdges = 1 .. Len(levelEdges)
  BY <1>1 DEF IInv, TypeOK, PromiseInv
<1>3. /\ IsCase(g)
      /\ a \in Edges(g) /\ x \in Nodes(g) /\ y \in Nodes(g) /\ x # y
      /\ idx \in 1 .. g.edgeCount
  BY <1>2, LevelEdgeFacts DEF IInv, TypeOK
<1>4. b \in Edges(g) /\ b # a /\ g.rev[b] = a /\ g.src[b] = y /\ g.dst[b] = x
  BY <1>3, SlotFacts
<1>5. /\ h \in [Nodes(g) -> Nat] /\ p \in [1 .. g.edgeCount -> Nat]
      /\ flow \in [Edges(g) -> Int]
      /\ h[x] \in Nat /\ h[y] \in Nat /\ p[idx] \in Nat
  BY <1>3 DEF IInv, TypeOK
<1>6. p[idx] <= Residual(g, flow, a)
  BY <1>1, <1>2 DEF IInv, PromiseInv, Promised
<1>7. /\ flow[a] \in Int /\ flow[b] = -flow[a] /\ g.capacity[a] \in Nat
      /\ Residual(g, flow, a) = g.capacity[a] - flow[a]
  BY <1>3, ResidualFacts, SlotFacts
<1>8. amount \in Nat /\ amount <= p[idx] /\ amount <= h[x] /\ amount \in {p[idx], h[x]}
  BY <1>5 DEF Lesser, Amount
<1>9. /\ flow' \in [Edges(g) -> Int]
      /\ flow'[a] = flow[a] + amount /\ flow'[b] = flow[b] - amount
      /\ \A c \in Edges(g) : c # a /\ c # b => flow'[c] = flow[c]
  <2> DEFINE mid == [flow EXCEPT ![a] = flow[a] + amount]
  <2>1. flow[a] + amount \in Int /\ flow[b] - amount \in Int
    BY <1>7, <1>8
  <2>2. mid \in [Edges(g) -> Int] /\ mid[b] = flow[b]
    BY <1>3, <1>4, <1>5, <2>1
  <2>3. flow' = [mid EXCEPT ![b] = flow[b] - amount]
    BY <1>1, <1>3, <1>4, <1>5, <2>2
  <2> QED
    BY <1>3, <1>4, <1>5, <2>1, <2>2, <2>3
<1> QED
  BY <1>1, <1>2, <1>3, <1>4, <1>5, <1>6, <1>7, <1>8, <1>9 DEF ErosionStep

LEMMA ErosionKeeps == IInv /\ Erosion => IInv'
<1> SUFFICES ASSUME IInv, Erosion PROVE IInv'
  OBVIOUS
<1>0. PICK a, b, x, y, amount : ErosionStep(a, b, x, y, amount)
  BY ErosionFacts
<1>1. a = levelEdges[idx] /\ b = g.rev[a] /\ x = g.src[a] /\ y = g.dst[a]
  BY <1>0 DEF ErosionStep
<1>2. /\ pc = "erosion" /\ pc' = pc /\ idx <= Len(levelEdges) /\ idx' = idx + 1
      /\ p' = [p EXCEPT ![idx] = amount]
      /\ h' = [[h EXCEPT ![x] = @ - amount] EXCEPT ![y] = @ + amount]
      /\ UNCHANGED <<g, maxFlow, dist, queue, head, levelEnd, u, e, levelEdges>>
      /\ UNCHANGED <<write, reach, l, sent>>
  BY <1>0 DEF ErosionStep
<1>3. /\ Len(levelEdges) \in Nat /\ idx \in DOMAIN levelEdges /\ idx \in 1 .. Len(levelEdges)
      /\ DOMAIN levelEdges = 1 .. Len(levelEdges)
  BY <1>0 DEF ErosionStep
<1>4. /\ IsCase(g)
      /\ a \in Edges(g) /\ x \in Nodes(g) /\ y \in Nodes(g) /\ x # y
      /\ idx \in 1 .. g.edgeCount
  BY <1>0 DEF ErosionStep
<1>5. b \in Edges(g) /\ b # a /\ g.rev[b] = a /\ g.src[b] = y /\ g.dst[b] = x
  BY <1>0 DEF ErosionStep
<1>6. /\ h \in [Nodes(g) -> Nat] /\ p \in [1 .. g.edgeCount -> Nat]
      /\ flow \in [Edges(g) -> Int]
      /\ h[x] \in Nat /\ h[y] \in Nat /\ p[idx] \in Nat
  BY <1>0 DEF ErosionStep
<1>7. p[idx] <= Residual(g, flow, a)
  BY <1>0 DEF ErosionStep
<1>8. /\ flow[a] \in Int /\ flow[b] = -flow[a] /\ g.capacity[a] \in Nat
      /\ Residual(g, flow, a) = g.capacity[a] - flow[a]
  BY <1>0 DEF ErosionStep
<1>9. amount \in Nat /\ amount <= p[idx] /\ amount <= h[x]
  BY <1>0 DEF ErosionStep
<1>10. /\ flow' \in [Edges(g) -> Int]
      /\ flow'[a] = flow[a] + amount /\ flow'[b] = flow[b] - amount
      /\ \A c \in Edges(g) : c # a /\ c # b => flow'[c] = flow[c]
  BY <1>0 DEF ErosionStep
<1>11. TypeOK'
  <2>1. /\ h[x] - amount \in Nat /\ h[y] + amount \in Nat
    BY <1>6, <1>9
  <2>2. h' \in [Nodes(g) -> Nat]
    <3>1. [h EXCEPT ![x] = h[x] - amount] \in [Nodes(g) -> Nat]
      BY <1>4, <1>6, <2>1
    <3>2. h' = [[h EXCEPT ![x] = h[x] - amount] EXCEPT ![y] = h[y] + amount]
      BY <1>2, <1>4, <1>6
    <3> QED
      BY <1>4, <2>1, <3>1, <3>2
  <2>3. p' \in [1 .. g.edgeCount -> Nat]
    <3>1. p' = [p EXCEPT ![idx] = amount]
      BY <1>2
    <3> QED
      BY <1>4, <1>6, <1>9, <3>1
  <2>4. idx' \in Nat
    BY <1>2, <1>3
  <2> QED
    BY <1>2, <1>10, <2>2, <2>3, <2>4 DEF IInv, TypeOK
<1>12. FlowIsFeasible'
  <2>1. \A c \in Edges(g) : flow[c] <= g.capacity[c] /\ flow[g.rev[c]] = -flow[c]
    BY DEF IInv, FlowIsFeasible, CapacityOK, SkewSymmetry
  <2>2. \A c \in Edges(g) : flow'[c] <= g.capacity[c]
    <3> SUFFICES ASSUME NEW c \in Edges(g) PROVE flow'[c] <= g.capacity[c]
      OBVIOUS
    <3>1. CASE c = a
      BY <1>6, <1>7, <1>8, <1>9, <1>10, <3>1, SMTT(30)
    <3>2. CASE c = b
      <4>1. g.capacity[b] \in Nat /\ flow[b] <= g.capacity[b] /\ flow[b] \in Int
        BY <1>4, <1>5, <1>8, <2>1, SlotFacts
      <4> QED
        BY <1>9, <1>10, <3>2, <4>1
    <3>3. CASE c # a /\ c # b
      BY <1>10, <2>1, <3>3
    <3> QED
      BY <3>1, <3>2, <3>3
  <2>3. \A c \in Edges(g) : flow'[g.rev[c]] = -flow'[c]
    <3> SUFFICES ASSUME NEW c \in Edges(g) PROVE flow'[g.rev[c]] = -flow'[c]
      OBVIOUS
    <3>1. CASE c = a
      BY <1>1, <1>8, <1>9, <1>10, <3>1
    <3>2. CASE c = b
      BY <1>5, <1>8, <1>9, <1>10, <3>2
    <3>3. CASE c # a /\ c # b
      <4>1. g.rev[c] \in Edges(g) /\ g.rev[g.rev[c]] = c
        BY <1>4, SlotFacts
      <4>2. g.rev[c] # a /\ g.rev[c] # b
        BY <1>5, <1>1, <3>3, <4>1
      <4> QED
        BY <1>10, <2>1, <3>3, <4>1, <4>2
    <3> QED
      BY <3>1, <3>2, <3>3
  <2> QED
    BY <1>2, <2>2, <2>3 DEF FlowIsFeasible, CapacityOK, SkewSymmetry
<1>13. PromiseInv'
  <2>1. Promised = idx .. Len(levelEdges) /\ Promised' = (idx + 1) .. Len(levelEdges)
    BY <1>2 DEF Promised
  <2>2. ASSUME NEW i \in (idx + 1) .. Len(levelEdges)
        PROVE  p'[i] <= Residual(g, flow', levelEdges[i])
    <3>1. i \in Promised /\ i \in DOMAIN levelEdges /\ i # idx
      BY <1>3, <2>1
    <3>2. levelEdges[i] \in Edges(g) /\ i \in 1 .. g.edgeCount
      BY <3>1, LevelEdgeFacts
    <3>3. levelEdges[i] # a
      BY <1>2, <1>3, <1>1, <3>1 DEF IInv, NoRepeatInv, Live
    <3>4. levelEdges[i] # b
      <4>1. /\ dist[y] = dist[x] + 1 /\ dist[x] \in Nat
        BY <1>3, <1>4, <1>1 DEF IInv, TypeOK, LevelInv
      <4>2. dist[g.dst[levelEdges[i]]] = dist[g.src[levelEdges[i]]] + 1
        BY <3>1 DEF IInv, LevelInv
      <4> QED
        BY <1>5, <4>1, <4>2, SMTT(30)
    <3>5. p'[i] = p[i] /\ flow'[levelEdges[i]] = flow[levelEdges[i]]
      BY <1>2, <1>6, <1>10, <3>1, <3>2, <3>3, <3>4
    <3>6. p[i] <= Residual(g, flow, levelEdges[i])
      BY <3>1 DEF IInv, PromiseInv
    <3> QED
      BY <3>5, <3>6 DEF Residual
  <2> QED
    <3>1. idx' \in 1 .. (Len(levelEdges) + 1) /\ pc' = "erosion"
      BY <1>2, <1>3
    <3>2. \A i \in Promised' : p'[i] <= Residual(g', flow', levelEdges'[i])
      BY <1>2, <2>1, <2>2
    <3> QED
      BY <1>2, <3>1, <3>2 DEF PromiseInv, Residual
<1>14. LowTideBound'
  BY <1>2 DEF LowTideBound
<1> QED
  BY <1>2, <1>11, <1>12, <1>13, <1>14, SearchFrame DEF IInv

LEMMA ErosionEndKeeps == IInv /\ ErosionEnd => IInv'
<1> SUFFICES ASSUME IInv, ErosionEnd PROVE IInv'
  OBVIOUS
<1>1. /\ pc = "erosion" /\ pc' = "returned" /\ sent' = h[g.sink]
      /\ UNCHANGED <<g, maxFlow, flow, dist, queue, head, levelEnd, u, e, levelEdges>>
      /\ UNCHANGED <<idx, write, reach, h, p, l>>
  BY DEF ErosionEnd, callVars, searchVars, pruneVars
<1>2. TypeOK'
  <2>1. sent' \in Nat
    BY <1>1 DEF IInv, TypeOK, IsCase
  <2> QED
    BY <1>1, <2>1 DEF IInv, TypeOK, Labels
<1>3. FlowIsFeasible' /\ LowTideBound' /\ PromiseInv'
  BY <1>1 DEF IInv, FlowIsFeasible, CapacityOK, SkewSymmetry, LowTideBound, PromiseInv, Promised
<1> QED
  BY <1>1, <1>2, <1>3, SearchFrame DEF IInv

LEMMA DriverKeeps == IInv /\ (AddAndRebuild \/ AddAndRepeat \/ Rebuild) => IInv'
<1> SUFFICES ASSUME IInv, AddAndRebuild \/ AddAndRepeat \/ Rebuild PROVE IInv'
  OBVIOUS
<1>1. /\ pc = "returned" /\ pc' \in {"build", "tide"} /\ maxFlow' \in {maxFlow, maxFlow + sent}
      /\ UNCHANGED <<g, flow, dist, queue, head, levelEnd, u, e, levelEdges>>
      /\ UNCHANGED <<idx, write, reach, h, p, l, sent>>
  BY DEF AddAndRebuild, AddAndRepeat, Rebuild, callVars, searchVars, pruneVars, tideVars
<1>2. TypeOK'
  <2>1. maxFlow' \in Int /\ pc' \in Labels
    BY <1>1 DEF IInv, TypeOK, Labels
  <2> QED
    BY <1>1, <2>1 DEF IInv, TypeOK
<1>3. FlowIsFeasible' /\ LowTideBound' /\ PromiseInv'
  BY <1>1 DEF IInv, FlowIsFeasible, CapacityOK, SkewSymmetry, LowTideBound, PromiseInv, Promised
<1> QED
  BY <1>1, <1>2, <1>3, SearchFrame DEF IInv

LEMMA StutterKeeps == IInv /\ UNCHANGED vars => IInv'
<1> SUFFICES ASSUME IInv, UNCHANGED vars PROVE IInv'
  OBVIOUS
<1>1. /\ UNCHANGED <<g, maxFlow, flow, pc, dist, queue, head, levelEnd, u, e, levelEdges>>
      /\ UNCHANGED <<idx, write, reach, h, p, l, sent>>
  BY DEF vars, callVars, searchVars, pruneVars, tideVars
<1>2. TypeOK' /\ FlowIsFeasible' /\ BuffersSuffice' /\ QueueInv' /\ LevelInv'
  BY <1>1 DEF IInv, TypeOK, FlowIsFeasible, CapacityOK, SkewSymmetry, BuffersSuffice, QueueInv,
              HasNoRepeats, LevelInv
<1>3. ScanInv' /\ NoRepeatInv' /\ PromiseInv' /\ LowTideBound' /\ CutInv'
  BY <1>1 DEF IInv, ScanInv, IsTaken, NoRepeatInv, Live, PromiseInv, Promised, LowTideBound, CutInv,
              ResidualEdges, Residual
<1>4. OrderInv' /\ FrontierInv' /\ ReachInv' /\ KeptInv' /\ CutCertificate'
  BY <1>1 DEF IInv, OrderInv, FrontierInv, ReachInv, KeptInv, IsKept, CutCertificate
<1> QED
  BY <1>2, <1>3, <1>4 DEF IInv

-------------------------------------------------------------------------------
(* The steps of the solvers that have no steps of their own.               *)

CommonStep ==
  \/ Allocate \/ BuildStart \/ NextLevel \/ Dequeue \/ SkipEdge \/ RecordEdge \/ ScanEnd
  \/ BuildEnd \/ PruneStart \/ MarkReach \/ MarkEnd \/ CompactEdge \/ CompactEnd
  \/ TideStart \/ HighTide \/ HighTideEnd \/ LowTide \/ LowTideEnd \/ Erosion \/ ErosionEnd
  \/ AddAndRebuild \/ AddAndRepeat \/ Rebuild

LEMMA CommonStepKeeps == IInv /\ [CommonStep]_vars => IInv'
<1> SUFFICES ASSUME IInv, [CommonStep]_vars PROVE IInv'
  OBVIOUS
<1>1. h \in [Nodes(g) -> Nat] /\ p \in [1 .. g.edgeCount -> Nat]
  BY DEF IInv, TypeOK
<1>2. CASE Allocate \/ NextLevel \/ Dequeue \/ SkipEdge \/ ScanEnd \/ BuildEnd
  BY <1>2, AllocateKeeps, NextLevelKeeps, DequeueKeeps, SkipEdgeKeeps, ScanEndKeeps,
     BuildEndKeeps
<1>3. CASE BuildStart
  BY <1>1, <1>3, StartKeeps DEF BuildStart
<1>4. CASE RecordEdge
  BY <1>1, <1>4, RecordKeeps DEF RecordEdge
<1>5. CASE PruneStart \/ MarkReach \/ MarkEnd \/ CompactEnd
  BY <1>5, PruneStartKeeps, MarkReachKeeps, MarkEndKeeps, CompactEndKeeps
<1>6. CASE CompactEdge
  BY <1>1, <1>6, CompactKeeps DEF CompactEdge
<1>7. CASE TideStart \/ HighTide \/ HighTideEnd \/ LowTide \/ LowTideEnd \/ Erosion \/ ErosionEnd
  BY <1>7, TideStartKeeps, HighTideKeeps, HighTideEndKeeps, LowTideKeeps, LowTideEndKeeps,
     ErosionKeeps, ErosionEndKeeps
<1>8. CASE AddAndRebuild \/ AddAndRepeat \/ Rebuild
  BY <1>8, DriverKeeps
<1>9. CASE UNCHANGED vars
  BY <1>9, StutterKeeps
<1> QED
  BY <1>2, <1>3, <1>4, <1>5, <1>6, <1>7, <1>8, <1>9 DEF CommonStep

\* A feasible flow leaves each slot a residual capacity that is an int: what a
\* slot lacks its rev[] has, and the capacities of the two add up to an int.
LEMMA InvariantBoundsResiduals == IInv => ResidualFitsInt
<1> SUFFICES ASSUME IInv, NEW a \in Edges(g) PROVE Residual(g, flow, a) \in 0 .. IntMax
  BY DEF ResidualFitsInt
<1>1. IsCase(g)
  BY DEF IInv, TypeOK
<1>2. /\ g.rev[a] \in Edges(g) /\ g.capacity[a] \in Nat /\ g.capacity[g.rev[a]] \in Nat
      /\ g.capacity[a] + g.capacity[g.rev[a]] <= IntMax
  BY <1>1, SlotFacts
<1>3. flow[g.rev[a]] <= g.capacity[g.rev[a]]
  BY <1>2 DEF IInv, FlowIsFeasible, CapacityOK
<1>4. /\ flow[a] \in Int /\ flow[g.rev[a]] = -flow[a]
      /\ Residual(g, flow, a) \in Nat
      /\ Residual(g, flow, a) = g.capacity[a] - flow[a]
  BY ResidualFacts
<1>5. Residual(g, flow, a) <= g.capacity[a] + g.capacity[g.rev[a]]
  BY <1>2, <1>3, <1>4
<1>6. IntMax \in Nat
  BY IntAssumption, WidthsAssumption
<1> QED
  BY <1>2, <1>4, <1>5, <1>6

-------------------------------------------------------------------------------
(* The labels of the search are distances: what LevelGraphInv adds to IInv. *)

\* What the invariant says of the positions of queue[].
LEMMA QueueFacts ==
  ASSUME IInv
  PROVE  /\ queue \in Seq(Nodes(g)) /\ Len(queue) \in Nat /\ DOMAIN queue = 1 .. Len(queue)
         /\ head \in 0 .. Len(queue) /\ levelEnd \in 0 .. Len(queue)
         /\ dist \in [Nodes(g) -> Nat \cup {-1}]
         /\ \A k \in DOMAIN queue : queue[k] \in Nodes(g) /\ dist[queue[k]] \in Nat
         /\ \A x \in Nodes(g) : dist[x] # -1 => \E k \in DOMAIN queue : queue[k] = x
<1>1. /\ queue \in Seq(Nodes(g)) /\ dist \in [Nodes(g) -> Nat \cup {-1}]
      /\ head \in 0 .. Len(queue) /\ levelEnd \in 0 .. Len(queue)
  BY DEF IInv, TypeOK
<1>2. /\ Len(queue) \in Nat /\ DOMAIN queue = 1 .. Len(queue)
      /\ \A k \in DOMAIN queue : queue[k] \in Nodes(g)
  BY <1>1
<1>3. \A x \in Nodes(g) : dist[x] # -1 <=> \E k \in DOMAIN queue : queue[k] = x
  BY DEF IInv, QueueInv
<1>4. \A k \in DOMAIN queue : dist[queue[k]] \in Nat
  BY <1>1, <1>2, <1>3
<1> QED
  BY <1>1, <1>2, <1>3, <1>4

\* The labels that have been given do not exceed that of the next level, and a node of
\* an earlier level has been taken.
LEMMA DepthFacts ==
  ASSUME IInv, DepthInv, pc \in {"bfs", "scan"}
  PROVE  /\ Depth \in Nat \cup {-1}
         /\ head <= levelEnd
         /\ levelEnd > 0 => Depth = dist[queue[levelEnd]] /\ Depth \in Nat
         /\ \A k \in DOMAIN queue : /\ k <= levelEnd => dist[queue[k]] <= Depth
                                    /\ k > head => dist[queue[k]] >= Depth
                                    /\ k > levelEnd => dist[queue[k]] = Depth + 1
         /\ \A x \in Nodes(g) : dist[x] <= Depth + 1
<1>1. /\ head <= levelEnd
      /\ \A k \in DOMAIN queue : /\ k > head => dist[queue[k]] >= Depth
                                 /\ k > levelEnd => dist[queue[k]] = Depth + 1
  BY DEF DepthInv
<1>2. /\ DOMAIN queue = 1 .. Len(queue) /\ levelEnd \in 0 .. Len(queue) /\ Len(queue) \in Nat
      /\ \A k \in DOMAIN queue : dist[queue[k]] \in Nat
      /\ dist \in [Nodes(g) -> Nat \cup {-1}]
      /\ \A x \in Nodes(g) : dist[x] # -1 => \E k \in DOMAIN queue : queue[k] = x
  BY QueueFacts
<1>3. levelEnd > 0 => levelEnd \in DOMAIN queue /\ Depth = dist[queue[levelEnd]] /\ Depth \in Nat
  BY <1>2 DEF Depth
<1>4. levelEnd = 0 => Depth = -1
  BY DEF Depth
<1>5. \A k \in DOMAIN queue : k <= levelEnd => dist[queue[k]] <= Depth
  BY <1>2, <1>3 DEF IInv, OrderInv
<1>6. Depth \in Nat \cup {-1}
  BY <1>2, <1>3, <1>4
<1>7. ASSUME NEW x \in Nodes(g) PROVE dist[x] <= Depth + 1
  <2>1. CASE dist[x] = -1
    BY <1>6, <2>1
  <2>2. CASE dist[x] # -1
    <3>1. PICK k \in DOMAIN queue : queue[k] = x
      BY <1>2, <2>2
    <3>2. k \in Nat /\ dist[queue[k]] \in Nat
      BY <1>2
    <3>3. dist[queue[k]] <= Depth \/ dist[queue[k]] = Depth + 1
      BY <1>1, <1>2, <1>5, <3>2
    <3> QED
      BY <1>6, <3>1, <3>2, <3>3
  <2> QED
    BY <2>1, <2>2
<1> QED
  BY <1>1, <1>3, <1>5, <1>6, <1>7

\* As soon as the search is over nothing but the labels is remembered of it.
LEMMA NotSearching ==
  ASSUME pc' \notin {"bfs", "scan", "reach", "compact"}, LabelInv'
  PROVE  LevelGraphInv'
BY DEF LevelGraphInv, DepthInv, ScannedInv, MarkedInv

LEMMA StartKeepsLevels ==
  ASSUME IInv, Start
  PROVE  LevelGraphInv'
<1>1. /\ pc' = "bfs" /\ g' = g /\ flow' = flow
      /\ dist' = [x \in Nodes(g) |-> IF x = g.source THEN 0 ELSE -1]
      /\ queue' = <<g.source>> /\ head' = 0 /\ levelEnd' = 0 /\ levelEdges' = <<>>
  BY DEF Start, callVars
<1>2. g.source \in Nodes(g) /\ g.sink \in Nodes(g) /\ g.source # g.sink
  BY DEF IInv, TypeOK, IsCase
<1>3. DepthInv'
  <2>1. Depth' = -1 /\ dist'[g.sink] = -1 /\ dist'[g.source] = 0
    BY <1>1, <1>2 DEF Depth
  <2>2. \A k \in DOMAIN queue' : queue'[k] = g.source
    BY <1>1
  <2> QED
    BY <1>1, <2>1, <2>2 DEF DepthInv
<1>4. ScannedInv'
  <2>1. LevelEdgeSet' = {}
    BY <1>1 DEF LevelEdgeSet
  <2>2. \A x : ~(\E k \in 1 .. head' : queue'[k] = x)
    BY <1>1
  <2> QED
    BY <1>1, <2>1, <2>2 DEF ScannedInv, IsTaken
<1> QED
  BY <1>1, <1>3, <1>4 DEF LevelGraphInv, MarkedInv, LabelInv

LEMMA NextLevelKeepsLevels ==
  ASSUME IInv, LevelGraphInv, NextLevel
  PROVE  LevelGraphInv'
<1>1. /\ pc = "bfs" /\ head = levelEnd /\ ~SearchEnded /\ levelEnd' = Len(queue)
      /\ UNCHANGED <<g, flow, pc, dist, queue, head, u, e, levelEdges>>
  BY DEF NextLevel, callVars
<1>2. dist[g.sink] = -1 /\ head # Len(queue)
  BY <1>1 DEF SearchEnded
<1>3. /\ DOMAIN queue = 1 .. Len(queue) /\ levelEnd \in 0 .. Len(queue) /\ Len(queue) \in Nat
      /\ \A k \in DOMAIN queue : dist[queue[k]] \in Nat
  BY QueueFacts
<1>4. /\ Depth \in Nat \cup {-1}
      /\ \A k \in DOMAIN queue : k > levelEnd => dist[queue[k]] = Depth + 1
  BY <1>1, DepthFacts DEF LevelGraphInv
<1>5. Len(queue) > levelEnd /\ Len(queue) \in DOMAIN queue
  BY <1>1, <1>2, <1>3
<1>6. Depth' = Depth + 1
  BY <1>1, <1>3, <1>4, <1>5 DEF Depth
<1>7. DepthInv'
  <2>1. \A k \in DOMAIN queue : /\ k > head => dist[queue[k]] >= Depth'
                                /\ ~(k > levelEnd')
    BY <1>1, <1>3, <1>4, <1>6
  <2>2. head <= levelEnd'
    BY <1>1, <1>3
  <2> QED
    BY <1>1, <1>2, <2>1, <2>2 DEF DepthInv
<1>8. ScannedInv'
  BY <1>1 DEF LevelGraphInv, ScannedInv, IsTaken, LevelEdgeSet
<1> QED
  BY <1>1, <1>7, <1>8 DEF LevelGraphInv, MarkedInv, LabelInv

LEMMA DequeueKeepsLevels ==
  ASSUME IInv, LevelGraphInv, Dequeue
  PROVE  LevelGraphInv'
<1>1. /\ pc = "bfs" /\ pc' = "scan" /\ head < levelEnd /\ head' = head + 1
      /\ u' = queue[head + 1] /\ e' = g.ver[u']
      /\ UNCHANGED <<g, flow, dist, queue, levelEnd, levelEdges>>
  BY DEF Dequeue, callVars
<1>2. /\ DOMAIN queue = 1 .. Len(queue) /\ levelEnd \in 0 .. Len(queue) /\ Len(queue) \in Nat
      /\ head \in 0 .. Len(queue) /\ dist \in [Nodes(g) -> Nat \cup {-1}]
      /\ \A k \in DOMAIN queue : queue[k] \in Nodes(g) /\ dist[queue[k]] \in Nat
  BY QueueFacts
<1>3. /\ Depth \in Nat \cup {-1}
      /\ \A k \in DOMAIN queue : /\ k <= levelEnd => dist[queue[k]] <= Depth
                                 /\ k > head => dist[queue[k]] >= Depth
                                 /\ k > levelEnd => dist[queue[k]] = Depth + 1
  BY <1>1, DepthFacts DEF LevelGraphInv
<1>4. head + 1 \in DOMAIN queue /\ head + 1 <= levelEnd /\ head + 1 > head
  BY <1>1, <1>2
<1>5. Depth' = Depth
  BY <1>1 DEF Depth
<1>6. DepthInv'
  <2>1. dist[u'] = Depth
    <3>1. dist[queue[head + 1]] <= Depth /\ dist[queue[head + 1]] >= Depth
      BY <1>3, <1>4
    <3> QED
      BY <1>1, <1>2, <1>3, <1>4, <3>1
  <2>2. dist[g.sink] \in {-1, Depth + 1}
    BY <1>1 DEF LevelGraphInv, DepthInv
  <2>3. \A k \in DOMAIN queue : k > head + 1 => k > head
    BY <1>2
  <2> QED
    BY <1>1, <1>3, <1>4, <1>5, <2>1, <2>2, <2>3 DEF DepthInv
<1>7. ScannedInv'
  <2> SUFFICES ASSUME NEW a \in ResidualEdges(g, flow), IsTaken(g.src[a])',
                      ~(g.src[a] = u' /\ a >= e')
               PROVE  /\ dist[g.dst[a]] <= dist[g.src[a]] + 1
                      /\ dist[g.dst[a]] = dist[g.src[a]] + 1 => a \in LevelEdgeSet
    BY <1>1 DEF LevelGraphInv, ScannedInv, LevelEdgeSet
  <2>1. IsCase(g) /\ a \in Edges(g)
    BY DEF IInv, TypeOK, ResidualEdges
  <2>2. g.src[a] # u'
    <3>1. u' \in Nodes(g)
      BY <1>1, <1>2, <1>4
    <3>2. a \in Nat
      BY <2>1, SlotFacts
    <3>3. g.src[a] = u' => g.ver[u'] <= a
      BY <2>1, <3>1 DEF IsCase, IsIndexed
    <3>4. g.ver[u'] \in 0 .. g.edgeCount
      BY <2>1, <3>1, SlotIndexFacts
    <3>5. g.ver[u'] <= a => a >= g.ver[u']
      BY <3>2, <3>4
    <3> QED
      BY <1>1, <3>3, <3>5
  <2>3. IsTaken(g.src[a])
    <3>1. PICK k \in 1 .. head' : queue'[k] = g.src[a]
      BY <1>1 DEF IsTaken
    <3>2. k # head + 1
      BY <1>1, <2>2, <3>1
    <3>3. k \in 1 .. head
      BY <1>1, <1>2, <3>1, <3>2
    <3> QED
      BY <1>1, <3>1, <3>3 DEF IsTaken
  <2> QED
    BY <1>1, <2>3 DEF LevelGraphInv, ScannedInv
<1> QED
  BY <1>1, <1>6, <1>7 DEF LevelGraphInv, MarkedInv, LabelInv

LEMMA SkipEdgeKeepsLevels ==
  ASSUME IInv, LevelGraphInv, SkipEdge
  PROVE  LevelGraphInv'
<1>1. /\ pc = "scan" /\ pc' = "scan" /\ e < g.ver[u + 1] /\ e' = e + 1 /\ ~LeadsOn(e)
      /\ UNCHANGED <<g, flow, dist, queue, head, levelEnd, u, levelEdges>>
  BY DEF SkipEdge, callVars
<1>2. IsCase(g) /\ e \in Edges(g) /\ e \in Nat /\ g.src[e] = u /\ g.dst[e] \in Nodes(g)
  BY <1>1, ScanFacts
<1>3. Depth' = Depth
  BY <1>1 DEF Depth
<1>4. DepthInv'
  BY <1>1, <1>3 DEF LevelGraphInv, DepthInv
<1>5. ScannedInv'
  <2> SUFFICES ASSUME NEW a \in ResidualEdges(g, flow), IsTaken(g.src[a]),
                      ~(g.src[a] = u /\ a >= e + 1)
               PROVE  /\ dist[g.dst[a]] <= dist[g.src[a]] + 1
                      /\ dist[g.dst[a]] = dist[g.src[a]] + 1 => a \in LevelEdgeSet
    BY <1>1 DEF LevelGraphInv, ScannedInv, LevelEdgeSet, IsTaken
  <2>1. CASE a = e
    <3>1. dist[g.dst[e]] # dist[u] + 1
      BY <1>1, <2>1 DEF LeadsOn, ResidualEdges
    <3>2. dist[g.dst[e]] <= Depth + 1 /\ dist[u] = Depth
      BY <1>1, <1>2, DepthFacts DEF LevelGraphInv, DepthInv
    <3> QED
      BY <1>2, <2>1, <3>1, <3>2
  <2>2. CASE a # e
    <3>1. a \in Nat
      BY <1>2, SlotFacts DEF ResidualEdges
    <3>2. ~(g.src[a] = u /\ a >= e)
      BY <1>2, <2>2, <3>1
    <3> QED
      BY <1>1, <3>2 DEF LevelGraphInv, ScannedInv
  <2> QED
    BY <2>1, <2>2
<1> QED
  BY <1>1, <1>4, <1>5 DEF LevelGraphInv, MarkedInv, LabelInv

\* Whatever the solver does to h[] and p[] besides.
LEMMA RecordKeepsLevels ==
  ASSUME IInv, LevelGraphInv, Record
  PROVE  LevelGraphInv'
<1> DEFINE v == g.dst[e]
<1>1. /\ pc = "scan" /\ pc' = "scan" /\ e < g.ver[u + 1] /\ e' = e + 1 /\ LeadsOn(e)
      /\ dist' = [dist EXCEPT ![v] = dist[u] + 1]
      /\ queue' = IF IsNew(v) THEN Append(queue, v) ELSE queue
      /\ levelEdges' = Append(levelEdges, e)
      /\ UNCHANGED <<g, flow, head, levelEnd, u>>
  BY DEF Record, callVars
<1>2. /\ IsCase(g) /\ e \in Edges(g) /\ e \in Nat /\ g.src[e] = u /\ v \in Nodes(g)
      /\ u \in Nodes(g)
  BY <1>1, ScanFacts
<1>3. /\ DOMAIN queue = 1 .. Len(queue) /\ levelEnd \in 0 .. Len(queue) /\ Len(queue) \in Nat
      /\ head \in 0 .. Len(queue) /\ dist \in [Nodes(g) -> Nat \cup {-1}]
      /\ queue \in Seq(Nodes(g))
      /\ \A k \in DOMAIN queue : queue[k] \in Nodes(g) /\ dist[queue[k]] \in Nat
  BY QueueFacts
<1>4. /\ Depth \in Nat \cup {-1} /\ head <= levelEnd
      /\ levelEnd > 0 => Depth = dist[queue[levelEnd]]
      /\ \A k \in DOMAIN queue : /\ k > head => dist[queue[k]] >= Depth
                                 /\ k > levelEnd => dist[queue[k]] = Depth + 1
  BY <1>1, DepthFacts DEF LevelGraphInv
<1>5. /\ dist[u] = Depth /\ head > 0 /\ dist[g.sink] \in {-1, Depth + 1}
      /\ u = queue[head]
  BY <1>1 DEF LevelGraphInv, DepthInv, IInv, QueueInv
<1>6. levelEnd \in DOMAIN queue /\ levelEnd > 0
  BY <1>3, <1>4, <1>5
<1>7. /\ \A x \in Nodes(g) : dist[x] # -1 => dist'[x] = dist[x]
      /\ \A x \in Nodes(g) : x # v => dist'[x] = dist[x]
      /\ dist'[v] = Depth + 1
  <2>1. dist[v] \in {-1, dist[u] + 1}
    BY <1>1 DEF LeadsOn
  <2> QED
    BY <1>1, <1>2, <1>3, <1>5, <2>1
<1>8. /\ \A k \in DOMAIN queue : k \in DOMAIN queue' /\ queue'[k] = queue[k]
      /\ \A k \in DOMAIN queue' : k \in DOMAIN queue \/ (k = Len(queue) + 1 /\ queue'[k] = v)
  <2>1. CASE IsNew(v)
    BY <1>1, <1>2, <1>3, <2>1
  <2>2. CASE ~IsNew(v)
    BY <1>1, <2>2
  <2> QED
    BY <2>1, <2>2
<1>9. Depth' = Depth
  <2>1. Depth' = dist'[queue'[levelEnd]]
    BY <1>1, <1>6 DEF Depth
  <2>2. queue'[levelEnd] = queue[levelEnd] /\ dist'[queue[levelEnd]] = dist[queue[levelEnd]]
    <3>1. queue[levelEnd] \in Nodes(g) /\ dist[queue[levelEnd]] # -1
      BY <1>3, <1>6
    <3> QED
      BY <1>6, <1>7, <1>8, <3>1
  <2> QED
    BY <1>4, <1>6, <2>1, <2>2
<1>10. DepthInv'
  <2>1. ASSUME NEW k \in DOMAIN queue'
        PROVE  /\ k > head => dist'[queue'[k]] >= Depth
               /\ k > levelEnd => dist'[queue'[k]] = Depth + 1
    <3>1. CASE k \in DOMAIN queue
      <4>1. queue[k] \in Nodes(g) /\ dist[queue[k]] # -1
        BY <1>3, <3>1
      <4>2. dist'[queue'[k]] = dist[queue[k]]
        BY <1>7, <1>8, <3>1, <4>1
      <4> QED
        BY <1>4, <3>1, <4>2
    <3>2. CASE k = Len(queue) + 1 /\ queue'[k] = v
      BY <1>4, <1>7, <3>2
    <3> QED
      BY <1>8, <3>1, <3>2
  <2>2. dist'[g.sink] \in {-1, Depth + 1}
    <3>1. g.sink \in Nodes(g)
      BY <1>2 DEF IsCase
    <3> QED
      BY <1>5, <1>7, <3>1
  <2>3. dist'[u] = Depth
    <3>1. dist[u] # -1
      BY <1>3, <1>5
    <3> QED
      BY <1>2, <1>5, <1>7, <3>1
  <2> QED
    BY <1>1, <1>4, <1>9, <2>1, <2>2, <2>3 DEF DepthInv
<1>11. ScannedInv'
  <2>1. LevelEdgeSet' = LevelEdgeSet \cup {e}
    <3>1. levelEdges \in Seq(Edges(g)) /\ DOMAIN levelEdges = 1 .. Len(levelEdges) /\ Len(levelEdges) \in Nat
      BY LevelEdgesAreSequence
    <3>2. /\ DOMAIN levelEdges' = 1 .. (Len(levelEdges) + 1)
          /\ \A i \in 1 .. Len(levelEdges) : levelEdges'[i] = levelEdges[i]
          /\ levelEdges'[Len(levelEdges) + 1] = e
      BY <1>1, <1>2, <3>1
    <3> QED
      BY <3>1, <3>2 DEF LevelEdgeSet
  <2>2. e \in ResidualEdges(g, flow)
    BY <1>1, <1>2 DEF LeadsOn, ResidualEdges
  <2>3. LevelEdgeSet' \subseteq ResidualEdges(g, flow)
    BY <1>1, <2>1, <2>2 DEF LevelGraphInv, ScannedInv
  <2>4. ASSUME NEW a \in ResidualEdges(g, flow), IsTaken(g.src[a])', ~(g.src[a] = u /\ a >= e + 1)
        PROVE  /\ dist'[g.dst[a]] <= dist'[g.src[a]] + 1
               /\ dist'[g.dst[a]] = dist'[g.src[a]] + 1 => a \in LevelEdgeSet'
    <3>1. /\ a \in Edges(g) /\ a \in Nat /\ g.src[a] \in Nodes(g) /\ g.dst[a] \in Nodes(g)
      BY <1>2, SlotFacts DEF ResidualEdges
    <3>2. IsTaken(g.src[a]) /\ dist[g.src[a]] # -1
      <4>1. PICK k \in 1 .. head : queue'[k] = g.src[a]
        BY <1>1, <2>4 DEF IsTaken
      <4>2. k \in DOMAIN queue
        BY <1>3
      <4>3. queue[k] = g.src[a]
        BY <1>8, <4>1, <4>2
      <4> QED
        BY <1>3, <4>2, <4>3 DEF IsTaken
    <3>3. dist'[g.src[a]] = dist[g.src[a]]
      BY <1>7, <3>1, <3>2
    <3>4. CASE a = e
      <4>1. dist'[g.dst[a]] = Depth + 1 /\ dist'[g.src[a]] = Depth
        BY <1>2, <1>5, <1>7, <3>3, <3>4
      <4> QED
        BY <1>4, <2>1, <3>4, <4>1
    <3>5. CASE a # e
      <4>1. ~(g.src[a] = u /\ a >= e)
        BY <1>2, <2>4, <3>1, <3>5
      <4>2. dist[g.dst[a]] # -1
        BY <1>1, <3>2, <4>1 DEF IInv, CutInv
      <4>3. dist'[g.dst[a]] = dist[g.dst[a]]
        BY <1>7, <3>1, <4>2
      <4>4. /\ dist[g.dst[a]] <= dist[g.src[a]] + 1
            /\ dist[g.dst[a]] = dist[g.src[a]] + 1 => a \in LevelEdgeSet
        BY <1>1, <3>2, <4>1 DEF LevelGraphInv, ScannedInv
      <4> QED
        BY <2>1, <3>3, <4>3, <4>4
    <3> QED
      BY <3>4, <3>5
  <2> HIDE DEF v
  <2> QED
    BY <1>1, <2>3, <2>4 DEF ScannedInv
<1> QED
  BY <1>1, <1>10, <1>11 DEF LevelGraphInv, MarkedInv, LabelInv

LEMMA ScanEndKeepsLevels ==
  ASSUME IInv, LevelGraphInv, ScanEnd
  PROVE  LevelGraphInv'
<1>1. /\ pc = "scan" /\ pc' = "bfs" /\ e = g.ver[u + 1]
      /\ UNCHANGED <<g, flow, dist, queue, head, levelEnd, u, e, levelEdges>>
  BY DEF ScanEnd, callVars, searchVars
<1>2. Depth' = Depth
  BY <1>1 DEF Depth
<1>3. DepthInv'
  BY <1>1, <1>2 DEF LevelGraphInv, DepthInv
<1>4. \A a \in ResidualEdges(g, flow) : ~(g.src[a] = u /\ a >= e)
  BY <1>1, SlotIndexFacts, SlotFacts DEF IInv, TypeOK, ResidualEdges
<1>5. ScannedInv'
  BY <1>1, <1>4 DEF LevelGraphInv, ScannedInv, IsTaken, LevelEdgeSet
<1> QED
  BY <1>1, <1>3, <1>5 DEF LevelGraphInv, MarkedInv, LabelInv

\* What a finished search has found out: the distance of the sink and, if there is a
\* path, the whole level graph; every residual edge below the level of the sink has
\* been scanned.
LEMMA SearchResult ==
  ASSUME IInv, LevelGraphInv, pc = "bfs", head = levelEnd, SearchEnded
  PROVE  /\ dist[g.sink] = Distances(g, flow)[g.sink]
         /\ dist[g.sink] # -1 => LevelEdgeSet = LevelEdges(g, flow)
         /\ \A a \in ResidualEdges(g, flow) :
              dist[g.src[a]] \in 0 .. (dist[g.sink] - 1) =>
                /\ dist[g.dst[a]] \in 0 .. (dist[g.src[a]] + 1)
                /\ dist[g.dst[a]] = dist[g.src[a]] + 1 => a \in LevelEdgeSet
<1> DEFINE D == Distances(g, flow)
<1>1. /\ IsCase(g) /\ g.sink \in Nodes(g) /\ g.source \in Nodes(g)
      /\ \A a \in ResidualEdges(g, flow) : a \in Edges(g) /\ g.src[a] \in Nodes(g) /\ g.dst[a] \in Nodes(g)
  BY CaseFacts DEF IInv, TypeOK, IsCase, ResidualEdges
<1>2. /\ DOMAIN queue = 1 .. Len(queue) /\ Len(queue) \in Nat
      /\ head \in 0 .. Len(queue) /\ dist \in [Nodes(g) -> Nat \cup {-1}]
      /\ \A x \in Nodes(g) : dist[x] # -1 => \E k \in DOMAIN queue : queue[k] = x
  BY QueueFacts
<1>3. /\ Depth \in Nat \cup {-1}
      /\ \A k \in DOMAIN queue : k > head => dist[queue[k]] = Depth + 1
      /\ \A x \in Nodes(g) : dist[x] <= Depth + 1
      /\ dist[g.sink] \in {-1, Depth + 1}
  BY DepthFacts DEF LevelGraphInv, DepthInv
<1>4. \A x \in Nodes(g) : dist[x] = 0 <=> x = g.source
  BY DEF IInv, OrderInv, QueueInv
<1>5. ASSUME NEW x \in Nodes(g), dist[x] > 0
      PROVE  \E a \in ResidualEdges(g, flow) : g.dst[a] = x /\ dist[g.src[a]] = dist[x] - 1
  <2>1. PICK i \in DOMAIN levelEdges : g.dst[levelEdges[i]] = x
    BY <1>5 DEF IInv, OrderInv
  <2>2. levelEdges[i] \in ResidualEdges(g, flow)
    BY DEF LevelGraphInv, ScannedInv, LevelEdgeSet
  <2>3. dist[x] = dist[g.src[levelEdges[i]]] + 1
    BY <2>1 DEF IInv, LevelInv
  <2>4. dist[g.src[levelEdges[i]]] \in Nat \cup {-1}
    BY <1>1, <1>2, <2>2
  <2>5. dist[g.src[levelEdges[i]]] = dist[x] - 1
    BY <2>3, <2>4
  <2> QED
    BY <2>1, <2>2, <2>5
<1>6. ASSUME NEW a \in ResidualEdges(g, flow), IsTaken(g.src[a])
      PROVE  /\ dist[g.dst[a]] \in 0 .. (dist[g.src[a]] + 1)
             /\ dist[g.dst[a]] = dist[g.src[a]] + 1 => a \in LevelEdgeSet
  <2>1. dist[g.dst[a]] # -1
    BY <1>6 DEF IInv, CutInv
  <2>2. /\ dist[g.dst[a]] <= dist[g.src[a]] + 1
        /\ dist[g.dst[a]] = dist[g.src[a]] + 1 => a \in LevelEdgeSet
    BY <1>6 DEF LevelGraphInv, ScannedInv
  <2>3. dist[g.dst[a]] \in Nat \cup {-1} /\ dist[g.src[a]] \in Nat \cup {-1}
    BY <1>1, <1>2
  <2> QED
    BY <2>1, <2>2, <2>3
<1>7. CASE dist[g.sink] = -1
  <2>1. head = Len(queue)
    BY <1>7 DEF SearchEnded
  <2>2. \A x \in Nodes(g) : dist[x] # -1 => IsTaken(x)
    BY <1>2, <2>1 DEF IsTaken
  <2>3. ASSUME D[g.sink] # -1 PROVE FALSE
    <3>1. D[g.sink] \in Nat
      BY <1>1, <2>3, DistanceFacts
    <3>2. PICK K \in Nat : K = D[g.sink]
      BY <3>1
    <3>3. \A a \in ResidualEdges(g, flow) :
             dist[g.src[a]] \in 0 .. (K - 1) => dist[g.dst[a]] \in 0 .. (dist[g.src[a]] + 1)
      BY <1>1, <1>6, <2>2
    <3>4. \A x \in Nodes(g) : D[x] \in 0 .. K => dist[x] = D[x]
      <4>1. \A x \in Nodes(g) :
               dist[x] > 0 => \E a \in ResidualEdges(g, flow) :
                                 g.dst[a] = x /\ dist[g.src[a]] = dist[x] - 1
        BY <1>5
      <4>2. IsCase(g) /\ dist \in [Nodes(g) -> Nat \cup {-1}]
        BY <1>1, <1>2
      <4> QED
        BY ONLY <1>4, <3>2, <3>3, <4>1, <4>2, LabelsAreDistances
    <3>5. dist[g.sink] = D[g.sink]
      <4>1. D[g.sink] \in 0 .. K
        BY <3>1, <3>2
      <4> HIDE DEF D
      <4> QED
        BY <1>1, <3>4, <4>1
    <3> QED
      BY <1>7, <2>3, <3>5
  <2>4. D[g.sink] = -1
    BY <2>3
  <2>5. 0 .. (dist[g.sink] - 1) = {}
    BY <1>7
  <2> QED
    BY <1>7, <2>4, <2>5
<1>8. CASE dist[g.sink] # -1
  <2>1. PICK K \in Nat : K = dist[g.sink] /\ K = Depth + 1
    BY <1>1, <1>2, <1>3, <1>8
  <2>2. ASSUME NEW x \in Nodes(g), dist[x] \in 0 .. (K - 1) PROVE IsTaken(x)
    <3>1. PICK k \in DOMAIN queue : queue[k] = x
      BY <1>2, <2>2
    <3>2. ~(k > head)
      BY <1>3, <2>1, <2>2, <3>1
    <3> QED
      BY <1>2, <3>1, <3>2 DEF IsTaken
  <2>3. \A a \in ResidualEdges(g, flow) :
           dist[g.src[a]] \in 0 .. (K - 1) =>
             /\ dist[g.dst[a]] \in 0 .. (dist[g.src[a]] + 1)
             /\ dist[g.dst[a]] = dist[g.src[a]] + 1 => a \in LevelEdgeSet
    BY <1>1, <1>6, <2>2
  <2>4. \A x \in Nodes(g) : /\ dist[x] \in 0 .. K => D[x] = dist[x]
                            /\ D[x] \in 0 .. K => dist[x] = D[x]
    <3>1. \A a \in ResidualEdges(g, flow) :
             dist[g.src[a]] \in 0 .. (K - 1) => dist[g.dst[a]] \in 0 .. (dist[g.src[a]] + 1)
      BY <2>3
    <3>2. \A x \in Nodes(g) :
             dist[x] > 0 => \E a \in ResidualEdges(g, flow) :
                               g.dst[a] = x /\ dist[g.src[a]] = dist[x] - 1
      BY <1>5
    <3>3. IsCase(g) /\ dist \in [Nodes(g) -> Nat \cup {-1}]
      BY <1>1, <1>2
    <3> QED
      BY ONLY <1>4, <2>1, <3>1, <3>2, <3>3, LabelsAreDistances
  <2>5. D[g.sink] = K
    <3>1. dist[g.sink] \in 0 .. K
      BY <2>1
    <3> HIDE DEF D
    <3> QED
      BY <1>1, <2>1, <2>4, <3>1
  <2>6. D \in [Nodes(g) -> Nat \cup {-1}]
    BY <1>1, DistanceFacts
  <2>7. LevelEdges(g, flow) = {a \in ResidualEdges(g, flow) :
                                 D[g.src[a]] # -1 /\ D[g.dst[a]] = D[g.src[a]] + 1
                                   /\ D[g.dst[a]] <= D[g.sink]}
    BY DEF LevelEdges, LevelEdgesAt
  <2> HIDE DEF D
  <2>8. ASSUME NEW a \in LevelEdges(g, flow) PROVE a \in LevelEdgeSet
    <3>1. /\ a \in ResidualEdges(g, flow) /\ g.src[a] \in Nodes(g) /\ g.dst[a] \in Nodes(g)
          /\ D[g.src[a]] # -1 /\ D[g.dst[a]] = D[g.src[a]] + 1 /\ D[g.dst[a]] <= K
      BY <1>1, <2>5, <2>7
    <3>2. D[g.src[a]] \in 0 .. K /\ D[g.dst[a]] \in 0 .. K /\ D[g.src[a]] \in 0 .. (K - 1)
      BY <2>6, <3>1
    <3>3. dist[g.src[a]] = D[g.src[a]] /\ dist[g.dst[a]] = D[g.dst[a]]
      BY <2>4, <3>1, <3>2
    <3> QED
      BY <2>3, <3>1, <3>2, <3>3
  <2>9. ASSUME NEW a \in LevelEdgeSet PROVE a \in LevelEdges(g, flow)
    <3>1. PICK i \in DOMAIN levelEdges : levelEdges[i] = a
      BY DEF LevelEdgeSet
    <3>2. /\ a \in ResidualEdges(g, flow) /\ g.src[a] \in Nodes(g) /\ g.dst[a] \in Nodes(g)
      BY <1>1 DEF LevelGraphInv, ScannedInv
    <3>3. dist[g.src[a]] # -1 /\ dist[g.dst[a]] = dist[g.src[a]] + 1
      BY <3>1 DEF IInv, LevelInv
    <3>4. dist[g.dst[a]] <= K
      BY <1>3, <2>1, <3>2
    <3>5. dist[g.src[a]] \in Nat \cup {-1} /\ dist[g.dst[a]] \in Nat \cup {-1}
      BY <1>2, <3>2
    <3>6. dist[g.src[a]] \in 0 .. K /\ dist[g.dst[a]] \in 0 .. K
      BY <3>3, <3>4, <3>5
    <3>7. D[g.src[a]] = dist[g.src[a]] /\ D[g.dst[a]] = dist[g.dst[a]]
      BY <2>4, <3>2, <3>6
    <3> QED
      BY <2>5, <2>7, <3>2, <3>3, <3>4, <3>7
  <2>10. LevelEdgeSet = LevelEdges(g, flow)
    BY <2>8, <2>9
  <2> QED
    BY <2>1, <2>3, <2>5, <2>10 DEF D
<1> QED
  BY <1>7, <1>8

LEMMA BuildEndKeepsLevels ==
  ASSUME IInv, LevelGraphInv, BuildEnd
  PROVE  LevelGraphInv'
<1>1. /\ pc = "bfs" /\ head = levelEnd /\ SearchEnded /\ pc' \in {"tide", "done"}
      /\ UNCHANGED <<g, flow, dist, levelEdges>>
  BY DEF BuildEnd, callVars, searchVars
<1>2. \A a \in ResidualEdges(g, flow) :
         dist[g.src[a]] \in 0 .. (dist[g.sink] - 1) =>
           /\ dist[g.dst[a]] \in 0 .. (dist[g.src[a]] + 1)
           /\ dist[g.dst[a]] = dist[g.src[a]] + 1 => a \in LevelEdgeSet
  BY <1>1, SearchResult
<1>3. LevelEdgeSet' = LevelEdgeSet
  BY <1>1 DEF LevelEdgeSet
<1>4. LabelInv'
  BY <1>1, <1>2, <1>3 DEF LabelInv
<1> QED
  BY <1>1, <1>4, NotSearching

\* What pruning knows of the edges it starts from.
LEMMA LevelEdgesAreEdges ==
  ASSUME IInv
  PROVE  /\ IsCase(g) /\ LevelEdges(g, flow) \in SUBSET Edges(g)
         /\ g.sink \in CoReach(g, LevelEdges(g, flow))
         /\ \A a \in LevelEdges(g, flow) :
              g.dst[a] \in CoReach(g, LevelEdges(g, flow)) =>
                g.src[a] \in CoReach(g, LevelEdges(g, flow))
<1>1. IsCase(g)
  BY DEF IInv, TypeOK
<1>2. LevelEdges(g, flow) \in SUBSET Edges(g)
  BY DEF LevelEdges, LevelEdgesAt, ResidualEdges
<1> QED
  BY <1>1, <1>2, CoReachFacts

LEMMA PruneStartKeepsLevels ==
  ASSUME IInv, LevelGraphInv, PruneStart
  PROVE  LevelGraphInv'
<1>1. /\ pc = "bfs" /\ head = levelEnd /\ SearchEnded
      /\ \/ pc' = "reach" /\ reach' = {g.sink} /\ dist[g.sink] # -1
         \/ pc' = "done"
      /\ UNCHANGED <<g, flow, dist, levelEdges>>
  BY DEF PruneStart, callVars, searchVars
<1>2. /\ dist[g.sink] # -1 => LevelEdgeSet = LevelEdges(g, flow)
      /\ \A a \in ResidualEdges(g, flow) :
           dist[g.src[a]] \in 0 .. (dist[g.sink] - 1) =>
             /\ dist[g.dst[a]] \in 0 .. (dist[g.src[a]] + 1)
             /\ dist[g.dst[a]] = dist[g.src[a]] + 1 => a \in LevelEdgeSet
  BY <1>1, SearchResult
<1>3. LevelEdgeSet' = LevelEdgeSet
  BY <1>1 DEF LevelEdgeSet
<1>4. CASE pc' = "done"
  BY <1>4, NotSearching DEF LabelInv
<1>5. CASE pc' = "reach" /\ reach' = {g.sink} /\ dist[g.sink] # -1
  <2>1. MarkedInv'
    BY <1>1, <1>2, <1>3, <1>5, LevelEdgesAreEdges DEF MarkedInv
  <2>2. LabelInv'
    BY <1>1, <1>2, <1>5 DEF LabelInv
  <2> QED
    BY <1>5, <2>1, <2>2 DEF LevelGraphInv, DepthInv, ScannedInv
<1> QED
  BY <1>1, <1>4, <1>5

LEMMA MarkReachKeepsLevels ==
  ASSUME IInv, LevelGraphInv, MarkReach
  PROVE  LevelGraphInv'
<1> DEFINE a == levelEdges[idx]
<1>1. /\ pc = "reach" /\ pc' = "reach" /\ idx > 0
      /\ reach' = IF g.dst[a] \in reach THEN reach \cup {g.src[a]} ELSE reach
      /\ UNCHANGED <<g, flow, dist, levelEdges>>
  BY DEF MarkReach, callVars, searchVars
<1>2. idx \in DOMAIN levelEdges
  BY <1>1, LevelEdgesAreSequence DEF IInv, TypeOK, PromiseInv
<1>3. LevelEdgeSet = LevelEdges(g, flow) /\ reach \subseteq CoReach(g, LevelEdges(g, flow))
  BY <1>1 DEF LevelGraphInv, MarkedInv
<1>4. a \in LevelEdges(g, flow)
  BY <1>2, <1>3 DEF LevelEdgeSet
<1>5. reach' \subseteq CoReach(g, LevelEdges(g, flow))
  BY <1>1, <1>3, <1>4, LevelEdgesAreEdges
<1>6. LevelEdgeSet' = LevelEdgeSet
  BY <1>1 DEF LevelEdgeSet
<1>7. MarkedInv'
  BY <1>1, <1>3, <1>5, <1>6 DEF MarkedInv
<1>8. LabelInv'
  BY <1>1 DEF LevelGraphInv, LabelInv
<1> QED
  BY <1>1, <1>7, <1>8 DEF LevelGraphInv, DepthInv, ScannedInv

\* The backward pass is over: all nodes that lead to the sink have been marked.
LEMMA MarkEndKeepsLevels ==
  ASSUME IInv, LevelGraphInv, MarkEnd
  PROVE  LevelGraphInv'
<1>1. /\ pc = "reach" /\ idx = 0 /\ pc' = "compact" /\ idx' = 1 /\ write' = 0
      /\ UNCHANGED <<g, flow, dist, levelEdges, reach>>
  BY DEF MarkEnd, callVars, searchVars
<1>2. DOMAIN levelEdges = 1 .. Len(levelEdges) /\ Len(levelEdges) \in Nat
  BY LevelEdgesAreSequence
<1>3. LevelEdgeSet = LevelEdges(g, flow) /\ reach \subseteq CoReach(g, LevelEdges(g, flow))
  BY <1>1 DEF LevelGraphInv, MarkedInv
<1>4. /\ g.sink \in reach
      /\ \A i \in DOMAIN levelEdges : g.dst[levelEdges[i]] \in reach => g.src[levelEdges[i]] \in reach
  BY <1>1, <1>2 DEF IInv, ReachInv
<1>5. \A a \in LevelEdges(g, flow) : g.dst[a] \in reach => g.src[a] \in reach
  BY <1>3, <1>4 DEF LevelEdgeSet
<1>6. CoReach(g, LevelEdges(g, flow)) \subseteq reach
  BY <1>4, <1>5, LevelEdgesAreEdges, CoReachIsLeast
<1>7. Live' = DOMAIN levelEdges
  BY <1>1, <1>2 DEF Live
<1>8. MarkedInv'
  BY <1>1, <1>3, <1>6, <1>7 DEF MarkedInv, LevelEdgeSet
<1>9. LabelInv'
  BY <1>1 DEF LevelGraphInv, LabelInv
<1> QED
  BY <1>1, <1>8, <1>9 DEF LevelGraphInv, DepthInv, ScannedInv

\* Whatever the solver does to p[] besides.
LEMMA CompactKeepsLevels ==
  ASSUME IInv, LevelGraphInv, Compact
  PROVE  LevelGraphInv'
<1> DEFINE n == Len(levelEdges)
<1>1. /\ pc = "compact" /\ pc' = "compact" /\ idx <= n /\ idx' = idx + 1
      /\ \/ /\ IsKept(levelEdges[idx]) /\ write' = write + 1
            /\ levelEdges' = [levelEdges EXCEPT ![write + 1] = levelEdges[idx]]
         \/ ~IsKept(levelEdges[idx]) /\ levelEdges' = levelEdges /\ write' = write
      /\ UNCHANGED <<g, flow, dist, reach>>
  BY DEF Compact, callVars, searchVars
<1>2. /\ n \in Nat /\ idx \in 1 .. n /\ write \in Nat /\ write < idx
      /\ levelEdges \in Seq(Edges(g)) /\ DOMAIN levelEdges = 1 .. n
  BY <1>1, SMTT(30) DEF IInv, TypeOK, NoRepeatInv
<1>3. /\ reach = CoReach(g, LevelEdges(g, flow))
      /\ \A i \in Live : levelEdges[i] \in LevelEdges(g, flow)
      /\ \A i \in 1 .. write : IsKept(levelEdges[i])
      /\ \A a \in LevelEdges(g, flow) : IsKept(a) => \E i \in Live : levelEdges[i] = a
  BY <1>1 DEF LevelGraphInv, MarkedInv
<1>4. /\ Len(levelEdges') = n /\ write' \in Nat /\ write' <= idx
      /\ \A i \in 1 .. n : i # write' => levelEdges'[i] = levelEdges[i]
      /\ \/ write' = write /\ levelEdges' = levelEdges /\ ~IsKept(levelEdges[idx])
         \/ /\ write' = write + 1 /\ levelEdges'[write'] = levelEdges[idx]
            /\ IsKept(levelEdges[idx])
  BY <1>1, <1>2, SMTT(30)
<1>5. Live = (1 .. write) \cup (idx .. n) /\ Live' = (1 .. write') \cup ((idx + 1) .. n)
  BY <1>1, <1>4 DEF Live
<1>6. ASSUME NEW i \in Live'
      PROVE  /\ levelEdges'[i] \in LevelEdges(g, flow)
             /\ i \in 1 .. write' => IsKept(levelEdges'[i])
  <2>1. CASE i = write' /\ write' = write + 1
    BY <1>2, <1>3, <1>4, <1>5, <2>1
  <2>2. CASE ~(i = write' /\ write' = write + 1)
    <3>1. i \in Live /\ levelEdges'[i] = levelEdges[i] /\ (i \in 1 .. write' => i \in 1 .. write)
      BY <1>2, <1>4, <1>5, <2>2
    <3> QED
      BY <1>3, <3>1
  <2> QED
    BY <2>1, <2>2
<1>7. ASSUME NEW a \in LevelEdges(g, flow), IsKept(a)
      PROVE  \E i \in Live' : levelEdges'[i] = a
  <2>1. PICK i \in Live : levelEdges[i] = a
    BY <1>3, <1>7
  <2>2. CASE i = idx
    <3>1. write' = write + 1 /\ levelEdges'[write'] = a
      BY <1>4, <1>7, <2>1, <2>2
    <3>2. write' \in Live'
      BY <1>2, <1>5, <3>1
    <3> QED
      BY <3>1, <3>2
  <2>3. CASE i # idx
    <3>1. i \in Live' /\ levelEdges'[i] = levelEdges[i]
      BY <1>2, <1>4, <1>5, <2>3
    <3> QED
      BY <2>1, <3>1
  <2> QED
    BY <2>2, <2>3
<1>8. MarkedInv'
  <2>1. \A i \in 1 .. write' : i \in Live'
    BY <1>5
  <2>2. \A i \in 1 .. write' : g.src[levelEdges'[i]] \in reach /\ g.dst[levelEdges'[i]] \in reach
    BY <1>6, <2>1 DEF IsKept
  <2>3. \A a \in LevelEdges(g, flow) :
           g.src[a] \in reach /\ g.dst[a] \in reach => \E i \in Live' : levelEdges'[i] = a
    BY <1>7 DEF IsKept
  <2> QED
    BY <1>1, <1>3, <1>6, <2>2, <2>3 DEF MarkedInv, IsKept
<1>9. LabelInv'
  BY <1>1 DEF LevelGraphInv, LabelInv
<1> QED
  BY <1>1, <1>8, <1>9 DEF LevelGraphInv, DepthInv, ScannedInv

\* What is left after the compaction are the edges on shortest augmenting paths.
LEMMA PrunedIsExact ==
  ASSUME IInv, LevelGraphInv, CompactEnd
  PROVE  LevelEdgeSet' = ShortestPathEdges(g, flow)
<1>1. /\ pc = "compact" /\ idx > Len(levelEdges)
      /\ write \in 1 .. Len(levelEdges) /\ levelEdges' \in Seq(Edges(g)) /\ Len(levelEdges') = write
      /\ \A i \in 1 .. write : i \in DOMAIN levelEdges /\ levelEdges'[i] = levelEdges[i]
  BY CompactEndFacts DEF CompactEnd
<1>2. Len(levelEdges) \in Nat /\ idx \in Nat
  BY DEF IInv, TypeOK
<1>3. Live = 1 .. write /\ DOMAIN levelEdges' = 1 .. write
  BY <1>1, <1>2 DEF Live
<1>4. LevelEdgeSet' = {levelEdges[i] : i \in Live}
  BY <1>1, <1>3 DEF LevelEdgeSet
<1>5. /\ reach = CoReach(g, LevelEdges(g, flow))
      /\ \A i \in Live : levelEdges[i] \in LevelEdges(g, flow) /\ IsKept(levelEdges[i])
      /\ \A a \in LevelEdges(g, flow) : IsKept(a) => \E i \in Live : levelEdges[i] = a
  BY <1>1, <1>3 DEF LevelGraphInv, MarkedInv
<1>6. ShortestPathEdges(g, flow) = {a \in LevelEdges(g, flow) : IsKept(a)}
  BY <1>5 DEF ShortestPathEdges, Between, IsKept
<1> QED
  BY <1>4, <1>5, <1>6

LEMMA CompactEndKeepsLevels ==
  ASSUME IInv, LevelGraphInv, CompactEnd
  PROVE  LevelGraphInv'
<1> DEFINE E == LevelEdges(g, flow)
<1> DEFINE K == ShortestPathEdges(g, flow)
<1>1. /\ pc = "compact" /\ pc' = "tide" /\ UNCHANGED <<g, flow, dist>>
  BY CompactEndFacts DEF CompactEnd, callVars, searchVars
<1>2. LevelEdgeSet' = K
  BY PrunedIsExact
<1>3. K = {a \in E : g.src[a] \in CoReach(g, E) /\ g.dst[a] \in CoReach(g, E)}
  BY DEF ShortestPathEdges, Between
<1>4. /\ IsCase(g) /\ E \in SUBSET Edges(g) /\ g.sink \in CoReach(g, E)
      /\ \A a \in E : g.dst[a] \in CoReach(g, E) => g.src[a] \in CoReach(g, E)
  BY LevelEdgesAreEdges
<1>5. \A a \in ResidualEdges(g, flow) :
        dist[g.src[a]] \in 0 .. (dist[g.sink] - 1) =>
          /\ dist[g.dst[a]] \in 0 .. (dist[g.src[a]] + 1)
          /\ dist[g.dst[a]] = dist[g.src[a]] + 1 => a \in E
  BY <1>1 DEF LevelGraphInv, LabelInv
<1> HIDE DEF E, K
<1>6. CoReach(g, K) \subseteq CoReach(g, E)
  <2>1. K \in SUBSET Edges(g)
    BY <1>3, <1>4
  <2>2. \A a \in K : g.dst[a] \in CoReach(g, E) => g.src[a] \in CoReach(g, E)
    BY <1>3
  <2> QED
    BY <1>4, <2>1, <2>2, CoReachIsLeast
<1>7. \A a \in E : g.dst[a] \in CoReach(g, K) => a \in K
  BY <1>3, <1>4, <1>6
<1>8. LabelInv'
  BY <1>1, <1>2, <1>5, <1>7 DEF LabelInv
<1> QED
  BY <1>1, <1>8, NotSearching

\* The tides and the drivers leave the level graph and the flow alone ...
LEMMA TidesKeepLevels ==
  ASSUME LevelGraphInv,
         pc \in {"tide", "high", "low", "erosion", "returned", "build"},
         pc' \in {"tide", "high", "low", "erosion", "returned", "build"},
         UNCHANGED <<g, flow, dist, levelEdges>>
  PROVE  LevelGraphInv'
<1>1. LevelEdgeSet' = LevelEdgeSet
  BY DEF LevelEdgeSet
<1>2. LabelInv'
  BY <1>1 DEF LevelGraphInv, LabelInv
<1> QED
  BY <1>2, NotSearching

\* ... but for an erosion: the residual edges it makes lead one level back.
LEMMA ErosionKeepsLevels ==
  ASSUME IInv, LevelGraphInv, Erosion
  PROVE  LevelGraphInv'
<1>0. PICK a, b, x, y, amount : ErosionStep(a, b, x, y, amount)
  BY ErosionFacts
<1>1. /\ pc = "erosion" /\ pc' = pc /\ a = levelEdges[idx] /\ idx \in DOMAIN levelEdges
      /\ UNCHANGED <<g, dist, levelEdges>>
      /\ a \in Edges(g) /\ b \in Edges(g) /\ a # b /\ g.src[b] = y /\ g.dst[b] = x
      /\ g.src[a] = x /\ g.dst[a] = y /\ x \in Nodes(g) /\ y \in Nodes(g)
      /\ IsCase(g)
  BY <1>0 DEF ErosionStep
<1>2. /\ flow \in [Edges(g) -> Int] /\ flow' \in [Edges(g) -> Int] /\ amount \in Nat
      /\ flow'[a] = flow[a] + amount
      /\ \A c \in Edges(g) : c # a /\ c # b => flow'[c] = flow[c]
  BY <1>0 DEF ErosionStep
<1>3. dist \in [Nodes(g) -> Nat \cup {-1}]
  BY DEF IInv, TypeOK
<1>4. dist[x] \in Nat /\ dist[y] = dist[x] + 1
  <2>1. dist[g.src[a]] # -1 /\ dist[g.dst[a]] = dist[g.src[a]] + 1
    BY <1>1 DEF IInv, LevelInv
  <2> QED
    BY <1>1, <1>3, <2>1
<1>5. LevelEdgeSet' = LevelEdgeSet
  BY <1>1 DEF LevelEdgeSet
<1>6. \A c \in ResidualEdges(g, flow) :
        dist[g.src[c]] \in 0 .. (dist[g.sink] - 1) =>
          /\ dist[g.dst[c]] \in 0 .. (dist[g.src[c]] + 1)
          /\ dist[g.dst[c]] = dist[g.src[c]] + 1 =>
               (g.dst[c] \in CoReach(g, LevelEdgeSet) => c \in LevelEdgeSet)
  BY <1>1 DEF LevelGraphInv, LabelInv
<1>7. ASSUME NEW c \in ResidualEdges(g, flow'), c # b
      PROVE  c \in ResidualEdges(g, flow)
  <2>1. c \in Edges(g) /\ g.capacity[c] - flow'[c] > 0 /\ g.capacity[c] \in Nat
    BY <1>1, SlotFacts DEF ResidualEdges, Residual
  <2>2. CASE c = a
    <3>1. g.capacity[c] - flow[c] > 0
      BY <1>2, <2>1, <2>2
    <3> QED
      BY <2>1, <3>1 DEF ResidualEdges, Residual
  <2>3. CASE c # a
    BY <1>2, <1>7, <2>1, <2>3 DEF ResidualEdges, Residual
  <2> QED
    BY <2>2, <2>3
<1>8. ASSUME NEW c \in ResidualEdges(g, flow'), dist[g.src[c]] \in 0 .. (dist[g.sink] - 1)
      PROVE  /\ dist[g.dst[c]] \in 0 .. (dist[g.src[c]] + 1)
             /\ dist[g.dst[c]] = dist[g.src[c]] + 1 =>
                  (g.dst[c] \in CoReach(g, LevelEdgeSet) => c \in LevelEdgeSet)
  <2>1. CASE c = b
    BY <1>1, <1>4, <2>1
  <2>2. CASE c # b
    BY <1>6, <1>7, <1>8, <2>2
  <2> QED
    BY <2>1, <2>2
<1>9. LabelInv'
  <2>1. pc' \notin {"alloc", "reach", "compact"}
    BY <1>1
  <2> QED
    BY <1>1, <1>5, <1>8, <2>1 DEF LabelInv
<1> QED
  BY <1>1, <1>9, NotSearching

LEMMA AllocateKeepsLevels ==
  ASSUME IInv, LevelGraphInv, Allocate
  PROVE  LevelGraphInv'
<1>1. pc = "alloc" /\ pc' \in {"build", "failed"} /\ UNCHANGED <<g, flow, dist>>
  BY DEF Allocate, searchVars
<1>2. 0 .. (dist[g.sink] - 1) = {}
  BY <1>1 DEF LevelGraphInv, LabelInv
<1>3. LabelInv'
  BY <1>1, <1>2 DEF LabelInv
<1> QED
  BY <1>1, <1>3, NotSearching

LEMMA InitEstablishesLevels == Init => LevelGraphInv
<1> SUFFICES ASSUME Init PROVE LevelGraphInv
  OBVIOUS
<1>1. pc = "alloc" /\ dist[g.sink] = -1
  <2>1. g.sink \in Nodes(g)
    BY CasesAssumption DEF Init, IsCase
  <2> QED
    BY <2>1 DEF Init
<1> QED
  BY <1>1 DEF LevelGraphInv, DepthInv, ScannedInv, MarkedInv, LabelInv

LEMMA StutterKeepsLevels ==
  ASSUME LevelGraphInv, UNCHANGED vars
  PROVE  LevelGraphInv'
<1>1. /\ UNCHANGED <<g, flow, pc, dist, queue, head, levelEnd, u, e>>
      /\ UNCHANGED <<levelEdges, idx, write, reach>>
  BY DEF vars, callVars, searchVars, pruneVars
<1>2. UNCHANGED <<Depth, LevelEdgeSet, Live>>
  BY <1>1 DEF Depth, LevelEdgeSet, Live
<1>3. DepthInv'
  BY <1>1, <1>2 DEF LevelGraphInv, DepthInv
<1>4. ScannedInv'
  BY <1>1, <1>2 DEF LevelGraphInv, ScannedInv, IsTaken
<1>5. MarkedInv'
  BY <1>1, <1>2 DEF LevelGraphInv, MarkedInv, IsKept
<1>6. LabelInv'
  BY <1>1, <1>2 DEF LevelGraphInv, LabelInv
<1> QED
  BY <1>3, <1>4, <1>5, <1>6 DEF LevelGraphInv

LEMMA CommonStepKeepsLevels ==
  ASSUME IInv, LevelGraphInv, [CommonStep]_vars
  PROVE  LevelGraphInv'
<1>1. CASE \/ TideStart \/ HighTide \/ HighTideEnd \/ LowTide \/ LowTideEnd \/ ErosionEnd
           \/ AddAndRebuild \/ AddAndRepeat \/ Rebuild
  <2>1. /\ pc \in {"tide", "high", "low", "erosion", "returned", "build"}
        /\ pc' \in {"tide", "high", "low", "erosion", "returned", "build"}
        /\ UNCHANGED <<g, flow, dist, levelEdges>>
    BY <1>1 DEF TideStart, HighTide, HighTideEnd, LowTide, LowTideEnd, ErosionEnd, AddAndRebuild,
                AddAndRepeat, Rebuild, callVars, searchVars
  <2> QED
    BY <2>1, TidesKeepLevels
<1>2. CASE BuildStart \/ NextLevel \/ Dequeue \/ SkipEdge \/ RecordEdge \/ ScanEnd \/ BuildEnd
  BY <1>2, StartKeepsLevels, NextLevelKeepsLevels, DequeueKeepsLevels, SkipEdgeKeepsLevels,
     RecordKeepsLevels, ScanEndKeepsLevels, BuildEndKeepsLevels DEF BuildStart, RecordEdge
<1>3. CASE PruneStart \/ MarkReach \/ MarkEnd \/ CompactEdge \/ CompactEnd
  BY <1>3, PruneStartKeepsLevels, MarkReachKeepsLevels, MarkEndKeepsLevels, CompactKeepsLevels,
     CompactEndKeepsLevels DEF CompactEdge
<1> QED
  BY <1>1, <1>2, <1>3, AllocateKeepsLevels, ErosionKeepsLevels, StutterKeepsLevels DEF CommonStep

-------------------------------------------------------------------------------
(* What the tides carry: every action the sequential solvers share         *)
(* preserves MassInv of TidalSeq, given IInv before and after the step.    *)

\* The positions of I that leave x, and those that enter it.
Leave(x, I) == {i \in I : g.src[levelEdges[i]] = x}

Enter(x, I) == {i \in I : g.dst[levelEdges[i]] = x}

LEMMA CarriedIsSum ==
  ASSUME NEW x, NEW I
  PROVE  Outgoing(x, I) = SumOver(p, Leave(x, I)) /\ Incoming(x, I) = SumOver(p, Enter(x, I))
BY DEF Outgoing, Incoming, Leave, Enter

\* A sum of natural numbers that is not 0 has a term that is not 0.
LEMMA SomeTermIsPositive ==
  ASSUME NEW f, NEW S, IsFiniteSet(S), \A x \in S : f[x] \in Nat, SumOver(f, S) > 0
  PROVE  \E x \in S : f[x] > 0
<1>1. SUFFICES ASSUME \A x \in S : ~(f[x] > 0) PROVE FALSE
  OBVIOUS
<1>2. \A x \in S : f[x] = 0
  BY <1>1
<1>3. SumOver(f, S) = 0
  BY <1>2, SumOfZeros
<1> QED
  BY <1>3

\* What the invariant says of the promises of a set of positions.
LEMMA PositionFacts ==
  ASSUME IInv, NEW I \in SUBSET DOMAIN levelEdges, NEW x
  PROVE  /\ \A i \in I : i \in Nat /\ p[i] \in Nat /\ p[i] \in Int
         /\ IsFiniteSet(Leave(x, I)) /\ IsFiniteSet(Enter(x, I))
         /\ Leave(x, I) \subseteq I /\ Enter(x, I) \subseteq I
         /\ Outgoing(x, I) \in Nat /\ Incoming(x, I) \in Nat
<1>1. DOMAIN levelEdges = 1 .. Len(levelEdges) /\ Len(levelEdges) \in Nat
  BY LevelEdgesAreSequence
<1>2. ASSUME NEW i \in I
      PROVE  i \in Nat /\ p[i] \in Nat /\ p[i] \in Int
  <2>1. i \in DOMAIN levelEdges /\ i \in Nat
    BY <1>1
  <2>2. i \in 1 .. g.edgeCount
    BY <2>1, LevelEdgeFacts
  <2> QED
    BY <2>1, <2>2 DEF IInv, TypeOK
<1>3. Leave(x, I) \subseteq I /\ Enter(x, I) \subseteq I
  BY DEF Leave, Enter
<1>4. IsFiniteSet(Leave(x, I)) /\ IsFiniteSet(Enter(x, I))
  <2>1. IsFiniteSet(1 .. Len(levelEdges))
    BY <1>1, FS_Interval
  <2> QED
    BY <1>1, <1>3, <2>1, FS_Subset
<1>5. SumOver(p, Leave(x, I)) \in Nat /\ SumOver(p, Enter(x, I)) \in Nat
  BY <1>2, <1>3, <1>4, SumOfNaturals
<1> QED
  BY <1>2, <1>3, <1>4, <1>5, CarriedIsSum

\* One position more.
LEMMA OnePositionMore ==
  ASSUME IInv, NEW J \in SUBSET DOMAIN levelEdges, NEW m \in DOMAIN levelEdges, m \notin J,
         NEW x
  PROVE  /\ Outgoing(x, J \cup {m}) = Outgoing(x, J) + (IF g.src[levelEdges[m]] = x THEN p[m] ELSE 0)
         /\ Incoming(x, J \cup {m}) = Incoming(x, J) + (IF g.dst[levelEdges[m]] = x THEN p[m] ELSE 0)
<1> DEFINE I == J \cup {m}
<1>1. \A i \in I : p[i] \in Int
  BY PositionFacts
<1>2. /\ IsFiniteSet(Leave(x, J)) /\ IsFiniteSet(Enter(x, J))
      /\ Leave(x, J) \subseteq J /\ Enter(x, J) \subseteq J
  BY PositionFacts
<1>3. Outgoing(x, J) \in Nat /\ Incoming(x, J) \in Nat /\ p[m] \in Nat
  BY PositionFacts
<1>4. Outgoing(x, I) = Outgoing(x, J) + (IF g.src[levelEdges[m]] = x THEN p[m] ELSE 0)
  <2>1. CASE g.src[levelEdges[m]] = x
    <3>1. Leave(x, I) = Leave(x, J) \cup {m}
      BY <2>1 DEF Leave
    <3>2. SumOver(p, Leave(x, J) \cup {m}) = p[m] + SumOver(p, Leave(x, J))
      BY <1>1, <1>2, SumInsert
    <3>3. Outgoing(x, I) = p[m] + Outgoing(x, J)
      BY <3>1, <3>2, CarriedIsSum
    <3> QED
      BY <1>3, <2>1, <3>3
  <2>2. CASE g.src[levelEdges[m]] # x
    <3>1. Leave(x, I) = Leave(x, J)
      BY <2>2 DEF Leave
    <3>2. Outgoing(x, I) = Outgoing(x, J)
      BY <3>1, CarriedIsSum
    <3> QED
      BY <1>3, <2>2, <3>2
  <2> QED
    BY <2>1, <2>2
<1>5. Incoming(x, I) = Incoming(x, J) + (IF g.dst[levelEdges[m]] = x THEN p[m] ELSE 0)
  <2>1. CASE g.dst[levelEdges[m]] = x
    <3>1. Enter(x, I) = Enter(x, J) \cup {m}
      BY <2>1 DEF Enter
    <3>2. SumOver(p, Enter(x, J) \cup {m}) = p[m] + SumOver(p, Enter(x, J))
      BY <1>1, <1>2, SumInsert
    <3>3. Incoming(x, I) = p[m] + Incoming(x, J)
      BY <3>1, <3>2, CarriedIsSum
    <3> QED
      BY <1>3, <2>1, <3>3
  <2>2. CASE g.dst[levelEdges[m]] # x
    <3>1. Enter(x, I) = Enter(x, J)
      BY <2>2 DEF Enter
    <3>2. Incoming(x, I) = Incoming(x, J)
      BY <3>1, CarriedIsSum
    <3> QED
      BY <1>3, <2>2, <3>2
  <2> QED
    BY <2>1, <2>2
<1> QED
  BY <1>4, <1>5

\* Positions that have kept their slot and their promise carry what they did.
LEMMA CarriedIsSame ==
  ASSUME IInv, UNCHANGED g, NEW I \in SUBSET DOMAIN levelEdges,
         \A i \in I : levelEdges'[i] = levelEdges[i] /\ p'[i] = p[i], NEW x
  PROVE  Outgoing(x, I)' = Outgoing(x, I) /\ Incoming(x, I)' = Incoming(x, I)
<1>1. /\ \A i \in I : p[i] \in Int
      /\ IsFiniteSet(Leave(x, I)) /\ IsFiniteSet(Enter(x, I))
      /\ Leave(x, I) \subseteq I /\ Enter(x, I) \subseteq I
  BY PositionFacts
<1>2. /\ SumOver(p', Leave(x, I)) = SumOver(p, Leave(x, I))
      /\ SumOver(p', Enter(x, I)) = SumOver(p, Enter(x, I))
  BY <1>1, SumSame
<1>3. /\ {i \in I : g'.src[levelEdges'[i]] = x} = Leave(x, I)
      /\ {i \in I : g'.dst[levelEdges'[i]] = x} = Enter(x, I)
  BY DEF Leave, Enter
<1>4. /\ Outgoing(x, I)' = SumOver(p', {i \in I : g'.src[levelEdges'[i]] = x})
      /\ Incoming(x, I)' = SumOver(p', {i \in I : g'.dst[levelEdges'[i]] = x})
  BY DEF Outgoing, Incoming
<1> QED
  BY <1>2, <1>3, <1>4, CarriedIsSum

\* One position more than J: m, at which slot a has just got its promise.
OneMore(J, m, a) ==
  /\ UNCHANGED g
  /\ J \in SUBSET DOMAIN levelEdges
  /\ m \notin J
  /\ \A i \in J : levelEdges'[i] = levelEdges[i] /\ p'[i] = p[i]
  /\ levelEdges'[m] = a
  /\ p'[m] \in Nat

LEMMA OneChangedMore ==
  ASSUME IInv, NEW J, NEW m, NEW a, OneMore(J, m, a)
  PROVE  /\ \A n : Outgoing(n, J \cup {m})' = Outgoing(n, J) + (IF n = g.src[a] THEN p'[m] ELSE 0)
         /\ \A n : Incoming(n, J \cup {m})' = Incoming(n, J) + (IF n = g.dst[a] THEN p'[m] ELSE 0)
<1> SUFFICES ASSUME NEW x
             PROVE  /\ Outgoing(x, J \cup {m})' = Outgoing(x, J) + (IF x = g.src[a] THEN p'[m] ELSE 0)
                    /\ Incoming(x, J \cup {m})' = Incoming(x, J) + (IF x = g.dst[a] THEN p'[m] ELSE 0)
  OBVIOUS
<1> DEFINE I == J \cup {m}
<1> DEFINE L == {i \in I : g'.src[levelEdges'[i]] = x}
<1> DEFINE E == {i \in I : g'.dst[levelEdges'[i]] = x}
<1>0. /\ UNCHANGED g /\ J \in SUBSET DOMAIN levelEdges /\ m \notin J
      /\ \A i \in J : levelEdges'[i] = levelEdges[i] /\ p'[i] = p[i]
      /\ levelEdges'[m] = a /\ p'[m] \in Nat
  BY DEF OneMore
<1>1. \A i \in I : p'[i] \in Int
  <2>1. \A i \in J : p[i] \in Int
    BY <1>0, PositionFacts
  <2> QED
    BY <1>0, <2>1
<1>2. /\ IsFiniteSet(Leave(x, J)) /\ IsFiniteSet(Enter(x, J))
      /\ Leave(x, J) \subseteq J /\ Enter(x, J) \subseteq J
      /\ Outgoing(x, J) \in Nat /\ Incoming(x, J) \in Nat
  BY <1>0, PositionFacts
<1>3. /\ SumOver(p', Leave(x, J)) = Outgoing(x, J)
      /\ SumOver(p', Enter(x, J)) = Incoming(x, J)
  <2>1. \A i \in J : p[i] \in Int
    BY <1>0, PositionFacts
  <2>2. /\ SumOver(p', Leave(x, J)) = SumOver(p, Leave(x, J))
        /\ SumOver(p', Enter(x, J)) = SumOver(p, Enter(x, J))
    BY <1>0, <1>2, <2>1, SumSame
  <2> QED
    BY <2>2, CarriedIsSum
<1>4. Outgoing(x, I)' = SumOver(p', L) /\ Incoming(x, I)' = SumOver(p', E)
  BY DEF Outgoing, Incoming
<1>5. Outgoing(x, I)' = Outgoing(x, J) + (IF x = g.src[a] THEN p'[m] ELSE 0)
  <2>1. CASE x = g.src[a]
    <3>1. L = Leave(x, J) \cup {m}
      BY <1>0, <2>1 DEF Leave
    <3>2. SumOver(p', Leave(x, J) \cup {m}) = p'[m] + SumOver(p', Leave(x, J))
      BY <1>0, <1>1, <1>2, SumInsert
    <3> HIDE DEF L
    <3>3. Outgoing(x, I)' = p'[m] + Outgoing(x, J)
      BY <1>3, <1>4, <3>1, <3>2
    <3> QED
      BY <1>0, <1>2, <2>1, <3>3
  <2>2. CASE x # g.src[a]
    <3>1. L = Leave(x, J)
      BY <1>0, <2>2 DEF Leave
    <3> HIDE DEF L
    <3>2. Outgoing(x, I)' = Outgoing(x, J)
      BY <1>3, <1>4, <3>1
    <3> QED
      BY <1>2, <2>2, <3>2
  <2> QED
    BY <2>1, <2>2
<1>6. Incoming(x, I)' = Incoming(x, J) + (IF x = g.dst[a] THEN p'[m] ELSE 0)
  <2>1. CASE x = g.dst[a]
    <3>1. E = Enter(x, J) \cup {m}
      BY <1>0, <2>1 DEF Enter
    <3>2. SumOver(p', Enter(x, J) \cup {m}) = p'[m] + SumOver(p', Enter(x, J))
      BY <1>0, <1>1, <1>2, SumInsert
    <3> HIDE DEF E
    <3>3. Incoming(x, I)' = p'[m] + Incoming(x, J)
      BY <1>3, <1>4, <3>1, <3>2
    <3> QED
      BY <1>0, <1>2, <2>1, <3>3
  <2>2. CASE x # g.dst[a]
    <3>1. E = Enter(x, J)
      BY <1>0, <2>2 DEF Enter
    <3> HIDE DEF E
    <3>2. Incoming(x, I)' = Incoming(x, J)
      BY <1>3, <1>4, <3>1
    <3> QED
      BY <1>2, <2>2, <3>2
  <2> QED
    BY <2>1, <2>2
<1> QED
  BY <1>5, <1>6

\* No position carries anything.
LEMMA NothingCarried ==
  ASSUME NEW x
  PROVE  /\ Outgoing(x, {}) = 0 /\ Incoming(x, {}) = 0
<1>1. Leave(x, {}) = {} /\ Enter(x, {}) = {}
  BY DEF Leave, Enter
<1> QED
  BY <1>1, CarriedIsSum, SumOfNone

LEMMA InitEstablishesMass == Init => MassInv
<1> SUFFICES ASSUME Init PROVE MassInv
  OBVIOUS
<1>1. IsCase(g) /\ IInv
  BY InitEstablishesInvariant DEF IInv, TypeOK
<1>2. ConservationInv
  <2> SUFFICES ASSUME NEW x \in Nodes(g) PROVE NetOutflow(g, flow, x) = 0
    <3>1. pc = "alloc" /\ maxFlow = 0
      BY DEF Init
    <3> QED
      BY <3>1 DEF ConservationInv, TakenOut, BroughtIn
  <2>1. Out(g, x) \subseteq Edges(g) /\ IsFiniteSet(Out(g, x))
    BY <1>1, NetworkIsFinite DEF Out
  <2>2. \A a \in Out(g, x) : flow[a] = 0
    BY <2>1 DEF Init
  <2> QED
    BY <2>1, <2>2, SumOfZeros, NetOutflowIsSum
<1>3. SortedInv /\ RisenInv /\ DemandInv /\ ErosionInv /\ BlockedInv
  BY DEF Init, SortedInv, RisenInv, DemandInv, ErosionInv, BlockedInv, Live
<1> QED
  BY <1>2, <1>3 DEF MassInv

-------------------------------------------------------------------------------
(* Steps without a tide.                                                   *)

Searching == {"alloc", "build", "bfs", "scan", "reach", "compact", "tide", "high", "low"}

\* As long as no flow is sent and no value is added, the balances stand.
LEMMA BalancesStand ==
  ASSUME ConservationInv, pc \in Searching, pc' \in (Searching \ {"alloc"}) \cup {"done"},
         UNCHANGED <<g, flow, maxFlow>>
  PROVE  ConservationInv'
<1>1. /\ pc # "failed" /\ pc' \notin {"alloc", "failed"}
      /\ pc \notin {"erosion", "returned"} /\ pc' \notin {"erosion", "returned"}
  BY DEF Searching
<1>2. TakenOut = 0 /\ TakenOut' = 0 /\ BroughtIn = 0 /\ BroughtIn' = 0
  BY <1>1 DEF TakenOut, BroughtIn
<1>3. \A x : NetOutflow(g, flow, x)' = NetOutflow(g, flow, x)
  OBVIOUS
<1> QED
  BY <1>1, <1>2, <1>3 DEF ConservationInv

LEMMA NoTideNoClaim ==
  ASSUME pc' \notin {"high", "low", "erosion", "returned"}
  PROVE  RisenInv' /\ DemandInv' /\ ErosionInv' /\ BlockedInv'
BY DEF RisenInv, DemandInv, ErosionInv, BlockedInv

LEMMA SearchKeepsMass ==
  ASSUME IInv, IInv', MassInv,
         Start \/ NextLevel \/ Dequeue \/ SkipEdge \/ Record \/ ScanEnd \/ MarkReach
  PROVE  MassInv'
<1>1. /\ pc \in Searching /\ pc' \in {"bfs", "scan", "reach"}
      /\ UNCHANGED <<g, flow, maxFlow>>
  BY DEF Start, NextLevel, Dequeue, SkipEdge, Record, ScanEnd, MarkReach, Searching, callVars
<1>2. pc' \in (Searching \ {"alloc"}) \cup {"done"} /\ pc' \notin {"high", "low", "erosion", "returned"}
  BY <1>1 DEF Searching
<1>3. SortedInv'
  BY <1>1 DEF IInv, OrderInv, SortedInv, Live
<1> QED
  BY <1>1, <1>2, <1>3, BalancesStand, NoTideNoClaim DEF MassInv

LEMMA SearchEndKeepsMass ==
  ASSUME IInv, IInv', MassInv, BuildEnd \/ PruneStart \/ MarkEnd
  PROVE  MassInv'
<1>1. /\ pc \in {"bfs", "reach"} /\ pc' \in {"reach", "compact", "tide", "done"}
      /\ UNCHANGED <<g, flow, maxFlow, dist, levelEdges>>
      /\ pc' = "compact" => idx' = 1 /\ write' = 0
  BY DEF BuildEnd, PruneStart, MarkEnd, callVars, searchVars
<1>2. /\ pc \in Searching
      /\ pc' \in (Searching \ {"alloc"}) \cup {"done"}
      /\ pc' \notin {"high", "low", "erosion", "returned"}
  BY <1>1 DEF Searching
<1>3. SortedInv'
  <2>1. Live = DOMAIN levelEdges /\ Live' \subseteq Live
    <3>1. DOMAIN levelEdges = 1 .. Len(levelEdges) /\ Len(levelEdges) \in Nat
      BY LevelEdgesAreSequence
    <3> QED
      BY <1>1, <3>1 DEF Live
  <2> QED
    BY <1>1, <2>1 DEF MassInv, SortedInv
<1> QED
  BY <1>1, <1>2, <1>3, BalancesStand, NoTideNoClaim DEF MassInv

\* Whatever the solver does to p[] besides.
LEMMA CompactKeepsMass ==
  ASSUME IInv, IInv', MassInv, Compact
  PROVE  MassInv'
<1>1. /\ pc = "compact" /\ pc' = pc /\ idx <= Len(levelEdges) /\ idx' = idx + 1
      /\ UNCHANGED <<g, flow, maxFlow, dist>>
  BY DEF Compact, callVars, searchVars
<1>2. /\ levelEdges \in Seq(Edges(g)) /\ Len(levelEdges) \in Nat /\ idx \in Nat /\ write \in Nat
      /\ write < idx
  BY <1>1 DEF IInv, TypeOK, NoRepeatInv
<1>3. SortedInv'
  <2>1. CASE UNCHANGED <<levelEdges, write>>
    <3>1. Live' \subseteq Live
      BY <1>1, <1>2, <2>1 DEF Live
    <3> QED
      BY <1>1, <2>1, <3>1 DEF MassInv, SortedInv
  <2>2. CASE levelEdges' = [levelEdges EXCEPT ![write + 1] = levelEdges[idx]] /\ write' = write + 1
    <3> DEFINE was(i) == IF i = write + 1 THEN idx ELSE i
    <3>1. Len(levelEdges') = Len(levelEdges) /\ write + 1 \in DOMAIN levelEdges
      BY <1>1, <1>2, <2>2
    <3>2. \A i \in Live' : was(i) \in Live /\ levelEdges'[i] = levelEdges[was(i)] /\ i \in Nat
      BY <1>1, <1>2, <2>2, <3>1 DEF Live
    <3>3. \A i, j \in Live' : i <= j => was(i) <= was(j)
      BY <1>1, <1>2, <2>2, <3>1 DEF Live
    <3> HIDE DEF was
    <3> QED
      BY <1>1, <3>2, <3>3 DEF MassInv, SortedInv
  <2> QED
    BY <2>1, <2>2 DEF Compact
<1>4. pc \in Searching /\ pc' \in (Searching \ {"alloc"}) \cup {"done"} /\ pc' \notin {"high", "low", "erosion", "returned"}
  BY <1>1 DEF Searching
<1> QED
  BY <1>1, <1>3, <1>4, BalancesStand, NoTideNoClaim DEF MassInv

LEMMA CompactEndKeepsMass ==
  ASSUME IInv, IInv', MassInv, CompactEnd
  PROVE  MassInv'
<1>1. /\ pc = "compact" /\ pc' \in {"tide", "done"} /\ idx > Len(levelEdges)
      /\ levelEdges' = SubSeq(levelEdges, 1, write)
      /\ UNCHANGED <<g, flow, maxFlow, dist>>
  BY DEF CompactEnd, callVars, searchVars
<1>2. /\ levelEdges \in Seq(Edges(g)) /\ Len(levelEdges) \in Nat /\ idx \in Nat /\ write \in Nat
      /\ write < idx /\ idx <= Len(levelEdges) + 1
  BY <1>1 DEF IInv, TypeOK, NoRepeatInv
<1>3. SortedInv'
  <2>1. Live = 1 .. write /\ Live' = 1 .. write
    BY <1>1, <1>2 DEF Live
  <2>2. \A i \in 1 .. write : levelEdges'[i] = levelEdges[i]
    BY <1>1, <1>2
  <2>3. \A i, j \in 1 .. write : i <= j =>
           dist[g.src[levelEdges[i]]] <= dist[g.src[levelEdges[j]]]
    BY <2>1 DEF MassInv, SortedInv
  <2>4. dist' = dist /\ g' = g
    BY <1>1
  <2>5. \A i, j \in 1 .. write : i <= j =>
           dist'[(g.src)'[levelEdges'[i]]] <= dist'[(g.src)'[levelEdges'[j]]]
    BY <2>2, <2>3, <2>4
  <2> QED
    BY <2>1, <2>5 DEF SortedInv
<1>4. pc \in Searching /\ pc' \in (Searching \ {"alloc"}) \cup {"done"} /\ pc' \notin {"high", "low", "erosion", "returned"}
  BY <1>1 DEF Searching
<1> QED
  BY <1>1, <1>3, <1>4, BalancesStand, NoTideNoClaim DEF MassInv

LEMMA DriverKeepsMass ==
  ASSUME IInv, IInv', MassInv, Allocate \/ AddAndRebuild \/ AddAndRepeat \/ Rebuild
  PROVE  MassInv'
<1>1. /\ pc \in {"alloc", "returned"} /\ pc' \in {"build", "tide", "failed"}
      /\ UNCHANGED <<g, flow, dist, levelEdges>>
      /\ sent \in Nat /\ maxFlow \in Int
  BY DEF Allocate, AddAndRebuild, AddAndRepeat, Rebuild, callVars, searchVars, IInv, TypeOK
<1>2. SortedInv'
  BY <1>1 DEF MassInv, SortedInv, Live
<1>3. ConservationInv'
  <2>1. CASE pc' = "failed"
    BY <2>1 DEF ConservationInv
  <2>2. CASE pc' # "failed"
    <3>1. /\ pc = "alloc" => maxFlow' = maxFlow
          /\ pc = "returned" => maxFlow' = maxFlow + sent
      BY <1>1, <2>2 DEF Allocate, AddAndRebuild, AddAndRepeat, Rebuild, Blocked, callVars
    <3> SUFFICES ASSUME NEW x \in Nodes(g)
                 PROVE  NetOutflow(g, flow, x) = CASE x = g.source -> maxFlow'
                                                   [] x = g.sink   -> -maxFlow'
                                                   [] OTHER        -> 0
      <4>1. /\ pc' \in {"build", "tide"}
            /\ TakenOut' = 0 /\ BroughtIn' = 0
            /\ \A x : NetOutflow(g, flow, x)' = NetOutflow(g, flow, x)
        BY <1>1, <2>2 DEF TakenOut, BroughtIn
      <4>2. maxFlow' \in Int
        BY <1>1, <3>1
      <4> QED
        BY <1>1, <4>1, <4>2 DEF ConservationInv
    <3>2. NetOutflow(g, flow, x) \in Int
      BY NetOutflowType DEF IInv, TypeOK
    <3> QED
      BY <1>1, <3>1, <3>2 DEF MassInv, ConservationInv, TakenOut, BroughtIn
  <2> QED
    BY <2>1, <2>2
<1> QED
  BY <1>1, <1>2, <1>3, NoTideNoClaim DEF MassInv

-------------------------------------------------------------------------------
(* The high tide.                                                          *)

\* Level edges lead from a level to the next one, and come in that order.
LEMMA LevelOrder ==
  ASSUME IInv, SortedInv, pc # "compact", NEW i \in DOMAIN levelEdges, NEW j \in DOMAIN levelEdges
  PROVE  /\ g.src[levelEdges[i]] = g.dst[levelEdges[j]] => j < i
         /\ i <= j => g.src[levelEdges[i]] # g.dst[levelEdges[j]]
<1>1. Live = DOMAIN levelEdges /\ i \in Nat /\ j \in Nat
  BY DEF Live, IInv, TypeOK
<1>2. i <= j => dist[g.src[levelEdges[i]]] <= dist[g.src[levelEdges[j]]]
  BY <1>1 DEF SortedInv
<1>3. /\ dist[g.src[levelEdges[j]]] \in Nat
      /\ dist[g.dst[levelEdges[j]]] = dist[g.src[levelEdges[j]]] + 1
  <2>1. g.src[levelEdges[j]] \in Nodes(g)
    BY LevelEdgeFacts
  <2> QED
    BY <2>1 DEF IInv, LevelInv, TypeOK
<1>4. dist[g.src[levelEdges[i]]] \in Int
  <2>1. g.src[levelEdges[i]] \in Nodes(g)
    BY LevelEdgeFacts
  <2> QED
    BY <2>1 DEF IInv, TypeOK
<1> QED
  BY <1>1, <1>2, <1>3, <1>4

\* None enters the source.
LEMMA SourceIsFirst ==
  ASSUME IInv, pc \notin {"alloc", "build", "failed"}, NEW i \in DOMAIN levelEdges
  PROVE  g.dst[levelEdges[i]] # g.source
<1>1. g.src[levelEdges[i]] \in Nodes(g)
  BY LevelEdgeFacts
<1>2. dist[g.src[levelEdges[i]]] \in Nat
  BY <1>1 DEF IInv, TypeOK, LevelInv
<1>3. dist[g.dst[levelEdges[i]]] = dist[g.src[levelEdges[i]]] + 1
  BY DEF IInv, LevelInv
<1>4. dist[g.source] = 0
  BY DEF IInv, QueueInv
<1> QED
  BY <1>2, <1>3, <1>4

LEMMA TideStartKeepsMass ==
  ASSUME IInv, IInv', MassInv, TideStart
  PROVE  MassInv'
<1>1. /\ pc = "tide" /\ pc' = "high" /\ idx' = 1
      /\ h' = [x \in Nodes(g) |-> IF x = g.source THEN LLongMax ELSE 0]
      /\ UNCHANGED <<g, flow, maxFlow, dist, levelEdges, p>>
  BY DEF TideStart, callVars, searchVars
<1>2. SortedInv'
  BY <1>1 DEF MassInv, SortedInv, Live
<1>3. ConservationInv'
  BY <1>1, BalancesStand DEF MassInv, Searching
<1>4. RisenInv'
  <2>1. g.source \in Nodes(g)
    BY DEF IInv, TypeOK, IsCase
  <2>2. \A x : Incoming(x, {})' = 0
    <3>1. \A x : Incoming(x, {})' = SumOver(p', {})
      BY DEF Incoming
    <3> QED
      BY <3>1, SumOfNone
  <2>3. 1 .. (idx' - 1) = {}
    BY <1>1
  <2>4. Risen({}, Nodes(g))'
    BY <1>1, <2>1, <2>2 DEF Risen
  <2> QED
    BY <2>3, <2>4 DEF RisenInv
<1>5. DemandInv' /\ ErosionInv' /\ BlockedInv'
  BY <1>1 DEF DemandInv, ErosionInv, BlockedInv
<1> QED
  BY <1>2, <1>3, <1>4, <1>5 DEF MassInv

\* Slot a, at position m, gets its promise; it does not lead to the tail of an
\* edge that has got one before.
EdgeRises(J, m, a) ==
  /\ UNCHANGED <<g, flow>>
  /\ J \in SUBSET DOMAIN levelEdges
  /\ Risen(J, Nodes(g))
  /\ m \in 1 .. g.edgeCount /\ m \notin J /\ a \in Edges(g)
  /\ levelEdges'[m] = a /\ \A i \in J : levelEdges'[i] = levelEdges[i]
  /\ \A i \in J : g.src[levelEdges[i]] # g.dst[a]
  /\ g.src[a] # g.dst[a] /\ g.dst[a] # g.source
  /\ p' = [p EXCEPT ![m] = Promise(a)]
  /\ h' = [h EXCEPT ![g.dst[a]] = @ + Promise(a)]

\* So the earlier promises stay current.
LEMMA OneMoreEdgeRises ==
  ASSUME IInv, NEW J, NEW m, NEW a, EdgeRises(J, m, a)
  PROVE  Risen(J \cup {m}, Nodes(g))'
<1> DEFINE y == g.dst[a]
<1> DEFINE I == J \cup {m}
<1>1. /\ UNCHANGED <<g, flow>> /\ y \in Nodes(g) /\ g.src[a] \in Nodes(g) /\ g.source \in Nodes(g)
      /\ y # g.source /\ g.src[a] # y
      /\ J \in SUBSET DOMAIN levelEdges /\ m \in 1 .. g.edgeCount /\ m \notin J /\ a \in Edges(g)
      /\ \A i \in J : g.src[levelEdges[i]] # y
  <2>1. IsCase(g)
    BY DEF IInv, TypeOK
  <2> QED
    BY <2>1, SlotFacts DEF IsCase, EdgeRises
<1>2. /\ h \in [Nodes(g) -> Nat] /\ p \in [1 .. g.edgeCount -> Nat]
      /\ h[g.src[a]] \in Nat /\ Residual(g, flow, a) \in Nat
  BY <1>1, ResidualFacts DEF IInv, TypeOK
<1>3. Promise(a) \in Nat
  BY <1>2 DEF Promise, Lesser
<1>4. /\ p'[m] = Promise(a)
      /\ \A i \in J : p'[i] = p[i]
      /\ h'[y] = h[y] + Promise(a)
      /\ \A x \in Nodes(g) : x # y => h'[x] = h[x]
  <2>1. \A i \in J : i \in 1 .. g.edgeCount
    BY <1>1, LevelEdgeFacts
  <2>2. p' = [p EXCEPT ![m] = Promise(a)] /\ h' = [h EXCEPT ![y] = @ + Promise(a)]
    BY DEF EdgeRises
  <2> QED
    BY <1>1, <1>2, <2>1, <2>2
<1>5. /\ \A i \in J : Promise(levelEdges[i])' = Promise(levelEdges[i]) /\ levelEdges'[i] = levelEdges[i]
      /\ levelEdges'[m] = a /\ Residual(g, flow, a)' = Residual(g, flow, a) /\ h'[g.src[a]] = h[g.src[a]]
  <2>1. \A i \in J : h'[g.src[levelEdges[i]]] = h[g.src[levelEdges[i]]]
    BY <1>1, <1>4, LevelEdgeFacts
  <2>2. levelEdges'[m] = a /\ \A i \in J : levelEdges'[i] = levelEdges[i]
    BY DEF EdgeRises
  <2> QED
    BY <1>1, <1>4, <2>1, <2>2 DEF Promise, Residual
<1>6. \A i \in I : p'[i] = Promise(levelEdges[i])'
  <2>1. p'[m] = Promise(levelEdges[m])'
    BY <1>1, <1>4, <1>5 DEF Promise
  <2> QED
    BY <1>4, <1>5, <2>1 DEF Risen, EdgeRises
<1>7. OneMore(J, m, a)
  BY <1>1, <1>3, <1>4, <1>5 DEF OneMore
<1>8. /\ \A n : Outgoing(n, J \cup {m})' = Outgoing(n, J) + (IF n = g.src[a] THEN p'[m] ELSE 0)
      /\ \A n : Incoming(n, J \cup {m})' = Incoming(n, J) + (IF n = g.dst[a] THEN p'[m] ELSE 0)
  BY <1>7, OneChangedMore
<1>9. \A x \in Nodes(g) \ {g.source} : h'[x] = Incoming(x, I)'
  <2> SUFFICES ASSUME NEW x \in Nodes(g) \ {g.source} PROVE h'[x] = Incoming(x, I)'
    OBVIOUS
  <2>1. Incoming(x, I)' = Incoming(x, J) + (IF x = y THEN Promise(a) ELSE 0)
    BY <1>4, <1>8
  <2>2. Incoming(x, J) \in Nat
    BY <1>1, PositionFacts
  <2>3. h[x] = Incoming(x, J) /\ h[x] \in Nat
    BY <1>2 DEF Risen, EdgeRises
  <2> QED
    BY <1>3, <1>4, <2>1, <2>2, <2>3
<1>10. h'[g.source] = LLongMax
  BY <1>1, <1>4 DEF Risen, EdgeRises
<1> QED
  BY <1>1, <1>6, <1>9, <1>10 DEF Risen

LEMMA HighTideKeepsMass ==
  ASSUME IInv, IInv', MassInv, HighTide
  PROVE  MassInv'
<1>1. /\ pc = "high" /\ pc' = pc /\ idx' = idx + 1 /\ idx <= Len(levelEdges)
      /\ p' = [p EXCEPT ![idx] = Promise(levelEdges[idx])]
      /\ h' = [h EXCEPT ![g.dst[levelEdges[idx]]] = @ + Promise(levelEdges[idx])]
      /\ UNCHANGED <<g, flow, maxFlow, dist, levelEdges>>
  BY DEF HighTide, callVars, searchVars
<1>2. idx \in 1 .. Len(levelEdges) /\ DOMAIN levelEdges = 1 .. Len(levelEdges) /\ Len(levelEdges) \in Nat
  BY <1>1, LevelEdgesAreSequence DEF IInv, PromiseInv
<1>3. SortedInv'
  BY <1>1 DEF MassInv, SortedInv, Live
<1>4. ConservationInv'
  BY <1>1, BalancesStand DEF MassInv, Searching
<1>5. RisenInv'
  <2> SUFFICES ASSUME NEW m, m = idx, NEW J, J = 1 .. (idx - 1)
               PROVE  Risen(J \cup {m}, Nodes(g))'
    <3>1. (1 .. (idx - 1)) \cup {idx} = 1 .. (idx' - 1)
      BY <1>1, <1>2
    <3> QED
      BY <3>1 DEF RisenInv
  <2>1. J \in SUBSET DOMAIN levelEdges /\ m \notin J /\ m \in DOMAIN levelEdges /\ \A i \in J : i < m
    BY <1>2
  <2>2. Risen(J, Nodes(g))
    BY <1>1 DEF MassInv, RisenInv
  <2> DEFINE a == levelEdges[m]
  <2>3. a \in Edges(g) /\ m \in 1 .. g.edgeCount /\ g.dst[a] # g.source
    BY <1>1, <2>1, LevelEdgeFacts, SourceIsFirst
  <2>4. g.src[a] # g.dst[a] /\ \A i \in J : g.src[levelEdges[i]] # g.dst[a]
    <3>1. \A i \in J \cup {m} : i \in DOMAIN levelEdges /\ i <= m
      BY <1>2, <2>1
    <3>2. SortedInv /\ pc # "compact"
      BY <1>1 DEF MassInv
    <3>3. \A i \in J \cup {m} : g.src[levelEdges[i]] # g.dst[a]
      BY <2>1, <3>1, <3>2, LevelOrder
    <3> QED
      BY <3>3
  <2>5. EdgeRises(J, m, a)
    <3>1. idx = m
      OBVIOUS
    <3> QED
      BY <1>1, <2>1, <2>2, <2>3, <2>4, <3>1 DEF EdgeRises
  <2> QED
    BY <2>5, OneMoreEdgeRises
<1>6. DemandInv' /\ ErosionInv' /\ BlockedInv'
  BY <1>1 DEF DemandInv, ErosionInv, BlockedInv
<1> QED
  BY <1>3, <1>4, <1>5, <1>6 DEF MassInv

\* What a high tide over all edges leaves: an edge with a promise has a tail that
\* the tide has reached, and unless that is the source an earlier edge brought it.
LEMMA RisenFacts ==
  ASSUME IInv, SortedInv, pc \in {"high", "tide"},
         NEW N \in SUBSET Nodes(g), Risen(DOMAIN levelEdges, N),
         \A i \in DOMAIN levelEdges : g.src[levelEdges[i]] \in N
  PROVE  /\ \A x \in N \ {g.source} :
              h[x] > 0 <=> \E k \in DOMAIN levelEdges : g.dst[levelEdges[k]] = x /\ p[k] > 0
         /\ \A i \in DOMAIN levelEdges :
              /\ p[i] > 0 <=> h[g.src[levelEdges[i]]] > 0 /\ Residual(g, flow, levelEdges[i]) > 0
              /\ p[i] > 0 => \/ g.src[levelEdges[i]] = g.source
                             \/ \E k \in 1 .. (i - 1) :
                                   g.dst[levelEdges[k]] = g.src[levelEdges[i]] /\ p[k] > 0
<1> DEFINE D == DOMAIN levelEdges
<1>1. ASSUME NEW x \in N \ {g.source}
      PROVE  h[x] > 0 <=> \E k \in D : g.dst[levelEdges[k]] = x /\ p[k] > 0
  <2>1. h[x] = SumOver(p, Enter(x, D))
    BY CarriedIsSum DEF Risen
  <2>2. /\ IsFiniteSet(Enter(x, D)) /\ Enter(x, D) \subseteq D
        /\ \A k \in D : p[k] \in Nat
    BY PositionFacts
  <2>3. \A k : k \in Enter(x, D) <=> k \in D /\ g.dst[levelEdges[k]] = x
    BY DEF Enter
  <2>4. h[x] > 0 => \E k \in Enter(x, D) : p[k] > 0
    BY <2>1, <2>2, SomeTermIsPositive
  <2>5. \A k \in Enter(x, D) : p[k] <= h[x]
    BY <2>1, <2>2, SumOfNaturals
  <2>6. h[x] \in Nat
    BY DEF IInv, TypeOK
  <2> QED
    BY <2>2, <2>3, <2>4, <2>5, <2>6
<1>2. ASSUME NEW i \in D
      PROVE  /\ p[i] > 0 <=> h[g.src[levelEdges[i]]] > 0 /\ Residual(g, flow, levelEdges[i]) > 0
             /\ p[i] > 0 => \/ g.src[levelEdges[i]] = g.source
                            \/ \E k \in 1 .. (i - 1) :
                                  g.dst[levelEdges[k]] = g.src[levelEdges[i]] /\ p[k] > 0
  <2>1. /\ g.src[levelEdges[i]] \in Nodes(g) /\ levelEdges[i] \in Edges(g)
        /\ h[g.src[levelEdges[i]]] \in Nat /\ Residual(g, flow, levelEdges[i]) \in Nat
    <3>1. g.src[levelEdges[i]] \in Nodes(g) /\ levelEdges[i] \in Edges(g)
      BY LevelEdgeFacts
    <3> QED
      BY <3>1, ResidualFacts DEF IInv, TypeOK
  <2>2. p[i] = Promise(levelEdges[i])
    BY DEF Risen
  <2>3. p[i] > 0 <=> h[g.src[levelEdges[i]]] > 0 /\ Residual(g, flow, levelEdges[i]) > 0
    BY <2>1, <2>2 DEF Promise, Lesser
  <2>4. ASSUME p[i] > 0, g.src[levelEdges[i]] # g.source
        PROVE  \E k \in 1 .. (i - 1) : g.dst[levelEdges[k]] = g.src[levelEdges[i]] /\ p[k] > 0
    <3>1. PICK k \in D : g.dst[levelEdges[k]] = g.src[levelEdges[i]] /\ p[k] > 0
      BY <1>1, <2>1, <2>3, <2>4
    <3>2. k < i
      BY <3>1, LevelOrder
    <3>3. k \in Nat /\ i \in Nat /\ k > 0
      BY SMTT(30) DEF IInv, TypeOK
    <3> QED
      BY SMTT(30), <3>1, <3>2, <3>3
  <2> QED
    BY <2>3, <2>4
<1> QED
  BY <1>1, <1>2

\* The low tide starts, or the cycle ends with nothing sent: the high tide has
\* found every way to the sink blocked.
LEMMA HighTideDone ==
  ASSUME IInv, IInv', SortedInv, ConservationInv, pc \in {"high", "tide"},
         NEW N \in SUBSET Nodes(g), g.sink \in N, Risen(DOMAIN levelEdges, N),
         \A i \in DOMAIN levelEdges : g.src[levelEdges[i]] \in N /\ g.dst[levelEdges[i]] \in N,
         UNCHANGED <<g, flow, maxFlow, dist, levelEdges, h, p>>,
         idx' = Len(levelEdges),
         IF h[g.sink] = 0 THEN sent' = 0 /\ pc' = "returned"
         ELSE /\ pc' = "low"
              /\ l' = [x \in Nodes(g) |-> IF x = g.sink THEN h[g.sink] ELSE 0]
  PROVE  MassInv'
<1>1. /\ g.sink \in Nodes(g) /\ g.source \in Nodes(g) /\ g.sink # g.source
      /\ h \in [Nodes(g) -> Nat] /\ DOMAIN levelEdges = 1 .. Len(levelEdges) /\ Len(levelEdges) \in Nat
  <2>1. DOMAIN levelEdges = 1 .. Len(levelEdges) /\ Len(levelEdges) \in Nat
    BY LevelEdgesAreSequence
  <2> QED
    BY <2>1 DEF IInv, TypeOK, IsCase
<1>2. SortedInv'
  BY DEF SortedInv, Live
<1>3. ConservationInv'
  <2>1. CASE pc' = "low"
    BY <2>1, BalancesStand DEF Searching
  <2>2. CASE pc' # "low"
    <3>1. /\ TakenOut = 0 /\ TakenOut' = 0 /\ BroughtIn = 0 /\ BroughtIn' = 0
          /\ pc' = "returned" /\ pc \notin {"failed", "erosion"}
      BY <2>2 DEF TakenOut, BroughtIn
    <3>2. \A x : NetOutflow(g, flow, x)' = NetOutflow(g, flow, x)
      OBVIOUS
    <3> QED
      BY <3>1, <3>2 DEF ConservationInv
  <2> QED
    BY <2>1, <2>2
<1>4. BlockedInv'
  <2> SUFFICES ASSUME pc' = "returned"
               PROVE  /\ h[g.source] > 0
                      /\ h[g.sink] = 0
                      /\ \A i \in DOMAIN levelEdges :
                            h[g.src[levelEdges[i]]] > 0 /\ Residual(g, flow, levelEdges[i]) > 0 =>
                              h[g.dst[levelEdges[i]]] > 0
    BY DEF BlockedInv, Residual
  <2>1. h[g.source] > 0
    BY IntAssumption, WidthsAssumption DEF Risen
  <2>2. ASSUME NEW i \in DOMAIN levelEdges, p[i] > 0
        PROVE  h[g.dst[levelEdges[i]]] > 0
    <3>1. g.dst[levelEdges[i]] # g.source
      BY SourceIsFirst
    <3> QED
      BY <2>2, <3>1, RisenFacts
  <2>3. h[g.sink] = 0
    OBVIOUS
  <2> QED
    BY <2>1, <2>2, <2>3, RisenFacts
<1>5. DemandInv'
  <2> SUFFICES ASSUME pc' = "low" PROVE DemandInv'
    BY DEF DemandInv
  <2>1. /\ h[g.sink] > 0 /\ \A x \in Nodes(g) : l'[x] = IF x = g.sink THEN h[g.sink] ELSE 0
    BY <1>1
  <2>2. (idx' + 1) .. Len(levelEdges) = {} /\ 1 .. idx' = DOMAIN levelEdges
    BY <1>1
  <2>3. \A x : Outgoing(x, {})' = 0 /\ Incoming(x, {})' = 0
    <3>1. \A x : Outgoing(x, {})' = SumOver(p', {}) /\ Incoming(x, {})' = SumOver(p', {})
      BY DEF Outgoing, Incoming
    <3> QED
      BY <3>1, SumOfNone
  <2>4. Supplied'
    BY <2>2, RisenFacts DEF Supplied
  <2>5. \E i \in 1 .. idx' : g.dst[levelEdges[i]] = g.sink /\ p[i] > 0
    BY <1>1, <2>1, <2>2, RisenFacts, SMTT(30)
  <2>6. Demanded'
    <3> SUFFICES ASSUME NEW x \in Nodes(g), NEW I, I = (idx' + 1) .. Len(levelEdges)
                 PROVE  l'[x] = Outgoing(x, I)' - Incoming(x, I)' + (IF x = g.sink THEN h[g.sink] ELSE 0)
      BY DEF Demanded
    <3>1. Outgoing(x, I)' = 0 /\ Incoming(x, I)' = 0
      BY <2>2, <2>3
    <3> QED
      BY <1>1, <2>1, <3>1
  <2>7. Answerable'
    BY <1>1, <2>1, <2>5 DEF Answerable
  <2> QED
    BY <2>4, <2>6, <2>7 DEF DemandInv
<1>6. RisenInv' /\ ErosionInv'
  BY DEF RisenInv, ErosionInv
<1> QED
  BY <1>2, <1>3, <1>4, <1>5, <1>6 DEF MassInv

LEMMA HighTideEndKeepsMass ==
  ASSUME IInv, IInv', MassInv, HighTideEnd
  PROVE  MassInv'
<1>1. /\ pc = "high" /\ idx > Len(levelEdges) /\ idx' = Len(levelEdges)
      /\ UNCHANGED <<g, flow, maxFlow, dist, levelEdges, h, p>>
      /\ IF h[g.sink] = 0 THEN sent' = 0 /\ pc' = "returned"
         ELSE l' = [l EXCEPT ![g.sink] = h[g.sink]] /\ pc' = "low"
  BY DEF HighTideEnd, callVars, searchVars
<1>2. /\ l \in [Nodes(g) -> Nat] /\ \A x \in Nodes(g) : l[x] = 0
      /\ DOMAIN levelEdges = 1 .. Len(levelEdges) /\ Len(levelEdges) \in Nat
      /\ idx \in 1 .. (Len(levelEdges) + 1)
  <2>1. DOMAIN levelEdges = 1 .. Len(levelEdges) /\ Len(levelEdges) \in Nat
    BY LevelEdgesAreSequence
  <2> QED
    BY <1>1, <2>1 DEF IInv, TypeOK, PromiseInv
<1>3. pc' = "low" => l' = [x \in Nodes(g) |-> IF x = g.sink THEN h[g.sink] ELSE 0]
  BY <1>1, <1>2
<1>4. Risen(DOMAIN levelEdges, Nodes(g))
  <2>1. 1 .. (idx - 1) = DOMAIN levelEdges
    BY <1>1, <1>2
  <2> QED
    BY <1>1, <2>1 DEF MassInv, RisenInv
<1>5. \A i \in DOMAIN levelEdges :
         g.src[levelEdges[i]] \in Nodes(g) /\ g.dst[levelEdges[i]] \in Nodes(g)
  BY LevelEdgeFacts
<1>6. g.sink \in Nodes(g)
  BY DEF IInv, TypeOK, IsCase
<1> QED
  BY <1>1, <1>3, <1>4, <1>5, <1>6, HighTideDone DEF MassInv

-------------------------------------------------------------------------------
(* The low tide.                                                           *)

LEMMA LowTideKeepsMass ==
  ASSUME IInv, IInv', MassInv, LowTide
  PROVE  MassInv'
<1>0. PICK a, x, y, pushed : LowTideStep(a, x, y, pushed)
  BY LowTideFacts
<1>1. /\ pc = "low" /\ pc' = pc /\ idx > 0 /\ idx' = idx - 1
      /\ a = levelEdges[idx] /\ x = g.src[a] /\ y = g.dst[a]
      /\ p' = [p EXCEPT ![idx] = pushed]
      /\ UNCHANGED <<g, flow, maxFlow, dist, levelEdges, h>>
  BY <1>0 DEF LowTideStep
<1>2. /\ Len(levelEdges) \in Nat /\ idx \in DOMAIN levelEdges /\ idx \in 1 .. Len(levelEdges)
      /\ DOMAIN levelEdges = 1 .. Len(levelEdges) /\ idx \in 1 .. g.edgeCount
      /\ a \in Edges(g) /\ x \in Nodes(g) /\ y \in Nodes(g) /\ x # y
  BY <1>0 DEF LowTideStep
<1>3. /\ l \in [Nodes(g) -> Nat] /\ p \in [1 .. g.edgeCount -> Nat]
      /\ h[x] \in Nat /\ l[x] \in Nat /\ l[y] \in Nat /\ p[idx] \in Nat /\ l[x] <= h[x]
      /\ pushed \in Nat /\ pushed <= p[idx] /\ pushed <= l[y]
      /\ pushed \in {p[idx], h[x] - l[x], l[y]}
  BY <1>0 DEF LowTideStep
<1>4. l'[x] = l[x] + pushed /\ l'[y] = l[y] - pushed /\ \A z \in Nodes(g) \ {x, y} : l'[z] = l[z]
  BY <1>0 DEF LowTideStep
<1>5. p'[idx] = pushed /\ \A i \in DOMAIN levelEdges : i # idx => p'[i] = p[i]
  <2>1. \A i \in DOMAIN levelEdges : i \in 1 .. g.edgeCount
    BY LevelEdgeFacts
  <2> QED
    BY <1>1, <1>2, <1>3, <2>1
<1>6. Demanded /\ Supplied /\ Answerable
  BY <1>1 DEF MassInv, DemandInv
<1>7. SortedInv'
  BY <1>1 DEF MassInv, SortedInv, Live
<1>8. ConservationInv'
  BY <1>1, BalancesStand DEF MassInv, Searching
<1>9. Demanded'
  <2> SUFFICES ASSUME NEW z \in Nodes(g), NEW I, I = idx .. Len(levelEdges)
               PROVE  l'[z] = Outgoing(z, I)' - Incoming(z, I)' + (IF z = g.sink THEN h[g.sink] ELSE 0)
    <3>1. (idx' + 1) .. Len(levelEdges) = idx .. Len(levelEdges)
      BY <1>1, <1>2
    <3> QED
      BY <1>1, <3>1 DEF Demanded
  <2>0. PICK J, m : J = (idx + 1) .. Len(levelEdges) /\ m = idx
    OBVIOUS
  <2> DEFINE own == IF z = g.sink THEN h[g.sink] ELSE 0
  <2>1. J \in SUBSET DOMAIN levelEdges /\ idx \notin J /\ I = J \cup {idx}
    BY <1>2, <2>0
  <2>2. l[z] = Outgoing(z, J) - Incoming(z, J) + own
    BY <1>6, <2>0 DEF Demanded
  <2>3. /\ Outgoing(z, I)' = Outgoing(z, J) + (IF z = x THEN pushed ELSE 0)
        /\ Incoming(z, I)' = Incoming(z, J) + (IF z = y THEN pushed ELSE 0)
    <3>1. m \in DOMAIN levelEdges /\ m \notin J /\ I = J \cup {m} /\ J \in SUBSET DOMAIN levelEdges
      BY <1>2, <2>0, <2>1
    <3>2. /\ \A i \in J : levelEdges'[i] = levelEdges[i] /\ p'[i] = p[i]
          /\ levelEdges'[m] = a /\ p'[m] = pushed /\ p'[m] \in Nat
      BY <1>1, <1>3, <1>5, <2>0, <2>1
    <3>3. x = g.src[a] /\ y = g.dst[a]
      BY <1>1
    <3>4. OneMore(J, m, a)
      BY <1>1, <3>1, <3>2 DEF OneMore
    <3>5. /\ \A n : Outgoing(n, J \cup {m})' = Outgoing(n, J) + (IF n = g.src[a] THEN p'[m] ELSE 0)
          /\ \A n : Incoming(n, J \cup {m})' = Incoming(n, J) + (IF n = g.dst[a] THEN p'[m] ELSE 0)
      BY <3>4, OneChangedMore
    <3> QED
      BY <3>1, <3>2, <3>3, <3>5
  <2>4. Outgoing(z, J) \in Nat /\ Incoming(z, J) \in Nat
    BY <2>1, PositionFacts
  <2>5. own \in Int
    <3>1. g.sink \in Nodes(g) /\ h \in [Nodes(g) -> Nat]
      BY DEF IInv, TypeOK, IsCase
    <3> QED
      BY <3>1
  <2>6. l'[z] = l[z] + (IF z = x THEN pushed ELSE 0) - (IF z = y THEN pushed ELSE 0)
    <3>1. l[z] \in Nat
      BY <1>3
    <3> QED
      BY <1>2, <1>3, <1>4, <3>1
  <2> HIDE DEF own
  <2>7. l'[z] = Outgoing(z, I)' - Incoming(z, I)' + own
    <3>1. l[z] \in Nat
      BY <1>3
    <3>2. x # y /\ pushed \in Nat
      BY <1>2, <1>3
    <3>3. CASE z = x
      BY <2>2, <2>3, <2>4, <2>5, <2>6, <3>1, <3>2, <3>3
    <3>4. CASE z = y
      BY <2>2, <2>3, <2>4, <2>5, <2>6, <3>1, <3>2, <3>4
    <3>5. CASE z # x /\ z # y
      BY <2>2, <2>3, <2>4, <2>5, <2>6, <3>1, <3>5
    <3> QED
      BY <3>3, <3>4, <3>5
  <2> QED
    BY <2>7 DEF own
<1>10. Supplied'
  <2>1. \A i \in 1 .. (idx - 1) : i # idx /\ i \in DOMAIN levelEdges /\ i \in 1 .. idx /\ p'[i] = p[i]
    BY <1>2, <1>5
  <2>2. \A i \in 1 .. (idx - 1) : \A k \in 1 .. (i - 1) : k \in 1 .. (idx - 1)
    BY <1>2
  <2> QED
    BY <1>1, <1>6, <2>1, <2>2 DEF Supplied
<1>11. Answerable'
  <2> SUFFICES \E z \in Nodes(g) :
                  /\ l'[z] > 0
                  /\ \/ z = g.source
                     \/ \E i \in 1 .. (idx - 1) : g.dst[levelEdges[i]] = z /\ p[i] > 0
    <3>1. \A i \in 1 .. (idx - 1) : p'[i] = p[i]
      BY <1>2, <1>5
    <3> QED
      BY <1>1, <3>1 DEF Answerable
  <2>1. p[idx] > 0 => /\ h[x] > 0
                      /\ \/ x = g.source
                         \/ \E k \in 1 .. (idx - 1) : g.dst[levelEdges[k]] = x /\ p[k] > 0
    BY <1>1, <1>2, <1>6 DEF Supplied
  <2>2. PICK z \in Nodes(g) : /\ l[z] > 0
                              /\ \/ z = g.source
                                 \/ \E i \in 1 .. idx : g.dst[levelEdges[i]] = z /\ p[i] > 0
    BY <1>6 DEF Answerable
  <2>3. CASE pushed > 0
    <3>1. p[idx] > 0 /\ l'[x] > 0
      BY <1>3, <1>4, <2>3
    <3> QED
      BY <1>2, <2>1, <3>1
  <2>4. CASE pushed = 0
    <3>1. \A w \in Nodes(g) : l'[w] = l[w]
      <4>1. l'[x] = l[x]
        BY <1>3, <1>4, <2>4
      <4>2. l'[y] = l[y]
        BY <1>3, <1>4, <2>4
      <4> QED
        BY <1>4, <4>1, <4>2
    <3>2. CASE z = g.source \/ \E i \in 1 .. (idx - 1) : g.dst[levelEdges[i]] = z /\ p[i] > 0
      BY <2>2, <3>1, <3>2
    <3>3. CASE g.dst[levelEdges[idx]] = z /\ p[idx] > 0
      <4>1. z = y
        BY <1>1, <3>3
      <4>2. l[x] = h[x] /\ h[x] > 0
        BY <1>3, <2>1, <2>2, <2>4, <3>3, <4>1
      <4> QED
        BY <1>2, <2>1, <3>1, <3>3, <4>2
    <3>4. \A i \in 1 .. idx : i = idx \/ i \in 1 .. (idx - 1)
      BY <1>2
    <3> QED
      BY <2>2, <3>2, <3>3, <3>4
  <2> QED
    BY <1>3, <2>3, <2>4
<1>12. RisenInv' /\ ErosionInv' /\ BlockedInv'
  BY <1>1 DEF RisenInv, ErosionInv, BlockedInv
<1> QED
  BY <1>1, <1>7, <1>8, <1>9, <1>10, <1>11, <1>12 DEF MassInv, DemandInv

LEMMA LowTideEndKeepsMass ==
  ASSUME IInv, IInv', MassInv, LowTideEnd
  PROVE  MassInv'
<1>1. /\ pc = "low" /\ pc' = "erosion" /\ idx = 0 /\ idx' = 1
      /\ h' = [x \in Nodes(g) |-> IF x = g.source THEN l[g.source] ELSE 0]
      /\ UNCHANGED <<g, flow, maxFlow, dist, levelEdges, p, l>>
  BY DEF LowTideEnd, callVars, searchVars
<1>2. /\ Demanded /\ Answerable
      /\ 1 .. idx = {} /\ (idx + 1) .. Len(levelEdges) = 1 .. Len(levelEdges)
      /\ DOMAIN levelEdges = 1 .. Len(levelEdges)
  <2>1. DOMAIN levelEdges = 1 .. Len(levelEdges)
    BY LevelEdgesAreSequence
  <2> QED
    BY <1>1, <2>1 DEF MassInv, DemandInv
<1>3. l \in [Nodes(g) -> Nat] /\ g.source \in Nodes(g) /\ g.source # g.sink
  BY DEF IInv, TypeOK, IsCase
<1>4. SortedInv'
  BY <1>1 DEF MassInv, SortedInv, Live
<1>5. ErosionInv'
  <2>1. l[g.source] > 0
    BY <1>2 DEF Answerable
  <2>2. PICK I : I = 1 .. Len(levelEdges)
    OBVIOUS
  <2>3. ASSUME NEW x \in Nodes(g) \ {g.sink}
        PROVE  h'[x] + Incoming(x, I) <= Outgoing(x, I)
    <3>1. I \in SUBSET DOMAIN levelEdges
      BY <1>2, <2>2
    <3>2. Incoming(x, I) \in Nat /\ Outgoing(x, I) \in Nat
      BY <3>1, PositionFacts
    <3>3. l[x] = Outgoing(x, I) - Incoming(x, I)
      <4>1. l[x] = Outgoing(x, I) - Incoming(x, I) + 0
        BY <1>2, <2>2 DEF Demanded
      <4> QED
        BY <3>2, <4>1
    <3>4. h'[x] \in {0, l[x]} /\ l[x] \in Nat
      BY <1>1, <1>3
    <3> QED
      BY <3>2, <3>3, <3>4
  <2>4. /\ \A x : Incoming(x, I)' = Incoming(x, I) /\ Outgoing(x, I)' = Outgoing(x, I)
        /\ (idx .. Len(levelEdges))' = I
    BY <1>1, <2>2 DEF Incoming, Outgoing
  <2> QED
    BY <1>1, <2>1, <2>3, <2>4 DEF ErosionInv
<1>6. ConservationInv'
  <2>1. /\ TakenOut = 0 /\ TakenOut' = l[g.source] /\ BroughtIn = 0 /\ BroughtIn' = 0
    BY <1>1 DEF TakenOut, BroughtIn
  <2> SUFFICES ASSUME NEW x \in Nodes(g)
               PROVE  NetOutflow(g, flow, x) + h'[x] =
                        CASE x = g.source -> maxFlow + l[g.source]
                          [] x = g.sink   -> -maxFlow
                          [] OTHER        -> 0
    <3>1. \A x : NetOutflow(g, flow, x)' = NetOutflow(g, flow, x)
      BY <1>1
    <3>2. maxFlow + 0 = maxFlow
      BY DEF IInv, TypeOK
    <3> QED
      BY <1>1, <2>1, <3>1, <3>2 DEF ConservationInv
  <2>2. NetOutflow(g, flow, x) \in Int /\ maxFlow \in Int
    BY NetOutflowType DEF IInv, TypeOK
  <2>3. NetOutflow(g, flow, x) = CASE x = g.source -> maxFlow
                                   [] x = g.sink   -> -maxFlow
                                   [] OTHER        -> 0
    <3>1. NetOutflow(g, flow, x) + 0 = CASE x = g.source -> maxFlow + 0
                                         [] x = g.sink   -> -(maxFlow + 0)
                                         [] OTHER        -> 0
      BY <1>1, <2>1 DEF MassInv, ConservationInv
    <3> QED
      BY <2>2, <3>1
  <2>4. h'[x] = (IF x = g.source THEN l[g.source] ELSE 0) /\ l[g.source] \in Nat
    BY <1>1, <1>3
  <2> QED
    BY <1>3, <2>2, <2>3, <2>4
<1>7. RisenInv' /\ DemandInv' /\ BlockedInv'
  BY <1>1 DEF RisenInv, DemandInv, BlockedInv
<1> QED
  BY <1>4, <1>5, <1>6, <1>7 DEF MassInv

-------------------------------------------------------------------------------
(* The erosion.                                                            *)

LEMMA ErosionKeepsMass ==
  ASSUME IInv, IInv', MassInv, Erosion
  PROVE  MassInv'
<1>0. PICK a, b, x, y, amount : ErosionStep(a, b, x, y, amount)
  BY ErosionFacts
<1>1. /\ pc = "erosion" /\ pc' = pc /\ idx' = idx + 1
      /\ a = levelEdges[idx] /\ b = g.rev[a] /\ x = g.src[a] /\ y = g.dst[a]
      /\ UNCHANGED <<g, maxFlow, dist, levelEdges, l>>
  BY <1>0 DEF ErosionStep
<1>2. /\ Len(levelEdges) \in Nat /\ idx \in DOMAIN levelEdges /\ idx \in 1 .. Len(levelEdges)
      /\ DOMAIN levelEdges = 1 .. Len(levelEdges) /\ IsCase(g)
      /\ a \in Edges(g) /\ x \in Nodes(g) /\ y \in Nodes(g) /\ x # y
      /\ b \in Edges(g) /\ b # a /\ g.src[b] = y
  BY <1>0 DEF ErosionStep
<1>3. /\ h \in [Nodes(g) -> Nat] /\ h[x] \in Nat /\ h[y] \in Nat /\ p[idx] \in Nat
      /\ amount \in Nat /\ amount <= p[idx] /\ amount <= h[x] /\ amount \in {p[idx], h[x]}
  BY <1>0 DEF ErosionStep
<1>4. /\ h'[x] = h[x] - amount /\ h'[y] = h[y] + amount
      /\ \A z \in Nodes(g) : z # x /\ z # y => h'[z] = h[z]
  <2>1. h' = [[h EXCEPT ![x] = @ - amount] EXCEPT ![y] = @ + amount]
    BY <1>0 DEF ErosionStep
  <2> QED
    BY <1>2, <1>3, <2>1
<1>5. \A i \in DOMAIN levelEdges : i # idx => p'[i] = p[i]
  <2>1. p' = [p EXCEPT ![idx] = amount] /\ p \in [1 .. g.edgeCount -> Nat] /\ idx \in 1 .. g.edgeCount
    BY <1>0 DEF ErosionStep
  <2>2. \A i \in DOMAIN levelEdges : i \in 1 .. g.edgeCount
    BY LevelEdgeFacts
  <2> QED
    BY <2>1, <2>2
<1>6. /\ flow \in [Edges(g) -> Int] /\ flow' \in [Edges(g) -> Int]
      /\ flow'[a] = flow[a] + amount /\ flow'[b] = flow[b] - amount
      /\ \A c \in Edges(g) : c # a /\ c # b => flow'[c] = flow[c]
  BY <1>0 DEF ErosionStep
<1>7. SortedInv'
  BY <1>1 DEF MassInv, SortedInv, Live
<1>8. ErosionInv'
  <2>0. PICK I, J, m : I = idx .. Len(levelEdges) /\ J = (idx + 1) .. Len(levelEdges) /\ m = idx
    OBVIOUS
  <2>1. /\ J \in SUBSET DOMAIN levelEdges /\ m \in DOMAIN levelEdges /\ m \notin J
        /\ I = J \cup {m} /\ \A i \in J : i # idx
    BY <1>2, <2>0
  <2>2. ASSUME NEW z \in Nodes(g) \ {g.sink}
        PROVE  h'[z] + Incoming(z, J) <= Outgoing(z, J)
    <3>1. h[z] + Incoming(z, I) <= Outgoing(z, I)
      BY <1>1, <2>0 DEF MassInv, ErosionInv
    <3>2. /\ Outgoing(z, J \cup {m}) = Outgoing(z, J) + (IF g.src[levelEdges[m]] = z THEN p[m] ELSE 0)
          /\ Incoming(z, J \cup {m}) = Incoming(z, J) + (IF g.dst[levelEdges[m]] = z THEN p[m] ELSE 0)
      BY <2>1, OnePositionMore
    <3>3. /\ Outgoing(z, I) = Outgoing(z, J) + (IF x = z THEN p[idx] ELSE 0)
          /\ Incoming(z, I) = Incoming(z, J) + (IF y = z THEN p[idx] ELSE 0)
      BY <1>1, <2>0, <2>1, <3>2
    <3>4. Outgoing(z, J) \in Nat /\ Incoming(z, J) \in Nat /\ h[z] \in Nat
      BY <1>3, <2>1, PositionFacts
    <3>5. CASE z = x
      <4>1. CASE amount = p[idx]
        BY <1>2, <1>3, <1>4, <3>1, <3>3, <3>4, <3>5, <4>1, SMTT(30)
      <4>2. CASE amount # p[idx]
        <5>1. h'[z] = 0
          BY <1>3, <1>4, <3>5, <4>2
        <5>2. Enter(z, J) = {}
          <6>1. \A i \in J : g.dst[levelEdges[i]] # x
            <7>1. \A i \in J : i \in DOMAIN levelEdges /\ idx <= i
              BY <1>2, <2>0
            <7> QED
              BY <1>1, <1>2, <7>1, LevelOrder DEF MassInv
          <6> QED
            BY <3>5, <6>1 DEF Enter
        <5>3. Incoming(z, J) = 0
          BY <5>2, CarriedIsSum, SumOfNone
        <5> QED
          BY <3>4, <5>1, <5>3
      <4> QED
        BY <4>1, <4>2
    <3>6. CASE z = y
      BY SMTT(30), <1>2, <1>3, <1>4, <3>1, <3>3, <3>4, <3>6
    <3>7. CASE z # x /\ z # y
      BY SMTT(30), <1>3, <1>4, <3>1, <3>3, <3>4, <3>7
    <3> QED
      BY <3>5, <3>6, <3>7
  <2>3. \A z : Outgoing(z, J)' = Outgoing(z, J) /\ Incoming(z, J)' = Incoming(z, J)
    BY <1>1, <1>5, <2>1, CarriedIsSame
  <2>4. (idx .. Len(levelEdges))' = J
    BY <1>1, <2>0
  <2>5. l[g.source] > 0
    BY <1>1 DEF MassInv, ErosionInv
  <2> QED
    BY <1>1, <2>2, <2>3, <2>4, <2>5 DEF ErosionInv
<1>9. ASSUME NEW z \in Nodes(g)
      PROVE  NetOutflow(g, flow', z) + h'[z] = NetOutflow(g, flow, z) + h[z]
  <2>1. /\ Out(g, z) \subseteq Edges(g) /\ IsFiniteSet(Out(g, z))
        /\ \A c \in Out(g, z) : flow[c] \in Int /\ flow'[c] \in Int
        /\ \A c \in Edges(g) : c \in Out(g, z) <=> g.src[c] = z
    BY <1>2, <1>6, NetworkIsFinite DEF Out
  <2>2. /\ NetOutflow(g, flow, z) = SumOver(flow, Out(g, z))
        /\ NetOutflow(g, flow', z) = SumOver(flow', Out(g, z))
        /\ SumOver(flow, Out(g, z)) \in Int
    BY <2>1, NetOutflowIsSum, SumType
  <2>3. CASE z = x
    <3>1. a \in Out(g, z) /\ b \notin Out(g, z)
      BY <1>1, <1>2, <2>1, <2>3
    <3>2. SumOver(flow', Out(g, z)) = SumOver(flow, Out(g, z)) + flow'[a] - flow[a]
      <4>1. \A c \in Out(g, z) \ {a} : flow'[c] = flow[c]
        BY <1>6, <2>1, <3>1
      <4> QED
        BY <2>1, <3>1, <4>1, SumUpdate
    <3>3. flow[a] \in Int
      BY <1>2, <1>6
    <3> QED
      BY <1>3, <1>4, <1>6, <2>2, <2>3, <3>2, <3>3
  <2>4. CASE z = y
    <3>1. b \in Out(g, z) /\ a \notin Out(g, z)
      BY <1>1, <1>2, <2>1, <2>4
    <3>2. SumOver(flow', Out(g, z)) = SumOver(flow, Out(g, z)) + flow'[b] - flow[b]
      <4>1. \A c \in Out(g, z) \ {b} : flow'[c] = flow[c]
        BY <1>6, <2>1, <3>1
      <4> QED
        BY <2>1, <3>1, <4>1, SumUpdate
    <3>3. flow[b] \in Int
      BY <1>2, <1>6
    <3> QED
      BY <1>3, <1>4, <1>6, <2>2, <2>4, <3>2, <3>3
  <2>5. CASE z # x /\ z # y
    <3>1. a \notin Out(g, z) /\ b \notin Out(g, z)
      BY <1>1, <1>2, <2>1, <2>5
    <3>2. SumOver(flow', Out(g, z)) = SumOver(flow, Out(g, z))
      BY <1>6, <2>1, <3>1, SumSame
    <3> QED
      BY <1>4, <2>2, <2>5, <3>2
  <2> QED
    BY <2>3, <2>4, <2>5
<1>10. ConservationInv'
  <2>1. /\ TakenOut = l[g.source] /\ TakenOut' = l[g.source] /\ BroughtIn = 0 /\ BroughtIn' = 0
    BY <1>1 DEF TakenOut, BroughtIn
  <2>2. \A z : NetOutflow(g, flow, z)' = NetOutflow(g, flow', z)
    BY <1>1
  <2> QED
    BY <1>1, <1>9, <2>1, <2>2 DEF MassInv, ConservationInv
<1>11. RisenInv' /\ DemandInv' /\ BlockedInv'
  BY <1>1 DEF RisenInv, DemandInv, BlockedInv
<1> QED
  BY <1>7, <1>8, <1>10, <1>11 DEF MassInv

\* When the erosion is over nothing waits at a node but the sink, and what the
\* source has sent waits there: the balances of all nodes add up to 0.
LEMMA MassDelivers == IInv /\ MassInv => ErosionDelivers
<1> SUFFICES ASSUME IInv, MassInv, pc = "erosion", idx > Len(levelEdges)
             PROVE  \A x \in Nodes(g) : h[x] = IF x = g.sink THEN l[g.source] ELSE 0
  BY DEF ErosionDelivers
<1> DEFINE N == Nodes(g)
<1> DEFINE net == [x \in N |-> NetOutflow(g, flow, x)]
<1> DEFINE all == [x \in N |-> net[x] + h[x]]
<1>1. /\ IsCase(g) /\ g.source \in N /\ g.sink \in N /\ g.source # g.sink /\ IsFiniteSet(N)
      /\ h \in [N -> Nat] /\ l[g.source] \in Nat /\ maxFlow \in Int
      /\ flow \in [Edges(g) -> Int] /\ SkewSymmetry(g, flow)
  <2>1. IsCase(g) /\ g.source \in N /\ g.sink \in N /\ g.source # g.sink
    BY DEF IInv, TypeOK, IsCase
  <2>2. h \in [N -> Nat] /\ l \in [N -> Nat] /\ maxFlow \in Int /\ flow \in [Edges(g) -> Int]
    BY DEF IInv, TypeOK
  <2> QED
    BY <2>1, <2>2, NetworkIsFinite DEF IInv, FlowIsFeasible
<1>2. \A x \in N \ {g.sink} : h[x] = 0
  <2>1. idx .. Len(levelEdges) = {}
    BY DEF IInv, TypeOK
  <2>2. \A x \in N \ {g.sink} : h[x] + Incoming(x, {}) <= Outgoing(x, {})
    BY <2>1 DEF MassInv, ErosionInv
  <2>3. \A x : Incoming(x, {}) = 0 /\ Outgoing(x, {}) = 0
    BY NothingCarried
  <2> QED
    BY <1>1, <2>2, <2>3
<1>3. \A x \in N : net[x] \in Int /\ net[x] = NetOutflow(g, flow, x)
  BY <1>1, NetOutflowType
<1>4. \A x \in N : all[x] = net[x] + h[x] /\ all[x] \in Int
  BY <1>1, <1>3
<1>5. /\ all[g.source] = maxFlow + l[g.source] /\ all[g.sink] = -maxFlow
      /\ \A x \in N \ {g.source, g.sink} : all[x] = 0
  <2>1. TakenOut = l[g.source] /\ BroughtIn = 0
    BY DEF TakenOut, BroughtIn
  <2> QED
    BY <1>1, <1>3, <1>4, <2>1 DEF MassInv, ConservationInv
<1> HIDE DEF net, all
<1>6. SumOver(net, N) = 0
  <2>1. net \in [N -> Int]
    BY <1>3 DEF net
  <2> QED
    BY <1>1, <1>3, <2>1, SourceFeedsSink
<1>7. SumOver(h, N) = h[g.sink]
  BY <1>1, <1>2, SumOfOne
<1>8. SumOver(all, N) = l[g.source]
  <2>1. IsFiniteSet(N \ {g.source}) /\ \A x \in N \ {g.source} : all[x] \in Int
    BY <1>1, <1>4, FS_Subset
  <2>2. SumOver(all, N \ {g.source}) = all[g.sink]
    <3>1. g.sink \in N \ {g.source} /\ \A x \in (N \ {g.source}) \ {g.sink} : all[x] = 0
      BY <1>1, <1>5
    <3> QED
      BY <2>1, <3>1, SumOfOne
  <2>3. SumOver(all, N) = all[g.source] + SumOver(all, N \ {g.source})
    <3>1. g.source \in N /\ IsFiniteSet(N) /\ \A x \in N : all[x] \in Int
      BY <1>1, <1>4
    <3> HIDE DEF N
    <3> QED
      BY <3>1, SumRemove
  <2> QED
    BY <1>1, <1>5, <2>2, <2>3
<1>9. SumOver(all, N) = SumOver(net, N) + SumOver(h, N)
  <2>1. \A x \in N : net[x] \in Int /\ h[x] \in Int /\ all[x] = net[x] + h[x]
    BY <1>1, <1>3, <1>4
  <2> QED
    BY <1>1, <2>1, SumPlus
<1>10. h[g.sink] = l[g.source]
  BY <1>1, <1>6, <1>7, <1>8, <1>9
<1> QED
  BY <1>2, <1>10

LEMMA ErosionEndKeepsMass ==
  ASSUME IInv, IInv', MassInv, ErosionEnd
  PROVE  MassInv'
<1>1. /\ pc = "erosion" /\ pc' = "returned" /\ idx > Len(levelEdges) /\ sent' = h[g.sink]
      /\ UNCHANGED <<g, flow, maxFlow, dist, levelEdges>>
  BY DEF ErosionEnd, callVars, searchVars
<1>2. \A x \in Nodes(g) : h[x] = IF x = g.sink THEN l[g.source] ELSE 0
  BY <1>1, MassDelivers DEF ErosionDelivers
<1>3. /\ g.source \in Nodes(g) /\ g.sink \in Nodes(g) /\ g.source # g.sink
      /\ l[g.source] \in Nat /\ l[g.source] > 0 /\ maxFlow \in Int
  <2>1. g.source \in Nodes(g) /\ g.sink \in Nodes(g) /\ g.source # g.sink
    BY DEF IInv, TypeOK, IsCase
  <2> QED
    BY <1>1, <2>1 DEF IInv, TypeOK, MassInv, ErosionInv
<1>4. sent' = l[g.source]
  BY <1>1, <1>2, <1>3
<1>5. SortedInv'
  BY <1>1 DEF MassInv, SortedInv, Live
<1>6. ConservationInv'
  <2>1. TakenOut = l[g.source] /\ TakenOut' = l[g.source] /\ BroughtIn = 0 /\ BroughtIn' = l[g.source]
    BY <1>1, <1>4 DEF TakenOut, BroughtIn
  <2>2. \A z : NetOutflow(g, flow, z)' = NetOutflow(g, flow, z)
    BY <1>1
  <2>3. ASSUME NEW z \in Nodes(g)
        PROVE  NetOutflow(g, flow, z) = CASE z = g.source -> maxFlow + l[g.source]
                                          [] z = g.sink   -> -(maxFlow + l[g.source])
                                          [] OTHER        -> 0
    <3>1. NetOutflow(g, flow, z) \in Int
      BY NetOutflowType DEF IInv, TypeOK
    <3>2. NetOutflow(g, flow, z) + h[z] = CASE z = g.source -> maxFlow + l[g.source]
                                            [] z = g.sink   -> -(maxFlow + 0)
                                            [] OTHER        -> 0
      BY <1>1, <2>1 DEF MassInv, ConservationInv
    <3> QED
      BY <1>2, <1>3, <3>1, <3>2
  <2>4. \A z \in Nodes(g) : NetOutflow(g, flow, z) \in Int
    BY NetOutflowType DEF IInv, TypeOK
  <2> QED
    BY <1>1, <2>1, <2>2, <2>3, <2>4 DEF ConservationInv
<1>7. RisenInv' /\ DemandInv' /\ ErosionInv' /\ BlockedInv'
  BY <1>1, <1>3, <1>4 DEF RisenInv, DemandInv, ErosionInv, BlockedInv
<1> QED
  BY <1>5, <1>6, <1>7 DEF MassInv

LEMMA StutterKeepsMass ==
  ASSUME MassInv, UNCHANGED vars
  PROVE  MassInv'
<1>1. /\ UNCHANGED <<g, maxFlow, flow, pc, dist, levelEdges, idx, write>>
      /\ UNCHANGED <<h, p, l, sent>>
  BY DEF vars, callVars, searchVars, pruneVars, tideVars
<1>2. SortedInv'
  BY <1>1 DEF MassInv, SortedInv, Live
<1>3. ConservationInv'
  <2>1. TakenOut' = TakenOut /\ BroughtIn' = BroughtIn
    BY <1>1 DEF TakenOut, BroughtIn
  <2>2. \A x : NetOutflow(g, flow, x)' = NetOutflow(g, flow, x)
    BY <1>1
  <2> QED
    BY <1>1, <2>1, <2>2 DEF MassInv, ConservationInv
<1>4. \A x, I : Outgoing(x, I)' = Outgoing(x, I) /\ Incoming(x, I)' = Incoming(x, I)
  BY <1>1 DEF Outgoing, Incoming
<1>5. RisenInv'
  <2>1. ASSUME pc = "high", NEW I, I = 1 .. (idx - 1)
        PROVE  Risen(I, Nodes(g))'
    <3>1. Risen(I, Nodes(g))
      BY <2>1 DEF MassInv, RisenInv
    <3>2. \A a : Promise(a)' = Promise(a)
      BY <1>1 DEF Promise, Residual
    <3> QED
      BY <1>1, <1>4, <3>1, <3>2 DEF Risen
  <2>2. 1 .. (idx' - 1) = 1 .. (idx - 1)
    BY <1>1
  <2> QED
    BY <1>1, <2>1, <2>2 DEF RisenInv
<1>6. DemandInv'
  <2>1. Supplied' = Supplied /\ Answerable' = Answerable
    BY <1>1 DEF Supplied, Answerable
  <2>2. Demanded => Demanded'
    <3> SUFFICES ASSUME Demanded, NEW x \in Nodes(g), NEW I, I = (idx + 1) .. Len(levelEdges)
                 PROVE  l[x] = Outgoing(x, I)' - Incoming(x, I)' + (IF x = g.sink THEN h[g.sink] ELSE 0)
      BY <1>1 DEF Demanded
    <3>1. l[x] = Outgoing(x, I) - Incoming(x, I) + (IF x = g.sink THEN h[g.sink] ELSE 0)
      BY DEF Demanded
    <3> QED
      BY <1>4, <3>1
  <2> QED
    BY <1>1, <2>1, <2>2 DEF MassInv, DemandInv
<1>7. ErosionInv'
  <2> SUFFICES ASSUME pc = "erosion", NEW I, I = idx .. Len(levelEdges),
                      NEW x \in Nodes(g) \ {g.sink}
               PROVE  l[g.source] > 0 /\ h[x] + Incoming(x, I)' <= Outgoing(x, I)'
    <3>1. idx' .. Len(levelEdges') = idx .. Len(levelEdges)
      BY <1>1
    <3>2. pc = "erosion" => l[g.source] > 0
      BY DEF MassInv, ErosionInv
    <3> QED
      BY <1>1, <3>1, <3>2 DEF ErosionInv
  <2>1. l[g.source] > 0 /\ h[x] + Incoming(x, I) <= Outgoing(x, I)
    BY DEF MassInv, ErosionInv
  <2> QED
    BY <1>4, <2>1
<1>8. BlockedInv'
  BY <1>1 DEF MassInv, BlockedInv, Residual
<1> QED
  BY <1>2, <1>3, <1>5, <1>6, <1>7, <1>8 DEF MassInv

LEMMA CommonStepKeepsMass ==
  ASSUME IInv, IInv', MassInv, [CommonStep]_vars
  PROVE  MassInv'
<1>1. CASE BuildStart \/ NextLevel \/ Dequeue \/ SkipEdge \/ RecordEdge \/ ScanEnd \/ MarkReach
  BY <1>1, SearchKeepsMass DEF BuildStart, RecordEdge
<1>2. CASE BuildEnd \/ PruneStart \/ MarkEnd
  BY <1>2, SearchEndKeepsMass
<1>3. CASE CompactEdge \/ CompactEnd
  BY <1>3, CompactKeepsMass, CompactEndKeepsMass DEF CompactEdge
<1>4. CASE TideStart \/ HighTide \/ HighTideEnd \/ LowTide \/ LowTideEnd \/ Erosion \/ ErosionEnd
  BY <1>4, TideStartKeepsMass, HighTideKeepsMass, HighTideEndKeepsMass, LowTideKeepsMass,
     LowTideEndKeepsMass, ErosionKeepsMass, ErosionEndKeepsMass
<1>5. CASE Allocate \/ AddAndRebuild \/ AddAndRepeat \/ Rebuild
  BY <1>5, DriverKeepsMass
<1>6. CASE UNCHANGED vars
  BY <1>6, StutterKeepsMass
<1> QED
  BY <1>1, <1>2, <1>3, <1>4, <1>5, <1>6 DEF CommonStep

-------------------------------------------------------------------------------
(* What follows.                                                           *)

\* A cycle that sent nothing: the edges with residual capacity do not lead out of
\* the nodes the high tide has reached, and the sink is not one of them.
LEMMA MassIsBlocked == IInv /\ MassInv => ZeroCycleMeansBlocked
<1> SUFFICES ASSUME IInv, MassInv, pc = "returned", sent <= 0
             PROVE  g.source \notin CoReach(g, {a \in LevelEdgeSet : Residual(g, flow, a) > 0})
  BY DEF ZeroCycleMeansBlocked
<1> DEFINE E == {a \in LevelEdgeSet : Residual(g, flow, a) > 0}
<1> DEFINE T == {x \in Nodes(g) : h[x] > 0}
<1>1. IsCase(g) /\ g.source \in Nodes(g) /\ sent = 0
  BY DEF IInv, TypeOK, IsCase
<1>2. h[g.source] > 0 /\ ~(h[g.sink] > 0)
  BY <1>1 DEF MassInv, BlockedInv
<1>3. E \subseteq Edges(g)
  BY LevelEdgeFacts DEF LevelEdgeSet
<1>4. ASSUME NEW a \in E, g.src[a] \in T
      PROVE  g.dst[a] \in T
  <2>1. PICK i \in DOMAIN levelEdges : levelEdges[i] = a
    BY DEF LevelEdgeSet
  <2>2. g.dst[a] \in Nodes(g)
    BY <2>1, LevelEdgeFacts
  <2> QED
    BY <1>1, <1>4, <2>1, <2>2 DEF MassInv, BlockedInv
<1>5. g.source \in T /\ g.sink \notin T
  BY <1>1, <1>2
<1> HIDE DEF E, T
<1>6. CoReach(g, E) \cap T = {}
  BY <1>1, <1>3, <1>4, <1>5, BlockedSetHasNoPath
<1> QED
  BY <1>5, <1>6 DEF E

\* Whenever no erosion is under way the balances make flow[] a flow, whose value
\* is maxFlow and what has not been added to it yet.
LEMMA BalancesMakeFlow ==
  ASSUME IInv, MassInv, pc \notin {"erosion", "failed"}
  PROVE  IsFlow(g, flow) /\ FlowValue(g, flow) = maxFlow + TakenOut
<1>1. /\ IsCase(g) /\ g.source \in Nodes(g) /\ g.sink \in Nodes(g) /\ g.source # g.sink
      /\ flow \in [Edges(g) -> Int]
  <2>1. IsCase(g) /\ g.source \in Nodes(g) /\ g.sink \in Nodes(g) /\ g.source # g.sink
    BY DEF IInv, TypeOK, IsCase
  <2> QED
    BY <2>1 DEF IInv, TypeOK
<1>2. \A x \in Nodes(g) : NetOutflow(g, flow, x) = CASE x = g.source -> maxFlow + TakenOut
                                                     [] x = g.sink   -> -(maxFlow + BroughtIn)
                                                     [] OTHER        -> 0
  <2> SUFFICES ASSUME NEW x \in Nodes(g)
               PROVE  NetOutflow(g, flow, x) = CASE x = g.source -> maxFlow + TakenOut
                                                 [] x = g.sink   -> -(maxFlow + BroughtIn)
                                                 [] OTHER        -> 0
    OBVIOUS
  <2>1. NetOutflow(g, flow, x) \in Int
    BY <1>1, NetOutflowType
  <2>2. NetOutflow(g, flow, x) + 0 = CASE x = g.source -> maxFlow + TakenOut
                                       [] x = g.sink   -> -(maxFlow + BroughtIn)
                                       [] OTHER        -> 0
    BY DEF MassInv, ConservationInv
  <2> QED
    BY <2>1, <2>2
<1>3. FlowValue(g, flow) = maxFlow + TakenOut /\ Conserves(g, flow)
  BY <1>1, <1>2 DEF FlowValue, Conserves
<1> QED
  BY <1>3 DEF IInv, FlowIsFeasible, IsFlow

\* In the end the nodes the last search has discovered make a cut that it fills.
LEMMA MassIsMaxFlow == IInv /\ MassInv => ResultIsMaxFlow
<1> SUFFICES ASSUME IInv, MassInv, pc = "done" PROVE maxFlow = MinCut(g)
  BY DEF ResultIsMaxFlow
<1> DEFINE N == {x \in Nodes(g) : dist[x] # -1}
<1>1. /\ IsCase(g) /\ g.source \in Nodes(g) /\ g.sink \in Nodes(g)
      /\ flow \in [Edges(g) -> Int] /\ maxFlow \in Int
  <2>1. IsCase(g) /\ g.source \in Nodes(g) /\ g.sink \in Nodes(g)
    BY DEF IInv, TypeOK, IsCase
  <2> QED
    BY <2>1 DEF IInv, TypeOK
<1>2. IsFlow(g, flow) /\ FlowValue(g, flow) = maxFlow
  <2>1. TakenOut = 0
    BY DEF TakenOut
  <2>2. IsFlow(g, flow) /\ FlowValue(g, flow) = maxFlow + TakenOut
    BY BalancesMakeFlow
  <2> QED
    BY <1>1, <2>1, <2>2
<1>3. N \in SUBSET Nodes(g) /\ g.source \in N /\ g.sink \notin N
  BY <1>1 DEF IInv, CutCertificate
<1>4. \A a \in Leaving(g, N) : flow[a] = g.capacity[a]
  <2> SUFFICES ASSUME NEW a \in Edges(g), g.src[a] \in N, g.dst[a] \notin N
               PROVE  flow[a] = g.capacity[a]
    BY DEF Leaving
  <2>1. g.dst[a] \in Nodes(g)
    BY <1>1, CaseFacts
  <2> QED
    BY <2>1 DEF IInv, CutCertificate
<1>5. \A a \in Edges(g) : flow[a] \in Int
  BY <1>1
<1> HIDE DEF N
<1>6. FlowValue(g, flow) = MinCut(g)
  BY <1>1, <1>2, <1>3, <1>4, <1>5, FilledCutIsMinimal
<1> QED
  BY <1>2, <1>6

-------------------------------------------------------------------------------
(* The widths of the tides.                                                *)

\* While it rises, the high tide of a node is a sum of residual capacities.
LEMMA RisenFits ==
  ASSUME IInv, g \in Cases, NEW I \in SUBSET DOMAIN levelEdges, NEW N \in SUBSET Nodes(g),
         Risen(I, N)
  PROVE  \A x \in N : h[x] <= LLongMax
<1> SUFFICES ASSUME NEW x \in N, x # g.source PROVE h[x] <= LLongMax
  BY IntAssumption, WidthsAssumption DEF Risen
<1> DEFINE S == Enter(x, I)
<1>1. /\ IsFiniteSet(S) /\ S \subseteq I
      /\ \A i \in I : p[i] \in Nat /\ p[i] \in Int
  BY PositionFacts
<1>2. \A i \in I : p[i] <= IntMax
  <2> SUFFICES ASSUME NEW i \in I PROVE p[i] <= IntMax
    OBVIOUS
  <2>1. levelEdges[i] \in Edges(g) /\ g.src[levelEdges[i]] \in Nodes(g)
    BY LevelEdgeFacts
  <2>2. /\ Residual(g, flow, levelEdges[i]) \in Nat /\ Residual(g, flow, levelEdges[i]) <= IntMax
        /\ h[g.src[levelEdges[i]]] \in Nat
    <3>1. Residual(g, flow, levelEdges[i]) \in 0 .. IntMax
      BY <2>1, InvariantBoundsResiduals DEF ResidualFitsInt
    <3> QED
      BY SMTT(30), <2>1, <3>1, IntAssumption, WidthsAssumption DEF IInv, TypeOK
  <2>3. p[i] = Promise(levelEdges[i])
    BY DEF Risen
  <2> QED
    BY <2>2, <2>3, IntAssumption, WidthsAssumption DEF Promise, Lesser
<1>3. SumOver(p, S) <= Cardinality(S) * IntMax
  <2> HIDE DEF S
  <2>1. \A i \in S : p[i] \in Int /\ p[i] <= IntMax
    BY <1>1, <1>2
  <2> QED
    BY <1>1, <2>1, IntAssumption, WidthsAssumption, SumBounded
<1>4. Cardinality(S) \in Nat /\ Cardinality(S) <= g.edgeCount /\ g.edgeCount \in Nat
  <2> DEFINE n == Len(levelEdges)
  <2>1. /\ DOMAIN levelEdges = 1 .. n /\ n \in Nat /\ n <= g.edgeCount /\ g.edgeCount \in Nat
    <3>1. DOMAIN levelEdges = 1 .. n /\ n \in Nat
      BY DEF IInv, TypeOK
    <3> QED
      BY <3>1 DEF IInv, TypeOK, IsCase, BuffersSuffice
  <2>2. S \subseteq 1 .. n
    BY <1>1, <2>1
  <2> HIDE DEF S, n
  <2>3. IsFiniteSet(1 .. n) /\ Cardinality(1 .. n) = IF 1 > n THEN 0 ELSE n - 1 + 1
    BY <2>1, FS_Interval
  <2>4. Cardinality(S) <= Cardinality(1 .. n) /\ Cardinality(S) \in Nat
    BY <1>1, <2>2, <2>3, FS_Subset, FS_CardinalityType
  <2> QED
    BY <2>1, <2>3, <2>4
<1> HIDE DEF S
<1>5. Cardinality(S) * IntMax <= g.edgeCount * IntMax
  <2>1. \A i, j, b \in Nat : i <= j => i * b <= j * b
    OBVIOUS
  <2> QED
    BY <1>4, <2>1, IntAssumption, WidthsAssumption
<1>6. g.edgeCount * IntMax <= LLongMax
  BY SlotsAssumption
<1>7. h[x] = SumOver(p, S)
  BY CarriedIsSum DEF Risen, S
<1>8. SumOver(p, S) \in Int /\ Cardinality(S) * IntMax \in Int /\ g.edgeCount * IntMax \in Int
  <2>1. SumOver(p, S) \in Int
    BY <1>1, SumType
  <2> QED
    BY <1>4, <2>1, IntAssumption, WidthsAssumption
<1> QED
  BY <1>3, <1>5, <1>6, <1>7, <1>8, IntAssumption, WidthsAssumption

\* In particular in the loop of the high tide.
LEMMA HighTideFits ==
  IInv /\ g \in Cases /\ RisenInv /\ pc = "high" => TidesFitLongLong
<1> SUFFICES ASSUME IInv, g \in Cases, RisenInv, pc = "high" PROVE TidesFitLongLong
  OBVIOUS
<1>1. PICK I : I = 1 .. (idx - 1)
  OBVIOUS
<1>2. I \in SUBSET DOMAIN levelEdges
  <2>1. DOMAIN levelEdges = 1 .. Len(levelEdges) /\ Len(levelEdges) \in Nat
    BY LevelEdgesAreSequence
  <2> QED
    BY <1>1, <2>1 DEF IInv, PromiseInv
<1>3. Risen(I, Nodes(g))
  BY <1>1 DEF RisenInv
<1> QED
  BY <1>2, <1>3, RisenFits DEF TidesFitLongLong

LEMMA InitEstablishesTides == Init => TidesInv
BY IntAssumption, WidthsAssumption DEF Init, TidesInv, TidesFitLongLong

\* Steps that do not touch h[].
LEMMA NoTideMoves ==
  ASSUME TidesInv, UNCHANGED <<g, h>>, pc' # "erosion"
  PROVE  TidesInv'
BY DEF TidesInv, TidesFitLongLong

LEMMA TideStartFits ==
  ASSUME IInv, TidesInv, TideStart
  PROVE  TidesInv'
<1>1. /\ pc' = "high" /\ UNCHANGED g
      /\ h' = [x \in Nodes(g) |-> IF x = g.source THEN LLongMax ELSE 0]
  BY DEF TideStart, callVars
<1>2. \A x \in Nodes(g) : h'[x] <= LLongMax
  BY <1>1, IntAssumption, WidthsAssumption
<1> QED
  BY <1>1, <1>2 DEF TidesInv, TidesFitLongLong

LEMMA HighTideStepFits ==
  ASSUME IInv', MassInv', TidesInv, HighTide
  PROVE  TidesInv'
<1>1. pc' = "high" /\ g' \in Cases
  BY DEF HighTide, callVars, TidesInv
<1>2. RisenInv'
  BY DEF MassInv
<1>3. (g \in Cases)' /\ (pc = "high")'
  BY <1>1
<1>4. TidesFitLongLong'
  BY <1>2, <1>3, HighTideFits, PTL
<1> QED
  BY <1>1, <1>4 DEF TidesInv

LEMMA LowTideEndFits ==
  ASSUME IInv, TidesInv, LowTideEnd
  PROVE  TidesInv'
<1>1. /\ pc = "low" /\ pc' = "erosion" /\ UNCHANGED <<g, l>>
      /\ h' = [x \in Nodes(g) |-> IF x = g.source THEN l[g.source] ELSE 0]
  BY DEF LowTideEnd, callVars
<1>2. /\ g.source \in Nodes(g) /\ h[g.source] \in Nat /\ l[g.source] \in Nat
      /\ l[g.source] <= h[g.source] /\ h[g.source] <= LLongMax /\ IsCase(g)
  <2>1. g.source \in Nodes(g) /\ IsCase(g)
    BY DEF IInv, TypeOK, IsCase
  <2> QED
    BY <1>1, <2>1 DEF IInv, TypeOK, LowTideBound, TidesInv, TidesFitLongLong
<1>3. l[g.source] <= LLongMax
  BY <1>2, IntAssumption, WidthsAssumption
<1>4. \A x \in Nodes(g) : h'[x] <= LLongMax
  BY <1>1, <1>3, IntAssumption, WidthsAssumption
<1>5. SumOver(h', Nodes(g)) = l[g.source]
  <2>1. IsFiniteSet(Nodes(g))
    BY <1>2, NetworkIsFinite
  <2>2. \A x \in Nodes(g) \ {g.source} : h'[x] = 0
    BY <1>1
  <2>3. h'[g.source] = l[g.source]
    BY <1>1, <1>2
  <2>4. h'[g.source] \in Int
    BY <1>2, <2>3
  <2>5. SumOver(h', Nodes(g)) = h'[g.source]
    BY <1>2, <2>1, <2>2, <2>4, SumOfOne
  <2> QED
    BY <2>3, <2>5
<1>6. SumOver(h, Nodes(g))' = SumOver(h', Nodes(g))
  BY <1>1
<1> QED
  BY <1>1, <1>3, <1>4, <1>5, <1>6 DEF TidesInv, TidesFitLongLong

LEMMA ErosionFits ==
  ASSUME IInv, TidesInv, Erosion
  PROVE  TidesInv'
<1>0. PICK a, b, x, y, amount : ErosionStep(a, b, x, y, amount)
  BY ErosionFacts
<1>1. /\ pc = "erosion" /\ pc' = pc /\ UNCHANGED <<g, l>> /\ IsCase(g)
      /\ x \in Nodes(g) /\ y \in Nodes(g) /\ x # y
      /\ h \in [Nodes(g) -> Nat] /\ h[x] \in Nat /\ h[y] \in Nat
      /\ amount \in Nat /\ amount <= h[x]
      /\ h' = [[h EXCEPT ![x] = @ - amount] EXCEPT ![y] = @ + amount]
  BY <1>0 DEF ErosionStep
<1>2. PICK k : k = [h EXCEPT ![x] = @ - amount]
  OBVIOUS
<1>3. /\ k[x] = h[x] - amount /\ k[y] = h[y]
      /\ \A z \in Nodes(g) : z # x => k[z] = h[z]
      /\ h'[y] = k[y] + amount
      /\ \A z \in Nodes(g) : z # y => h'[z] = k[z]
  BY <1>1, <1>2
<1>4. \A z \in Nodes(g) : h[z] \in Nat /\ h[z] \in Int /\ k[z] \in Int /\ h'[z] \in Nat /\ h'[z] \in Int
  <2> SUFFICES ASSUME NEW z \in Nodes(g)
               PROVE  h[z] \in Nat /\ k[z] \in Nat /\ h'[z] \in Nat
    OBVIOUS
  <2>1. h[z] \in Nat
    BY <1>1
  <2>2. k[z] \in Nat
    BY <1>1, <1>3, <2>1
  <2> QED
    BY <1>1, <1>3, <2>1, <2>2
<1>5. IsFiniteSet(Nodes(g))
  BY <1>1, NetworkIsFinite
<1>6. SumOver(k, Nodes(g)) = SumOver(h, Nodes(g)) + k[x] - h[x]
  <2>1. \A z \in Nodes(g) \ {x} : k[z] = h[z]
    BY <1>3
  <2> QED
    BY <1>1, <1>4, <1>5, <2>1, SumUpdate
<1>7. SumOver(h', Nodes(g)) = SumOver(k, Nodes(g)) + h'[y] - k[y]
  <2>1. \A z \in Nodes(g) \ {y} : h'[z] = k[z]
    BY <1>3
  <2>2. \A z \in Nodes(g) : k[z] \in Int /\ h'[z] \in Int
    BY <1>4
  <2>3. y \in Nodes(g)
    BY <1>1
  <2> QED
    BY <1>5, <2>1, <2>2, <2>3, SumUpdate
<1>8. SumOver(h', Nodes(g)) = l[g.source] /\ l[g.source] <= LLongMax
  <2>1. SumOver(h, Nodes(g)) = l[g.source] /\ l[g.source] <= LLongMax
    BY <1>1 DEF TidesInv
  <2>2. SumOver(h, Nodes(g)) \in Int
    BY <1>4, <1>5, SumType
  <2> QED
    BY <1>1, <1>3, <1>6, <1>7, <2>1, <2>2
<1>9. \A z \in Nodes(g) : h'[z] <= LLongMax
  <2>1. \A z \in Nodes(g) : h'[z] <= SumOver(h', Nodes(g))
    BY <1>4, <1>5, SumOfNaturals
  <2>2. SumOver(h', Nodes(g)) \in Nat
    BY <1>4, <1>5, SumOfNaturals
  <2> QED
    BY <1>4, <1>8, <2>1, <2>2, IntAssumption, WidthsAssumption
<1>10. SumOver(h, Nodes(g))' = SumOver(h', Nodes(g))
  BY <1>1
<1> QED
  BY <1>1, <1>8, <1>9, <1>10 DEF TidesInv, TidesFitLongLong

LEMMA ErosionEndFits ==
  ASSUME TidesInv, ErosionEnd
  PROVE  TidesInv'
BY NoTideMoves DEF ErosionEnd, callVars

LEMMA CommonStepKeepsTides ==
  ASSUME IInv, IInv', MassInv', TidesInv, [CommonStep]_vars
  PROVE  TidesInv'
<1>1. CASE BuildStart \/ NextLevel \/ Dequeue \/ SkipEdge \/ RecordEdge \/ ScanEnd \/ BuildEnd
           \/ PruneStart \/ MarkReach \/ MarkEnd \/ CompactEdge \/ CompactEnd
  <2>1. UNCHANGED <<g, h>> /\ pc' # "erosion"
    BY <1>1 DEF BuildStart, Start, NextLevel, Dequeue, SkipEdge, RecordEdge, Record, ScanEnd,
       BuildEnd, PruneStart, MarkReach, MarkEnd, CompactEdge, Compact, CompactEnd, callVars, tideVars
  <2> QED
    BY <2>1, NoTideMoves
<1>2. CASE Allocate \/ HighTideEnd \/ LowTide \/ AddAndRebuild \/ AddAndRepeat \/ Rebuild
  <2>1. UNCHANGED <<g, h>> /\ pc' # "erosion"
    BY <1>2 DEF Allocate, HighTideEnd, LowTide, AddAndRebuild, AddAndRepeat, Rebuild, callVars, tideVars
  <2> QED
    BY <2>1, NoTideMoves
<1>3. CASE TideStart \/ HighTide \/ LowTideEnd \/ Erosion \/ ErosionEnd
  BY <1>3, TideStartFits, HighTideStepFits, LowTideEndFits, ErosionFits, ErosionEndFits
<1>4. CASE UNCHANGED vars
  <2>1. UNCHANGED <<g, h, l, pc>>
    BY <1>4 DEF vars, callVars, tideVars
  <2>2. SumOver(h, Nodes(g))' = SumOver(h, Nodes(g))
    BY <2>1
  <2> QED
    BY <2>1, <2>2 DEF TidesInv, TidesFitLongLong
<1> QED
  BY <1>1, <1>2, <1>3, <1>4 DEF CommonStep

-------------------------------------------------------------------------------
(***************************************************************************)
(* MaxFlow is seen through the refinement mapping of TidalSeq.             *)
(***************************************************************************)
AbstractStep == [Abstract!Next]_(Abstract!vars)

\* The operators on networks mean the same in MaxFlow.
LEMMA SameNetwork ==
  ASSUME NEW c, NEW f
  PROVE  /\ Abstract!Edges(c) = Edges(c)
         /\ Abstract!IsFlow(c, f) <=> IsFlow(c, f)
         /\ Abstract!FlowValue(c, f) = FlowValue(c, f)
         /\ Abstract!HasAugmentingPath(c, f) <=> HasAugmentingPath(c, f)
<1>1. Abstract!Edges(c) = Edges(c) /\ Abstract!Nodes(c) = Nodes(c)
  BY DEF Abstract!Edges, Edges, Abstract!Nodes, Nodes
<1>2. \A x : Abstract!NetOutflow(c, f, x) = NetOutflow(c, f, x)
  <2>1. \A S : Abstract!SumOver(f, S) = SumOver(f, S)
    BY DEF Abstract!SumOver, SumOver, Abstract!MapThenSumSet, MapThenSumSet,
           Abstract!MapThenFoldSet, MapThenFoldSet
  <2>2. \A x : Abstract!Out(c, x) = Out(c, x)
    BY <1>1 DEF Abstract!Out, Out
  <2> QED
    BY <2>1, <2>2 DEF Abstract!NetOutflow, NetOutflow
<1>3. Abstract!IsFlow(c, f) <=> IsFlow(c, f)
  BY <1>1, <1>2
  DEF Abstract!IsFlow, IsFlow, Abstract!CapacityOK, CapacityOK, Abstract!SkewSymmetry, SkewSymmetry,
      Abstract!Conserves, Conserves
<1>4. Abstract!FlowValue(c, f) = FlowValue(c, f)
  BY <1>2 DEF Abstract!FlowValue, FlowValue
<1>5. Abstract!Distances(c, f) = Distances(c, f)
  <2>1. Abstract!ResidualEdges(c, f) = ResidualEdges(c, f)
    BY <1>1 DEF Abstract!ResidualEdges, ResidualEdges, Abstract!Residual, Residual
  <2>2. \A start, near, n : Abstract!Spread(start, near, n) = Spread(start, near, n)
    BY DEF Abstract!Spread, Spread
  <2>3. Abstract!Balls(c, f) = Balls(c, f)
    BY <1>1, <2>1, <2>2 DEF Abstract!Balls, Balls
  <2>4. \A S : Abstract!Cardinality(S) = Cardinality(S)
    BY DEF Abstract!Cardinality, Cardinality
  <2> QED
    BY <1>1, <2>3, <2>4 DEF Abstract!Distances, Distances
<1>6. Abstract!HasAugmentingPath(c, f) <=> HasAugmentingPath(c, f)
  BY <1>5 DEF Abstract!HasAugmentingPath, HasAugmentingPath
<1> QED
  BY <1>1, <1>3, <1>4, <1>6

\* Between two cycles the abstract flow is the flow.
LEMMA NothingEroded == IInv /\ Eroded = {} => CommittedFlow = flow
<1> SUFFICES ASSUME IInv, Eroded = {} PROVE CommittedFlow = flow
  OBVIOUS
<1>1. flow \in [Edges(g) -> Int]
  BY DEF IInv, TypeOK
<1>2. \A a : SentBy({}, a) = 0
  BY DEF SentBy
<1>3. \A a \in Edges(g) : flow[a] - SentBy({}, a) + SentBy({}, g.rev[a]) = flow[a]
  BY <1>1, <1>2
<1> QED
  BY <1>1, <1>3 DEF CommittedFlow, FlowWithout

\* Steps that neither send flow nor add a value are not seen.
LEMMA QuietStep ==
  ASSUME IInv, IInv', UNCHANGED <<g, flow, maxFlow>>, Running, Running',
         Eroded = {}, Eroded' = {}
  PROVE  AbstractStep
<1>1. CommittedFlow = flow
  BY NothingEroded
<1>2. (Eroded = {})'
  OBVIOUS
<1>3. (CommittedFlow = flow)'
  BY <1>2, NothingEroded, PTL
<1>4. Status = "running" /\ Status' = "running"
  BY DEF Status
<1> QED
  BY <1>1, <1>3, <1>4 DEF AbstractStep, Abstract!vars

\* Position i of a set without repeated slots.
LEMMA SentFacts ==
  ASSUME NEW I, \A i, j \in I : levelEdges[i] = levelEdges[j] => i = j
  PROVE  /\ \A i \in I : SentBy(I, levelEdges[i]) = p[i]
         /\ \A a : (\A i \in I : levelEdges[i] # a) => SentBy(I, a) = 0
<1>1. ASSUME NEW i \in I
      PROVE  SentBy(I, levelEdges[i]) = p[i]
  <2>1. (CHOOSE j \in I : levelEdges[j] = levelEdges[i]) = i
    OBVIOUS
  <2> QED
    BY <2>1 DEF SentBy
<1>2. ASSUME NEW a, \A i \in I : levelEdges[i] # a
      PROVE  SentBy(I, a) = 0
  BY <1>2 DEF SentBy
<1> QED
  BY <1>1, <1>2

\* What a slot is seen to carry does not change while it is eroded.
LEMMA ErosionIsQuiet ==
  ASSUME IInv, Erosion
  PROVE  AbstractStep
<1>0. PICK a, b, x, y, amount : ErosionStep(a, b, x, y, amount)
  BY ErosionFacts
<1>1. /\ pc = "erosion" /\ pc' = pc /\ idx' = idx + 1 /\ a = levelEdges[idx] /\ b = g.rev[a]
      /\ UNCHANGED <<g, maxFlow, levelEdges>>
      /\ p' = [p EXCEPT ![idx] = amount]
      /\ p \in [1 .. g.edgeCount -> Nat] /\ amount \in Nat
      /\ idx \in 1 .. Len(levelEdges) /\ DOMAIN levelEdges = 1 .. Len(levelEdges)
      /\ Len(levelEdges) \in Nat /\ idx \in 1 .. g.edgeCount
      /\ IsCase(g) /\ a \in Edges(g) /\ b \in Edges(g) /\ b # a /\ g.rev[b] = a
  BY <1>0 DEF ErosionStep
<1>2. /\ flow \in [Edges(g) -> Int] /\ flow' \in [Edges(g) -> Int]
      /\ flow'[a] = flow[a] + amount /\ flow'[b] = flow[b] - amount
      /\ \A c \in Edges(g) : c # a /\ c # b => flow'[c] = flow[c]
  BY <1>0 DEF ErosionStep
<1>3. \A i, j \in 1 .. Len(levelEdges) : levelEdges[i] = levelEdges[j] => i = j
  BY <1>1 DEF IInv, NoRepeatInv, Live
<1>4. PICK I, J : I = 1 .. (idx - 1) /\ J = 1 .. idx
  OBVIOUS
<1>5. /\ I \subseteq 1 .. Len(levelEdges) /\ J \subseteq 1 .. Len(levelEdges)
      /\ J = I \cup {idx} /\ idx \notin I
  BY <1>1, <1>4
<1>6. \A i \in I : p'[i] = p[i]
  <2>1. \A i \in I : i \in 1 .. g.edgeCount
    BY <1>1, <1>5, LevelEdgeFacts
  <2> QED
    BY <1>1, <1>5, <2>1
<1>7. p'[idx] = amount
  BY <1>1
<1>8. /\ \A i \in I : SentBy(I, levelEdges[i]) = p[i]
      /\ \A c : (\A i \in I : levelEdges[i] # c) => SentBy(I, c) = 0
  BY <1>3, <1>5, SentFacts
<1>9. /\ \A c : \A i \in J : levelEdges[i] = c => SentBy(J, c)' = p'[i]
      /\ \A c : (\A i \in J : levelEdges[i] # c) => SentBy(J, c)' = 0
  <2>1. \A i, j \in J : levelEdges[i] = levelEdges[j] => i = j
    BY <1>3, <1>5
  <2>2. ASSUME NEW c, NEW i \in J, levelEdges[i] = c
        PROVE  SentBy(J, c)' = p'[i]
    <3>1. (CHOOSE j \in J : levelEdges'[j] = c) = i
      BY <1>1, <2>1, <2>2
    <3> QED
      BY <1>1, <2>2, <3>1 DEF SentBy
  <2>3. ASSUME NEW c, \A i \in J : levelEdges[i] # c
        PROVE  SentBy(J, c)' = 0
    BY <1>1, <2>3 DEF SentBy
  <2> QED
    BY <2>2, <2>3
<1>10. /\ SentBy(I, a) = 0 /\ SentBy(J, a)' = amount
       /\ \A c \in Edges(g) : c # a => SentBy(J, c)' = SentBy(I, c)
  <2>1. SentBy(I, a) = 0
    BY <1>1, <1>3, <1>5, <1>8
  <2>2. SentBy(J, a)' = amount
    BY <1>1, <1>5, <1>7, <1>9
  <2>3. ASSUME NEW c \in Edges(g), c # a
        PROVE  SentBy(J, c)' = SentBy(I, c)
    <3>1. CASE \E i \in I : levelEdges[i] = c
      <4>1. PICK i \in I : levelEdges[i] = c
        BY <3>1
      <4>2. SentBy(I, c) = p[i] /\ p'[i] = p[i] /\ i \in J
        BY <1>5, <1>6, <1>8, <4>1
      <4>3. SentBy(J, c)' = p'[i]
        BY <1>9, <4>1, <4>2
      <4> QED
        BY <4>2, <4>3
    <3>2. CASE \A i \in I : levelEdges[i] # c
      <4>1. \A i \in J : levelEdges[i] # c
        BY <1>1, <1>5, <2>3, <3>2
      <4> QED
        BY <1>8, <1>9, <3>2, <4>1
    <3> QED
      BY <3>1, <3>2
  <2> QED
    BY <2>1, <2>2, <2>3
<1>11. \A c \in Edges(g) : SentBy(I, c) \in Int
  <2>1. \A i \in I : p[i] \in Int
    <3>1. I \in SUBSET DOMAIN levelEdges
      BY <1>1, <1>5
    <3> QED
      BY <3>1, PositionFacts
  <2> QED
    BY <1>8, <2>1
<1>12. FlowWithout(J)' = FlowWithout(I)
  <2>1. ASSUME NEW c \in Edges(g), NEW d, d = g.rev[c]
        PROVE  flow'[c] - SentBy(J, c)' + SentBy(J, d)' = flow[c] - SentBy(I, c) + SentBy(I, d)
    <3>1. d \in Edges(g) /\ g.rev[d] = c /\ d # c
      BY <1>1, <2>1, SlotFacts
    <3>2. flow[c] \in Int /\ SentBy(I, c) \in Int /\ SentBy(I, d) \in Int
      BY <1>2, <1>11, <3>1
    <3>3. CASE c = a
      <4>1. d = b
        BY <1>1, <2>1, <3>3
      <4>2. SentBy(J, c)' = amount /\ SentBy(I, c) = 0
        BY <1>10, <3>3
      <4>3. SentBy(J, d)' = SentBy(I, d)
        BY <1>10, <3>1, <3>3
      <4>4. flow'[c] = flow[c] + amount
        BY <1>2, <3>3
      <4> QED
        BY <1>1, <3>2, <4>2, <4>3, <4>4
    <3>4. CASE c = b
      <4>1. d = a
        BY <1>1, <2>1, <3>4
      <4>2. SentBy(J, d)' = amount /\ SentBy(I, d) = 0
        BY <1>10, <4>1
      <4>3. SentBy(J, c)' = SentBy(I, c)
        BY <1>1, <1>10, <3>4
      <4>4. flow'[c] = flow[c] - amount
        BY <1>2, <3>4
      <4> QED
        BY <1>1, <3>2, <4>2, <4>3, <4>4
    <3>5. CASE c # a /\ c # b
      <4>1. d # a
        BY <1>1, <3>1, <3>5
      <4>2. SentBy(J, c)' = SentBy(I, c)
        BY <1>10, <3>5
      <4>3. SentBy(J, d)' = SentBy(I, d)
        BY <1>10, <3>1, <4>1
      <4>4. flow'[c] = flow[c]
        BY <1>2, <3>5
      <4> QED
        BY <4>2, <4>3, <4>4
    <3> QED
      BY <3>3, <3>4, <3>5
  <2>2. \A c \in Edges(g) : flow'[c] - SentBy(J, c)' + SentBy(J, g.rev[c])' =
                              flow[c] - SentBy(I, c) + SentBy(I, g.rev[c])
    <3>1. ASSUME NEW c \in Edges(g), NEW d, d = g.rev[c]
          PROVE  SentBy(J, g.rev[c])' = SentBy(J, d)'
      BY <1>1, <3>1 DEF SentBy
    <3>2. ASSUME NEW c \in Edges(g)
          PROVE  flow'[c] - SentBy(J, c)' + SentBy(J, g.rev[c])' =
                   flow[c] - SentBy(I, c) + SentBy(I, g.rev[c])
      <4>1. PICK d : d = g.rev[c]
        OBVIOUS
      <4> QED
        BY <2>1, <3>1, <4>1
    <3> QED
      BY <3>2
  <2> QED
    BY <1>1, <2>2 DEF FlowWithout, Edges
<1>13. CommittedFlow = FlowWithout(I) /\ CommittedFlow' = FlowWithout(J)'
  <2>1. Eroded = I
    BY <1>1, <1>4 DEF Eroded
  <2>2. Eroded' = J
    <3>1. idx' - 1 = idx /\ idx \in Int
      BY <1>1
    <3> QED
      BY <1>1, <1>4, <3>1 DEF Eroded
  <2>3. CommittedFlow' = FlowWithout(J)'
    BY <2>2 DEF CommittedFlow, FlowWithout
  <2> QED
    BY <2>1, <2>3 DEF CommittedFlow
<1>14. Status' = Status
  BY <1>1 DEF Status, Running
<1> QED
  BY <1>1, <1>12, <1>13, <1>14 DEF AbstractStep, Abstract!vars

\* When the erosion is over it has got to the last position, and has brought
\* something to the sink.
LEMMA ErosionEndIsQuiet ==
  ASSUME IInv, IInv', MassInv, ErosionEnd
  PROVE  AbstractStep
<1>1. /\ pc = "erosion" /\ idx > Len(levelEdges) /\ pc' = "returned" /\ sent' = h[g.sink]
      /\ UNCHANGED <<g, flow, maxFlow, levelEdges, p>>
  BY DEF ErosionEnd, callVars
<1>2. sent' > 0
  <2>1. g.sink \in Nodes(g)
    BY DEF IInv, TypeOK, IsCase
  <2>2. ErosionDelivers
    BY MassDelivers
  <2>3. h[g.sink] = l[g.source]
    BY <1>1, <2>1, <2>2 DEF ErosionDelivers
  <2> QED
    BY <1>1, <2>3 DEF MassInv, ErosionInv
<1>3. PICK I : I = DOMAIN levelEdges
  OBVIOUS
<1>4. Eroded = I /\ Eroded' = I
  <2>1. idx \in 1 .. (Len(levelEdges) + 1)
    BY <1>1 DEF IInv, PromiseInv
  <2>2. DOMAIN levelEdges = 1 .. Len(levelEdges) /\ Len(levelEdges) \in Nat
    BY LevelEdgesAreSequence
  <2>3. idx - 1 = Len(levelEdges)
    BY <1>1, <2>1, <2>2
  <2> QED
    BY <1>1, <1>2, <1>3, <2>2, <2>3 DEF Eroded
<1>5. CommittedFlow = FlowWithout(I) /\ CommittedFlow' = FlowWithout(I)'
  BY <1>4 DEF CommittedFlow, FlowWithout
<1>6. FlowWithout(I)' = FlowWithout(I)
  BY <1>1 DEF FlowWithout, SentBy, Edges
<1>7. Status' = Status
  BY <1>1 DEF Status, Running
<1> QED
  BY <1>1, <1>5, <1>6, <1>7 DEF AbstractStep, Abstract!vars

\* Adding what a cycle has sent is an Augment; adding nothing is not seen.
LEMMA AddIsAugment ==
  ASSUME IInv, IInv', MassInv, AddAndRebuild \/ AddAndRepeat
  PROVE  AbstractStep
<1>1. /\ pc = "returned" /\ pc' \in {"build", "tide"} /\ maxFlow' = maxFlow + sent
      /\ UNCHANGED <<g, flow>>
  BY DEF AddAndRebuild, AddAndRepeat
<1>2. maxFlow \in Int /\ sent \in Nat
  BY DEF IInv, TypeOK
<1>3. Running /\ Running' /\ Eroded' = {}
  BY <1>1 DEF Running, Eroded
<1>4. CASE sent = 0
  <2>1. Eroded = {}
    BY <1>1, <1>4 DEF Eroded
  <2> QED
    BY <1>1, <1>2, <1>3, <1>4, <2>1, QuietStep
<1>5. CASE sent > 0
  <2>1. PICK f : f = flow
    OBVIOUS
  <2>2. CommittedFlow' = f
    <3>1. (Eroded = {})'
      BY <1>3
    <3>2. (CommittedFlow = flow)'
      BY <3>1, NothingEroded, PTL
    <3> QED
      BY <1>1, <2>1, <3>2
  <2>3. IsFlow(g, f) /\ FlowValue(g, f) = maxFlow + sent
    BY <1>1, <2>1, BalancesMakeFlow DEF TakenOut
  <2>4. Abstract!IsFlow(g, f) /\ Abstract!FlowValue(g, f) = maxFlow'
    BY <1>1, <2>3, SameNetwork
  <2>5. maxFlow' > maxFlow
    BY <1>1, <1>2, <1>5
  <2>6. Status = "running" /\ Status' = "running"
    BY <1>3 DEF Status
  <2>7. Abstract!Augment
    BY <1>1, <2>2, <2>4, <2>5, <2>6 DEF Abstract!Augment
  <2> QED
    BY <2>7 DEF AbstractStep, Abstract!Next
<1> QED
  BY <1>2, <1>4, <1>5

\* A search that does not meet the sink has shown that no residual path is left.
LEMMA DoneIsFinish ==
  ASSUME IInv, IInv', BuildEnd \/ PruneStart, pc' = "done"
  PROVE  AbstractStep
<1>1. pc = "bfs" /\ UNCHANGED <<g, flow, maxFlow, dist>>
  BY DEF BuildEnd, PruneStart, callVars, searchVars
<1>2. CommittedFlow = flow
  <2>1. Eroded = {}
    BY <1>1 DEF Eroded
  <2> QED
    BY <2>1, NothingEroded
<1>3. CommittedFlow' = flow
  <2>1. (Eroded = {})'
    BY DEF Eroded
  <2>2. (CommittedFlow = flow)'
    BY <2>1, NothingEroded, PTL
  <2> QED
    BY <1>1, <2>2
<1>4. PICK f : f = flow
  OBVIOUS
<1>5. ~HasAugmentingPath(g, f)
  <2> DEFINE T == {x \in Nodes(g) : dist[x] # -1}
  <2>1. /\ dist[g.source] # -1 /\ dist[g.sink] = -1
        /\ \A a \in Edges(g) :
              dist[g.src[a]] # -1 /\ dist[g.dst[a]] = -1 => flow[a] = g.capacity[a]
    <3>1. CutCertificate'
      BY DEF IInv
    <3>2. /\ dist'[g'.source] # -1 /\ dist'[g'.sink] = -1
          /\ \A a \in Edges(g)' :
                dist'[g'.src[a]] # -1 /\ dist'[g'.dst[a]] = -1 => flow'[a] = g'.capacity[a]
      BY <3>1 DEF CutCertificate
    <3> QED
      BY <1>1, <3>2 DEF Edges
  <2>2. IsCase(g) /\ g.source \in T /\ g.sink \notin T
    BY <2>1 DEF IInv, TypeOK, IsCase
  <2>3. \A a \in ResidualEdges(g, f) : g.src[a] \in T => g.dst[a] \in T
    <3> SUFFICES ASSUME NEW a \in ResidualEdges(g, f), g.src[a] \in T PROVE g.dst[a] \in T
      OBVIOUS
    <3>1. a \in Edges(g) /\ Residual(g, f, a) > 0
      BY DEF ResidualEdges
    <3>2. g.dst[a] \in Nodes(g) /\ Residual(g, f, a) = g.capacity[a] - flow[a]
          /\ flow[a] \in Int /\ g.capacity[a] \in Nat
      BY <1>4, <2>2, <3>1, SlotFacts, ResidualFacts
    <3>3. flow[a] # g.capacity[a]
      BY <3>1, <3>2
    <3> QED
      BY <2>1, <3>1, <3>2, <3>3
  <2> HIDE DEF T
  <2> QED
    BY <2>2, <2>3, ClosedSetHasNoPath
<1>6. ~Abstract!HasAugmentingPath(g, CommittedFlow)
  BY <1>2, <1>4, <1>5, SameNetwork
<1>7. Status = "running" /\ Status' = "done"
  BY <1>1 DEF Status, Running
<1>8. Abstract!Finish
  BY <1>1, <1>2, <1>3, <1>6, <1>7 DEF Abstract!Finish
<1> QED
  BY <1>8 DEF AbstractStep, Abstract!Next

\* A failed allocation leaves the flow as it was.
LEMMA AllocateIsFail ==
  ASSUME IInv, IInv', MassInv, Allocate
  PROVE  AbstractStep
<1>1. pc = "alloc" /\ UNCHANGED <<g, flow>> /\ Eroded = {}
  BY DEF Allocate, Eroded
<1>2. CASE pc' = "build" /\ UNCHANGED maxFlow
  BY <1>1, <1>2, QuietStep DEF Running, Eroded
<1>3. CASE pc' = "failed" /\ maxFlow' = -1
  <2>1. CommittedFlow = flow
    BY <1>1, NothingEroded
  <2>2. CommittedFlow' = flow
    <3>1. (Eroded = {})'
      BY <1>3 DEF Eroded
    <3>2. (CommittedFlow = flow)'
      BY <3>1, NothingEroded, PTL
    <3> QED
      BY <1>1, <3>2
  <2>3. maxFlow = 0
    BY <1>1 DEF MassInv, ConservationInv
  <2>4. Status = "running" /\ Status' = "failed"
    BY <1>1, <1>3 DEF Status, Running
  <2>5. Abstract!Fail
    BY <1>1, <1>3, <2>1, <2>2, <2>3, <2>4 DEF Abstract!Fail
  <2> QED
    BY <2>5 DEF AbstractStep, Abstract!Next
<1> QED
  BY <1>2, <1>3 DEF Allocate

LEMMA CommonStepImplements ==
  ASSUME IInv, IInv', MassInv, [CommonStep]_vars
  PROVE  AbstractStep
<1>1. CASE \/ Start \/ NextLevel \/ Dequeue \/ SkipEdge \/ Record \/ ScanEnd \/ MarkReach
           \/ MarkEnd \/ Compact \/ TideStart \/ HighTide \/ LowTide \/ LowTideEnd
  <2>1. UNCHANGED <<g, flow, maxFlow>> /\ Running /\ Running'
    BY <1>1 DEF Start, NextLevel, Dequeue, SkipEdge, Record, ScanEnd, MarkReach, MarkEnd, Compact,
                TideStart, HighTide, LowTide, LowTideEnd, callVars, Running
  <2>2. Eroded = {}
    BY <1>1 DEF Start, NextLevel, Dequeue, SkipEdge, Record, ScanEnd, MarkReach, MarkEnd, Compact,
                TideStart, HighTide, LowTide, LowTideEnd, Eroded
  <2>3. Eroded' = {}
    <3>1. pc' # "returned" /\ (pc' = "erosion" => idx' = 1)
      BY <1>1 DEF Start, NextLevel, Dequeue, SkipEdge, Record, ScanEnd, MarkReach, MarkEnd, Compact,
                  TideStart, HighTide, LowTide, LowTideEnd
    <3> QED
      BY <3>1 DEF Eroded
  <2> QED
    BY <2>1, <2>2, <2>3, QuietStep
<1>2. CASE BuildEnd \/ PruneStart
  <2>1. UNCHANGED <<g, flow, maxFlow>> /\ pc = "bfs" /\ pc' \in {"tide", "reach", "done"}
    BY <1>2 DEF BuildEnd, PruneStart, callVars
  <2>2. CASE pc' = "done"
    BY <1>2, <2>2, DoneIsFinish
  <2>3. CASE pc' # "done"
    BY <2>1, <2>3, QuietStep DEF Running, Eroded
  <2> QED
    BY <2>2, <2>3
<1>3. CASE CompactEnd
  <2>1. pc = "compact" /\ pc' = "tide" /\ UNCHANGED <<g, flow, maxFlow>>
    BY <1>3, CompactEndFacts DEF CompactEnd, callVars
  <2> QED
    BY <2>1, QuietStep DEF Running, Eroded
<1>4. CASE HighTideEnd
  <2>1. /\ pc = "high" /\ (pc' = "low" \/ (pc' = "returned" /\ sent' = 0))
        /\ UNCHANGED <<g, flow, maxFlow>>
    BY <1>4 DEF HighTideEnd, callVars
  <2> QED
    BY <2>1, QuietStep DEF Running, Eroded
<1>5. CASE Rebuild
  <2>1. /\ pc = "returned" /\ pc' = "build" /\ ~(sent > 0)
        /\ UNCHANGED <<g, flow, maxFlow>>
    BY <1>5 DEF Rebuild, Blocked, callVars, IInv, TypeOK
  <2> QED
    BY <2>1, QuietStep DEF Running, Eroded
<1>6. CASE UNCHANGED vars
  <2>1. UNCHANGED <<g, flow, maxFlow, pc, sent, idx, levelEdges, p>>
    BY <1>6 DEF vars, callVars, tideVars
  <2>2. UNCHANGED <<CommittedFlow, Status>>
    BY <2>1 DEF CommittedFlow, FlowWithout, SentBy, Eroded, Edges, Status, Running
  <2> QED
    BY <2>1, <2>2 DEF AbstractStep, Abstract!vars
<1> QED
  BY <1>1, <1>2, <1>3, <1>4, <1>5, <1>6, AllocateIsFail, AddIsAugment, ErosionIsQuiet,
     ErosionEndIsQuiet
  DEF CommonStep, BuildStart, RecordEdge, CompactEdge

LEMMA InitIsAbstract == Init => Abstract!Init
<1> SUFFICES ASSUME Init PROVE Abstract!Init
  OBVIOUS
<1>1. IInv /\ Eroded = {}
  BY InitEstablishesInvariant DEF Init, Eroded
<1>2. CommittedFlow = flow
  BY <1>1, NothingEroded
<1>3. Status = "running"
  BY DEF Init, Status, Running
<1>4. Abstract!Edges(g) = Edges(g)
  BY SameNetwork
<1> QED
  BY <1>2, <1>3, <1>4 DEF Init, Abstract!Init

\* Every call starts in the invariant ...
LEMMA InitEstablishesSolver == Init => SolverInv
  BY InitEstablishesInvariant, InitEstablishesLevels, InitEstablishesMass, InitEstablishesTides
  DEF SolverInv

\* ... and every step of the three solvers without a tide of their own keeps it.
LEMMA CommonStepKeepsSolver ==
  ASSUME SolverInv, [CommonStep]_vars
  PROVE  SolverInv' /\ AbstractStep
<1>1. IInv'
  BY CommonStepKeeps DEF SolverInv
<1>2. MassInv'
  BY <1>1, CommonStepKeepsMass DEF SolverInv
<1>3. TidesInv'
  BY <1>1, <1>2, CommonStepKeepsTides DEF SolverInv
<1>4. LevelGraphInv'
  BY CommonStepKeepsLevels DEF SolverInv
<1>5. AbstractStep
  BY <1>1, CommonStepImplements DEF SolverInv
<1> QED
  BY <1>1, <1>2, <1>3, <1>4, <1>5 DEF SolverInv

\* What a caller can rely on follows from the invariant.
LEMMA SolverInvImplies ==
  SolverInv => /\ TypeOK /\ FlowIsFeasible /\ BuffersSuffice /\ ResidualFitsInt
               /\ LowTideBound /\ CutCertificate /\ TidesFitLongLong
               /\ ErosionDelivers /\ ZeroCycleMeansBlocked /\ ResultIsMaxFlow
  BY InvariantBoundsResiduals, MassDelivers, MassIsBlocked, MassIsMaxFlow
  DEF SolverInv, IInv, TidesInv

-------------------------------------------------------------------------------
(* What the builders return, and how one search follows another.           *)

\* Which steps end the search, and the compaction.
LEMMA PhaseEnds ==
  ASSUME CommonStep
  PROVE  /\ pc = "bfs" /\ pc' \notin {"bfs", "scan"} => BuildEnd \/ PruneStart
         /\ pc = "compact" /\ pc' # "compact" => CompactEnd
<1>1. \/ Allocate \/ Start \/ NextLevel \/ Dequeue \/ SkipEdge \/ Record \/ ScanEnd
      \/ BuildEnd \/ PruneStart \/ MarkReach \/ MarkEnd \/ Compact \/ CompactEnd
      \/ TideStart \/ HighTide \/ HighTideEnd \/ LowTide \/ LowTideEnd \/ Erosion \/ ErosionEnd
      \/ AddAndRebuild \/ AddAndRepeat \/ Rebuild
  BY DEF CommonStep, BuildStart, RecordEdge, CompactEdge
<1> QED
  BY <1>1
  DEF Allocate, Start, NextLevel, Dequeue, SkipEdge, Record, ScanEnd, BuildEnd, PruneStart,
      MarkReach, MarkEnd, Compact, CompactEnd, TideStart, HighTide, HighTideEnd, LowTide,
      LowTideEnd, Erosion, ErosionEnd, AddAndRebuild, AddAndRepeat, Rebuild

\* BuildsLevelGraph, as a step.
SearchEndStep ==
  pc = "bfs" /\ pc' \notin {"bfs", "scan"} =>
    /\ HasNoRepeats(levelEdges)
    /\ dist[g.sink] = Distances(g, flow)[g.sink]
    /\ HasAugmentingPath(g, flow) => LevelEdgeSet = LevelEdges(g, flow)

LEMMA SearchIsExact ==
  ASSUME SolverInv, pc = "bfs" /\ pc' \notin {"bfs", "scan"} => BuildEnd \/ PruneStart
  PROVE  SearchEndStep
<1> SUFFICES ASSUME pc = "bfs", BuildEnd \/ PruneStart
             PROVE  /\ HasNoRepeats(levelEdges)
                    /\ dist[g.sink] = Distances(g, flow)[g.sink]
                    /\ HasAugmentingPath(g, flow) => LevelEdgeSet = LevelEdges(g, flow)
  BY DEF SearchEndStep
<1>1. IInv /\ LevelGraphInv /\ head = levelEnd /\ SearchEnded
  BY DEF SolverInv, BuildEnd, PruneStart
<1>2. /\ dist[g.sink] = Distances(g, flow)[g.sink]
      /\ dist[g.sink] # -1 => LevelEdgeSet = LevelEdges(g, flow)
  BY <1>1, SearchResult
<1>3. HasNoRepeats(levelEdges)
  BY <1>1 DEF IInv, NoRepeatInv, Live, HasNoRepeats
<1> QED
  BY <1>2, <1>3 DEF HasAugmentingPath

\* PruningIsExact, as a step.
CompactEndStep ==
  pc = "compact" /\ pc' # "compact" =>
    /\ HasNoRepeats(levelEdges')
    /\ LevelEdgeSet' = ShortestPathEdges(g, flow)
    /\ pc' = "tide"

LEMMA CompactionIsExact ==
  ASSUME SolverInv, SolverInv', pc = "compact" /\ pc' # "compact" => CompactEnd
  PROVE  CompactEndStep
<1> SUFFICES ASSUME CompactEnd
             PROVE  /\ HasNoRepeats(levelEdges')
                    /\ LevelEdgeSet' = ShortestPathEdges(g, flow)
                    /\ pc' = "tide"
  BY DEF CompactEndStep
<1>1. IInv /\ LevelGraphInv /\ pc' = "tide"
  BY CompactEndFacts DEF SolverInv
<1>2. LevelEdgeSet' = ShortestPathEdges(g, flow)
  BY <1>1, PrunedIsExact
<1>3. HasNoRepeats(levelEdges')
  <2>1. NoRepeatInv'
    BY DEF SolverInv, IInv
  <2> QED
    BY <1>1, <2>1 DEF NoRepeatInv, Live, HasNoRepeats
<1> QED
  BY <1>1, <1>2, <1>3

\* From the last cycle of a level graph to the next search nothing changes.
PhaseInv ==
  pc = "build" /\ dist[g.sink] # -1 =>
    /\ dist[g.source] = 0
    /\ g.source \notin CoReach(g, {a \in LevelEdgeSet : Residual(g, flow, a) > 0})

\* The steps of a solver that repeats cycles: it does not use AddAndRebuild.
RepeatingStep ==
  \/ Allocate \/ BuildStart \/ NextLevel \/ Dequeue \/ SkipEdge \/ RecordEdge \/ ScanEnd
  \/ BuildEnd \/ PruneStart \/ MarkReach \/ MarkEnd \/ CompactEdge \/ CompactEnd
  \/ TideStart \/ HighTide \/ HighTideEnd \/ LowTide \/ LowTideEnd \/ Erosion \/ ErosionEnd
  \/ AddAndRepeat \/ Rebuild

LEMMA RepeatingStepKeepsPhase ==
  ASSUME SolverInv, PhaseInv, [RepeatingStep]_vars
  PROVE  PhaseInv'
<1> SUFFICES ASSUME pc' = "build" PROVE PhaseInv'
  BY DEF PhaseInv
<1>1. UNCHANGED <<g, flow, dist, levelEdges>> /\ (pc = "build" \/ Allocate \/ Rebuild)
  <2>1. CASE UNCHANGED vars
    BY <2>1 DEF vars, callVars, searchVars
  <2>2. CASE RepeatingStep
    <3>1. Allocate \/ Rebuild
      BY <2>2
      DEF RepeatingStep, BuildStart, Start, NextLevel, Dequeue, SkipEdge, RecordEdge, Record,
          ScanEnd, BuildEnd, PruneStart, MarkReach, MarkEnd, CompactEdge, Compact, CompactEnd,
          TideStart, HighTide, HighTideEnd, LowTide, LowTideEnd, Erosion, ErosionEnd, AddAndRepeat
    <3> QED
      BY <3>1 DEF Allocate, Rebuild, callVars, searchVars
  <2> QED
    BY <2>1, <2>2
<1>2. LevelEdgeSet' = LevelEdgeSet
  BY <1>1 DEF LevelEdgeSet
<1>3. CASE pc = "build"
  BY <1>1, <1>2, <1>3 DEF PhaseInv, Residual
<1>4. CASE Allocate
  BY <1>1, <1>4 DEF SolverInv, LevelGraphInv, LabelInv, Allocate, PhaseInv
<1>5. CASE Rebuild
  <2>1. pc = "returned" /\ sent <= 0
    BY <1>5 DEF Rebuild, Blocked
  <2>2. dist[g.source] = 0
    BY <2>1 DEF SolverInv, IInv, QueueInv
  <2>3. g.source \notin CoReach(g, {a \in LevelEdgeSet : Residual(g, flow, a) > 0})
    BY <2>1, SolverInvImplies DEF ZeroCycleMeansBlocked
  <2> QED
    BY <1>1, <1>2, <2>2, <2>3 DEF PhaseInv, Residual
<1> QED
  BY <1>1, <1>3, <1>4, <1>5

LEMMA PhasesAreLonger ==
  ASSUME SolverInv, PhaseInv
  PROVE  PhasesLengthen
<1> SUFFICES ASSUME pc = "build", dist[g.sink] # -1
             PROVE  Distances(g, flow)[g.sink] \notin 0 .. dist[g.sink]
  BY DEF PhasesLengthen
<1>1. /\ IsCase(g) /\ dist \in [Nodes(g) -> Nat \cup {-1}] /\ levelEdges \in Seq(Edges(g))
  BY DEF SolverInv, IInv, TypeOK
<1>2. PICK L \in SUBSET Edges(g) : L = LevelEdgeSet
  <2>1. \A i \in DOMAIN levelEdges : levelEdges[i] \in Edges(g)
    BY <1>1
  <2>2. LevelEdgeSet \subseteq Edges(g)
    BY <2>1 DEF LevelEdgeSet
  <2> QED
    BY <2>2
<1>3. dist[g.source] = 0 /\ g.source \notin CoReach(g, {a \in L : Residual(g, flow, a) > 0})
  BY <1>2 DEF PhaseInv
<1>4. \A a \in ResidualEdges(g, flow) :
        dist[g.src[a]] \in 0 .. (dist[g.sink] - 1) =>
          /\ dist[g.dst[a]] \in 0 .. (dist[g.src[a]] + 1)
          /\ dist[g.dst[a]] = dist[g.src[a]] + 1 /\ g.dst[a] \in CoReach(g, L) => a \in L
  BY <1>2 DEF SolverInv, LevelGraphInv, LabelInv
<1> QED
  BY ONLY <1>1, <1>3, <1>4, BlockedMeansLonger

-------------------------------------------------------------------------------
(* tidalFlowSeq_BASELINE.c                                                 *)

LEMMA BaselineStepKeeps ==
  ASSUME SolverInv, [BaselineNext]_vars
  PROVE  SolverInv' /\ AbstractStep
<1>1. [CommonStep]_vars
  BY DEF BaselineNext, BaselineLevelGraph, BaselineTideCycle, BaselineDriver, CommonStep
<1> QED
  BY <1>1, CommonStepKeepsSolver

\* SolverInv holds in every state of every call: each step is one of the shared
\* ones.
THEOREM BaselineInvariant == BaselineSpec => []SolverInv
<1>1. SolverInv /\ [BaselineNext]_vars => SolverInv'
  BY BaselineStepKeeps
<1> QED
  BY <1>1, InitEstablishesSolver, PTL DEF BaselineSpec

\* Every variable keeps its type: no tide and no promise ever becomes negative.
THEOREM BaselineTypeOK == BaselineSpec => []TypeOK
  BY SolverInvImplies, BaselineInvariant, PTL

\* No slot ever carries more than its capacity and rev[] slots mirror each
\* other, also while an erosion is under way.
THEOREM BaselineFlowIsFeasible == BaselineSpec => []FlowIsFeasible
  BY SolverInvImplies, BaselineInvariant, PTL

\* queue[] and levelEdges[] never outgrow the arrays allocated for them.
THEOREM BaselineBuffersSuffice == BaselineSpec => []BuffersSuffice
  BY SolverInvImplies, BaselineInvariant, PTL

\* capacity[] - flow[] never leaves the range of int, provided that the two
\* capacities of a pair add up to an int (FitsInt).
THEOREM BaselineResidualFitsInt == BaselineSpec => []ResidualFitsInt
  BY SolverInvImplies, BaselineInvariant, PTL

\* No node is asked by the low tide for more than the high tide brought to it.
THEOREM BaselineLowTideBound == BaselineSpec => []LowTideBound
  BY SolverInvImplies, BaselineInvariant, PTL

\* h[] never overflows a long long, although the source starts with LLONG_MAX.
THEOREM BaselineTidesFitLongLong == BaselineSpec => []TidesFitLongLong
  BY SolverInvImplies, BaselineInvariant, PTL

\* An erosion brings all that the low tide asked of the source to the sink.
THEOREM BaselineErosionDelivers == BaselineSpec => []ErosionDelivers
  BY SolverInvImplies, BaselineInvariant, PTL

\* tideCycle returns 0 only if no residual path of the level graph is left.
THEOREM BaselineZeroCycleMeansBlocked == BaselineSpec => []ZeroCycleMeansBlocked
  BY SolverInvImplies, BaselineInvariant, PTL

\* When the call returns, its flow fills every slot that leaves the set of nodes
\* the last search discovered, and that set does not hold the sink.
THEOREM BaselineCutCertificate == BaselineSpec => []CutCertificate
  BY SolverInvImplies, BaselineInvariant, PTL

\* The value a call returns is the capacity of a minimum cut.
THEOREM BaselineResultIsMaxFlow == BaselineSpec => []ResultIsMaxFlow
  BY SolverInvImplies, BaselineInvariant, PTL

\* A search labels the sink with its residual distance from the source and records
\* each edge of the level graph once.
THEOREM BaselineBuildsLevelGraph == BaselineSpec => BuildsLevelGraph
<1>1. SolverInv /\ [BaselineNext]_vars => [SearchEndStep]_vars
  <2>1. BaselineNext => CommonStep
    BY DEF BaselineNext, BaselineLevelGraph, BaselineTideCycle, BaselineDriver, CommonStep
  <2> QED
    BY <2>1, PhaseEnds, SearchIsExact
<1> QED
  BY <1>1, BaselineInvariant, PTL DEF BaselineSpec, BuildsLevelGraph, SearchEndStep

\* The solver implements MaxFlow: every cycle that delivers replaces one flow by
\* another of larger value, and only a call without augmenting path ends.
THEOREM BaselineImplementsMaxFlow == BaselineSpec => ImplementsMaxFlow
<1>1. SolverInv /\ [BaselineNext]_vars => [Abstract!Next]_(Abstract!vars)
  BY BaselineStepKeeps DEF AbstractStep
<1> QED
  BY <1>1, InitIsAbstract, BaselineInvariant, PTL DEF BaselineSpec, ImplementsMaxFlow, Abstract!Spec

-------------------------------------------------------------------------------
(* tidalFlowSeq_BLOCKING.c                                                 *)

LEMMA BlockingStepKeeps ==
  ASSUME SolverInv, [BlockingNext]_vars
  PROVE  SolverInv' /\ AbstractStep
<1>1. [CommonStep]_vars
  BY DEF BlockingNext, BlockingLevelGraph, BlockingTideCycle, BlockingDriver, CommonStep
<1> QED
  BY <1>1, CommonStepKeepsSolver

\* SolverInv holds in every state of every call: each step is one of the shared
\* ones.
THEOREM BlockingInvariant == BlockingSpec => []SolverInv
<1>1. SolverInv /\ [BlockingNext]_vars => SolverInv'
  BY BlockingStepKeeps
<1> QED
  BY <1>1, InitEstablishesSolver, PTL DEF BlockingSpec

\* Every variable keeps its type: no tide and no promise ever becomes negative.
THEOREM BlockingTypeOK == BlockingSpec => []TypeOK
  BY SolverInvImplies, BlockingInvariant, PTL

\* No slot ever carries more than its capacity and rev[] slots mirror each
\* other, also while an erosion is under way.
THEOREM BlockingFlowIsFeasible == BlockingSpec => []FlowIsFeasible
  BY SolverInvImplies, BlockingInvariant, PTL

\* queue[] and levelEdges[] never outgrow the arrays allocated for them.
THEOREM BlockingBuffersSuffice == BlockingSpec => []BuffersSuffice
  BY SolverInvImplies, BlockingInvariant, PTL

\* capacity[] - flow[] never leaves the range of int, provided that the two
\* capacities of a pair add up to an int (FitsInt).
THEOREM BlockingResidualFitsInt == BlockingSpec => []ResidualFitsInt
  BY SolverInvImplies, BlockingInvariant, PTL

\* No node is asked by the low tide for more than the high tide brought to it.
THEOREM BlockingLowTideBound == BlockingSpec => []LowTideBound
  BY SolverInvImplies, BlockingInvariant, PTL

\* h[] never overflows a long long, although the source starts with LLONG_MAX.
THEOREM BlockingTidesFitLongLong == BlockingSpec => []TidesFitLongLong
  BY SolverInvImplies, BlockingInvariant, PTL

\* An erosion brings all that the low tide asked of the source to the sink.
THEOREM BlockingErosionDelivers == BlockingSpec => []ErosionDelivers
  BY SolverInvImplies, BlockingInvariant, PTL

\* tideCycle returns 0 only if no residual path of the level graph is left.
THEOREM BlockingZeroCycleMeansBlocked == BlockingSpec => []ZeroCycleMeansBlocked
  BY SolverInvImplies, BlockingInvariant, PTL

\* When the call returns, its flow fills every slot that leaves the set of nodes
\* the last search discovered, and that set does not hold the sink.
THEOREM BlockingCutCertificate == BlockingSpec => []CutCertificate
  BY SolverInvImplies, BlockingInvariant, PTL

\* The value a call returns is the capacity of a minimum cut.
THEOREM BlockingResultIsMaxFlow == BlockingSpec => []ResultIsMaxFlow
  BY SolverInvImplies, BlockingInvariant, PTL

\* A search labels the sink with its residual distance from the source and records
\* each edge of the level graph once.
THEOREM BlockingBuildsLevelGraph == BlockingSpec => BuildsLevelGraph
<1>1. SolverInv /\ [BlockingNext]_vars => [SearchEndStep]_vars
  <2>1. BlockingNext => CommonStep
    BY DEF BlockingNext, BlockingLevelGraph, BlockingTideCycle, BlockingDriver, CommonStep
  <2> QED
    BY <2>1, PhaseEnds, SearchIsExact
<1> QED
  BY <1>1, BlockingInvariant, PTL DEF BlockingSpec, BuildsLevelGraph, SearchEndStep

\* After the last cycle of a level graph the sink is farther away than it was, or out
\* of reach.
THEOREM BlockingPhasesLengthen == BlockingSpec => []PhasesLengthen
<1>1. Init => PhaseInv
  BY DEF Init, PhaseInv
<1>2. SolverInv /\ PhaseInv /\ [BlockingNext]_vars => PhaseInv'
  <2> SUFFICES ASSUME SolverInv, PhaseInv, [BlockingNext]_vars PROVE PhaseInv'
    OBVIOUS
  <2>1. [RepeatingStep]_vars
    BY DEF BlockingNext, BlockingLevelGraph, BlockingTideCycle, BlockingDriver, RepeatingStep
  <2> QED
    BY <2>1, RepeatingStepKeepsPhase
<1> QED
  BY <1>1, <1>2, BlockingInvariant, PhasesAreLonger, PTL DEF BlockingSpec

\* The solver implements MaxFlow: every cycle that delivers replaces one flow by
\* another of larger value, and only a call without augmenting path ends.
THEOREM BlockingImplementsMaxFlow == BlockingSpec => ImplementsMaxFlow
<1>1. SolverInv /\ [BlockingNext]_vars => [Abstract!Next]_(Abstract!vars)
  BY BlockingStepKeeps DEF AbstractStep
<1> QED
  BY <1>1, InitIsAbstract, BlockingInvariant, PTL DEF BlockingSpec, ImplementsMaxFlow, Abstract!Spec

-------------------------------------------------------------------------------
(* tidalFlowSeq_PRUNING.c                                                  *)

LEMMA PruningStepKeeps ==
  ASSUME SolverInv, [PruningNext]_vars
  PROVE  SolverInv' /\ AbstractStep
<1>1. [CommonStep]_vars
  BY DEF PruningNext, PruningLevelGraph, PruningTideCycle, PruningDriver, CommonStep
<1> QED
  BY <1>1, CommonStepKeepsSolver

\* SolverInv holds in every state of every call: each step is one of the shared
\* ones.
THEOREM PruningInvariant == PruningSpec => []SolverInv
<1>1. SolverInv /\ [PruningNext]_vars => SolverInv'
  BY PruningStepKeeps
<1> QED
  BY <1>1, InitEstablishesSolver, PTL DEF PruningSpec

\* Every variable keeps its type: no tide and no promise ever becomes negative.
THEOREM PruningTypeOK == PruningSpec => []TypeOK
  BY SolverInvImplies, PruningInvariant, PTL

\* No slot ever carries more than its capacity and rev[] slots mirror each
\* other, also while an erosion is under way.
THEOREM PruningFlowIsFeasible == PruningSpec => []FlowIsFeasible
  BY SolverInvImplies, PruningInvariant, PTL

\* queue[] and levelEdges[] never outgrow the arrays allocated for them.
THEOREM PruningBuffersSuffice == PruningSpec => []BuffersSuffice
  BY SolverInvImplies, PruningInvariant, PTL

\* capacity[] - flow[] never leaves the range of int, provided that the two
\* capacities of a pair add up to an int (FitsInt).
THEOREM PruningResidualFitsInt == PruningSpec => []ResidualFitsInt
  BY SolverInvImplies, PruningInvariant, PTL

\* No node is asked by the low tide for more than the high tide brought to it.
THEOREM PruningLowTideBound == PruningSpec => []LowTideBound
  BY SolverInvImplies, PruningInvariant, PTL

\* h[] never overflows a long long, although the source starts with LLONG_MAX.
THEOREM PruningTidesFitLongLong == PruningSpec => []TidesFitLongLong
  BY SolverInvImplies, PruningInvariant, PTL

\* An erosion brings all that the low tide asked of the source to the sink.
THEOREM PruningErosionDelivers == PruningSpec => []ErosionDelivers
  BY SolverInvImplies, PruningInvariant, PTL

\* tideCycle returns 0 only if no residual path of the level graph is left.
THEOREM PruningZeroCycleMeansBlocked == PruningSpec => []ZeroCycleMeansBlocked
  BY SolverInvImplies, PruningInvariant, PTL

\* When the call returns, its flow fills every slot that leaves the set of nodes
\* the last search discovered, and that set does not hold the sink.
THEOREM PruningCutCertificate == PruningSpec => []CutCertificate
  BY SolverInvImplies, PruningInvariant, PTL

\* The value a call returns is the capacity of a minimum cut.
THEOREM PruningResultIsMaxFlow == PruningSpec => []ResultIsMaxFlow
  BY SolverInvImplies, PruningInvariant, PTL

\* A search labels the sink with its residual distance from the source and records
\* each edge of the level graph once.
THEOREM PruningBuildsLevelGraph == PruningSpec => BuildsLevelGraph
<1>1. SolverInv /\ [PruningNext]_vars => [SearchEndStep]_vars
  <2>1. PruningNext => CommonStep
    BY DEF PruningNext, PruningLevelGraph, PruningTideCycle, PruningDriver, CommonStep
  <2> QED
    BY <2>1, PhaseEnds, SearchIsExact
<1> QED
  BY <1>1, PruningInvariant, PTL DEF PruningSpec, BuildsLevelGraph, SearchEndStep

\* Pruning leaves exactly the edges on shortest augmenting paths, each once, and some.
THEOREM PruningPruningIsExact == PruningSpec => PruningIsExact
<1>1. SolverInv /\ [PruningNext]_vars => [CompactEndStep]_vars
  <2>1. PruningNext => CommonStep
    BY DEF PruningNext, PruningLevelGraph, PruningTideCycle, PruningDriver, CommonStep
  <2> QED
    BY <2>1, PhaseEnds, CompactionIsExact, PruningStepKeeps
<1> QED
  BY <1>1, PruningInvariant, PTL DEF PruningSpec, PruningIsExact, CompactEndStep

\* After the last cycle of a level graph the sink is farther away than it was, or out
\* of reach.
THEOREM PruningPhasesLengthen == PruningSpec => []PhasesLengthen
<1>1. Init => PhaseInv
  BY DEF Init, PhaseInv
<1>2. SolverInv /\ PhaseInv /\ [PruningNext]_vars => PhaseInv'
  <2> SUFFICES ASSUME SolverInv, PhaseInv, [PruningNext]_vars PROVE PhaseInv'
    OBVIOUS
  <2>1. [RepeatingStep]_vars
    BY DEF PruningNext, PruningLevelGraph, PruningTideCycle, PruningDriver, RepeatingStep
  <2> QED
    BY <2>1, RepeatingStepKeepsPhase
<1> QED
  BY <1>1, <1>2, PruningInvariant, PhasesAreLonger, PTL DEF PruningSpec

\* The solver implements MaxFlow: every cycle that delivers replaces one flow by
\* another of larger value, and only a call without augmenting path ends.
THEOREM PruningImplementsMaxFlow == PruningSpec => ImplementsMaxFlow
<1>1. SolverInv /\ [PruningNext]_vars => [Abstract!Next]_(Abstract!vars)
  BY PruningStepKeeps DEF AbstractStep
<1> QED
  BY <1>1, InitIsAbstract, PruningInvariant, PTL DEF PruningSpec, ImplementsMaxFlow, Abstract!Spec

-------------------------------------------------------------------------------
(* tidalFlowSeq_COMBINED.c                                                 *)

\* A promise made to a slot fits into it and is not negative.
LEMMA PromiseFacts ==
  ASSUME IInv, NEW a \in Edges(g)
  PROVE  Promise(a) \in Nat /\ Promise(a) <= Residual(g, flow, a)
<1>1. IsCase(g) /\ h \in [Nodes(g) -> Nat]
  BY DEF IInv, TypeOK
<1>2. g.src[a] \in Nodes(g) /\ Residual(g, flow, a) \in Nat
  BY <1>1, SlotFacts, ResidualFacts
<1>3. h[g.src[a]] \in Nat
  BY <1>1, <1>2
<1> QED
  BY <1>2, <1>3 DEF Promise, Lesser

\* Promises that stand where they stood stay current, as long as the tides do.
LEMMA PromisesStand ==
  ASSUME IInv, UNCHANGED <<g, flow, h>>, NEW I \in SUBSET DOMAIN levelEdges, NEW N,
         \A i \in I : levelEdges'[i] = levelEdges[i] /\ p'[i] = p[i], Risen(I, N)
  PROVE  Risen(I, N)'
<1>1. \A i \in I : Promise(levelEdges[i])' = Promise(levelEdges[i])
  BY DEF Promise, Residual
<1>2. \A n : Incoming(n, I)' = Incoming(n, I)
  <2>1. ASSUME NEW x
        PROVE  Incoming(x, I)' = Incoming(x, I)
    BY CarriedIsSame
  <2> QED
    BY <2>1
<1> QED
  BY <1>1, <1>2 DEF Risen

LEMMA StartWithTideKeeps ==
  ASSUME CombinedInv, StartWithTide
  PROVE  CombinedInv' /\ AbstractStep
<1>0. IInv /\ LevelGraphInv /\ MassInv /\ TidesInv
  BY DEF CombinedInv, SolverInv
<1>1. /\ Start /\ pc = "build" /\ pc' = "bfs" /\ levelEdges' = <<>>
      /\ h' = [x \in Nodes(g) |-> IF x = g.source THEN LLongMax ELSE 0]
      /\ UNCHANGED <<g, flow, maxFlow>>
  BY DEF StartWithTide, Start, callVars
<1>2. IInv'
  <2>1. h' \in [Nodes(g) -> Nat]
    BY <1>1, IntAssumption, WidthsAssumption
  <2> QED
    BY <1>0, <1>1, <2>1, StartKeeps
<1>3. MassInv'
  BY <1>0, <1>1, <1>2, SearchKeepsMass
<1>4. TidesInv'
  <2>1. \A x \in Nodes(g) : h'[x] <= LLongMax
    BY <1>1, IntAssumption, WidthsAssumption
  <2> QED
    BY <1>0, <1>1, <2>1 DEF TidesInv, TidesFitLongLong
<1>5. PrunedInv'
  BY <1>1 DEF PrunedInv
<1>6. CurrentInv'
  <2>1. g.source \in Nodes(g)
    BY <1>0 DEF IInv, TypeOK, IsCase
  <2>2. \A x : Incoming(x, {})' = 0
    <3>1. \A x : Incoming(x, {})' = SumOver(p', {})
      BY DEF Incoming
    <3> QED
      BY <3>1, SumOfNone
  <2>3. Live' = {}
    BY <1>1 DEF Live
  <2>4. Risen({}, Nodes(g))'
    BY <1>1, <2>1, <2>2 DEF Risen
  <2> QED
    BY <1>1, <2>3, <2>4 DEF CurrentInv
<1>7. AbstractStep
  BY <1>0, <1>1, <1>2, QuietStep DEF Running, Eroded
<1>8. LevelGraphInv'
  BY <1>0, <1>1, StartKeepsLevels
<1> QED
  BY <1>2, <1>3, <1>4, <1>5, <1>6, <1>7, <1>8 DEF CombinedInv, SolverInv

\* What has risen so far fits, now that the promises are made during the search.
LEMMA SearchTideFits ==
  IInv /\ g \in Cases /\ CurrentInv /\ pc = "scan" => TidesFitLongLong
<1> SUFFICES ASSUME IInv, g \in Cases, CurrentInv, pc = "scan" PROVE TidesFitLongLong
  OBVIOUS
<1>1. Live \in SUBSET DOMAIN levelEdges /\ Risen(Live, Nodes(g))
  BY DEF Live, CurrentInv
<1> QED
  BY <1>1, RisenFits DEF TidesFitLongLong

\* The recorded slot leads to no node whose tide has already been read.
LEMMA RecordedEdgeRises ==
  ASSUME IInv, CurrentInv, RecordWithTide, Len(levelEdges) + 1 \in 1 .. g.edgeCount
  PROVE  EdgeRises(DOMAIN levelEdges, Len(levelEdges) + 1, e)
<1>1. /\ pc = "scan" /\ LeadsOn(e) /\ e < g.ver[u + 1]
      /\ levelEdges' = Append(levelEdges, e)
      /\ p' = [p EXCEPT ![Len(levelEdges) + 1] = Promise(e)]
      /\ h' = [h EXCEPT ![g.dst[e]] = @ + Promise(e)]
      /\ UNCHANGED <<g, flow>>
  BY DEF RecordWithTide, Record, callVars
<1>2. /\ e \in Edges(g) /\ g.src[e] = u /\ g.dst[e] \in Nodes(g) /\ u \in Nodes(g)
      /\ levelEdges \in Seq(Edges(g)) /\ Len(levelEdges) \in Nat
      /\ DOMAIN levelEdges = 1 .. Len(levelEdges)
      /\ dist \in [Nodes(g) -> Nat \cup {-1}]
      /\ queue \in Seq(Nodes(g)) /\ DOMAIN queue = 1 .. Len(queue) /\ Len(queue) \in Nat
      /\ head \in 0 .. Len(queue) /\ IsCase(g) /\ g.source \in Nodes(g)
  <2>1. e \in Edges(g) /\ g.src[e] = u /\ g.dst[e] \in Nodes(g) /\ u \in Nodes(g)
    BY <1>1, ScanFacts
  <2>2. /\ levelEdges \in Seq(Edges(g)) /\ dist \in [Nodes(g) -> Nat \cup {-1}]
        /\ queue \in Seq(Nodes(g)) /\ head \in 0 .. Len(queue) /\ IsCase(g)
        /\ g.source \in Nodes(g)
    BY DEF IInv, TypeOK, IsCase
  <2> QED
    BY <2>1, <2>2
<1>3. /\ head \in DOMAIN queue /\ u = queue[head] /\ dist[u] \in Nat /\ dist[g.source] = 0
  <2>1. head > 0 /\ u = queue[head] /\ dist[g.source] = 0
    BY <1>1 DEF IInv, QueueInv
  <2>2. head \in DOMAIN queue
    BY <1>2, <2>1
  <2>3. dist[u] # -1
    BY <1>2, <2>1, <2>2 DEF IInv, QueueInv
  <2> QED
    BY <1>2, <2>1, <2>2, <2>3
<1>4. dist[g.dst[e]] \in {-1, dist[u] + 1}
  BY <1>1 DEF LeadsOn
<1>5. ASSUME NEW i \in DOMAIN levelEdges
      PROVE  g.src[levelEdges[i]] # g.dst[e]
  <2>1. PICK k \in 1 .. head : queue[k] = g.src[levelEdges[i]]
    BY <1>1 DEF IInv, ScanInv, IsTaken
  <2>2. k \in DOMAIN queue /\ k <= head
    BY <1>2, <1>3
  <2>3. dist[queue[k]] <= dist[u]
    BY <1>1, <1>3, <2>2 DEF IInv, OrderInv
  <2>4. dist[g.src[levelEdges[i]]] # -1
    BY DEF IInv, LevelInv
  <2> QED
    BY <1>3, <1>4, <2>1, <2>3, <2>4
<1>6. g.src[e] # g.dst[e] /\ g.dst[e] # g.source
  BY <1>2, <1>3, <1>4
<1>7. Risen(DOMAIN levelEdges, Nodes(g))
  BY <1>1 DEF CurrentInv, Live
<1>8. /\ levelEdges'[Len(levelEdges) + 1] = e /\ Len(levelEdges) + 1 \notin DOMAIN levelEdges
      /\ \A i \in DOMAIN levelEdges : levelEdges'[i] = levelEdges[i]
  BY <1>1, <1>2
<1> QED
  BY <1>1, <1>2, <1>5, <1>6, <1>7, <1>8 DEF EdgeRises

LEMMA RecordWithTideKeeps ==
  ASSUME CombinedInv, RecordWithTide
  PROVE  CombinedInv' /\ AbstractStep
<1> DEFINE n == Len(levelEdges)
<1>0. IInv /\ LevelGraphInv /\ MassInv /\ TidesInv /\ CurrentInv
  BY DEF CombinedInv, SolverInv
<1>1. /\ Record /\ pc = "scan" /\ pc' = pc /\ e < g.ver[u + 1]
      /\ levelEdges' = Append(levelEdges, e)
      /\ p' = [p EXCEPT ![n + 1] = Promise(e)]
      /\ h' = [h EXCEPT ![g.dst[e]] = @ + Promise(e)]
      /\ UNCHANGED <<g, flow, maxFlow>>
  BY DEF RecordWithTide, Record, callVars
<1>2. /\ e \in Edges(g) /\ g.dst[e] \in Nodes(g)
      /\ levelEdges \in Seq(Edges(g)) /\ n \in Nat /\ DOMAIN levelEdges = 1 .. n
      /\ h \in [Nodes(g) -> Nat] /\ p \in [1 .. g.edgeCount -> Nat]
  <2>1. e \in Edges(g) /\ g.dst[e] \in Nodes(g)
    BY <1>0, <1>1, ScanFacts
  <2>2. /\ levelEdges \in Seq(Edges(g))
        /\ h \in [Nodes(g) -> Nat] /\ p \in [1 .. g.edgeCount -> Nat]
    BY <1>0 DEF IInv, TypeOK
  <2> QED
    BY <2>1, <2>2
<1>3. Promise(e) \in Nat
  BY <1>0, <1>2, PromiseFacts
<1>4. h' \in [Nodes(g) -> Nat] /\ p' \in [1 .. g.edgeCount -> Nat]
  <2>1. h[g.dst[e]] + Promise(e) \in Nat
    BY <1>2, <1>3
  <2>2. h' \in [Nodes(g) -> Nat]
    BY <1>1, <1>2, <2>1
  <2>3. p' \in [1 .. g.edgeCount -> Nat]
    BY <1>1, <1>2, <1>3
  <2> QED
    BY <2>2, <2>3
<1>5. IInv'
  BY <1>0, <1>1, <1>4, RecordKeeps
<1>6. MassInv'
  BY <1>0, <1>1, <1>5, SearchKeepsMass
<1>7. CurrentInv'
  <2>1. Len(levelEdges') = n + 1 /\ DOMAIN levelEdges' = 1 .. (n + 1)
    BY <1>1, <1>2
  <2>2. n + 1 \in 1 .. g.edgeCount
    <3>1. n + 1 <= g.edgeCount /\ g.edgeCount \in Nat
      BY <1>1, <1>5, <2>1 DEF IInv, BuffersSuffice, TypeOK, IsCase
    <3> QED
      BY <1>2, <3>1
  <2>3. PICK J, m : J = DOMAIN levelEdges /\ m = n + 1
    OBVIOUS
  <2>4. EdgeRises(J, m, e)
    BY <1>0, <2>2, <2>3, RecordedEdgeRises
  <2>5. Risen(J \cup {m}, Nodes(g))'
    BY <1>0, <2>4, OneMoreEdgeRises
  <2>6. Live' = J \cup {m}
    BY <1>1, <1>2, <2>1, <2>3 DEF Live
  <2> QED
    BY <1>1, <2>5, <2>6 DEF CurrentInv, Risen, Incoming
<1>8. TidesInv'
  <2>1. (g \in Cases)' /\ (pc = "scan")'
    BY <1>0, <1>1 DEF TidesInv
  <2>2. TidesFitLongLong'
    BY <1>5, <1>7, <2>1, SearchTideFits, PTL
  <2> QED
    BY <1>1, <2>1, <2>2 DEF TidesInv
<1>9. PrunedInv'
  BY <1>1 DEF PrunedInv
<1>10. AbstractStep
  BY <1>0, <1>1, <1>5, QuietStep DEF Running, Eroded
<1>11. LevelGraphInv'
  BY <1>0, <1>1, RecordKeepsLevels
<1> QED
  BY <1>5, <1>6, <1>7, <1>8, <1>9, <1>10, <1>11 DEF CombinedInv, SolverInv

\* The steps of the search that neither make nor move a promise.
LEMMA SearchStepKeeps ==
  ASSUME CombinedInv,
         NextLevel \/ Dequeue \/ SkipEdge \/ ScanEnd \/ PruneStart \/ MarkReach \/ MarkEnd
  PROVE  CombinedInv' /\ AbstractStep
<1>0. SolverInv /\ IInv /\ CurrentInv
  BY DEF CombinedInv, SolverInv
<1>1. SolverInv' /\ AbstractStep
  BY <1>0, CommonStepKeepsSolver DEF CommonStep
<1>2. /\ pc \in {"bfs", "scan", "reach"} /\ UNCHANGED <<g, flow, levelEdges, p, h>>
      /\ pc' \in {"bfs", "scan", "reach", "compact", "done"}
      /\ pc' = "compact" =>
           pc = "reach" /\ idx = 0 /\ write' = 0 /\ idx' = 1 /\ reach' = reach
  BY DEF NextLevel, Dequeue, SkipEdge, ScanEnd, PruneStart, MarkReach, MarkEnd, callVars, tideVars
<1>3. /\ DOMAIN levelEdges = 1 .. Len(levelEdges) /\ Len(levelEdges) \in Nat
      /\ reach' \subseteq Nodes(g)'
  <2>1. levelEdges \in Seq(Edges(g))
    BY <1>0 DEF IInv, TypeOK
  <2>2. TypeOK'
    BY <1>1 DEF SolverInv, IInv
  <2> QED
    BY <2>1, <2>2, SMTT(30) DEF TypeOK
<1>4. PICK I : I = DOMAIN levelEdges
  OBVIOUS
<1>5. Live = I /\ Live' = I
  <2>1. Live = I
    BY <1>2, <1>4 DEF Live
  <2>2. CASE pc' = "compact"
    <3>1. Live' = (1 .. 0) \cup (1 .. Len(levelEdges))
      BY <1>2, <2>2 DEF Live
    <3> QED
      BY <1>3, <1>4, <2>1, <3>1
  <2>3. CASE pc' # "compact"
    BY <1>2, <1>4, <2>1, <2>3 DEF Live
  <2> QED
    BY <2>1, <2>2, <2>3
<1>6. CurrentInv'
  <2>1. PICK N : N = Nodes(g)
    OBVIOUS
  <2>2. Risen(I, N)
    BY <1>0, <1>2, <1>5, <2>1 DEF CurrentInv
  <2>3. Risen(I, N)'
    BY <1>0, <1>2, <1>4, <2>2, PromisesStand
  <2>4. N = Nodes(g)'
    BY <1>2, <2>1 DEF Nodes
  <2> QED
    BY <1>2, <1>3, <1>5, <2>3, <2>4 DEF CurrentInv, Risen, Incoming
<1>7. PrunedInv'
  <2>1. CASE pc' = "compact"
    <3>1. /\ g.sink \in reach
          /\ \A i \in 1 .. Len(levelEdges) :
                g.dst[levelEdges[i]] \in reach => g.src[levelEdges[i]] \in reach
      BY <1>0, <1>2, <2>1 DEF IInv, ReachInv
    <3>2. KeptInv'
      BY <1>1 DEF SolverInv, IInv
    <3> QED
      BY <1>2, <2>1, <3>1, <3>2 DEF PrunedInv, KeptInv
  <2> QED
    BY <1>2, <2>1 DEF PrunedInv
<1> QED
  BY <1>1, <1>6, <1>7 DEF CombinedInv

\* An edge that is dropped enters no marked node; one that is kept takes its
\* promise along.
LEMMA CompactWithPromiseKeeps ==
  ASSUME CombinedInv, CompactWithPromise
  PROVE  CombinedInv' /\ AbstractStep
<1> DEFINE n == Len(levelEdges)
<1>0. IInv /\ LevelGraphInv /\ MassInv /\ TidesInv /\ CurrentInv /\ PrunedInv
  BY DEF CombinedInv, SolverInv
<1>1. /\ Compact /\ pc = "compact" /\ pc' = pc /\ idx <= n /\ idx' = idx + 1
      /\ UNCHANGED <<g, flow, maxFlow, reach, h>>
  BY DEF CompactWithPromise, Compact, callVars
<1>2. /\ n \in Nat /\ idx \in 1 .. n /\ write \in Nat /\ write < idx
      /\ levelEdges \in Seq(Edges(g)) /\ DOMAIN levelEdges = 1 .. n
      /\ p \in [1 .. g.edgeCount -> Nat] /\ reach \subseteq Nodes(g)
  BY <1>0, <1>1, SMTT(30) DEF IInv, TypeOK, NoRepeatInv
<1>3. \A i \in 1 .. n : i \in 1 .. g.edgeCount
  BY <1>0, <1>2, LevelEdgeFacts
<1>4. p[idx] \in Nat /\ p' \in [1 .. g.edgeCount -> Nat]
  BY <1>2, <1>3 DEF CompactWithPromise
<1>5. IInv'
  BY <1>0, <1>1, <1>4, CompactKeeps
<1>6. MassInv'
  BY <1>0, <1>1, <1>5, CompactKeepsMass
<1>7. TidesInv'
  BY <1>0, <1>1, NoTideMoves
<1>8. PICK I, m, a : /\ I = (1 .. write) \cup ((idx + 1) .. n)
                     /\ m = write + 1 /\ a = levelEdges[idx]
  OBVIOUS
<1>9. /\ I \in SUBSET DOMAIN levelEdges /\ idx \in DOMAIN levelEdges /\ idx \notin I /\ m \notin I
      /\ Live = I \cup {idx} /\ m \in 1 .. n
  <2>1. Live = (1 .. write) \cup (idx .. n)
    BY <1>1 DEF Live
  <2> QED
    BY <1>2, <1>8, <2>1
<1>10. /\ h[g.source] = LLongMax
       /\ \A i \in I \cup {idx} : p[i] = Promise(levelEdges[i])
       /\ \A x \in reach \ {g.source} : h[x] = Incoming(x, I \cup {idx})
  BY <1>0, <1>1, <1>9 DEF CurrentInv, Risen
<1>11. \A x : Incoming(x, I \cup {idx}) = Incoming(x, I) + (IF g.dst[a] = x THEN p[idx] ELSE 0)
  <2>1. ASSUME NEW x
        PROVE  Incoming(x, I \cup {idx}) = Incoming(x, I) + (IF g.dst[a] = x THEN p[idx] ELSE 0)
    <3>1. idx \notin I /\ I \in SUBSET DOMAIN levelEdges /\ idx \in DOMAIN levelEdges
      BY <1>9
    <3>2. Incoming(x, I \cup {idx}) =
            Incoming(x, I) + (IF g.dst[levelEdges[idx]] = x THEN p[idx] ELSE 0)
      BY <1>0, <3>1, OnePositionMore
    <3> QED
      BY <1>8, <3>2
  <2> QED
    BY <2>1
<1>12. ASSUME IsKept(a)
       PROVE  CurrentInv' /\ PrunedInv'
  <2>1. /\ write' = write + 1 /\ levelEdges' = [levelEdges EXCEPT ![m] = a]
        /\ p' = [p EXCEPT ![m] = p[idx]]
    BY <1>8, <1>12 DEF CompactWithPromise, Compact
  <2>2. Len(levelEdges') = n
    BY <1>2, <1>9, <2>1
  <2>3. Live' = I \cup {m}
    <3>1. Live' = (1 .. (write + 1)) \cup ((idx + 1) .. n)
      BY <1>1, <2>1, <2>2 DEF Live
    <3> QED
      BY <1>2, <1>8, <3>1
  <2>4. /\ levelEdges'[m] = a /\ p'[m] = p[idx]
        /\ \A i \in I : levelEdges'[i] = levelEdges[i] /\ p'[i] = p[i]
    BY <1>2, <1>3, <1>9, <2>1
  <2>5. \A i \in I \cup {m} : p'[i] = Promise(levelEdges[i])'
    <3>1. \A i \in I : p'[i] = Promise(levelEdges[i])'
      BY <1>1, <1>10, <2>4 DEF Promise, Residual
    <3>2. p'[m] = Promise(levelEdges[m])'
      <4>1. p[idx] = Promise(a)
        BY <1>8, <1>10
      <4>2. Promise(levelEdges[m])' = Promise(a)
        BY <1>1, <2>4 DEF Promise, Residual
      <4> QED
        BY <2>4, <4>1, <4>2
    <3> QED
      BY <3>1, <3>2
  <2>6. /\ \A x : Outgoing(x, I \cup {m})' = Outgoing(x, I) + (IF x = g.src[a] THEN p'[m] ELSE 0)
        /\ \A x : Incoming(x, I \cup {m})' = Incoming(x, I) + (IF x = g.dst[a] THEN p'[m] ELSE 0)
    <3>1. OneMore(I, m, a)
      BY <1>1, <1>4, <1>9, <2>4 DEF OneMore
    <3>2. /\ \A n_1 : Outgoing(n_1, I \cup {m})' = Outgoing(n_1, I) + (IF n_1 = g.src[a] THEN p'[m] ELSE 0)
          /\ \A n_1 : Incoming(n_1, I \cup {m})' = Incoming(n_1, I) + (IF n_1 = g.dst[a] THEN p'[m] ELSE 0)
      BY <1>0, <3>1, OneChangedMore
    <3> QED
      BY <3>2
  <2>7. \A x \in reach \ {g.source} : h[x] = Incoming(x, I \cup {m})'
    BY <1>10, <1>11, <2>4, <2>6, SMTT(30)
  <2>8. CurrentInv'
    BY <1>1, <1>10, <2>3, <2>5, <2>7 DEF CurrentInv, Risen, Incoming
  <2>9. PrunedInv'
    <3>1. ASSUME NEW i \in 1 .. write'
          PROVE  IsKept(levelEdges[i])'
      <4>1. i \in I \/ i = m
        BY <1>2, <1>8, <2>1
      <4>2. CASE i = m
        BY <1>1, <1>12, <2>4, <4>2 DEF IsKept
      <4>3. CASE i \in I /\ i # m
        <5>1. i \in 1 .. write
          BY <1>2, <1>8, <2>1, <4>3
        <5> QED
          BY <1>0, <1>1, <2>4, <4>3, <5>1 DEF IsKept, PrunedInv
      <4> QED
        BY <4>1, <4>2, <4>3
    <3>2. ASSUME NEW i \in idx' .. Len(levelEdges'), g'.dst[levelEdges'[i]] \in reach'
          PROVE  g'.src[levelEdges'[i]] \in reach'
      <4>1. i \in I /\ i \in idx .. n
        BY <1>1, <1>2, <1>8, <2>2
      <4> QED
        BY <1>0, <1>1, <2>4, <3>2, <4>1 DEF PrunedInv
    <3> QED
      BY <1>0, <1>1, <3>1, <3>2 DEF PrunedInv
  <2> QED
    BY <2>8, <2>9
<1>13. ASSUME ~IsKept(a)
       PROVE  CurrentInv' /\ PrunedInv'
  <2>1. UNCHANGED <<levelEdges, write, p>>
    BY <1>8, <1>13 DEF CompactWithPromise, Compact
  <2>2. Live' = I
    BY <1>1, <1>8, <2>1 DEF Live
  <2>3. g.dst[a] \notin reach
    BY <1>0, <1>1, <1>2, <1>8, <1>13 DEF PrunedInv, IsKept
  <2>4. PICK N : N = reach
    OBVIOUS
  <2>5. Risen(I, N)
    <3>1. ASSUME NEW x \in N \ {g.source}
          PROVE  h[x] = Incoming(x, I)
      <4>1. h[x] = Incoming(x, I) + (IF g.dst[a] = x THEN p[idx] ELSE 0) /\ g.dst[a] # x
        BY <1>10, <1>11, <2>3, <2>4
      <4>2. Incoming(x, I) \in Nat
        BY <1>0, <1>9, PositionFacts
      <4> QED
        BY <4>1, <4>2
    <3> QED
      BY <1>10, <3>1 DEF Risen
  <2>6. Risen(I, N)'
    BY <1>0, <1>1, <1>9, <2>1, <2>5, PromisesStand
  <2>7. CurrentInv'
    BY <1>1, <2>2, <2>4, <2>6 DEF CurrentInv, Risen, Incoming
  <2>8. PrunedInv'
    <3>1. \A i \in (idx + 1) .. n : i \in idx .. n
      BY <1>2
    <3> QED
      BY <1>0, <1>1, <2>1, <3>1 DEF PrunedInv, IsKept
  <2> QED
    BY <2>7, <2>8
<1>14. AbstractStep
  BY <1>0, <1>1, <1>5, QuietStep DEF Running, Eroded
<1>15. LevelGraphInv'
  BY <1>0, <1>1, CompactKeepsLevels
<1> QED
  BY <1>5, <1>6, <1>7, <1>12, <1>13, <1>14, <1>15 DEF CombinedInv, SolverInv

LEMMA CompactEndKeepsCurrent ==
  ASSUME CombinedInv, CompactEnd
  PROVE  CombinedInv' /\ AbstractStep
<1>0. SolverInv /\ IInv /\ CurrentInv /\ PrunedInv
  BY DEF CombinedInv, SolverInv
<1>1. SolverInv' /\ AbstractStep
  BY <1>0, CommonStepKeepsSolver DEF CommonStep
<1>2. pc = "compact" /\ idx > Len(levelEdges) /\ UNCHANGED <<g, flow, p, h, reach>>
  BY DEF CompactEnd, callVars, tideVars, pruneVars
<1>3. PICK I, N : I = 1 .. write /\ N = reach
  OBVIOUS
<1>4. /\ pc' = "tide" /\ DOMAIN levelEdges' = I
      /\ \A i \in I : i \in DOMAIN levelEdges /\ levelEdges'[i] = levelEdges[i]
  <2>1. levelEdges' \in Seq(Edges(g)) => DOMAIN levelEdges' = 1 .. Len(levelEdges')
    OBVIOUS
  <2> QED
    BY <1>0, <1>3, <2>1, CompactEndFacts
<1>5. Live = I /\ Live' = I
  <2>1. Len(levelEdges) \in Nat /\ idx \in Nat
    BY <1>0 DEF IInv, TypeOK
  <2>2. idx .. Len(levelEdges) = {}
    BY <1>2, <2>1
  <2> QED
    BY <1>2, <1>3, <1>4, <2>2 DEF Live
<1>6. CurrentInv'
  <2>1. Risen(I, N)
    BY <1>0, <1>2, <1>3, <1>5 DEF CurrentInv
  <2>2. Risen(I, N)'
    <3>1. I \in SUBSET DOMAIN levelEdges
      BY <1>4
    <3> QED
      BY <1>0, <1>2, <1>4, <2>1, <3>1, PromisesStand
  <2> QED
    BY <1>2, <1>3, <1>4, <1>5, <2>2 DEF CurrentInv, Risen, Incoming
<1>7. PrunedInv'
  BY <1>0, <1>2, <1>3, <1>4 DEF PrunedInv, IsKept
<1> QED
  BY <1>1, <1>6, <1>7 DEF CombinedInv

LEMMA FinishStartKeeps ==
  ASSUME CombinedInv, FinishStart
  PROVE  CombinedInv' /\ AbstractStep
<1>0. IInv /\ LevelGraphInv /\ MassInv /\ TidesInv /\ CurrentInv /\ PrunedInv
  BY DEF CombinedInv, SolverInv
<1>1. /\ pc = "tide" /\ idx' = Len(levelEdges)
      /\ \/ pc' = "low"
         \/ pc' = "returned" /\ sent' = 0
      /\ l' = [x \in Nodes(g) |-> IF x = g.sink THEN h[g.sink] ELSE 0]
      /\ sent' \in {0, sent}
      /\ UNCHANGED <<g, maxFlow, flow, dist, queue, head, levelEnd, u, e, levelEdges>>
      /\ UNCHANGED <<write, reach, h, p>>
  BY DEF FinishStart, callVars, searchVars, pruneVars
<1>2. /\ h \in [Nodes(g) -> Nat] /\ g.sink \in Nodes(g) /\ reach \subseteq Nodes(g)
      /\ Len(levelEdges) \in Nat /\ DOMAIN levelEdges = 1 .. Len(levelEdges)
  BY <1>0 DEF IInv, TypeOK, IsCase
<1>3. TypeOK'
  <2>1. l' \in [Nodes(g) -> Nat] /\ sent' \in Nat /\ idx' \in Nat /\ pc' \in Labels
    BY <1>0, <1>1, <1>2 DEF IInv, TypeOK, Labels
  <2> QED
    BY <1>0, <1>1, <2>1 DEF IInv, TypeOK
<1>4. FlowIsFeasible'
  BY <1>0, <1>1 DEF IInv, FlowIsFeasible, CapacityOK, SkewSymmetry
<1>5. LowTideBound'
  <2>1. \A x \in Nodes(g) : l'[x] \in {0, h[x]} /\ h[x] \in Nat
    BY <1>1, <1>2
  <2> QED
    BY <1>1, <2>1 DEF LowTideBound
<1>6. /\ Risen(DOMAIN levelEdges, reach) /\ g.sink \in reach
      /\ \A i \in DOMAIN levelEdges :
            g.src[levelEdges[i]] \in reach /\ g.dst[levelEdges[i]] \in reach
  BY <1>0, <1>1 DEF CurrentInv, PrunedInv, Live, IsKept
<1>7. PromiseInv'
  <2>1. Promised' \in {DOMAIN levelEdges, {}}
    BY <1>1 DEF Promised
  <2>2. ASSUME NEW i \in DOMAIN levelEdges
        PROVE  p[i] <= Residual(g, flow, levelEdges[i])
    <3>1. p[i] = Promise(levelEdges[i]) /\ levelEdges[i] \in Edges(g)
      BY <1>0, <1>6, LevelEdgeFacts DEF Risen
    <3> QED
      BY <1>0, <3>1, PromiseFacts
  <2> QED
    BY <1>1, <1>2, <2>1, <2>2 DEF PromiseInv, Residual
<1>8. IInv'
  <2>1. pc' \in {"tide", "high", "low", "erosion", "returned", "build"}
    BY <1>1
  <2>2. /\ BuffersSuffice' /\ QueueInv' /\ LevelInv' /\ ScanInv' /\ NoRepeatInv' /\ CutInv'
        /\ OrderInv' /\ FrontierInv' /\ ReachInv' /\ KeptInv' /\ CutCertificate'
    BY <1>0, <1>1, <2>1, SearchFrame
  <2> QED
    BY <1>3, <1>4, <1>5, <1>7, <2>2 DEF IInv
<1>9. MassInv'
  <2>1. SortedInv /\ ConservationInv
    BY <1>0 DEF MassInv
  <2>2. IF h[g.sink] = 0 THEN sent' = 0 /\ pc' = "returned"
        ELSE /\ pc' = "low"
             /\ l' = [x \in Nodes(g) |-> IF x = g.sink THEN h[g.sink] ELSE 0]
    BY <1>1 DEF FinishStart
  <2>3. reach \in SUBSET Nodes(g) /\ pc \in {"high", "tide"}
    BY <1>1, <1>2
  <2> QED
    BY <1>0, <1>1, <1>6, <1>8, <2>1, <2>2, <2>3, HighTideDone
<1>10. TidesInv'
  BY <1>0, <1>1, NoTideMoves
<1>11. PrunedInv' /\ CurrentInv'
  BY <1>1 DEF PrunedInv, CurrentInv
<1>12. AbstractStep
  BY <1>0, <1>1, <1>8, QuietStep DEF Running, Eroded
<1>13. LevelGraphInv'
  BY <1>0, <1>1, TidesKeepLevels
<1> QED
  BY <1>8, <1>9, <1>10, <1>11, <1>12, <1>13 DEF CombinedInv, SolverInv

\* The steps that come after the promises have been used, or before they are made.
LEMMA OtherStepKeeps ==
  ASSUME CombinedInv,
         Allocate \/ LowTide \/ LowTideEnd \/ Erosion \/ ErosionEnd \/ AddAndRebuild
  PROVE  CombinedInv' /\ AbstractStep
<1>1. SolverInv' /\ AbstractStep
  BY CommonStepKeepsSolver DEF CombinedInv, CommonStep
<1>2. pc' \notin {"bfs", "scan", "reach", "compact", "tide"}
  BY DEF Allocate, LowTide, LowTideEnd, Erosion, ErosionEnd, AddAndRebuild
<1> QED
  BY <1>1, <1>2 DEF CombinedInv, PrunedInv, CurrentInv

LEMMA CombinedStepKeeps ==
  ASSUME CombinedInv, [CombinedNext]_vars
  PROVE  CombinedInv' /\ AbstractStep
<1>1. CASE BuildLevelGraphAndHighTide
  BY <1>1, StartWithTideKeeps, RecordWithTideKeeps, SearchStepKeeps, CompactWithPromiseKeeps,
     CompactEndKeepsCurrent DEF BuildLevelGraphAndHighTide
<1>2. CASE FinishTideCycle
  BY <1>2, FinishStartKeeps, OtherStepKeeps DEF FinishTideCycle
<1>3. CASE CombinedDriver
  BY <1>3, OtherStepKeeps DEF CombinedDriver
<1>4. CASE UNCHANGED vars
  <2>1. SolverInv' /\ AbstractStep
    BY <1>4, CommonStepKeepsSolver DEF CombinedInv
  <2>2. PrunedInv' /\ CurrentInv'
    BY <1>4 DEF CombinedInv, PrunedInv, CurrentInv, IsKept, Risen, Incoming, Promise, Residual,
                Live, vars, callVars, pruneVars, tideVars
  <2> QED
    BY <2>1, <2>2 DEF CombinedInv
<1> QED
  BY <1>1, <1>2, <1>3, <1>4 DEF CombinedNext

LEMMA CombinedPhaseEnds ==
  ASSUME CombinedNext
  PROVE  /\ pc = "bfs" /\ pc' \notin {"bfs", "scan"} => BuildEnd \/ PruneStart
         /\ pc = "compact" /\ pc' # "compact" => CompactEnd
<1>1. \/ Allocate \/ Start \/ NextLevel \/ Dequeue \/ SkipEdge \/ Record \/ ScanEnd
      \/ PruneStart \/ MarkReach \/ MarkEnd \/ Compact \/ CompactEnd
      \/ FinishStart \/ LowTide \/ LowTideEnd \/ Erosion \/ ErosionEnd \/ AddAndRebuild
  BY DEF CombinedNext, BuildLevelGraphAndHighTide, FinishTideCycle, CombinedDriver, StartWithTide,
         RecordWithTide, CompactWithPromise
<1> QED
  BY <1>1
  DEF Allocate, Start, NextLevel, Dequeue, SkipEdge, Record, ScanEnd, PruneStart, MarkReach,
      MarkEnd, Compact, CompactEnd, FinishStart, LowTide, LowTideEnd, Erosion, ErosionEnd,
      AddAndRebuild

\* CombinedInv holds in every state of every call.
THEOREM CombinedInvariant == CombinedSpec => []CombinedInv
<1>1. Init => CombinedInv
  <2>1. Init => PrunedInv /\ CurrentInv
    BY DEF Init, PrunedInv, CurrentInv
  <2> QED
    BY <2>1, InitEstablishesSolver DEF CombinedInv
<1>2. CombinedInv /\ [CombinedNext]_vars => CombinedInv'
  BY CombinedStepKeeps
<1> QED
  BY <1>1, <1>2, PTL DEF CombinedSpec

\* The promises made during the search are those a high tide over the pruned
\* level graph would make, although the tides were read while they still rose.
THEOREM CombinedHighTideIsCurrent == CombinedSpec => []HighTideIsCurrent
<1>1. CombinedInv => HighTideIsCurrent
  <2> SUFFICES ASSUME CombinedInv, pc = "tide" PROVE HighTideIsCurrent
    BY DEF HighTideIsCurrent
  <2>1. Risen(DOMAIN levelEdges, reach)
    BY DEF CombinedInv, CurrentInv, Live
  <2>2. ASSUME NEW i \in DOMAIN levelEdges
        PROVE  g.dst[levelEdges[i]] \in reach \ {g.source}
    <3>1. g.dst[levelEdges[i]] # g.source
      BY SourceIsFirst DEF CombinedInv, SolverInv
    <3> QED
      BY <3>1 DEF CombinedInv, PrunedInv, IsKept
  <2> QED
    BY <2>1, <2>2 DEF HighTideIsCurrent, Risen, Incoming, LevelEdgeSet
<1> QED
  BY <1>1, CombinedInvariant, PTL

LEMMA CombinedInvImplies == CombinedInv => SolverInv
  BY DEF CombinedInv

\* Every variable keeps its type: no tide and no promise ever becomes negative.
THEOREM CombinedTypeOK == CombinedSpec => []TypeOK
  BY CombinedInvImplies, SolverInvImplies, CombinedInvariant, PTL

\* No slot ever carries more than its capacity and rev[] slots mirror each
\* other, although the promises were made before edges were pruned.
THEOREM CombinedFlowIsFeasible == CombinedSpec => []FlowIsFeasible
  BY CombinedInvImplies, SolverInvImplies, CombinedInvariant, PTL

\* queue[], levelEdges[] and p[] never outgrow the arrays allocated for them.
THEOREM CombinedBuffersSuffice == CombinedSpec => []BuffersSuffice
  BY CombinedInvImplies, SolverInvImplies, CombinedInvariant, PTL

\* capacity[] - flow[] never leaves the range of int, provided that the two
\* capacities of a pair add up to an int (FitsInt).
THEOREM CombinedResidualFitsInt == CombinedSpec => []ResidualFitsInt
  BY CombinedInvImplies, SolverInvImplies, CombinedInvariant, PTL

\* No node is asked by the low tide for more than the high tide brought to it,
\* edges that were pruned in between included.
THEOREM CombinedLowTideBound == CombinedSpec => []LowTideBound
  BY CombinedInvImplies, SolverInvImplies, CombinedInvariant, PTL

\* h[] never overflows a long long, although the source starts with LLONG_MAX.
THEOREM CombinedTidesFitLongLong == CombinedSpec => []TidesFitLongLong
  BY CombinedInvImplies, SolverInvImplies, CombinedInvariant, PTL

\* An erosion brings all that the low tide asked of the source to the sink.
THEOREM CombinedErosionDelivers == CombinedSpec => []ErosionDelivers
  BY CombinedInvImplies, SolverInvImplies, CombinedInvariant, PTL

\* tideCycle returns 0 only if no residual path of the level graph is left.
THEOREM CombinedZeroCycleMeansBlocked == CombinedSpec => []ZeroCycleMeansBlocked
  BY CombinedInvImplies, SolverInvImplies, CombinedInvariant, PTL

\* When the call returns, its flow fills every slot that leaves the set of nodes
\* the last search discovered, and that set does not hold the sink.
THEOREM CombinedCutCertificate == CombinedSpec => []CutCertificate
  BY CombinedInvImplies, SolverInvImplies, CombinedInvariant, PTL

\* The value a call returns is the capacity of a minimum cut.
THEOREM CombinedResultIsMaxFlow == CombinedSpec => []ResultIsMaxFlow
  BY CombinedInvImplies, SolverInvImplies, CombinedInvariant, PTL

\* A search labels the sink with its residual distance from the source and records
\* each edge of the level graph once.
THEOREM CombinedBuildsLevelGraph == CombinedSpec => BuildsLevelGraph
<1>1. CombinedInv /\ [CombinedNext]_vars => [SearchEndStep]_vars
  BY CombinedPhaseEnds, SearchIsExact DEF CombinedInv
<1> QED
  BY <1>1, CombinedInvariant, PTL DEF CombinedSpec, BuildsLevelGraph, SearchEndStep

\* Pruning leaves exactly the edges on shortest augmenting paths, each once, and some.
THEOREM CombinedPruningIsExact == CombinedSpec => PruningIsExact
<1>1. CombinedInv /\ [CombinedNext]_vars => [CompactEndStep]_vars
  BY CombinedPhaseEnds, CompactionIsExact, CombinedStepKeeps DEF CombinedInv
<1> QED
  BY <1>1, CombinedInvariant, PTL DEF CombinedSpec, PruningIsExact, CompactEndStep

\* The solver implements MaxFlow: every cycle that delivers replaces one flow by
\* another of larger value, and only a call without augmenting path ends.
THEOREM CombinedImplementsMaxFlow == CombinedSpec => ImplementsMaxFlow
<1>1. CombinedInv /\ [CombinedNext]_vars => [Abstract!Next]_(Abstract!vars)
  BY CombinedStepKeeps DEF AbstractStep
<1> QED
  BY <1>1, InitIsAbstract, CombinedInvariant, PTL DEF CombinedSpec, ImplementsMaxFlow, Abstract!Spec

===============================================================================
