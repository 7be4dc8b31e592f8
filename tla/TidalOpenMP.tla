------------------------------- MODULE TidalOpenMP -----------------------------
(***************************************************************************)
(* tidalFlowOpenMP.c: tide cycles on one level graph until one of them     *)
(* sends nothing, every level of a tide being one "omp parallel for" over  *)
(* the edges of the level.                                                 *)
(*                                                                         *)
(* A worker is one iteration of such a loop, named by its edge; p[i] and   *)
(* the locals of the iteration are indexed by that edge.  All workers of a *)
(* level may be under way at once, so the runs of any number of threads    *)
(* and any schedule are among the behaviours.  An action of a worker       *)
(* touches shared memory once, as the code's atomic operations do; the     *)
(* locals move along with it.  The barrier at the end of the loop is the   *)
(* action that starts the next level.                                      *)
(*                                                                         *)
(* buildLevelGraph is one step here: levels[k] holds the edges from        *)
(* distance k-1 to distance k that lie on a shortest augmenting path.      *)
(***************************************************************************)
EXTENDS SolverCalls

VARIABLES
  g,            \* the graph, the source and the sink of the call
  flow,         \* g->flow[]
  maxFlow,      \* the driver's maxFlow, in the end the returned value
  pc,           \* where the master thread is
  dist,         \* dist[] of the last search
  levels,       \* the level graph
  level,        \* the level of the running parallel loop
  work,         \* where the worker of an edge is
  remaining,    \* its local of that name
  seen,         \* the l[v] or h[u] it has read
  seenTail,     \* the l[u] it has read
  h, p, l,      \* high tide, promises, low tide
  sent          \* the value the last tide cycle returned

callVars   == <<g, maxFlow>>
graphVars  == <<dist, levels>>
localVars  == <<remaining, seen, seenTail>>
tideVars   == <<h, p, l>>

vars == <<callVars, flow, pc, graphVars, level, work, localVars, tideVars, sent>>

Labels == {"alloc", "build", "tide", "high", "low", "erosion",
           "returned", "done", "failed"}

WorkerLabels == {"idle", "loop", "readTail", "casHead", "casTail", "restore",
                 "cas", "deliver", "finished"}

Running == pc \notin {"done", "failed"}

Zero(c) == [a \in Edges(c) |-> 0]

Init ==
  /\ g \in Cases
  /\ flow = Zero(g)
  /\ maxFlow = 0
  /\ pc = "alloc"
  /\ dist = [x \in Nodes(g) |-> -1]
  /\ levels = <<>>
  /\ level = 0
  /\ work = [a \in Edges(g) |-> "idle"]
  /\ remaining = Zero(g)
  /\ seen = Zero(g)
  /\ seenTail = Zero(g)
  /\ h = [x \in Nodes(g) |-> 0]
  /\ p = Zero(g)
  /\ l = [x \in Nodes(g) |-> 0]
  /\ sent = 0

Allocate ==
  /\ pc = "alloc"
  /\ \/ pc' = "build" /\ UNCHANGED maxFlow
     \/ pc' = "failed" /\ maxFlow' = -1
  /\ UNCHANGED <<g, flow, graphVars, level, work, localVars, tideVars, sent>>

\* The search, the backward pass and the compaction, each by its result.
BuildLevelGraph ==
  /\ pc = "build"
  /\ \E d \in {Distances(g, flow)} :
       /\ dist' = d
       /\ \/ /\ d[g.sink] = -1
             /\ pc' = "done"
             /\ UNCHANGED levels
          \/ /\ d[g.sink] # -1
             /\ \E E \in {LevelEdgesAt(g, flow, d)} : \E live \in {CoReach(g, E)} :
                  levels' = [k \in 1 .. d[g.sink] |->
                               {a \in Between(g, E, live) : d[g.src[a]] = k - 1}]
             /\ pc' = "tide"
  /\ UNCHANGED <<callVars, flow, level, work, localVars, tideVars, sent>>

-------------------------------------------------------------------------------
(* Parallel loops.                                                         *)

LevelEdgeSet == UNION {levels[k] : k \in DOMAIN levels}

\* The loop over level k begins: no worker of it has started.
Begin(k) ==
  /\ level' = k
  /\ work' = [a \in Edges(g) |-> IF a \in levels[k] THEN "loop" ELSE "idle"]

AtBarrier == \A a \in levels[level] : work[a] = "finished"

GoTo(a, label) == work' = [work EXCEPT ![a] = label]

Forget(a) ==
  /\ seen' = [seen EXCEPT ![a] = 0]
  /\ seenTail' = [seenTail EXCEPT ![a] = 0]

-------------------------------------------------------------------------------
(* High tide, from the source to the sink.                                 *)

TideStart ==
  /\ pc = "tide"
  /\ h' = [x \in Nodes(g) |-> IF x = g.source THEN LLongMax ELSE 0]
  /\ Begin(1)
  /\ pc' = "high"
  /\ UNCHANGED <<callVars, flow, graphVars, localVars, p, l, sent>>

Promise_OffByOne(a) == Lesser(Residual(g, flow, a) - 1, h[g.src[a]])

Promise(a) == Lesser(Residual(g, flow, a), h[g.src[a]])

\* h[u] is written by the workers of the level before only, and the additions to
\* h[v] commute.
HighTide(a) ==
  /\ pc = "high"
  /\ work[a] = "loop"
  /\ p' = [p EXCEPT ![a] = Promise(a)]
  /\ h' = [h EXCEPT ![g.dst[a]] = @ + Promise(a)]
  /\ GoTo(a, "finished")
  /\ UNCHANGED <<callVars, flow, pc, graphVars, level, localVars, l, sent>>

HighTideLevel ==
  /\ pc = "high"
  /\ AtBarrier
  /\ level < Len(levels)
  /\ Begin(level + 1)
  /\ UNCHANGED <<callVars, flow, pc, graphVars, localVars, tideVars, sent>>

\* Either the tide has not come to the sink, or the low tide starts there.
HighTideEnd ==
  /\ pc = "high"
  /\ AtBarrier
  /\ level = Len(levels)
  /\ IF h[g.sink] = 0
     THEN /\ sent' = 0
          /\ pc' = "returned"
          /\ UNCHANGED <<level, work, remaining, l>>
     ELSE /\ l' = [x \in Nodes(g) |-> IF x = g.sink THEN h[g.sink] ELSE 0]
          /\ remaining' = p
          /\ Begin(Len(levels))
          /\ pc' = "low"
          /\ UNCHANGED sent
  /\ UNCHANGED <<callVars, flow, graphVars, seen, seenTail, h, p>>

-------------------------------------------------------------------------------
(* Low tide, from the sink to the source: what a node wants is pulled back *)
(* through its incoming edges with two compare-and-swaps.                  *)

\* p[i] = sentTotal, the part of the promise that has been pulled back.
Finish(a) ==
  /\ p' = [p EXCEPT ![a] = @ - remaining[a]]
  /\ remaining' = [remaining EXCEPT ![a] = 0]
  /\ Forget(a)
  /\ GoTo(a, "finished")

IsWanted_Always(a) == remaining[a] > 0

IsWanted_MoreThanOne(a) == remaining[a] > 0 /\ l[g.dst[a]] > 1

\* There is something left to pull back, and somebody wants it.
IsWanted(a) == remaining[a] > 0 /\ l[g.dst[a]] > 0

ReadHead(a) ==
  /\ pc = "low"
  /\ work[a] = "loop"
  /\ IF IsWanted(a)
     THEN /\ seen' = [seen EXCEPT ![a] = l[g.dst[a]]]
          /\ GoTo(a, "readTail")
          /\ UNCHANGED <<p, remaining, seenTail>>
     ELSE Finish(a)
  /\ UNCHANGED <<callVars, flow, pc, graphVars, level, h, l, sent>>

ReadTail(a) ==
  /\ pc = "low"
  /\ work[a] = "readTail"
  /\ IF h[g.src[a]] - l[g.src[a]] > 0
     THEN /\ seenTail' = [seenTail EXCEPT ![a] = l[g.src[a]]]
          /\ GoTo(a, "casHead")
          /\ UNCHANGED <<p, remaining, seen>>
     ELSE Finish(a)
  /\ UNCHANGED <<callVars, flow, pc, graphVars, level, h, l, sent>>

SendBack_NoDemand(a) == Lesser(remaining[a], h[g.src[a]] - seenTail[a])

\* What one attempt moves, computed from the values read.
SendBack(a) == Lesser(remaining[a], Lesser(seen[a], h[g.src[a]] - seenTail[a]))

CasHead(a) ==
  /\ pc = "low"
  /\ work[a] = "casHead"
  /\ IF l[g.dst[a]] = seen[a]
     THEN /\ l' = [l EXCEPT ![g.dst[a]] = @ - SendBack(a)]
          /\ GoTo(a, "casTail")
          /\ UNCHANGED <<seen, seenTail>>
     ELSE /\ GoTo(a, "loop")
          /\ Forget(a)
          /\ UNCHANGED l
  /\ UNCHANGED <<callVars, flow, pc, graphVars, level, remaining, h, p, sent>>

\* The second compare-and-swap succeeds if no other worker has moved l[u].
TailUnchanged(a) == l[g.src[a]] = seenTail[a]

CasTail(a) ==
  /\ pc = "low"
  /\ work[a] = "casTail"
  /\ IF TailUnchanged(a)
     THEN /\ l' = [l EXCEPT ![g.src[a]] = seenTail[a] + SendBack(a)]
          /\ remaining' = [remaining EXCEPT ![a] = @ - SendBack(a)]
          /\ Forget(a)
          /\ GoTo(a, "loop")
     ELSE /\ GoTo(a, "restore")
          /\ UNCHANGED <<l, remaining, seen, seenTail>>
  /\ UNCHANGED <<callVars, flow, pc, graphVars, level, h, p, sent>>

Returned_Nothing(a) == 0

\* What a failed attempt gives back to the head node.
Returned(a) == SendBack(a)

Restore(a) ==
  /\ pc = "low"
  /\ work[a] = "restore"
  /\ l' = [l EXCEPT ![g.dst[a]] = @ + Returned(a)]
  /\ Forget(a)
  /\ GoTo(a, "loop")
  /\ UNCHANGED <<callVars, flow, pc, graphVars, level, remaining, h, p, sent>>

LowTideLevel ==
  /\ pc = "low"
  /\ AtBarrier
  /\ level > 1
  /\ Begin(level - 1)
  /\ UNCHANGED <<callVars, flow, pc, graphVars, localVars, tideVars, sent>>

LowTideEnd ==
  /\ pc = "low"
  /\ AtBarrier
  /\ level = 1
  /\ h' = [x \in Nodes(g) |-> IF x = g.source THEN l[g.source] ELSE 0]
  /\ remaining' = p
  /\ Begin(1)
  /\ pc' = "erosion"
  /\ UNCHANGED <<callVars, flow, graphVars, seen, seenTail, p, l, sent>>

-------------------------------------------------------------------------------
(* Erosion, from the source to the sink.                                   *)

ReadWaiting(a) ==
  /\ pc = "erosion"
  /\ work[a] = "loop"
  /\ IF remaining[a] > 0 /\ h[g.src[a]] > 0
     THEN seen' = [seen EXCEPT ![a] = h[g.src[a]]] /\ GoTo(a, "cas")
     ELSE GoTo(a, "finished") /\ UNCHANGED seen
  /\ UNCHANGED <<callVars, flow, pc, graphVars, level, remaining, seenTail, tideVars, sent>>

CommitFlow_NoLimit(a) == seen[a]

CommitFlow(a) == Lesser(remaining[a], seen[a])

WaitingUnchanged(a) == h[g.src[a]] = seen[a]

CasWaiting(a) ==
  /\ pc = "erosion"
  /\ work[a] = "cas"
  /\ IF WaitingUnchanged(a)
     THEN /\ h' = [h EXCEPT ![g.src[a]] = seen[a] - CommitFlow(a)]
          /\ GoTo(a, "deliver")
          /\ UNCHANGED seen
     ELSE /\ GoTo(a, "loop")
          /\ seen' = [seen EXCEPT ![a] = 0]
          /\ UNCHANGED h
  /\ UNCHANGED <<callVars, flow, pc, graphVars, level, remaining, seenTail, p, l, sent>>

\* h[v] is read in the next level; the two slots of flow[] belong to this worker,
\* because no level holds an edge and its reverse.
Deliver(a) ==
  /\ pc = "erosion"
  /\ work[a] = "deliver"
  /\ h' = [h EXCEPT ![g.dst[a]] = @ + CommitFlow(a)]
  /\ flow' = [[flow EXCEPT ![g.rev[a]] = @ - CommitFlow(a)] EXCEPT ![a] = @ + CommitFlow(a)]
  /\ remaining' = [remaining EXCEPT ![a] = @ - CommitFlow(a)]
  /\ seen' = [seen EXCEPT ![a] = 0]
  /\ GoTo(a, "loop")
  /\ UNCHANGED <<callVars, pc, graphVars, level, seenTail, p, l, sent>>

ErosionLevel ==
  /\ pc = "erosion"
  /\ AtBarrier
  /\ level < Len(levels)
  /\ Begin(level + 1)
  /\ UNCHANGED <<callVars, flow, pc, graphVars, localVars, tideVars, sent>>

ErosionEnd ==
  /\ pc = "erosion"
  /\ AtBarrier
  /\ level = Len(levels)
  /\ sent' = h[g.sink]
  /\ pc' = "returned"
  /\ UNCHANGED <<callVars, flow, graphVars, level, work, localVars, tideVars>>

-------------------------------------------------------------------------------
\* The driver adds the value of the cycle and runs another one, ...
AddAndRepeat ==
  /\ pc = "returned"
  /\ sent > 0
  /\ maxFlow' = maxFlow + sent
  /\ pc' = "tide"
  /\ UNCHANGED <<g, flow, graphVars, level, work, localVars, tideVars, sent>>

\* ... or searches again.
Rebuild ==
  /\ pc = "returned"
  /\ sent <= 0
  /\ pc' = "build"
  /\ UNCHANGED <<callVars, flow, graphVars, level, work, localVars, tideVars, sent>>

Worker(a) ==
  \/ HighTide(a)
  \/ ReadHead(a) \/ ReadTail(a) \/ CasHead(a) \/ CasTail(a) \/ Restore(a)
  \/ ReadWaiting(a) \/ CasWaiting(a) \/ Deliver(a)

Master ==
  \/ Allocate \/ BuildLevelGraph \/ TideStart
  \/ HighTideLevel \/ HighTideEnd \/ LowTideLevel \/ LowTideEnd
  \/ ErosionLevel \/ ErosionEnd \/ AddAndRepeat \/ Rebuild

Next == Master \/ \E a \in Edges(g) : Worker(a)

\* Some thread of the call keeps running.  Which one is left to the scheduler: no
\* fairness between workers is needed, their retries cannot go on for ever.
Spec == Init /\ [][Next]_vars /\ WF_vars(Next)

-------------------------------------------------------------------------------
(* Properties.                                                             *)

Phase   == {"tide", "high", "low", "erosion", "returned"}
InLoops == {"high", "low", "erosion"}

\* The type of every variable; in particular no tide, no promise and no rest of one
\* is ever negative, although they are computed from values read earlier.
TypeOK ==
  /\ IsCase(g)
  /\ flow \in [Edges(g) -> Int]
  /\ maxFlow \in Int
  /\ pc \in Labels
  /\ dist \in [Nodes(g) -> Nat \cup {-1}]
  /\ levels \in Seq(SUBSET Edges(g))
  /\ pc \in Phase => Len(levels) > 0
  /\ level \in Nat
  /\ pc \in InLoops => level \in 1 .. Len(levels)
  /\ work \in [Edges(g) -> WorkerLabels]
  /\ remaining \in [Edges(g) -> Nat]
  /\ seen \in [Edges(g) -> Nat]
  /\ seenTail \in [Edges(g) -> Nat]
  /\ h \in [Nodes(g) -> Nat]
  /\ p \in [Edges(g) -> Nat]
  /\ l \in [Nodes(g) -> Nat]
  /\ sent \in Nat

\* Whatever the interleaving, no slot carries more than its capacity.
FlowIsFeasible == CapacityOK(g, flow) /\ SkewSymmetry(g, flow)

\* The residual capacity every loop computes as an int is one.
ResidualFitsInt == \A a \in Edges(g) : Residual(g, flow, a) \in 0 .. IntMax

\* What the code accesses without atomics is not shared: no worker of a loop writes
\* the tide of a node that another one reads as its tail, and the two flow[] slots
\* of an edge are those of one worker.
NoDataRace ==
  pc \in InLoops =>
    \A a, b \in levels[level] :
      /\ g.src[a] # g.dst[b]
      /\ a # b => {a, g.rev[a]} \cap {b, g.rev[b]} = {}

Into(x) == {a \in LevelEdgeSet : g.dst[a] = x}
From(x) == {a \in LevelEdgeSet : g.src[a] = x}

\* Flow taken from h[u] by a worker that has not delivered it yet.
InHands ==
  [a \in Edges(g) |-> IF pc = "erosion" /\ work[a] = "deliver" THEN CommitFlow(a) ELSE 0]

InTransit(x) == IF pc = "erosion" THEN h[x] + SumOver(InHands, From(x)) ELSE 0

Delivered ==
  CASE pc = "erosion"  -> l[g.source]
    [] pc = "returned" -> sent
    [] OTHER           -> 0

Arrived ==
  CASE pc = "erosion"  -> h[g.sink]
    [] pc = "returned" -> sent
    [] OTHER           -> 0

\* Flow is never created or lost: what an inner node has not passed on waits in
\* h or in the hands of a worker.
MassBalance ==
  pc # "failed" =>
    /\ \A x \in Nodes(g) \ {g.source, g.sink} : NetOutflow(g, flow, x) = -InTransit(x)
    /\ NetOutflow(g, flow, g.source) = maxFlow + Delivered - InTransit(g.source)
    /\ NetOutflow(g, flow, g.sink) = -(maxFlow + Arrived)

\* Pulled back through an edge so far; taken from the head node by a worker that
\* has not settled yet.
Pulled == [a \in Edges(g) |-> p[a] - remaining[a]]
Held   == [a \in Edges(g) |-> IF work[a] \in {"casTail", "restore"} THEN SendBack(a) ELSE 0]

\* Two compare-and-swaps, a failing one undone, never lose or double a demand:
\* every node has been asked for what was pulled out of it, and wants what of it
\* has not been pulled in.  Also with what workers may have to put back no node is
\* asked for more than the high tide brought.
DemandIsKept ==
  pc = "low" =>
    \A x \in Nodes(g) :
      /\ l[x] + SumOver(Held, Into(x)) <= h[x]
      /\ l[x] + SumOver(Held, Into(x)) + SumOver(Pulled, Into(x))
           = IF x = g.sink THEN h[x] ELSE SumOver(Pulled, From(x))

\* A high tide that reached the sink is answered at the source, although workers
\* give up when another one holds the demand they look for.
LowTideReachesSource ==
  pc = "low" /\ level = 1 /\ AtBarrier => l[g.source] > 0

\* All the low tide asked of the source arrives at the sink, although a worker
\* gives up as soon as it finds nothing waiting.
ErosionDelivers ==
  pc = "erosion" /\ level = Len(levels) /\ AtBarrier =>
    \A x \in Nodes(g) : h[x] = IF x = g.sink THEN l[g.source] ELSE 0

\* A cycle that sends nothing has found every path of the level graph blocked:
\* workers that see a demand another one holds, and give up, do no harm.
ZeroCycleMeansBlocked ==
  pc = "returned" /\ sent <= 0 =>
    g.source \notin CoReach(g, {a \in LevelEdgeSet : Residual(g, flow, a) > 0})

\* The returned value is the capacity of a minimum cut.
ResultIsMaxFlow == pc = "done" => maxFlow = MinCut(g)

\* Retrying workers do not keep each other busy for ever, even if the scheduler
\* favours some of them: the call returns.
Terminates == <>~Running

-------------------------------------------------------------------------------
(* The inductive invariant.                                                *)

\* levels[k] leads from distance k-1 to distance k.
LevelInv ==
  pc \in Phase =>
    \A k \in DOMAIN levels : \A a \in levels[k] :
      dist[g.src[a]] = k - 1 /\ dist[g.dst[a]] = k

\* Only workers of the running loop are under way.
WorkInv ==
  pc \in InLoops => \A a \in Edges(g) : work[a] # "idle" => a \in levels[level]

\* A worker that computes an amount has seen something to move and has promise left;
\* in the low tide it has also seen room at the tail.
AttemptInv ==
  /\ pc = "low" =>
       \A a \in Edges(g) :
         /\ work[a] \in {"readTail", "casHead", "casTail", "restore"} =>
              seen[a] > 0 /\ remaining[a] > 0
         /\ work[a] \in {"casHead", "casTail", "restore"} => h[g.src[a]] > seenTail[a]
  /\ pc = "erosion" =>
       \A a \in Edges(g) :
         work[a] \in {"cas", "deliver"} => seen[a] > 0 /\ remaining[a] > 0

\* A promise fits into the residual capacity from the moment it is made until it
\* has become flow.
PromiseInv ==
  /\ pc = "high" =>
       \A k \in 1 .. level : \A a \in levels[k] :
         k < level \/ work[a] = "finished" => p[a] <= Residual(g, flow, a)
  /\ pc = "low" =>
       \A a \in LevelEdgeSet : remaining[a] <= p[a] /\ p[a] <= Residual(g, flow, a)
  /\ pc = "erosion" =>
       \A a \in LevelEdgeSet : remaining[a] <= Residual(g, flow, a)

\* Types, feasibility and what makes them inductive under every interleaving.
IInv ==
  /\ TypeOK
  /\ FlowIsFeasible
  /\ LevelInv
  /\ WorkInv
  /\ AttemptInv
  /\ PromiseInv

\* The sink lies behind the last level, the source and no other node before the first.
RouteInv ==
  pc \in Phase =>
    /\ dist[g.sink] = Len(levels)
    /\ \A x \in Nodes(g) : dist[x] = 0 <=> x = g.source

\* Water at a node has come over an edge of the node's level; in a high tide over one
\* that will not promise again, in a low tide, until its level is run, over one that
\* still has all of its promise.
SupplyInv ==
  /\ pc = "high" =>
       \A x \in Nodes(g) \ {g.source} : h[x] > 0 =>
         /\ dist[x] \in 1 .. level
         /\ \E a \in levels[dist[x]] :
              /\ g.dst[a] = x
              /\ dist[x] < level \/ work[a] = "finished"
              /\ p[a] > 0 /\ h[g.src[a]] > 0
  /\ pc = "low" =>
       \A x \in Nodes(g) : h[x] > 0 /\ dist[x] \in 1 .. (level - 1) =>
         \E a \in levels[dist[x]] :
           g.dst[a] = x /\ remaining[a] > 0 /\ h[g.src[a]] > 0

\* A demand is made only where there is water, and a tail is never asked for less
\* than what a worker has read.
DemandInv ==
  pc = "low" =>
    /\ \A x \in Nodes(g) : l[x] > 0 => h[x] > 0
    /\ \A a \in Edges(g) :
         /\ work[a] \in {"readTail", "casHead", "casTail", "restore"} => h[g.dst[a]] > 0
         /\ work[a] \in {"casHead", "casTail", "restore"} => seenTail[a] <= l[g.src[a]]

HasArrived == \E x \in Nodes(g) : dist[x] = level - 1 /\ l[x] > 0

\* The worker will succeed, or another one has.
HoldsDemand(a) == work[a] = "casTail"

SeesDemand(a) ==
  /\ work[a] \in {"loop", "readTail", "casHead"}
  /\ l[g.dst[a]] > 0 /\ remaining[a] > 0 /\ h[g.src[a]] > 0

\* The demand is handed from level to level: a tail has some of it, or a worker does,
\* or one that will not give up still finds it.
HandoverInv ==
  pc = "low" => HasArrived \/ \E a \in levels[level] : HoldsDemand(a) \/ SeesDemand(a)

TideInv == IInv /\ RouteInv /\ SupplyInv /\ DemandInv /\ HandoverInv

\* In a high tide water flows on over every edge that is not full.
RisenInv ==
  pc = "high" =>
    /\ h[g.source] > 0
    /\ \A k \in 1 .. level : \A a \in levels[k] :
         (k < level \/ work[a] = "finished") /\ Residual(g, flow, a) > 0 /\ h[g.src[a]] > 0
           => h[g.dst[a]] > 0

\* A worker of the low tide leaves nothing of its promise behind.
PullInv ==
  pc = "low" =>
    \A k \in level .. Len(levels) : \A a \in levels[k] :
      k > level \/ work[a] = "finished" => remaining[a] = 0

\* In the erosion a worker stops only behind a dry node or an empty promise, and every
\* node but the sink has promises left for what waits there and what is promised to it.
DrainInv ==
  pc = "erosion" =>
    /\ l[g.source] > 0
    /\ \A k \in 1 .. (level - 1) : \A a \in levels[k] : h[g.src[a]] = 0
    /\ \A a \in levels[level] : work[a] = "finished" => remaining[a] = 0 \/ h[g.src[a]] = 0
    /\ \A x \in Nodes(g) \ {g.sink} :
         h[x] + SumOver(InHands, From(x)) + SumOver(remaining, Into(x))
           <= SumOver(remaining, From(x))

\* The balances of the nodes, and what keeps them and makes every cycle count.
CycleInv ==
  /\ TideInv
  /\ pc = "alloc" => maxFlow = 0
  /\ RisenInv
  /\ PullInv
  /\ DrainInv
  /\ MassBalance
  /\ DemandIsKept
  /\ ZeroCycleMeansBlocked

-------------------------------------------------------------------------------
(* The abstract view: a cycle counts when the driver adds it.              *)

Eroded(a) ==
  IF a \in LevelEdgeSet /\ (pc = "erosion" \/ (pc = "returned" /\ sent > 0))
  THEN p[a] - remaining[a]
  ELSE 0

CommittedFlow == [a \in Edges(g) |-> flow[a] - Eroded(a) + Eroded(g.rev[a])]

Status == IF Running THEN "running" ELSE pc

Abstract == INSTANCE MaxFlow WITH flow <- CommittedFlow, value <- maxFlow, status <- Status

\* Whatever the interleaving, a tide cycle is an augmentation of MaxFlow.
ImplementsMaxFlow == Abstract!Spec

===============================================================================
