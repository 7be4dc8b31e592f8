# TLA+ models of tidal flow

The repository implements *tidal flow*, a maximum-flow algorithm, several times: four sequential
variants in C, a parallel one with OpenMP and two with CUDA, together with a loader for graph files,
programs that compare them with other solvers, and copies of those solvers. This directory holds
TLA+ modules translated from that code, TLC configurations that check them on small networks, and
TLAPS proofs about them for networks of any size.

All paths below are relative to `src/`; `T/` stands for `algorithm/tidalflow/`.

## The algorithm

A solver alternates two things until the sink is out of reach of the residual graph:

* **build the level graph**: a breadth-first search over residual edges, level by level, which
  records every residual edge from one level to the next and stops after the level that meets the
  sink; some variants then remove edges that do not lead to the sink;
* **run tide cycles** on it. A *high tide* goes forward: every level edge is promised
  `min(residual, h[u])`, and `h[v]` grows by the promise; a node may promise the same water to several
  edges. A *low tide* goes backward: the sink asks for all it was promised and every edge pulls back
  `min(p, h[u] - l[u], l[v])`. The *erosion* goes forward again and turns what was pulled back into
  flow, `min(p, h[u])` per edge, writing `flow[e]` and `flow[rev[e]]`.

## Inventory

| component | source | state it keeps | operations | hard behaviour |
|---|---|---|---|---|
| graph and loader | `T/graph.c`, `T/graph.h` | CSR arrays `ver src dst rev capacity flow`; while building, a hash table of edge chains | read a file; strict build (pair existing reverse edges), residual build (add them), AUTO | probing without a bound of its own, greedy pairing, parallel edges, self-loops, fall-back after a partial build |
| sequential baseline | `T/tidalFlowSeq_BASELINE.c` | `flow[]`, `dist queue levelEdges h p l` | search, one tide cycle, repeat | promises that exceed what arrives; water stranded at a node; termination |
| sequential blocking | `T/tidalFlowSeq_BLOCKING.c` | the same | search, tide cycles until one returns 0 | is a level graph blocked when a cycle returns 0? |
| sequential pruning | `T/tidalFlowSeq_PRUNING.c` | plus `reach` | plus backward pass and in-place compaction | order of the backward pass; compaction of an array that is being read |
| sequential combined | `T/tidalFlowSeq_COMBINED.c` | the same | high tide inside the search, pruning moves promises, low tide, erosion | values computed before the structure they are used with is complete |
| OpenMP solver | `T/tidalFlowOpenMP.c` | shared arrays, thread-local buffers | parallel search with claims and prefix sums, parallel pruning, parallel tides with compare-and-swap | every interleaving of the threads of a level; two-word updates undone on failure; reuse of buffers |
| CUDA solvers | `T/tidalFlowCUDA.cu`, `T/tidalFlowCUDAPrefix.cu` | device arrays | the same as kernels | as OpenMP; `p[]` in `levelEdges[]`, `reach[]` in `dist[]`; two-pass kernel with block prefix sums |
| statistics | `T/tidalFlowSeqStats.h` | counters, timers | | none: no branch reads them |
| benchmark programs | `benchmarks/runners/*Benchmark.c` | child process, pipe, buffer, `expectedFlow`, status of run and configuration, `failures` | prepare a case; fork, poll, time out, drain, parse; compare flows, print a row | a time-out racing an exit, output behind the end of the child, a full buffer or pipe, a verdict over several runs |
| readers and main programs of the comparison solvers | `benchmarks/runners/common/`, `benchmarks/runners/*Main.c*` | list of arcs, pairs, adjacency lists | read a file, merge arcs, build the lists with mutual indices | parallel and opposite arcs, self-loops, lists that grow while they are gone through; a second reader of the same files |
| push-relabel, highest label | `algorithm/comparison/zagrosss-maxflow/src/lib/algorithms/sequential/push_relabel_highest.h` | edges with capacity and a copy of the mate's, excess and label of a vertex, a list of active and one of inactive vertices per label, the two highest labels in use | saturate, global relabelling, selection, push, relabel, gap relabelling | lists and bounds that every push and relabel has to keep true; a label too high writes off a vertex for good |
| other comparison solvers | `algorithm/comparison/` | | | third-party code |

Interaction: the loader fills a `Graph` and hands it over; a solver reads all of it and writes only
`flow[]`; a benchmark program runs itself or a main program as a child process per solver and run and
reads the value from its output. The solvers never run at the same time and share nothing. The flows of all
solvers are compared, so the readers and builders of the comparison solvers have to make the same network
of a file as the loader does.

What makes each part correct:

* loader: `rev[]` is an involution between slots of opposite direction, the slots of a node are
  consecutive, the network that comes out has the cuts of the file, a file that can be paired is
  paired, and the build returns;
* every solver: the flow is feasible at all times, conserved between cycles, the value returned is that
  of the flow and of a minimum cut, nothing is written past the end of a buffer, and the call returns;
* tide cycle: nothing strands at an inner node, and a cycle that sends nothing means that the level
  graph is blocked;
* builder: exactly the residual edges between consecutive levels, after pruning exactly those on
  shortest augmenting paths;
* parallel versions: the same under every interleaving, with no demand lost or counted twice;
* push-relabel: the value at the sink is that of a minimum cut, although vertices are written off by gaps in
  the labels and by a search that reads copies of the capacities, and the call returns;
* benchmark programs: a run counts as a success exactly if its child ended well in time, its flow is the one
  the child printed, no process is left behind or signalled twice, and rows and exit code are the verdict
  on all runs;
* readers and builders: the same cases, capacities and cuts for every solver.

## Modules

| module | models | |
|---|---|---|
| `FlowNetwork` | `struct Graph` after a build, with the source and the sink of a call (a *case*), and the reference definitions: residual edges, distances, feasible flows, minimum cut by enumeration, shortest-path edges | operators |
| `SolverCalls` | the cases a solver is called with | parameters `Cases`, `LLongMax` |
| `Ints` | the width of an int | parameter `IntMax` |
| `Sums` | sums of a function over a finite set | operator |
| `MaxFlow` | what a solver promises its caller | abstract specification |
| `TidalSeq` | the state and the loops the four sequential files share text for text | properties and inductive invariant |
| `TidalBaseline`, `TidalBlocking`, `TidalPruning`, `TidalCombined` | each file, as the combination of those loops, with what is its own | specifications |
| `TidalOpenMP` | tide cycles and driver of the OpenMP solver | properties and inductive invariant |
| `OmpLevelGraph` | one call of its level-graph builder | properties |
| `CudaLevelGraph` | what the CUDA builders share: the host's loop, backward pass, compaction | properties |
| `CudaAtomicKernel` | the search kernel of `T/tidalFlowCUDA.cu` on top of it | specification |
| `CudaPrefixKernel` | the two-pass search kernel of `T/tidalFlowCUDAPrefix.cu` on top of it | specification, parameter `BLOCK_SIZE` |
| `TidalCUDA` | tide cycles and driver of both CUDA solvers, as `TidalOpenMP` with another end of the low tide | specification |
| `EclFile` | what an ECL file holds, and which files each of its three readers accepts | operators |
| `GraphBuild` | `buildGraphFromECLFileWithMode`, on top of it | |
| `ComparisonGraphs` | `prepareCase`, `readEgrMaxFlow` and `buildGraph` of three comparison programs, on top of it | |
| `BenchmarkChild` | `runProgram` and `parseRunOutput`, with the child, the kernel and the clock | actions |
| `Benchmark` | `runBenchmark`, whose runs are calls of `BenchmarkChild` | specification and properties |
| `NetworkCases` | the networks TLC is given | |
| `MC*` | one instance per specification | |
| `PushRelabelHighest` | the constructor, `init()` and `find_max_flow()` of the comparison solver | specification, properties and inductive invariant |
| `FlowNetworkProofs` | least numbers and sets, sums over finite sets, cuts, balls and distances, co-reachability: what the operators of `FlowNetwork` compute | lemmas, two theorems |
| `TidalSeqProofs` | each loop keeps `IInv`, `LevelGraphInv`, `MassInv` and `TidesInv`; the refinement of `MaxFlow`, the invariants of the four solvers and what follows from them | theorems |
| `TidalParallelProofs` | types, promises, demand and the absence of data races, step by step of the master and of a worker; balances, deliveries, blocked level graphs and the refinement of `MaxFlow` for the OpenMP tides, and what of this carries over to the CUDA tides | theorems |
| `OmpLevelGraphProofs` | the inductive invariant of the builder, each action keeps it; the frontier, the result and the buffers | theorems |
| `BenchmarkProofs` | inductive invariant of the benchmark program, lemmas per part, theorems | |
| `GraphBuildProofs` | inductive invariant of the loader, lemmas per action, theorems | |
| `PushRelabelProofs` | each action of the push-relabel solver keeps `PreflowInv`; its result is a minimum cut | theorems |
| `ComparisonProofs` | inductive invariant of the readers and builders, lemmas per action, theorems | |

A definition named `X_Y` is a mutant: definition `X` with the mistake `Y`, used by nothing. Putting it
in the place of `X` makes TLC report the property it belongs to (`mutants` in `PROJECT.json`).

### Correspondence

*Sequential solvers.* The C variables keep their names (`dist`, `queue`, `head`, `levelEnd`, `u`, `e`,
`levelEdges`, `idx`, `write`, `h`, `p`, `l`, `maxFlow`); `pc` is the loop the call is in. An array with
its length (`queue` with `tail`, `levelEdges` with `levelEdgeCount`) is a sequence, positions count
from 1 there, `reach` is a set of nodes, `sent` the value a cycle returned. One action is one iteration
of a loop or the straight-line code next to it, so the invariants hold between iterations, not only
between cycles. The four files contain the same text for the shared loops; `map` names the copy each
definition was translated from. Timing and counters are left out. A failed allocation ends the call
with -1.

*OpenMP tides.* A worker is one iteration of an `omp parallel for`, named by its level edge; `work[a]`
is the place it has reached. Each atomic read, compare-and-swap and atomic update is an action of its
own. All iterations of a level may be under way at once: this contains the behaviours of every number
of threads and every schedule. What is not atomic in the code is placed with an atomic step only where
no other worker of the loop touches the same cell: `h[u]` in a high tide is written in the level before
only, and both `flow[]` slots of an edge belong to its worker, as no level holds an edge and its reverse.
The implicit barrier is the action that starts the next level. The level graph is taken in one step
as the set `OmpLevelGraph` shows to be its result.

*OpenMP level graph.* `NumThreads` threads, the master's loops, local buffers per thread. A thread takes
a frontier position, looks at slots one at a time, reads `dist`, claims by compare-and-swap,
rereads after a lost claim, publishes its counts, waits for the barrier and copies. `untaken` holds the
positions of the frontier that no thread has begun; any thread in the loop may take any of them next. A thread may
also be through the loop and publish while positions are left, as `nowait` allows, if another thread is still
in the loop. So every way to deal the iterations to the threads, and every order in which the threads
begin theirs, is a behaviour: the blocks of `schedule(static)`, each begun at once by its own thread, and
positions handed out on demand. The iterations of the loops after the search are
one action each: they write nothing that another iteration of the same level reads, and
`omp atomic capture` hands out positions in the order in which they run.

*CUDA level graph.* A thread of the search is a position of the frontier; its reads of `flow[]`, which does
not change during a search, are part of its next step, and each compare-and-swap, `atomicAdd` and store
to a shared array is an action. The end of a launch is the action of the host that starts the next one. `d_reach`
is `d_dist`, as in the call, so the variable `dist` changes its meaning when the backward pass starts, and
`levelEdges` starts with stale promises, as `d_p` is the same array. In the two-pass kernel the block sums
and the range of an array are taken by one thread per block, in two actions; only blocks of one launch
can be in different passes. Reading `dist[v]` and `edgeThatDiscoveredVertex[v]` in the second pass is one
action: the first is final for any edge of the thread's own node, and the second can only equal `e` if the
same thread wrote it.

*CUDA tides.* The kernels are the parallel loops of `TidalOpenMP` with a device thread per level edge, and
their text follows it step by step; `TidalCUDA` therefore extends that module and replaces what differs: the
host also returns behind an empty low tide (`T/tidalFlowCUDA.cu:158`). `flow[]` stands for `d_flow`, which
is never copied back into the graph; only the value is returned. Calls of the CUDA library are taken to
succeed, the code does not check them.

*Loader.* A file is the sequence of ints it holds. `hashKey` is any function from keys to a small set of
hash values, so that every pattern of collisions occurs; a bucket without a key has `NoKey`, an unused
cell -1. The capacities are those of the file (`abs`, which leaves `INT_MIN` alone) or, if the file has
none, anything `rand() % n` can return.

*Benchmark programs.* The three programs contain the same `runProgram` and the same loops; a configuration is a
solver, a solver with a number of threads, or a solver with a block size, and stands for one row of
the summary. Each call to the kernel is an action of the parent (`pipe`, `fork`, `close`, `poll`, `read`,
`waitpid`, the look at the clock, `kill`, the blocking `waitpid`, the reads of the last loop). Between any two
of them the child may exec, write a line or end, a signal already sent may arrive, and time may pass.
`pipe` and `fork` may fail, and so may the allocation of the timings; a failed `execv` is a child that prints
a message and ends with a failure. `child` is the child as the kernel sees it: none, forked but still with both
ends of the pipe, running, a zombie, reaped. `readers` and `writers` are the processes that hold an end
of the pipe. The pipe keeps its history: `written` lines were written, the first `used` of them are in
`result->output`, and what lies between is in the pipe. A read takes all that is there and fits. The unit of all
sizes is a line, so a line the buffer cuts in two is not distinguished from one that is lost. A
program, in the sense of the model, is the lines a child wants to print, the flow it found, and how it ends:
with status 0, another status, a signal, or never. `log`, `flows` and `clean` are history variables.

*Readers and builders.* One action is one pass of a loop: an arc read, an arc merged, a pair turned into
slots, a slot of the second pass of `pushRelabelPprMain.cpp`. The hash maps of the pairs are a search in the
list of pairs, of which each key has at most one. Between the passes of PPR the field `rev` holds the place of a
capacity, as `reverse_edge_index` does in the code. Arithmetic is that of `long long`, wide enough for
these sums.

*Push-relabel.* A slot is an edge of the code's adjacency lists, `rev` its `reverse_edge_index`; an edge keeps a
copy of the capacity of its mate, which the distance search reads, so both copies are variables. The lists of
vertices are sets and any member may be popped, which contains the order of the code. A push is an action,
and so is a relabel with the gap relabelling it may end in. The work counter that triggers a
global relabelling stops at its threshold, it is only compared with it. `init()` assigns the excess instead of
adding, so `MergedAssumption` says what the main program guarantees (`addArc` of `pushRelabelHighestMain.cpp`):
arcs with the same ends are merged, and a loop, which is found again under its forward key, has all its
capacity in the first of its two slots. Loops are kept, at the source and the sink too, and `build()` gives both slots of
a loop the index of the first one (`Mate`): the first slot is its own mate. No push goes along a loop, as its ends
have the same label, but `init()` fills every edge of the source: of a loop with capacity c at the source it leaves two
empty slots, and c as the second one's copy of its mate. That water is lost and that copy is wrong, so
`ExcessIsInflow` and `CopiesAgree` leave out the loops of the source. Neither is read again, as the source is neither discharged nor met
by a distance search, and the result is right.

## Runs

| run | networks | asks |
|---|---|---|
| `baseline` | `Diamonds(0..2)`, `Detours`, `Overpromises`, `Streets` (267 in all) | is every result the value of a minimum cut (`ResultIsMaxFlow`), does no cycle strand water, is each search right (`BuildsLevelGraph`) |
| `blocking` | the same | does a cycle that sends nothing mean blocked (`ZeroCycleMeansBlocked`), does the distance of the sink grow from phase to phase, does the call return, does the final state hold a saturated cut |
| `pruning` | the same | is the compacted level graph exactly the edges of shortest augmenting paths (`PruningIsExact`); does the invariant of the proofs hold, balances, distances and tides included (`SolverInv`) |
| `combined` | the same | are promises made early still right when they are used (`HighTideIsCurrent`), is each cycle an augmentation (`ImplementsMaxFlow`); does the invariant of the proofs hold (`CombinedInv`) |
| `openmp` | `Contended(1..3)`, `Parallel(1..3)`, `Diamonds({1,2})`, `Overpromises`, `Streets` | under every interleaving: does the invariant of the proofs hold (`CycleInv`), does all that was asked of the source arrive, does a zero cycle mean blocked, do retries end, is each cycle an augmentation |
| `openmp_levels` | `Fan({1})`, `Diamonds({0,1})`, `Streets({2})`, `Wide`, 3 threads (403368 states) | is the frontier a level, is the result exact, are the reused buffers long enough, does the call return |
| `cuda_levels` | `Fan({0,1})`, `Diamonds({0,1})`, `Streets({1,2})`, both programs, blocks of two threads (32174 states) | is the result exact, whatever the order of claims and atomic additions, although blocks are in different passes, with `reach[]` stored over `dist[]` |
| `cuda` | `Contended({1,3})`, `Parallel({1,2})`, `Overpromises`, `Streets` | does a high tide that reached the sink always get to the source (`LowTideReachesSource`) |
| `build` | all graphs with two nodes and up to four edges, graphs with three nodes, files without weights, damaged files; every hash into {0, 7}; all modes | is the built graph what `FlowNetwork` assumes (pairs are mutual, slots consecutive), are cuts kept, is a file rejected only if it cannot be paired, does the call return |
| `comparison` | the same kinds of files, sources and sinks in and out of range, all three builders | do the finished lists have the cuts of the file (`BuildersKeepCuts`), do a slot and its mate point at each other (`MatesAreMutual`), do all readers see the same network (`ReadersAgree`) |
| `benchmark` | 2 cases, 2 configurations, 2 runs; 8 programs (three good ones, one that hangs, one that crashes behind its result, one that fails, two that print more than fits); a buffer of three lines, a pipe of one | is no process or pipe left (`ChildIsReaped`), are success and time-out what happened (`OutcomeIsTrue`), is output kept (`OutputIsKept`), are rows and exit code true (`RowsAreHonest`, `ExitCodeIsVerdict`), does the program end (`BenchmarkEnds`) |
| `push_relabel` | `Diamonds(0..2)`, `Detours({1,2})`, `Merged(0..2)`, `Lakes(3..5)` (287 in all) | is the result the capacity of a minimum cut (`ResultIsMinCut`), do copies, labels, excesses and lists stay true between any two steps (`PreflowInv`), does the call return; all with loops at the source, the sink and between them in `Merged` |

Why these bounds show something. `Diamonds` with all capacities in 0..2 contains saturated, missing and
bypassed edges and needs flow to be undone through the crossing edge. `Detours` needs a second phase that
undoes flow of the first on a longer path. In `Overpromises` two parallel edges promise the same
water, so the high tide of an inner node is more than it can get, the low tide leaves a demand unmet and one
cycle does not block the level graph. `Streets` is a strict build: both directions have capacity, parallel
edges are paired across each other, there is a self-loop, a dead end, edges into the source and out of
the sink. `Contended` and `Parallel` let workers fail at either of the two compare-and-swaps and put
demand back. In `Fan` three threads race for nodes of the next level while edges within the level
and back to the source are seen; with blocks of two threads its
level of three nodes is two blocks, so one writes while the other claims. The first level of `Wide`
has four nodes for three threads, so some thread scans a second one while others claim, or have left
the loop. `Lakes` strand water behind
an edge that is too narrow, so it goes back and forth between two vertices, one label higher each time, until they
are written off; gaps open, and the work counter reaches the threshold of a global relabelling; `Merged` are graphs as the main program makes them:
pairs with capacity both ways, and loops at the source, the sink and between them, whose second slot is empty. `IntMax` and `LLongMax` are small numbers above every capacity; they
matter only as bounds the residuals and the tides must not cross. In `benchmark` two runs are enough for a
configuration whose first run fails and whose second one does not, and two configurations for a flow that
differs from that of another solver; a pipe of one line blocks every child that prints more than the buffer
holds, until it is killed; `clock` stops one tick after the limit, as only the comparison with the limit is ever
made. `IntMax` = 1 makes a flow of 3 wrap around to -1 as an int. Nothing else is bounded: the
state spaces are finite and explored completely. Deadlock is not checked because every call
stops when it returns; that it does return is a property of its own.

### Fairness

Every specification but those of the benchmark program and of `ComparisonGraphs` is one call of a solver or
of the loader. `WF_vars(Next)` (in `PushRelabelHighest` too) says that the call keeps running as long as it can,
which any scheduler grants a process it does not kill. In the parallel modules this is still the only
assumption: no fairness between threads or workers. `Terminates` of `TidalOpenMP` is therefore
lock-freedom, whichever workers the scheduler prefers, some compare-and-swap succeeds often enough
that the level ends.

The benchmark program needs three assumptions: the parent takes its steps (`WF_vars(Driver \/ ParentStep)`), a
signal that was sent arrives (`WF_vars(DieStep)`; SIGKILL cannot be blocked), and time passes
(`WF_vars(TickStep)`). Nothing is assumed of a child: it may hang at any point, also before its `execv`.
`BenchmarkEnds` holds all the same, because the poll has a time-out and every wait without one is for a
process that is dead or has been sent its signal. `ComparisonGraphs` is checked for safety only.

## Abstract specification

`MaxFlow` replaces the flow by a flow of larger value (`Augment`), may finish only if no augmenting path is
left, and may fail before it has started. The refinement mapping shows a solver without the
cycle it is in the middle of: `flow <- CommittedFlow`, the flow minus what the running erosion has
already written, `value <- maxFlow`, `status` from `pc`. The step that refines `Augment` is the driver's
addition; everything before it stutters. `ImplementsMaxFlow` checks that conservation and value are
right at every addition. In `TidalOpenMP` the same mapping subtracts what the workers have
delivered so far. TLC checks it for the combined solver and for the OpenMP tides; that all four sequential
solvers, the OpenMP tides and the CUDA tides implement `MaxFlow` is proved.

## Proofs

All theorems hold for every set of cases: any number of nodes and edges, any capacities, any order of the
steps of threads, workers and processes.

| module | proves, as theorems of the specification |
|---|---|
| `TidalSeqProofs` | `SolverInv` (baseline, blocking, pruning) and `CombinedInv`; from them, for each of the four: `TypeOK`, `FlowIsFeasible`, `BuffersSuffice`, `ResidualFitsInt`, `LowTideBound`, `TidesFitLongLong`, `ErosionDelivers`, `ZeroCycleMeansBlocked`, `CutCertificate`, `ResultIsMaxFlow`, `BuildsLevelGraph`, `ImplementsMaxFlow`; `PhasesLengthen` for the two that repeat cycles, `PruningIsExact` for the two that prune, `HighTideIsCurrent` for the combined one |
| `TidalParallelProofs` | `TideInv`, `CycleInv`; `TypeOK`, `FlowIsFeasible`, `ResidualFitsInt`, `NoDataRace`, `LowTideReachesSource`, `ErosionDelivers`, `ZeroCycleMeansBlocked`, `ResultIsMaxFlow`, `ImplementsMaxFlow`; that every run of the CUDA tides is one of `TidalOpenMP`, and with it the same for CUDA |
| `OmpLevelGraphProofs` | `BuilderInv`; `FrontierIsLevel`, `LevelGraphIsExact`, `BuffersSuffice` |
| `BenchmarkProofs` | `ChildIsReaped`, `OutcomeIsTrue`, `OutputIsKept`, `ExitCodeIsVerdict`, `RowsAreHonest` |
| `GraphBuildProofs` | `BuildInv`; `BuiltGraphIsSound`, `KeepsCuts`; `ExactInv`; `StrictIsExact` |
| `PushRelabelProofs` | `PreflowInv`; `ResultIsMinCut` |
| `ComparisonProofs` | `ReadersAgree`; `BuildersKeepCuts`, `MatesAreMutual` |

Assumptions: `CasesAssumption` (every case is a sound graph: indexed, paired, two different end
nodes, capacities in 0..`IntMax`, and the two capacities of a pair add up to at most `IntMax`),
`IntAssumption` and `WidthsAssumption` (`IntMax` is positive and at most `LLongMax`), and `SlotsAssumption` (`edgeCount * IntMax <= LLongMax`; the number of slots is an int as
well, and a long long holds the product of two ints); `ThreadsAssumption` (there is a thread) for the level-graph builder;
for push-relabel `MergedAssumption`, merged arcs and loops whose second slot has no capacity, which `addArc` sees to:
`Merge` of `ComparisonGraphs` is that function, and what it makes of parallel arcs and loops is not proved to be
`MergedAssumption` but read off its two look-ups. That the loader delivers indexed and paired graphs is
what `BuildReturnsSoundGraph` proves. That the capacities of a pair add up to an int holds for a residual build, where one
is 0; for a strict build it is an assumption on the file that no line of the code checks. Of the files
the loader and the readers are given, they assume that the values are ints (`BuildAssumption`, `ComparisonAssumption`).

### Sums and networks (`FlowNetworkProofs`)

The library states induction with an operator parameter, which the provers cannot instantiate.
`SetInduction` and `LeastNumber` do without: a property is the *set* of the subsets or numbers that have
it, and a least counterexample is refuted by well-foundedness. `SumOver` is a fold over a finite set;
its terms are added, removed, renamed and compared by `SumInsert`, `SumRemove`, `SumUpdate`, `SumMonotonic`,
`SumBounded` and others. On this rest

* cuts: the value of a flow crosses every cut (`ValueCrossesCut`), so a flow that fills one is maximal and
  its value is `MinCut` (`FilledCutIsMinimal`, `NoPathIsMinCut`);
* distances: the balls around the source grow until they close, so n of them are enough (`SpreadCloses`,
  `BallDistance`), `Distances` is what a breadth-first search computes (`DistanceFacts`), and labels that start
  at the source, drop by one over some residual edge and rise by at most one over every residual edge below
  level k are the distances up to k (`LabelsAreDistances`);
* co-reachability: `CoReach` is the least set with the sink that is closed backwards (`CoReachIsLeast`), and a
  level graph that is blocked while no residual edge skips a level means a farther sink
  (`BlockedMeansLonger`).

### Sequential solvers (`TidalSeqProofs`)

The inductive invariant is `SolverInv == IInv /\ LevelGraphInv /\ MassInv /\ TidesInv`. There is one lemma per
action and part; a theorem of a solver only says which of the shared actions the file uses.

`IInv` is about types, indices and promises. Feasibility of the flow needs that a promise never exceeds the
residual capacity *at the time it is used* (`PromiseInv`), and an erosion changes two slots, so it also needs
that no level edge is the reverse of another one: `LevelInv`, every level edge leads from a
level to the next, excludes it. That an edge is eroded only once needs `NoRepeatInv`, which comes from
the search scanning each slot of each queued node once (`QueueInv`, `ScanInv`); the same parts
bound the two buffers, by the pigeonhole principle over node and slot numbers. `LowTideBound` needs that a
level edge does not start where it ends. `CutInv` states what the search has established for
scanned nodes and becomes the cut when the queue is empty. A pruning solver also returns when
nothing is left after the compaction; to show that this never happens after the sink was met,
`OrderInv` (edges are recorded in the order of their levels), `FrontierInv`, `ReachInv` and `KeptInv`
follow the backward pass to the source.

`LevelGraphInv` says that the labels are distances. During the search, `DepthInv` (the queue is one level and
part of the next, and only the next can hold the sink) and `ScannedInv` (a scanned residual slot leads at
most one level on and is recorded if it does) are what `LabelsAreDistances` needs when the search ends
(`SearchResult`): the sink is labelled with its distance and the recorded edges are `LevelEdges`. `MarkedInv`
follows the backward pass from below, `ReachInv` from above, to `CoReach`; so the compaction leaves
`ShortestPathEdges` (`PrunedIsExact`). `LabelInv` keeps, through all cycles, that no residual edge skips a
level, although erosions make new ones: they lead one level back. When a cycle has found the level graph
blocked, `BlockedMeansLonger` gives `PhasesLengthen`.

`MassInv` is about what the tides carry, in sums over positions of `levelEdges[]`. `SortedInv` makes each pass
see the edges of a node's level together. `RisenInv`: although `h[]` of a node is read while others still
rise, every promise is what it would be at the end. In the low tide `Demanded` says where each demand comes
from, `Supplied` that an edge with a promise has suppliers before it, and `Answerable` that some demand can
always be answered by an edge still to come, so a tide that reached the sink gets back to the source and the
cycle sends something. `ErosionInv`: what waits at a node or will arrive fits through the promises still to
be eroded, hence nothing strands (`ErosionDelivers`). `BlockedInv` keeps the high tide of a cycle that sent
nothing as the witness that the level graph is blocked. `ConservationInv` makes the flow that the driver has
added a flow of value `maxFlow`; at the end `CutInv` has filled a cut, and `ResultIsMaxFlow` follows.

`TidesInv` bounds the tides: the high tide of a node is at most the capacity of its slots, and an erosion
only moves what was taken out of the source. This is where `SlotsAssumption` is used, and why it matters
that no level edge enters the source, which starts with `LLONG_MAX`.

`CombinedInv == SolverInv /\ PrunedInv /\ CurrentInv` adds that the promises the search has made are current
from then on (`Risen` at all nodes), that a compaction only drops edges into unmarked nodes, and that they
stay current at the marked nodes when promises move along (`HighTideIsCurrent`).

### Parallel tides (`TidalParallelProofs`)

A worker computes with values it read earlier, so the invariant has to say what is still true of
them. `AttemptInv`: what was read at the head was positive, some promise was left, and at the tail
there was room; `h[u]` does not change during a low tide, and the compare-and-swap at the head succeeds
only while `l[v]` is what was read, so neither subtraction goes below zero, whatever others do in
between. `PromiseInv` follows a promise through the three loops: it fits the residual capacity once its
worker has finished, in the low tide its rest is no more than itself, in the erosion the rest fits what is
left of the residual capacity after each delivery. `LevelInv` again keeps a slot and its reverse from
both being level edges, and `WorkInv` ties a worker to the running level. `NoDataRace`, on which the placing of
the accesses that are not atomic rests, follows: within a level no tail is a head, and no two workers share a
slot of `flow[]`. A step of a worker changes only its own locals, so `LowTideStepKeeps` and `ErosionStepKeeps`
settle the other workers once for all steps.

A thread of the low tide gives up when it finds no demand at its head, even if another thread holds that
demand and puts it back a moment later; so it is not obvious that any demand survives a level. `HandoverInv`
says it does: some tail of the running level has got demand, or a thread is about to raise one, or a thread
that will not give up still finds a demand, promise and water. A thread that gives up for lack of room has
found the tail raised; a second compare-and-swap fails only if another thread has raised the tail since
(`DemandInv`: what was read there is never more than what is there). `SupplyInv` finds the next level such
a thread: water at a node came over an edge whose promise is not used up. Hence `LowTideReachesSource`,
without counting anything.

`CycleInv` counts. `MassBalance` and `DemandIsKept` are sums over nodes, edges and the workers that hold a
part in their locals: between the two words of an undone compare-and-swap the demand is in the worker's
hands, not lost. `PullInv` says that a worker of the low tide leaves nothing of its promise behind,
`DrainInv` that in an erosion every node has promises left for what waits there, is promised to it, or is held
by a worker on the way to it; behind the last level nothing is left but at the sink (`ErosionDelivers`).
`RisenInv` gives `ZeroCycleMeansBlocked`. Each step of a worker maps to a stutter of `MaxFlow` and the
driver's addition to `Augment` (`NextIsAbstract`); a call ends only when no augmenting path is left
(`NoPathIsLeft`), and then a balanced flow is as large as a minimum cut (`NoPathIsMinCut`).

For CUDA, `LowTideReachesSource` makes the early return of the host dead code (`NoEarlyReturn`); every step
is then a step of `TidalOpenMP` and the theorems carry over.

### Parallel level-graph builder (`OmpLevelGraphProofs`)

`BuilderInv` holds for any number of threads, frontiers of any size, any distribution of the frontier over the
threads and every order in which they begin their positions, read, claim, publish and copy. `Pending` are the nodes at
positions not begun. A thread that publishes early leaves positions to others; `CopyInv` says that some thread
is in the loop as long as there are any, so none is left when all threads wait at the barrier.

*Search.* `LabelInv` says what the labels are before a level is complete: they start at the source, drop by
one over some residual edge, and no residual edge of a finished level leads further than one level on. Nothing
else about distances is carried along; when the search ends, `LabelsAreDistances` turns it into distances
(`SearchResult`). `ClaimInv`: the nodes of the next level are partitioned among the local buffers of the
threads, which is what the compare-and-swap in `dist[]` is for; a node has one owner because the claim and
the label are one word. `RecordInv` is about slots: `Ahead` are the slots of nodes that are still in the
frontier and those a thread has not yet come to; every residual slot that is not ahead has an end with a label,
and is in exactly one thread's buffer if that label is the next level. A thread that lost a claim records its slot
after the reread, which is why the slot stays ahead until then. When every thread waits at the barrier,
nothing is ahead.

*Copies.* As finds are disjoint, the sum of their lengths is the number of nodes of the level or slots between two
levels, so the ends computed from the prefix sums lie within the buffers (`BuffersSuffice`), and the copies lie
behind one another and cover the range without a gap (`Gathered`, by induction over threads). `CopyInv` follows
the copies while other threads are still copying; the old frontier is dead by then, which is why it can be
written over. `LevelsInv` keeps the finished levels in `levelEdges[]`; that levels are disjoint and hold
slots of the graph bounds their sum by `edgeCount` (`LevelsHold`, `HoldsCount`), and `LabelInv`, by which no level
is empty, bounds the number of levels by `nodeCount`.

*Pruning and compaction.* `PruneInv` encloses `reach` between what has to be in it, level by level from the sink
and slot by slot within a level, and `Live`, which is `CoReach` of the level edges; `CoReachIsLeast` makes
them equal when the pass is over. `CompactInv`: a level in `compactLevelEdges[]` holds the slots of shortest
augmenting paths, in the order in which the captures ran; the old index is in `global[]` by then, and entries of
`levelVer[]` that are not rewritten yet are still those of the old one. A shortest path is never cut by the
compaction (`PathIsCompacted`), hence `LevelGraphIsExact`.

`BuilderInv` was checked by TLC for two threads before it was proved; enumerating the shortest-path edges
in every state makes it too slow to be part of run `openmp_levels`, which checks the three properties that
follow from it for three threads.

### Loader (`GraphBuildProofs`)

`BuildInv` holds for every set of files and every hash function. While a strict build is under way,
`ChainsAreTrue` says that all edges of a chain have the ends that are the key of its bucket; a candidate that
the walk meets is therefore an edge of opposite direction whatever collided in the table, and `IsStrictGraph`
keeps the slots that are paired so far mutual. Probing needs the table to have a bucket at all: `nextPow2` is a
recursive function, and `DoublingExists` finds the first power of two that is large enough as a least
counterexample. An AUTO build that gives up leaves a graph behind which the residual build replaces entirely.

A residual build counts first and places afterwards. `Taken(x, k)` is the number of slots that the first k
edges need at node x; `DegreeFacts` identifies the counters with it and the index array with its sums, so the
next free slot of a node stays inside its range (`SlotsAreTrue`) until all are used, and the two slots of an edge are
different even if it is a self-loop. `PairsAreTrue` holds for the slots in use; when all are, the graph is
indexed and paired (`BuildReturnsSoundGraph`). `CutsAgree` is an equation between sums for every set of
nodes: a placed edge adds its capacity to the cuts it crosses, its reverse adds 0 (`PlaceKeepsCuts`).

That a strict build is never given up for a file that can be paired (`StrictIsExact`) needs that the
hash table finds what is in it. `ExactInv` says: from the home bucket of a key on, no empty bucket and no
other bucket of the key comes before the one that holds it (`StoredInv`, kept because buckets are only filled);
a probe has passed nothing it was looking for (`ProbeInv`); the chain of a key goes down through all edges of
that key, and a walk along it has left out none that is free and of opposite direction (`WalkInv`). So if a
walk ends, no partner is free. The rest is counting: the pairs made so far are an involution between the edges
of two opposite directions, so when all edges are paired the two numbers agree and those of self-loops are even
(`AllPairedIsBalanced`, `EvenPairs`), and when an edge has no free partner they do not
(`NoneFreeIsUnbalanced`): `IsBalanced` decides.

### Push-relabel (`PushRelabelProofs`)

`PreflowInv` was checked by run `push_relabel` before it was proved; it is inductive as it stands.

* `MateFacts`: the mate of a slot that is no loop is its reverse, and admissible slots are no loops, so what `build()`
  does to loops matters in `init()` only (`IsSourceLoop`).
* `CopiesAgree`, `ExcessIsInflow`: a push changes two slots, the copies of both and two excesses. The excess of a
  vertex is a sum over its slots, so a push in the middle of a scan is an update of one term
  (`PushKeepsNetwork`).
* `LabelsAreValid`: no residual edge leads down by more than one label. A relabelling takes one more than the least
  label over the residual slots (`NewLabelFacts`); `DischargeInv` says that none of the slots already passed is
  admissible, so this is higher than before. A gap lifts every vertex above it to n, and no residual edge
  can lead from there to below it (`GapRelabelStep`).
* `ListsAreTrue`: the two lists of a label are exactly the vertices with that label that have and do not have
  excess, apart from the one that is held; the two bounds leave no list out. The gap heuristic is right only because
  an empty pair of lists means that no vertex has the label.
* `SearchInv`: the global relabelling reads the *copies* while its queue holds two labels at most; when it ends,
  every vertex it has not met has label n, and the labels are valid (`VisitEndStep`).
* `SourceIsDrained`: vertices labelled n are never discharged again, so nothing flows back into the source.

The result is that of a cut. When no vertex is active below label n, there are fewer labelled vertices than labels, so
some label is in use by none; the vertices above it and the source are one side of a cut
without residual edges out of it (`NoneActiveMeansMinCut`). All excess on the other side is at the sink, so what is
there is the capacity of that cut (`ExcessCrossesCut`), and no cut is smaller (`SinkBelowCuts`):
`SolverReturnsMinCut`, although the preflow is never turned into a flow.

### Readers and builders of the comparison programs (`ComparisonProofs`)

`CaseInv` and `ArcsInv` follow a case from the file to the list of arcs: what has been read is what the loader
of the tidal solvers would read (`ArcOf`), so the two reject the same cases, and capacities differ only where the
absolute value does not fit an int (`ComparisonReadersAgree`).

`BuildInv` is about the lists.

* Merging: `PairsDiffer`, no two pairs join the same nodes, makes an arc change one capacity of one pair at most,
  so the pairs have the cuts of the arcs merged so far (`MergeGains`).
* Two slots added at once point at each other although the second index is taken before the first slot is
  there; for a self-loop both indices are the same, so both slots lead to the first (`TwoSlots`). `MatesAreMutual`
  is about slots between two nodes; `PushRelabelHighest` follows what the solver makes of loops.
* The two passes of PPR: the first gives each pair a slot and keeps the number of the pair in it. `IsOwner` is a
  one-to-one map from those slots to the pairs, so the second pass comes to every pair once. It relinks one slot
  and appends its mate to a list which may be the one it is going through; `FormerSlots` and `LaterSlots` say that a
  slot below the former length and one behind it point at each other if the pass has been there, and that the
  others still hold their pair. So nothing the step overwrites is a mate of anything (`AddReverseKeeps`).
* The cuts grow with every slot by what it adds to them (`CutOfAdd`); relinking and caching change no end and
  no capacity (`CutOfSame`).

At the end the pass has been everywhere, so all pairs are counted, in both directions
(`ComparisonBuildersKeepCuts`) and all slots point back (`ComparisonMatesAreMutual`). The existence of an owner
is part of the invariant; TLC checked it with the owner that follows from the order of the pairs.

### Benchmark program

`BenchmarkProofs` proves `Spec => []IInv` for the benchmark program and its calls, for every set of programs a
child may be, every size of buffer and pipe, every time-out and any number of cases, configurations and runs.
`ChildAssumption` says that lines and ends are what a child can print and how it can end, `ReportAssumption`
that a child which ends with success has printed its flow on one line and nothing else that looks like a flow;
`DriverAssumption` that there is at least one run. `CallInv` ties the child and the holders of the pipe
to the place the parent is at: that the write end is closed in the parent before it polls is what makes
the last reads end, and that only `wait` and `reap` collect the child is what makes `kill` meet it.
`OutcomeInv` follows the time-out from the clock over the signal to the result; a child that ended by itself
while the parent was about to signal it still counts as timed out, with `killed` on both sides of the
equivalence. `BufferInv` needs that nothing is written once the child has gone, so the reads behind its end
see everything. `RowInv` relates the four variables of a configuration to the history of its runs; its
delicate part is that `solverStatus` names the *last* failed run while `solverFlow` is that of the
first accepted one. From these follow `ChildIsReaped`, `OutcomeIsTrue`, `OutputIsKept`, `ExitCodeIsVerdict` and
`RowsAreHonest`, the last as an action property.

`OutputIsKept` compares the flow that was parsed with the one the child found. With `ReportAssumption` the
search through the output meets one line only (`OneLineIsParsed`), wherever it stands; ECL-MaxFlow prints an int
that has wrapped around, which the parser undoes (`WrapsAround`). `TidalChild`, `FlowLine` and `EclLine` say
what the solvers print.

Model-checked only:

* liveness (`Terminates`, `BuilderReturns`, `BuildReturns`, `BenchmarkEnds`, `Returns`), out of reach of the
  prover; `PhasesLengthen` and `ErosionDelivers` are the safety half of why the solvers end;
* the level-graph builder of the CUDA solvers (`LevelGraphIsExact` of `CudaLevelGraph`), so the theorems about the
  CUDA tides take the exact level graph that `BuildLevelGraph` of `TidalOpenMP` chooses; for OpenMP it is what
  `LevelGraphExact` proves the builder to deliver (there `flow[]` is zero, but the residual capacities of any flow
  are the capacities of another case, so no generality is lost).

## Not modelled

* The DIMACS reader of `benchmark_common.h`: the benchmark programs start every solver with an ECL file.
  `dinitzBidirectionalMain.cpp` hands its list of arcs to its library as it is.
* The comparison solvers other than push-relabel with highest label, which are third-party code: the models
  end where they are given their graph and begin again where their output is read. Of the one that is
  modelled, `preflow_to_flow` and `steal_network`, which no program of the repository calls.
* Times and statistics, tables and CSV output, command lines, environment variables and the lists of thread
  counts and block sizes: no result depends on them.
* The wrappers of the CUDA solvers that load a file, check the end nodes and time the call.
* `buildGraphFromStdin` (`T/graph.c:38`, "NOT USED").
* A child that leaves processes of its own behind with the pipe open; no solver starts any.
* `read`, `poll` and `waitpid` that fail or are interrupted: the program installs no signal handler.
* Weak memory: an OpenMP atomic without a memory-order clause is modelled as sequentially consistent
  on its cell; cells that are not atomic are read only after the barrier behind their last write. The same holds
  of CUDA atomics and the end of a launch.

Three things the models show that a reader of the code should know. A weight of `INT_MIN` becomes 2^31 for the
comparison solvers and stays negative for the tidal ones (`ReadersAgree`). A child that ends well but
prints more than the buffer holds is accepted, with flow 0 if the line with its flow was cut off; one that prints more than
buffer and pipe hold blocks and is reported as a time-out (`OutputIsKept`). No row of the summary ever says
"partial", as a run that was not accepted sets `solverFailed` (`RowsAreHonest`).

## Plan

1. Done: `FlowNetwork`, `MaxFlow`, sequential solvers, `GraphBuild`, OpenMP solver, `CudaLevelGraph`,
   `TidalCUDA`, `BenchmarkChild` and `Benchmark`, `EclFile` and `ComparisonGraphs`, `PushRelabelHighest`.
2. Done: theorems about the four sequential solvers (all their safety properties and the refinement of
   `MaxFlow`), about the tides of the OpenMP and CUDA solvers, about the OpenMP level-graph builder, about the
   loader, about push-relabel, about the readers and builders of the comparison programs, and about the benchmark
   program.
3. Left: theorems about the CUDA level-graph builder.
