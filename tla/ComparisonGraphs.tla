---------------------------- MODULE ComparisonGraphs ---------------------------
(***************************************************************************)
(* The main programs of the comparison solvers: readEgrMaxFlow turns the   *)
(* ECL file that the tidal solvers read as well into a list of arcs, and   *)
(* buildGraph turns these into the adjacency lists of the solver.          *)
(* "dinic" adds two slots for every arc; "highest" and "ppr" merge all     *)
(* arcs between two nodes into one pair first, and "ppr" fills in the      *)
(* second slots of the pairs in a second pass over the lists it extends.   *)
(*                                                                         *)
(* An action is one pass of a loop.  Lists are functions of nodes, a slot  *)
(* is addressed by its node and its index, counted from 0 as in the code.  *)
(***************************************************************************)
EXTENDS EclFile, Sums

CONSTANTS
  Files,    \* contents of the files that are read
  Terminals \* pairs of source and sink a case may ask for; sink -1 is the last node

ASSUME ComparisonAssumption ==
  /\ Files \subseteq Seq(-(IntMax + 1) .. IntMax)
  /\ Terminals \subseteq Int \X Int

Builders == {"dinic", "highest", "ppr"}

VARIABLES
  file, source, sink, \* the case
  draws,              \* what rand() % n returns after srand(source)
  builder,
  pc,
  arcs,               \* ParsedGraph
  k,                  \* arcs or pairs the current loop has done
  pairs,              \* pairs of arcs of opposite direction, in order of appearance
  graph,              \* the adjacency lists
  sizes, node, index  \* second pass of "ppr": lengths of the lists before it, its place

vars == <<file, source, sink, draws, builder, pc, arcs, k, pairs, graph, sizes, node, index>>

caseVars == <<file, source, sink, draws, builder>>
passVars == <<sizes, node, index>>

GraphNodes == Indices(file[1])

Slot(list, i)            == list[i + 1]
NewSlot(to, capacity, r) == [to |-> to, capacity |-> capacity, rev |-> r, revCapacity |-> 0]
Add(lists, x, s)         == [lists EXCEPT ![x] = Append(@, s)]

Init ==
  /\ file \in Files
  /\ \E t \in Terminals : source = t[1] /\ sink = t[2]
  /\ draws \in IF IsIndexValid(file) THEN Draws(file) ELSE {<<>>}
  /\ builder \in Builders
  /\ pc = "prepare"
  /\ arcs = <<>>
  /\ k = 0
  /\ pairs = <<>>
  /\ graph = <<>>
  /\ sizes = <<>> /\ node = 0 /\ index = 0

-------------------------------------------------------------------------------
(* From the case to the list of arcs.                                      *)

Fail ==
  /\ pc' = "failed"
  /\ UNCHANGED <<caseVars, arcs, k, pairs, graph, passVars>>

\* The benchmark program leaves the case out, or starts the solver.
Prepare ==
  /\ pc = "prepare"
  /\ IF IsPrepared(file, source, sink)
     THEN /\ sink' = SinkOf(file, sink)
          /\ pc' = "read"
          /\ UNCHANGED <<file, source, draws, builder, arcs, k, pairs, graph, passVars>>
     ELSE Fail

IsAccepted ==
  /\ IsIndexValid(file)
  /\ Len(file) >= 3 + file[1] + file[2]
  /\ WeightsIn(file) \in {0, file[2]}
  /\ source \in GraphNodes /\ sink \in GraphNodes /\ source # sink

Read ==
  /\ pc = "read"
  /\ IF IsAccepted
     THEN pc' = "arcs" /\ UNCHANGED <<caseVars, arcs, k, pairs, graph, passVars>>
     ELSE Fail

ArcCapacity_Raw(a) == IF HasWeights(file) THEN Weight(file, a) ELSE draws[a]

\* The negation happens in a long long.
ArcCapacity(a) ==
  LET w == IF HasWeights(file) THEN Weight(file, a) ELSE draws[a] IN IF w < 0 THEN -w ELSE w

ReadArc ==
  /\ pc = "arcs"
  /\ k < file[2]
  /\ IF EdgesOf(file)[k] \in GraphNodes
     THEN /\ arcs' = Append(arcs, [from |-> TailOf(VerOf(file), file[1], k),
                                   to |-> EdgesOf(file)[k], capacity |-> ArcCapacity(k)])
          /\ k' = k + 1
          /\ UNCHANGED <<caseVars, pc, pairs, graph, passVars>>
     ELSE Fail

ArcsEnd ==
  /\ pc = "arcs"
  /\ k = file[2]
  /\ k' = 0
  /\ graph' = [x \in GraphNodes |-> <<>>]
  /\ pc' = IF builder = "dinic" THEN "dinic" ELSE "merge"
  /\ UNCHANGED <<caseVars, arcs, pairs, passVars>>

-------------------------------------------------------------------------------
(* dinicMain.cpp, pushRelabelHighestMain.cpp                               *)

Arc == arcs[k + 1]

\* Both indices are taken before the lists grow.
AddDirectedEdge ==
  /\ pc = "dinic"
  /\ k < Len(arcs)
  /\ graph' = Add(Add(graph, Arc.from, NewSlot(Arc.to, Arc.capacity, Len(graph[Arc.to]))),
                  Arc.to, NewSlot(Arc.from, 0, Len(graph[Arc.from])))
  /\ k' = k + 1
  /\ UNCHANGED <<caseVars, pc, arcs, pairs, passVars>>

NewPair(arc) == [from |-> arc.from, to |-> arc.to, forward |-> arc.capacity, reverse |-> 0]

\* pairIndex: where the pair of two nodes is, if there is one.
Found(x, y) == {i \in DOMAIN pairs : pairs[i].from = x /\ pairs[i].to = y}

Merge_Overwrites(arc) ==
  LET same == Found(arc.from, arc.to)
      opposite == Found(arc.to, arc.from)
  IN  IF same \cup opposite = {} THEN Append(pairs, NewPair(arc))
      ELSE [i \in DOMAIN pairs |->
              IF i \in same THEN [pairs[i] EXCEPT !.forward = arc.capacity]
              ELSE IF i \in opposite /\ same = {} THEN [pairs[i] EXCEPT !.reverse = arc.capacity]
              ELSE pairs[i]]

\* A pair takes all arcs of its direction and all of the opposite one; the
\* direction is looked for first.
Merge(arc) ==
  LET same == Found(arc.from, arc.to)
      opposite == Found(arc.to, arc.from)
  IN  IF same \cup opposite = {} THEN Append(pairs, NewPair(arc))
      ELSE [i \in DOMAIN pairs |->
              IF i \in same THEN [pairs[i] EXCEPT !.forward = @ + arc.capacity]
              ELSE IF i \in opposite /\ same = {} THEN [pairs[i] EXCEPT !.reverse = @ + arc.capacity]
              ELSE pairs[i]]

AddArc ==
  /\ pc = "merge"
  /\ k < Len(arcs)
  /\ pairs' = Merge(Arc)
  /\ k' = k + 1
  /\ UNCHANGED <<caseVars, pc, arcs, graph, passVars>>

ArcsMerged ==
  /\ pc = "merge"
  /\ k = Len(arcs)
  /\ k' = 0
  /\ pc' = IF builder = "highest" THEN "pairs" ELSE "first"
  /\ UNCHANGED <<caseVars, arcs, pairs, graph, passVars>>

NextPair == pairs[k + 1]

AddPair ==
  /\ pc = "pairs"
  /\ k < Len(pairs)
  /\ LET p == NextPair
     IN  graph' = Add(Add(graph, p.from, NewSlot(p.to, p.forward, Len(graph[p.to]))),
                      p.to, NewSlot(p.from, p.reverse, Len(graph[p.from])))
  /\ k' = k + 1
  /\ UNCHANGED <<caseVars, pc, arcs, pairs, passVars>>

-------------------------------------------------------------------------------
(* pushRelabelPprMain.cpp                                                  *)

\* First pass: one slot for every pair, which keeps the place of the pair's other
\* capacity where the index of the other slot belongs.
AddForward ==
  /\ pc = "first"
  /\ k < Len(pairs)
  /\ graph' = Add(graph, NextPair.from, NewSlot(NextPair.to, NextPair.forward, 2 * k + 1))
  /\ k' = k + 1
  /\ UNCHANGED <<caseVars, pc, arcs, pairs, passVars>>

TakeSizes ==
  /\ pc = "first"
  /\ k = Len(pairs)
  /\ sizes' = [x \in GraphNodes |-> Len(graph[x])]
  /\ node' = 0 /\ index' = 0
  /\ pc' = "second"
  /\ UNCHANGED <<caseVars, arcs, k, pairs, graph>>

MateIndex_Former(x) == sizes[x]

\* Where the second slot of a pair is going to stand.
MateIndex(x) == Len(graph[x])

\* Second pass: the lists grow while they are gone through, up to their former lengths.
AddReverse ==
  /\ pc = "second"
  /\ node \in GraphNodes
  /\ index < sizes[node]
  /\ LET s == Slot(graph[node], index)
         p == pairs[((s.rev - 1) \div 2) + 1]
         linked == [graph EXCEPT ![node] = [@ EXCEPT ![index + 1].rev = MateIndex(s.to)]]
     IN  graph' = Add(linked, s.to, NewSlot(node, p.reverse, index))
  /\ index' = index + 1
  /\ UNCHANGED <<caseVars, pc, arcs, k, pairs, sizes, node>>

NextNode ==
  /\ pc = "second"
  /\ node \in GraphNodes
  /\ index = sizes[node]
  /\ node' = node + 1
  /\ index' = 0
  /\ UNCHANGED <<caseVars, pc, arcs, k, pairs, graph, sizes>>

-------------------------------------------------------------------------------
(* The last step of every builder.                                         *)

Mate(lists, s) == Slot(lists[s.to], s.rev)

\* setReverseEdgeCap, setReverseCapacities
CacheReverse(lists) ==
  [x \in DOMAIN lists |-> [i \in DOMAIN lists[x] |->
     [lists[x][i] EXCEPT !.revCapacity = Mate(lists, lists[x][i]).capacity]]]

Built ==
  /\ \/ pc = "dinic" /\ k = Len(arcs) /\ UNCHANGED graph
     \/ pc = "pairs" /\ k = Len(pairs) /\ graph' = CacheReverse(graph)
     \/ pc = "second" /\ node = file[1] /\ graph' = CacheReverse(graph)
  /\ pc' = "built"
  /\ UNCHANGED <<caseVars, arcs, k, pairs, passVars>>

Next ==
  \/ Prepare \/ Read \/ ReadArc \/ ArcsEnd
  \/ AddDirectedEdge \/ AddArc \/ ArcsMerged \/ AddPair
  \/ AddForward \/ TakeSizes \/ AddReverse \/ NextNode
  \/ Built

Spec == Init /\ [][Next]_vars

-------------------------------------------------------------------------------
(* Properties.                                                             *)

\* What an edge adds to the capacity that leaves S.
Crossing(S, from, to, capacity) == IF from \in S /\ to \notin S THEN capacity ELSE 0

CutOfArcs(list, S) ==
  SumOver([i \in DOMAIN list |-> Crossing(S, list[i].from, list[i].to, list[i].capacity)],
          DOMAIN list)

CutOfLists(lists, S) ==
  LET outflow(x) ==
        SumOver([i \in DOMAIN lists[x] |-> Crossing(S, x, lists[x][i].to, lists[x][i].capacity)],
                DOMAIN lists[x])
  IN  SumOver([x \in DOMAIN lists |-> outflow(x)], DOMAIN lists)

\* Every comparison solver gets a network with the cuts of the file, whatever
\* arcs were merged and in whatever order they came; so its maximum flow is
\* that of the tidal solvers (KeepsCuts of GraphBuild).
BuildersKeepCuts ==
  pc = "built" =>
    \A S \in SUBSET GraphNodes : CutOfLists(graph, S) = CutOfArcs(arcs, S)

\* In a finished graph every slot between two nodes and its mate point at each
\* other, and a push-relabel solver knows the capacity of the mate, although lists
\* have grown since the index was written.  Both slots of a self-loop may lead to the
\* first of them; PushRelabelHighest follows what a solver makes of that.
MatesAreMutual ==
  pc = "built" =>
    \A x \in GraphNodes : \A i \in Indices(Len(graph[x])) :
      LET s == Slot(graph[x], i)
      IN  /\ s.to \in GraphNodes /\ s.rev \in Indices(Len(graph[s.to]))
          /\ s.to # x => /\ Mate(graph, s).to = x /\ Mate(graph, s).rev = i
                         /\ builder # "dinic" => s.revCapacity = Mate(graph, s).capacity

\* Of the cases the benchmark prepares, the tidal solvers and the comparison
\* solvers accept the same ones, with different terminals and the same edges
\* and capacities, also when these are drawn from rand().  The only exception is
\* the weight INT_MIN, which abs() leaves negative in graph.c.
ReadersAgree ==
  /\ pc \in {"arcs", "dinic", "merge"} => source # sink /\ {source, sink} \subseteq GraphNodes
  /\ pc = "failed" => ~IsPrepared(file, source, sink) \/ ~IsReadable(file)
  /\ pc \in {"dinic", "merge"} =>
       /\ IsReadable(file)
       /\ Len(arcs) = file[2]
       /\ \A a \in Indices(file[2]) :
            LET mine == arcs[a + 1].capacity theirs == Capacities(file, draws)[a]
            IN  mine # theirs => theirs = -(IntMax + 1) /\ mine = IntMax + 1

===============================================================================
