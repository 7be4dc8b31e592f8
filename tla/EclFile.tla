--------------------------------- MODULE EclFile -------------------------------
(***************************************************************************)
(* An ECL file (.egr) is a flat sequence of ints: n, m, ver[n+1], edges[m] *)
(* and, if there are any, weights[m].  Three functions of the repository   *)
(* read it: readRawECL (graph.c) for the tidal solvers, readEgrMaxFlow     *)
(* (benchmark_common.h) for the comparison solvers, and readEgrMetadata    *)
(* (the benchmark programs) before any solver is started.                  *)
(***************************************************************************)
EXTENDS Ints, Sequences

Indices(m) == 0 .. (m - 1)

HeaderOK(f) == Len(f) >= 2 /\ f[1] >= 1 /\ f[2] >= 0

VerOf(f)   == [i \in 0 .. f[1] |-> f[3 + i]]
EdgesOf(f) == [a \in Indices(f[2]) |-> f[4 + f[1] + a]]

\* The index array is there and makes sense.
IsIndexValid(f) ==
  /\ HeaderOK(f)
  /\ Len(f) >= 3 + f[1]
  /\ VerOf(f)[0] = 0
  /\ VerOf(f)[f[1]] = f[2]
  /\ \A i \in 1 .. f[1] : VerOf(f)[i] >= VerOf(f)[i - 1]

\* Number of weights that can be read, at most m.
WeightsIn(f) ==
  LET rest == Len(f) - (3 + f[1] + f[2]) IN IF rest < f[2] THEN rest ELSE f[2]

HasWeights(f) == f[2] > 0 /\ WeightsIn(f) = f[2]

Weight(f, a) == f[4 + f[1] + f[2] + a]

\* The node whose range of ver[] holds edge a.
TailOf(ver, n, a) == CHOOSE x \in Indices(n) : ver[x] <= a /\ a < ver[x + 1]

-------------------------------------------------------------------------------
(* readRawECL.                                                             *)

IsReadable(f) ==
  /\ IsIndexValid(f)
  /\ Len(f) >= 3 + f[1] + f[2]
  /\ WeightsIn(f) \in {0, f[2]}
  /\ \A a \in Indices(f[2]) : EdgesOf(f)[a] \in Indices(f[1])

\* abs(): the least int has no positive counterpart and stays as it is.
Abs(w) == IF w < 0 /\ -w <= IntMax THEN -w ELSE w

\* What rand() % n may return, edge by edge, where there are no weights.
Draws(f) == [IF HasWeights(f) THEN {} ELSE Indices(f[2]) -> Indices(f[1])]

\* capacity[]: the weights of the file, or what rand() returned.
Capacities(f, drawn) == IF HasWeights(f) THEN [a \in Indices(f[2]) |-> Abs(Weight(f, a))] ELSE drawn

-------------------------------------------------------------------------------
(* readEgrMetadata and prepareCase.                                        *)

SinkOf(f, sink) == IF sink < 0 THEN f[1] - 1 ELSE sink

\* The terminals are looked at, the edges and the weights are not.
IsPrepared(f, source, sink) ==
  /\ IsIndexValid(f)
  /\ source \in Indices(f[1])
  /\ SinkOf(f, sink) \in Indices(f[1])
  /\ source # SinkOf(f, sink)

===============================================================================
