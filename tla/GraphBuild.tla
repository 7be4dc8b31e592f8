------------------------------- MODULE GraphBuild ------------------------------
(***************************************************************************)
(* graph.c: buildGraphFromECLFileWithMode reads an ECL file (EclFile) and  *)
(* fills a Graph.  The strict build takes the edges of the file as they    *)
(* are and pairs each with one of the opposite direction, found through a  *)
(* hash table with linear probing and one chain of edges per key; the      *)
(* residual build adds a slot of capacity 0 for every edge of the file;    *)
(* AUTO tries the first and falls back on the second.                      *)
(*                                                                         *)
(* An action is one step of a probe, one step along a chain, one pass of a *)
(* loop body, or the straight-line code around a loop.  Arrays that malloc *)
(* returned hold -1 until they are written.                                *)
(***************************************************************************)
EXTENDS EclFile, FlowNetwork

CONSTANTS
  Files,      \* contents of the files that are read
  Modes,      \* values of reverseMode: "require", "add", "auto" or another
  HashValues  \* what hashKey may return for a key

ASSUME BuildAssumption ==
  /\ Files \subseteq Seq(Int)
  /\ HashValues \subseteq Nat
  /\ HashValues # {}

VARIABLES
  file, mode,   \* the arguments of the call
  hash,         \* hashKey, as far as this call uses it
  pc,           \* where the call is
  raw,          \* RawECL: n, m, ver, edges, capacity
  g,            \* the Graph
  e,            \* the edge the current loop is at
  slot,         \* the bucket the current probe is at
  table,        \* the buckets: key and head of its chain
  nextEdge,     \* the chains
  cand,         \* the edge of a chain that is being looked at
  nextPos       \* slots already taken at every node, in a residual build

vars == <<file, mode, hash, pc, raw, g, e, slot, table, nextEdge, cand, nextPos>>

callVars  == <<file, mode, hash, raw>>
tableVars == <<slot, table, nextEdge, cand>>

NoKey == <<-1, -1>>

EmptyRaw   == [n |-> 0, m |-> 0, ver |-> <<>>, edges |-> <<>>, capacity |-> <<>>]
EmptyGraph == [nodeCount |-> 0, edgeCount |-> 0, ver |-> <<>>, src |-> <<>>,
               dst |-> <<>>, rev |-> <<>>, capacity |-> <<>>]

Unset(m)   == [a \in Indices(m) |-> -1]

-------------------------------------------------------------------------------
(* Reading the file; the table of the strict build.                        *)

\* Powers of two up to 2 ^ k.
Doublings(k) ==
  LET d[j \in 0 .. k] == IF j = 0 THEN 1 ELSE 2 * d[j - 1] IN d

\* The least power of two that is at least x.
nextPow2(x) == LET d == Doublings(x) IN Min({d[j] : j \in {i \in 0 .. x : d[i] >= x}})

TableSize_Full(m) == nextPow2(m)

TableSize(m) == nextPow2(m + 1)

EmptyTable(m) == [i \in Indices(TableSize(m)) |-> [key |-> NoKey, head |-> -1]]

KeysOf(f) ==
  IF IsReadable(f)
  THEN LET ends(a) == <<TailOf(VerOf(f), f[1], a), EdgesOf(f)[a]>>
       IN  {ends(a) : a \in Indices(f[2])}
             \cup {<<ends(a)[2], ends(a)[1]>> : a \in Indices(f[2])}
  ELSE {}

Init ==
  /\ file \in Files
  /\ mode \in Modes
  /\ hash \in [KeysOf(file) -> HashValues]
  /\ pc = "read"
  /\ raw = EmptyRaw
  /\ g = EmptyGraph
  /\ e = 0
  /\ slot = 0
  /\ table = <<>>
  /\ nextEdge = <<>>
  /\ cand = -1
  /\ nextPos = <<>>

\* The file is rejected, or read and handed to the build the mode asks for.
ReadFile ==
  /\ pc = "read"
  /\ \/ /\ ~IsReadable(file)
        /\ pc' = "failed"
        /\ UNCHANGED raw
     \/ /\ IsReadable(file)
        /\ \E drawn \in Draws(file) :
              raw' = [n |-> file[1], m |-> file[2], ver |-> VerOf(file),
                      edges |-> EdgesOf(file), capacity |-> Capacities(file, drawn)]
        /\ pc' = CASE mode \in {"require", "auto"} -> "strict"
                   [] mode = "add"                 -> "residual"
                   [] OTHER                        -> "failed"
  /\ UNCHANGED <<file, mode, hash, g, e, tableVars, nextPos>>

\* An allocation fails and the program exits.
Die ==
  /\ pc \in {"strict", "residual"} \/ (pc = "read" /\ HeaderOK(file))
  /\ pc' = "died"
  /\ UNCHANGED <<callVars, g, e, tableVars, nextPos>>

-------------------------------------------------------------------------------
(* The strict build.                                                       *)

StrictStart ==
  /\ pc = "strict"
  /\ g' = [nodeCount |-> raw.n, edgeCount |-> raw.m, ver |-> raw.ver,
           src |-> [a \in Indices(raw.m) |-> TailOf(raw.ver, raw.n, a)],
           dst |-> raw.edges, rev |-> Unset(raw.m), capacity |-> raw.capacity]
  /\ table' = EmptyTable(raw.m)
  /\ nextEdge' = Unset(raw.m)
  /\ e' = 0
  /\ pc' = "insert"
  /\ UNCHANGED <<callVars, slot, cand, nextPos>>

\* The key a probe looks for: the ends of e, in reverse when e is to be paired.
Key == IF pc \in {"insert", "insertProbe"} THEN <<g.src[e], g.dst[e]>>
                                           ELSE <<g.dst[e], g.src[e]>>

Home == hash[Key] % TableSize(raw.m)

InsertStart ==
  /\ pc = "insert"
  /\ e < raw.m
  /\ slot' = Home
  /\ pc' = "insertProbe"
  /\ UNCHANGED <<callVars, g, e, table, nextEdge, cand, nextPos>>

IsTaken == table[slot].key # NoKey /\ table[slot].key # Key

ProbeNext ==
  /\ pc \in {"insertProbe", "pairProbe"}
  /\ IsTaken
  /\ slot' = (slot + 1) % TableSize(raw.m)
  /\ UNCHANGED <<callVars, pc, g, e, table, nextEdge, cand, nextPos>>

Insert ==
  /\ pc = "insertProbe"
  /\ ~IsTaken
  /\ table' = [table EXCEPT ![slot] = [key |-> Key, head |-> e]]
  /\ nextEdge' = [nextEdge EXCEPT ![e] = table[slot].head]
  /\ e' = e + 1
  /\ pc' = "insert"
  /\ UNCHANGED <<callVars, g, slot, cand, nextPos>>

InsertEnd ==
  /\ pc = "insert"
  /\ e = raw.m
  /\ e' = 0
  /\ pc' = "pair"
  /\ UNCHANGED <<callVars, g, tableVars, nextPos>>

PairSkip ==
  /\ pc = "pair"
  /\ e < raw.m
  /\ g.rev[e] # -1
  /\ e' = e + 1
  /\ UNCHANGED <<callVars, pc, g, tableVars, nextPos>>

PairStart ==
  /\ pc = "pair"
  /\ e < raw.m
  /\ g.rev[e] = -1
  /\ slot' = Home
  /\ pc' = "pairProbe"
  /\ UNCHANGED <<callVars, g, e, table, nextEdge, cand, nextPos>>

\* No edge of the opposite direction: REQUIRE_EXISTING gives up, AUTO starts again.
Missing ==
  /\ g' = EmptyGraph
  /\ pc' = IF mode = "auto" THEN "residual" ELSE "failed"
  /\ UNCHANGED <<callVars, e, tableVars, nextPos>>

PairFound ==
  /\ pc = "pairProbe"
  /\ ~IsTaken
  /\ table[slot].key = Key
  /\ cand' = table[slot].head
  /\ pc' = "walk"
  /\ UNCHANGED <<callVars, g, e, slot, table, nextEdge, nextPos>>

PairMissing ==
  /\ pc = "pairProbe"
  /\ ~IsTaken
  /\ table[slot].key # Key
  /\ Missing

IsBusy_NotItself(a) == g.rev[a] # -1

\* An edge is never paired with itself nor with one that has its pair already.
IsBusy(a) == a = e \/ g.rev[a] # -1

Walk ==
  /\ pc = "walk"
  /\ cand >= 0
  /\ IsBusy(cand)
  /\ cand' = nextEdge[cand]
  /\ UNCHANGED <<callVars, pc, g, e, slot, table, nextEdge, nextPos>>

WalkMissing ==
  /\ pc = "walk"
  /\ cand < 0
  /\ Missing

Pair ==
  /\ pc = "walk"
  /\ cand >= 0
  /\ ~IsBusy(cand)
  /\ g' = [g EXCEPT !.rev = [@ EXCEPT ![e] = cand, ![cand] = e]]
  /\ e' = e + 1
  /\ pc' = "pair"
  /\ UNCHANGED <<callVars, tableVars, nextPos>>

PairEnd ==
  /\ pc = "pair"
  /\ e = raw.m
  /\ pc' = "done"
  /\ UNCHANGED <<callVars, g, e, tableVars, nextPos>>

-------------------------------------------------------------------------------
(* The residual build.                                                     *)

TooManyEdges ==
  /\ pc = "residual"
  /\ raw.m > IntMax \div 2
  /\ pc' = "failed"
  /\ UNCHANGED <<callVars, g, e, tableVars, nextPos>>

\* Every edge of the file takes a slot at both of its ends.
DegreeOfLower_OutOnly(x) == Cardinality({a \in Indices(raw.m) : TailOf(raw.ver, raw.n, a) < x}) * 2

DegreeOfLower(x) ==
  Cardinality({a \in Indices(raw.m) : TailOf(raw.ver, raw.n, a) < x})
    + Cardinality({a \in Indices(raw.m) : raw.edges[a] < x})

ResidualStart ==
  /\ pc = "residual"
  /\ raw.m <= IntMax \div 2
  /\ LET m == 2 * raw.m
     IN  g' = [nodeCount |-> raw.n, edgeCount |-> m,
               ver |-> [x \in 0 .. raw.n |-> DegreeOfLower(x)],
               src |-> Unset(m), dst |-> Unset(m), rev |-> Unset(m), capacity |-> Unset(m)]
  /\ nextPos' = [x \in Indices(raw.n) |-> 0]
  /\ e' = 0
  /\ pc' = "place"
  /\ UNCHANGED <<callVars, tableVars>>

ReverseCapacity_Same(a) == raw.capacity[a]

ReverseCapacity(a) == 0

\* Edge e of the file gets the next slot of its tail; then its reverse gets the
\* next one of its head, which for a self-loop is the slot behind it.
Place ==
  /\ pc = "place"
  /\ e < raw.m
  /\ LET x     == TailOf(raw.ver, raw.n, e)
         y     == raw.edges[e]
         fwd   == g.ver[x] + nextPos[x]
         taken == [nextPos EXCEPT ![x] = @ + 1]
         back  == g.ver[y] + taken[y]
     IN  /\ nextPos' = [taken EXCEPT ![y] = @ + 1]
         /\ g' = [g EXCEPT !.src      = [@ EXCEPT ![fwd] = x, ![back] = y],
                           !.dst      = [@ EXCEPT ![fwd] = y, ![back] = x],
                           !.rev      = [@ EXCEPT ![fwd] = back, ![back] = fwd],
                           !.capacity = [@ EXCEPT ![fwd] = raw.capacity[e],
                                                  ![back] = ReverseCapacity(e)]]
  /\ e' = e + 1
  /\ UNCHANGED <<callVars, pc, tableVars>>

PlaceEnd ==
  /\ pc = "place"
  /\ e = raw.m
  /\ pc' = "done"
  /\ UNCHANGED <<callVars, g, e, tableVars, nextPos>>

-------------------------------------------------------------------------------
Strict ==
  \/ StrictStart \/ InsertStart \/ ProbeNext \/ Insert \/ InsertEnd
  \/ PairSkip \/ PairStart \/ PairFound \/ PairMissing
  \/ Walk \/ WalkMissing \/ Pair \/ PairEnd

ResidualBuild == TooManyEdges \/ ResidualStart \/ Place \/ PlaceEnd

Next == ReadFile \/ Die \/ Strict \/ ResidualBuild

\* The build is one sequential call that keeps running until it returns or exits.
Spec == Init /\ [][Next]_vars /\ WF_vars(Next)

-------------------------------------------------------------------------------
(* Properties.                                                             *)

StrictLabels == {"insert", "insertProbe", "pair", "pairProbe", "walk"}

\* The file holds as many edges u -> v as v -> u, and self-loops in even number.
IsBalanced ==
  LET between(x, y) == {a \in Indices(raw.m) :
                          TailOf(raw.ver, raw.n, a) = x /\ raw.edges[a] = y}
  IN  \A x, y \in Indices(raw.n) :
        /\ Cardinality(between(x, y)) = Cardinality(between(y, x))
        /\ Cardinality(between(x, x)) % 2 = 0

\* A graph that is returned is what the solvers rely on: indexed by source node,
\* every slot paired with one of the opposite direction.
BuiltGraphIsSound ==
  pc = "done" =>
    /\ g.src \in [Indices(g.edgeCount) -> Indices(g.nodeCount)]
    /\ g.dst \in [Indices(g.edgeCount) -> Indices(g.nodeCount)]
    /\ IsIndexed(g)
    /\ IsPaired(g)

\* Every set of nodes is left by the same capacity in the graph and in the file,
\* so the graph has the maximum flow of the file whichever build made it.
KeepsCuts ==
  LET cut(A, tail, head, S) == {a \in A : tail[a] \in S /\ head[a] \notin S}
      tailInFile            == [a \in Indices(raw.m) |-> TailOf(raw.ver, raw.n, a)]
  IN  pc = "done" =>
        \A S \in SUBSET Indices(raw.n) :
          SumOver(g.capacity, cut(Indices(g.edgeCount), g.src, g.dst, S))
            = SumOver(raw.capacity, cut(Indices(raw.m), tailInFile, raw.edges, S))

\* Taking the first free edge of a chain is never a mistake: the strict build
\* succeeds if and only if the edges of the file can be paired at all.
StrictIsExact ==
  [][(pc \in StrictLabels /\ pc' \notin StrictLabels) => (pc' = "done" <=> IsBalanced)]_vars

\* Every probe finds its key or an empty bucket, every chain ends: the call returns.
BuildReturns == <>(pc \in {"done", "failed", "died"})

===============================================================================
