---------------------------- MODULE ComparisonProofs ---------------------------
(***************************************************************************)
(* What holds of the main programs of the comparison solvers, for every    *)
(* file and every pair of terminals: they accept what the tidal solvers    *)
(* accept, and the lists they build have the cuts of the file and pair     *)
(* their slots.                                                            *)
(***************************************************************************)
EXTENDS ComparisonGraphs, FlowNetworkProofs, SequenceTheorems

-------------------------------------------------------------------------------
(* The inductive invariant.                                                *)

Building == {"dinic", "merge", "pairs", "first", "second"}
Labels   == {"prepare", "read", "failed", "arcs", "built"} \cup Building

CaseInv ==
  /\ pc \in Labels
  /\ file \in Files /\ builder \in Builders
  /\ draws \in IF IsIndexValid(file) THEN Draws(file) ELSE {<<>>}
  /\ pc \notin {"prepare", "failed"} => IsPrepared(file, source, sink) /\ sink \in Nat
  /\ pc \notin {"prepare", "read", "failed"} => IsAccepted
  /\ pc = "failed" => ~IsPrepared(file, source, sink) \/ ~IsReadable(file)

ArcOf(a) ==
  [from |-> TailOf(VerOf(file), file[1], a), to |-> EdgesOf(file)[a], capacity |-> ArcCapacity(a)]

\* The arcs read so far are those of the file.
ArcsInv ==
  /\ pc \in {"prepare", "read"} => arcs = <<>> /\ k = 0 /\ pairs = <<>>
  /\ pc = "arcs" => pairs = <<>> /\ k = Len(arcs)
  /\ pc \notin {"prepare", "read", "failed"} =>
       /\ arcs \in Seq([from : GraphNodes, to : GraphNodes, capacity : Int])
       /\ Len(arcs) <= file[2]
       /\ \A a \in Indices(Len(arcs)) : EdgesOf(file)[a] \in GraphNodes /\ arcs[a + 1] = ArcOf(a)
  /\ pc \in Building \cup {"built"} => Len(arcs) = file[2]

Slots == [to : GraphNodes, capacity : Int, rev : Int, revCapacity : Int]
Pairs == [from : GraphNodes, to : GraphNodes, forward : Int, reverse : Int]

Lists == [GraphNodes -> Seq(Slots)]

\* What arcs and pairs add to the capacity that leaves S.
OfArcs(S)        == [i \in DOMAIN arcs |-> Crossing(S, arcs[i].from, arcs[i].to, arcs[i].capacity)]
Ahead(list, S)   == [j \in DOMAIN list |-> Crossing(S, list[j].from, list[j].to, list[j].forward)]
Against(list, S) == [j \in DOMAIN list |-> Crossing(S, list[j].to, list[j].from, list[j].reverse)]
Forwards(S)      == Ahead(pairs, S)
Backwards(S)     == Against(pairs, S)

\* No two pairs join the same nodes.
PairsDiffer(list) ==
  \A i, j \in DOMAIN list : i # j =>
    /\ ~(list[i].from = list[j].from /\ list[i].to = list[j].to)
    /\ ~(list[i].from = list[j].to /\ list[i].to = list[j].from)

\* The mate of slot i of x points back to it.
PointsBack(lists, x, i) ==
  LET s == lists[x][i]
  IN  /\ s.rev \in Indices(Len(lists[s.to]))
      /\ s.to # x => Mate(lists, s).to = x /\ Mate(lists, s).rev = i - 1

AllPointBack(lists) == \A x \in GraphNodes : \A i \in 1 .. Len(lists[x]) : PointsBack(lists, x, i)

MergeInv ==
  /\ pc = "merge" =>
       /\ graph = [x \in GraphNodes |-> <<>>]
       /\ k <= Len(arcs)
       /\ PairsDiffer(pairs)
       /\ \A S \in SUBSET GraphNodes :
            SumOver(Forwards(S), DOMAIN pairs) + SumOver(Backwards(S), DOMAIN pairs)
              = SumOver(OfArcs(S), 1 .. k)
  /\ pc \in {"pairs", "first", "second"} =>
       \A S \in SUBSET GraphNodes :
         SumOver(Forwards(S), DOMAIN pairs) + SumOver(Backwards(S), DOMAIN pairs)
           = CutOfArcs(arcs, S)

DirectInv ==
  /\ pc = "dinic" =>
       /\ builder = "dinic"
       /\ k <= Len(arcs)
       /\ AllPointBack(graph)
       /\ \A S \in SUBSET GraphNodes : CutOfLists(graph, S) = SumOver(OfArcs(S), 1 .. k)
  /\ pc = "pairs" =>
       /\ k <= Len(pairs)
       /\ AllPointBack(graph)
       /\ \A S \in SUBSET GraphNodes :
            CutOfLists(graph, S)
              = SumOver(Forwards(S), 1 .. k) + SumOver(Backwards(S), 1 .. k)

\* owner[x][i] is the pair whose first slot is slot i of x; every pair has one.
IsOwner(owner, lengths, K) ==
  /\ owner \in [GraphNodes -> Seq(1 .. K)]
  /\ \A x \in GraphNodes :
       /\ Len(owner[x]) = lengths[x]
       /\ \A i \in 1 .. Len(owner[x]) : pairs[owner[x][i]].from = x
  /\ \A x, y \in GraphNodes : \A i \in 1 .. Len(owner[x]), j \in 1 .. Len(owner[y]) :
       owner[x][i] = owner[y][j] => x = y /\ i = j
  /\ \A p \in 1 .. K : \E x \in GraphNodes : \E i \in 1 .. Len(owner[x]) : owner[x][i] = p

\* The first slot of a pair before the pass over the lists has come to it.
IsFirstSlot(s, p) ==
  s.to = pairs[p].to /\ s.capacity = pairs[p].forward /\ s.rev = 2 * p - 1

IsFirstOwner(owner) ==
  /\ IsOwner(owner, [x \in GraphNodes |-> Len(graph[x])], k)
  /\ \A x \in GraphNodes : \A i \in 1 .. Len(graph[x]) : IsFirstSlot(graph[x][i], owner[x][i])

FirstInv ==
  pc = "first" =>
    /\ k <= Len(pairs)
    /\ \A S \in SUBSET GraphNodes : CutOfLists(graph, S) = SumOver(Forwards(S), 1 .. k)
    /\ \E owner : IsFirstOwner(owner)

\* The second pass has been at slot i of x.
IsDone(x, i) == x < node \/ (x = node /\ i <= index)

DonePairs(owner) ==
  {p \in DOMAIN pairs : \E x \in GraphNodes : \E i \in 1 .. sizes[x] :
                          IsDone(x, i) /\ owner[x][i] = p}

\* A slot of the first pass the second one has been at has its mate behind the former
\* end of a list.
FormerSlots(owner) ==
  \A x \in GraphNodes : \A i \in 1 .. sizes[x] :
    LET s == graph[x][i]
    IN  IF IsDone(x, i)
        THEN /\ s.to = pairs[owner[x][i]].to
             /\ PointsBack(graph, x, i) /\ s.rev >= sizes[s.to]
        ELSE IsFirstSlot(s, owner[x][i])

\* The slots behind it belong to slots the second pass has been at.
LaterSlots ==
  \A x \in GraphNodes : \A i \in (sizes[x] + 1) .. Len(graph[x]) :
    LET s == graph[x][i]
    IN  PointsBack(graph, x, i) /\ s.rev < sizes[s.to] /\ IsDone(s.to, s.rev + 1)

IsSecondOwner(owner) ==
  /\ IsOwner(owner, sizes, Len(pairs))
  /\ FormerSlots(owner)
  /\ \A S \in SUBSET GraphNodes :
       CutOfLists(graph, S) = SumOver(Forwards(S), DOMAIN pairs)
                                + SumOver(Backwards(S), DonePairs(owner))

SecondInv ==
  pc = "second" =>
    /\ sizes \in [GraphNodes -> Nat]
    /\ node \in 0 .. file[1] /\ index \in Nat
    /\ node \in GraphNodes => index <= sizes[node]
    /\ \A x \in GraphNodes : sizes[x] <= Len(graph[x])
    /\ LaterSlots
    /\ \E owner : IsSecondOwner(owner)

\* What the lists, pairs and counters are.
TypeInv ==
  /\ k \in Nat
  /\ pc \in Building \cup {"built"} => pairs \in Seq(Pairs) /\ graph \in Lists

BuildInv ==
  /\ TypeInv
  /\ MergeInv /\ DirectInv /\ FirstInv /\ SecondInv
  /\ BuildersKeepCuts /\ MatesAreMutual

-------------------------------------------------------------------------------
(* Lists and the capacity that leaves a set of nodes.                      *)

LEMMA AddFacts ==
  ASSUME NEW N, NEW T, NEW lists \in [N -> Seq(T)], NEW x \in N, NEW s \in T
  PROVE  /\ Add(lists, x, s) \in [N -> Seq(T)]
         /\ Len(Add(lists, x, s)[x]) = Len(lists[x]) + 1
         /\ Add(lists, x, s)[x][Len(lists[x]) + 1] = s
         /\ \A i \in 1 .. Len(lists[x]) : Add(lists, x, s)[x][i] = lists[x][i]
         /\ \A y \in N \ {x} : Add(lists, x, s)[y] = lists[y]
<1>1. PICK list \in Seq(T) : list = lists[x]
  OBVIOUS
<1>2. /\ Append(list, s) \in Seq(T)
      /\ Len(Append(list, s)) = Len(list) + 1
      /\ Append(list, s)[Len(list) + 1] = s
      /\ \A i \in 1 .. Len(list) : Append(list, s)[i] = list[i]
  OBVIOUS
<1>3. Add(lists, x, s) = [lists EXCEPT ![x] = Append(list, s)]
  BY <1>1 DEF Add
<1> QED
  BY <1>1, <1>2, <1>3

\* What the slots of a list add to the capacity that leaves S.
Outflow(list, x, S) ==
  SumOver([i \in DOMAIN list |-> Crossing(S, x, list[i].to, list[i].capacity)], DOMAIN list)

LEMMA CutIsOutflow ==
  ASSUME NEW lists, NEW S
  PROVE  CutOfLists(lists, S) =
           SumOver([x \in DOMAIN lists |-> Outflow(lists[x], x, S)], DOMAIN lists)
BY DEF CutOfLists, Outflow

LEMMA OutflowType ==
  ASSUME NEW T, NEW list \in Seq(T), NEW x, NEW S,
         \A i \in 1 .. Len(list) : list[i].capacity \in Int
  PROVE  Outflow(list, x, S) \in Int
<1> DEFINE f == [i \in DOMAIN list |-> Crossing(S, x, list[i].to, list[i].capacity)]
<1>1. DOMAIN list = 1 .. Len(list) /\ Len(list) \in Nat
  OBVIOUS
<1>2. IsFiniteSet(DOMAIN list)
  BY <1>1, FS_Interval
<1>3. \A i \in DOMAIN list : f[i] \in Int
  BY <1>1 DEF Crossing
<1> HIDE DEF f
<1>4. SumOver(f, DOMAIN list) \in Int
  BY <1>2, <1>3, SumType
<1> QED
  BY <1>4 DEF Outflow, f

LEMMA OutflowOfAppend ==
  ASSUME NEW T, NEW list \in Seq(T), NEW s \in T, NEW x, NEW S, s.capacity \in Int,
         \A i \in 1 .. Len(list) : list[i].capacity \in Int
  PROVE  Outflow(Append(list, s), x, S)
           = Outflow(list, x, S) + Crossing(S, x, s.to, s.capacity)
<1> DEFINE new == Append(list, s)
           f == [i \in DOMAIN list |-> Crossing(S, x, list[i].to, list[i].capacity)]
           h == [i \in DOMAIN new |-> Crossing(S, x, new[i].to, new[i].capacity)]
           last == Len(list) + 1
<1>1. /\ DOMAIN list = 1 .. Len(list) /\ Len(list) \in Nat
      /\ DOMAIN new = 1 .. last /\ new[last] = s
      /\ \A i \in 1 .. Len(list) : new[i] = list[i]
  OBVIOUS
<1>2. IsFiniteSet(DOMAIN list)
  BY <1>1, FS_Interval
<1>3. DOMAIN new = DOMAIN list \cup {last} /\ last \notin DOMAIN list
  BY <1>1
<1>4. \A i \in DOMAIN list : f[i] \in Int /\ h[i] = f[i]
  BY <1>1, <1>3 DEF Crossing
<1>5. h[last] = Crossing(S, x, s.to, s.capacity) /\ h[last] \in Int
  BY <1>1, <1>3 DEF Crossing
<1> HIDE DEF new, f, h, last
<1>6. SumOver(h, DOMAIN list) = SumOver(f, DOMAIN list) /\ SumOver(f, DOMAIN list) \in Int
  BY <1>2, <1>4, SumSame, SumType
<1>7. \A i \in DOMAIN list \cup {last} : h[i] \in Int
  BY <1>4, <1>5
<1>8. SumOver(h, DOMAIN new) = h[last] + SumOver(h, DOMAIN list)
  BY <1>2, <1>3, <1>7, SumInsert
<1>9. Crossing(S, x, s.to, s.capacity) \in Int
  BY <1>5
<1>10. SumOver(h, DOMAIN new) = SumOver(f, DOMAIN list) + Crossing(S, x, s.to, s.capacity)
  BY ONLY <1>5, <1>6, <1>8, <1>9
<1> QED
  BY <1>10 DEF Outflow, new, f, h

LEMMA SlotFacts ==
  ASSUME NEW lists \in Lists, NEW x \in GraphNodes
  PROVE  /\ Len(lists[x]) \in Nat /\ DOMAIN lists[x] = 1 .. Len(lists[x])
         /\ \A i \in 1 .. Len(lists[x]) :
              /\ lists[x][i] \in Slots
              /\ lists[x][i].to \in GraphNodes /\ lists[x][i].capacity \in Int
              /\ lists[x][i].rev \in Int
<1>1. PICK list \in Seq(Slots) : list = lists[x]
  BY DEF Lists
<1>2. Len(list) \in Nat /\ DOMAIN list = 1 .. Len(list) /\ \A i \in 1 .. Len(list) : list[i] \in Slots
  OBVIOUS
<1> QED
  BY <1>1, <1>2 DEF Slots

\* Another slot adds its capacity to the cuts it crosses.
GrowsBy(old, new, S, capacity) ==
  /\ CutOfLists(new, S) = CutOfLists(old, S) + capacity
  /\ CutOfLists(old, S) \in Int /\ capacity \in Int

LEMMA CutOfAdd ==
  ASSUME IsFiniteSet(GraphNodes), NEW lists \in Lists, NEW x \in GraphNodes, NEW s \in Slots, NEW S
  PROVE  GrowsBy(lists, Add(lists, x, s), S, Crossing(S, x, s.to, s.capacity))
<1> DEFINE N == GraphNodes
           new == Add(lists, x, s)
           f == [y \in N |-> Outflow(lists[y], y, S)]
           h == [y \in N |-> Outflow(new[y], y, S)]
<1>1. /\ DOMAIN lists = N /\ DOMAIN new = N
      /\ new[x] = Append(lists[x], s) /\ \A y \in N \ {x} : new[y] = lists[y]
  BY DEF Add, Lists
<1>2. ASSUME NEW y \in N PROVE f[y] \in Int
  <2>1. PICK list \in Seq(Slots) : list = lists[y]
    BY DEF Lists
  <2>2. \A i \in 1 .. Len(list) : list[i].capacity \in Int
    BY <2>1, SlotFacts
  <2>3. Outflow(list, y, S) \in Int
    BY <2>2, OutflowType
  <2> QED
    BY <2>1, <2>3
<1>3. h[x] = f[x] + Crossing(S, x, s.to, s.capacity)
  <2>1. PICK list \in Seq(Slots) : list = lists[x]
    BY DEF Lists
  <2>2. s.capacity \in Int /\ \A i \in 1 .. Len(list) : list[i].capacity \in Int
    BY <2>1, SlotFacts DEF Slots
  <2>3. Outflow(Append(list, s), x, S) = Outflow(list, x, S) + Crossing(S, x, s.to, s.capacity)
    BY <2>2, OutflowOfAppend
  <2> QED
    BY <1>1, <2>1, <2>3
<1>4. Crossing(S, x, s.to, s.capacity) \in Int
  BY DEF Crossing, Slots
<1>5. \A y \in N \ {x} : h[y] = f[y]
  BY <1>1
<1>6. CutOfLists(lists, S) = SumOver(f, N) /\ CutOfLists(new, S) = SumOver(h, N)
  BY <1>1, CutIsOutflow
<1> HIDE DEF new, f, h
<1>7. \A y \in N : f[y] \in Int /\ h[y] \in Int
  BY <1>2, <1>3, <1>4, <1>5
<1>8. SumOver(h, N) = SumOver(f, N) + h[x] - f[x]
  BY <1>5, <1>7, SumUpdate
<1>9. SumOver(f, N) \in Int /\ f[x] \in Int
  BY <1>7, SumType
<1>10. SumOver(h, N) = SumOver(f, N) + Crossing(S, x, s.to, s.capacity)
  BY ONLY <1>3, <1>4, <1>8, <1>9
<1> QED
  BY <1>4, <1>6, <1>9, <1>10 DEF new, GrowsBy

\* The cuts depend on ends and capacities only.
LEMMA CutOfSame ==
  ASSUME NEW lists \in Lists, NEW new \in Lists, NEW S,
         \A x \in GraphNodes :
           /\ Len(new[x]) = Len(lists[x])
           /\ \A i \in 1 .. Len(lists[x]) :
                new[x][i].to = lists[x][i].to /\ new[x][i].capacity = lists[x][i].capacity
  PROVE  CutOfLists(new, S) = CutOfLists(lists, S)
<1> DEFINE N == GraphNodes
           f == [y \in N |-> Outflow(lists[y], y, S)]
           h == [y \in N |-> Outflow(new[y], y, S)]
<1>1. ASSUME NEW y \in N PROVE f[y] = h[y]
  <2> DEFINE p == [i \in DOMAIN lists[y] |-> Crossing(S, y, lists[y][i].to, lists[y][i].capacity)]
             q == [i \in DOMAIN new[y] |-> Crossing(S, y, new[y][i].to, new[y][i].capacity)]
  <2>1. DOMAIN lists[y] = DOMAIN new[y] /\ DOMAIN lists[y] = 1 .. Len(lists[y])
    BY SlotFacts
  <2>2. p = q
    BY <2>1
  <2> QED
    BY <2>1, <2>2 DEF Outflow
<1>2. CutOfLists(lists, S) = SumOver(f, N) /\ CutOfLists(new, S) = SumOver(h, N)
  BY CutIsOutflow DEF Lists
<1>3. f = h
  BY <1>1
<1> QED
  BY <1>2, <1>3

-------------------------------------------------------------------------------
(* Reading the file.                                                       *)

LEMMA FileFacts ==
  ASSUME NEW f \in Files, IsIndexValid(f)
  PROVE  /\ f[1] \in Nat /\ f[1] >= 1 /\ f[2] \in Nat
         /\ Len(f) \in Nat /\ \A i \in 1 .. Len(f) : f[i] \in Int /\ f[i] >= -(IntMax + 1)
         /\ VerOf(f)[0] = 0 /\ VerOf(f)[f[1]] = f[2]
         /\ \A x \in 0 .. f[1] : VerOf(f)[x] \in Int
<1>1. f \in Seq(-(IntMax + 1) .. IntMax)
  BY ComparisonAssumption
<1>2. IntMax \in Nat
  BY IntAssumption
<1>3. /\ Len(f) \in Nat /\ \A i \in 1 .. Len(f) : f[i] \in -(IntMax + 1) .. IntMax
  <2>1. PICK W : W = -(IntMax + 1) .. IntMax
    OBVIOUS
  <2>2. f \in Seq(W)
    BY <1>1, <2>1
  <2>3. Len(f) \in Nat /\ \A i \in 1 .. Len(f) : f[i] \in W
    BY <2>2
  <2> QED
    BY <2>1, <2>3
<1>4. \A i \in 1 .. Len(f) : f[i] \in Int /\ f[i] >= -(IntMax + 1)
  BY <1>2, <1>3
<1>5. Len(f) >= 2 /\ f[1] >= 1 /\ f[2] >= 0 /\ f[1] \in Int /\ f[2] \in Int
  BY <1>3, <1>4 DEF IsIndexValid, HeaderOK
<1>6. ASSUME NEW x \in 0 .. f[1] PROVE VerOf(f)[x] \in Int
  <2>1. 3 + x \in 1 .. Len(f)
    BY <1>3, <1>5 DEF IsIndexValid
  <2> QED
    BY <1>4, <2>1 DEF VerOf
<1> QED
  BY <1>3, <1>4, <1>5, <1>6 DEF IsIndexValid

\* Every edge has a tail.
LEMMA TailIsNode ==
  ASSUME NEW f \in Files, IsIndexValid(f), NEW a \in Indices(f[2])
  PROVE  TailOf(VerOf(f), f[1], a) \in Indices(f[1])
<1> DEFINE n == f[1]
           ver == VerOf(f)
           Beyond == {x \in Nat : x <= n /\ a < ver[x]}
<1>1. /\ n \in Nat /\ n >= 1 /\ f[2] \in Nat /\ ver[0] = 0 /\ ver[n] = f[2]
      /\ \A x \in 0 .. n : ver[x] \in Int
  BY FileFacts
<1>2. a \in Int /\ a >= 0 /\ a < f[2]
  BY <1>1 DEF Indices
<1> HIDE DEF n, ver
<1>3. n \in Beyond /\ Beyond \in SUBSET Nat
  BY <1>1, <1>2
<1>4. PICK y \in Beyond : \A z \in Beyond : ~(z < y)
  BY <1>3, LeastNumber
<1>5. y \in Nat /\ y <= n /\ a < ver[y] /\ y # 0
  BY <1>1, <1>2, <1>4
<1>6. y - 1 \in Nat /\ y - 1 \in 0 .. n /\ y - 1 <= n - 1 /\ y - 1 <= n
  BY <1>1, <1>5
<1>7. ~(a < ver[y - 1])
  BY <1>4, <1>5, <1>6
<1>8. ver[y - 1] <= a /\ a < ver[(y - 1) + 1] /\ y - 1 \in Indices(n)
  <2>1. (y - 1) + 1 = y
    BY <1>5
  <2>2. ver[y - 1] \in Int
    BY <1>1, <1>6
  <2>3. ver[y - 1] <= a
    BY <1>2, <1>7, <2>2
  <2> QED
    BY <1>1, <1>5, <1>6, <2>1, <2>3 DEF Indices
<1>9. \E x \in Indices(n) : ver[x] <= a /\ a < ver[x + 1]
  BY <1>8
<1> QED
  BY <1>9 DEF TailOf, n, ver

LEMMA PrepareKeeps ==
  ASSUME CaseInv, ArcsInv, Prepare PROVE CaseInv' /\ ArcsInv'
<1>1. pc = "prepare" /\ UNCHANGED <<file, source, draws, builder, arcs, k, pairs>>
  BY DEF Prepare, Fail, caseVars
<1>2. CASE IsPrepared(file, source, sink)
  <2>1. sink' = SinkOf(file, sink) /\ pc' = "read"
    BY <1>2 DEF Prepare
  <2>2. sink' \in Indices(file[1]) /\ source # sink' /\ IsIndexValid(file) /\ source \in Indices(file[1])
    BY <1>2, <2>1 DEF IsPrepared
  <2>3. sink' \in Nat
    BY <2>2 DEF Indices
  <2>4. SinkOf(file, sink') = sink'
    BY <2>3 DEF SinkOf
  <2>5. IsPrepared(file, source, sink')
    BY <2>2, <2>4 DEF IsPrepared
  <2> QED
    BY <1>1, <2>1, <2>3, <2>5 DEF CaseInv, ArcsInv, Labels, Building
<1>3. CASE ~IsPrepared(file, source, sink)
  <2>1. pc' = "failed" /\ sink' = sink
    BY <1>3 DEF Prepare, Fail, caseVars
  <2> QED
    BY <1>1, <1>3, <2>1 DEF CaseInv, ArcsInv, Labels, Building
<1> QED
  BY <1>2, <1>3

\* Beyond the terminals, both readers look at the same things.
LEMMA AcceptedIsReadable ==
  ASSUME IsPrepared(file, source, sink), sink \in Nat
  PROVE  /\ IsReadable(file) => IsAccepted
         /\ IsAccepted =>
              (IsReadable(file) <=> \A a \in Indices(file[2]) : EdgesOf(file)[a] \in GraphNodes)
BY DEF IsPrepared, SinkOf, IsAccepted, IsReadable, GraphNodes

LEMMA ReadKeeps ==
  ASSUME CaseInv, ArcsInv, Read PROVE CaseInv' /\ ArcsInv'
<1>1. pc = "read" /\ UNCHANGED <<file, source, sink, draws, builder, arcs, k, pairs>>
  BY DEF Read, Fail, caseVars
<1>2. IsPrepared(file, source, sink) /\ sink \in Nat /\ arcs = <<>> /\ k = 0 /\ pairs = <<>>
  BY <1>1 DEF CaseInv, ArcsInv
<1>3. file \in Files /\ IsIndexValid(file)
  BY <1>2 DEF CaseInv, IsPrepared
<1>4. CASE IsAccepted
  <2>1. pc' = "arcs"
    BY <1>4 DEF Read
  <2>2. CaseInv'
    BY <1>1, <1>2, <1>4, <2>1 DEF CaseInv, Labels, Building, IsAccepted, GraphNodes
  <2>3. Len(arcs) = 0 /\ Indices(Len(arcs)) = {} /\ file[2] >= 0
    BY <1>2, <1>3, FileFacts DEF Indices
  <2>4. arcs \in Seq([from : GraphNodes, to : GraphNodes, capacity : Int])
    BY <1>2
  <2>5. ArcsInv'
    BY <1>1, <1>2, <2>1, <2>3, <2>4 DEF ArcsInv, Building, GraphNodes
  <2> QED
    BY <2>2, <2>5
<1>5. CASE ~IsAccepted
  <2>1. pc' = "failed"
    BY <1>5 DEF Read, Fail
  <2>2. ~IsReadable(file)
    BY <1>2, <1>5, AcceptedIsReadable
  <2> QED
    BY <1>1, <1>2, <2>1, <2>2 DEF CaseInv, ArcsInv, Labels, Building
<1> QED
  BY <1>4, <1>5

LEMMA WeightFacts ==
  ASSUME NEW f \in Files, IsIndexValid(f), HasWeights(f), NEW a \in Indices(f[2])
  PROVE  Weight(f, a) \in Int /\ Weight(f, a) >= -(IntMax + 1)
<1>1. /\ f[1] \in Nat /\ f[2] \in Nat /\ Len(f) \in Nat
      /\ \A i \in 1 .. Len(f) : f[i] \in Int /\ f[i] >= -(IntMax + 1)
  BY FileFacts
<1>2. Len(f) - (3 + f[1] + f[2]) >= f[2]
  BY <1>1 DEF HasWeights, WeightsIn
<1>3. 4 + f[1] + f[2] + a \in 1 .. Len(f)
  <2>1. a \in Int /\ 0 <= a /\ a <= f[2] - 1
    BY <1>1 DEF Indices
  <2>2. PICK n, m, s \in Int : n = f[1] /\ m = f[2] /\ s = Len(f)
    BY <1>1
  <2>3. n >= 0 /\ m >= 0 /\ s - (3 + n + m) >= m /\ 0 <= a /\ a <= m - 1
    BY <1>1, <1>2, <2>1, <2>2
  <2>4. 1 <= 4 + n + m + a /\ 4 + n + m + a <= s /\ 4 + n + m + a \in Int
    BY ONLY <2>1, <2>3, n \in Int, m \in Int, s \in Int
  <2> QED
    BY <2>2, <2>4
<1> QED
  BY <1>1, <1>3 DEF Weight

\* What ReadArc appends.
LEMMA ArcType ==
  ASSUME CaseInv, IsAccepted, NEW a \in Indices(file[2]), EdgesOf(file)[a] \in GraphNodes
  PROVE  ArcOf(a) \in [from : GraphNodes, to : GraphNodes, capacity : Int]
<1>1. file \in Files /\ IsIndexValid(file) /\ draws \in Draws(file)
  BY DEF CaseInv, IsAccepted
<1>2. TailOf(VerOf(file), file[1], a) \in GraphNodes
  BY <1>1, TailIsNode DEF GraphNodes
<1>3. CASE HasWeights(file)
  <2>1. Weight(file, a) \in Int
    BY <1>1, <1>3, WeightFacts
  <2>2. PICK w \in Int : w = Weight(file, a)
    BY <2>1
  <2>3. ArcCapacity(a) = IF w < 0 THEN -w ELSE w
    BY <1>3, <2>2 DEF ArcCapacity
  <2>4. ArcCapacity(a) \in Int
    BY <2>3
  <2> QED
    BY <1>2, <2>4 DEF ArcOf
<1>4. CASE ~HasWeights(file)
  <2>1. draws \in [Indices(file[2]) -> Indices(file[1])]
    BY <1>1, <1>4 DEF Draws
  <2>2. draws[a] \in Int
    BY <2>1 DEF Indices
  <2>3. PICK w \in Int : w = draws[a]
    BY <2>2
  <2>4. ArcCapacity(a) = IF w < 0 THEN -w ELSE w
    BY <1>4, <2>3 DEF ArcCapacity
  <2>5. ArcCapacity(a) \in Int
    BY <2>4
  <2> QED
    BY <1>2, <2>5 DEF ArcOf
<1> QED
  BY <1>3, <1>4

LEMMA ReadArcKeeps ==
  ASSUME CaseInv, ArcsInv, ReadArc PROVE CaseInv' /\ ArcsInv'
<1>1. pc = "arcs" /\ UNCHANGED <<file, source, sink, draws, builder, pairs>> /\ k < file[2]
  BY DEF ReadArc, Fail, caseVars
<1>2. /\ IsPrepared(file, source, sink) /\ sink \in Nat /\ IsAccepted
      /\ arcs \in Seq([from : GraphNodes, to : GraphNodes, capacity : Int])
      /\ k = Len(arcs) /\ pairs = <<>>
      /\ \A a \in Indices(Len(arcs)) : EdgesOf(file)[a] \in GraphNodes /\ arcs[a + 1] = ArcOf(a)
  BY <1>1 DEF CaseInv, ArcsInv, Building
<1>3. file \in Files /\ IsIndexValid(file)
  BY <1>2 DEF CaseInv, IsAccepted
<1>4. k \in Nat /\ file[2] \in Nat
  BY <1>2, <1>3, FileFacts
<1>5. k \in Indices(file[2])
  BY <1>1, <1>4 DEF Indices
<1>6. CASE EdgesOf(file)[k] \in GraphNodes
  <2>1. arcs' = Append(arcs, ArcOf(k)) /\ k' = k + 1 /\ pc' = "arcs"
    BY <1>1, <1>6 DEF ReadArc, ArcOf
  <2>2. ArcOf(k) \in [from : GraphNodes, to : GraphNodes, capacity : Int]
    BY <1>2, <1>5, <1>6, ArcType
  <2>3. PICK T : T = [from : GraphNodes, to : GraphNodes, capacity : Int]
    OBVIOUS
  <2>4. /\ arcs' \in Seq(T) /\ Len(arcs') = k + 1 /\ arcs'[k + 1] = ArcOf(k)
        /\ \A i \in 1 .. k : arcs'[i] = arcs[i]
    BY <1>2, <2>1, <2>2, <2>3
  <2>5. ASSUME NEW a \in Indices(k + 1)
        PROVE  EdgesOf(file)[a] \in GraphNodes /\ arcs'[a + 1] = ArcOf(a)
    <3>1. CASE a = k
      BY <1>6, <2>4, <3>1
    <3>2. CASE a # k
      <4>1. a \in Indices(Len(arcs)) /\ a + 1 \in 1 .. k
        BY <1>2, <1>4, <3>2 DEF Indices
      <4> QED
        BY <1>2, <2>4, <4>1
    <3> QED
      BY <3>1, <3>2
  <2>6. CaseInv'
    BY <1>1, <1>2, <2>1 DEF CaseInv, Labels, Building, IsAccepted, GraphNodes
  <2>7. Len(arcs') <= file[2]
    BY <1>1, <1>4, <2>4
  <2>8. \A a \in Indices(Len(arcs')) : EdgesOf(file)[a] \in GraphNodes /\ arcs'[a + 1] = ArcOf(a)'
    BY <1>1, <2>4, <2>5 DEF ArcOf, ArcCapacity
  <2>9. arcs' \in Seq([from : GraphNodes', to : GraphNodes', capacity : Int])
    BY <1>1, <2>3, <2>4 DEF GraphNodes
  <2>10. GraphNodes' = GraphNodes
    BY <1>1 DEF GraphNodes
  <2>11. ArcsInv'
    BY <1>1, <1>2, <2>1, <2>4, <2>7, <2>8, <2>9, <2>10 DEF ArcsInv, Building
  <2> QED
    BY <2>6, <2>11
<1>7. CASE EdgesOf(file)[k] \notin GraphNodes
  <2>1. pc' = "failed"
    BY <1>7 DEF ReadArc, Fail
  <2>2. ~IsReadable(file)
    BY <1>2, <1>5, <1>7, AcceptedIsReadable
  <2> QED
    BY <1>1, <1>2, <2>1, <2>2 DEF CaseInv, ArcsInv, Labels, Building
<1> QED
  BY <1>6, <1>7

\* Beyond the last arc the file is not looked at any more.
LEMMA LaterKeeps ==
  ASSUME CaseInv, ArcsInv, UNCHANGED <<file, source, sink, draws, builder, arcs>>,
         \/ pc = "arcs" /\ Len(arcs) = file[2] /\ pc' \in Building
         \/ pc \in Building /\ pc' \in Building \cup {"built"}
  PROVE  CaseInv' /\ ArcsInv'
<1>1. /\ IsPrepared(file, source, sink) /\ sink \in Nat /\ IsAccepted
      /\ arcs \in Seq([from : GraphNodes, to : GraphNodes, capacity : Int])
      /\ Len(arcs) <= file[2] /\ Len(arcs) = file[2]
      /\ \A a \in Indices(Len(arcs)) : EdgesOf(file)[a] \in GraphNodes /\ arcs[a + 1] = ArcOf(a)
  BY DEF CaseInv, ArcsInv, Building
<1>2. pc' \in Building \cup {"built"}
  OBVIOUS
<1>3. pc' \in Labels /\ pc' \notin {"prepare", "read", "arcs", "failed"}
  BY <1>2 DEF Labels, Building
<1>4. CaseInv'
  BY <1>1, <1>3 DEF CaseInv, IsAccepted, GraphNodes
<1>5. \A a \in Indices(Len(arcs)) : ArcOf(a)' = ArcOf(a)
  BY DEF ArcOf, ArcCapacity
<1>6. GraphNodes' = GraphNodes
  BY DEF GraphNodes
<1>7. ArcsInv'
  BY <1>1, <1>3, <1>5, <1>6 DEF ArcsInv
<1> QED
  BY <1>4, <1>7

\* Every step that is left is one of the builders'.
Builds ==
  \/ AddDirectedEdge \/ AddArc \/ ArcsMerged \/ AddPair
  \/ AddForward \/ TakeSizes \/ AddReverse \/ NextNode
  \/ Built

LEMMA FileIsKept ==
  ASSUME CaseInv, ArcsInv, [Next]_vars PROVE CaseInv' /\ ArcsInv'
<1>1. CASE ArcsEnd
  <2>1. /\ UNCHANGED <<file, source, sink, draws, builder, arcs>>
        /\ pc = "arcs" /\ k = file[2] /\ pc' \in {"dinic", "merge"}
    BY <1>1 DEF ArcsEnd, caseVars
  <2>2. k = Len(arcs)
    BY <2>1 DEF ArcsInv
  <2> QED
    BY <2>1, <2>2, LaterKeeps DEF Building
<1>2. CASE Builds
  <2>1. UNCHANGED <<file, source, sink, draws, builder, arcs>>
    BY <1>2 DEF Builds, AddDirectedEdge, AddArc, ArcsMerged, AddPair, AddForward, TakeSizes,
                AddReverse, NextNode, Built, caseVars
  <2>2. pc \in Building /\ pc' \in Building \cup {"built"}
    BY <1>2 DEF Builds, AddDirectedEdge, AddArc, ArcsMerged, AddPair, AddForward, TakeSizes,
                AddReverse, NextNode, Built, Building
  <2> QED
    BY <2>1, <2>2, LaterKeeps
<1>3. CASE UNCHANGED vars
  BY <1>3 DEF vars, CaseInv, ArcsInv, IsAccepted, GraphNodes, ArcOf, ArcCapacity
<1> QED
  BY <1>1, <1>2, <1>3, PrepareKeeps, ReadKeeps, ReadArcKeeps DEF Next, Builds

LEMMA InitHolds == Init => CaseInv /\ ArcsInv
BY DEF Init, CaseInv, ArcsInv, Labels, Building

\* ReadersAgree
LEMMA AgreementFollows ==
  ASSUME CaseInv, ArcsInv PROVE ReadersAgree
<1>1. ASSUME pc \in {"arcs", "dinic", "merge"}
      PROVE  source # sink /\ {source, sink} \subseteq GraphNodes
  BY <1>1 DEF CaseInv, IsAccepted
<1>2. ASSUME pc \in {"dinic", "merge"} PROVE IsReadable(file) /\ Len(arcs) = file[2]
  BY <1>2, AcceptedIsReadable DEF CaseInv, ArcsInv, Building
<1>3. ASSUME pc \in {"dinic", "merge"}, NEW a \in Indices(file[2]),
             arcs[a + 1].capacity # Capacities(file, draws)[a]
      PROVE  Capacities(file, draws)[a] = -(IntMax + 1) /\ arcs[a + 1].capacity = IntMax + 1
  <2>1. /\ file \in Files /\ IsIndexValid(file) /\ draws \in Draws(file)
        /\ arcs[a + 1].capacity = ArcCapacity(a)
    <3>1. file \in Files /\ IsIndexValid(file) /\ draws \in Draws(file)
      BY <1>3 DEF CaseInv, IsAccepted
    <3>2. Len(arcs) = file[2] /\ \A b \in Indices(Len(arcs)) : arcs[b + 1] = ArcOf(b)
      BY <1>3 DEF ArcsInv, Building
    <3>3. arcs[a + 1] = ArcOf(a)
      BY <3>2
    <3> QED
      BY <3>1, <3>3 DEF ArcOf
  <2>2. CASE HasWeights(file)
    <3>1. PICK w \in Int : w = Weight(file, a) /\ w >= -(IntMax + 1)
      BY <2>1, <2>2, WeightFacts
    <3>2. ArcCapacity(a) = IF w < 0 THEN -w ELSE w
      BY <2>2, <3>1 DEF ArcCapacity
    <3>3. Capacities(file, draws)[a] = IF w < 0 /\ -w <= IntMax THEN -w ELSE w
      BY <2>2, <3>1 DEF Capacities, Abs
    <3>4. IntMax \in Nat
      BY IntAssumption
    <3>5. w < 0 /\ ~(-w <= IntMax)
      BY <1>3, <2>1, <3>2, <3>3
    <3>6. w = -(IntMax + 1) /\ -w = IntMax + 1
      BY <3>1, <3>4, <3>5
    <3> QED
      BY <2>1, <3>2, <3>3, <3>5, <3>6
  <2>3. CASE ~HasWeights(file)
    <3>1. draws \in [Indices(file[2]) -> Indices(file[1])]
      BY <2>1, <2>3 DEF Draws
    <3>2. PICK w \in Nat : w = draws[a]
      BY <3>1 DEF Indices
    <3>3. ArcCapacity(a) = w /\ Capacities(file, draws)[a] = w
      BY <2>3, <3>2 DEF ArcCapacity, Capacities
    <3> QED
      BY <1>3, <2>1, <3>3
  <2> QED
    BY <2>2, <2>3
<1>4. pc = "failed" => ~IsPrepared(file, source, sink) \/ ~IsReadable(file)
  BY DEF CaseInv
<1> QED
  BY <1>1, <1>2, <1>3, <1>4 DEF ReadersAgree

\* The comparison solvers accept the cases that the tidal solvers accept, with the
\* same edges and capacities (readEgrMaxFlow, readRawECL).
THEOREM ComparisonReadersAgree == Spec => []ReadersAgree
<1>1. CaseInv /\ ArcsInv /\ [Next]_vars => (CaseInv /\ ArcsInv)'
  BY FileIsKept
<1>2. CaseInv /\ ArcsInv => ReadersAgree
  BY AgreementFollows
<1> QED
  BY <1>1, <1>2, InitHolds, PTL DEF Spec

-------------------------------------------------------------------------------
(* Slots that point at each other.                                         *)

Extends(new, old) ==
  \A x \in GraphNodes :
    /\ Len(old[x]) <= Len(new[x])
    /\ \A i \in 1 .. Len(old[x]) : new[x][i] = old[x][i]

LEMMA ExtendedPointsBack ==
  ASSUME NEW old \in Lists, NEW new \in Lists, Extends(new, old),
         NEW x \in GraphNodes, NEW i \in 1 .. Len(old[x]), PointsBack(old, x, i)
  PROVE  PointsBack(new, x, i)
<1> DEFINE s == old[x][i]
<1>1. new[x][i] = s /\ s.to \in GraphNodes /\ s.rev \in Int
  BY SlotFacts DEF Extends
<1>2. s.rev \in Indices(Len(old[s.to]))
  BY DEF PointsBack
<1>3. Len(old[s.to]) \in Nat /\ Len(new[s.to]) \in Nat /\ Len(old[s.to]) <= Len(new[s.to])
  BY <1>1, SlotFacts DEF Extends
<1>4. s.rev \in Indices(Len(new[s.to])) /\ s.rev + 1 \in 1 .. Len(old[s.to])
  <2>1. PICK r, L, M : r = s.rev /\ L = Len(old[s.to]) /\ M = Len(new[s.to])
    OBVIOUS
  <2>2. r \in 0 .. (L - 1) /\ L \in Nat /\ M \in Nat /\ L <= M
    BY <1>2, <1>3, <2>1 DEF Indices
  <2>3. r \in 0 .. (M - 1) /\ r + 1 \in 1 .. L
    BY ONLY <2>2
  <2> QED
    BY <2>1, <2>3 DEF Indices
<1>5. Mate(new, s) = Mate(old, s)
  BY <1>1, <1>4 DEF Mate, Slot, Extends
<1> QED
  BY <1>1, <1>4, <1>5 DEF PointsBack

\* new is old with slot s behind the list of x.
Appended(old, new, x, s) ==
  /\ new \in Lists /\ Extends(new, old)
  /\ Len(new[x]) = Len(old[x]) + 1 /\ new[x][Len(old[x]) + 1] = s
  /\ \A y \in GraphNodes \ {x} : new[y] = old[y]
  /\ \A S : GrowsBy(old, new, S, Crossing(S, x, s.to, s.capacity))

LEMMA AddExtends ==
  ASSUME IsFiniteSet(GraphNodes), NEW lists \in Lists, NEW x \in GraphNodes, NEW s \in Slots
  PROVE  Appended(lists, Add(lists, x, s), x, s)
<1>1. lists \in [GraphNodes -> Seq(Slots)]
  BY DEF Lists
<1> DEFINE new == Add(lists, x, s)
<1>2. /\ new \in [GraphNodes -> Seq(Slots)]
      /\ Len(new[x]) = Len(lists[x]) + 1 /\ new[x][Len(lists[x]) + 1] = s
      /\ \A i \in 1 .. Len(lists[x]) : new[x][i] = lists[x][i]
      /\ \A y \in GraphNodes \ {x} : new[y] = lists[y]
  BY <1>1, AddFacts
<1> HIDE DEF new
<1>3. Extends(new, lists)
  <2> SUFFICES ASSUME NEW y \in GraphNodes
               PROVE  /\ Len(lists[y]) <= Len(new[y])
                      /\ \A i \in 1 .. Len(lists[y]) : new[y][i] = lists[y][i]
    BY DEF Extends
  <2>1. Len(lists[y]) \in Nat
    BY SlotFacts
  <2> QED
    BY <1>2, <2>1
<1>4. \A S : GrowsBy(lists, new, S, Crossing(S, x, s.to, s.capacity))
  BY CutOfAdd DEF new
<1> QED
  BY <1>2, <1>3, <1>4 DEF Lists, new, Appended

LEMMA NodesAreFinite == CaseInv /\ IsAccepted => IsFiniteSet(GraphNodes)
<1> SUFFICES ASSUME CaseInv, IsAccepted PROVE IsFiniteSet(GraphNodes)
  OBVIOUS
<1>1. file[1] \in Nat
  BY FileFacts DEF CaseInv, IsAccepted
<1>2. file[1] - 1 \in Int
  BY <1>1
<1> QED
  BY <1>2, FS_Interval DEF GraphNodes, Indices

\* The two slots of an edge, appended at once, point at each other.
LEMMA TwoSlots ==
  ASSUME IsFiniteSet(GraphNodes), NEW lists \in Lists, AllPointBack(lists),
         NEW u \in GraphNodes, NEW v \in GraphNodes, NEW c \in Int, NEW d \in Int,
         NEW new, new = Add(Add(lists, u, NewSlot(v, c, Len(lists[v]))),
                            v, NewSlot(u, d, Len(lists[u])))
  PROVE  /\ new \in Lists /\ AllPointBack(new)
         /\ \A S : GrowsBy(lists, new, S, Crossing(S, u, v, c) + Crossing(S, v, u, d))
<1>1. PICK s1, s2 : s1 = NewSlot(v, c, Len(lists[v])) /\ s2 = NewSlot(u, d, Len(lists[u]))
  OBVIOUS
<1>2. PICK mid : mid = Add(lists, u, s1)
  OBVIOUS
<1>3. PICK Lu, Lv \in Nat : Lu = Len(lists[u]) /\ Lv = Len(lists[v])
  BY SlotFacts
<1>4. /\ s1 \in Slots /\ s1.to = v /\ s1.capacity = c /\ s1.rev = Lv
      /\ s2 \in Slots /\ s2.to = u /\ s2.capacity = d /\ s2.rev = Lu
  BY <1>1, <1>3 DEF NewSlot, Slots
<1>5. new = Add(mid, v, s2)
  BY <1>1, <1>2
<1>6. /\ mid \in Lists /\ Extends(mid, lists)
      /\ Len(mid[u]) = Lu + 1 /\ mid[u][Lu + 1] = s1
      /\ \A y \in GraphNodes \ {u} : mid[y] = lists[y]
      /\ \A S : GrowsBy(lists, mid, S, Crossing(S, u, v, c))
  <2>1. Appended(lists, mid, u, s1)
    BY <1>2, <1>4, AddExtends
  <2> QED
    BY <1>3, <1>4, <2>1 DEF Appended
<1>7. /\ new \in Lists /\ Extends(new, mid)
      /\ Len(new[v]) = Len(mid[v]) + 1 /\ new[v][Len(mid[v]) + 1] = s2
      /\ \A y \in GraphNodes \ {v} : new[y] = mid[y]
      /\ \A S : GrowsBy(mid, new, S, Crossing(S, v, u, d))
  <2>1. Appended(mid, new, v, s2)
    BY <1>4, <1>5, <1>6, AddExtends
  <2> QED
    BY <1>4, <2>1 DEF Appended
<1>8. \A S : GrowsBy(lists, new, S, Crossing(S, u, v, c) + Crossing(S, v, u, d))
  BY <1>6, <1>7 DEF GrowsBy
<1>9. Extends(new, lists)
  <2> SUFFICES ASSUME NEW y \in GraphNodes
               PROVE  /\ Len(lists[y]) <= Len(new[y])
                      /\ \A i \in 1 .. Len(lists[y]) : new[y][i] = lists[y][i]
    BY DEF Extends
  <2>1. Len(lists[y]) \in Nat /\ Len(mid[y]) \in Nat /\ Len(new[y]) \in Nat
    BY <1>6, <1>7, SlotFacts
  <2>2. Len(lists[y]) <= Len(mid[y]) /\ Len(mid[y]) <= Len(new[y])
    BY <1>6, <1>7 DEF Extends
  <2>3. \A i \in 1 .. Len(lists[y]) : mid[y][i] = lists[y][i]
    BY <1>6 DEF Extends
  <2>4. \A i \in 1 .. Len(mid[y]) : new[y][i] = mid[y][i]
    BY <1>7 DEF Extends
  <2>5. \A i \in 1 .. Len(lists[y]) : i \in 1 .. Len(mid[y])
    BY <2>1, <2>2
  <2> QED
    BY <2>1, <2>2, <2>3, <2>4, <2>5
<1>10. ASSUME NEW x \in GraphNodes, NEW i \in 1 .. Len(new[x]) PROVE PointsBack(new, x, i)
  <2>1. CASE i \in 1 .. Len(lists[x])
    BY <1>7, <1>9, <2>1, ExtendedPointsBack DEF AllPointBack
  <2>2. CASE i \notin 1 .. Len(lists[x]) /\ u = v
    <3>1. Len(mid[v]) = Lu + 1 /\ Len(new[u]) = Lu + 2 /\ Lu = Lv
      <4>1. Len(mid[v]) = Lu + 1 /\ Len(new[u]) = Len(mid[v]) + 1 /\ Lu = Lv
        BY <1>3, <1>6, <1>7, <2>2
      <4> QED
        BY <4>1
    <3>2. x = u /\ (i = Lu + 1 \/ i = Lu + 2)
      <4>1. x = u
        BY <1>6, <1>7, <2>2
      <4> QED
        BY ONLY <1>3, <2>2, <3>1, <4>1
    <3>3. new[u][Lu + 1] = s1 /\ new[u][Lu + 2] = s2
      <4>1. Lu + 1 \in 1 .. Len(mid[u])
        BY <1>6
      <4>2. new[u][Lu + 1] = mid[u][Lu + 1]
        BY <1>7, <4>1 DEF Extends
      <4>3. new[u][(Lu + 1) + 1] = s2 /\ (Lu + 1) + 1 = Lu + 2
        BY <1>7, <2>2, <3>1
      <4> QED
        BY <1>6, <4>2, <4>3
    <3>4. new[x][i].to = x /\ new[x][i].rev = Lu
      BY <1>4, <2>2, <3>1, <3>2, <3>3
    <3> QED
      BY <3>1, <3>2, <3>4 DEF PointsBack, Indices
  <2>3. CASE i \notin 1 .. Len(lists[x]) /\ u # v
    <3>1. /\ mid[v] = lists[v] /\ new[u] = mid[u]
          /\ Len(new[u]) = Lu + 1 /\ new[u][Lu + 1] = s1
          /\ Len(new[v]) = Lv + 1 /\ new[v][Lv + 1] = s2
      BY <1>3, <1>6, <1>7, <2>3
    <3>2. \/ x = u /\ i = Lu + 1
          \/ x = v /\ i = Lv + 1
      <4>1. x = u \/ x = v
        BY <1>6, <1>7, <2>3
      <4> QED
        BY ONLY <1>3, <2>3, <3>1, <4>1
    <3>3. Mate(new, s1) = s2 /\ Mate(new, s2) = s1
      BY <1>4, <3>1 DEF Mate, Slot
    <3>4. Lv \in Indices(Lv + 1) /\ Lu \in Indices(Lu + 1)
      BY DEF Indices
    <3>5. CASE x = u /\ i = Lu + 1
      BY <1>4, <3>1, <3>3, <3>4, <3>5 DEF PointsBack
    <3>6. CASE x = v /\ i = Lv + 1
      BY <1>4, <3>1, <3>3, <3>4, <3>6 DEF PointsBack
    <3> QED
      BY <3>2, <3>5, <3>6
  <2> QED
    BY <2>1, <2>2, <2>3
<1> QED
  BY <1>7, <1>8, <1>10 DEF AllPointBack

-------------------------------------------------------------------------------
(* From arcs to lists.                                                     *)

Arcs == [from : GraphNodes, to : GraphNodes, capacity : Int]

LEMMA BuildFacts ==
  ASSUME CaseInv, ArcsInv, TypeInv, pc \in Building
  PROVE  /\ IsFiniteSet(GraphNodes) /\ graph \in Lists /\ k \in Nat
         /\ pairs \in Seq(Pairs) /\ Len(pairs) \in Nat /\ DOMAIN pairs = 1 .. Len(pairs)
         /\ \A j \in 1 .. Len(pairs) : pairs[j] \in Pairs
         /\ arcs \in Seq(Arcs) /\ Len(arcs) \in Nat /\ DOMAIN arcs = 1 .. Len(arcs)
         /\ \A j \in 1 .. Len(arcs) : arcs[j] \in Arcs
<1>1. IsFiniteSet(GraphNodes)
  BY NodesAreFinite DEF CaseInv, Building
<1>2. graph \in Lists /\ k \in Nat /\ pairs \in Seq(Pairs)
  BY DEF TypeInv
<1>3. arcs \in Seq(Arcs)
  BY DEF ArcsInv, Building, Arcs
<1> QED
  BY <1>1, <1>2, <1>3

LEMMA TermTypes ==
  ASSUME CaseInv, ArcsInv, TypeInv, pc \in Building, NEW S
  PROVE  /\ \A i \in 1 .. Len(arcs) : OfArcs(S)[i] \in Int
         /\ \A j \in 1 .. Len(pairs) : Forwards(S)[j] \in Int /\ Backwards(S)[j] \in Int
<1>1. ASSUME NEW i \in 1 .. Len(arcs) PROVE OfArcs(S)[i] \in Int
  BY <1>1, BuildFacts DEF OfArcs, Crossing, Arcs
<1>2. ASSUME NEW j \in 1 .. Len(pairs) PROVE Forwards(S)[j] \in Int /\ Backwards(S)[j] \in Int
  <2>1. j \in DOMAIN pairs /\ pairs[j].forward \in Int /\ pairs[j].reverse \in Int
    BY BuildFacts DEF Pairs
  <2> QED
    BY <2>1 DEF Forwards, Backwards, Ahead, Against, Crossing
<1> QED
  BY <1>1, <1>2

LEMMA SumNext ==
  ASSUME NEW f, NEW n \in Nat, \A i \in 1 .. (n + 1) : f[i] \in Int
  PROVE  /\ SumOver(f, 1 .. (n + 1)) = SumOver(f, 1 .. n) + f[n + 1]
         /\ SumOver(f, 1 .. n) \in Int
<1>1. 1 .. (n + 1) = (1 .. n) \cup {n + 1} /\ n + 1 \notin 1 .. n /\ IsFiniteSet(1 .. n)
  BY FS_Interval
<1>2. SumOver(f, (1 .. n) \cup {n + 1}) = f[n + 1] + SumOver(f, 1 .. n)
  BY <1>1, SumInsert
<1>3. SumOver(f, 1 .. n) \in Int /\ f[n + 1] \in Int
  BY <1>1, SumType
<1>4. f[n + 1] + SumOver(f, 1 .. n) = SumOver(f, 1 .. n) + f[n + 1]
  BY ONLY <1>3
<1>5. SumOver(f, 1 .. (n + 1)) = SumOver(f, (1 .. n) \cup {n + 1})
  BY <1>1
<1> QED
  BY ONLY <1>2, <1>3, <1>4, <1>5

Empty == [x \in GraphNodes |-> <<>>]

LEMMA EmptyFacts ==
  ASSUME IsFiniteSet(GraphNodes)
  PROVE  /\ Empty \in Lists /\ AllPointBack(Empty)
         /\ \A x \in GraphNodes : Len(Empty[x]) = 0
         /\ \A S : CutOfLists(Empty, S) = 0
<1>1. Empty \in Lists
  BY DEF Empty, Lists
<1>2. \A x \in GraphNodes : Len(Empty[x]) = 0 /\ DOMAIN Empty[x] = {}
  BY DEF Empty
<1>3. AllPointBack(Empty)
  BY <1>2 DEF AllPointBack
<1>4. ASSUME NEW S PROVE CutOfLists(Empty, S) = 0
  <2> DEFINE f == [x \in GraphNodes |-> Outflow(Empty[x], x, S)]
  <2>1. DOMAIN Empty = GraphNodes
    BY DEF Empty
  <2>2. CutOfLists(Empty, S) = SumOver(f, GraphNodes)
    BY <2>1, CutIsOutflow
  <2>3. \A x \in GraphNodes : f[x] = 0
    BY <1>2, SumOfNone DEF Outflow
  <2> HIDE DEF f
  <2> QED
    BY <2>2, <2>3, SumOfZeros
<1> QED
  BY <1>1, <1>2, <1>3, <1>4

LEMMA ArcsEndKeeps ==
  ASSUME CaseInv, ArcsInv, BuildInv, ArcsEnd, CaseInv', ArcsInv' PROVE BuildInv'
<1>1. /\ pc = "arcs" /\ k' = 0 /\ graph' = Empty /\ UNCHANGED <<file, builder, arcs, pairs>>
      /\ pc' = IF builder = "dinic" THEN "dinic" ELSE "merge"
  BY DEF ArcsEnd, caseVars, Empty
<1>2. IsFiniteSet(GraphNodes)
  BY <1>1, NodesAreFinite DEF CaseInv
<1>3. pairs = <<>> /\ k = Len(arcs)
  BY <1>1 DEF ArcsInv
<1>4. /\ graph' \in Lists /\ AllPointBack(graph')
      /\ \A S : CutOfLists(graph', S) = 0
  BY <1>1, <1>2, EmptyFacts
<1>5. GraphNodes' = GraphNodes /\ Lists' = Lists /\ Empty' = Empty /\ Len(arcs) \in Nat
  BY <1>1, <1>3 DEF GraphNodes, Lists, Slots, Empty, BuildInv, TypeInv
<1>6. TypeInv'
  BY <1>1, <1>3, <1>4, <1>5 DEF TypeInv
<1>7. 1 .. 0 = {} /\ DOMAIN pairs = {}
  BY <1>3
<1>8. MergeInv'
  <2>1. /\ PairsDiffer(pairs)'
    BY <1>1, <1>7 DEF PairsDiffer
  <2>2. ASSUME NEW S
        PROVE  (SumOver(Forwards(S), DOMAIN pairs) + SumOver(Backwards(S), DOMAIN pairs))'
                  = SumOver(OfArcs(S)', 1 .. 0)
    <3>1. \A f : SumOver(f, {}) = 0
      BY SumOfNone
    <3> QED
      BY <1>1, <1>7, <3>1
  <2> QED
    BY <1>1, <1>5, <2>1, <2>2 DEF MergeInv, Empty
<1>9. DirectInv'
  <2>1. \A S : SumOver(OfArcs(S)', 1 .. 0) = 0
    BY <1>7, SumOfNone
  <2>2. AllPointBack(graph)'
    BY <1>4, <1>5 DEF AllPointBack, PointsBack, Mate, Slot
  <2> QED
    BY <1>1, <1>4, <1>5, <2>1, <2>2 DEF DirectInv
<1>10. FirstInv' /\ SecondInv' /\ BuildersKeepCuts' /\ MatesAreMutual'
  BY <1>1 DEF FirstInv, SecondInv, BuildersKeepCuts, MatesAreMutual
<1> QED
  BY <1>6, <1>8, <1>9, <1>10 DEF BuildInv

\* What the steps of the builders have in common.
LEMMA BuildStep ==
  ASSUME UNCHANGED <<file, arcs, pairs, builder>>
  PROVE  /\ GraphNodes' = GraphNodes /\ Lists' = Lists /\ Pairs' = Pairs
         /\ \A S : /\ OfArcs(S)' = OfArcs(S) /\ Forwards(S)' = Forwards(S)
                   /\ Backwards(S)' = Backwards(S) /\ CutOfArcs(arcs, S)' = CutOfArcs(arcs, S)
BY DEF GraphNodes, Lists, Slots, Pairs, OfArcs, Forwards, Backwards, Ahead, Against, CutOfArcs

LEMMA BacksAreKept ==
  ASSUME UNCHANGED file, AllPointBack(graph') PROVE AllPointBack(graph)'
BY DEF AllPointBack, PointsBack, Mate, Slot, GraphNodes

LEMMA AddDirectedEdgeKeeps ==
  ASSUME CaseInv, ArcsInv, BuildInv, AddDirectedEdge PROVE BuildInv'
<1>1. /\ pc = "dinic" /\ pc' = "dinic" /\ k < Len(arcs) /\ k' = k + 1
      /\ UNCHANGED <<file, builder, arcs, pairs>>
      /\ graph' = Add(Add(graph, Arc.from, NewSlot(Arc.to, Arc.capacity, Len(graph[Arc.to]))),
                      Arc.to, NewSlot(Arc.from, 0, Len(graph[Arc.from])))
  BY DEF AddDirectedEdge, caseVars
<1>2. pc \in Building /\ TypeInv
  BY <1>1 DEF Building, BuildInv
<1>3. /\ IsFiniteSet(GraphNodes) /\ graph \in Lists /\ k \in Nat /\ Len(arcs) \in Nat
      /\ DOMAIN arcs = 1 .. Len(arcs)
      /\ \A j \in 1 .. Len(arcs) : arcs[j] \in Arcs
  BY <1>2, BuildFacts
<1>4. k + 1 \in 1 .. Len(arcs) /\ k + 1 <= Len(arcs)
  BY <1>1, <1>3
<1>5. Arc = arcs[k + 1] /\ Arc.from \in GraphNodes /\ Arc.to \in GraphNodes /\ Arc.capacity \in Int
  BY <1>3, <1>4 DEF Arc, Arcs
<1>6. PICK u, v, c : u = Arc.from /\ v = Arc.to /\ c = Arc.capacity
  OBVIOUS
<1>7. /\ AllPointBack(graph) /\ builder = "dinic"
      /\ \A S \in SUBSET GraphNodes : CutOfLists(graph, S) = SumOver(OfArcs(S), 1 .. k)
  BY <1>1 DEF BuildInv, DirectInv
<1>8. /\ graph' \in Lists /\ AllPointBack(graph')
      /\ \A S : GrowsBy(graph, graph', S, Crossing(S, u, v, c) + Crossing(S, v, u, 0))
  <2>1. PICK new : new = graph'
    OBVIOUS
  <2>2. new = Add(Add(graph, u, NewSlot(v, c, Len(graph[v]))),
                  v, NewSlot(u, 0, Len(graph[u])))
    BY <1>1, <1>6, <2>1
  <2>3. u \in GraphNodes /\ v \in GraphNodes /\ c \in Int /\ 0 \in Int
    BY <1>5, <1>6
  <2>4. /\ new \in Lists /\ AllPointBack(new)
        /\ \A S : GrowsBy(graph, new, S, Crossing(S, u, v, c) + Crossing(S, v, u, 0))
    BY <1>3, <1>7, <2>2, <2>3, TwoSlots
  <2> QED
    BY <2>1, <2>4
<1>9. ASSUME NEW S \in SUBSET GraphNodes
      PROVE  CutOfLists(graph', S) = SumOver(OfArcs(S), 1 .. (k + 1))
  <2>1. Crossing(S, v, u, 0) = 0 /\ Crossing(S, u, v, c) \in Int
    BY <1>5, <1>6 DEF Crossing
  <2>2. OfArcs(S)[k + 1] = Crossing(S, u, v, c)
    BY <1>3, <1>4, <1>5, <1>6 DEF OfArcs
  <2>3. \A i \in 1 .. (k + 1) : OfArcs(S)[i] \in Int
    BY <1>2, <1>3, <1>4, TermTypes
  <2>4. SumOver(OfArcs(S), 1 .. (k + 1)) = SumOver(OfArcs(S), 1 .. k) + OfArcs(S)[k + 1]
    BY <1>3, <2>3, SumNext
  <2>5. /\ CutOfLists(graph', S) = CutOfLists(graph, S) + (Crossing(S, u, v, c) + Crossing(S, v, u, 0))
        /\ CutOfLists(graph, S) \in Int
    BY <1>8 DEF GrowsBy
  <2>6. CutOfLists(graph, S) = SumOver(OfArcs(S), 1 .. k)
    BY <1>7
  <2> QED
    BY ONLY <2>1, <2>2, <2>4, <2>5, <2>6
<1>10. AllPointBack(graph)'
  BY <1>1, <1>8, BacksAreKept
<1>11. DirectInv'
  BY <1>1, <1>4, <1>7, <1>9, <1>10, BuildStep DEF DirectInv
<1>12. TypeInv'
  BY <1>1, <1>2, <1>3, <1>8, BuildStep DEF TypeInv
<1>13. MergeInv' /\ FirstInv' /\ SecondInv' /\ BuildersKeepCuts' /\ MatesAreMutual'
  BY <1>1 DEF MergeInv, FirstInv, SecondInv, BuildersKeepCuts, MatesAreMutual
<1> QED
  BY <1>11, <1>12, <1>13 DEF BuildInv

LEMMA AddPairKeeps ==
  ASSUME CaseInv, ArcsInv, BuildInv, AddPair PROVE BuildInv'
<1> DEFINE p == NextPair
<1>1. /\ pc = "pairs" /\ pc' = "pairs" /\ k < Len(pairs) /\ k' = k + 1
      /\ UNCHANGED <<file, builder, arcs, pairs>>
      /\ graph' = Add(Add(graph, p.from, NewSlot(p.to, p.forward, Len(graph[p.to]))),
                      p.to, NewSlot(p.from, p.reverse, Len(graph[p.from])))
  BY DEF AddPair, caseVars
<1>2. pc \in Building /\ TypeInv
  BY <1>1 DEF Building, BuildInv
<1>3. /\ IsFiniteSet(GraphNodes) /\ graph \in Lists /\ k \in Nat /\ Len(pairs) \in Nat
      /\ DOMAIN pairs = 1 .. Len(pairs)
      /\ \A j \in 1 .. Len(pairs) : pairs[j] \in Pairs
  BY <1>2, BuildFacts
<1>4. k + 1 \in 1 .. Len(pairs) /\ k + 1 <= Len(pairs)
  BY <1>1, <1>3
<1>5. /\ p = pairs[k + 1] /\ p.from \in GraphNodes /\ p.to \in GraphNodes
      /\ p.forward \in Int /\ p.reverse \in Int
  BY <1>3, <1>4 DEF NextPair, Pairs
<1>6. PICK u, v, c, d : u = p.from /\ v = p.to /\ c = p.forward /\ d = p.reverse
  OBVIOUS
<1>7. /\ AllPointBack(graph)
      /\ \A S \in SUBSET GraphNodes :
           CutOfLists(graph, S) = SumOver(Forwards(S), 1 .. k) + SumOver(Backwards(S), 1 .. k)
  BY <1>1 DEF BuildInv, DirectInv
<1>8. /\ graph' \in Lists /\ AllPointBack(graph')
      /\ \A S : GrowsBy(graph, graph', S, Crossing(S, u, v, c) + Crossing(S, v, u, d))
  BY ZenonT(60), <1>1, <1>3, <1>5, <1>6, <1>7, TwoSlots
<1>9. ASSUME NEW S \in SUBSET GraphNodes
      PROVE  CutOfLists(graph', S)
               = SumOver(Forwards(S), 1 .. (k + 1)) + SumOver(Backwards(S), 1 .. (k + 1))
  <2>1. Crossing(S, v, u, d) \in Int /\ Crossing(S, u, v, c) \in Int
    BY <1>5, <1>6 DEF Crossing
  <2>2. Forwards(S)[k + 1] = Crossing(S, u, v, c) /\ Backwards(S)[k + 1] = Crossing(S, v, u, d)
    BY <1>3, <1>4, <1>5, <1>6 DEF Forwards, Backwards, Ahead, Against
  <2>3. \A i \in 1 .. (k + 1) : Forwards(S)[i] \in Int /\ Backwards(S)[i] \in Int
    BY <1>2, <1>3, <1>4, TermTypes
  <2>4. /\ SumOver(Forwards(S), 1 .. (k + 1)) = SumOver(Forwards(S), 1 .. k) + Forwards(S)[k + 1]
        /\ SumOver(Forwards(S), 1 .. k) \in Int
        /\ SumOver(Backwards(S), 1 .. (k + 1)) = SumOver(Backwards(S), 1 .. k) + Backwards(S)[k + 1]
        /\ SumOver(Backwards(S), 1 .. k) \in Int
    BY <1>3, <2>3, SumNext
  <2>5. CutOfLists(graph', S) = CutOfLists(graph, S) + (Crossing(S, u, v, c) + Crossing(S, v, u, d))
    BY <1>8 DEF GrowsBy
  <2>6. CutOfLists(graph, S) = SumOver(Forwards(S), 1 .. k) + SumOver(Backwards(S), 1 .. k)
    BY <1>7
  <2> QED
    BY ONLY <2>1, <2>2, <2>4, <2>5, <2>6
<1>10. AllPointBack(graph)'
  BY <1>1, <1>8, BacksAreKept
<1>11. DirectInv'
  BY <1>1, <1>4, <1>9, <1>10, BuildStep DEF DirectInv
<1>12. TypeInv'
  BY <1>1, <1>2, <1>3, <1>8, BuildStep DEF TypeInv
<1>13. MergeInv'
  <2>1. \A S \in SUBSET GraphNodes :
          SumOver(Forwards(S), DOMAIN pairs) + SumOver(Backwards(S), DOMAIN pairs)
            = CutOfArcs(arcs, S)
    BY <1>1 DEF BuildInv, MergeInv
  <2> QED
    BY <1>1, <2>1, BuildStep DEF MergeInv
<1>14. FirstInv' /\ SecondInv' /\ BuildersKeepCuts' /\ MatesAreMutual'
  BY <1>1 DEF FirstInv, SecondInv, BuildersKeepCuts, MatesAreMutual
<1> QED
  BY <1>11, <1>12, <1>13, <1>14 DEF BuildInv

-------------------------------------------------------------------------------
(* Merging arcs into pairs.                                                *)

\* What the pairs add to the capacity that leaves S.
CutOfPairs(list, S) ==
  SumOver(Ahead(list, S), DOMAIN list) + SumOver(Against(list, S), DOMAIN list)

LEMMA PairTerms ==
  ASSUME NEW list \in Seq(Pairs), NEW S
  PROVE  /\ DOMAIN list = 1 .. Len(list) /\ Len(list) \in Nat /\ IsFiniteSet(DOMAIN list)
         /\ \A j \in DOMAIN list : Ahead(list, S)[j] \in Int /\ Against(list, S)[j] \in Int
<1>1. /\ DOMAIN list = 1 .. Len(list) /\ Len(list) \in Nat
      /\ \A j \in DOMAIN list : list[j] \in Pairs
  OBVIOUS
<1>2. IsFiniteSet(DOMAIN list)
  BY <1>1, FS_Interval
<1>3. ASSUME NEW j \in DOMAIN list
      PROVE  Ahead(list, S)[j] \in Int /\ Against(list, S)[j] \in Int
  <2>1. list[j].forward \in Int /\ list[j].reverse \in Int
    BY <1>1 DEF Pairs
  <2> QED
    BY <2>1 DEF Ahead, Against, Crossing
<1> QED
  BY <1>1, <1>2, <1>3

\* new has the cuts of old and those of an arc.
GainsArc(old, new, arc, S) ==
  CutOfPairs(new, S) = CutOfPairs(old, S) + Crossing(S, arc.from, arc.to, arc.capacity)

LEMMA NewPairGains ==
  ASSUME NEW old \in Seq(Pairs), NEW arc \in Arcs, NEW S
  PROVE  /\ Append(old, NewPair(arc)) \in Seq(Pairs)
         /\ GainsArc(old, Append(old, NewPair(arc)), arc, S)
<1>1. PICK p : p = NewPair(arc)
  OBVIOUS
<1>2. /\ p \in Pairs /\ p.from = arc.from /\ p.to = arc.to /\ p.forward = arc.capacity
      /\ p.reverse = 0
  BY <1>1 DEF NewPair, Arcs, Pairs
<1>3. PICK n \in Nat : n = Len(old)
  OBVIOUS
<1>4. PICK new : new = Append(old, p)
  OBVIOUS
<1>5. /\ new \in Seq(Pairs) /\ DOMAIN old = 1 .. n /\ DOMAIN new = 1 .. (n + 1)
      /\ new[n + 1] = p /\ \A i \in 1 .. n : new[i] = old[i]
  BY <1>2, <1>3, <1>4
<1>6. PICK f, g, h, j : f = Ahead(old, S) /\ g = Against(old, S)
                        /\ h = Ahead(new, S) /\ j = Against(new, S)
  OBVIOUS
<1>7. /\ \A i \in 1 .. n : f[i] \in Int /\ g[i] \in Int
      /\ \A i \in 1 .. (n + 1) : h[i] \in Int /\ j[i] \in Int
      /\ IsFiniteSet(1 .. n)
  BY <1>5, <1>6, PairTerms
<1>8. \A i \in 1 .. n : i \in 1 .. (n + 1)
  OBVIOUS
<1>9. \A i \in 1 .. n : h[i] = f[i] /\ j[i] = g[i]
  BY <1>5, <1>6, <1>8 DEF Ahead, Against
<1>10. /\ SumOver(h, 1 .. n) = SumOver(f, 1 .. n) /\ SumOver(j, 1 .. n) = SumOver(g, 1 .. n)
       /\ SumOver(f, 1 .. n) \in Int /\ SumOver(g, 1 .. n) \in Int
  BY <1>7, <1>9, SumSame, SumType
<1>11. /\ SumOver(h, 1 .. (n + 1)) = SumOver(h, 1 .. n) + h[n + 1]
       /\ SumOver(j, 1 .. (n + 1)) = SumOver(j, 1 .. n) + j[n + 1]
  BY <1>7, SumNext
<1>12. n + 1 \in 1 .. (n + 1)
  OBVIOUS
<1>13. h[n + 1] = Crossing(S, arc.from, arc.to, arc.capacity) /\ j[n + 1] = 0
  BY <1>2, <1>5, <1>6, <1>12 DEF Ahead, Against, Crossing
<1>14. h[n + 1] \in Int
  BY <1>7, <1>12
<1>15. SumOver(h, 1 .. (n + 1)) + SumOver(j, 1 .. (n + 1))
         = SumOver(f, 1 .. n) + SumOver(g, 1 .. n) + h[n + 1]
  BY ONLY <1>10, <1>11, <1>13, <1>14
<1> QED
  BY <1>1, <1>4, <1>5, <1>6, <1>13, <1>15 DEF GainsArc, CutOfPairs

\* The capacity of pair i grows by c, in one of its directions.
LEMMA ForwardGains ==
  ASSUME NEW old \in Seq(Pairs), NEW arc \in Arcs, NEW S, NEW i \in DOMAIN old,
         old[i].from = arc.from, old[i].to = arc.to,
         NEW new, DOMAIN new = DOMAIN old, \A j \in DOMAIN old \ {i} : new[j] = old[j],
         new[i] = [old[i] EXCEPT !.forward = @ + arc.capacity], new \in Seq(Pairs)
  PROVE  GainsArc(old, new, arc, S)
<1>1. PICK N : N = DOMAIN old
  OBVIOUS
<1>2. PICK f, g, h, j : f = Ahead(old, S) /\ g = Against(old, S)
                        /\ h = Ahead(new, S) /\ j = Against(new, S)
  OBVIOUS
<1>3. /\ \A q \in N : f[q] \in Int /\ g[q] \in Int /\ h[q] \in Int /\ j[q] \in Int
      /\ IsFiniteSet(N) /\ i \in N
  BY <1>1, <1>2, PairTerms
<1>4. PICK p \in Pairs : p = old[i]
  OBVIOUS
<1>5. /\ new[i].from = p.from /\ new[i].to = p.to /\ new[i].reverse = p.reverse
      /\ new[i].forward = p.forward + arc.capacity
  BY <1>4 DEF Pairs
<1>6. p.forward \in Int /\ arc.capacity \in Int
  BY DEF Pairs, Arcs
<1>7. \A q \in N : j[q] = g[q]
  <2> SUFFICES ASSUME NEW q \in N PROVE j[q] = g[q]
    OBVIOUS
  <2>1. CASE q = i
    BY <1>1, <1>2, <1>4, <1>5, <2>1 DEF Against
  <2>2. CASE q # i
    BY <1>1, <1>2, <2>2 DEF Against
  <2> QED
    BY <2>1, <2>2
<1>8. \A q \in N \ {i} : h[q] = f[q]
  BY <1>1, <1>2 DEF Ahead
<1>9. /\ f[i] = Crossing(S, arc.from, arc.to, p.forward)
      /\ h[i] = Crossing(S, arc.from, arc.to, p.forward + arc.capacity)
  BY <1>1, <1>2, <1>3, <1>4, <1>5 DEF Ahead
<1>10. h[i] = f[i] + Crossing(S, arc.from, arc.to, arc.capacity)
  BY <1>6, <1>9 DEF Crossing
<1>11. SumOver(h, N) = SumOver(f, N) + h[i] - f[i] /\ SumOver(f, N) \in Int
  BY <1>3, <1>8, SumUpdate, SumType
<1>12. SumOver(j, N) = SumOver(g, N) /\ SumOver(g, N) \in Int
  BY <1>3, <1>7, SumSame, SumType
<1>13. Crossing(S, arc.from, arc.to, arc.capacity) \in Int /\ f[i] \in Int
  BY <1>3, <1>6 DEF Crossing
<1>14. SumOver(h, N) + SumOver(j, N)
         = SumOver(f, N) + SumOver(g, N) + Crossing(S, arc.from, arc.to, arc.capacity)
  BY ONLY <1>10, <1>11, <1>12, <1>13
<1> QED
  BY <1>1, <1>2, <1>14 DEF GainsArc, CutOfPairs

LEMMA ReverseGains ==
  ASSUME NEW old \in Seq(Pairs), NEW arc \in Arcs, NEW S, NEW i \in DOMAIN old,
         old[i].from = arc.to, old[i].to = arc.from,
         NEW new, DOMAIN new = DOMAIN old, \A j \in DOMAIN old \ {i} : new[j] = old[j],
         new[i] = [old[i] EXCEPT !.reverse = @ + arc.capacity], new \in Seq(Pairs)
  PROVE  GainsArc(old, new, arc, S)
<1>1. PICK N : N = DOMAIN old
  OBVIOUS
<1>2. PICK f, g, h, j : f = Ahead(old, S) /\ g = Against(old, S)
                        /\ h = Ahead(new, S) /\ j = Against(new, S)
  OBVIOUS
<1>3. /\ \A q \in N : f[q] \in Int /\ g[q] \in Int /\ h[q] \in Int /\ j[q] \in Int
      /\ IsFiniteSet(N) /\ i \in N
  BY <1>1, <1>2, PairTerms
<1>4. PICK p \in Pairs : p = old[i]
  OBVIOUS
<1>5. /\ new[i].from = p.from /\ new[i].to = p.to /\ new[i].forward = p.forward
      /\ new[i].reverse = p.reverse + arc.capacity
  BY <1>4 DEF Pairs
<1>6. p.reverse \in Int /\ arc.capacity \in Int
  BY DEF Pairs, Arcs
<1>7. \A q \in N : h[q] = f[q]
  <2> SUFFICES ASSUME NEW q \in N PROVE h[q] = f[q]
    OBVIOUS
  <2>1. CASE q = i
    BY <1>1, <1>2, <1>4, <1>5, <2>1 DEF Ahead
  <2>2. CASE q # i
    BY <1>1, <1>2, <2>2 DEF Ahead
  <2> QED
    BY <2>1, <2>2
<1>8. \A q \in N \ {i} : j[q] = g[q]
  BY <1>1, <1>2 DEF Against
<1>9. /\ g[i] = Crossing(S, arc.from, arc.to, p.reverse)
      /\ j[i] = Crossing(S, arc.from, arc.to, p.reverse + arc.capacity)
  BY <1>1, <1>2, <1>3, <1>4, <1>5 DEF Against
<1>10. j[i] = g[i] + Crossing(S, arc.from, arc.to, arc.capacity)
  BY <1>6, <1>9 DEF Crossing
<1>11. SumOver(j, N) = SumOver(g, N) + j[i] - g[i] /\ SumOver(g, N) \in Int
  BY <1>3, <1>8, SumUpdate, SumType
<1>12. SumOver(h, N) = SumOver(f, N) /\ SumOver(f, N) \in Int
  BY <1>3, <1>7, SumSame, SumType
<1>13. Crossing(S, arc.from, arc.to, arc.capacity) \in Int /\ g[i] \in Int
  BY <1>3, <1>6 DEF Crossing
<1>14. SumOver(h, N) + SumOver(j, N)
         = SumOver(f, N) + SumOver(g, N) + Crossing(S, arc.from, arc.to, arc.capacity)
  BY ONLY <1>10, <1>11, <1>12, <1>13
<1> QED
  BY <1>1, <1>2, <1>14 DEF GainsArc, CutOfPairs

\* Which nodes the pairs join is kept.
LEMMA DifferenceIsKept ==
  ASSUME NEW old, NEW new, DOMAIN new = DOMAIN old, PairsDiffer(old),
         \A j \in DOMAIN old : new[j].from = old[j].from /\ new[j].to = old[j].to
  PROVE  PairsDiffer(new)
BY DEF PairsDiffer

LEMMA MergeGains ==
  ASSUME pairs \in Seq(Pairs), PairsDiffer(pairs), NEW arc \in Arcs
  PROVE  /\ Merge(arc) \in Seq(Pairs) /\ PairsDiffer(Merge(arc))
         /\ \A S : GainsArc(pairs, Merge(arc), arc, S)
<1> DEFINE same == Found(arc.from, arc.to)
           opposite == Found(arc.to, arc.from)
<1>1. PICK old \in Seq(Pairs) : old = pairs
  OBVIOUS
<1>2. PICK n \in Nat : n = Len(old)
  OBVIOUS
<1>3. DOMAIN old = 1 .. n /\ \A j \in 1 .. n : old[j] \in Pairs
  BY <1>2
<1>4. arc.from \in GraphNodes /\ arc.to \in GraphNodes /\ arc.capacity \in Int
  BY DEF Arcs
<1>5. CASE same = {} /\ opposite = {}
  <2>1. PICK p : p = NewPair(arc)
    OBVIOUS
  <2>2. p.from = arc.from /\ p.to = arc.to /\ p \in Pairs
    BY <1>4, <2>1 DEF NewPair, Pairs
  <2>3. PICK new : new = Append(old, p)
    OBVIOUS
  <2>4. Merge(arc) = new
    BY <1>1, <1>5, <2>1, <2>3 DEF Merge
  <2>5. /\ DOMAIN new = 1 .. (n + 1) /\ new[n + 1] = p
        /\ \A j \in 1 .. n : new[j] = old[j]
    BY <1>2, <2>2, <2>3
  <2>6. \A j \in 1 .. n : /\ ~(old[j].from = p.from /\ old[j].to = p.to)
                          /\ ~(old[j].from = p.to /\ old[j].to = p.from)
    BY <1>1, <1>3, <1>5, <2>2 DEF Found
  <2>7. PairsDiffer(new)
    <3> SUFFICES ASSUME NEW i \in 1 .. (n + 1), NEW j \in 1 .. (n + 1), i # j
                 PROVE  /\ ~(new[i].from = new[j].from /\ new[i].to = new[j].to)
                        /\ ~(new[i].from = new[j].to /\ new[i].to = new[j].from)
      BY <2>5 DEF PairsDiffer
    <3>1. \/ i \in 1 .. n /\ j \in 1 .. n
          \/ i = n + 1 /\ j \in 1 .. n
          \/ i \in 1 .. n /\ j = n + 1
      OBVIOUS
    <3>2. CASE i \in 1 .. n /\ j \in 1 .. n
      BY <1>1, <1>3, <2>5, <3>2 DEF PairsDiffer
    <3>3. CASE i = n + 1 /\ j \in 1 .. n
      BY <2>5, <2>6, <3>3
    <3>4. CASE i \in 1 .. n /\ j = n + 1
      BY <2>5, <2>6, <3>4
    <3> QED
      BY <3>1, <3>2, <3>3, <3>4
  <2>8. new \in Seq(Pairs) /\ \A S : GainsArc(old, new, arc, S)
    BY <2>1, <2>3, NewPairGains
  <2> QED
    BY <1>1, <2>4, <2>7, <2>8
<1>6. CASE same # {}
  <2>1. PICK i \in 1 .. n : old[i].from = arc.from /\ old[i].to = arc.to
    BY <1>1, <1>3, <1>6 DEF Found
  <2>2. same = {i}
    BY <1>1, <1>3, <2>1 DEF Found, PairsDiffer
  <2>3. PICK new : new = Merge(arc)
    OBVIOUS
  <2>4. /\ DOMAIN new = 1 .. n
        /\ \A j \in (1 .. n) \ {i} : new[j] = old[j]
        /\ new[i] = [old[i] EXCEPT !.forward = @ + arc.capacity]
    BY <1>1, <1>3, <2>1, <2>2, <2>3 DEF Merge
  <2>5. new[i] \in Pairs /\ new[i].from = old[i].from /\ new[i].to = old[i].to
    <3>1. PICK p \in Pairs : p = old[i]
      BY <1>3, <2>1
    <3>2. p.forward + arc.capacity \in Int
      BY <1>4 DEF Pairs
    <3> QED
      BY <2>4, <3>1, <3>2 DEF Pairs
  <2>6. \A j \in 1 .. n : /\ new[j] \in Pairs /\ new[j].from = old[j].from /\ new[j].to = old[j].to
    BY <1>3, <2>4, <2>5
  <2>7. new = [j \in 1 .. n |-> new[j]]
    BY <1>1, <1>3, <2>2, <2>3 DEF Merge
  <2>8. new \in Seq(Pairs)
    BY SMTT(30), <2>6, <2>7
  <2>9. \A S : GainsArc(old, new, arc, S)
    BY <1>3, <2>1, <2>4, <2>8, ForwardGains
  <2>10. PairsDiffer(new)
    BY <1>1, <1>3, <2>4, <2>6, DifferenceIsKept
  <2> QED
    BY <1>1, <2>3, <2>8, <2>9, <2>10
<1>7. CASE same = {} /\ opposite # {}
  <2>1. PICK i \in 1 .. n : old[i].from = arc.to /\ old[i].to = arc.from
    BY <1>1, <1>3, <1>7 DEF Found
  <2>2. opposite = {i} /\ same = {}
    BY <1>1, <1>3, <1>7, <2>1 DEF Found, PairsDiffer
  <2>3. PICK new : new = Merge(arc)
    OBVIOUS
  <2>4. /\ DOMAIN new = 1 .. n
        /\ \A j \in (1 .. n) \ {i} : new[j] = old[j]
        /\ new[i] = [old[i] EXCEPT !.reverse = @ + arc.capacity]
    BY <1>1, <1>3, <2>1, <2>2, <2>3 DEF Merge
  <2>5. new[i] \in Pairs /\ new[i].from = old[i].from /\ new[i].to = old[i].to
    <3>1. PICK p \in Pairs : p = old[i]
      BY <1>3, <2>1
    <3>2. p.reverse + arc.capacity \in Int
      BY <1>4 DEF Pairs
    <3> QED
      BY <2>4, <3>1, <3>2 DEF Pairs
  <2>6. \A j \in 1 .. n : /\ new[j] \in Pairs /\ new[j].from = old[j].from /\ new[j].to = old[j].to
    BY <1>3, <2>4, <2>5
  <2>7. new = [j \in 1 .. n |-> new[j]]
    BY <1>1, <1>3, <2>2, <2>3 DEF Merge
  <2>8. new \in Seq(Pairs)
    BY SMTT(30), <2>6, <2>7
  <2>9. \A S : GainsArc(old, new, arc, S)
    BY <1>3, <2>1, <2>4, <2>8, ReverseGains
  <2>10. PairsDiffer(new)
    BY <1>1, <1>3, <2>4, <2>6, DifferenceIsKept
  <2> QED
    BY <1>1, <2>3, <2>8, <2>9, <2>10
<1> QED
  BY <1>5, <1>6, <1>7

LEMMA AddArcKeeps ==
  ASSUME CaseInv, ArcsInv, BuildInv, AddArc PROVE BuildInv'
<1>1. /\ pc = "merge" /\ pc' = "merge" /\ k < Len(arcs) /\ k' = k + 1
      /\ UNCHANGED <<file, builder, arcs, graph>>
      /\ pairs' = Merge(Arc)
  BY DEF AddArc, caseVars
<1>2. pc \in Building /\ TypeInv
  BY <1>1 DEF Building, BuildInv
<1>3. /\ graph \in Lists /\ k \in Nat /\ pairs \in Seq(Pairs) /\ Len(arcs) \in Nat
      /\ DOMAIN arcs = 1 .. Len(arcs)
      /\ \A j \in 1 .. Len(arcs) : arcs[j] \in Arcs
  BY <1>2, BuildFacts
<1>4. k + 1 \in 1 .. Len(arcs) /\ k + 1 <= Len(arcs) /\ k + 1 \in Nat
  BY <1>1, <1>3
<1>5. Arc = arcs[k + 1] /\ Arc \in Arcs
  BY <1>3, <1>4 DEF Arc
<1>6. PICK arc \in Arcs : arc = Arc
  BY <1>5
<1>7. /\ PairsDiffer(pairs) /\ graph = [x \in GraphNodes |-> <<>>]
      /\ \A S \in SUBSET GraphNodes : CutOfPairs(pairs, S) = SumOver(OfArcs(S), 1 .. k)
  BY <1>1 DEF BuildInv, MergeInv, CutOfPairs, Forwards, Backwards
<1>8. PICK new : new = pairs'
  OBVIOUS
<1>9. /\ new \in Seq(Pairs) /\ PairsDiffer(new)
      /\ \A S : GainsArc(pairs, new, arc, S)
  BY <1>1, <1>3, <1>6, <1>7, <1>8, MergeGains
<1>10. ASSUME NEW S \in SUBSET GraphNodes
       PROVE  CutOfPairs(new, S) = SumOver(OfArcs(S), 1 .. (k + 1))
  <2>1. OfArcs(S)[k + 1] = Crossing(S, arc.from, arc.to, arc.capacity)
    BY <1>3, <1>4, <1>5, <1>6 DEF OfArcs
  <2>2. \A i \in 1 .. (k + 1) : OfArcs(S)[i] \in Int
    BY <1>2, <1>3, <1>4, TermTypes
  <2>3. SumOver(OfArcs(S), 1 .. (k + 1)) = SumOver(OfArcs(S), 1 .. k) + OfArcs(S)[k + 1]
    BY <1>3, <2>2, SumNext
  <2> QED
    BY <1>7, <1>9, <2>1, <2>3 DEF GainsArc
<1>11. /\ GraphNodes' = GraphNodes /\ Lists' = Lists /\ Pairs' = Pairs
       /\ \A S : OfArcs(S)' = OfArcs(S)
  BY <1>1 DEF GraphNodes, Lists, Slots, Pairs, OfArcs
<1>12. MergeInv'
  <2>1. PairsDiffer(pairs)'
    BY <1>8, <1>9 DEF PairsDiffer
  <2>2. \A S : (SumOver(Forwards(S), DOMAIN pairs) + SumOver(Backwards(S), DOMAIN pairs))'
                 = CutOfPairs(new, S)
    BY <1>8 DEF CutOfPairs, Forwards, Backwards, Ahead, Against
  <2> QED
    BY <1>1, <1>4, <1>7, <1>10, <1>11, <2>1, <2>2 DEF MergeInv
<1>13. TypeInv'
  BY <1>1, <1>2, <1>3, <1>4, <1>8, <1>9, <1>11 DEF TypeInv
<1>14. DirectInv' /\ FirstInv' /\ SecondInv' /\ BuildersKeepCuts' /\ MatesAreMutual'
  BY <1>1 DEF DirectInv, FirstInv, SecondInv, BuildersKeepCuts, MatesAreMutual
<1> QED
  BY <1>12, <1>13, <1>14 DEF BuildInv

LEMMA ArcsMergedKeeps ==
  ASSUME CaseInv, ArcsInv, BuildInv, ArcsMerged PROVE BuildInv'
<1>1. /\ pc = "merge" /\ pc' \in {"pairs", "first"} /\ k = Len(arcs) /\ k' = 0
      /\ UNCHANGED <<file, builder, arcs, pairs, graph>>
  BY DEF ArcsMerged, caseVars
<1>2. pc \in Building /\ TypeInv
  BY <1>1 DEF Building, BuildInv
<1>3. /\ IsFiniteSet(GraphNodes) /\ graph \in Lists /\ pairs \in Seq(Pairs)
      /\ Len(pairs) \in Nat /\ DOMAIN arcs = 1 .. Len(arcs)
  BY <1>2, BuildFacts
<1>4. /\ graph = Empty
      /\ \A S \in SUBSET GraphNodes :
            SumOver(Forwards(S), DOMAIN pairs) + SumOver(Backwards(S), DOMAIN pairs)
              = SumOver(OfArcs(S), 1 .. k)
  BY <1>1 DEF BuildInv, MergeInv, Empty
<1>5. /\ AllPointBack(graph) /\ \A S : CutOfLists(graph, S) = 0
      /\ \A x \in GraphNodes : Len(graph[x]) = 0
  BY <1>3, <1>4, EmptyFacts
<1>6. /\ GraphNodes' = GraphNodes /\ Lists' = Lists /\ Pairs' = Pairs
      /\ \A S : /\ OfArcs(S)' = OfArcs(S) /\ Forwards(S)' = Forwards(S)
                /\ Backwards(S)' = Backwards(S) /\ CutOfArcs(arcs, S)' = CutOfArcs(arcs, S)
  BY <1>1, BuildStep
<1>7. \A S : CutOfArcs(arcs, S) = SumOver(OfArcs(S), 1 .. k)
  BY <1>1, <1>3 DEF CutOfArcs, OfArcs
<1>8. MergeInv'
  BY <1>1, <1>4, <1>6, <1>7 DEF MergeInv
<1>9. 1 .. 0 = {} /\ \A f : SumOver(f, 1 .. 0) = 0
  BY SumOfNone
<1>10. DirectInv'
  <2>1. AllPointBack(graph)'
    BY <1>1, <1>5, BacksAreKept
  <2>2. \A S : CutOfLists(graph, S) = SumOver(Forwards(S), 1 .. 0) + SumOver(Backwards(S), 1 .. 0)
    BY <1>5, <1>9
  <2> QED
    BY <1>1, <1>3, <1>6, <2>1, <2>2 DEF DirectInv
<1>11. FirstInv'
  <2>1. PICK owner : owner = Empty
    OBVIOUS
  <2>2. owner \in [GraphNodes -> Seq(1 .. 0)] /\ \A x \in GraphNodes : Len(owner[x]) = 0
    BY <2>1 DEF Empty
  <2>3. IsOwner(owner, [x \in GraphNodes |-> Len(graph[x])], 0)
    BY <1>5, <1>9, <2>2 DEF IsOwner
  <2>4. IsOwner(owner, [x \in GraphNodes |-> Len(graph[x])], k)'
    BY <1>1, <1>6, <2>3 DEF IsOwner
  <2>5. (\A x \in GraphNodes : \A i \in 1 .. Len(graph[x]) : IsFirstSlot(graph[x][i], owner[x][i]))'
    BY <1>1, <1>5, <1>6, <1>9
  <2>6. (\E w : IsFirstOwner(w))'
    BY <2>4, <2>5 DEF IsFirstOwner
  <2>7. \A S : CutOfLists(graph, S) = SumOver(Forwards(S), 1 .. 0)
    BY <1>5, <1>9
  <2> QED
    BY <1>1, <1>3, <1>6, <2>6, <2>7 DEF FirstInv
<1>12. TypeInv'
  BY <1>1, <1>3, <1>6 DEF TypeInv
<1>13. SecondInv' /\ BuildersKeepCuts' /\ MatesAreMutual'
  BY <1>1 DEF SecondInv, BuildersKeepCuts, MatesAreMutual
<1> QED
  BY <1>8, <1>10, <1>11, <1>12, <1>13 DEF BuildInv

-------------------------------------------------------------------------------
(* The first pass of "ppr".                                                *)

LEMMA OwnerFacts ==
  ASSUME NEW owner, NEW lengths, NEW K \in Nat, IsOwner(owner, lengths, K), NEW x \in GraphNodes
  PROVE  /\ Len(owner[x]) \in Nat /\ Len(owner[x]) = lengths[x]
         /\ DOMAIN owner[x] = 1 .. Len(owner[x])
         /\ \A i \in 1 .. Len(owner[x]) : owner[x][i] \in 1 .. K /\ pairs[owner[x][i]].from = x
<1>1. PICK list \in Seq(1 .. K) : list = owner[x]
  BY DEF IsOwner
<1>2. Len(list) \in Nat /\ DOMAIN list = 1 .. Len(list) /\ \A i \in 1 .. Len(list) : list[i] \in 1 .. K
  OBVIOUS
<1> QED
  BY <1>1, <1>2 DEF IsOwner

LEMMA OwnerGrows ==
  ASSUME NEW owner, NEW lengths, NEW longer, NEW K \in Nat, IsOwner(owner, lengths, K),
         NEW u \in GraphNodes, pairs[K + 1].from = u,
         longer[u] = lengths[u] + 1, \A x \in GraphNodes \ {u} : longer[x] = lengths[x]
  PROVE  /\ IsOwner(Add(owner, u, K + 1), longer, K + 1)
         /\ Add(owner, u, K + 1)[u][lengths[u] + 1] = K + 1
         /\ \A x \in GraphNodes : \A i \in 1 .. lengths[x] : Add(owner, u, K + 1)[x][i] = owner[x][i]
<1>1. PICK w : w = Add(owner, u, K + 1)
  OBVIOUS
<1>2. \A x \in GraphNodes :
        /\ Len(owner[x]) \in Nat /\ Len(owner[x]) = lengths[x]
        /\ \A i \in 1 .. Len(owner[x]) : owner[x][i] \in 1 .. K /\ pairs[owner[x][i]].from = x
  BY OwnerFacts
<1>3. owner \in [GraphNodes -> Seq(1 .. (K + 1))]
  <2>1. owner \in [GraphNodes -> Seq(1 .. K)]
    BY DEF IsOwner
  <2>2. ASSUME NEW x \in GraphNodes PROVE owner[x] \in Seq(1 .. (K + 1))
    <3>1. PICK list \in Seq(1 .. K) : list = owner[x]
      BY <2>1
    <3>2. list \in Seq(1 .. (K + 1))
      <4>1. \A i \in 1 .. Len(list) : list[i] \in 1 .. (K + 1)
        <5> SUFFICES ASSUME NEW i \in 1 .. Len(list) PROVE list[i] \in 1 .. (K + 1)
          OBVIOUS
        <5>1. list[i] \in 1 .. K
          OBVIOUS
        <5> QED
          BY <5>1
      <4>2. list = [i \in 1 .. Len(list) |-> list[i]] /\ Len(list) \in Nat
        OBVIOUS
      <4> QED
        BY <4>1, <4>2
    <3> QED
      BY <3>1, <3>2
  <2> QED
    BY <2>1, <2>2
<1>4. K + 1 \in 1 .. (K + 1)
  OBVIOUS
<1>5. /\ w \in [GraphNodes -> Seq(1 .. (K + 1))]
      /\ Len(w[u]) = Len(owner[u]) + 1 /\ w[u][Len(owner[u]) + 1] = K + 1
      /\ \A i \in 1 .. Len(owner[u]) : w[u][i] = owner[u][i]
      /\ \A x \in GraphNodes \ {u} : w[x] = owner[x]
  <2>1. PICK N, T, e : N = GraphNodes /\ T = 1 .. (K + 1) /\ e = K + 1
    OBVIOUS
  <2>2. owner \in [N -> Seq(T)] /\ u \in N /\ e \in T /\ w = Add(owner, u, e)
    BY <1>1, <1>3, <1>4, <2>1
  <2>3. /\ Add(owner, u, e) \in [N -> Seq(T)]
        /\ Len(Add(owner, u, e)[u]) = Len(owner[u]) + 1
        /\ Add(owner, u, e)[u][Len(owner[u]) + 1] = e
        /\ \A i \in 1 .. Len(owner[u]) : Add(owner, u, e)[u][i] = owner[u][i]
        /\ \A x \in N \ {u} : Add(owner, u, e)[x] = owner[x]
    <3>1. owner \in [N -> Seq(T)] /\ u \in N /\ e \in T
      BY <2>2
    <3> QED
      BY ONLY <3>1, AddFacts
  <2> QED
    BY <2>1, <2>2, <2>3
<1>6. \A x \in GraphNodes : Len(w[x]) = longer[x]
  BY <1>2, <1>5
<1>7. \A x \in GraphNodes : \A i \in 1 .. lengths[x] : w[x][i] = owner[x][i]
  BY <1>2, <1>5
<1>8. w[u][lengths[u] + 1] = K + 1
  BY <1>2, <1>5
<1>9. ASSUME NEW x \in GraphNodes, NEW i \in 1 .. Len(w[x])
      PROVE  \/ i \in 1 .. lengths[x]
             \/ x = u /\ i = lengths[u] + 1
  <2>1. CASE x = u
    <3>1. Len(w[u]) = lengths[u] + 1 /\ lengths[u] \in Nat
      BY <1>2, <1>5
    <3> QED
      BY <2>1, <3>1
  <2>2. CASE x # u
    BY <1>2, <1>5, <2>2
  <2> QED
    BY <2>1, <2>2
<1>10. ASSUME NEW x \in GraphNodes, NEW i \in 1 .. Len(w[x])
       PROVE  pairs[w[x][i]].from = x
  <2>1. CASE i \in 1 .. lengths[x]
    BY <1>2, <1>7, <2>1
  <2>2. CASE x = u /\ i = lengths[u] + 1
    BY <1>8, <2>2
  <2> QED
    BY <1>9, <2>1, <2>2
<1>11. ASSUME NEW x \in GraphNodes, NEW y \in GraphNodes,
              NEW i \in 1 .. Len(w[x]), NEW j \in 1 .. Len(w[y]), w[x][i] = w[y][j]
       PROVE  x = y /\ i = j
  <2>1. \A z \in GraphNodes : \A q \in 1 .. lengths[z] : w[z][q] \in 1 .. K
    BY <1>2, <1>7
  <2>2. K + 1 \notin 1 .. K
    OBVIOUS
  <2>3. CASE i \in 1 .. lengths[x] /\ j \in 1 .. lengths[y]
    <3>1. owner[x][i] = owner[y][j] /\ i \in 1 .. Len(owner[x]) /\ j \in 1 .. Len(owner[y])
      BY <1>2, <1>7, <1>11, <2>3
    <3> QED
      BY <3>1 DEF IsOwner
  <2>4. CASE x = u /\ i = lengths[u] + 1
    BY <1>8, <1>9, <1>11, <2>1, <2>2, <2>4
  <2>5. CASE y = u /\ j = lengths[u] + 1
    BY <1>8, <1>9, <1>11, <2>1, <2>2, <2>5
  <2> QED
    BY <1>9, <2>3, <2>4, <2>5
<1>12. ASSUME NEW p \in 1 .. (K + 1)
       PROVE  \E x \in GraphNodes : \E i \in 1 .. Len(w[x]) : w[x][i] = p
  <2>1. CASE p \in 1 .. K
    <3>1. PICK x \in GraphNodes : \E i \in 1 .. Len(owner[x]) : owner[x][i] = p
      BY <2>1 DEF IsOwner
    <3>2. PICK i \in 1 .. Len(owner[x]) : owner[x][i] = p
      BY <3>1
    <3>3. w[x][i] = p /\ i \in 1 .. Len(w[x])
      <4>1. w[x][i] = owner[x][i]
        BY <1>2, <1>7
      <4>2. Len(w[x]) = Len(owner[x]) \/ Len(w[x]) = Len(owner[x]) + 1
        BY <1>5
      <4> QED
        BY <1>2, <3>2, <4>1, <4>2
    <3> QED
      BY <3>3
  <2>2. CASE p = K + 1
    <3>1. w[u][Len(owner[u]) + 1] = p /\ Len(owner[u]) + 1 \in 1 .. Len(w[u])
      BY <1>2, <1>5, <2>2
    <3> QED
      BY <3>1
  <2> QED
    BY <2>1, <2>2
<1>13. IsOwner(w, longer, K + 1)
  BY <1>5, <1>6, <1>10, <1>11, <1>12 DEF IsOwner
<1> QED
  BY <1>1, <1>7, <1>8, <1>13

LEMMA AddForwardKeeps ==
  ASSUME CaseInv, ArcsInv, BuildInv, AddForward PROVE BuildInv'
<1>1. /\ pc = "first" /\ pc' = "first" /\ k < Len(pairs) /\ k' = k + 1
      /\ UNCHANGED <<file, builder, arcs, pairs>>
      /\ graph' = Add(graph, NextPair.from, NewSlot(NextPair.to, NextPair.forward, 2 * k + 1))
  BY DEF AddForward, caseVars
<1>2. pc \in Building /\ TypeInv
  BY <1>1 DEF Building, BuildInv
<1>3. /\ IsFiniteSet(GraphNodes) /\ graph \in Lists /\ k \in Nat /\ Len(pairs) \in Nat
      /\ DOMAIN pairs = 1 .. Len(pairs)
      /\ \A j \in 1 .. Len(pairs) : pairs[j] \in Pairs
  BY <1>2, BuildFacts
<1>4. k + 1 \in 1 .. Len(pairs) /\ k + 1 <= Len(pairs) /\ k + 1 \in Nat
  BY <1>1, <1>3
<1>5. PICK p \in Pairs : p = pairs[k + 1] /\ p = NextPair
  BY <1>3, <1>4 DEF NextPair
<1>6. PICK u, s : u = p.from /\ s = NewSlot(p.to, p.forward, 2 * k + 1)
  OBVIOUS
<1>7. /\ u \in GraphNodes /\ s \in Slots
      /\ s.to = p.to /\ s.capacity = p.forward /\ s.rev = 2 * (k + 1) - 1
  BY <1>3, <1>6 DEF Pairs, Slots, NewSlot
<1>8. PICK new : new = graph'
  OBVIOUS
<1>9. Appended(graph, new, u, s)
  BY <1>1, <1>3, <1>5, <1>6, <1>7, <1>8, AddExtends
<1>10. PICK owner : IsFirstOwner(owner)
  BY <1>1 DEF BuildInv, FirstInv
<1>11. PICK lengths, longer : /\ lengths = [x \in GraphNodes |-> Len(graph[x])]
                              /\ longer = [x \in GraphNodes |-> Len(new[x])]
  OBVIOUS
<1>12. PICK w : w = Add(owner, u, k + 1)
  OBVIOUS
<1>13. /\ IsOwner(w, longer, k + 1) /\ w[u][Len(graph[u]) + 1] = k + 1
       /\ \A x \in GraphNodes : \A i \in 1 .. Len(graph[x]) : w[x][i] = owner[x][i]
  <2>1. IsOwner(owner, lengths, k)
    BY <1>10, <1>11 DEF IsFirstOwner
  <2>2. /\ longer[u] = lengths[u] + 1 /\ \A x \in GraphNodes \ {u} : longer[x] = lengths[x]
    BY <1>7, <1>9, <1>11 DEF Appended
  <2>3. /\ IsOwner(w, longer, k + 1) /\ w[u][lengths[u] + 1] = k + 1
        /\ \A x \in GraphNodes : \A i \in 1 .. lengths[x] : w[x][i] = owner[x][i]
    <3>1. PICK K \in Nat : K = k
      BY <1>3
    <3>2. pairs[K + 1].from = u /\ w = Add(owner, u, K + 1) /\ IsOwner(owner, lengths, K)
      BY <1>5, <1>6, <1>12, <2>1, <3>1
    <3>3. /\ IsOwner(w, longer, K + 1) /\ w[u][lengths[u] + 1] = K + 1
          /\ \A x \in GraphNodes : \A i \in 1 .. lengths[x] : w[x][i] = owner[x][i]
      BY <1>7, <2>2, <3>2, OwnerGrows
    <3> QED
      BY <3>1, <3>3
  <2> QED
    BY <1>7, <1>11, <2>3
<1>14. ASSUME NEW x \in GraphNodes, NEW i \in 1 .. Len(new[x])
       PROVE  IsFirstSlot(new[x][i], w[x][i])
  <2>1. Len(graph[x]) \in Nat
    BY <1>3, SlotFacts
  <2>2. CASE i \in 1 .. Len(graph[x])
    <3>1. IsFirstSlot(graph[x][i], owner[x][i])
      BY <1>10, <2>2 DEF IsFirstOwner
    <3>2. new[x][i] = graph[x][i] /\ w[x][i] = owner[x][i]
      BY <1>9, <1>13, <2>2 DEF Appended, Extends
    <3> QED
      BY <3>1, <3>2
  <2>3. CASE i \notin 1 .. Len(graph[x])
    <3>1. x = u /\ i = Len(graph[u]) + 1
      <4>1. x = u
        BY <1>9, <2>3 DEF Appended
      <4>2. Len(new[u]) = Len(graph[u]) + 1
        BY <1>9 DEF Appended
      <4> QED
        BY <2>1, <2>3, <4>1, <4>2
    <3>2. new[x][i] = s /\ w[x][i] = k + 1
      BY <1>9, <1>13, <3>1 DEF Appended
    <3> QED
      BY <1>5, <1>7, <3>2 DEF IsFirstSlot
  <2> QED
    BY <2>2, <2>3
<1>15. ASSUME NEW S \in SUBSET GraphNodes
       PROVE  CutOfLists(new, S) = SumOver(Forwards(S), 1 .. (k + 1))
  <2>1. Forwards(S)[k + 1] = Crossing(S, u, s.to, s.capacity)
    BY <1>3, <1>4, <1>5, <1>6, <1>7 DEF Forwards, Ahead
  <2>2. \A i \in 1 .. (k + 1) : Forwards(S)[i] \in Int
    BY <1>2, <1>3, <1>4, TermTypes
  <2>3. SumOver(Forwards(S), 1 .. (k + 1)) = SumOver(Forwards(S), 1 .. k) + Forwards(S)[k + 1]
    BY <1>3, <2>2, SumNext
  <2>4. CutOfLists(graph, S) = SumOver(Forwards(S), 1 .. k)
    BY <1>1 DEF BuildInv, FirstInv
  <2>5. CutOfLists(new, S) = CutOfLists(graph, S) + Crossing(S, u, s.to, s.capacity)
    BY <1>9 DEF Appended, GrowsBy
  <2> QED
    BY <2>1, <2>3, <2>4, <2>5
<1>16. /\ GraphNodes' = GraphNodes /\ Lists' = Lists /\ Pairs' = Pairs
       /\ \A S : /\ OfArcs(S)' = OfArcs(S) /\ Forwards(S)' = Forwards(S)
                 /\ Backwards(S)' = Backwards(S) /\ CutOfArcs(arcs, S)' = CutOfArcs(arcs, S)
  BY <1>1, BuildStep
<1>17. IsFirstOwner(w)'
  <2>1. longer = [x \in GraphNodes |-> Len(graph[x])]'
    BY <1>8, <1>11, <1>16
  <2>2. IsOwner(w, [x \in GraphNodes |-> Len(graph[x])], k)'
    BY <1>1, <1>13, <1>16, <2>1 DEF IsOwner
  <2>3. (\A x \in GraphNodes : \A i \in 1 .. Len(graph[x]) : IsFirstSlot(graph[x][i], w[x][i]))'
    BY <1>1, <1>8, <1>14, <1>16 DEF IsFirstSlot
  <2> QED
    BY <2>2, <2>3 DEF IsFirstOwner
<1>18. FirstInv'
  BY <1>1, <1>4, <1>8, <1>15, <1>16, <1>17 DEF FirstInv
<1>19. TypeInv'
  <2>1. new \in Lists
    BY <1>9 DEF Appended
  <2> QED
    BY <1>1, <1>2, <1>4, <1>8, <1>16, <2>1 DEF TypeInv
<1>20. MergeInv'
  <2>1. \A S \in SUBSET GraphNodes :
          SumOver(Forwards(S), DOMAIN pairs) + SumOver(Backwards(S), DOMAIN pairs)
            = CutOfArcs(arcs, S)
    BY <1>1 DEF BuildInv, MergeInv
  <2> QED
    BY <1>1, <1>16, <2>1 DEF MergeInv
<1>21. DirectInv' /\ SecondInv' /\ BuildersKeepCuts' /\ MatesAreMutual'
  BY <1>1 DEF DirectInv, SecondInv, BuildersKeepCuts, MatesAreMutual
<1> QED
  BY <1>18, <1>19, <1>20, <1>21 DEF BuildInv

LEMMA NodesAreNumbers == ASSUME CaseInv, IsAccepted PROVE file[1] \in Nat /\ GraphNodes = 0 .. (file[1] - 1)
BY FileFacts DEF CaseInv, IsAccepted, GraphNodes, Indices

LEMMA TakeSizesKeeps ==
  ASSUME CaseInv, ArcsInv, BuildInv, TakeSizes PROVE BuildInv'
<1>1. /\ pc = "first" /\ pc' = "second" /\ k = Len(pairs)
      /\ sizes' = [x \in GraphNodes |-> Len(graph[x])] /\ node' = 0 /\ index' = 0
      /\ UNCHANGED <<file, builder, arcs, pairs, graph, k>>
  BY DEF TakeSizes, caseVars
<1>2. pc \in Building /\ TypeInv
  BY <1>1 DEF Building, BuildInv
<1>3. graph \in Lists /\ Len(pairs) \in Nat
  BY <1>2, BuildFacts
<1>4. file[1] \in Nat /\ GraphNodes = 0 .. (file[1] - 1)
  BY <1>1, NodesAreNumbers DEF CaseInv
<1>5. PICK lengths : lengths = sizes'
  OBVIOUS
<1>6. /\ lengths \in [GraphNodes -> Nat] /\ \A x \in GraphNodes : lengths[x] = Len(graph[x])
      /\ lengths = [x \in GraphNodes |-> Len(graph[x])]
  BY <1>1, <1>3, <1>5, SlotFacts
<1>7. PICK owner : IsFirstOwner(owner)
  BY <1>1 DEF BuildInv, FirstInv
<1>8. IsOwner(owner, lengths, Len(pairs))
  BY <1>1, <1>6, <1>7 DEF IsFirstOwner
<1>9. /\ GraphNodes' = GraphNodes /\ Lists' = Lists /\ Pairs' = Pairs
      /\ \A S : /\ OfArcs(S)' = OfArcs(S) /\ Forwards(S)' = Forwards(S)
                /\ Backwards(S)' = Backwards(S) /\ CutOfArcs(arcs, S)' = CutOfArcs(arcs, S)
  BY <1>1, BuildStep
<1>10. ASSUME NEW x \in GraphNodes, NEW i \in 1 .. lengths[x] PROVE ~IsDone(x, i)'
  <2>1. x \in Nat /\ i \in Nat /\ i >= 1
    BY <1>4, <1>6
  <2> QED
    BY <1>1, <2>1 DEF IsDone
<1>11. FormerSlots(owner)'
  <2>1. \A x \in GraphNodes : \A i \in 1 .. lengths[x] : IsFirstSlot(graph[x][i], owner[x][i])
    BY <1>6, <1>7 DEF IsFirstOwner
  <2>2. \A x \in GraphNodes : \A i \in 1 .. lengths[x] : IsFirstSlot(graph[x][i], owner[x][i])'
    BY <1>1, <2>1 DEF IsFirstSlot
  <2> QED
    BY <1>1, <1>5, <1>9, <1>10, <2>2 DEF FormerSlots
<1>12. DonePairs(owner)' = {}
  BY <1>1, <1>5, <1>9, <1>10 DEF DonePairs
<1>13. ASSUME NEW S \in SUBSET GraphNodes
       PROVE  CutOfLists(graph, S) = SumOver(Forwards(S), DOMAIN pairs) + SumOver(Backwards(S), {})
  <2>1. CutOfLists(graph, S) = SumOver(Forwards(S), 1 .. k)
    BY <1>1 DEF BuildInv, FirstInv
  <2>2. DOMAIN pairs = 1 .. k
    BY <1>1, <1>2, BuildFacts
  <2>3. SumOver(Backwards(S), {}) = 0
    BY SumOfNone
  <2>4. SumOver(Forwards(S), 1 .. k) \in Int
    <3>1. PICK f : f = Ahead(pairs, S)
      OBVIOUS
    <3>2. IsFiniteSet(1 .. k) /\ \A j \in 1 .. k : f[j] \in Int
      BY <1>2, <2>2, <3>1, PairTerms DEF TypeInv
    <3>3. SumOver(f, 1 .. k) \in Int
      BY <3>2, SumType
    <3> QED
      BY <3>1, <3>3 DEF Forwards
  <2> QED
    BY <2>1, <2>2, <2>3, <2>4
<1>14. IsSecondOwner(owner)'
  <2>1. IsOwner(owner, sizes, Len(pairs))'
    BY <1>1, <1>5, <1>8, <1>9 DEF IsOwner
  <2> QED
    BY <1>1, <1>9, <1>11, <1>12, <1>13, <2>1 DEF IsSecondOwner
<1>15. LaterSlots'
  <2>1. \A x \in GraphNodes : (lengths[x] + 1) .. Len(graph[x]) = {}
    BY <1>6
  <2> QED
    BY <1>1, <1>5, <1>9, <2>1 DEF LaterSlots
<1>16. SecondInv'
  <2>1. node' \in 0 .. file[1] /\ index' \in Nat
    BY <1>1, <1>4
  <2>2. node' \in GraphNodes => index' <= lengths[node']
    BY <1>1, <1>6
  <2>3. \A x \in GraphNodes : lengths[x] <= Len(graph[x])
    BY <1>6
  <2> QED
    BY <1>1, <1>5, <1>6, <1>9, <1>14, <1>15, <2>1, <2>2, <2>3 DEF SecondInv
<1>17. TypeInv'
  BY <1>1, <1>2, <1>9 DEF TypeInv
<1>18. MergeInv'
  <2>1. \A S \in SUBSET GraphNodes :
          SumOver(Forwards(S), DOMAIN pairs) + SumOver(Backwards(S), DOMAIN pairs)
            = CutOfArcs(arcs, S)
    BY <1>1 DEF BuildInv, MergeInv
  <2> QED
    BY <1>1, <1>9, <2>1 DEF MergeInv
<1>19. DirectInv' /\ FirstInv' /\ BuildersKeepCuts' /\ MatesAreMutual'
  BY <1>1 DEF DirectInv, FirstInv, BuildersKeepCuts, MatesAreMutual
<1> QED
  BY <1>16, <1>17, <1>18, <1>19 DEF BuildInv

-------------------------------------------------------------------------------
(* The second pass of "ppr".                                               *)

\* What a pass does to slot i of x and, behind the list of v, with its mate r.
MateAdded(old, new, x, i, v, r) ==
  /\ new \in Lists
  /\ \A y \in GraphNodes :
       /\ Len(new[y]) = Len(old[y]) + (IF y = v THEN 1 ELSE 0)
       /\ \A j \in 1 .. Len(old[y]) : ~(y = x /\ j = i) => new[y][j] = old[y][j]
  /\ new[x][i] = [old[x][i] EXCEPT !.rev = Len(old[v])]
  /\ new[v][Len(old[v]) + 1] = r
  /\ \A S : GrowsBy(old, new, S, Crossing(S, v, r.to, r.capacity))

LEMMA AddMate ==
  ASSUME IsFiniteSet(GraphNodes), NEW old \in Lists, NEW x \in GraphNodes,
         NEW i \in 1 .. Len(old[x]), NEW v \in GraphNodes, NEW r \in Slots
  PROVE  MateAdded(old, Add([old EXCEPT ![x] = [@ EXCEPT ![i].rev = Len(old[v])]], v, r),
                   x, i, v, r)
<1>1. PICK mid : mid = [old EXCEPT ![x] = [@ EXCEPT ![i].rev = Len(old[v])]]
  OBVIOUS
<1>2. PICK list \in Seq(Slots) : list = old[x]
  BY DEF Lists
<1>3. PICK L \in Nat : L = Len(old[v])
  BY SlotFacts
<1>4. PICK s \in Slots : s = list[i]
  BY <1>2
<1>5. PICK t : t = [s EXCEPT !.rev = L]
  OBVIOUS
<1>6. t \in Slots /\ t.to = s.to /\ t.capacity = s.capacity
  <2>1. L \in Int
    OBVIOUS
  <2>2. PICK N : N = GraphNodes
    OBVIOUS
  <2>3. s \in [to : N, capacity : Int, rev : Int, revCapacity : Int]
    BY <2>2 DEF Slots
  <2>4. /\ t \in [to : N, capacity : Int, rev : Int, revCapacity : Int]
        /\ t.to = s.to /\ t.capacity = s.capacity
    BY ONLY <1>5, <2>1, <2>3
  <2> QED
    BY <2>2, <2>4 DEF Slots
<1>7. PICK changed : changed = [list EXCEPT ![i] = t]
  OBVIOUS
<1>8. i \in 1 .. Len(list) /\ Len(list) \in Nat
  BY <1>2
<1>9. /\ changed \in Seq(Slots) /\ Len(changed) = Len(list) /\ changed[i] = t
      /\ \A j \in 1 .. Len(list) : j # i => changed[j] = list[j]
  BY <1>6, <1>7, <1>8
<1>10. mid = [old EXCEPT ![x] = changed]
  <2>1. [list EXCEPT ![i].rev = L] = [list EXCEPT ![i] = t]
    BY <1>4, <1>5, <1>8
  <2> QED
    BY <1>1, <1>2, <1>3, <1>7, <2>1
<1>11. mid \in Lists /\ mid[x] = changed /\ \A y \in GraphNodes \ {x} : mid[y] = old[y]
  BY <1>9, <1>10 DEF Lists
<1>12. ASSUME NEW y \in GraphNodes
       PROVE  /\ Len(mid[y]) = Len(old[y])
              /\ \A j \in 1 .. Len(old[y]) : ~(y = x /\ j = i) => mid[y][j] = old[y][j]
              /\ \A j \in 1 .. Len(old[y]) :
                   mid[y][j].to = old[y][j].to /\ mid[y][j].capacity = old[y][j].capacity
  <2>1. CASE y = x
    BY <1>2, <1>4, <1>6, <1>9, <1>11, <2>1
  <2>2. CASE y # x
    BY <1>11, <2>2
  <2> QED
    BY <2>1, <2>2
<1>13. \A S : CutOfLists(mid, S) = CutOfLists(old, S)
  BY <1>11, <1>12, CutOfSame
<1>14. PICK new : new = Add(mid, v, r)
  OBVIOUS
<1>15. Appended(mid, new, v, r)
  BY <1>11, <1>14, AddExtends
<1>16. ASSUME NEW y \in GraphNodes
       PROVE  /\ Len(new[y]) = Len(old[y]) + (IF y = v THEN 1 ELSE 0)
              /\ \A j \in 1 .. Len(old[y]) : ~(y = x /\ j = i) => new[y][j] = old[y][j]
  <2>1. \A j \in 1 .. Len(old[y]) : new[y][j] = mid[y][j]
    BY <1>12, <1>15 DEF Appended, Extends
  <2>2. Len(old[y]) \in Nat
    BY SlotFacts
  <2>3. Len(new[y]) = Len(old[y]) + (IF y = v THEN 1 ELSE 0)
    <3>1. CASE y = v
      BY <1>12, <1>15, <3>1 DEF Appended
    <3>2. CASE y # v
      BY <1>12, <1>15, <2>2, <3>2 DEF Appended
    <3> QED
      BY <3>1, <3>2
  <2> QED
    BY <1>12, <2>1, <2>3
<1>17. new[x][i] = [old[x][i] EXCEPT !.rev = Len(old[v])]
  <2>1. new[x][i] = mid[x][i]
    BY <1>12, <1>15 DEF Appended, Extends
  <2> QED
    BY <1>2, <1>3, <1>4, <1>5, <1>9, <1>11, <2>1
<1>18. new[v][Len(old[v]) + 1] = r
  BY <1>12, <1>15 DEF Appended
<1>19. \A S : GrowsBy(old, new, S, Crossing(S, v, r.to, r.capacity))
  BY <1>13, <1>15 DEF Appended, GrowsBy
<1>20. new \in Lists
  BY <1>15 DEF Appended
<1>21. MateAdded(old, new, x, i, v, r)
  BY <1>16, <1>17, <1>18, <1>19, <1>20 DEF MateAdded
<1> QED
  BY <1>1, <1>14, <1>21

\* A slot points back as long as it and its mate are kept.
LEMMA KeptPointsBack ==
  ASSUME NEW old \in Lists, NEW new \in Lists, NEW x \in GraphNodes,
         NEW i \in 1 .. Len(old[x]), PointsBack(old, x, i), new[x][i] = old[x][i],
         NEW t, t = old[x][i],
         Len(old[t.to]) <= Len(new[t.to]), new[t.to][t.rev + 1] = old[t.to][t.rev + 1]
  PROVE  PointsBack(new, x, i)
<1>1. t.to \in GraphNodes /\ t.rev \in Int
  BY SlotFacts
<1>2. t.rev \in Indices(Len(old[t.to])) /\ Len(old[t.to]) \in Nat /\ Len(new[t.to]) \in Nat
  BY <1>1, SlotFacts DEF PointsBack
<1>3. t.rev \in Indices(Len(new[t.to]))
  <2>1. PICK q, L, M : q = t.rev /\ L = Len(old[t.to]) /\ M = Len(new[t.to])
    OBVIOUS
  <2>2. q \in 0 .. (L - 1) /\ L \in Nat /\ M \in Nat /\ L <= M
    BY <1>2, <2>1 DEF Indices
  <2>3. q \in 0 .. (M - 1)
    BY ONLY <2>2
  <2> QED
    BY <2>1, <2>3 DEF Indices
<1>4. Mate(new, t) = Mate(old, t)
  BY DEF Mate, Slot
<1> QED
  BY <1>3, <1>4 DEF PointsBack

LEMMA AddReverseKeeps ==
  ASSUME CaseInv, ArcsInv, BuildInv, AddReverse PROVE BuildInv'
<1>1. /\ pc = "second" /\ pc' = "second" /\ node \in GraphNodes /\ index < sizes[node]
      /\ index' = index + 1
      /\ UNCHANGED <<file, builder, arcs, pairs, k, sizes, node>>
  BY DEF AddReverse, caseVars
<1>2. pc \in Building /\ TypeInv
  BY <1>1 DEF Building, BuildInv
<1>3. /\ IsFiniteSet(GraphNodes) /\ graph \in Lists /\ Len(pairs) \in Nat
      /\ DOMAIN pairs = 1 .. Len(pairs)
      /\ \A j \in 1 .. Len(pairs) : pairs[j] \in Pairs
  BY <1>2, BuildFacts
<1>4. file[1] \in Nat /\ GraphNodes = 0 .. (file[1] - 1)
  BY <1>1, NodesAreNumbers DEF CaseInv
<1>5. /\ sizes \in [GraphNodes -> Nat] /\ index \in Nat /\ node \in 0 .. file[1]
      /\ \A x \in GraphNodes : sizes[x] <= Len(graph[x])
      /\ LaterSlots
  BY <1>1 DEF BuildInv, SecondInv
<1>6. PICK owner : IsSecondOwner(owner)
  BY <1>1 DEF BuildInv, SecondInv
<1>7. PICK x \in GraphNodes : x = node
  BY <1>1
<1>8. PICK n \in Nat : n = index
  BY <1>5
<1>9. PICK i : i = n + 1
  OBVIOUS
<1>10. /\ i \in 1 .. sizes[x] /\ i \in 1 .. Len(graph[x]) /\ i \in Nat
       /\ sizes[x] \in Nat /\ sizes[x] <= Len(graph[x])
  <2>1. sizes[x] \in Nat /\ Len(graph[x]) \in Nat /\ sizes[x] <= Len(graph[x]) /\ n < sizes[x]
    BY <1>1, <1>3, <1>5, <1>7, <1>8, SlotFacts
  <2> QED
    BY <1>9, <2>1
<1>11. PICK s \in Slots : s = graph[x][i]
  BY <1>3, <1>10, SlotFacts
<1>12. PICK p : p = owner[x][i]
  OBVIOUS
<1>13. PICK K \in Nat : K = Len(pairs)
  BY <1>3
<1>14. IsOwner(owner, sizes, K) /\ FormerSlots(owner)
  BY <1>6, <1>13 DEF IsSecondOwner
<1>15. \A y \in GraphNodes :
         /\ Len(owner[y]) = sizes[y]
         /\ \A j \in 1 .. sizes[y] : owner[y][j] \in 1 .. K /\ pairs[owner[y][j]].from = y
  BY <1>14, OwnerFacts
<1>16. p \in 1 .. K /\ pairs[p].from = x
  BY <1>10, <1>12, <1>15
<1>17. PICK q \in Pairs : q = pairs[p]
  BY <1>3, <1>13, <1>16
<1>18. ~IsDone(x, i)
  BY <1>4, <1>7, <1>8, <1>9 DEF IsDone
<1>19. s.to = q.to /\ s.capacity = q.forward /\ s.rev = 2 * p - 1
  BY <1>10, <1>11, <1>12, <1>14, <1>17, <1>18 DEF FormerSlots, IsFirstSlot
<1>20. PICK v \in GraphNodes : v = q.to
  BY DEF Pairs
<1>21. PICK r : r = NewSlot(x, q.reverse, n)
  OBVIOUS
<1>22. r \in Slots /\ r.to = x /\ r.capacity = q.reverse /\ r.rev = n
  BY <1>8, <1>21 DEF NewSlot, Slots, Pairs
<1>23. PICK new : new = graph'
  OBVIOUS
<1>24. new = Add([graph EXCEPT ![x] = [@ EXCEPT ![i].rev = Len(graph[v])]], v, r)
  <2>1. Slot(graph[node], index) = s
    BY <1>7, <1>8, <1>9, <1>11 DEF Slot
  <2>2. ((s.rev - 1) \div 2) + 1 = p
    <3>1. p \in Nat /\ s.rev = 2 * p - 1
      BY <1>16, <1>19
    <3>2. s.rev - 1 = 2 * (p - 1) /\ p - 1 \in Int
      BY <3>1
    <3>3. (2 * (p - 1)) \div 2 = p - 1
      BY <3>2
    <3> QED
      BY <3>1, <3>2, <3>3
  <2>3. graph' = LET linked == [graph EXCEPT ![node] = [@ EXCEPT ![index + 1].rev = MateIndex(s.to)]]
                 IN  Add(linked, s.to, NewSlot(node, pairs[p].reverse, index))
    BY <2>1, <2>2 DEF AddReverse
  <2>4. index + 1 = i /\ MateIndex(s.to) = Len(graph[v]) /\ s.to = v /\ node = x /\ index = n
    BY <1>7, <1>8, <1>9, <1>19, <1>20 DEF MateIndex
  <2> QED
    BY <1>17, <1>21, <1>23, <2>3, <2>4
<1>25. MateAdded(graph, new, x, i, v, r)
  BY <1>3, <1>10, <1>22, <1>24, AddMate
<1>26. PICK L \in Nat : L = Len(graph[v])
  BY <1>3, SlotFacts
<1>27. /\ new \in Lists
       /\ \A y \in GraphNodes :
            /\ Len(graph[y]) \in Nat /\ Len(new[y]) \in Nat /\ Len(graph[y]) <= Len(new[y])
            /\ \A j \in 1 .. Len(graph[y]) : ~(y = x /\ j = i) => new[y][j] = graph[y][j]
       /\ Len(new[v]) = L + 1 /\ \A y \in GraphNodes \ {v} : Len(new[y]) = Len(graph[y])
       /\ new[x][i] = [s EXCEPT !.rev = L] /\ new[v][L + 1] = r
  <2>1. new \in Lists
    BY <1>25 DEF MateAdded
  <2>2. ASSUME NEW y \in GraphNodes
        PROVE  /\ Len(graph[y]) \in Nat /\ Len(new[y]) \in Nat /\ Len(graph[y]) <= Len(new[y])
               /\ \A j \in 1 .. Len(graph[y]) : ~(y = x /\ j = i) => new[y][j] = graph[y][j]
               /\ y # v => Len(new[y]) = Len(graph[y])
    <3>1. Len(graph[y]) \in Nat
      BY <1>3, SlotFacts
    <3>2. Len(new[y]) = Len(graph[y]) + (IF y = v THEN 1 ELSE 0)
      BY <1>25 DEF MateAdded
    <3>3. \A j \in 1 .. Len(graph[y]) : ~(y = x /\ j = i) => new[y][j] = graph[y][j]
      BY <1>25 DEF MateAdded
    <3>4. Len(new[y]) = Len(graph[y]) + 1 \/ Len(new[y]) = Len(graph[y])
      <4>1. CASE y = v
        BY <3>2, <4>1
      <4>2. CASE y # v
        BY <3>1, <3>2, <4>2
      <4> QED
        BY <4>1, <4>2
    <3>5. Len(new[y]) \in Nat /\ Len(graph[y]) <= Len(new[y])
      BY ONLY <3>1, <3>4
    <3>6. y # v => Len(new[y]) = Len(graph[y])
      BY <3>1, <3>2
    <3> QED
      BY <3>1, <3>3, <3>5, <3>6
  <2>3. Len(new[v]) = L + 1
    BY <1>25, <1>26 DEF MateAdded
  <2>4. new[x][i] = [s EXCEPT !.rev = L] /\ new[v][L + 1] = r
    BY <1>11, <1>25, <1>26 DEF MateAdded
  <2> QED
    BY <2>1, <2>2, <2>3, <2>4
<1>28. PICK t : t = new[x][i]
  OBVIOUS
<1>29. t.to = v /\ t.rev = L
  <2>1. s \in [to : GraphNodes, capacity : Int, rev : Int, revCapacity : Int]
    BY DEF Slots
  <2> QED
    BY <1>19, <1>20, <1>27, <1>28, <2>1
<1>30. \A y \in GraphNodes : \A j \in Nat : IsDone(y, j)' <=> IsDone(y, j) \/ (y = x /\ j = i)
  <2> SUFFICES ASSUME NEW y \in GraphNodes, NEW j \in Nat
               PROVE  IsDone(y, j)' <=> IsDone(y, j) \/ (y = x /\ j = i)
    OBVIOUS
  <2>1. IsDone(y, j)' <=> y < x \/ (y = x /\ j <= n + 1)
    BY <1>1, <1>7, <1>8 DEF IsDone
  <2>2. IsDone(y, j) <=> y < x \/ (y = x /\ j <= n)
    BY <1>7, <1>8 DEF IsDone
  <2>3. j <= n + 1 <=> j <= n \/ j = i
    BY <1>9
  <2> QED
    BY <2>1, <2>2, <2>3
<1>31. /\ GraphNodes' = GraphNodes /\ Lists' = Lists /\ Pairs' = Pairs
       /\ \A S : /\ OfArcs(S)' = OfArcs(S) /\ Forwards(S)' = Forwards(S)
                 /\ Backwards(S)' = Backwards(S) /\ CutOfArcs(arcs, S)' = CutOfArcs(arcs, S)
  BY <1>1, BuildStep
\* The two slots of the pair point at each other.
<1>32. PointsBack(new, x, i)
  <2>1. L \in Indices(L + 1)
    BY DEF Indices
  <2>2. Mate(new, t) = r
    BY <1>27, <1>29 DEF Mate, Slot
  <2>3. n = i - 1
    BY <1>9
  <2> QED
    BY <1>22, <1>27, <1>28, <1>29, <2>1, <2>2, <2>3 DEF PointsBack
<1>33. PointsBack(new, v, L + 1)
  <2>1. n \in Indices(Len(new[x]))
    <3>1. n < Len(graph[x]) /\ Len(graph[x]) <= Len(new[x]) /\ Len(graph[x]) \in Nat /\ Len(new[x]) \in Nat
      BY <1>9, <1>10, <1>27
    <3>2. n \in 0 .. (Len(new[x]) - 1)
      BY <3>1
    <3> QED
      BY <3>2 DEF Indices
  <2>2. Mate(new, r) = t
    BY <1>9, <1>22, <1>28 DEF Mate, Slot
  <2>3. (L + 1) - 1 = L
    OBVIOUS
  <2> QED
    BY <1>22, <1>27, <1>29, <2>1, <2>2, <2>3 DEF PointsBack
\* The other slots do not change, and neither do their mates.
<1>34. ASSUME NEW y \in GraphNodes, NEW j \in 1 .. Len(graph[y]), ~(y = x /\ j = i),
              PointsBack(graph, y, j), NEW w, w = graph[y][j], ~(w.to = x /\ w.rev + 1 = i)
       PROVE  PointsBack(new, y, j)
  <2>1. w.to \in GraphNodes /\ w.rev \in Int
    BY <1>3, <1>34, SlotFacts
  <2>2. w.rev \in Indices(Len(graph[w.to]))
    BY <1>34 DEF PointsBack
  <2>3. w.rev + 1 \in 1 .. Len(graph[w.to])
    <3>1. PICK a, b : a = w.rev /\ b = Len(graph[w.to])
      OBVIOUS
    <3>2. a \in 0 .. (b - 1) /\ b \in Nat
      BY <1>27, <2>1, <2>2, <3>1 DEF Indices
    <3>3. a + 1 \in 1 .. b
      BY ONLY <3>2
    <3> QED
      BY <3>1, <3>3
  <2>4. new[w.to][w.rev + 1] = graph[w.to][w.rev + 1] /\ Len(graph[w.to]) <= Len(new[w.to])
    BY <1>27, <1>34, <2>1, <2>3
  <2>5. new[y][j] = graph[y][j]
    BY <1>27, <1>34
  <2> QED
    BY <1>3, <1>27, <1>34, <2>4, <2>5, KeptPointsBack
<1>35. LaterSlots'
  <2>1. ASSUME NEW y \in GraphNodes, NEW j \in (sizes[y] + 1) .. Len(new[y]), NEW w, w = new[y][j]
        PROVE  PointsBack(new, y, j) /\ w.rev < sizes[w.to] /\ IsDone(w.to, w.rev + 1)'
    <3>1. sizes[y] \in Nat /\ j \in Nat /\ j > sizes[y] /\ j <= Len(new[y])
      <4>1. sizes[y] \in Nat /\ Len(new[y]) \in Nat
        BY <1>5, <1>27
      <4> QED
        BY ONLY <4>1, j \in (sizes[y] + 1) .. Len(new[y])
    <3>2. CASE j <= Len(graph[y])
      <4>1. j \in (sizes[y] + 1) .. Len(graph[y]) /\ j \in 1 .. Len(graph[y])
        BY <1>27, <3>1, <3>2
      <4>2. ~(y = x /\ j = i)
        BY <1>10, <3>1
      <4>3. w = graph[y][j]
        BY <1>27, <2>1, <4>1, <4>2
      <4>4. PointsBack(graph, y, j) /\ w.rev < sizes[w.to] /\ IsDone(w.to, w.rev + 1)
        BY <1>5, <4>1, <4>3 DEF LaterSlots
      <4>5. ~(w.to = x /\ w.rev + 1 = i)
        BY <1>18, <4>4
      <4>6. w.to \in GraphNodes /\ w.rev + 1 \in Nat
        <5>1. w.to \in GraphNodes /\ w.rev \in Indices(Len(graph[w.to])) /\ w.rev \in Int
          BY <1>3, <4>1, <4>3, <4>4, SlotFacts DEF PointsBack
        <5> QED
          BY <1>27, <5>1 DEF Indices
      <4> QED
        BY <1>30, <1>34, <4>1, <4>2, <4>3, <4>4, <4>5, <4>6
    <3>3. CASE ~(j <= Len(graph[y]))
      <4>1. y = v
        BY <1>27, <3>1, <3>3
      <4>2. j = L + 1
        BY <1>26, <1>27, <3>1, <3>3, <4>1
      <4>3. w = r /\ PointsBack(new, y, j)
        BY <1>27, <1>33, <2>1, <4>1, <4>2
      <4>4. n < sizes[x]
        BY <1>9, <1>10
      <4>5. IsDone(x, i)'
        BY <1>10, <1>30
      <4> QED
        BY <1>9, <1>22, <4>3, <4>4, <4>5
    <3> QED
      BY <3>2, <3>3
  <2>2. \A a, b : IsDone(a, b)' <=> a < node \/ (a = node /\ b <= index')
    BY <1>1 DEF IsDone
  <2>3. \A y \in GraphNodes : \A j \in (sizes[y] + 1) .. Len(new[y]) :
          /\ PointsBack(new, y, j) /\ new[y][j].rev < sizes[new[y][j].to]
          /\ \/ new[y][j].to < node
             \/ new[y][j].to = node /\ new[y][j].rev + 1 <= index'
    BY <2>1, <2>2
  <2>4. \A y, j : PointsBack(graph, y, j)' = PointsBack(new, y, j)
    BY <1>23 DEF PointsBack, Mate, Slot
  <2>5. LaterSlots' <=>
          \A y \in GraphNodes : \A j \in (sizes[y] + 1) .. Len(new[y]) :
            /\ PointsBack(new, y, j) /\ new[y][j].rev < sizes[new[y][j].to]
            /\ \/ new[y][j].to < node
               \/ new[y][j].to = node /\ new[y][j].rev + 1 <= index'
    BY <1>1, <1>23, <1>31, <2>4 DEF LaterSlots, IsDone
  <2> QED
    BY ONLY <2>3, <2>5
<1>36. FormerSlots(owner)'
  <2>1. ASSUME NEW y \in GraphNodes, NEW j \in 1 .. sizes[y], NEW w, w = new[y][j]
        PROVE  IF IsDone(y, j)'
               THEN w.to = pairs[owner[y][j]].to /\ PointsBack(new, y, j) /\ w.rev >= sizes[w.to]
               ELSE IsFirstSlot(w, owner[y][j])
    <3>1. sizes[y] \in Nat /\ j \in Nat /\ j \in 1 .. Len(graph[y]) /\ sizes[y] <= Len(graph[y])
      <4>1. sizes[y] \in Nat /\ Len(graph[y]) \in Nat /\ sizes[y] <= Len(graph[y])
        BY <1>5, <1>27
      <4> QED
        BY <4>1
    <3>2. CASE y = x /\ j = i
      <4>1. IsDone(y, j)'
        BY <1>10, <1>30, <3>2
      <4>2. w = t /\ w.to = pairs[owner[y][j]].to
        BY <1>12, <1>17, <1>20, <1>28, <1>29, <2>1, <3>2
      <4>3. w.rev >= sizes[w.to]
        BY <1>5, <1>26, <1>29, <4>2
      <4> QED
        BY <1>32, <3>2, <4>1, <4>2, <4>3
    <3>3. CASE ~(y = x /\ j = i)
      <4>1. w = graph[y][j]
        BY <1>27, <2>1, <3>1, <3>3
      <4>2. IsDone(y, j)' <=> IsDone(y, j)
        BY <1>30, <3>1, <3>3
      <4>3. CASE IsDone(y, j)
        <5>1. w.to = pairs[owner[y][j]].to /\ PointsBack(graph, y, j) /\ w.rev >= sizes[w.to]
          BY <1>14, <4>1, <4>3 DEF FormerSlots
        <5>2. w.to \in GraphNodes /\ w.rev \in Int
          BY <1>3, <3>1, <4>1, SlotFacts
        <5>3. ~(w.to = x /\ w.rev + 1 = i)
          BY <1>10, <5>1, <5>2
        <5> QED
          BY <1>34, <3>1, <3>3, <4>1, <4>2, <4>3, <5>1, <5>3
      <4>4. CASE ~IsDone(y, j)
        <5>1. IsFirstSlot(graph[y][j], owner[y][j])
          BY <1>14, <4>4 DEF FormerSlots
        <5> QED
          BY <4>1, <4>2, <4>4, <5>1
      <4> QED
        BY <4>3, <4>4
    <3> QED
      BY <3>2, <3>3
  <2>2. \A a, o : IsFirstSlot(a, o)' <=> IsFirstSlot(a, o)
    BY <1>1 DEF IsFirstSlot
  <2>3. \A y, j : PointsBack(graph, y, j)' = PointsBack(new, y, j)
    BY <1>23 DEF PointsBack, Mate, Slot
  <2>4. FormerSlots(owner)' <=>
          \A y \in GraphNodes : \A j \in 1 .. sizes[y] :
            IF IsDone(y, j)'
            THEN /\ new[y][j].to = pairs[owner[y][j]].to
                 /\ PointsBack(new, y, j) /\ new[y][j].rev >= sizes[new[y][j].to]
            ELSE IsFirstSlot(new[y][j], owner[y][j])
    BY <1>1, <1>23, <1>31, <2>2, <2>3 DEF FormerSlots
  <2> QED
    BY ONLY <2>1, <2>4
<1>37. PICK Done : Done = DonePairs(owner)
  OBVIOUS
<1>38. /\ p \notin Done /\ Done \subseteq 1 .. K /\ DonePairs(owner)' = Done \cup {p}
  <2>1. \A o \in 1 .. K : o \in Done <=>
          \E y \in GraphNodes : \E j \in 1 .. sizes[y] : IsDone(y, j) /\ owner[y][j] = o
    BY <1>3, <1>13, <1>37 DEF DonePairs
  <2>2. Done \subseteq 1 .. K
    BY <1>3, <1>13, <1>37 DEF DonePairs
  <2>3. DonePairs(owner)' = {o \in 1 .. K : \E y \in GraphNodes : \E j \in 1 .. sizes[y] :
                                IsDone(y, j)' /\ owner[y][j] = o}
    BY <1>1, <1>3, <1>13, <1>31 DEF DonePairs
  <2>4. p \notin Done
    <3> SUFFICES ASSUME p \in Done PROVE FALSE
      OBVIOUS
    <3>1. PICK y \in GraphNodes : \E j \in 1 .. sizes[y] : IsDone(y, j) /\ owner[y][j] = p
      BY <1>16, <2>1
    <3>2. PICK j \in 1 .. sizes[y] : IsDone(y, j) /\ owner[y][j] = p
      BY <3>1
    <3>3. y = x /\ j = i
      <4>1. /\ i \in 1 .. Len(owner[x]) /\ j \in 1 .. Len(owner[y])
            /\ owner[y][j] = owner[x][i]
        BY <1>10, <1>12, <1>15, <3>2
      <4>2. \A a, b \in GraphNodes : \A c \in 1 .. Len(owner[a]), d \in 1 .. Len(owner[b]) :
              owner[a][c] = owner[b][d] => a = b /\ c = d
        BY <1>14 DEF IsOwner
      <4> QED
        BY <4>1, <4>2
    <3> QED
      BY <1>18, <3>2, <3>3
  <2>5. ASSUME NEW o \in 1 .. K PROVE o \in DonePairs(owner)' <=> o \in Done \/ o = p
    <3>1. \A y \in GraphNodes : \A j \in 1 .. sizes[y] : IsDone(y, j)' <=> IsDone(y, j) \/ (y = x /\ j = i)
      BY <1>5, <1>30
    <3> QED
      BY <1>10, <1>12, <2>1, <2>3, <3>1
  <2> QED
    BY <1>16, <2>2, <2>3, <2>4, <2>5
<1>39. ASSUME NEW S \in SUBSET GraphNodes
       PROVE  CutOfLists(new, S) = SumOver(Forwards(S), DOMAIN pairs)
                                     + SumOver(Backwards(S), Done \cup {p})
  <2>1. PICK f, g : f = Forwards(S) /\ g = Backwards(S)
    OBVIOUS
  <2>2. \A j \in 1 .. K : f[j] \in Int /\ g[j] \in Int
    BY <1>2, <1>13, <2>1, TermTypes
  <2>3. IsFiniteSet(1 .. K) /\ IsFiniteSet(Done)
    <3>1. IsFiniteSet(1 .. K)
      BY FS_Interval
    <3>2. Done \subseteq 1 .. K
      BY <1>38
    <3> QED
      BY <3>1, <3>2, FS_Subset
  <2>4. SumOver(g, Done \cup {p}) = g[p] + SumOver(g, Done)
    <3>1. \A j \in Done \cup {p} : g[j] \in Int
      BY <1>16, <1>38, <2>2
    <3> QED
      BY <1>38, <2>3, <3>1, SumInsert
  <2>5. SumOver(f, 1 .. K) \in Int /\ SumOver(g, Done) \in Int /\ g[p] \in Int
    BY <1>16, <1>38, <2>2, <2>3, SumType
  <2>6. g[p] = Crossing(S, v, r.to, r.capacity)
    <3>1. p \in DOMAIN pairs
      BY <1>3, <1>13, <1>16
    <3> QED
      BY <1>16, <1>17, <1>20, <1>22, <2>1, <3>1 DEF Backwards, Against
  <2>7. CutOfLists(graph, S) = SumOver(f, 1 .. K) + SumOver(g, Done)
    BY <1>3, <1>6, <1>13, <1>37, <2>1 DEF IsSecondOwner
  <2>8. CutOfLists(new, S) = CutOfLists(graph, S) + g[p]
    BY <1>25, <2>6 DEF MateAdded, GrowsBy
  <2>9. CutOfLists(new, S) = SumOver(f, 1 .. K) + SumOver(g, Done \cup {p})
    BY ONLY <2>4, <2>5, <2>7, <2>8
  <2> QED
    BY <1>3, <1>13, <2>1, <2>9
<1>40. IsSecondOwner(owner)'
  <2>1. IsOwner(owner, sizes, Len(pairs))'
    BY <1>1, <1>13, <1>14, <1>31 DEF IsOwner
  <2> QED
    BY <1>1, <1>23, <1>31, <1>36, <1>38, <1>39, <2>1 DEF IsSecondOwner
<1>41. SecondInv'
  <2>1. index' \in Nat /\ index' <= sizes[node]
    BY <1>1, <1>7, <1>8, <1>9, <1>10
  <2>2. \A y \in GraphNodes : sizes[y] <= Len(new[y])
    <3> SUFFICES ASSUME NEW y \in GraphNodes PROVE sizes[y] <= Len(new[y])
      OBVIOUS
    <3>1. sizes[y] \in Nat /\ sizes[y] <= Len(graph[y])
      BY <1>5
    <3> QED
      BY <1>27, <3>1
  <2> QED
    BY <1>1, <1>5, <1>23, <1>31, <1>35, <1>40, <2>1, <2>2 DEF SecondInv
<1>42. TypeInv'
  BY <1>1, <1>2, <1>23, <1>27, <1>31 DEF TypeInv
<1>43. MergeInv'
  <2>1. \A S \in SUBSET GraphNodes :
          SumOver(Forwards(S), DOMAIN pairs) + SumOver(Backwards(S), DOMAIN pairs)
            = CutOfArcs(arcs, S)
    BY <1>1 DEF BuildInv, MergeInv
  <2> QED
    BY <1>1, <1>31, <2>1 DEF MergeInv
<1>44. DirectInv' /\ FirstInv' /\ BuildersKeepCuts' /\ MatesAreMutual'
  BY <1>1 DEF DirectInv, FirstInv, BuildersKeepCuts, MatesAreMutual
<1> QED
  BY <1>41, <1>42, <1>43, <1>44 DEF BuildInv

LEMMA NextNodeKeeps ==
  ASSUME CaseInv, ArcsInv, BuildInv, NextNode PROVE BuildInv'
<1>1. /\ pc = "second" /\ pc' = "second" /\ node \in GraphNodes /\ index = sizes[node]
      /\ node' = node + 1 /\ index' = 0
      /\ UNCHANGED <<file, builder, arcs, pairs, k, sizes, graph>>
  BY DEF NextNode, caseVars
<1>2. pc \in Building /\ TypeInv
  BY <1>1 DEF Building, BuildInv
<1>3. graph \in Lists
  BY <1>2, BuildFacts
<1>4. file[1] \in Nat /\ GraphNodes = 0 .. (file[1] - 1)
  BY <1>1, NodesAreNumbers DEF CaseInv
<1>5. /\ sizes \in [GraphNodes -> Nat]
      /\ \A x \in GraphNodes : sizes[x] <= Len(graph[x])
      /\ LaterSlots
  BY <1>1 DEF BuildInv, SecondInv
<1>6. PICK owner : IsSecondOwner(owner)
  BY <1>1 DEF BuildInv, SecondInv
<1>7. PICK x \in GraphNodes : x = node
  BY <1>1
<1>8. x \in Nat /\ x < file[1] /\ sizes[x] \in Nat
  BY <1>4, <1>5
<1>9. \A y \in GraphNodes : \A j \in Int : IsDone(y, j) => IsDone(y, j)'
  BY <1>1, <1>4, <1>7, <1>8 DEF IsDone
<1>10. ASSUME NEW y \in GraphNodes, NEW j \in 1 .. sizes[y] PROVE IsDone(y, j)' <=> IsDone(y, j)
  <2>1. y \in Nat /\ j \in Nat /\ j >= 1 /\ j <= sizes[y]
    BY <1>4, <1>5
  <2>2. IsDone(y, j)' <=> y < x + 1 \/ (y = x + 1 /\ j <= 0)
    BY <1>1, <1>7 DEF IsDone
  <2>3. IsDone(y, j) <=> y < x \/ (y = x /\ j <= sizes[x])
    BY <1>1, <1>7 DEF IsDone
  <2> QED
    BY <1>8, <2>1, <2>2, <2>3
<1>11. /\ GraphNodes' = GraphNodes /\ Lists' = Lists /\ Pairs' = Pairs
       /\ \A S : /\ OfArcs(S)' = OfArcs(S) /\ Forwards(S)' = Forwards(S)
                 /\ Backwards(S)' = Backwards(S) /\ CutOfArcs(arcs, S)' = CutOfArcs(arcs, S)
  BY <1>1, BuildStep
<1>12. \A y, j : PointsBack(graph, y, j)' = PointsBack(graph, y, j)
  BY <1>1 DEF PointsBack, Mate, Slot
<1>13. LaterSlots'
  <2>1. ASSUME NEW y \in GraphNodes, NEW j \in (sizes[y] + 1) .. Len(graph[y]), NEW w, w = graph[y][j]
        PROVE  PointsBack(graph, y, j) /\ w.rev < sizes[w.to] /\ IsDone(w.to, w.rev + 1)'
    <3>1. PointsBack(graph, y, j) /\ w.rev < sizes[w.to] /\ IsDone(w.to, w.rev + 1)
      BY <1>5, <2>1 DEF LaterSlots
    <3>2. w.to \in GraphNodes /\ w.rev \in Int
      <4>1. j \in 1 .. Len(graph[y])
        BY <1>3, <1>5, SlotFacts
      <4> QED
        BY <1>3, <2>1, <4>1, SlotFacts
    <3> QED
      BY <1>9, <3>1, <3>2
  <2>2. \A a, b : IsDone(a, b)' <=> a < node' \/ (a = node' /\ b <= index')
    BY DEF IsDone
  <2>3. \A y \in GraphNodes : \A j \in (sizes[y] + 1) .. Len(graph[y]) :
          /\ PointsBack(graph, y, j) /\ graph[y][j].rev < sizes[graph[y][j].to]
          /\ \/ graph[y][j].to < node'
             \/ graph[y][j].to = node' /\ graph[y][j].rev + 1 <= index'
    BY <2>1, <2>2
  <2>4. LaterSlots' <=>
          \A y \in GraphNodes : \A j \in (sizes[y] + 1) .. Len(graph[y]) :
            /\ PointsBack(graph, y, j) /\ graph[y][j].rev < sizes[graph[y][j].to]
            /\ \/ graph[y][j].to < node'
               \/ graph[y][j].to = node' /\ graph[y][j].rev + 1 <= index'
    BY <1>1, <1>11, <1>12 DEF LaterSlots, IsDone
  <2> QED
    BY ONLY <2>3, <2>4
<1>14. FormerSlots(owner)'
  <2>1. FormerSlots(owner)
    BY <1>6 DEF IsSecondOwner
  <2>2. \A w, o : IsFirstSlot(w, o)' <=> IsFirstSlot(w, o)
    BY <1>1 DEF IsFirstSlot
  <2>3. \A y, j : PointsBack(graph, y, j)' = PointsBack(graph, y, j)
    BY <1>1 DEF PointsBack, Mate, Slot
  <2>4. FormerSlots(owner)' <=>
          \A y \in GraphNodes : \A j \in 1 .. sizes[y] :
            IF IsDone(y, j)'
            THEN /\ graph[y][j].to = pairs[owner[y][j]].to
                 /\ PointsBack(graph, y, j) /\ graph[y][j].rev >= sizes[graph[y][j].to]
            ELSE IsFirstSlot(graph[y][j], owner[y][j])
    BY <1>1, <1>11, <2>2, <2>3 DEF FormerSlots
  <2> QED
    BY <1>10, <2>1, <2>4 DEF FormerSlots
<1>15. DonePairs(owner)' = DonePairs(owner)
  BY <1>1, <1>10, <1>11 DEF DonePairs
<1>16. IsSecondOwner(owner)'
  <2>1. IsOwner(owner, sizes, Len(pairs))'
    BY <1>1, <1>6, <1>11 DEF IsOwner, IsSecondOwner
  <2>2. \A S \in SUBSET GraphNodes :
          CutOfLists(graph, S) = SumOver(Forwards(S), DOMAIN pairs)
                                   + SumOver(Backwards(S), DonePairs(owner))
    BY <1>6 DEF IsSecondOwner
  <2> QED
    BY <1>1, <1>11, <1>14, <1>15, <2>1, <2>2 DEF IsSecondOwner
<1>17. SecondInv'
  <2>1. node' \in 0 .. file[1] /\ index' \in Nat
    BY <1>1, <1>4, <1>7, <1>8
  <2>2. node' \in GraphNodes => index' <= sizes[node']
    BY <1>1, <1>5
  <2> QED
    BY <1>1, <1>5, <1>11, <1>13, <1>16, <2>1, <2>2 DEF SecondInv
<1>18. TypeInv'
  BY <1>1, <1>2, <1>11 DEF TypeInv
<1>19. MergeInv'
  <2>1. \A S \in SUBSET GraphNodes :
          SumOver(Forwards(S), DOMAIN pairs) + SumOver(Backwards(S), DOMAIN pairs)
            = CutOfArcs(arcs, S)
    BY <1>1 DEF BuildInv, MergeInv
  <2> QED
    BY <1>1, <1>11, <2>1 DEF MergeInv
<1>20. DirectInv' /\ FirstInv' /\ BuildersKeepCuts' /\ MatesAreMutual'
  BY <1>1 DEF DirectInv, FirstInv, BuildersKeepCuts, MatesAreMutual
<1> QED
  BY <1>17, <1>18, <1>19, <1>20 DEF BuildInv

-------------------------------------------------------------------------------
(* The finished lists.                                                     *)

\* A slot of the lists knows its mate, and also the capacity of its mate.
IsMutual(lists, x, i) ==
  LET s == Slot(lists[x], i)
  IN  /\ s.to \in GraphNodes /\ s.rev \in Indices(Len(lists[s.to]))
      /\ s.to # x => Mate(lists, s).to = x /\ Mate(lists, s).rev = i

KnowsCapacity(lists, x, i) ==
  LET s == Slot(lists[x], i) IN s.revCapacity = Mate(lists, s).capacity

LEMMA BackIsMutual ==
  ASSUME NEW lists \in Lists, AllPointBack(lists), NEW x \in GraphNodes,
         NEW i \in Indices(Len(lists[x]))
  PROVE  IsMutual(lists, x, i) /\ i + 1 \in 1 .. Len(lists[x])
<1>1. i + 1 \in 1 .. Len(lists[x]) /\ i \in Nat
  <2>1. PICK L \in Nat : L = Len(lists[x])
    BY SlotFacts
  <2>2. i \in 0 .. (L - 1)
    BY <2>1 DEF Indices
  <2>3. i + 1 \in 1 .. L /\ i \in Nat
    BY ONLY <2>2, L \in Nat
  <2> QED
    BY <2>1, <2>3
<1>2. PICK s : s = lists[x][i + 1]
  OBVIOUS
<1>3. s.to \in GraphNodes
  BY <1>1, <1>2, SlotFacts
<1>4. PointsBack(lists, x, i + 1)
  BY <1>1 DEF AllPointBack
<1>5. (i + 1) - 1 = i
  BY <1>1
<1> QED
  BY <1>1, <1>2, <1>3, <1>4, <1>5 DEF IsMutual, PointsBack, Slot

\* Everything but the cached capacities stays as it is.
Cached(old, new) ==
  /\ new \in Lists
  /\ \A x \in GraphNodes :
       /\ Len(new[x]) = Len(old[x])
       /\ \A i \in 1 .. Len(old[x]) :
            /\ new[x][i].to = old[x][i].to /\ new[x][i].rev = old[x][i].rev
            /\ new[x][i].capacity = old[x][i].capacity
            /\ new[x][i].revCapacity = Mate(old, old[x][i]).capacity

LEMMA MateIsSlot ==
  ASSUME NEW lists \in Lists, AllPointBack(lists), NEW x \in GraphNodes,
         NEW i \in 1 .. Len(lists[x]), NEW s, s = lists[x][i]
  PROVE  s.to \in GraphNodes /\ s.rev + 1 \in 1 .. Len(lists[s.to])
<1>1. s.to \in GraphNodes /\ s.rev \in Int
  BY SlotFacts
<1>2. s.rev \in Indices(Len(lists[s.to]))
  BY DEF AllPointBack, PointsBack
<1>3. PICK a, b : a = s.rev /\ b = Len(lists[s.to])
  OBVIOUS
<1>4. a \in 0 .. (b - 1) /\ b \in Nat
  BY <1>1, <1>2, <1>3, SlotFacts DEF Indices
<1>5. a + 1 \in 1 .. b
  BY ONLY <1>4
<1> QED
  BY <1>1, <1>3, <1>5

LEMMA CacheFacts ==
  ASSUME NEW lists \in Lists, AllPointBack(lists)
  PROVE  Cached(lists, CacheReverse(lists))
<1>1. PICK new : new = CacheReverse(lists)
  OBVIOUS
<1>2. ASSUME NEW x \in GraphNodes
      PROVE  /\ new[x] \in Seq(Slots) /\ Len(new[x]) = Len(lists[x])
             /\ \A i \in 1 .. Len(lists[x]) :
                  /\ new[x][i].to = lists[x][i].to /\ new[x][i].rev = lists[x][i].rev
                  /\ new[x][i].capacity = lists[x][i].capacity
                  /\ new[x][i].revCapacity = Mate(lists, lists[x][i]).capacity
  <2>1. PICK L \in Nat : L = Len(lists[x]) /\ DOMAIN lists[x] = 1 .. L
    BY SlotFacts
  <2>2. new[x] = [i \in 1 .. L |->
                    [lists[x][i] EXCEPT !.revCapacity = Mate(lists, lists[x][i]).capacity]]
    BY <1>1, <2>1 DEF CacheReverse, Lists
  <2>3. ASSUME NEW i \in 1 .. L
        PROVE  /\ new[x][i] \in Slots
               /\ new[x][i].to = lists[x][i].to /\ new[x][i].rev = lists[x][i].rev
               /\ new[x][i].capacity = lists[x][i].capacity
               /\ new[x][i].revCapacity = Mate(lists, lists[x][i]).capacity
    <3>1. PICK s \in Slots : s = lists[x][i]
      BY <2>1, SlotFacts
    <3>2. PICK c : c = Mate(lists, s).capacity
      OBVIOUS
    <3>3. s.to \in GraphNodes /\ s.rev + 1 \in 1 .. Len(lists[s.to])
      BY <2>1, <3>1, MateIsSlot
    <3>4. c \in Int
      BY <3>2, <3>3, SlotFacts DEF Mate, Slot
    <3>5. PICK t : t = [s EXCEPT !.revCapacity = c]
      OBVIOUS
    <3>6. new[x][i] = t
      BY <2>2, <3>1, <3>2, <3>5
    <3>7. PICK N : N = GraphNodes
      OBVIOUS
    <3>8. s \in [to : N, capacity : Int, rev : Int, revCapacity : Int]
      BY <3>7 DEF Slots
    <3>9. /\ t \in [to : N, capacity : Int, rev : Int, revCapacity : Int]
          /\ t.to = s.to /\ t.capacity = s.capacity /\ t.rev = s.rev /\ t.revCapacity = c
      BY ONLY <3>4, <3>5, <3>8
    <3> QED
      BY <3>1, <3>2, <3>6, <3>7, <3>9 DEF Slots
  <2>4. new[x] \in Seq(Slots) /\ Len(new[x]) = L
    <3>1. new[x] = [i \in 1 .. L |-> new[x][i]]
      BY <2>2
    <3>2. PICK list : list = new[x]
      OBVIOUS
    <3>3. list = [i \in 1 .. L |-> list[i]] /\ \A i \in 1 .. L : list[i] \in Slots
      BY <2>3, <3>1, <3>2
    <3>4. list \in Seq(Slots) /\ Len(list) = L
      BY ONLY <3>3, L \in Nat
    <3> QED
      BY <3>2, <3>4
  <2> QED
    BY <2>1, <2>3, <2>4
<1>3. new = [x \in GraphNodes |-> new[x]]
  BY <1>1 DEF CacheReverse, Lists
<1>4. new \in Lists
  BY <1>2, <1>3 DEF Lists
<1> QED
  BY <1>1, <1>2, <1>4 DEF Cached

LEMMA CachedIsMutual ==
  ASSUME NEW old \in Lists, AllPointBack(old), NEW new, Cached(old, new)
  PROVE  /\ new \in Lists
         /\ \A x \in GraphNodes : \A i \in Indices(Len(new[x])) :
              IsMutual(new, x, i) /\ KnowsCapacity(new, x, i)
         /\ \A S : CutOfLists(new, S) = CutOfLists(old, S)
<1>1. new \in Lists
  BY DEF Cached
<1>2. ASSUME NEW x \in GraphNodes, NEW i \in Indices(Len(new[x]))
      PROVE  IsMutual(new, x, i) /\ KnowsCapacity(new, x, i)
  <2>1. i \in Indices(Len(old[x])) /\ Len(new[x]) = Len(old[x])
    BY DEF Cached
  <2>2. IsMutual(old, x, i) /\ i + 1 \in 1 .. Len(old[x])
    BY <2>1, BackIsMutual
  <2>3. PICK s, t : s = old[x][i + 1] /\ t = new[x][i + 1]
    OBVIOUS
  <2>4. /\ t.to = s.to /\ t.rev = s.rev /\ t.revCapacity = Mate(old, s).capacity
    BY <2>2, <2>3 DEF Cached
  <2>5. s.to \in GraphNodes /\ s.rev + 1 \in 1 .. Len(old[s.to])
    BY <2>2, <2>3, MateIsSlot
  <2>6. /\ Mate(new, t).to = Mate(old, s).to /\ Mate(new, t).rev = Mate(old, s).rev
        /\ Mate(new, t).capacity = Mate(old, s).capacity
    BY <2>4, <2>5 DEF Cached, Mate, Slot
  <2>7. Len(new[t.to]) = Len(old[s.to])
    BY <2>4, <2>5 DEF Cached
  <2>8. KnowsCapacity(new, x, i)
    BY <2>3, <2>4, <2>6 DEF KnowsCapacity, Slot
  <2>9. IsMutual(new, x, i)
    BY <2>2, <2>3, <2>4, <2>6, <2>7 DEF IsMutual, Slot
  <2> QED
    BY <2>8, <2>9
<1>3. \A S : CutOfLists(new, S) = CutOfLists(old, S)
  BY <1>1, CutOfSame DEF Cached
<1> QED
  BY <1>1, <1>2, <1>3

\* The graph before the last step of a builder.
LEMMA BuiltFrom ==
  ASSUME CaseInv, ArcsInv, BuildInv, Built
  PROVE  /\ AllPointBack(graph)
         /\ \A S \in SUBSET GraphNodes : CutOfLists(graph, S) = CutOfArcs(arcs, S)
<1>1. pc \in {"dinic", "pairs", "second"}
  BY DEF Built
<1>2. pc \in Building /\ TypeInv
  BY <1>1 DEF Building, BuildInv
<1>3. /\ graph \in Lists /\ Len(pairs) \in Nat /\ DOMAIN pairs = 1 .. Len(pairs)
      /\ DOMAIN arcs = 1 .. Len(arcs)
  BY <1>2, BuildFacts
<1>4. CASE pc = "dinic"
  <2>1. \A S : CutOfArcs(arcs, S) = SumOver(OfArcs(S), 1 .. Len(arcs))
    BY <1>3 DEF CutOfArcs, OfArcs
  <2>2. k = Len(arcs)
    BY <1>4 DEF Built
  <2> QED
    BY <1>4, <2>1, <2>2 DEF BuildInv, DirectInv
<1>5. CASE pc = "pairs"
  <2>1. k = Len(pairs)
    BY <1>5 DEF Built
  <2>2. \A S \in SUBSET GraphNodes :
          SumOver(Forwards(S), DOMAIN pairs) + SumOver(Backwards(S), DOMAIN pairs)
            = CutOfArcs(arcs, S)
    BY <1>5 DEF BuildInv, MergeInv
  <2> QED
    BY <1>3, <1>5, <2>1, <2>2 DEF BuildInv, DirectInv
<1>6. CASE pc = "second"
  <2>1. node = file[1]
    BY <1>6 DEF Built
  <2>2. file[1] \in Nat /\ GraphNodes = 0 .. (file[1] - 1)
    BY <1>6, NodesAreNumbers DEF CaseInv
  <2>3. /\ sizes \in [GraphNodes -> Nat] /\ LaterSlots
        /\ \A x \in GraphNodes : sizes[x] <= Len(graph[x])
    BY <1>6 DEF BuildInv, SecondInv
  <2>4. PICK owner : IsSecondOwner(owner)
    BY <1>6 DEF BuildInv, SecondInv
  <2>5. \A x \in GraphNodes : \A i : IsDone(x, i)
    BY <2>1, <2>2 DEF IsDone
  <2>6. AllPointBack(graph)
    <3> SUFFICES ASSUME NEW x \in GraphNodes, NEW i \in 1 .. Len(graph[x])
                 PROVE  PointsBack(graph, x, i)
      BY DEF AllPointBack
    <3>1. Len(graph[x]) \in Nat /\ sizes[x] \in Nat
      BY <1>3, <2>3, SlotFacts
    <3>2. i \in 1 .. sizes[x] \/ i \in (sizes[x] + 1) .. Len(graph[x])
      BY <3>1
    <3>3. CASE i \in 1 .. sizes[x]
      BY <2>4, <2>5, <3>3 DEF IsSecondOwner, FormerSlots
    <3>4. CASE i \in (sizes[x] + 1) .. Len(graph[x])
      BY <2>3, <3>4 DEF LaterSlots
    <3> QED
      BY <3>2, <3>3, <3>4
  <2>7. DonePairs(owner) = DOMAIN pairs
    <3>1. IsOwner(owner, sizes, Len(pairs))
      BY <2>4 DEF IsSecondOwner
    <3>2. ASSUME NEW p \in 1 .. Len(pairs)
          PROVE  \E x \in GraphNodes : \E i \in 1 .. sizes[x] : IsDone(x, i) /\ owner[x][i] = p
      <4>1. PICK x \in GraphNodes : \E i \in 1 .. Len(owner[x]) : owner[x][i] = p
        BY <3>1 DEF IsOwner
      <4>2. Len(owner[x]) = sizes[x]
        BY <3>1 DEF IsOwner
      <4> QED
        BY <2>5, <4>1, <4>2
    <3> QED
      BY <1>3, <3>2 DEF DonePairs
  <2>8. \A S \in SUBSET GraphNodes :
          SumOver(Forwards(S), DOMAIN pairs) + SumOver(Backwards(S), DOMAIN pairs)
            = CutOfArcs(arcs, S)
    BY <1>6 DEF BuildInv, MergeInv
  <2> QED
    BY <2>4, <2>6, <2>7, <2>8 DEF IsSecondOwner
<1> QED
  BY <1>1, <1>4, <1>5, <1>6

LEMMA BuiltKeeps ==
  ASSUME CaseInv, ArcsInv, BuildInv, Built PROVE BuildInv'
<1>1. /\ pc \in {"dinic", "pairs", "second"} /\ pc' = "built"
      /\ UNCHANGED <<file, builder, arcs, pairs, k>>
      /\ \/ pc = "dinic" /\ graph' = graph
         \/ graph' = CacheReverse(graph)
  BY DEF Built, caseVars
<1>2. pc \in Building /\ TypeInv
  BY <1>1 DEF Building, BuildInv
<1>3. graph \in Lists /\ AllPointBack(graph)
  BY <1>2, BuildFacts, BuiltFrom
<1>4. PICK new : new = graph'
  OBVIOUS
<1>5. /\ new \in Lists
      /\ \A x \in GraphNodes : \A i \in Indices(Len(new[x])) :
           IsMutual(new, x, i) /\ (builder # "dinic" => KnowsCapacity(new, x, i))
      /\ \A S : CutOfLists(new, S) = CutOfLists(graph, S)
  <2>1. CASE pc = "dinic" /\ graph' = graph
    <3>1. builder = "dinic"
      BY <2>1 DEF BuildInv, DirectInv
    <3>2. new = graph
      BY <1>4, <2>1
    <3>3. \A x \in GraphNodes : \A i \in Indices(Len(new[x])) : IsMutual(new, x, i)
      BY <1>3, <3>2, BackIsMutual
    <3> QED
      BY <1>3, <3>1, <3>2, <3>3
  <2>2. CASE graph' = CacheReverse(graph)
    <3>1. Cached(graph, new)
      BY <1>3, <1>4, <2>2, CacheFacts
    <3> QED
      BY <1>3, <3>1, CachedIsMutual
  <2> QED
    BY <1>1, <2>1, <2>2
<1>6. /\ GraphNodes' = GraphNodes /\ Lists' = Lists /\ Pairs' = Pairs
      /\ \A S : CutOfArcs(arcs, S)' = CutOfArcs(arcs, S)
  BY <1>1, BuildStep
<1>7. BuildersKeepCuts'
  <2>1. \A S \in SUBSET GraphNodes : CutOfLists(new, S) = CutOfArcs(arcs, S)
    BY <1>5, BuiltFrom
  <2> QED
    BY <1>1, <1>4, <1>6, <2>1 DEF BuildersKeepCuts
<1>8. MatesAreMutual'
  <2>1. \A x \in GraphNodes : \A i \in Indices(Len(new[x])) :
          LET s == Slot(new[x], i)
          IN  /\ s.to \in GraphNodes /\ s.rev \in Indices(Len(new[s.to]))
              /\ s.to # x => /\ Mate(new, s).to = x /\ Mate(new, s).rev = i
                             /\ builder # "dinic" => s.revCapacity = Mate(new, s).capacity
    BY <1>5 DEF IsMutual, KnowsCapacity
  <2>2. pc' = "built" /\ builder' = builder
    BY <1>1
  <2>3. MatesAreMutual' <=>
          \A x \in GraphNodes : \A i \in Indices(Len(new[x])) :
            LET s == Slot(new[x], i)
            IN  /\ s.to \in GraphNodes /\ s.rev \in Indices(Len(new[s.to]))
                /\ s.to # x => /\ Mate(new, s).to = x /\ Mate(new, s).rev = i
                               /\ builder # "dinic" => s.revCapacity = Mate(new, s).capacity
    BY <1>4, <1>6, <2>2 DEF MatesAreMutual, Slot, Mate
  <2> QED
    BY ONLY <2>1, <2>3
<1>9. TypeInv'
  BY <1>1, <1>2, <1>4, <1>5, <1>6 DEF TypeInv
<1>10. MergeInv' /\ DirectInv' /\ FirstInv' /\ SecondInv'
  BY <1>1 DEF MergeInv, DirectInv, FirstInv, SecondInv
<1> QED
  BY <1>7, <1>8, <1>9, <1>10 DEF BuildInv

-------------------------------------------------------------------------------
(* The theorems about the lists.                                           *)

LEMMA EarlyKeeps ==
  ASSUME CaseInv, ArcsInv, BuildInv, Prepare \/ Read \/ ReadArc PROVE BuildInv'
<1>1. k \in Nat /\ k' \in Nat
  BY DEF BuildInv, TypeInv, Prepare, Read, ReadArc, Fail
<1>2. pc' \in {"read", "failed", "arcs"}
  BY DEF Prepare, Read, ReadArc, Fail
<1> QED
  BY <1>1, <1>2 DEF BuildInv, TypeInv, MergeInv, DirectInv, FirstInv, SecondInv, BuildersKeepCuts,
                    MatesAreMutual, Building

LEMMA StutterKeeps ==
  ASSUME BuildInv, UNCHANGED vars PROVE BuildInv'
<1>1. UNCHANGED <<file, draws, builder, pc, arcs, k, pairs, graph, sizes, node, index>>
  BY DEF vars
<1>2. /\ GraphNodes' = GraphNodes /\ Lists' = Lists /\ Pairs' = Pairs
      /\ \A S : /\ OfArcs(S)' = OfArcs(S) /\ Forwards(S)' = Forwards(S)
                /\ Backwards(S)' = Backwards(S) /\ CutOfArcs(arcs, S)' = CutOfArcs(arcs, S)
  BY <1>1, BuildStep
<1>3. TypeInv'
  BY <1>1, <1>2 DEF BuildInv, TypeInv
<1>4. MergeInv'
  BY <1>1, <1>2 DEF BuildInv, MergeInv, PairsDiffer
<1>5. AllPointBack(graph)' = AllPointBack(graph)
  BY <1>1, <1>2 DEF AllPointBack, PointsBack, Mate, Slot
<1>6. DirectInv'
  BY <1>1, <1>2, <1>5 DEF BuildInv, DirectInv
<1>7. \A owner : IsFirstOwner(owner)' = IsFirstOwner(owner)
  BY <1>1, <1>2 DEF IsFirstOwner, IsOwner, IsFirstSlot
<1>8. FirstInv'
  BY <1>1, <1>2, <1>7 DEF BuildInv, FirstInv
<1>9. \A owner : FormerSlots(owner)' = FormerSlots(owner)
  BY <1>1, <1>2 DEF FormerSlots, IsDone, IsFirstSlot, PointsBack, Mate, Slot
<1>10. \A owner : IsOwner(owner, sizes, Len(pairs))' = IsOwner(owner, sizes, Len(pairs))
  BY <1>1, <1>2 DEF IsOwner
<1>11. \A owner : DonePairs(owner)' = DonePairs(owner)
  BY <1>1, <1>2 DEF DonePairs, IsDone
<1>12. \A owner : IsSecondOwner(owner)' = IsSecondOwner(owner)
  BY <1>1, <1>2, <1>9, <1>10, <1>11 DEF IsSecondOwner
<1>13. LaterSlots' = LaterSlots
  BY <1>1, <1>2 DEF LaterSlots, IsDone, PointsBack, Mate, Slot
<1>14. SecondInv'
  BY <1>1, <1>2, <1>12, <1>13 DEF BuildInv, SecondInv
<1>15. BuildersKeepCuts' /\ MatesAreMutual'
  <2>1. BuildersKeepCuts /\ MatesAreMutual
    BY DEF BuildInv
  <2>2. BuildersKeepCuts'
    BY <1>1, <1>2, <2>1 DEF BuildersKeepCuts
  <2>3. MatesAreMutual'
    BY <1>1, <1>2, <2>1 DEF MatesAreMutual
  <2> QED
    BY <2>2, <2>3
<1> QED
  BY <1>3, <1>4, <1>6, <1>8, <1>14, <1>15 DEF BuildInv

LEMMA BuildIsKept ==
  ASSUME CaseInv, ArcsInv, BuildInv, [Next]_vars PROVE BuildInv'
<1>1. CaseInv' /\ ArcsInv'
  BY FileIsKept
<1> QED
  BY <1>1, EarlyKeeps, ArcsEndKeeps, AddDirectedEdgeKeeps, AddArcKeeps, ArcsMergedKeeps, AddPairKeeps,
     AddForwardKeeps, TakeSizesKeeps, AddReverseKeeps, NextNodeKeeps, BuiltKeeps, StutterKeeps DEF Next

LEMMA InitBuilds == Init => BuildInv
BY DEF Init, BuildInv, TypeInv, MergeInv, DirectInv, FirstInv, SecondInv, BuildersKeepCuts,
       MatesAreMutual, Building

LEMMA BuildIsInvariant == Spec => [](CaseInv /\ ArcsInv /\ BuildInv)
<1>1. CaseInv /\ ArcsInv /\ BuildInv /\ [Next]_vars => (CaseInv /\ ArcsInv /\ BuildInv)'
  BY FileIsKept, BuildIsKept
<1> QED
  BY <1>1, InitHolds, InitBuilds, PTL DEF Spec

\* The lists of every builder have the cuts of the file (buildGraph of the three main
\* programs), whatever arcs were merged into pairs and in whatever order they came.
THEOREM ComparisonBuildersKeepCuts == Spec => []BuildersKeepCuts
<1>1. BuildInv => BuildersKeepCuts
  BY DEF BuildInv
<1> QED
  BY <1>1, BuildIsInvariant, PTL

\* In the finished lists a slot and its mate point at each other, also after the second
\* pass of pushRelabelPprMain.cpp over lists that it extends, and the push-relabel
\* solvers know the capacity of the mate.
THEOREM ComparisonMatesAreMutual == Spec => []MatesAreMutual
<1>1. BuildInv => MatesAreMutual
  BY DEF BuildInv
<1> QED
  BY <1>1, BuildIsInvariant, PTL

===============================================================================
