---------------------------- MODULE GraphBuildProofs ---------------------------
(***************************************************************************)
(* What holds of every call of buildGraphFromECLFileWithMode, whatever the *)
(* file, the mode and the hash function: a graph that is returned is       *)
(* indexed and paired as the solvers rely on, every set of nodes is left   *)
(* by the same capacity in the graph and in the file, and the strict build *)
(* succeeds exactly on the files whose edges can be paired.                *)
(*                                                                         *)
(* The invariant of the strict build says that every edge hangs in the     *)
(* chain of its own two ends, so that what a probe and a walk find is an   *)
(* edge of the opposite direction; that of the residual build says how     *)
(* many slots of each node have been taken, and that the others are empty. *)
(***************************************************************************)
EXTENDS GraphBuild, FlowNetworkProofs

Ends(a) == <<TailOf(raw.ver, raw.n, a), raw.edges[a]>>

Reversed(k) == <<k[2], k[1]>>

\* raw holds what the file says.
RawInv ==
  /\ IsReadable(file)
  /\ raw.n = file[1]
  /\ raw.m = file[2]
  /\ raw.ver = VerOf(file)
  /\ raw.edges = EdgesOf(file)
  /\ raw.capacity \in [Indices(raw.m) -> Int]

\* The graph has the edges of the file, some of them paired.
IsStrictGraph ==
  /\ g = [nodeCount |-> raw.n, edgeCount |-> raw.m, ver |-> raw.ver,
          src |-> [a \in Indices(raw.m) |-> TailOf(raw.ver, raw.n, a)],
          dst |-> raw.edges, rev |-> g.rev, capacity |-> raw.capacity]
  /\ g.rev \in [Indices(raw.m) -> Indices(raw.m) \cup {-1}]
  /\ \A a \in Indices(raw.m) : g.rev[a] # -1 =>
        /\ g.rev[a] # a
        /\ g.rev[g.rev[a]] = a
        /\ Ends(g.rev[a]) = Reversed(Ends(a))

\* The edges of a chain have the ends that are the key of its bucket.
ChainsAreTrue ==
  /\ table \in [Indices(TableSize(raw.m)) -> [key : Int \X Int, head : Indices(raw.m) \cup {-1}]]
  /\ nextEdge \in [Indices(raw.m) -> Indices(raw.m) \cup {-1}]
  /\ \A i \in Indices(TableSize(raw.m)) : table[i].head # -1 => Ends(table[i].head) = table[i].key
  /\ \A a \in Indices(raw.m) : nextEdge[a] # -1 => Ends(nextEdge[a]) = Ends(a)

StrictInv ==
  /\ IsStrictGraph
  /\ ChainsAreTrue
  /\ e \in 0 .. raw.m
  /\ pc \in {"insertProbe", "pairProbe", "walk"} => e < raw.m
  /\ pc \in {"insertProbe", "pairProbe"} => slot \in Indices(TableSize(raw.m))
  /\ pc \in {"pair", "pairProbe", "walk"} => \A a \in Indices(e) : g.rev[a] # -1
  /\ pc \in {"pairProbe", "walk"} => g.rev[e] = -1
  /\ pc = "walk" => /\ cand \in Indices(raw.m) \cup {-1}
                    /\ cand # -1 => Ends(cand) = Reversed(Ends(e))

\* How many of the slots that the edges below k take are at x.
Taken(x, k) ==
  Cardinality({a \in Indices(k) : TailOf(raw.ver, raw.n, a) = x})
    + Cardinality({a \in Indices(k) : raw.edges[a] = x})

\* The slots of a graph G that are paired, with opposite ends.
PairsAreTrue(G) ==
  \A s \in Indices(G.edgeCount) : G.src[s] # -1 =>
    /\ G.dst[s] \in Indices(G.nodeCount)
    /\ G.rev[s] \in Indices(G.edgeCount)
    /\ G.rev[s] # s
    /\ G.rev[G.rev[s]] = s
    /\ G.src[G.rev[s]] = G.dst[s]
    /\ G.dst[G.rev[s]] = G.src[s]

\* What leaves S in the graph is what the edges of the file below k carry out of it.
CutsAgree(G, k) ==
  \A S \in SUBSET Indices(raw.n) :
    SumOver(G.capacity, {s \in Indices(G.edgeCount) : G.src[s] \in S /\ G.dst[s] \notin S})
      = SumOver(raw.capacity,
                {a \in Indices(k) : TailOf(raw.ver, raw.n, a) \in S /\ raw.edges[a] \notin S})

ResidualIndex == [x \in 0 .. raw.n |-> DegreeOfLower(x)]

\* The arrays are there, and the index array is final.
IsResidualGraph(G) ==
  LET Array == [Indices(2 * raw.m) -> Int]
  IN  G \in [nodeCount : {raw.n}, edgeCount : {2 * raw.m},
             ver : {ResidualIndex},
             src : Array, dst : Array, rev : Array, capacity : Array]

\* The first slots of every node are in use, the others are empty.
SlotsAreTrue(G, pos) ==
  \A x \in Indices(raw.n), s \in Indices(2 * raw.m) :
    G.ver[x] <= s /\ s < G.ver[x + 1] =>
      G.src[s] = IF s < G.ver[x] + pos[x] THEN x ELSE -1

PlaceInv ==
  /\ e \in 0 .. raw.m
  /\ IsResidualGraph(g)
  /\ nextPos = [x \in Indices(raw.n) |-> Taken(x, e)]
  /\ SlotsAreTrue(g, nextPos)
  /\ PairsAreTrue(g)
  /\ CutsAgree(g, e)

Labels == {"read", "strict", "residual", "place", "done", "failed", "died"} \cup StrictLabels

BuildInv ==
  /\ file \in Files
  /\ hash \in [KeysOf(file) -> HashValues]
  /\ pc \in Labels
  /\ pc \notin {"read", "failed", "died"} => RawInv
  /\ pc \in StrictLabels => StrictInv
  /\ pc = "place" => PlaceInv
  /\ BuiltGraphIsSound
  /\ KeepsCuts

-------------------------------------------------------------------------------
(* Index arrays.                                                           *)

\* An index array rises, and its ranges divide the edges among the nodes.
LEMMA IndexFacts ==
  ASSUME NEW n \in Nat, NEW m \in Nat, NEW ver \in [0 .. n -> Int],
         ver[0] = 0, ver[n] = m,
         \A x \in Indices(n) : ver[x] <= ver[x + 1]
  PROVE  /\ \A x, y \in 0 .. n : x <= y => ver[x] <= ver[y]
         /\ \A a \in Indices(m) : /\ TailOf(ver, n, a) \in Indices(n)
                                  /\ ver[TailOf(ver, n, a)] <= a
                                  /\ a < ver[TailOf(ver, n, a) + 1]
         /\ \A a \in Indices(m), x \in Indices(n) :
              ver[x] <= a /\ a < ver[x + 1] => x = TailOf(ver, n, a)
<1>1. \A x, y \in 0 .. n : x <= y => ver[x] <= ver[y]
  <2> SUFFICES ASSUME NEW x \in 0 .. n PROVE \A y \in 0 .. n : x <= y => ver[x] <= ver[y]
    OBVIOUS
  <2> DEFINE Bad == {y \in 0 .. n : x <= y /\ ~(ver[x] <= ver[y])}
  <2>1. SUFFICES ASSUME Bad # {} PROVE FALSE
    OBVIOUS
  <2>2. PICK y \in Bad : \A z \in Bad : ~(z < y)
    <3>1. Bad \in SUBSET Nat
      OBVIOUS
    <3> HIDE DEF Bad
    <3> QED
      BY <2>1, <3>1, LeastNumber
  <2>3. y \in 0 .. n /\ x <= y /\ ~(ver[x] <= ver[y]) /\ x # y
    OBVIOUS
  <2>4. y - 1 \in 0 .. n /\ x <= y - 1 /\ y - 1 < y /\ y - 1 \in Indices(n) /\ y - 1 + 1 = y
    BY <2>3 DEF Indices
  <2>5. ver[x] <= ver[y - 1]
    BY <2>2, <2>4
  <2>6. ver[y - 1] <= ver[y]
    BY <2>4
  <2>7. ver[x] \in Int /\ ver[y - 1] \in Int /\ ver[y] \in Int
    BY <2>3, <2>4
  <2> QED
    BY <2>3, <2>5, <2>6, <2>7
<1>2. ASSUME NEW a \in Indices(m)
      PROVE  \E x \in Indices(n) : ver[x] <= a /\ a < ver[x + 1]
  <2> DEFINE Above == {y \in 0 .. n : a < ver[y]}
  <2>1. n \in Above
    BY DEF Indices
  <2>2. PICK y \in Above : \A z \in Above : ~(z < y)
    <3>1. Above \in SUBSET Nat
      OBVIOUS
    <3> HIDE DEF Above
    <3> QED
      BY <2>1, <3>1, LeastNumber
  <2>3. y \in 0 .. n /\ a < ver[y] /\ y # 0
    BY <1>2 DEF Indices
  <2>4. y - 1 \in 0 .. n /\ y - 1 < y /\ y - 1 \in Indices(n) /\ y - 1 + 1 = y
    BY <2>3 DEF Indices
  <2>5. ~(a < ver[y - 1])
    BY <2>2, <2>4
  <2>6. ver[y - 1] \in Int /\ a \in Int
    BY <1>2, <2>4 DEF Indices
  <2>7. ver[y - 1] <= a
    BY <2>5, <2>6
  <2> QED
    BY <2>3, <2>4, <2>7
<1>3. \A a \in Indices(m) : /\ TailOf(ver, n, a) \in Indices(n)
                            /\ ver[TailOf(ver, n, a)] <= a
                            /\ a < ver[TailOf(ver, n, a) + 1]
  BY <1>2 DEF TailOf
<1>4. ASSUME NEW a \in Indices(m), NEW x \in Indices(n), NEW y \in Indices(n),
             ver[x] <= a, a < ver[x + 1], ver[y] <= a, a < ver[y + 1]
      PROVE  ~(x < y)
  <2> SUFFICES ASSUME x < y PROVE FALSE
    OBVIOUS
  <2>1. x + 1 \in 0 .. n /\ y \in 0 .. n /\ x + 1 <= y
    BY DEF Indices
  <2>2. ver[x + 1] <= ver[y] /\ ver[x + 1] \in Int /\ ver[y] \in Int /\ a \in Int
    BY <1>1, <2>1 DEF Indices
  <2> QED
    BY <1>4, <2>2
<1>5. ASSUME NEW a \in Indices(m), NEW x \in Indices(n), ver[x] <= a, a < ver[x + 1]
      PROVE  x = TailOf(ver, n, a)
  <2>1. PICK y \in Indices(n) : y = TailOf(ver, n, a)
    BY <1>3
  <2>2. ver[y] <= a /\ a < ver[y + 1]
    BY <1>3, <2>1
  <2>3. ~(x < y) /\ ~(y < x)
    BY <1>4, <1>5, <2>2
  <2>4. x \in Int /\ y \in Int
    BY DEF Indices
  <2> QED
    BY <2>1, <2>3, <2>4
<1> QED
  BY <1>1, <1>3, <1>5

\* What has been checked of a file that is taken.
LEMMA RawFacts ==
  ASSUME BuildInv, RawInv
  PROVE  /\ raw.n \in Nat /\ raw.n >= 1 /\ raw.m \in Nat
         /\ raw.ver \in [0 .. raw.n -> Int]
         /\ raw.ver[0] = 0 /\ raw.ver[raw.n] = raw.m
         /\ \A x \in Indices(raw.n) : raw.ver[x] <= raw.ver[x + 1]
         /\ raw.edges \in [Indices(raw.m) -> Indices(raw.n)]
         /\ raw.capacity \in [Indices(raw.m) -> Int]
<1>1. file \in Seq(Int)
  BY BuildAssumption DEF BuildInv
<1>2. /\ Len(file) >= 2 /\ file[1] >= 1 /\ file[2] >= 0
      /\ Len(file) >= 3 + file[1] + file[2]
      /\ VerOf(file)[0] = 0
      /\ VerOf(file)[file[1]] = file[2]
      /\ \A i \in 1 .. file[1] : VerOf(file)[i] >= VerOf(file)[i - 1]
      /\ \A a \in Indices(file[2]) : EdgesOf(file)[a] \in Indices(file[1])
  BY DEF RawInv, IsReadable, IsIndexValid, HeaderOK
<1>3. Len(file) \in Nat /\ file[1] \in Nat /\ file[2] \in Nat
  <2>1. file[1] \in Int /\ file[2] \in Int
    BY <1>1, <1>2
  <2> QED
    BY <1>1, <1>2, <2>1
<1>4. VerOf(file) \in [0 .. file[1] -> Int]
  <2> SUFFICES ASSUME NEW i \in 0 .. file[1] PROVE file[3 + i] \in Int
    BY DEF VerOf
  <2>1. 3 + i \in 1 .. Len(file)
    BY <1>2, <1>3
  <2> QED
    BY <1>1, <2>1
<1>5. EdgesOf(file) \in [Indices(file[2]) -> Indices(file[1])]
  BY <1>2 DEF EdgesOf
<1>6. \A x \in Indices(file[1]) : VerOf(file)[x] <= VerOf(file)[x + 1]
  <2> SUFFICES ASSUME NEW x \in Indices(file[1]) PROVE VerOf(file)[x] <= VerOf(file)[x + 1]
    OBVIOUS
  <2>1. x + 1 \in 1 .. file[1] /\ x + 1 - 1 = x /\ x \in 0 .. file[1] /\ x + 1 \in 0 .. file[1]
    BY <1>3 DEF Indices
  <2>2. VerOf(file)[x + 1] >= VerOf(file)[x]
    BY <1>2, <2>1
  <2>3. VerOf(file)[x] \in Int /\ VerOf(file)[x + 1] \in Int
    BY <1>4, <2>1
  <2> QED
    BY <2>2, <2>3
<1> QED
  BY <1>2, <1>3, <1>4, <1>5, <1>6 DEF RawInv

\* The ranges of the index array of the file.
LEMMA TailFacts ==
  ASSUME BuildInv, RawInv
  PROVE  /\ \A x, y \in 0 .. raw.n : x <= y => raw.ver[x] <= raw.ver[y]
         /\ \A a \in Indices(raw.m) :
              /\ TailOf(raw.ver, raw.n, a) \in Indices(raw.n)
              /\ raw.ver[TailOf(raw.ver, raw.n, a)] <= a
              /\ a < raw.ver[TailOf(raw.ver, raw.n, a) + 1]
         /\ \A a \in Indices(raw.m), x \in Indices(raw.n) :
              raw.ver[x] <= a /\ a < raw.ver[x + 1] => x = TailOf(raw.ver, raw.n, a)
<1>1. PICK n, m, ver : n = raw.n /\ m = raw.m /\ ver = raw.ver
  OBVIOUS
<1>2. /\ n \in Nat /\ m \in Nat /\ ver \in [0 .. n -> Int]
      /\ ver[0] = 0 /\ ver[n] = m
      /\ \A x \in Indices(n) : ver[x] <= ver[x + 1]
  BY <1>1, RawFacts
<1>3. /\ \A x, y \in 0 .. n : x <= y => ver[x] <= ver[y]
      /\ \A a \in Indices(m) : /\ TailOf(ver, n, a) \in Indices(n)
                               /\ ver[TailOf(ver, n, a)] <= a
                               /\ a < ver[TailOf(ver, n, a) + 1]
      /\ \A a \in Indices(m), x \in Indices(n) :
           ver[x] <= a /\ a < ver[x + 1] => x = TailOf(ver, n, a)
  BY ONLY <1>2, IndexFacts
<1> QED
  BY <1>1, <1>3

\* The ends of the edges are nodes, and both of their orders are keys.
LEMMA EndsFacts ==
  ASSUME BuildInv, RawInv, NEW a \in Indices(raw.m)
  PROVE  /\ TailOf(raw.ver, raw.n, a) \in Indices(raw.n)
         /\ raw.edges[a] \in Indices(raw.n)
         /\ Ends(a) \in Int \X Int
         /\ Reversed(Ends(a)) \in Int \X Int
         /\ Ends(a) # NoKey
         /\ Reversed(Ends(a)) # NoKey
         /\ hash[Ends(a)] \in Nat
         /\ hash[Reversed(Ends(a))] \in Nat
<1> DEFINE t(b) == TailOf(raw.ver, raw.n, b)
<1>1. t(a) \in Indices(raw.n) /\ raw.edges[a] \in Indices(raw.n)
  BY RawFacts, TailFacts
<1>2. t(a) \in Int /\ t(a) # -1 /\ raw.edges[a] \in Int /\ raw.edges[a] # -1
  <2>1. \A x \in Indices(raw.n) : x \in Int /\ x # -1
    BY RawFacts DEF Indices
  <2> QED
    BY <1>1, <2>1
<1>3. Ends(a) \in KeysOf(file) /\ Reversed(Ends(a)) \in KeysOf(file)
  BY DEF KeysOf, Ends, Reversed, RawInv
<1>4. \A k \in KeysOf(file) : hash[k] \in Nat
  BY BuildAssumption DEF BuildInv
<1> HIDE DEF t
<1>5. Ends(a) = <<t(a), raw.edges[a]>> /\ Reversed(Ends(a)) = <<raw.edges[a], t(a)>>
  BY DEF Ends, Reversed, t
<1> QED
  BY <1>1, <1>2, <1>3, <1>4, <1>5 DEF t, NoKey

-------------------------------------------------------------------------------
(* The size of the table.                                                  *)

IsDoubling(d, k) == d = [j \in 0 .. k |-> IF j = 0 THEN 1 ELSE 2 * d[j - 1]]

LEMMA DoublingExists ==
  ASSUME NEW k \in Nat
  PROVE  \E d : IsDoubling(d, k)
<1> DEFINE Bad == {i \in Nat : ~\E d : IsDoubling(d, i)}
<1>1. SUFFICES ASSUME Bad # {} PROVE FALSE
  OBVIOUS
<1>2. PICK i \in Bad : \A j \in Bad : ~(j < i)
  <2> HIDE DEF Bad
  <2>1. Bad \in SUBSET Nat
    BY DEF Bad
  <2> QED
    BY <1>1, <2>1, LeastNumber
<1>3. i \in Nat /\ ~\E d : IsDoubling(d, i)
  OBVIOUS
<1>4. i # 0
  <2>1. IsDoubling([j \in 0 .. 0 |-> 1], 0)
    BY DEF IsDoubling
  <2> QED
    BY <1>3, <2>1
<1>5. PICK d : IsDoubling(d, i - 1)
  <2>1. i - 1 \in Nat /\ i - 1 < i
    BY <1>3, <1>4
  <2> QED
    BY <1>2, <2>1
<1> DEFINE more == [j \in 0 .. i |-> IF j = 0 THEN 1 ELSE 2 * d[j - 1]]
<1>6. \A j \in 0 .. (i - 1) : more[j] = d[j]
  BY <1>3, <1>4, <1>5 DEF IsDoubling
<1>7. \A j \in 0 .. i : j # 0 => j - 1 \in 0 .. (i - 1)
  BY <1>3
<1>8. \A j \in 0 .. i : j # 0 => more[j - 1] = d[j - 1]
  BY <1>6, <1>7
<1>9. more = [j \in 0 .. i |-> IF j = 0 THEN 1 ELSE 2 * more[j - 1]]
  <2> DEFINE again == [j \in 0 .. i |-> IF j = 0 THEN 1 ELSE 2 * more[j - 1]]
  <2>1. \A j \in 0 .. i : more[j] = IF j = 0 THEN 1 ELSE 2 * d[j - 1]
    OBVIOUS
  <2>2. \A j \in 0 .. i : again[j] = IF j = 0 THEN 1 ELSE 2 * more[j - 1]
    OBVIOUS
  <2>3. more = [j \in 0 .. i |-> more[j]] /\ again = [j \in 0 .. i |-> again[j]]
    OBVIOUS
  <2> HIDE DEF more, again
  <2>4. \A j \in 0 .. i : more[j] = again[j]
    BY <1>8, <2>1, <2>2
  <2>5. more = again
    BY <2>3, <2>4
  <2> QED
    BY <2>5 DEF again
<1> HIDE DEF more
<1> QED
  BY <1>3, <1>9 DEF IsDoubling

\* Powers of two are positive and outgrow their exponents.
LEMMA DoublingsGrow ==
  ASSUME NEW k \in Nat
  PROVE  \A j \in 0 .. k : Doublings(k)[j] \in Nat /\ Doublings(k)[j] >= j + 1
<1>1. PICK d : IsDoubling(d, k) /\ d = Doublings(k)
  BY DoublingExists DEF Doublings, IsDoubling
<1>2. \A j \in 0 .. k : d[j] = IF j = 0 THEN 1 ELSE 2 * d[j - 1]
  BY <1>1 DEF IsDoubling
<1> DEFINE Bad == {j \in 0 .. k : ~(d[j] \in Nat /\ d[j] >= j + 1)}
<1>3. SUFFICES ASSUME Bad # {} PROVE FALSE
  BY <1>1
<1>4. PICK j \in Bad : \A i \in Bad : ~(i < j)
  <2>1. Bad \in SUBSET Nat
    OBVIOUS
  <2> HIDE DEF Bad
  <2> QED
    BY <1>3, <2>1, LeastNumber
<1>5. j \in 0 .. k /\ ~(d[j] \in Nat /\ d[j] >= j + 1)
  OBVIOUS
<1>6. j # 0
  BY <1>2, <1>5
<1>7. j - 1 \in 0 .. k /\ j - 1 < j
  BY <1>5, <1>6
<1>8. d[j - 1] \in Nat /\ d[j - 1] >= j
  BY <1>4, <1>7
<1>9. d[j] = 2 * d[j - 1]
  BY <1>2, <1>5, <1>6
<1>10. j \in Nat /\ j >= 1
  BY <1>5, <1>6
<1>11. d[j] \in Nat /\ d[j] >= j + 1
  BY ONLY <1>8, <1>9, <1>10
<1> QED
  BY <1>5, <1>11

\* There is a bucket for every edge.
LEMMA TableSizeIsPositive ==
  ASSUME NEW m \in Nat
  PROVE  TableSize(m) \in Nat /\ TableSize(m) > m
<1> DEFINE d == Doublings(m + 1)
           P == {d[j] : j \in {i \in 0 .. (m + 1) : d[i] >= m + 1}}
<1>1. m + 1 \in Nat
  OBVIOUS
<1>2. \A j \in 0 .. (m + 1) : d[j] \in Nat /\ d[j] >= j + 1
  BY <1>1, DoublingsGrow
<1> HIDE DEF d
<1>3. P \in SUBSET Nat /\ \A q \in P : q >= m + 1
  BY <1>2
<1>4. P # {}
  <2>1. m + 1 \in 0 .. (m + 1) /\ d[m + 1] >= m + 1
    BY <1>2
  <2> QED
    BY <2>1
<1>5. TableSize(m) = Min(P)
  BY DEF TableSize, nextPow2, d
<1> HIDE DEF P
<1>6. PICK q \in P : \A r \in P : ~(r < q)
  BY <1>3, <1>4, LeastNumber
<1>7. \A r \in P : q <= r
  BY <1>3, <1>6
<1>8. Min(P) \in P
  BY <1>7 DEF Min
<1>9. TableSize(m) \in Nat /\ TableSize(m) >= m + 1
  BY <1>3, <1>5, <1>8
<1> QED
  BY ONLY <1>9, m \in Nat

-------------------------------------------------------------------------------
(* The strict build.                                                       *)

\* What a step has to show that stays in the strict build.
LEMMA StrictSuffices ==
  ASSUME BuildInv, RawInv, UNCHANGED callVars, pc' \in StrictLabels, StrictInv'
  PROVE  BuildInv'
<1>1. file' = file /\ hash' = hash /\ raw' = raw
  BY DEF callVars
<1>2. RawInv'
  BY <1>1 DEF RawInv
<1>3. pc' \in Labels /\ pc' # "place" /\ pc' # "done"
  BY DEF Labels, StrictLabels
<1>4. BuiltGraphIsSound' /\ KeepsCuts'
  BY <1>3 DEF BuiltGraphIsSound, KeepsCuts
<1> QED
  BY <1>1, <1>2, <1>3, <1>4 DEF BuildInv

\* The state in the strict build, and the key that is looked for.
LEMMA StrictFacts ==
  ASSUME BuildInv, pc \in StrictLabels
  PROVE  /\ RawInv /\ StrictInv
         /\ raw.m \in Nat /\ e \in Nat
         /\ TableSize(raw.m) \in Nat /\ TableSize(raw.m) > 0
<1>1. RawInv /\ StrictInv
  BY DEF BuildInv, StrictLabels
<1>2. raw.m \in Nat
  BY <1>1, RawFacts
<1>3. e \in Nat
  BY <1>1, <1>2 DEF StrictInv
<1>4. TableSize(raw.m) \in Nat /\ TableSize(raw.m) > raw.m
  BY <1>2, TableSizeIsPositive
<1> QED
  BY <1>1, <1>2, <1>3, <1>4

LEMMA KeyFacts ==
  ASSUME BuildInv, pc \in StrictLabels, e < raw.m
  PROVE  /\ e \in Indices(raw.m)
         /\ Key = IF pc \in {"insert", "insertProbe"} THEN Ends(e) ELSE Reversed(Ends(e))
         /\ Key # NoKey
         /\ Key \in Int \X Int
         /\ Home \in Indices(TableSize(raw.m))
<1>1. /\ RawInv /\ StrictInv /\ raw.m \in Nat /\ e \in Nat
      /\ TableSize(raw.m) \in Nat /\ TableSize(raw.m) > 0
  BY StrictFacts
<1>2. e \in Indices(raw.m)
  BY <1>1 DEF Indices
<1>3. g.src[e] = TailOf(raw.ver, raw.n, e) /\ g.dst[e] = raw.edges[e]
  BY <1>1, <1>2 DEF StrictInv, IsStrictGraph
<1>4. Key = IF pc \in {"insert", "insertProbe"} THEN Ends(e) ELSE Reversed(Ends(e))
  BY <1>3 DEF Key, Ends, Reversed
<1>5. Key # NoKey /\ Key \in Int \X Int /\ hash[Key] \in Nat
  BY <1>1, <1>2, <1>4, EndsFacts
<1>6. \A h, t \in Nat : t > 0 => h % t \in 0 .. (t - 1)
  OBVIOUS
<1>7. Home \in Indices(TableSize(raw.m))
  BY <1>1, <1>5, <1>6 DEF Home, Indices
<1> QED
  BY <1>2, <1>4, <1>5, <1>7

LEMMA StrictStartStep ==
  ASSUME BuildInv, StrictStart
  PROVE  BuildInv'
<1>1. pc = "strict" /\ pc' = "insert" /\ e' = 0 /\ UNCHANGED callVars /\ raw' = raw
  BY DEF StrictStart, callVars
<1>2. RawInv /\ raw.m \in Nat
  BY <1>1, RawFacts DEF BuildInv
<1>3. IsStrictGraph'
  <2>1. /\ g' = [nodeCount |-> raw.n, edgeCount |-> raw.m, ver |-> raw.ver,
                 src |-> [a \in Indices(raw.m) |-> TailOf(raw.ver, raw.n, a)],
                 dst |-> raw.edges, rev |-> Unset(raw.m), capacity |-> raw.capacity]
    BY DEF StrictStart
  <2>2. g'.rev = [a \in Indices(raw.m) |-> -1]
    BY <2>1 DEF Unset
  <2> QED
    BY <1>1, <2>1, <2>2 DEF IsStrictGraph
<1>4. ChainsAreTrue'
  <2>1. table' = EmptyTable(raw.m) /\ nextEdge' = Unset(raw.m)
    BY DEF StrictStart
  <2>2. NoKey \in Int \X Int
    BY DEF NoKey
  <2>3. table' = [i \in Indices(TableSize(raw.m)) |-> [key |-> NoKey, head |-> -1]]
    BY <2>1 DEF EmptyTable
  <2>4. nextEdge' = [a \in Indices(raw.m) |-> -1]
    BY <2>1 DEF Unset
  <2>5. table' \in [Indices(TableSize(raw.m)) -> [key : Int \X Int, head : Indices(raw.m) \cup {-1}]]
    BY <2>2, <2>3
  <2>6. \A i \in Indices(TableSize(raw.m)) : table'[i].head = -1
    BY <2>3
  <2>7. \A a \in Indices(raw.m) : nextEdge'[a] = -1
    BY <2>4
  <2>8. nextEdge' \in [Indices(raw.m) -> Indices(raw.m) \cup {-1}]
    BY <2>4
  <2> QED
    BY <1>1, <2>5, <2>6, <2>7, <2>8 DEF ChainsAreTrue
<1>5. StrictInv'
  BY <1>1, <1>2, <1>3, <1>4 DEF StrictInv
<1>6. pc' \in StrictLabels
  BY <1>1 DEF StrictLabels
<1> QED
  BY <1>1, <1>2, <1>5, <1>6, StrictSuffices

\* A step that leaves the graph and the chains alone.
LEMMA StrictKept ==
  ASSUME StrictInv, UNCHANGED <<callVars, g, table, nextEdge>>
  PROVE  IsStrictGraph' /\ ChainsAreTrue' /\ raw' = raw /\ g' = g
<1>1. raw' = raw /\ g' = g /\ table' = table /\ nextEdge' = nextEdge
  BY DEF callVars
<1>2. IsStrictGraph'
  BY <1>1 DEF StrictInv, IsStrictGraph, Ends
<1>3. ChainsAreTrue'
  BY <1>1 DEF StrictInv, ChainsAreTrue, Ends
<1> QED
  BY <1>1, <1>2, <1>3

\* The steps of the strict build that only move on.
LEMMA StrictMoveStep ==
  ASSUME BuildInv,
         InsertStart \/ ProbeNext \/ InsertEnd \/ PairSkip \/ PairStart
  PROVE  BuildInv'
<1>1. /\ UNCHANGED callVars /\ UNCHANGED <<callVars, g, table, nextEdge>>
      /\ pc \in {"insert", "insertProbe", "pair", "pairProbe"}
  BY DEF InsertStart, ProbeNext, InsertEnd, PairSkip, PairStart, callVars, tableVars
<1>2. pc \in StrictLabels
  BY <1>1 DEF StrictLabels
<1>3. /\ RawInv /\ StrictInv /\ raw.m \in Nat /\ e \in Nat
      /\ TableSize(raw.m) \in Nat /\ TableSize(raw.m) > 0
  BY <1>2, StrictFacts
<1>4. IsStrictGraph' /\ ChainsAreTrue' /\ raw' = raw /\ g' = g
  BY <1>1, <1>3, StrictKept
<1>5. /\ e \in 0 .. raw.m
      /\ pc \in {"insertProbe", "pairProbe", "walk"} => e < raw.m
      /\ pc \in {"insertProbe", "pairProbe"} => slot \in Indices(TableSize(raw.m))
      /\ pc \in {"pair", "pairProbe", "walk"} => \A a \in Indices(e) : g.rev[a] # -1
      /\ pc \in {"pairProbe", "walk"} => g.rev[e] = -1
  BY <1>3 DEF StrictInv
<1>6. CASE InsertStart
  <2>1. pc = "insert" /\ pc' = "insertProbe" /\ e' = e /\ e < raw.m /\ slot' = Home
    BY <1>6 DEF InsertStart
  <2>2. slot' \in Indices(TableSize(raw.m))
    BY <1>2, <2>1, KeyFacts
  <2>3. StrictInv'
    BY <1>4, <1>5, <2>1, <2>2 DEF StrictInv
  <2>4. pc' \in StrictLabels
    BY <2>1 DEF StrictLabels
  <2> QED
    BY <1>1, <1>3, <2>3, <2>4, StrictSuffices
<1>7. CASE ProbeNext
  <2>1. /\ pc \in {"insertProbe", "pairProbe"} /\ pc' = pc /\ e' = e
        /\ slot' = (slot + 1) % TableSize(raw.m)
    BY <1>7 DEF ProbeNext
  <2>2. slot \in Nat
    BY <1>3, <1>5, <2>1 DEF Indices
  <2>3. \A h, t \in Nat : t > 0 => (h + 1) % t \in 0 .. (t - 1)
    OBVIOUS
  <2>4. slot' \in Indices(TableSize(raw.m))
    BY <1>3, <2>1, <2>2, <2>3 DEF Indices
  <2>5. StrictInv'
    BY <1>4, <1>5, <2>1, <2>4 DEF StrictInv
  <2>6. pc' \in StrictLabels
    BY <2>1 DEF StrictLabels
  <2> QED
    BY <1>1, <1>3, <2>5, <2>6, StrictSuffices
<1>8. CASE InsertEnd
  <2>1. pc' = "pair" /\ e' = 0
    BY <1>8 DEF InsertEnd
  <2>2. Indices(0) = {}
    BY DEF Indices
  <2>3. StrictInv'
    BY <1>3, <1>4, <2>1, <2>2 DEF StrictInv
  <2>4. pc' \in StrictLabels
    BY <2>1 DEF StrictLabels
  <2> QED
    BY <1>1, <1>3, <2>3, <2>4, StrictSuffices
<1>9. CASE PairSkip
  <2>1. pc = "pair" /\ pc' = "pair" /\ e < raw.m /\ e' = e + 1 /\ g.rev[e] # -1
    BY <1>9 DEF PairSkip
  <2>2. e' \in 0 .. raw.m
    BY <1>3, <2>1
  <2>3. \A a \in Indices(e + 1) : a = e \/ a \in Indices(e)
    BY <1>3 DEF Indices
  <2>4. \A a \in Indices(e') : g.rev[a] # -1
    BY <1>5, <2>1, <2>3
  <2>5. StrictInv'
    BY <1>4, <2>1, <2>2, <2>4 DEF StrictInv
  <2>6. pc' \in StrictLabels
    BY <2>1 DEF StrictLabels
  <2> QED
    BY <1>1, <1>3, <2>5, <2>6, StrictSuffices
<1>10. CASE PairStart
  <2>1. pc = "pair" /\ pc' = "pairProbe" /\ e' = e /\ e < raw.m /\ slot' = Home /\ g.rev[e] = -1
    BY <1>10 DEF PairStart
  <2>2. slot' \in Indices(TableSize(raw.m))
    BY <1>2, <2>1, KeyFacts
  <2>3. StrictInv'
    BY <1>4, <1>5, <2>1, <2>2 DEF StrictInv
  <2>4. pc' \in StrictLabels
    BY <2>1 DEF StrictLabels
  <2> QED
    BY <1>1, <1>3, <2>3, <2>4, StrictSuffices
<1> QED
  BY <1>6, <1>7, <1>8, <1>9, <1>10

\* The edge becomes the head of the chain of its own ends.
LEMMA InsertStep ==
  ASSUME BuildInv, Insert
  PROVE  BuildInv'
<1>1. /\ pc = "insertProbe" /\ pc' = "insert" /\ e' = e + 1 /\ ~IsTaken
      /\ table' = [table EXCEPT ![slot] = [key |-> Key, head |-> e]]
      /\ nextEdge' = [nextEdge EXCEPT ![e] = table[slot].head]
      /\ UNCHANGED callVars /\ raw' = raw /\ g' = g
  BY DEF Insert, callVars
<1>2. pc \in StrictLabels
  BY <1>1 DEF StrictLabels
<1>3. RawInv /\ StrictInv /\ raw.m \in Nat /\ e \in Nat
  BY <1>2, StrictFacts
<1>4. e < raw.m /\ slot \in Indices(TableSize(raw.m))
  BY <1>1, <1>3 DEF StrictInv
<1>5. e \in Indices(raw.m) /\ Key = Ends(e) /\ Key # NoKey /\ Key \in Int \X Int
  BY <1>1, <1>2, <1>4, KeyFacts
<1>6. /\ table \in [Indices(TableSize(raw.m)) -> [key : Int \X Int, head : Indices(raw.m) \cup {-1}]]
      /\ nextEdge \in [Indices(raw.m) -> Indices(raw.m) \cup {-1}]
      /\ \A i \in Indices(TableSize(raw.m)) : table[i].head # -1 => Ends(table[i].head) = table[i].key
      /\ \A a \in Indices(raw.m) : nextEdge[a] # -1 => Ends(nextEdge[a]) = Ends(a)
  BY <1>3 DEF StrictInv, ChainsAreTrue
<1>7. PICK h : h = table[slot].head
  OBVIOUS
<1>8. h \in Indices(raw.m) \cup {-1}
  BY <1>4, <1>6, <1>7
<1>9. h # -1 => Ends(h) = Ends(e)
  <2> SUFFICES ASSUME h # -1 PROVE Ends(h) = Ends(e)
    OBVIOUS
  <2>1. Ends(h) = table[slot].key
    BY <1>4, <1>6, <1>7
  <2>2. Ends(h) # NoKey
    BY <1>3, <1>8, EndsFacts
  <2> QED
    BY <1>1, <1>5, <2>1, <2>2 DEF IsTaken
<1>10. \A a : Ends(a)' = Ends(a)
  BY <1>1 DEF Ends
<1>11. ChainsAreTrue'
  <2>1. table' \in [Indices(TableSize(raw.m)) -> [key : Int \X Int, head : Indices(raw.m) \cup {-1}]]
    BY <1>1, <1>5, <1>6
  <2>2. nextEdge' \in [Indices(raw.m) -> Indices(raw.m) \cup {-1}]
    BY <1>1, <1>6, <1>7, <1>8
  <2>3. ASSUME NEW i \in Indices(TableSize(raw.m)), table'[i].head # -1
        PROVE  Ends(table'[i].head) = table'[i].key
    <3>1. CASE i = slot
      <4>1. table'[i].head = e /\ table'[i].key = Key
        BY <1>1, <1>4, <1>6, <3>1
      <4> QED
        BY <1>5, <4>1
    <3>2. CASE i # slot
      <4>1. table'[i] = table[i]
        BY <1>1, <1>6, <3>2
      <4> QED
        BY <1>6, <2>3, <4>1
    <3> QED
      BY <3>1, <3>2
  <2>4. ASSUME NEW a \in Indices(raw.m), nextEdge'[a] # -1
        PROVE  Ends(nextEdge'[a]) = Ends(a)
    <3>1. CASE a = e
      <4>1. nextEdge'[a] = h
        BY <1>1, <1>6, <1>7, <3>1
      <4> QED
        BY <1>9, <2>4, <3>1, <4>1
    <3>2. CASE a # e
      <4>1. nextEdge'[a] = nextEdge[a]
        BY <1>1, <1>6, <3>2
      <4> QED
        BY <1>6, <2>4, <4>1
    <3> QED
      BY <3>1, <3>2
  <2>5. \A i \in Indices(TableSize(raw.m)) : table'[i].head # -1 => Ends(table[i].head)' = table'[i].key
    BY <1>1, <2>3 DEF Ends
  <2>6. \A a \in Indices(raw.m) : nextEdge'[a] # -1 => Ends(nextEdge[a])' = Ends(a)'
    BY <1>1, <2>4 DEF Ends
  <2> QED
    BY <1>1, <2>1, <2>2, <2>5, <2>6 DEF ChainsAreTrue
<1>12. IsStrictGraph'
  BY <1>1, <1>3 DEF StrictInv, IsStrictGraph, Ends
<1>13. e' \in 0 .. raw.m
  BY <1>1, <1>3, <1>4
<1>14. StrictInv'
  BY <1>1, <1>11, <1>12, <1>13 DEF StrictInv
<1>15. pc' \in StrictLabels
  BY <1>1 DEF StrictLabels
<1> QED
  BY <1>1, <1>3, <1>14, <1>15, StrictSuffices

\* A chain holds edges with the ends of e in reverse, so the walk passes only those.
LEMMA WalkStep ==
  ASSUME BuildInv, PairFound \/ Walk
  PROVE  BuildInv'
<1>1. /\ UNCHANGED callVars /\ UNCHANGED <<callVars, g, table, nextEdge>>
      /\ pc \in {"pairProbe", "walk"} /\ pc' = "walk" /\ e' = e
  BY DEF PairFound, Walk, callVars
<1>2. pc \in StrictLabels
  BY <1>1 DEF StrictLabels
<1>3. RawInv /\ StrictInv /\ raw.m \in Nat /\ e \in Nat
  BY <1>2, StrictFacts
<1>4. IsStrictGraph' /\ ChainsAreTrue' /\ raw' = raw /\ g' = g
  BY <1>1, <1>3, StrictKept
<1>5. /\ e \in 0 .. raw.m /\ e < raw.m
      /\ pc = "pairProbe" => slot \in Indices(TableSize(raw.m))
      /\ \A a \in Indices(e) : g.rev[a] # -1
      /\ g.rev[e] = -1
      /\ pc = "walk" => /\ cand \in Indices(raw.m) \cup {-1}
                        /\ cand # -1 => Ends(cand) = Reversed(Ends(e))
      /\ ChainsAreTrue
  BY <1>1, <1>3 DEF StrictInv
<1>6. Key = Reversed(Ends(e))
  BY <1>1, <1>2, <1>5, KeyFacts
<1>7. /\ cand' \in Indices(raw.m) \cup {-1}
      /\ cand' # -1 => Ends(cand') = Reversed(Ends(e))
  <2>1. CASE PairFound
    <3>1. cand' = table[slot].head /\ table[slot].key = Key /\ pc = "pairProbe"
      BY <2>1 DEF PairFound
    <3>2. /\ table[slot].head \in Indices(raw.m) \cup {-1}
          /\ table[slot].head # -1 => Ends(table[slot].head) = table[slot].key
      BY <1>5, <3>1 DEF ChainsAreTrue
    <3> QED
      BY <1>6, <3>1, <3>2
  <2>2. CASE Walk
    <3>1. cand' = nextEdge[cand] /\ cand >= 0 /\ pc = "walk"
      BY <2>2 DEF Walk
    <3>2. cand \in Indices(raw.m) /\ cand # -1
      <4>1. cand # -1
        BY <3>1
      <4> QED
        BY <1>5, <3>1, <4>1
    <3>3. /\ nextEdge[cand] \in Indices(raw.m) \cup {-1}
          /\ nextEdge[cand] # -1 => Ends(nextEdge[cand]) = Ends(cand)
      BY <1>5, <3>2 DEF ChainsAreTrue
    <3> QED
      BY <1>5, <3>1, <3>2, <3>3
  <2> QED
    BY <2>1, <2>2
<1>8. cand' # -1 => Ends(cand)' = Reversed(Ends(e))'
  BY <1>1, <1>4, <1>7 DEF Ends, Reversed
<1>9. StrictInv'
  BY <1>1, <1>4, <1>5, <1>7, <1>8 DEF StrictInv
<1>10. pc' \in StrictLabels
  BY <1>1 DEF StrictLabels
<1> QED
  BY <1>1, <1>3, <1>9, <1>10, StrictSuffices

\* Two edges that had no pair become the pair of each other.
LEMMA PairStep ==
  ASSUME BuildInv, Pair
  PROVE  BuildInv'
<1>1. /\ pc = "walk" /\ pc' = "pair" /\ e' = e + 1 /\ cand >= 0 /\ ~IsBusy(cand)
      /\ g' = [g EXCEPT !.rev = [@ EXCEPT ![e] = cand, ![cand] = e]]
      /\ UNCHANGED callVars /\ raw' = raw /\ table' = table /\ nextEdge' = nextEdge
  BY DEF Pair, callVars, tableVars
<1>2. pc \in StrictLabels
  BY <1>1 DEF StrictLabels
<1>3. RawInv /\ StrictInv /\ raw.m \in Nat /\ e \in Nat
  BY <1>2, StrictFacts
<1>4. /\ e < raw.m /\ e \in Indices(raw.m)
      /\ \A a \in Indices(e) : g.rev[a] # -1
      /\ g.rev[e] = -1
  BY <1>1, <1>3 DEF StrictInv, Indices
<1>5. cand \in Indices(raw.m) /\ cand # e /\ g.rev[cand] = -1 /\ Ends(cand) = Reversed(Ends(e))
  <2>1. cand # -1
    BY <1>1
  <2> QED
    BY <1>1, <1>3, <2>1 DEF StrictInv, IsBusy
<1>6. PICK c : c = cand
  OBVIOUS
<1>7. PICK r : r = g.rev
  OBVIOUS
<1>8. /\ r \in [Indices(raw.m) -> Indices(raw.m) \cup {-1}]
      /\ \A a \in Indices(raw.m) : r[a] # -1 =>
            r[a] # a /\ r[r[a]] = a /\ Ends(r[a]) = Reversed(Ends(a))
      /\ g = [nodeCount |-> raw.n, edgeCount |-> raw.m, ver |-> raw.ver,
              src |-> [a \in Indices(raw.m) |-> TailOf(raw.ver, raw.n, a)],
              dst |-> raw.edges, rev |-> r, capacity |-> raw.capacity]
  BY <1>3, <1>7 DEF StrictInv, IsStrictGraph
<1>9. PICK q : q = [r EXCEPT ![e] = c, ![c] = e]
  OBVIOUS
<1>10. g' = [nodeCount |-> raw.n, edgeCount |-> raw.m, ver |-> raw.ver,
             src |-> [a \in Indices(raw.m) |-> TailOf(raw.ver, raw.n, a)],
             dst |-> raw.edges, rev |-> q, capacity |-> raw.capacity]
  <2>1. PICK t : t = [a \in Indices(raw.m) |-> TailOf(raw.ver, raw.n, a)]
    OBVIOUS
  <2>2. g = [nodeCount |-> raw.n, edgeCount |-> raw.m, ver |-> raw.ver, src |-> t,
             dst |-> raw.edges, rev |-> r, capacity |-> raw.capacity]
    BY <1>8, <2>1
  <2>3. g' = [g EXCEPT !.rev = q]
    BY <1>1, <1>6, <1>7, <1>9
  <2>4. g' = [nodeCount |-> raw.n, edgeCount |-> raw.m, ver |-> raw.ver, src |-> t,
              dst |-> raw.edges, rev |-> q, capacity |-> raw.capacity]
    BY ONLY <2>2, <2>3
  <2> QED
    BY <2>1, <2>4
<1>11. /\ q \in [Indices(raw.m) -> Indices(raw.m) \cup {-1}]
       /\ q[e] = c /\ q[c] = e
       /\ \A a \in Indices(raw.m) : a # e /\ a # c => q[a] = r[a]
  BY <1>4, <1>5, <1>6, <1>8, <1>9
<1>12. Ends(e) = Reversed(Ends(c))
  BY <1>5, <1>6 DEF Ends, Reversed
<1>13. ASSUME NEW a \in Indices(raw.m), q[a] # -1
       PROVE  q[a] # a /\ q[q[a]] = a /\ Ends(q[a]) = Reversed(Ends(a))
  <2>1. CASE a = e
    BY <1>5, <1>6, <1>11, <2>1
  <2>2. CASE a = c
    BY <1>5, <1>6, <1>11, <1>12, <2>2
  <2>3. CASE a # e /\ a # c
    <3>1. q[a] = r[a] /\ r[a] # -1
      BY <1>11, <1>13, <2>3
    <3>2. r[a] # a /\ r[r[a]] = a /\ Ends(r[a]) = Reversed(Ends(a)) /\ r[a] \in Indices(raw.m)
      BY <1>8, <3>1
    <3>3. a # -1
      BY <1>3 DEF Indices
    <3>4. r[a] # e /\ r[a] # c
      BY <1>4, <1>5, <1>6, <1>7, <3>2, <3>3
    <3> QED
      BY <1>11, <3>1, <3>2, <3>4
  <2> QED
    BY <2>1, <2>2, <2>3
<1>14. IsStrictGraph'
  <2>1. g'.rev = q
    BY <1>10
  <2>2. \A a : Ends(a)' = Ends(a)
    BY <1>1 DEF Ends
  <2>3. \A a \in Indices(raw.m) : q[a] # -1 =>
          q[a] # a /\ q[q[a]] = a /\ Ends(q[a])' = Reversed(Ends(a)')
    BY <1>13, <2>2
  <2>4. \A a \in Indices(raw.m) : g'.rev[a] # -1 =>
          /\ g'.rev[a] # a /\ g'.rev[g'.rev[a]] = a
          /\ Ends(g.rev[a])' = Reversed(Ends(a))'
    BY <2>1, <2>3 DEF Ends, Reversed
  <2> QED
    BY <1>1, <1>10, <1>11, <2>1, <2>4 DEF IsStrictGraph
<1>15. ChainsAreTrue'
  BY <1>1, <1>3 DEF StrictInv, ChainsAreTrue, Ends
<1>16. e' \in 0 .. raw.m
  BY <1>1, <1>3, <1>4
<1>17. \A a \in Indices(e') : g'.rev[a] # -1
  <2>1. \A a \in Indices(e + 1) : a = e \/ a \in Indices(e)
    BY <1>3 DEF Indices
  <2>2. e # -1 /\ c # -1
    BY <1>3, <1>5, <1>6 DEF Indices
  <2>3. \A a \in Indices(e) : a \in Indices(raw.m)
    BY <1>3, <1>4 DEF Indices
  <2>4. \A a \in Indices(e + 1) : q[a] # -1
    BY <1>4, <1>7, <1>11, <2>1, <2>2, <2>3
  <2>5. g'.rev = q
    BY <1>10
  <2>6. \A a \in Indices(e + 1) : g'.rev[a] # -1
    BY ONLY <2>4, <2>5
  <2>7. e' = e + 1
    BY <1>1
  <2> QED
    BY ONLY <2>6, <2>7
<1>18. StrictInv'
  BY <1>1, <1>14, <1>15, <1>16, <1>17 DEF StrictInv
<1>19. pc' \in StrictLabels
  BY <1>1 DEF StrictLabels
<1> QED
  BY <1>1, <1>3, <1>18, <1>19, StrictSuffices

\* What a step has to show that is not in the strict build nor returns a graph.
LEMMA ElsewhereSuffices ==
  ASSUME BuildInv, file' = file, hash' = hash,
         pc' \in {"strict", "residual", "failed", "died"},
         pc' \in {"strict", "residual"} => RawInv'
  PROVE  BuildInv'
<1>1. pc' \in Labels /\ pc' \notin StrictLabels /\ pc' # "place" /\ pc' # "done"
  BY DEF Labels, StrictLabels
<1>2. BuiltGraphIsSound' /\ KeepsCuts'
  BY <1>1 DEF BuiltGraphIsSound, KeepsCuts
<1>3. pc' \notin {"read", "failed", "died"} => RawInv'
  BY <1>1
<1> QED
  BY <1>1, <1>2, <1>3 DEF BuildInv

LEMMA MissingStep ==
  ASSUME BuildInv, PairMissing \/ WalkMissing
  PROVE  BuildInv'
<1>1. /\ pc \in {"pairProbe", "walk"} /\ pc' \in {"residual", "failed"}
      /\ file' = file /\ hash' = hash /\ raw' = raw
  BY DEF PairMissing, WalkMissing, Missing, callVars
<1>2. RawInv
  BY <1>1 DEF BuildInv
<1>3. RawInv'
  BY <1>1, <1>2 DEF RawInv
<1> QED
  BY <1>1, <1>3, ElsewhereSuffices

\* What a step has to show that returns a graph.
LEMMA ReturnSuffices ==
  ASSUME BuildInv, RawInv, UNCHANGED callVars, pc' = "done", BuiltGraphIsSound', KeepsCuts'
  PROVE  BuildInv'
<1>1. file' = file /\ hash' = hash /\ raw' = raw
  BY DEF callVars
<1>2. RawInv'
  BY <1>1 DEF RawInv
<1>3. pc' \in Labels /\ pc' \notin StrictLabels /\ pc' # "place"
  BY DEF Labels, StrictLabels
<1> QED
  BY <1>1, <1>2, <1>3 DEF BuildInv

\* When every edge has been visited, every edge has its pair.
LEMMA PairEndStep ==
  ASSUME BuildInv, PairEnd
  PROVE  BuildInv'
<1>1. /\ pc = "pair" /\ pc' = "done" /\ e = raw.m
      /\ UNCHANGED callVars /\ raw' = raw /\ g' = g
  BY DEF PairEnd, callVars
<1>2. pc \in StrictLabels
  BY <1>1 DEF StrictLabels
<1>3. RawInv /\ StrictInv /\ raw.m \in Nat
  BY <1>2, StrictFacts
<1>4. /\ IsStrictGraph
      /\ \A a \in Indices(raw.m) : g.rev[a] # -1
  BY <1>1, <1>3 DEF StrictInv
<1>5. /\ g.nodeCount = raw.n /\ g.edgeCount = raw.m /\ g.ver = raw.ver
      /\ g.src = [a \in Indices(raw.m) |-> TailOf(raw.ver, raw.n, a)]
      /\ g.dst = raw.edges /\ g.capacity = raw.capacity
      /\ g.rev \in [Indices(raw.m) -> Indices(raw.m) \cup {-1}]
      /\ \A a \in Indices(raw.m) :
            g.rev[a] # a /\ g.rev[g.rev[a]] = a /\ Ends(g.rev[a]) = Reversed(Ends(a))
  <2>1. g.rev \in [Indices(raw.m) -> Indices(raw.m) \cup {-1}]
    BY <1>4 DEF IsStrictGraph
  <2>2. \A a \in Indices(raw.m) :
            g.rev[a] # a /\ g.rev[g.rev[a]] = a /\ Ends(g.rev[a]) = Reversed(Ends(a))
    BY <1>4 DEF IsStrictGraph
  <2>3. /\ g.nodeCount = raw.n /\ g.edgeCount = raw.m /\ g.ver = raw.ver
        /\ g.src = [a \in Indices(raw.m) |-> TailOf(raw.ver, raw.n, a)]
        /\ g.dst = raw.edges /\ g.capacity = raw.capacity
    BY <1>4 DEF IsStrictGraph
  <2> QED
    BY <2>1, <2>2, <2>3
<1>6. /\ raw.n \in Nat
      /\ raw.ver \in [0 .. raw.n -> Int]
      /\ raw.ver[0] = 0 /\ raw.ver[raw.n] = raw.m
      /\ \A x \in Indices(raw.n) : raw.ver[x] <= raw.ver[x + 1]
      /\ raw.edges \in [Indices(raw.m) -> Indices(raw.n)]
  BY <1>3, RawFacts
<1>7. /\ \A x, y \in 0 .. raw.n : x <= y => raw.ver[x] <= raw.ver[y]
      /\ \A a \in Indices(raw.m) :
           /\ TailOf(raw.ver, raw.n, a) \in Indices(raw.n)
           /\ raw.ver[TailOf(raw.ver, raw.n, a)] <= a
           /\ a < raw.ver[TailOf(raw.ver, raw.n, a) + 1]
      /\ \A a \in Indices(raw.m), x \in Indices(raw.n) :
           raw.ver[x] <= a /\ a < raw.ver[x + 1] => x = TailOf(raw.ver, raw.n, a)
  BY <1>3, TailFacts
<1>8. /\ g.src \in [Indices(raw.m) -> Indices(raw.n)]
      /\ g.dst \in [Indices(raw.m) -> Indices(raw.n)]
  BY <1>5, <1>6, <1>7
<1>9. IsIndexed(g)
  <2>1. raw.ver \in [0 .. raw.n -> 0 .. raw.m]
    <3> SUFFICES ASSUME NEW x \in 0 .. raw.n PROVE raw.ver[x] \in 0 .. raw.m
      BY <1>6
    <3>1. 0 \in 0 .. raw.n /\ raw.n \in 0 .. raw.n /\ 0 <= x /\ x <= raw.n
      BY <1>6
    <3>2. raw.ver[0] <= raw.ver[x] /\ raw.ver[x] <= raw.ver[raw.n]
      BY <1>7, <3>1
    <3>3. raw.ver[x] \in Int
      BY <1>6
    <3> QED
      BY <1>3, <1>6, <3>2, <3>3
  <2>2. \A x \in Indices(raw.n), a \in Indices(raw.m) :
          g.src[a] = x <=> raw.ver[x] <= a /\ a < raw.ver[x + 1]
    BY <1>5, <1>7
  <2> QED
    BY <1>5, <1>6, <2>1, <2>2 DEF IsIndexed, Nodes, Edges, Indices
<1>10. IsPaired(g)
  <2>1. \A a \in Indices(raw.m) : g.rev[a] \in Indices(raw.m)
    BY <1>4, <1>5
  <2>2. g.rev \in [Indices(raw.m) -> Indices(raw.m)]
    BY <1>5, <2>1
  <2>3. \A a \in Indices(raw.m) : g.src[g.rev[a]] = g.dst[a] /\ g.dst[g.rev[a]] = g.src[a]
    BY <1>5, <2>1 DEF Ends, Reversed
  <2> QED
    BY <1>5, <2>2, <2>3 DEF IsPaired, Edges, Indices
<1>11. BuiltGraphIsSound'
  <2>1. /\ g.src \in [Indices(g.edgeCount) -> Indices(g.nodeCount)]
        /\ g.dst \in [Indices(g.edgeCount) -> Indices(g.nodeCount)]
    BY <1>5, <1>8
  <2>2. IsIndexed(g)' /\ IsPaired(g)'
    BY <1>1, <1>9, <1>10 DEF IsIndexed, IsPaired, Nodes, Edges
  <2> QED
    BY <1>1, <2>1, <2>2 DEF BuiltGraphIsSound
<1>12. KeepsCuts'
  BY <1>1, <1>5 DEF KeepsCuts
<1> QED
  BY <1>1, <1>3, <1>11, <1>12, ReturnSuffices

-------------------------------------------------------------------------------
(* Reading the file, and the ways out.                                     *)

LEMMA InitHolds == Init => BuildInv
<1> SUFFICES ASSUME Init PROVE BuildInv
  OBVIOUS
<1>1. file \in Files /\ hash \in [KeysOf(file) -> HashValues] /\ pc = "read"
  BY DEF Init
<1>2. pc \in Labels /\ pc \notin StrictLabels
  BY <1>1 DEF Labels, StrictLabels
<1>3. BuiltGraphIsSound /\ KeepsCuts
  BY <1>1 DEF BuiltGraphIsSound, KeepsCuts
<1> QED
  BY <1>1, <1>2, <1>3 DEF BuildInv

\* The weights of a file are ints, and so is what rand() returns.
LEMMA ReadFileStep ==
  ASSUME BuildInv, ReadFile
  PROVE  BuildInv'
<1>1. file' = file /\ hash' = hash /\ pc' \in {"strict", "residual", "failed"}
  BY DEF ReadFile
<1>2. ASSUME pc' \in {"strict", "residual"} PROVE RawInv'
  <2>1. PICK drawn \in Draws(file) :
          /\ IsReadable(file)
          /\ raw' = [n |-> file[1], m |-> file[2], ver |-> VerOf(file),
                     edges |-> EdgesOf(file), capacity |-> Capacities(file, drawn)]
    BY <1>2 DEF ReadFile
  <2>2. file \in Seq(Int)
    BY BuildAssumption DEF BuildInv
  <2>3. /\ Len(file) >= 2 /\ file[1] >= 1 /\ file[2] >= 0
        /\ Len(file) >= 3 + file[1] + file[2]
    BY <2>1 DEF IsReadable, IsIndexValid, HeaderOK
  <2>4. Len(file) \in Nat /\ file[1] \in Nat /\ file[2] \in Nat
    <3>1. file[1] \in Int /\ file[2] \in Int
      BY <2>2, <2>3
    <3> QED
      BY <2>2, <2>3, <3>1
  <2>5. Capacities(file, drawn) \in [Indices(file[2]) -> Int]
    <3>1. CASE HasWeights(file)
      <4>1. Capacities(file, drawn) = [a \in Indices(file[2]) |-> Abs(Weight(file, a))]
        BY <3>1 DEF Capacities
      <4>2. ASSUME NEW a \in Indices(file[2]) PROVE Abs(Weight(file, a)) \in Int
        <5>1. Len(file) - (3 + file[1] + file[2]) >= file[2]
          BY <2>4, <3>1 DEF HasWeights, WeightsIn
        <5>2. 4 + file[1] + file[2] + a \in 1 .. Len(file)
          <6>1. a \in Nat /\ a < file[2]
            BY <2>4 DEF Indices
          <6>2. 4 + file[1] + file[2] + a \in Nat /\ 4 + file[1] + file[2] + a >= 1
            BY ONLY <2>4, <6>1
          <6>3. 4 + file[1] + file[2] + a <= Len(file)
            BY ONLY <2>4, <5>1, <6>1
          <6> QED
            BY ONLY <2>4, <6>2, <6>3
        <5>3. Weight(file, a) \in Int
          BY <2>2, <5>2 DEF Weight
        <5> QED
          BY <5>3 DEF Abs
      <4> QED
        BY <4>1, <4>2
    <3>2. CASE ~HasWeights(file)
      <4>1. Capacities(file, drawn) = drawn /\ drawn \in [Indices(file[2]) -> Indices(file[1])]
        BY <3>2 DEF Capacities, Draws
      <4>2. \A i \in Indices(file[1]) : i \in Int
        BY DEF Indices
      <4> QED
        BY <4>1, <4>2
    <3> QED
      BY <3>1, <3>2
  <2> QED
    BY <1>1, <2>1, <2>5 DEF RawInv
<1> QED
  BY <1>1, <1>2, ElsewhereSuffices

LEMMA WayOutStep ==
  ASSUME BuildInv, Die \/ TooManyEdges
  PROVE  BuildInv'
<1>1. file' = file /\ hash' = hash /\ pc' \in {"failed", "died"}
  BY DEF Die, TooManyEdges, callVars
<1> QED
  BY <1>1, ElsewhereSuffices

-------------------------------------------------------------------------------
(* Counting the slots of a node.                                           *)

\* How often f takes the value x below k, and how often a lesser one.
Count(f, k, x) == Cardinality({a \in Indices(k) : f[a] = x})

CountBelow(f, k, x) == Cardinality({a \in Indices(k) : f[a] < x})

LEMMA CountFacts ==
  ASSUME NEW m \in Nat, NEW f, NEW x
  PROVE  /\ \A k \in 0 .. m : Count(f, k, x) \in Nat /\ Count(f, k, x) <= Count(f, m, x)
         /\ Count(f, 0, x) = 0
         /\ \A k \in Indices(m) :
              Count(f, k + 1, x) = Count(f, k, x) + (IF f[k] = x THEN 1 ELSE 0)
<1> DEFINE At(k) == {a \in Indices(k) : f[a] = x}
<1>1. \A k \in 0 .. m : IsFiniteSet(Indices(k))
  BY FS_Interval DEF Indices
<1>2. ASSUME NEW k \in 0 .. m
      PROVE  IsFiniteSet(At(k)) /\ Count(f, k, x) \in Nat /\ Count(f, k, x) <= Count(f, m, x)
  <2>1. m \in 0 .. m
    OBVIOUS
  <2>2. At(k) \in SUBSET Indices(k) /\ At(m) \in SUBSET Indices(m) /\ At(k) \in SUBSET At(m)
    BY DEF Indices
  <2>3. IsFiniteSet(At(k)) /\ IsFiniteSet(At(m))
    BY <1>1, <2>1, <2>2, FS_Subset
  <2>4. Cardinality(At(k)) <= Cardinality(At(m)) /\ Cardinality(At(k)) \in Nat
    BY <2>2, <2>3, FS_Subset, FS_CardinalityType
  <2> QED
    BY <2>3, <2>4 DEF Count
<1>3. Count(f, 0, x) = 0
  <2>1. At(0) = {}
    BY DEF Indices
  <2> QED
    BY <2>1, FS_EmptySet DEF Count
<1>4. ASSUME NEW k \in Indices(m)
      PROVE  Count(f, k + 1, x) = Count(f, k, x) + (IF f[k] = x THEN 1 ELSE 0)
  <2>1. k \in 0 .. m /\ Indices(k + 1) = Indices(k) \cup {k} /\ k \notin Indices(k)
    BY DEF Indices
  <2>2. IsFiniteSet(At(k)) /\ Count(f, k, x) = Cardinality(At(k)) /\ Cardinality(At(k)) \in Nat
    BY <1>2, <2>1, FS_CardinalityType DEF Count
  <2>3. k \notin At(k)
    BY <2>1
  <2>4. CASE f[k] = x
    <3>1. At(k + 1) = At(k) \cup {k}
      BY <2>1, <2>4
    <3>2. Cardinality(At(k) \cup {k}) = Cardinality(At(k)) + 1
      BY <2>2, <2>3, FS_AddElement
    <3> QED
      BY <2>2, <2>4, <3>1, <3>2 DEF Count
  <2>5. CASE f[k] # x
    <3>1. At(k + 1) = At(k)
      BY <2>1, <2>5
    <3> QED
      BY <2>2, <2>5, <3>1 DEF Count
  <2> QED
    BY <2>4, <2>5
<1> QED
  BY <1>2, <1>3, <1>4

LEMMA CountBelowFacts ==
  ASSUME NEW m \in Nat, NEW n \in Nat, NEW f, \A a \in Indices(m) : f[a] \in Indices(n)
  PROVE  /\ CountBelow(f, m, 0) = 0
         /\ CountBelow(f, m, n) = m
         /\ \A x \in 0 .. n : CountBelow(f, m, x) \in Nat
         /\ \A x \in Indices(n) : CountBelow(f, m, x + 1) = CountBelow(f, m, x) + Count(f, m, x)
<1> DEFINE Low(x) == {a \in Indices(m) : f[a] < x}
<1>1. IsFiniteSet(Indices(m)) /\ Cardinality(Indices(m)) = m
  <2>1. 0 \in Int /\ m - 1 \in Int
    OBVIOUS
  <2>2. IsFiniteSet(0 .. (m - 1)) /\ Cardinality(0 .. (m - 1)) = IF 0 > m - 1 THEN 0 ELSE m - 1 - 0 + 1
    BY ONLY <2>1, FS_Interval
  <2> QED
    BY <2>2 DEF Indices
<1>2. \A x : IsFiniteSet(Low(x)) /\ CountBelow(f, m, x) = Cardinality(Low(x)) /\ CountBelow(f, m, x) \in Nat
  <2> SUFFICES ASSUME NEW x
               PROVE  IsFiniteSet(Low(x)) /\ CountBelow(f, m, x) = Cardinality(Low(x)) /\ CountBelow(f, m, x) \in Nat
    OBVIOUS
  <2>1. IsFiniteSet(Low(x))
    BY <1>1, FS_Subset
  <2> QED
    BY <2>1, FS_CardinalityType DEF CountBelow
<1>3. \A a \in Indices(m) : f[a] \in Nat /\ f[a] < n
  BY DEF Indices
<1>4. Low(0) = {} /\ Low(n) = Indices(m)
  <2>1. \A i \in Nat : ~(i < 0)
    OBVIOUS
  <2> QED
    BY <1>3, <2>1
<1>5. CountBelow(f, m, 0) = 0 /\ CountBelow(f, m, n) = m
  BY <1>1, <1>2, <1>4, FS_EmptySet
<1>6. ASSUME NEW x \in Indices(n)
      PROVE  CountBelow(f, m, x + 1) = CountBelow(f, m, x) + Count(f, m, x)
  <2> DEFINE Same == {a \in Indices(m) : f[a] = x}
  <2>1. \A i \in Nat : i < x + 1 <=> i < x \/ i = x
    BY DEF Indices
  <2>2. \A i \in Nat : ~(i < x /\ i = x)
    BY DEF Indices
  <2>3. Low(x + 1) = Low(x) \cup Same /\ Low(x) \cap Same = {}
    BY <1>3, <2>1, <2>2
  <2>4. IsFiniteSet(Same) /\ Cardinality(Same) \in Nat
    BY <1>1, FS_Subset, FS_CardinalityType
  <2>5. Cardinality(Low(x) \cup Same)
          = Cardinality(Low(x)) + Cardinality(Same) - Cardinality(Low(x) \cap Same)
    BY <1>2, <2>4, FS_Union
  <2>6. Cardinality(Low(x) \cap Same) = 0
    BY <2>3, FS_EmptySet
  <2>7. Count(f, m, x) = Cardinality(Same)
    BY DEF Count
  <2> HIDE DEF Low, Same
  <2>8. Cardinality(Low(x + 1)) = Cardinality(Low(x)) + Cardinality(Same)
    BY <1>2, <2>3, <2>4, <2>5, <2>6
  <2> QED
    BY <1>2, <2>7, <2>8
<1> QED
  BY <1>2, <1>5, <1>6

\* The tails of the edges of the file, as a function.
Tails == [a \in Indices(raw.m) |-> TailOf(raw.ver, raw.n, a)]

\* The ranges of the residual graph are as long as the slots taken in the end.
LEMMA DegreeFacts ==
  ASSUME BuildInv, RawInv
  PROVE  /\ \A x \in 0 .. raw.n : DegreeOfLower(x) \in Nat
         /\ DegreeOfLower(0) = 0
         /\ DegreeOfLower(raw.n) = 2 * raw.m
         /\ \A x \in Indices(raw.n) :
              DegreeOfLower(x + 1) = DegreeOfLower(x) + Taken(x, raw.m)
         /\ \A x, k : k \in 0 .. raw.m => Taken(x, k) \in Nat /\ Taken(x, k) <= Taken(x, raw.m)
         /\ \A x : Taken(x, 0) = 0
         /\ \A x, k : k \in Indices(raw.m) =>
              Taken(x, k + 1) = Taken(x, k) + (IF TailOf(raw.ver, raw.n, k) = x THEN 1 ELSE 0)
                                            + (IF raw.edges[k] = x THEN 1 ELSE 0)
<1>1. PICK m, n, t, h : m = raw.m /\ n = raw.n /\ t = Tails /\ h = raw.edges
  OBVIOUS
<1>2. /\ m \in Nat /\ n \in Nat
      /\ \A a \in Indices(m) : t[a] \in Indices(n) /\ h[a] \in Indices(n)
                               /\ t[a] = TailOf(raw.ver, raw.n, a)
  BY <1>1, RawFacts, TailFacts DEF Tails
<1>3. \A x, k : k \in 0 .. m => Taken(x, k) = Count(t, k, x) + Count(h, k, x)
  <2> SUFFICES ASSUME NEW x, NEW k, k \in 0 .. m
               PROVE  Taken(x, k) = Count(t, k, x) + Count(h, k, x)
    OBVIOUS
  <2>1. \A a \in Indices(k) : a \in Indices(m)
    BY <1>2 DEF Indices
  <2>2. {a \in Indices(k) : TailOf(raw.ver, raw.n, a) = x} = {a \in Indices(k) : t[a] = x}
    BY <1>2, <2>1
  <2> QED
    BY <1>1, <2>2 DEF Taken, Count
<1>4. \A x : DegreeOfLower(x) = CountBelow(t, m, x) + CountBelow(h, m, x)
  <2> SUFFICES ASSUME NEW x
               PROVE  DegreeOfLower(x) = CountBelow(t, m, x) + CountBelow(h, m, x)
    OBVIOUS
  <2>1. {a \in Indices(m) : TailOf(raw.ver, raw.n, a) < x} = {a \in Indices(m) : t[a] < x}
    BY <1>2
  <2> QED
    BY <1>1, <2>1 DEF DegreeOfLower, CountBelow
<1>5. \A a \in Indices(m) : t[a] \in Indices(n)
  BY <1>2
<1>6. \A a \in Indices(m) : h[a] \in Indices(n)
  BY <1>2
<1>7. /\ CountBelow(t, m, 0) = 0 /\ CountBelow(t, m, n) = m
      /\ \A x \in 0 .. n : CountBelow(t, m, x) \in Nat
      /\ \A x \in Indices(n) : CountBelow(t, m, x + 1) = CountBelow(t, m, x) + Count(t, m, x)
  BY ONLY <1>2, <1>5, CountBelowFacts
<1>8. /\ CountBelow(h, m, 0) = 0 /\ CountBelow(h, m, n) = m
      /\ \A x \in 0 .. n : CountBelow(h, m, x) \in Nat
      /\ \A x \in Indices(n) : CountBelow(h, m, x + 1) = CountBelow(h, m, x) + Count(h, m, x)
  BY ONLY <1>2, <1>6, CountBelowFacts
<1>9. \A f, x : /\ \A k \in 0 .. m : Count(f, k, x) \in Nat /\ Count(f, k, x) <= Count(f, m, x)
                /\ Count(f, 0, x) = 0
                /\ \A k \in Indices(m) :
                     Count(f, k + 1, x) = Count(f, k, x) + (IF f[k] = x THEN 1 ELSE 0)
  BY ONLY <1>2, CountFacts
<1>10. m \in 0 .. m /\ 0 \in 0 .. m
  BY <1>2
<1>11. \A x \in 0 .. n : DegreeOfLower(x) \in Nat
  BY <1>4, <1>7, <1>8
<1>12. DegreeOfLower(0) = 0 /\ DegreeOfLower(n) = 2 * m
  BY <1>2, <1>4, <1>7, <1>8
<1>13. ASSUME NEW x \in Indices(n)
       PROVE  DegreeOfLower(x + 1) = DegreeOfLower(x) + Taken(x, m)
  <2>1. DegreeOfLower(x + 1) = CountBelow(t, m, x + 1) + CountBelow(h, m, x + 1)
    BY <1>4
  <2>2. DegreeOfLower(x) = CountBelow(t, m, x) + CountBelow(h, m, x)
    BY <1>4
  <2>3. Taken(x, m) = Count(t, m, x) + Count(h, m, x)
    BY <1>3, <1>10
  <2>4. Count(t, m, x) \in Nat /\ Count(h, m, x) \in Nat
    BY <1>9, <1>10
  <2>5. x \in 0 .. n
    BY <1>2 DEF Indices
  <2>6. CountBelow(t, m, x) \in Nat /\ CountBelow(h, m, x) \in Nat
    BY <1>7, <1>8, <2>5
  <2>7. /\ CountBelow(t, m, x + 1) = CountBelow(t, m, x) + Count(t, m, x)
        /\ CountBelow(h, m, x + 1) = CountBelow(h, m, x) + Count(h, m, x)
    BY <1>7, <1>8
  <2> QED
    BY ONLY <2>1, <2>2, <2>3, <2>4, <2>6, <2>7
<1>14. ASSUME NEW x, NEW k, k \in 0 .. m
       PROVE  Taken(x, k) \in Nat /\ Taken(x, k) <= Taken(x, m)
  <2>1. Taken(x, k) = Count(t, k, x) + Count(h, k, x) /\ Taken(x, m) = Count(t, m, x) + Count(h, m, x)
    BY <1>3, <1>10, <1>14
  <2>2. /\ Count(t, k, x) \in Nat /\ Count(t, k, x) <= Count(t, m, x)
        /\ Count(h, k, x) \in Nat /\ Count(h, k, x) <= Count(h, m, x)
        /\ Count(t, m, x) \in Nat /\ Count(h, m, x) \in Nat
    BY <1>9, <1>10, <1>14
  <2> QED
    BY ONLY <2>1, <2>2
<1>15. \A x : Taken(x, 0) = 0
  BY <1>3, <1>9, <1>10
<1>16. ASSUME NEW x, NEW k, k \in Indices(m)
       PROVE  Taken(x, k + 1) = Taken(x, k) + (IF t[k] = x THEN 1 ELSE 0) + (IF h[k] = x THEN 1 ELSE 0)
  <2>1. k \in 0 .. m /\ k + 1 \in 0 .. m
    BY <1>2, <1>16 DEF Indices
  <2>2. /\ Taken(x, k) = Count(t, k, x) + Count(h, k, x)
        /\ Taken(x, k + 1) = Count(t, k + 1, x) + Count(h, k + 1, x)
    BY <1>3, <2>1
  <2>3. /\ Count(t, k + 1, x) = Count(t, k, x) + (IF t[k] = x THEN 1 ELSE 0)
        /\ Count(h, k + 1, x) = Count(h, k, x) + (IF h[k] = x THEN 1 ELSE 0)
        /\ Count(t, k, x) \in Nat /\ Count(h, k, x) \in Nat
    BY <1>9, <1>16, <2>1
  <2> QED
    BY ONLY <2>2, <2>3
<1>17. \A k \in Indices(m) : t[k] = TailOf(raw.ver, raw.n, k) /\ h[k] = raw.edges[k]
  BY <1>1, <1>2
<1> QED
  BY <1>1, <1>11, <1>12, <1>13, <1>14, <1>15, <1>16, <1>17

-------------------------------------------------------------------------------
(* The residual build.                                                     *)

\* What a step has to show that stays in the residual build.
LEMMA PlaceSuffices ==
  ASSUME BuildInv, RawInv, UNCHANGED callVars, pc' = "place", PlaceInv'
  PROVE  BuildInv'
<1>1. file' = file /\ hash' = hash /\ raw' = raw
  BY DEF callVars
<1>2. RawInv'
  BY <1>1 DEF RawInv
<1>3. pc' \in Labels /\ pc' \notin StrictLabels
  BY DEF Labels, StrictLabels
<1>4. BuiltGraphIsSound' /\ KeepsCuts'
  BY DEF BuiltGraphIsSound, KeepsCuts
<1> QED
  BY <1>1, <1>2, <1>3, <1>4 DEF BuildInv

\* The fields of a residual graph, and what its ranges are.
LEMMA ResidualFacts ==
  ASSUME BuildInv, RawInv, NEW G, IsResidualGraph(G)
  PROVE  /\ G.nodeCount = raw.n /\ G.edgeCount = 2 * raw.m
         /\ G.src \in [Indices(2 * raw.m) -> Int] /\ G.dst \in [Indices(2 * raw.m) -> Int]
         /\ G.rev \in [Indices(2 * raw.m) -> Int] /\ G.capacity \in [Indices(2 * raw.m) -> Int]
         /\ G.ver \in [0 .. raw.n -> Nat]
         /\ \A x \in Indices(raw.n) : G.ver[x + 1] = G.ver[x] + Taken(x, raw.m)
         /\ \A x \in Indices(raw.n) : G.ver[x] <= G.ver[x + 1]
         /\ \A x \in 0 .. raw.n : G.ver[x] <= 2 * raw.m
         /\ \A s \in Indices(2 * raw.m) :
              \E x \in Indices(raw.n) : G.ver[x] <= s /\ s < G.ver[x + 1]
         /\ \A s \in Indices(2 * raw.m), x, y \in Indices(raw.n) :
              /\ G.ver[x] <= s /\ s < G.ver[x + 1]
              /\ G.ver[y] <= s /\ s < G.ver[y + 1]
              => x = y
<1>1. PICK m, n, ver : m = 2 * raw.m /\ n = raw.n /\ ver = G.ver
  OBVIOUS
<1>2. /\ G.nodeCount = n /\ G.edgeCount = m
      /\ ver = [x \in 0 .. n |-> DegreeOfLower(x)]
      /\ G.src \in [Indices(m) -> Int] /\ G.dst \in [Indices(m) -> Int]
      /\ G.rev \in [Indices(m) -> Int] /\ G.capacity \in [Indices(m) -> Int]
  BY <1>1 DEF IsResidualGraph, ResidualIndex
<1>3. m \in Nat /\ n \in Nat /\ raw.m \in Nat
  BY <1>1, RawFacts
<1>4. /\ \A x \in 0 .. n : DegreeOfLower(x) \in Nat
      /\ DegreeOfLower(0) = 0 /\ DegreeOfLower(n) = m
      /\ \A x \in Indices(n) : DegreeOfLower(x + 1) = DegreeOfLower(x) + Taken(x, raw.m)
      /\ \A x : Taken(x, raw.m) \in Nat
  <2>1. raw.m \in 0 .. raw.m
    BY <1>3
  <2> QED
    BY <1>1, <2>1, DegreeFacts
<1>5. \A x \in Indices(n) : x \in 0 .. n /\ x + 1 \in 0 .. n
  BY <1>3 DEF Indices
<1>6. ver \in [0 .. n -> Nat] /\ ver \in [0 .. n -> Int] /\ ver[0] = 0 /\ ver[n] = m
  <2>1. 0 \in 0 .. n /\ n \in 0 .. n
    BY <1>3
  <2> QED
    BY <1>2, <1>4, <2>1
<1>7. \A x \in Indices(n) : ver[x + 1] = ver[x] + Taken(x, raw.m)
  BY <1>2, <1>4, <1>5
<1>8. \A x \in Indices(n) : ver[x] <= ver[x + 1]
  <2> SUFFICES ASSUME NEW x \in Indices(n) PROVE ver[x] <= ver[x + 1]
    OBVIOUS
  <2>1. ver[x + 1] = ver[x] + Taken(x, raw.m) /\ ver[x] \in Nat /\ Taken(x, raw.m) \in Nat
    BY <1>4, <1>5, <1>6, <1>7
  <2> QED
    BY ONLY <2>1
<1>9. /\ \A x, y \in 0 .. n : x <= y => ver[x] <= ver[y]
      /\ \A s \in Indices(m) : /\ TailOf(ver, n, s) \in Indices(n)
                               /\ ver[TailOf(ver, n, s)] <= s
                               /\ s < ver[TailOf(ver, n, s) + 1]
      /\ \A s \in Indices(m), x \in Indices(n) :
           ver[x] <= s /\ s < ver[x + 1] => x = TailOf(ver, n, s)
  BY ONLY <1>3, <1>6, <1>8, IndexFacts
<1>10. \A x \in 0 .. n : ver[x] <= m
  <2>1. n \in 0 .. n /\ \A x \in 0 .. n : x <= n
    BY <1>3
  <2> QED
    BY <1>6, <1>9, <2>1
<1>11. \A s \in Indices(m) : \E x \in Indices(n) : ver[x] <= s /\ s < ver[x + 1]
  BY <1>9
<1>12. \A s \in Indices(m), x, y \in Indices(n) :
         ver[x] <= s /\ s < ver[x + 1] /\ ver[y] <= s /\ s < ver[y + 1] => x = y
  BY <1>9
<1>13. /\ G.nodeCount = raw.n /\ G.edgeCount = 2 * raw.m
       /\ G.src \in [Indices(2 * raw.m) -> Int] /\ G.dst \in [Indices(2 * raw.m) -> Int]
       /\ G.rev \in [Indices(2 * raw.m) -> Int] /\ G.capacity \in [Indices(2 * raw.m) -> Int]
       /\ G.ver \in [0 .. raw.n -> Nat]
  BY ONLY <1>1, <1>2, <1>6
<1>14. /\ \A x \in Indices(raw.n) : G.ver[x + 1] = G.ver[x] + Taken(x, raw.m)
       /\ \A x \in Indices(raw.n) : G.ver[x] <= G.ver[x + 1]
       /\ \A x \in 0 .. raw.n : G.ver[x] <= 2 * raw.m
  BY ONLY <1>1, <1>7, <1>8, <1>10
<1>15. /\ \A s \in Indices(2 * raw.m) :
            \E x \in Indices(raw.n) : G.ver[x] <= s /\ s < G.ver[x + 1]
       /\ \A s \in Indices(2 * raw.m), x, y \in Indices(raw.n) :
            /\ G.ver[x] <= s /\ s < G.ver[x + 1]
            /\ G.ver[y] <= s /\ s < G.ver[y + 1]
            => x = y
  BY ONLY <1>1, <1>11, <1>12
<1> QED
  BY ONLY <1>13, <1>14, <1>15

\* At first every slot is empty.
LEMMA ResidualStartStep ==
  ASSUME BuildInv, ResidualStart
  PROVE  BuildInv'
<1>1. /\ pc = "residual" /\ pc' = "place" /\ e' = 0 /\ UNCHANGED callVars /\ raw' = raw
      /\ nextPos' = [x \in Indices(raw.n) |-> 0]
  BY DEF ResidualStart, callVars
<1>2. RawInv
  BY <1>1 DEF BuildInv
<1>3. PICK G : G = g'
  OBVIOUS
<1>4. raw.m \in Nat /\ raw.n \in Nat
  BY <1>2, RawFacts
<1>5. PICK none : none = [a \in Indices(2 * raw.m) |-> -1]
  OBVIOUS
<1>6. G = [nodeCount |-> raw.n, edgeCount |-> 2 * raw.m,
           ver |-> [x \in 0 .. raw.n |-> DegreeOfLower(x)],
           src |-> none, dst |-> none, rev |-> none, capacity |-> none]
  BY <1>3, <1>5 DEF ResidualStart, Unset
<1>7. none \in [Indices(2 * raw.m) -> Int] /\ \A s \in Indices(2 * raw.m) : none[s] = -1
  BY <1>5
<1>8. IsResidualGraph(G)
  BY <1>6, <1>7 DEF IsResidualGraph, ResidualIndex
<1>9. SlotsAreTrue(G, [x \in Indices(raw.n) |-> 0])
  <2> SUFFICES ASSUME NEW x \in Indices(raw.n), NEW s \in Indices(2 * raw.m),
                      G.ver[x] <= s
               PROVE  ~(s < G.ver[x] + 0)
    BY <1>6, <1>7 DEF SlotsAreTrue
  <2>1. x \in 0 .. raw.n /\ s \in Int
    BY <1>4 DEF Indices
  <2>2. G.ver[x] \in Nat
    BY <1>2, <1>8, <2>1, ResidualFacts
  <2> QED
    BY <2>1, <2>2
<1>10. PairsAreTrue(G)
  BY <1>6, <1>7 DEF PairsAreTrue
<1>11. CutsAgree(G, 0)
  <2> SUFFICES ASSUME NEW S \in SUBSET Indices(raw.n)
               PROVE  SumOver(G.capacity, {s \in Indices(G.edgeCount) : G.src[s] \in S /\ G.dst[s] \notin S})
                        = SumOver(raw.capacity,
                            {a \in Indices(0) : TailOf(raw.ver, raw.n, a) \in S /\ raw.edges[a] \notin S})
    BY DEF CutsAgree
  <2>1. -1 \notin S
    BY <1>4 DEF Indices
  <2>2. {s \in Indices(G.edgeCount) : G.src[s] \in S /\ G.dst[s] \notin S} = {}
    BY <1>6, <1>7, <2>1
  <2>3. {a \in Indices(0) : TailOf(raw.ver, raw.n, a) \in S /\ raw.edges[a] \notin S} = {}
    BY DEF Indices
  <2> QED
    BY <2>2, <2>3, SumOfNone
<1>12. nextPos' = [x \in Indices(raw.n) |-> Taken(x, 0)]
  BY <1>1, <1>2, DegreeFacts
<1>13. PlaceInv'
  <2>1. IsResidualGraph(g)'
    <3>1. ResidualIndex' = ResidualIndex
      BY <1>1 DEF ResidualIndex, DegreeOfLower
    <3> QED
      BY <1>1, <1>3, <1>8, <3>1 DEF IsResidualGraph
  <2>2. nextPos' = [x \in Indices(raw.n) |-> Taken(x, e)]'
    BY <1>1, <1>12 DEF Taken
  <2>3. SlotsAreTrue(g, nextPos)'
    BY <1>1, <1>3, <1>9 DEF SlotsAreTrue
  <2>4. PairsAreTrue(g)'
    BY <1>3, <1>10 DEF PairsAreTrue
  <2>5. CutsAgree(g, e)'
    BY <1>1, <1>3, <1>11 DEF CutsAgree
  <2>6. e' \in 0 .. raw'.m
    BY <1>1, <1>4
  <2> QED
    BY <2>1, <2>2, <2>3, <2>4, <2>5, <2>6 DEF PlaceInv
<1> QED
  BY <1>1, <1>2, <1>13, PlaceSuffices

\* What leaves S in the graph grows as what leaves it in the file.
LEMMA PlaceKeepsCuts ==
  ASSUME BuildInv, RawInv, NEW k \in Indices(raw.m),
         NEW G, IsResidualGraph(G), NEW H, IsResidualGraph(H), CutsAgree(G, k),
         NEW x \in Indices(raw.n), NEW y \in Indices(raw.n),
         x = TailOf(raw.ver, raw.n, k), y = raw.edges[k],
         NEW f \in Indices(2 * raw.m), NEW b \in Indices(2 * raw.m), f # b,
         G.src[f] = -1, G.src[b] = -1,
         H.src[f] = x, H.src[b] = y, H.dst[f] = y, H.dst[b] = x,
         H.capacity[f] = raw.capacity[k], H.capacity[b] = 0,
         \A s \in Indices(2 * raw.m) \ {f, b} :
           H.src[s] = G.src[s] /\ H.dst[s] = G.dst[s] /\ H.capacity[s] = G.capacity[s]
  PROVE  CutsAgree(H, k + 1)
<1>1. /\ raw.m \in Nat /\ raw.n \in Nat /\ raw.capacity \in [Indices(raw.m) -> Int]
  BY RawFacts
<1>2. /\ G.edgeCount = 2 * raw.m /\ H.edgeCount = 2 * raw.m
      /\ G.capacity \in [Indices(2 * raw.m) -> Int] /\ H.capacity \in [Indices(2 * raw.m) -> Int]
  BY ResidualFacts
<1> DEFINE Slots == Indices(2 * raw.m)
<1>3. IsFiniteSet(Slots) /\ IsFiniteSet(Indices(k))
  <2>1. 0 \in Int /\ 2 * raw.m - 1 \in Int /\ k - 1 \in Int
    BY <1>1 DEF Indices
  <2> QED
    BY <2>1, FS_Interval DEF Indices
<1> SUFFICES ASSUME NEW S \in SUBSET Indices(raw.n)
             PROVE  SumOver(H.capacity, {s \in Slots : H.src[s] \in S /\ H.dst[s] \notin S})
                      = SumOver(raw.capacity,
                          {a \in Indices(k + 1) : TailOf(raw.ver, raw.n, a) \in S /\ raw.edges[a] \notin S})
  BY <1>2 DEF CutsAgree
<1> DEFINE A == {s \in Slots : G.src[s] \in S /\ G.dst[s] \notin S}
           C == {s \in Slots : H.src[s] \in S /\ H.dst[s] \notin S}
           B == {a \in Indices(k) : TailOf(raw.ver, raw.n, a) \in S /\ raw.edges[a] \notin S}
           D == {a \in Indices(k + 1) : TailOf(raw.ver, raw.n, a) \in S /\ raw.edges[a] \notin S}
<1>4. SumOver(G.capacity, A) = SumOver(raw.capacity, B)
  BY <1>2 DEF CutsAgree
<1>5. -1 \notin S
  BY <1>1 DEF Indices
<1>6. A \in SUBSET Slots /\ f \notin A /\ b \notin A
  BY <1>5
<1>7. IsFiniteSet(A) /\ IsFiniteSet(B)
  BY <1>3, <1>6, FS_Subset
<1>8. \A s \in A : G.capacity[s] \in Int /\ H.capacity[s] = G.capacity[s] /\ H.capacity[s] \in Int
  BY <1>2, <1>6
<1>9. Indices(k + 1) = Indices(k) \cup {k} /\ k \notin Indices(k) /\ k \in Indices(raw.m)
  <2>1. k \in Nat /\ k \in Indices(raw.m)
    BY <1>1 DEF Indices
  <2>2. Indices(k + 1) = Indices(k) \cup {k} /\ k \notin Indices(k)
    BY ONLY <2>1 DEF Indices
  <2> QED
    BY <2>1, <2>2
<1>10. \A a \in B \cup {k} : raw.capacity[a] \in Int
  <2>1. \A a \in Indices(k) : a \in Indices(raw.m)
    BY <1>1 DEF Indices
  <2> QED
    BY <1>1, <1>9, <2>1
<1>11. k \notin B
  BY <1>9
<1>12. SumOver(H.capacity, A) = SumOver(G.capacity, A) /\ SumOver(G.capacity, A) \in Int
  <2> HIDE DEF A
  <2> QED
    BY <1>7, <1>8, SumSame, SumType
<1>13. CASE x \in S /\ y \notin S
  <2>1. C = A \cup {f}
    BY <1>6, <1>13
  <2>2. D = B \cup {k}
    BY <1>9, <1>13
  <2>3. \A s \in A \cup {f} : H.capacity[s] \in Int
    BY <1>2, <1>8
  <2> HIDE DEF A, B, C, D, Slots
  <2>4. SumOver(H.capacity, A \cup {f}) = H.capacity[f] + SumOver(H.capacity, A)
    BY <1>6, <1>7, <2>3, SumInsert
  <2>5. SumOver(raw.capacity, B \cup {k}) = raw.capacity[k] + SumOver(raw.capacity, B)
    BY <1>7, <1>10, <1>11, SumInsert
  <2>6. SumOver(H.capacity, C) = SumOver(raw.capacity, D)
    BY <1>4, <1>12, <2>1, <2>2, <2>4, <2>5
  <2> QED
    BY <2>6 DEF C, D, Slots
<1>14. CASE y \in S /\ x \notin S
  <2>1. C = A \cup {b}
    BY <1>6, <1>14
  <2>2. D = B
    BY <1>9, <1>14
  <2>3. \A s \in A \cup {b} : H.capacity[s] \in Int
    BY <1>2, <1>8
  <2> HIDE DEF A, B, C, D, Slots
  <2>4. SumOver(H.capacity, A \cup {b}) = H.capacity[b] + SumOver(H.capacity, A)
    BY <1>6, <1>7, <2>3, SumInsert
  <2>5. SumOver(H.capacity, C) = SumOver(raw.capacity, D)
    BY <1>4, <1>12, <2>1, <2>2, <2>4
  <2> QED
    BY <2>5 DEF C, D, Slots
<1>15. CASE x \in S <=> y \in S
  <2>1. C = A
    BY <1>6, <1>15
  <2>2. D = B
    BY <1>9, <1>15
  <2> HIDE DEF A, B, C, D, Slots
  <2>3. SumOver(H.capacity, C) = SumOver(raw.capacity, D)
    BY <1>4, <1>12, <2>1, <2>2
  <2> QED
    BY <2>3 DEF C, D, Slots
<1> QED
  BY <1>13, <1>14, <1>15

\* Two entries of an array have changed.
LEMMA UpdateType ==
  ASSUME NEW A, NEW r \in [A -> Int], NEW f, NEW b, NEW v \in Int, NEW w \in Int, NEW h,
         h = [r EXCEPT ![f] = v, ![b] = w]
  PROVE  h \in [A -> Int]
<1>1. h = [s \in A |-> IF s = b THEN w ELSE IF s = f THEN v ELSE r[s]]
  OBVIOUS
<1>2. \A s \in A : (IF s = b THEN w ELSE IF s = f THEN v ELSE r[s]) \in Int
  OBVIOUS
<1> QED
  BY <1>1, <1>2

\* An edge takes the next empty slot of its tail and the next one of its head.
LEMMA PlaceStep ==
  ASSUME BuildInv, Place
  PROVE  BuildInv'
<1>1. pc = "place" /\ pc' = "place" /\ e < raw.m /\ e' = e + 1 /\ UNCHANGED callVars /\ raw' = raw
  BY DEF Place, callVars
<1>2. RawInv /\ PlaceInv
  BY <1>1 DEF BuildInv
<1>3. PICK k, x, y, G, H, pos, q :
        /\ k = e /\ x = TailOf(raw.ver, raw.n, e) /\ y = raw.edges[e]
        /\ G = g /\ H = g' /\ pos = nextPos /\ q = nextPos'
  OBVIOUS
<1>4. raw.m \in Nat /\ raw.n \in Nat /\ k \in Indices(raw.m) /\ k \in 0 .. raw.m /\ k + 1 \in 0 .. raw.m
  <2>1. raw.m \in Nat /\ raw.n \in Nat
    BY <1>2, RawFacts
  <2>2. k \in 0 .. raw.m /\ k < raw.m
    BY <1>1, <1>2, <1>3 DEF PlaceInv
  <2> QED
    BY <2>1, <2>2 DEF Indices
<1>5. x \in Indices(raw.n) /\ y \in Indices(raw.n)
  BY <1>2, <1>3, <1>4, EndsFacts
<1>6. /\ IsResidualGraph(G) /\ SlotsAreTrue(G, pos) /\ PairsAreTrue(G) /\ CutsAgree(G, k)
      /\ pos = [z \in Indices(raw.n) |-> Taken(z, k)]
  BY <1>2, <1>3 DEF PlaceInv
<1> DEFINE Slots == Indices(2 * raw.m)
<1>7. /\ G.nodeCount = raw.n /\ G.edgeCount = 2 * raw.m
      /\ G.src \in [Slots -> Int] /\ G.dst \in [Slots -> Int]
      /\ G.rev \in [Slots -> Int] /\ G.capacity \in [Slots -> Int]
      /\ G.ver \in [0 .. raw.n -> Nat]
      /\ \A z \in Indices(raw.n) : G.ver[z + 1] = G.ver[z] + Taken(z, raw.m)
      /\ \A z \in 0 .. raw.n : G.ver[z] <= 2 * raw.m
      /\ \A s \in Slots : \E z \in Indices(raw.n) : G.ver[z] <= s /\ s < G.ver[z + 1]
      /\ \A s \in Slots, z, w \in Indices(raw.n) :
           G.ver[z] <= s /\ s < G.ver[z + 1] /\ G.ver[w] <= s /\ s < G.ver[w + 1] => z = w
  BY <1>2, <1>6, ResidualFacts
<1>8. \A z \in Indices(raw.n) : z \in 0 .. raw.n /\ z + 1 \in 0 .. raw.n
  BY <1>4 DEF Indices
<1>9. PICK f, t, b :
        /\ f = G.ver[x] + pos[x]
        /\ t = [pos EXCEPT ![x] = @ + 1]
        /\ b = G.ver[y] + t[y]
  OBVIOUS
<1>10. /\ q = [t EXCEPT ![y] = @ + 1]
       /\ H = [G EXCEPT !.src      = [@ EXCEPT ![f] = x, ![b] = y],
                        !.dst      = [@ EXCEPT ![f] = y, ![b] = x],
                        !.rev      = [@ EXCEPT ![f] = b, ![b] = f],
                        !.capacity = [@ EXCEPT ![f] = raw.capacity[k], ![b] = 0]]
  BY <1>3, <1>9 DEF Place, ReverseCapacity
\* The counters.
<1>11. \A z \in Indices(raw.n) :
         /\ pos[z] \in Nat /\ Taken(z, k + 1) \in Nat /\ Taken(z, k + 1) <= Taken(z, raw.m)
         /\ pos[z] <= Taken(z, raw.m)
         /\ Taken(z, k + 1) = pos[z] + (IF x = z THEN 1 ELSE 0) + (IF y = z THEN 1 ELSE 0)
  BY <1>2, <1>3, <1>4, <1>6, DegreeFacts
<1>12. q = [z \in Indices(raw.n) |-> Taken(z, k + 1)]
  <2>1. pos \in [Indices(raw.n) -> Nat]
    BY <1>6, <1>11
  <2>2. t \in [Indices(raw.n) -> Nat] /\ \A z \in Indices(raw.n) : t[z] = IF z = x THEN pos[z] + 1 ELSE pos[z]
    BY <1>5, <1>9, <2>1
  <2>3. \A z \in Indices(raw.n) : q[z] = IF z = y THEN t[z] + 1 ELSE t[z]
    BY <1>5, <1>10, <2>2
  <2>4. \A z \in Indices(raw.n) : q[z] = Taken(z, k + 1)
    <3> SUFFICES ASSUME NEW z \in Indices(raw.n) PROVE q[z] = Taken(z, k + 1)
      OBVIOUS
    <3>1. pos[z] \in Nat
      BY <2>1
    <3>2. q[z] = IF z = y THEN t[z] + 1 ELSE t[z]
      BY <2>3
    <3>3. t[z] = IF z = x THEN pos[z] + 1 ELSE pos[z]
      BY <2>2
    <3>4. Taken(z, k + 1) = pos[z] + (IF x = z THEN 1 ELSE 0) + (IF y = z THEN 1 ELSE 0)
      BY <1>11
    <3> QED
      BY ONLY <3>1, <3>2, <3>3, <3>4
  <2>5. q \in [Indices(raw.n) -> Nat]
    BY <1>5, <1>10, <2>2
  <2> QED
    BY <2>4, <2>5
\* The two slots.
<1>13. /\ t[y] = IF x = y THEN pos[y] + 1 ELSE pos[y]
       /\ f = G.ver[x] + pos[x]
       /\ b = IF x = y THEN f + 1 ELSE G.ver[y] + pos[y]
  <2>1. pos \in [Indices(raw.n) -> Nat]
    BY <1>6, <1>11
  <2>2. t[y] = IF x = y THEN pos[y] + 1 ELSE pos[y]
    BY <1>5, <1>9, <2>1
  <2>3. G.ver[x] \in Nat /\ pos[x] \in Nat
    BY <1>5, <1>7, <1>8, <2>1
  <2>4. CASE x = y
    BY <1>9, <2>2, <2>3, <2>4
  <2>5. CASE x # y
    BY <1>9, <2>2, <2>5
  <2> QED
    BY <2>4, <2>5
<1>14. /\ f \in Nat /\ b \in Nat
       /\ G.ver[x] <= f /\ f < G.ver[x + 1]
       /\ G.ver[y] <= b /\ b < G.ver[y + 1]
  <2>1. /\ G.ver[x] \in Nat /\ G.ver[y] \in Nat /\ pos[x] \in Nat /\ pos[y] \in Nat
        /\ Taken(x, raw.m) \in Nat /\ Taken(y, raw.m) \in Nat
        /\ G.ver[x + 1] = G.ver[x] + Taken(x, raw.m)
        /\ G.ver[y + 1] = G.ver[y] + Taken(y, raw.m)
    <3>1. raw.m \in 0 .. raw.m
      BY <1>4
    <3> QED
      BY <1>2, <1>5, <1>7, <1>8, <1>11, <3>1, DegreeFacts
  <2>2. CASE x = y
    <3>1. pos[x] + 2 <= Taken(x, raw.m)
      BY <1>5, <1>11, <2>1, <2>2
    <3> QED
      BY ONLY <1>13, <2>1, <2>2, <3>1
  <2>3. CASE x # y
    <3>1. pos[x] + 1 <= Taken(x, raw.m)
      BY <1>5, <1>11, <2>1, <2>3
    <3>2. pos[y] + 1 <= Taken(y, raw.m)
      BY <1>5, <1>11, <2>1, <2>3
    <3> QED
      BY ONLY <1>13, <2>1, <2>3, <3>1, <3>2
  <2> QED
    BY <2>2, <2>3
<1>15. f \in Slots /\ b \in Slots
  <2>1. G.ver[x + 1] <= 2 * raw.m /\ G.ver[y + 1] <= 2 * raw.m
    BY <1>5, <1>7, <1>8
  <2>2. G.ver[x + 1] \in Nat /\ G.ver[y + 1] \in Nat
    BY <1>5, <1>7, <1>8
  <2>3. f < 2 * raw.m /\ b < 2 * raw.m
    BY <1>4, <1>14, <2>1, <2>2
  <2> QED
    BY <1>4, <1>14, <2>3 DEF Indices
<1>16. f # b
  <2>1. CASE x = y
    BY <1>13, <1>14, <2>1
  <2>2. CASE x # y
    BY ZenonT(60), <1>5, <1>7, <1>14, <1>15, <2>2
  <2> QED
    BY <2>1, <2>2
<1>17. G.src[f] = -1 /\ G.src[b] = -1
  <2>1. G.src[f] = IF f < G.ver[x] + pos[x] THEN x ELSE -1
    BY <1>5, <1>6, <1>14, <1>15 DEF SlotsAreTrue
  <2>2. G.src[b] = IF b < G.ver[y] + pos[y] THEN y ELSE -1
    BY <1>5, <1>6, <1>14, <1>15 DEF SlotsAreTrue
  <2>3. G.ver[y] \in Nat /\ pos[y] \in Nat
    BY <1>5, <1>7, <1>8, <1>11
  <2>4. ~(f < G.ver[x] + pos[x])
    BY <1>13, <1>14
  <2>5. ~(b < G.ver[y] + pos[y])
    BY <1>13, <1>14, <2>3
  <2> QED
    BY <2>1, <2>2, <2>4, <2>5
<1>18. /\ H.src = [G.src EXCEPT ![f] = x, ![b] = y]
       /\ H.dst = [G.dst EXCEPT ![f] = y, ![b] = x]
       /\ H.rev = [G.rev EXCEPT ![f] = b, ![b] = f]
       /\ H.capacity = [G.capacity EXCEPT ![f] = raw.capacity[k], ![b] = 0]
       /\ H.ver = G.ver /\ H.nodeCount = G.nodeCount /\ H.edgeCount = G.edgeCount
  BY <1>6, <1>10 DEF IsResidualGraph
<1>19. /\ H.src[f] = x /\ H.src[b] = y /\ H.dst[f] = y /\ H.dst[b] = x
       /\ H.rev[f] = b /\ H.rev[b] = f
       /\ H.capacity[f] = raw.capacity[k] /\ H.capacity[b] = 0
       /\ \A s \in Slots \ {f, b} :
            /\ H.src[s] = G.src[s] /\ H.dst[s] = G.dst[s] /\ H.rev[s] = G.rev[s]
            /\ H.capacity[s] = G.capacity[s]
  BY SMTT(30), <1>7, <1>15, <1>16, <1>18
<1>20. IsResidualGraph(H)
  <2>1. raw.capacity[k] \in Int
    BY <1>2, <1>4, RawFacts
  <2>2. x \in Int /\ y \in Int /\ f \in Int /\ b \in Int
    BY <1>5, <1>14 DEF Indices
  <2>3. /\ H.src \in [Slots -> Int] /\ H.dst \in [Slots -> Int]
        /\ H.rev \in [Slots -> Int] /\ H.capacity \in [Slots -> Int]
    <3> HIDE DEF Slots
    <3>1. H.src \in [Slots -> Int]
      <4>1. PICK r, h, v, w : r = G.src /\ h = H.src /\ v = x /\ w = y
        OBVIOUS
      <4>2. r \in [Slots -> Int] /\ h = [r EXCEPT ![f] = v, ![b] = w]
        BY <1>7, <1>18, <4>1
      <4>3. v \in Int /\ w \in Int
        BY <2>1, <2>2, <4>1
      <4>4. h \in [Slots -> Int]
        BY ONLY <4>2, <4>3, UpdateType
      <4> QED
        BY <4>1, <4>4
    <3>2. H.dst \in [Slots -> Int]
      <4>1. PICK r, h, v, w : r = G.dst /\ h = H.dst /\ v = y /\ w = x
        OBVIOUS
      <4>2. r \in [Slots -> Int] /\ h = [r EXCEPT ![f] = v, ![b] = w]
        BY <1>7, <1>18, <4>1
      <4>3. v \in Int /\ w \in Int
        BY <2>1, <2>2, <4>1
      <4>4. h \in [Slots -> Int]
        BY ONLY <4>2, <4>3, UpdateType
      <4> QED
        BY <4>1, <4>4
    <3>3. H.rev \in [Slots -> Int]
      <4>1. PICK r, h, v, w : r = G.rev /\ h = H.rev /\ v = b /\ w = f
        OBVIOUS
      <4>2. r \in [Slots -> Int] /\ h = [r EXCEPT ![f] = v, ![b] = w]
        BY <1>7, <1>18, <4>1
      <4>3. v \in Int /\ w \in Int
        BY <2>1, <2>2, <4>1
      <4>4. h \in [Slots -> Int]
        BY ONLY <4>2, <4>3, UpdateType
      <4> QED
        BY <4>1, <4>4
    <3>4. H.capacity \in [Slots -> Int]
      <4>1. PICK r, h, v, w : r = G.capacity /\ h = H.capacity /\ v = raw.capacity[k] /\ w = 0
        OBVIOUS
      <4>2. r \in [Slots -> Int] /\ h = [r EXCEPT ![f] = v, ![b] = w]
        BY <1>7, <1>18, <4>1
      <4>3. v \in Int /\ w \in Int
        BY <2>1, <2>2, <4>1
      <4>4. h \in [Slots -> Int]
        BY ONLY <4>2, <4>3, UpdateType
      <4> QED
        BY <4>1, <4>4
    <3> QED
      BY <3>1, <3>2, <3>3, <3>4
  <2> QED
    BY <1>6, <1>10, <1>18, <2>3 DEF IsResidualGraph
<1>21. SlotsAreTrue(H, q)
  <2> SUFFICES ASSUME NEW z \in Indices(raw.n), NEW s \in Slots,
                      G.ver[z] <= s, s < G.ver[z + 1]
               PROVE  H.src[s] = IF s < G.ver[z] + q[z] THEN z ELSE -1
    BY <1>18 DEF SlotsAreTrue
  <2>1. G.src[s] = IF s < G.ver[z] + pos[z] THEN z ELSE -1
    BY <1>6 DEF SlotsAreTrue
  <2>2. G.ver[z] \in Nat /\ pos[z] \in Nat /\ s \in Int
    <3>1. z \in 0 .. raw.n
      BY <1>8
    <3>2. s \in Int
      BY DEF Indices
    <3> QED
      BY <1>7, <1>11, <3>1, <3>2
  <2>3. q[z] = pos[z] + (IF x = z THEN 1 ELSE 0) + (IF y = z THEN 1 ELSE 0)
    BY <1>11, <1>12
  <2>4. CASE s = f
    <3>1. z = x
      BY <1>5, <1>7, <1>14, <2>4
    <3>2. f < G.ver[z] + q[z]
      BY <1>13, <2>2, <2>3, <3>1
    <3> QED
      BY <1>19, <2>4, <3>1, <3>2
  <2>5. CASE s = b
    <3>1. z = y
      BY <1>5, <1>7, <1>14, <2>5
    <3>2. b < G.ver[z] + q[z]
      <4>1. CASE x = y
        BY <1>13, <2>2, <2>3, <3>1, <4>1
      <4>2. CASE x # y
        BY <1>13, <2>2, <2>3, <3>1, <4>2
      <4> QED
        BY <4>1, <4>2
    <3> QED
      BY <1>19, <2>5, <3>1, <3>2
  <2>6. CASE s # f /\ s # b
    <3>1. H.src[s] = G.src[s]
      BY <1>19, <2>6
    <3>2. s < G.ver[z] + q[z] <=> s < G.ver[z] + pos[z]
      <4>1. CASE z # x /\ z # y
        BY <2>2, <2>3, <4>1
      <4>2. CASE z = x /\ z # y
        <5>1. f = G.ver[z] + pos[z] /\ q[z] = pos[z] + 1
          BY <1>13, <2>2, <2>3, <4>2
        <5> QED
          BY <2>2, <2>6, <5>1
      <4>3. CASE z # x /\ z = y
        <5>1. b = G.ver[z] + pos[z] /\ q[z] = pos[z] + 1
          BY <1>13, <2>2, <2>3, <4>3
        <5> QED
          BY <2>2, <2>6, <5>1
      <4>4. CASE z = x /\ z = y
        <5>1. f = G.ver[z] + pos[z] /\ b = f + 1 /\ q[z] = pos[z] + 2
          BY <1>13, <2>2, <2>3, <4>4
        <5> QED
          BY <2>2, <2>6, <5>1
      <4> QED
        BY <4>1, <4>2, <4>3, <4>4
    <3> QED
      BY <2>1, <3>1, <3>2
  <2> QED
    BY <2>4, <2>5, <2>6
<1>22. PairsAreTrue(H)
  <2> SUFFICES ASSUME NEW s \in Slots, H.src[s] # -1
               PROVE  /\ H.dst[s] \in Indices(raw.n)
                      /\ H.rev[s] \in Slots /\ H.rev[s] # s /\ H.rev[H.rev[s]] = s
                      /\ H.src[H.rev[s]] = H.dst[s] /\ H.dst[H.rev[s]] = H.src[s]
    BY <1>7, <1>18 DEF PairsAreTrue
  <2>1. CASE s = f
    BY <1>5, <1>15, <1>16, <1>19, <2>1
  <2>2. CASE s = b
    BY <1>5, <1>15, <1>16, <1>19, <2>2
  <2>3. CASE s # f /\ s # b
    <3>1. H.src[s] = G.src[s] /\ H.dst[s] = G.dst[s] /\ H.rev[s] = G.rev[s]
      BY <1>19, <2>3
    <3>2. /\ G.dst[s] \in Indices(raw.n)
          /\ G.rev[s] \in Slots /\ G.rev[s] # s /\ G.rev[G.rev[s]] = s
          /\ G.src[G.rev[s]] = G.dst[s] /\ G.dst[G.rev[s]] = G.src[s]
      BY <1>6, <1>7, <3>1 DEF PairsAreTrue
    <3>3. G.dst[s] # -1
      BY <1>4, <3>2 DEF Indices
    <3>4. G.rev[s] # f /\ G.rev[s] # b
      BY <1>17, <3>2, <3>3
    <3>5. /\ H.src[G.rev[s]] = G.src[G.rev[s]] /\ H.dst[G.rev[s]] = G.dst[G.rev[s]]
          /\ H.rev[G.rev[s]] = G.rev[G.rev[s]]
      BY <1>19, <3>2, <3>4
    <3> QED
      BY <3>1, <3>2, <3>5
  <2> QED
    BY <2>1, <2>2, <2>3
<1>23. CutsAgree(H, k + 1)
  <2>1. x = TailOf(raw.ver, raw.n, k) /\ y = raw.edges[k]
    BY <1>3
  <2>2. \A s \in Slots \ {f, b} :
          H.src[s] = G.src[s] /\ H.dst[s] = G.dst[s] /\ H.capacity[s] = G.capacity[s]
    BY <1>19
  <2>3. /\ H.src[f] = x /\ H.src[b] = y /\ H.dst[f] = y /\ H.dst[b] = x
        /\ H.capacity[f] = raw.capacity[k] /\ H.capacity[b] = 0
    BY <1>19
  <2> QED
    BY ONLY BuildInv, <1>2, <1>4, <1>5, <1>6, <1>15, <1>16, <1>17, <1>20, <2>1, <2>2, <2>3, PlaceKeepsCuts
<1>24. PlaceInv'
  <2>1. IsResidualGraph(g)'
    <3>1. ResidualIndex' = ResidualIndex
      BY <1>1 DEF ResidualIndex, DegreeOfLower
    <3> QED
      BY <1>1, <1>3, <1>20, <3>1 DEF IsResidualGraph
  <2>2. nextPos' = [z \in Indices(raw.n) |-> Taken(z, e)]'
    BY <1>1, <1>3, <1>12 DEF Taken
  <2>3. SlotsAreTrue(g, nextPos)'
    BY <1>1, <1>3, <1>21 DEF SlotsAreTrue
  <2>4. PairsAreTrue(g)'
    BY <1>3, <1>22 DEF PairsAreTrue
  <2>5. CutsAgree(g, e)'
    BY SMTT(30), <1>1, <1>3, <1>23 DEF CutsAgree
  <2>6. e' \in 0 .. raw'.m
    BY <1>1, <1>3, <1>4
  <2> QED
    BY <2>1, <2>2, <2>3, <2>4, <2>5, <2>6 DEF PlaceInv
<1> QED
  BY <1>1, <1>2, <1>24, PlaceSuffices

\* In the end every slot is in use.
LEMMA PlaceEndStep ==
  ASSUME BuildInv, PlaceEnd
  PROVE  BuildInv'
<1>1. pc = "place" /\ pc' = "done" /\ e = raw.m /\ UNCHANGED callVars /\ raw' = raw /\ g' = g
  BY DEF PlaceEnd, callVars
<1>2. RawInv /\ PlaceInv
  BY <1>1 DEF BuildInv
<1>3. PICK m, n, G : m = 2 * raw.m /\ n = raw.n /\ G = g
  OBVIOUS
<1>4. n \in Nat /\ m \in Nat /\ raw.m \in Nat
  BY <1>2, <1>3, RawFacts
<1>5. /\ IsResidualGraph(G) /\ SlotsAreTrue(G, nextPos) /\ PairsAreTrue(G) /\ CutsAgree(G, raw.m)
      /\ nextPos = [z \in Indices(n) |-> Taken(z, raw.m)]
  BY <1>1, <1>2, <1>3 DEF PlaceInv
<1>6. /\ G.nodeCount = n /\ G.edgeCount = m
      /\ G.src \in [Indices(m) -> Int] /\ G.dst \in [Indices(m) -> Int]
      /\ G.rev \in [Indices(m) -> Int] /\ G.capacity \in [Indices(m) -> Int]
      /\ G.ver \in [0 .. n -> Nat]
      /\ \A z \in Indices(n) : G.ver[z + 1] = G.ver[z] + Taken(z, raw.m)
      /\ \A z \in Indices(n) : G.ver[z] <= G.ver[z + 1]
      /\ \A z \in 0 .. n : G.ver[z] <= m
      /\ \A s \in Indices(m) : \E z \in Indices(n) : G.ver[z] <= s /\ s < G.ver[z + 1]
      /\ \A s \in Indices(m), z, w \in Indices(n) :
           G.ver[z] <= s /\ s < G.ver[z + 1] /\ G.ver[w] <= s /\ s < G.ver[w + 1] => z = w
  BY <1>2, <1>3, <1>5, ResidualFacts
<1>7. ASSUME NEW z \in Indices(n), NEW s \in Indices(m), G.ver[z] <= s, s < G.ver[z + 1]
      PROVE  G.src[s] = z
  <2>1. G.src[s] = IF s < G.ver[z] + nextPos[z] THEN z ELSE -1
    BY <1>3, <1>5, <1>7 DEF SlotsAreTrue
  <2>2. G.ver[z + 1] = G.ver[z] + nextPos[z]
    BY <1>5, <1>6
  <2> QED
    BY <1>7, <2>1, <2>2
<1>8. \A z \in Indices(n), s \in Indices(m) : G.src[s] = z <=> G.ver[z] <= s /\ s < G.ver[z + 1]
  <2> SUFFICES ASSUME NEW z \in Indices(n), NEW s \in Indices(m), G.src[s] = z
               PROVE  G.ver[z] <= s /\ s < G.ver[z + 1]
    BY <1>7
  <2>1. PICK w \in Indices(n) : G.ver[w] <= s /\ s < G.ver[w + 1]
    BY <1>6
  <2>2. G.src[s] = w
    BY <1>7, <2>1
  <2> QED
    BY <2>1, <2>2
<1>9. \A s \in Indices(m) : G.src[s] \in Indices(n) /\ G.src[s] # -1
  <2> SUFFICES ASSUME NEW s \in Indices(m) PROVE G.src[s] \in Indices(n) /\ G.src[s] # -1
    OBVIOUS
  <2>1. PICK w \in Indices(n) : G.ver[w] <= s /\ s < G.ver[w + 1]
    BY <1>6
  <2>2. G.src[s] = w
    BY <1>7, <2>1
  <2>3. w # -1
    BY <1>4 DEF Indices
  <2> QED
    BY <2>2, <2>3
<1>10. \A s \in Indices(m) :
         /\ G.dst[s] \in Indices(n)
         /\ G.rev[s] \in Indices(m) /\ G.rev[s] # s /\ G.rev[G.rev[s]] = s
         /\ G.src[G.rev[s]] = G.dst[s] /\ G.dst[G.rev[s]] = G.src[s]
  BY <1>5, <1>6, <1>9 DEF PairsAreTrue
<1>11. G.src \in [Indices(m) -> Indices(n)] /\ G.dst \in [Indices(m) -> Indices(n)]
  BY <1>6, <1>9, <1>10
<1>12. IsIndexed(G)
  <2>1. G.ver \in [0 .. n -> 0 .. m]
    <3>1. \A z \in 0 .. n : G.ver[z] \in 0 .. m
      BY <1>4, <1>6
    <3> QED
      BY <1>6, <3>1
  <2> QED
    BY <1>6, <1>8, <2>1 DEF IsIndexed, Nodes, Edges, Indices
<1>13. IsPaired(G)
  <2>1. G.rev \in [Indices(m) -> Indices(m)]
    BY <1>6, <1>10
  <2> QED
    BY <1>6, <1>10, <2>1 DEF IsPaired, Edges, Indices
<1>14. BuiltGraphIsSound'
  BY <1>1, <1>3, <1>6, <1>11, <1>12, <1>13
     DEF BuiltGraphIsSound, IsIndexed, IsPaired, Nodes, Edges
<1>15. KeepsCuts'
  <2>1. ASSUME NEW S \in SUBSET Indices(raw.n)
        PROVE  SumOver(g.capacity, {s \in Indices(g.edgeCount) : g.src[s] \in S /\ g.dst[s] \notin S})
                 = SumOver(raw.capacity,
                     {a \in Indices(raw.m) :
                        /\ [i \in Indices(raw.m) |-> TailOf(raw.ver, raw.n, i)][a] \in S
                        /\ raw.edges[a] \notin S})
    <3>1. {a \in Indices(raw.m) :
             /\ [i \in Indices(raw.m) |-> TailOf(raw.ver, raw.n, i)][a] \in S
             /\ raw.edges[a] \notin S}
            = {a \in Indices(raw.m) : TailOf(raw.ver, raw.n, a) \in S /\ raw.edges[a] \notin S}
      OBVIOUS
    <3>2. SumOver(g.capacity, {s \in Indices(g.edgeCount) : g.src[s] \in S /\ g.dst[s] \notin S})
            = SumOver(raw.capacity,
                {a \in Indices(raw.m) : TailOf(raw.ver, raw.n, a) \in S /\ raw.edges[a] \notin S})
      BY <1>3, <1>5 DEF CutsAgree
    <3> QED
      BY <3>1, <3>2
  <2> QED
    BY <1>1, <2>1 DEF KeepsCuts
<1> QED
  BY <1>1, <1>2, <1>14, <1>15, ReturnSuffices

-------------------------------------------------------------------------------
(* The theorems.                                                           *)

LEMMA StutterStep ==
  ASSUME BuildInv, UNCHANGED vars
  PROVE  BuildInv'
<1>1. /\ file' = file /\ mode' = mode /\ hash' = hash /\ pc' = pc /\ raw' = raw /\ g' = g
      /\ e' = e /\ slot' = slot /\ table' = table /\ nextEdge' = nextEdge /\ cand' = cand
      /\ nextPos' = nextPos
  BY DEF vars
<1>2. RawInv' = RawInv
  BY <1>1 DEF RawInv
<1>3. StrictInv' = StrictInv
  BY <1>1 DEF StrictInv, IsStrictGraph, ChainsAreTrue, Ends
<1>4. PlaceInv' = PlaceInv
  BY <1>1 DEF PlaceInv, IsResidualGraph, ResidualIndex, DegreeOfLower, SlotsAreTrue,
              PairsAreTrue, CutsAgree, Taken
<1>5. BuiltGraphIsSound' = BuiltGraphIsSound
  BY <1>1 DEF BuiltGraphIsSound, IsIndexed, IsPaired, Nodes, Edges
<1>6. KeepsCuts' = KeepsCuts
  BY <1>1 DEF KeepsCuts
<1> QED
  BY <1>1, <1>2, <1>3, <1>4, <1>5, <1>6 DEF BuildInv

\* The invariant of the two builds: the chains hold edges of the right ends, the
\* pairs are mutual, and every node has taken the slots its edges need.
THEOREM BuildInvariant == Spec => []BuildInv
<1>1. ASSUME BuildInv, Next PROVE BuildInv'
  <2>1. CASE ReadFile
    BY <1>1, <2>1, ReadFileStep
  <2>2. CASE Die
    BY <1>1, <2>2, WayOutStep
  <2>3. CASE Strict
    BY <1>1, <2>3, StrictStartStep, StrictMoveStep, InsertStep, WalkStep, MissingStep, PairStep,
       PairEndStep DEF Strict
  <2>4. CASE ResidualBuild
    BY <1>1, <2>4, WayOutStep, ResidualStartStep, PlaceStep, PlaceEndStep DEF ResidualBuild
  <2> QED
    BY <1>1, <2>1, <2>2, <2>3, <2>4 DEF Next
<1>2. ASSUME BuildInv, [Next]_vars PROVE BuildInv'
  BY <1>1, <1>2, StutterStep
<1> QED
  BY InitHolds, <1>2, PTL DEF Spec

\* A graph that is returned is indexed by source node and every slot is paired
\* with one of the opposite direction, for every file, mode and hash function.
THEOREM BuildReturnsSoundGraph == Spec => []BuiltGraphIsSound
<1>1. BuildInv => BuiltGraphIsSound
  BY DEF BuildInv
<1> QED
  BY <1>1, BuildInvariant, PTL

\* Both builds leave every cut of the file as it is, and so its maximum flow.
THEOREM BuildKeepsCuts == Spec => []KeepsCuts
<1>1. BuildInv => KeepsCuts
  BY DEF BuildInv
<1> QED
  BY <1>1, BuildInvariant, PTL

-------------------------------------------------------------------------------
(* Nothing is overlooked by a probe or a walk.                             *)

\* The keys of the buckets.
Keys == [i \in Indices(TableSize(raw.m)) |-> table[i].key]

\* A probe for key k that starts at hash value h gets to bucket i of the N buckets.
Reaches(K, N, h, k, i) ==
  \E j \in Nat : /\ i = (h + j) % N
                 /\ \A l \in 0 .. (j - 1) : K[(h + l) % N] \notin {NoKey, k}

IsReached(i, k) == Reaches(Keys, TableSize(raw.m), hash[k], k, i)

\* The edges that are in the table
Inserted == IF pc \in {"insert", "insertProbe"} THEN e ELSE raw.m

\* None of the edges between h and b has the ends k.
NoneBetween(h, k, b) == \A a \in Indices(b) : a > h => Ends(a) # k

\* Every edge has a bucket that a probe finds, and the chain of a bucket goes down
\* through all edges with its key.
StoredInv ==
  /\ \A i \in Indices(TableSize(raw.m)) :
        IF table[i].key = NoKey THEN table[i].head = -1
        ELSE /\ table[i].head # -1
             /\ IsReached(i, table[i].key)
             /\ NoneBetween(table[i].head, table[i].key, Inserted)
  /\ \A a \in Indices(Inserted) : \E i \in Indices(TableSize(raw.m)) : table[i].key = Ends(a)
  /\ \A a \in Indices(Inserted) : NoneBetween(nextEdge[a], Ends(a), a)

ProbeInv == pc \in {"insertProbe", "pairProbe"} => IsReached(slot, Key)

\* A walk has passed all edges above cand, which could not be taken.
WalkInv ==
  pc = "walk" =>
    \A a \in Indices(raw.m) : Ends(a) = Reversed(Ends(e)) /\ a > cand => IsBusy(a)

ExactInv == pc \in StrictLabels => StoredInv /\ ProbeInv /\ WalkInv

\* The bucket a probe for k stops at is always the same one.
LEMMA OneBucket ==
  ASSUME NEW K, NEW N \in Nat \ {0}, NEW h \in Nat, NEW k, NEW i, NEW o,
         Reaches(K, N, h, k, i), Reaches(K, N, h, k, o),
         K[i] \in {NoKey, k}, K[o] \in {NoKey, k}
  PROVE  i = o
<1>1. PICK j \in Nat : i = (h + j) % N /\ \A l \in 0 .. (j - 1) : K[(h + l) % N] \notin {NoKey, k}
  BY DEF Reaches
<1>2. PICK q \in Nat : o = (h + q) % N /\ \A l \in 0 .. (q - 1) : K[(h + l) % N] \notin {NoKey, k}
  BY DEF Reaches
<1>3. ~(j < q)
  <2> SUFFICES ASSUME j < q PROVE FALSE
    OBVIOUS
  <2>1. j \in 0 .. (q - 1)
    OBVIOUS
  <2> QED
    BY <1>1, <1>2, <2>1
<1>4. ~(q < j)
  <2> SUFFICES ASSUME q < j PROVE FALSE
    OBVIOUS
  <2>1. q \in 0 .. (j - 1)
    OBVIOUS
  <2> QED
    BY <1>1, <1>2, <2>1
<1>5. j = q
  BY <1>3, <1>4
<1> QED
  BY <1>1, <1>2, <1>5

\* A probe starts at the hash value.
LEMMA ReachesHome ==
  ASSUME NEW K, NEW N, NEW h \in Nat, NEW k
  PROVE  Reaches(K, N, h, k, h % N)
<1>1. 0 \in Nat /\ h + 0 = h /\ 0 .. (0 - 1) = {}
  OBVIOUS
<1> QED
  BY <1>1 DEF Reaches

LEMMA Remainder ==
  ASSUME NEW a \in Int, NEW N \in Nat \ {0}, NEW q \in Int, NEW r \in 0 .. (N - 1), a = N * q + r
  PROVE  a % N = r
OBVIOUS

LEMMA NextBucket ==
  ASSUME NEW N \in Nat \ {0}, NEW c \in Nat
  PROVE  ((c % N) + 1) % N = (c + 1) % N
<1>1. PICK r \in 0 .. (N - 1), q \in Int : r = c % N /\ c = N * q + r
  <2>1. c % N \in 0 .. (N - 1) /\ c = N * (c \div N) + (c % N) /\ c \div N \in Int
    OBVIOUS
  <2> QED
    BY <2>1
<1>2. CASE r + 1 < N
  <2>1. PICK s \in 0 .. (N - 1) : s = r + 1
    BY <1>2
  <2>2. c + 1 = N * q + s /\ s = N * 0 + s
    BY <1>1, <2>1
  <2>3. (c + 1) % N = s /\ s % N = s
    <3>1. c + 1 \in Int /\ s \in Int /\ 0 \in Int
      OBVIOUS
    <3> QED
      BY ONLY ZenonT(60), <2>2, <3>1, Remainder, N \in Nat \ {0}, q \in Int, s \in 0 .. (N - 1)
  <2> QED
    BY <1>1, <2>1, <2>3
<1>3. CASE ~(r + 1 < N)
  <2>1. r + 1 = N * 1 + 0 /\ 0 \in 0 .. (N - 1) /\ 1 \in Int
    BY <1>3
  <2>2. PICK p \in Int : p = q + 1
    OBVIOUS
  <2>3. c + 1 = N * p + 0
    BY <1>1, <1>3, <2>2
  <2>4. (c + 1) % N = 0 /\ (r + 1) % N = 0
    <3>1. c + 1 \in Int /\ r + 1 \in Int
      OBVIOUS
    <3> QED
      BY ONLY <2>1, <2>3, <3>1, Remainder, N \in Nat \ {0}, p \in Int
  <2> QED
    BY <1>1, <2>4
<1> QED
  BY <1>2, <1>3

\* A bucket with another key is passed.
LEMMA ReachesNext ==
  ASSUME NEW K, NEW N \in Nat \ {0}, NEW h \in Nat, NEW k, NEW i,
         Reaches(K, N, h, k, i), K[i] \notin {NoKey, k}
  PROVE  Reaches(K, N, h, k, (i + 1) % N)
<1>1. PICK j \in Nat : i = (h + j) % N /\ \A l \in 0 .. (j - 1) : K[(h + l) % N] \notin {NoKey, k}
  BY DEF Reaches
<1>2. j + 1 \in Nat /\ h + j \in Nat /\ (h + j) + 1 = h + (j + 1)
  OBVIOUS
<1>3. (i + 1) % N = (h + (j + 1)) % N
  BY <1>1, <1>2, NextBucket
<1>4. \A l \in 0 .. ((j + 1) - 1) : l = j \/ l \in 0 .. (j - 1)
  OBVIOUS
<1>5. \A l \in 0 .. ((j + 1) - 1) : K[(h + l) % N] \notin {NoKey, k}
  BY <1>1, <1>4
<1> QED
  BY <1>2, <1>3, <1>5 DEF Reaches

\* Keys stay where they are, so a probe that has passed buckets passes them again.
LEMMA ReachesKept ==
  ASSUME NEW K, NEW L, NEW N \in Nat \ {0}, NEW h \in Nat, NEW k, NEW i,
         Reaches(K, N, h, k, i),
         \A b \in Indices(N) : K[b] # NoKey => L[b] = K[b]
  PROVE  Reaches(L, N, h, k, i)
<1>1. PICK j \in Nat : i = (h + j) % N /\ \A l \in 0 .. (j - 1) : K[(h + l) % N] \notin {NoKey, k}
  BY DEF Reaches
<1>2. ASSUME NEW l \in 0 .. (j - 1)
      PROVE  L[(h + l) % N] \notin {NoKey, k}
  <2>1. h + l \in Int
    OBVIOUS
  <2>2. (h + l) % N \in Indices(N)
    BY <2>1 DEF Indices
  <2> QED
    BY <1>1, <2>2
<1> QED
  BY <1>1, <1>2 DEF Reaches


LEMMA ExactFacts ==
  ASSUME BuildInv, ExactInv, pc \in StrictLabels
  PROVE  /\ RawInv /\ StrictInv /\ StoredInv /\ ProbeInv /\ WalkInv
         /\ raw.m \in Nat /\ e \in Nat /\ e <= raw.m
         /\ TableSize(raw.m) \in Nat \ {0}
         /\ Inserted \in Nat /\ Inserted <= raw.m
         /\ \A i \in Indices(TableSize(raw.m)) : Keys[i] = table[i].key
<1>1. /\ RawInv /\ StrictInv /\ raw.m \in Nat /\ e \in Nat
      /\ TableSize(raw.m) \in Nat /\ TableSize(raw.m) > 0
  BY StrictFacts
<1>2. e <= raw.m
  BY <1>1 DEF StrictInv
<1> QED
  BY <1>1, <1>2 DEF ExactInv, Inserted, Keys

\* What is stored does not depend on the place the build is at.
LEMMA StoredKept ==
  ASSUME StoredInv, raw' = raw, hash' = hash, table' = table, nextEdge' = nextEdge,
         Inserted' = Inserted
  PROVE  StoredInv'
<1>1. Keys' = Keys
  BY DEF Keys
<1>2. \A i, k : IsReached(i, k)' = IsReached(i, k)
  BY <1>1 DEF IsReached
<1>3. \A h, k, b : NoneBetween(h, k, b)' = NoneBetween(h, k, b)
  BY DEF NoneBetween, Ends
<1>4. \A a : Ends(a)' = Ends(a)
  BY DEF Ends
<1> QED
  BY <1>2, <1>3, <1>4 DEF StoredInv, NoneBetween, IsReached, Ends

\* The table starts empty.
LEMMA StartIsExact ==
  ASSUME BuildInv, StrictStart
  PROVE  ExactInv'
<1>1. pc' = "insert" /\ e' = 0 /\ raw' = raw /\ table' = EmptyTable(raw.m)
  BY DEF StrictStart, callVars
<1>2. Inserted' = 0 /\ Indices(0) = {}
  BY <1>1 DEF Inserted, Indices
<1>3. \A i \in Indices(TableSize(raw.m)) : table'[i].key = NoKey /\ table'[i].head = -1
  BY <1>1 DEF EmptyTable
<1>4. StoredInv'
  BY <1>1, <1>2, <1>3 DEF StoredInv
<1> QED
  BY <1>1, <1>4 DEF ExactInv, ProbeInv, WalkInv

\* A probe starts where the key hashes to and goes on until it may stop.
LEMMA ProbeIsExact ==
  ASSUME BuildInv, ExactInv, InsertStart \/ PairStart \/ ProbeNext
  PROVE  ExactInv'
<1>1. /\ raw' = raw /\ hash' = hash /\ table' = table /\ nextEdge' = nextEdge /\ e' = e /\ g' = g
      /\ pc \in StrictLabels /\ pc' \in {"insertProbe", "pairProbe"}
      /\ pc' = "insertProbe" <=> pc \in {"insert", "insertProbe"}
  BY DEF InsertStart, PairStart, ProbeNext, callVars, StrictLabels
<1>2. /\ RawInv /\ StrictInv /\ StoredInv /\ ProbeInv
      /\ TableSize(raw.m) \in Nat \ {0}
      /\ \A i \in Indices(TableSize(raw.m)) : Keys[i] = table[i].key
  BY <1>1, ExactFacts
<1>3. Inserted' = Inserted
  BY <1>1 DEF Inserted
<1>4. StoredInv'
  BY <1>1, <1>2, <1>3, StoredKept
<1>5. e < raw.m
  BY <1>2 DEF StrictInv, InsertStart, PairStart, ProbeNext
<1>6. /\ e \in Indices(raw.m)
      /\ Key = IF pc \in {"insert", "insertProbe"} THEN Ends(e) ELSE Reversed(Ends(e))
  BY <1>1, <1>5, KeyFacts
<1>7. hash[Key] \in Nat
  BY <1>2, <1>6, EndsFacts
<1>8. Key' = Key /\ Keys' = Keys
  BY <1>1 DEF Key, Keys
<1>9. Reaches(Keys, TableSize(raw.m), hash[Key], Key, slot')
  <2>1. CASE InsertStart \/ PairStart
    <3>1. slot' = hash[Key] % TableSize(raw.m)
      BY <2>1 DEF InsertStart, PairStart, Home
    <3> QED
      BY <1>7, <3>1, ReachesHome
  <2>2. CASE ProbeNext
    <3>1. /\ slot' = (slot + 1) % TableSize(raw.m)
          /\ table[slot].key \notin {NoKey, Key}
          /\ pc \in {"insertProbe", "pairProbe"}
      BY <2>2 DEF ProbeNext, IsTaken
    <3>2. slot \in Indices(TableSize(raw.m))
      BY <1>2, <3>1 DEF StrictInv
    <3>3. Reaches(Keys, TableSize(raw.m), hash[Key], Key, slot)
      BY <1>2, <3>1 DEF ProbeInv, IsReached
    <3>4. Keys[slot] \notin {NoKey, Key}
      BY <1>2, <3>1, <3>2
    <3> QED
      BY <1>2, <1>7, <3>1, <3>3, <3>4, ReachesNext
  <2> QED
    BY <2>1, <2>2
<1>10. ProbeInv'
  <2>1. IsReached(slot, Key)' <=> Reaches(Keys', TableSize(raw'.m), hash'[Key'], Key', slot')
    BY DEF IsReached
  <2>2. IsReached(slot, Key)'
    BY <1>1, <1>8, <1>9, <2>1
  <2> QED
    BY <2>2 DEF ProbeInv
<1> QED
  BY <1>1, <1>4, <1>10 DEF ExactInv, WalkInv


\* The edge goes into the only bucket that has or may have its key, on top of those with
\* the same ends.
LEMMA InsertIsExact ==
  ASSUME BuildInv, ExactInv, Insert
  PROVE  ExactInv'
<1>1. /\ pc = "insertProbe" /\ pc' = "insert" /\ e' = e + 1 /\ ~IsTaken
      /\ table' = [table EXCEPT ![slot] = [key |-> Key, head |-> e]]
      /\ nextEdge' = [nextEdge EXCEPT ![e] = table[slot].head]
      /\ raw' = raw /\ hash' = hash /\ g' = g
  BY DEF Insert, callVars
<1>2. pc \in StrictLabels
  BY <1>1 DEF StrictLabels
<1>3. PICK N, k, K, h : N = TableSize(raw.m) /\ k = Key /\ K = Keys /\ h = hash[Key]
  OBVIOUS
<1>4. /\ RawInv /\ StrictInv /\ StoredInv /\ ProbeInv
      /\ raw.m \in Nat /\ e \in Nat
      /\ N \in Nat \ {0}
      /\ \A i \in Indices(N) : K[i] = table[i].key
  BY <1>2, <1>3, ExactFacts
<1>5. e < raw.m /\ slot \in Indices(N)
  BY <1>1, <1>3, <1>4 DEF StrictInv
<1>6. e \in Indices(raw.m) /\ k = Ends(e) /\ k # NoKey
  BY <1>1, <1>2, <1>3, <1>5, KeyFacts
<1>7. h \in Nat /\ h = hash[k]
  BY <1>3, <1>4, <1>6, EndsFacts
<1>8. /\ table \in [Indices(N) -> [key : Int \X Int, head : Indices(raw.m) \cup {-1}]]
      /\ nextEdge \in [Indices(raw.m) -> Indices(raw.m) \cup {-1}]
  BY <1>3, <1>4 DEF StrictInv, ChainsAreTrue
<1>9. K[slot] \in {NoKey, k}
  BY <1>1, <1>3, <1>4, <1>5 DEF IsTaken
<1>10. Inserted = e /\ Inserted' = e + 1
  BY <1>1 DEF Inserted
<1>11. Reaches(K, N, h, k, slot)
  BY <1>1, <1>3, <1>4 DEF ProbeInv, IsReached
<1>12. /\ \A i \in Indices(N) :
             IF table[i].key = NoKey THEN table[i].head = -1
             ELSE /\ table[i].head # -1
                  /\ Reaches(K, N, hash[table[i].key], table[i].key, i)
                  /\ NoneBetween(table[i].head, table[i].key, e)
       /\ \A a \in Indices(e) : \E i \in Indices(N) : table[i].key = Ends(a)
       /\ \A a \in Indices(e) : NoneBetween(nextEdge[a], Ends(a), a)
  BY <1>3, <1>4, <1>10 DEF StoredInv, IsReached
<1>13. ASSUME NEW i \in Indices(N), table[i].key = k
       PROVE  i = slot
  <2>1. Reaches(K, N, h, k, i) /\ K[i] \in {NoKey, k}
    BY <1>4, <1>6, <1>7, <1>12, <1>13
  <2> QED
    BY <1>4, <1>7, <1>9, <1>11, <2>1, OneBucket
<1>14. NoneBetween(table[slot].head, k, e)
  <2>1. CASE table[slot].key = k
    BY <1>5, <1>6, <1>12, <2>1
  <2>2. CASE table[slot].key # k
    <3>1. \A a \in Indices(e) : Ends(a) # k
      BY <1>12, <1>13, <2>2
    <3> QED
      BY <3>1 DEF NoneBetween
  <2> QED
    BY <2>1, <2>2
<1>15. /\ table'[slot] = [key |-> k, head |-> e]
       /\ \A i \in Indices(N) : i # slot => table'[i] = table[i]
  BY <1>1, <1>3, <1>5, <1>8
<1>16. PICK L : L = Keys'
  OBVIOUS
<1>17. L[slot] = k /\ \A i \in Indices(N) : i # slot => L[i] = K[i]
  <2>1. L = [i \in Indices(N) |-> table'[i].key]
    BY <1>1, <1>3, <1>16 DEF Keys
  <2> QED
    BY <1>4, <1>5, <1>15, <2>1
<1>18. \A b \in Indices(N) : K[b] # NoKey => L[b] = K[b]
  BY <1>9, <1>17
<1>19. \A b \in Indices(e + 1) : b = e \/ b \in Indices(e)
  BY <1>4 DEF Indices
<1>20. \A i \in Indices(N) :
         IF table'[i].key = NoKey THEN table'[i].head = -1
         ELSE /\ table'[i].head # -1
              /\ Reaches(L, N, hash[table'[i].key], table'[i].key, i)
              /\ NoneBetween(table'[i].head, table'[i].key, e + 1)
  <2> SUFFICES ASSUME NEW i \in Indices(N), table'[i].key # NoKey \/ table'[i].head # -1
               PROVE  /\ table'[i].key # NoKey
                      /\ table'[i].head # -1
                      /\ Reaches(L, N, hash[table'[i].key], table'[i].key, i)
                      /\ NoneBetween(table'[i].head, table'[i].key, e + 1)
    OBVIOUS
  <2>1. CASE i = slot
    <3>1. table'[i].key = k /\ table'[i].head = e
      BY <1>15, <2>1
    <3>2. Reaches(L, N, h, k, i)
      BY <1>4, <1>7, <1>11, <1>18, <2>1, ReachesKept
    <3>3. e # -1 /\ \A a \in Indices(e + 1) : ~(a > e)
      BY <1>4 DEF Indices
    <3>4. NoneBetween(e, k, e + 1)
      BY <3>3 DEF NoneBetween
    <3> QED
      BY <1>6, <1>7, <3>1, <3>2, <3>3, <3>4
  <2>2. CASE i # slot
    <3>1. PICK key, head : key = table[i].key /\ head = table[i].head
      OBVIOUS
    <3>2. /\ table'[i].key = key /\ table'[i].head = head /\ key # NoKey
          /\ Reaches(K, N, hash[key], key, i) /\ NoneBetween(head, key, e)
      BY <1>12, <1>15, <2>2, <3>1
    <3>3. head # -1 /\ head \in Indices(raw.m) /\ Ends(head) = key
      <4>1. head # -1
        BY <1>12, <3>1, <3>2
      <4> QED
        BY <1>3, <1>4, <1>8, <3>1, <4>1 DEF StrictInv, ChainsAreTrue
    <3>4. hash[key] \in Nat
      BY <1>4, <3>3, EndsFacts
    <3>5. Reaches(L, N, hash[key], key, i)
      BY <1>4, <1>18, <3>2, <3>4, ReachesKept
    <3>6. key # k
      BY <1>13, <2>2, <3>1
    <3>7. NoneBetween(head, key, e + 1)
      BY <1>6, <1>19, <3>2, <3>6 DEF NoneBetween
    <3> QED
      BY <3>2, <3>3, <3>5, <3>7
  <2> QED
    BY <2>1, <2>2
<1>21. \A a \in Indices(e + 1) : \E i \in Indices(N) : table'[i].key = Ends(a)
  <2> SUFFICES ASSUME NEW a \in Indices(e + 1) PROVE \E i \in Indices(N) : table'[i].key = Ends(a)
    OBVIOUS
  <2>1. CASE a = e
    BY <1>5, <1>6, <1>15, <2>1
  <2>2. CASE a \in Indices(e)
    <3>1. PICK i \in Indices(N) : table[i].key = Ends(a)
      BY <1>12, <2>2
    <3>2. a \in Indices(raw.m)
      BY <1>4, <1>5, <2>2 DEF Indices
    <3>3. Ends(a) # NoKey
      BY <1>4, <3>2, EndsFacts
    <3>4. table'[i].key = Ends(a)
      BY <1>4, <1>9, <1>15, <3>1, <3>3
    <3> QED
      BY <3>4
  <2> QED
    BY <1>19, <2>1, <2>2
<1>22. \A a \in Indices(e + 1) : NoneBetween(nextEdge'[a], Ends(a), a)
  <2> SUFFICES ASSUME NEW a \in Indices(e + 1) PROVE NoneBetween(nextEdge'[a], Ends(a), a)
    OBVIOUS
  <2>1. CASE a = e
    <3>1. nextEdge'[e] = table[slot].head
      BY <1>1, <1>6, <1>8
    <3> QED
      BY <1>6, <1>14, <2>1, <3>1
  <2>2. CASE a \in Indices(e)
    <3>1. a # e /\ a \in Indices(raw.m)
      BY <1>4, <1>5, <2>2 DEF Indices
    <3>2. nextEdge'[a] = nextEdge[a]
      BY <1>1, <1>8, <3>1
    <3> QED
      BY <1>12, <2>2, <3>2
  <2> QED
    BY <1>19, <2>1, <2>2
<1>23. StoredInv'
  <2>1. StoredInv' <=>
          /\ \A i \in Indices(TableSize(raw'.m)) :
                IF table'[i].key = NoKey THEN table'[i].head = -1
                ELSE /\ table'[i].head # -1
                     /\ Reaches(Keys', TableSize(raw'.m), hash'[table'[i].key], table'[i].key, i)
                     /\ NoneBetween(table[i].head, table[i].key, Inserted)'
          /\ \A a \in Indices(Inserted') : \E i \in Indices(TableSize(raw'.m)) : table'[i].key = Ends(a)'
          /\ \A a \in Indices(Inserted') : NoneBetween(nextEdge[a], Ends(a), a)'
    BY DEF StoredInv, IsReached
  <2>2. \A i : NoneBetween(table[i].head, table[i].key, Inserted)' <=>
                 NoneBetween(table'[i].head, table'[i].key, e + 1)
    BY <1>1, <1>10 DEF NoneBetween, Ends
  <2>3. \A a : NoneBetween(nextEdge[a], Ends(a), a)' <=> NoneBetween(nextEdge'[a], Ends(a), a)
    BY <1>1 DEF NoneBetween, Ends
  <2>4. \A a : Ends(a)' = Ends(a)
    BY <1>1 DEF Ends
  <2> QED
    BY <1>1, <1>3, <1>10, <1>16, <1>20, <1>21, <1>22, <2>1, <2>2, <2>3, <2>4
<1> QED
  BY <1>1, <1>23 DEF ExactInv, ProbeInv, WalkInv


\* The steps between the edges: those that are in the table stay as they are.
LEMMA MoveIsExact ==
  ASSUME BuildInv, ExactInv, InsertEnd \/ PairSkip \/ Pair
  PROVE  ExactInv'
<1>1. /\ raw' = raw /\ hash' = hash /\ table' = table /\ nextEdge' = nextEdge
      /\ pc \in StrictLabels /\ pc' = "pair"
      /\ pc = "insert" => e = raw.m
  BY DEF InsertEnd, PairSkip, Pair, callVars, tableVars, StrictLabels
<1>2. StoredInv
  BY <1>1, ExactFacts
<1>3. Inserted' = Inserted
  BY <1>1 DEF Inserted, InsertEnd, PairSkip, Pair
<1>4. StoredInv'
  BY <1>1, <1>2, <1>3, StoredKept
<1> QED
  BY <1>1, <1>4 DEF ExactInv, ProbeInv, WalkInv

\* A walk starts above all edges of its chain and leaves out none.
LEMMA WalkIsExact ==
  ASSUME BuildInv, ExactInv, PairFound \/ Walk
  PROVE  ExactInv'
<1>1. /\ raw' = raw /\ hash' = hash /\ table' = table /\ nextEdge' = nextEdge /\ e' = e /\ g' = g
      /\ pc \in StrictLabels /\ pc' = "walk" /\ pc \in {"pairProbe", "walk"}
  BY DEF PairFound, Walk, callVars, StrictLabels
<1>2. /\ RawInv /\ StrictInv /\ StoredInv /\ WalkInv
      /\ TableSize(raw.m) \in Nat \ {0} /\ raw.m \in Nat
  BY <1>1, ExactFacts
<1>3. Inserted = raw.m /\ Inserted' = raw.m
  BY <1>1 DEF Inserted
<1>4. StoredInv'
  BY <1>1, <1>2, <1>3, StoredKept
<1>5. e < raw.m
  BY <1>1, <1>2 DEF StrictInv
<1>6. Key = Reversed(Ends(e)) /\ Key # NoKey
  BY <1>1, <1>5, KeyFacts
<1>7. ASSUME NEW a \in Indices(raw.m), Ends(a) = Reversed(Ends(e)), a > cand'
      PROVE  IsBusy(a)
  <2>1. CASE PairFound
    <3>1. cand' = table[slot].head /\ table[slot].key = Key /\ slot \in Indices(TableSize(raw.m))
      BY <1>2, <2>1 DEF PairFound, StrictInv
    <3>2. NoneBetween(table[slot].head, Key, raw.m)
      BY <1>2, <1>3, <1>6, <3>1 DEF StoredInv
    <3> QED
      BY <1>6, <1>7, <3>1, <3>2 DEF NoneBetween
  <2>2. CASE Walk
    <3>1. cand' = nextEdge[cand] /\ cand >= 0 /\ IsBusy(cand) /\ pc = "walk"
      BY <2>2 DEF Walk
    <3>2. cand # -1
      BY <3>1
    <3>3. cand \in Indices(raw.m) /\ Ends(cand) = Reversed(Ends(e))
      BY <1>2, <3>1, <3>2 DEF StrictInv
    <3>4. NoneBetween(nextEdge[cand], Ends(cand), cand)
      BY <1>2, <1>3, <3>3 DEF StoredInv
    <3>5. CASE a > cand
      BY <1>2, <1>7, <3>1, <3>5 DEF WalkInv
    <3>6. CASE a = cand
      BY <3>1, <3>6
    <3>7. CASE ~(a > cand) /\ a # cand
      <4>1. a \in Indices(cand)
        BY <1>2, <3>3, <3>7 DEF Indices
      <4> QED
        BY <1>7, <3>1, <3>3, <3>4, <4>1 DEF NoneBetween
    <3> QED
      BY <3>5, <3>6, <3>7
  <2> QED
    BY <2>1, <2>2
<1>8. WalkInv'
  <2>1. \A a : Ends(a)' = Ends(a) /\ IsBusy(a)' = IsBusy(a)
    BY <1>1 DEF Ends, IsBusy
  <2>2. Reversed(Ends(e))' = Reversed(Ends(e))
    BY <1>1 DEF Ends, Reversed
  <2> QED
    BY <1>1, <1>7, <2>1, <2>2 DEF WalkInv
<1> QED
  BY <1>1, <1>4, <1>8 DEF ExactInv, ProbeInv


-------------------------------------------------------------------------------
(* Which files can be paired.                                              *)

LEMMA MirrorCount ==
  ASSUME NEW S, NEW T, IsFiniteSet(T), NEW r,
         \A a \in S : r[a] \in T /\ r[r[a]] = a
  PROVE  IsFiniteSet(S) /\ Cardinality(S) <= Cardinality(T)
<1> DEFINE f == [a \in S |-> r[a]]
<1>1. f \in [S -> T]
  OBVIOUS
<1>2. \A a, b \in S : f[a] = f[b] => a = b
  OBVIOUS
<1>3. f \in Injection(S, T)
  BY <1>1, <1>2 DEF Injection, IsInjective
<1> HIDE DEF f
<1> QED
  BY <1>3, FS_Injection

\* What is divided into pairs is even.
LEMMA EvenPairs ==
  ASSUME NEW S \in SUBSET Nat, IsFiniteSet(S), NEW r,
         \A a \in S : r[a] \in S /\ r[a] # a /\ r[r[a]] = a
  PROVE  Cardinality(S) % 2 = 0
<1> DEFINE Low  == {a \in S : a < r[a]}
           High == {a \in S : r[a] < a}
<1>1. IsFiniteSet(Low) /\ IsFiniteSet(High)
  BY FS_Subset
<1>2. S = Low \cup High /\ Low \cap High = {}
  <2>1. \A a \in S : a \in Nat /\ r[a] \in Nat
    OBVIOUS
  <2>2. \A a \in S : (a < r[a] \/ r[a] < a) /\ ~(a < r[a] /\ r[a] < a)
    BY <2>1
  <2> QED
    BY <2>2
<1>3. \A a \in Low : r[a] \in High /\ r[r[a]] = a
  OBVIOUS
<1>4. \A a \in High : r[a] \in Low /\ r[r[a]] = a
  OBVIOUS
<1> HIDE DEF Low, High
<1>5. Cardinality(Low) <= Cardinality(High) /\ Cardinality(High) <= Cardinality(Low)
  <2>1. Cardinality(Low) <= Cardinality(High)
    BY ONLY <1>1, <1>3, MirrorCount
  <2>2. Cardinality(High) <= Cardinality(Low)
    BY ONLY <1>1, <1>4, MirrorCount
  <2> QED
    BY <2>1, <2>2
<1>6. PICK c \in Nat : Cardinality(Low) = c /\ Cardinality(High) = c
  BY <1>1, <1>5, FS_CardinalityType
<1>7. Cardinality(Low \cap High) = 0
  BY <1>2, FS_EmptySet
<1>8. Cardinality(S) = c + c - 0
  BY <1>1, <1>2, <1>6, <1>7, FS_Union
<1>9. Cardinality(S) = 2 * c + 0 /\ 0 \in 0 .. (2 - 1) /\ Cardinality(S) \in Int /\ 2 \in Nat \ {0}
  BY <1>8
<1> QED
  BY ONLY <1>9, c \in Nat, Remainder

\* The edges of the file from x to y.
FromTo(x, y) == {a \in Indices(raw.m) : TailOf(raw.ver, raw.n, a) = x /\ raw.edges[a] = y}

LEMMA BalancedFacts ==
  /\ IsBalanced <=>
       \A x, y \in Indices(raw.n) :
         /\ Cardinality(FromTo(x, y)) = Cardinality(FromTo(y, x))
         /\ Cardinality(FromTo(x, x)) % 2 = 0
  /\ \A x, y : FromTo(x, y) \subseteq Indices(raw.m)
BY DEF IsBalanced, FromTo

LEMMA FromToIsFinite ==
  ASSUME raw.m \in Nat, NEW x, NEW y
  PROVE  FromTo(x, y) \in SUBSET Nat /\ IsFiniteSet(FromTo(x, y))
<1>1. IsFiniteSet(Indices(raw.m)) /\ Indices(raw.m) \subseteq Nat
  BY FS_Interval DEF Indices
<1>2. FromTo(x, y) \in SUBSET Indices(raw.m)
  BY DEF FromTo
<1> QED
  BY <1>1, <1>2, FS_Subset

\* The pair of an edge from x to y is an edge from y to x.
LEMMA PairsFacts ==
  ASSUME IsStrictGraph, NEW x, NEW y, NEW a \in FromTo(x, y), g.rev[a] # -1
  PROVE  /\ a \in Indices(raw.m)
         /\ g.rev[a] # a /\ g.rev[g.rev[a]] = a /\ g.rev[a] \in FromTo(y, x)
<1>1. a \in Indices(raw.m) /\ Ends(a) = <<x, y>>
  BY DEF FromTo, Ends
<1>2. /\ g.rev[a] \in Indices(raw.m)
      /\ g.rev[a] # a /\ g.rev[g.rev[a]] = a
      /\ Ends(g.rev[a]) = Reversed(Ends(a))
  BY <1>1 DEF IsStrictGraph
<1>3. Ends(g.rev[a]) = <<y, x>>
  BY <1>1, <1>2 DEF Reversed
<1> QED
  BY <1>1, <1>2, <1>3 DEF FromTo, Ends

\* Where every edge has its pair, the file is balanced.
LEMMA AllPairedIsBalanced ==
  ASSUME IsStrictGraph, raw.m \in Nat, \A a \in Indices(raw.m) : g.rev[a] # -1
  PROVE  IsBalanced
<1>1. ASSUME NEW x, NEW y, NEW a \in FromTo(x, y)
      PROVE  g.rev[a] # a /\ g.rev[g.rev[a]] = a /\ g.rev[a] \in FromTo(y, x)
  <2>1. a \in Indices(raw.m)
    BY DEF FromTo
  <2> QED
    BY <2>1, PairsFacts
<1>2. ASSUME NEW x, NEW y
      PROVE  Cardinality(FromTo(x, y)) <= Cardinality(FromTo(y, x))
  <2>1. PICK r, S, T : r = g.rev /\ S = FromTo(x, y) /\ T = FromTo(y, x)
    OBVIOUS
  <2>2. IsFiniteSet(T) /\ \A a \in S : r[a] \in T /\ r[r[a]] = a
    BY <1>1, <2>1, FromToIsFinite
  <2>3. Cardinality(S) <= Cardinality(T)
    BY ONLY <2>2, MirrorCount
  <2> QED
    BY <2>1, <2>3
<1>3. ASSUME NEW x, NEW y
      PROVE  Cardinality(FromTo(x, y)) \in Nat
  BY FromToIsFinite, FS_CardinalityType
<1>4. ASSUME NEW x
      PROVE  Cardinality(FromTo(x, x)) % 2 = 0
  <2>1. PICK r, S : r = g.rev /\ S = FromTo(x, x)
    OBVIOUS
  <2>2. /\ S \in SUBSET Nat /\ IsFiniteSet(S)
        /\ \A a \in S : r[a] \in S /\ r[a] # a /\ r[r[a]] = a
    BY <1>1, <2>1, FromToIsFinite
  <2>3. Cardinality(S) % 2 = 0
    BY ONLY <2>2, EvenPairs
  <2> QED
    BY <2>1, <2>3
<1>5. ASSUME NEW x, NEW y
      PROVE  Cardinality(FromTo(x, y)) = Cardinality(FromTo(y, x))
  <2>1. /\ Cardinality(FromTo(x, y)) \in Nat /\ Cardinality(FromTo(y, x)) \in Nat
        /\ Cardinality(FromTo(x, y)) <= Cardinality(FromTo(y, x))
        /\ Cardinality(FromTo(y, x)) <= Cardinality(FromTo(x, y))
    BY <1>2, <1>3
  <2> QED
    BY ONLY <2>1
<1> QED
  BY <1>4, <1>5, BalancedFacts

\* An edge whose opposite edges are all taken has no pair in any pairing.
LEMMA NoneFreeIsUnbalanced ==
  ASSUME BuildInv, RawInv, IsStrictGraph, raw.m \in Nat, e \in Indices(raw.m), g.rev[e] = -1,
         \A a \in Indices(raw.m) : Ends(a) = Reversed(Ends(e)) => IsBusy(a)
  PROVE  ~IsBalanced
<1>1. PICK x, y : x = Ends(e)[1] /\ y = Ends(e)[2]
  OBVIOUS
<1>2. Ends(e) = <<x, y>> /\ Reversed(Ends(e)) = <<y, x>> /\ e \in FromTo(x, y)
      /\ x \in Indices(raw.n) /\ y \in Indices(raw.n)
  BY <1>1, EndsFacts DEF Ends, Reversed, FromTo
<1>3. PICK r, S, T : r = g.rev /\ S = FromTo(y, x) \ {e} /\ T = FromTo(x, y) \ {e}
  OBVIOUS
<1>4. ASSUME NEW a \in S
      PROVE  r[a] \in T /\ r[a] # a /\ r[r[a]] = a
  <2>1. a \in FromTo(y, x) /\ a # e
    BY <1>3
  <2>2. a \in Indices(raw.m) /\ Ends(a) = Reversed(Ends(e))
    BY <1>2, <2>1 DEF FromTo, Ends
  <2>3. g.rev[a] # -1
    BY <2>1, <2>2 DEF IsBusy
  <2>4. g.rev[a] # a /\ g.rev[g.rev[a]] = a /\ g.rev[a] \in FromTo(x, y)
    BY <2>1, <2>3, PairsFacts
  <2>5. a # -1
    BY <2>2 DEF Indices
  <2>6. g.rev[a] # e
    BY <2>4, <2>5
  <2> QED
    BY <1>3, <2>4, <2>6
<1>5. /\ FromTo(x, y) \in SUBSET Nat /\ IsFiniteSet(FromTo(x, y))
      /\ FromTo(y, x) \in SUBSET Nat /\ IsFiniteSet(FromTo(y, x))
  BY FromToIsFinite
<1>6. PICK c, d \in Nat : c = Cardinality(FromTo(x, y)) /\ d = Cardinality(FromTo(y, x))
  BY <1>5, FS_CardinalityType
<1>7. IsFiniteSet(T) /\ Cardinality(T) = c - 1
  BY <1>2, <1>3, <1>5, <1>6, FS_RemoveElement
<1>8. CASE x = y
  <2>1. S = T /\ S \in SUBSET Nat
    BY <1>3, <1>5, <1>8
  <2>2. (c - 1) % 2 = 0
    <3>1. \A a \in S : r[a] \in S /\ r[a] # a /\ r[r[a]] = a
      BY <1>4, <2>1
    <3>2. Cardinality(S) % 2 = 0
      BY ONLY <1>7, <2>1, <3>1, EvenPairs
    <3> QED
      BY <1>7, <2>1, <3>2
  <2>3. c % 2 # 0
    BY <2>2
  <2> QED
    BY <1>2, <1>6, <1>8, <2>3, BalancedFacts
<1>9. CASE x # y
  <2>1. S = FromTo(y, x)
    BY <1>2, <1>3, <1>9 DEF FromTo
  <2>2. Cardinality(S) <= Cardinality(T)
    BY ONLY <1>4, <1>7, MirrorCount
  <2>3. d # c
    BY <1>6, <1>7, <2>1, <2>2
  <2> QED
    BY <1>2, <1>6, <2>3, BalancedFacts
<1> QED
  BY <1>8, <1>9


\* Both ways to give up mean that no edge is left for e.
LEMMA MissingIsExact ==
  ASSUME BuildInv, ExactInv, PairMissing \/ WalkMissing
  PROVE  ~IsBalanced
<1>1. pc \in StrictLabels /\ pc \in {"pairProbe", "walk"}
  BY DEF PairMissing, WalkMissing, StrictLabels
<1>2. PICK N, k, K, h : N = TableSize(raw.m) /\ k = Key /\ K = Keys /\ h = hash[Key]
  OBVIOUS
<1>3. /\ RawInv /\ StrictInv /\ StoredInv /\ ProbeInv /\ WalkInv
      /\ raw.m \in Nat
      /\ N \in Nat \ {0}
      /\ \A i \in Indices(N) : K[i] = table[i].key
  BY <1>1, <1>2, ExactFacts
<1>4. e < raw.m /\ IsStrictGraph /\ g.rev[e] = -1
  BY <1>1, <1>3 DEF StrictInv
<1>5. e \in Indices(raw.m) /\ k = Reversed(Ends(e)) /\ k # NoKey
  BY <1>1, <1>2, <1>4, KeyFacts
<1>6. \A a \in Indices(raw.m) : Ends(a) = Reversed(Ends(e)) => IsBusy(a)
  <2> SUFFICES ASSUME NEW a \in Indices(raw.m), Ends(a) = Reversed(Ends(e)) PROVE IsBusy(a)
    OBVIOUS
  <2>1. CASE PairMissing
    <3>1. pc = "pairProbe" /\ table[slot].key = NoKey /\ slot \in Indices(N)
      BY <1>2, <1>3, <2>1 DEF PairMissing, IsTaken, StrictInv
    <3>2. Inserted = raw.m
      BY <3>1 DEF Inserted
    <3>3. PICK i \in Indices(N) : table[i].key = k
      BY <1>2, <1>3, <1>5, <3>2 DEF StoredInv
    <3>4. Reaches(K, N, h, k, i)
      BY <1>2, <1>3, <1>5, <3>3 DEF StoredInv, IsReached
    <3>5. Reaches(K, N, h, k, slot)
      BY <1>2, <1>3, <3>1 DEF ProbeInv, IsReached
    <3>6. h \in Nat
      BY <1>2, <1>3, <1>5, EndsFacts
    <3>7. i = slot
      BY <1>3, <3>1, <3>3, <3>4, <3>5, <3>6, OneBucket
    <3> QED
      BY <1>5, <3>1, <3>3, <3>7
  <2>2. CASE WalkMissing
    <3>1. pc = "walk" /\ cand < 0
      BY <2>2 DEF WalkMissing
    <3>2. cand \in Indices(raw.m) \cup {-1}
      BY <1>3, <3>1 DEF StrictInv
    <3>3. a > cand
      BY <1>3, <3>1, <3>2 DEF Indices
    <3> QED
      BY <1>3, <3>1, <3>3 DEF WalkInv
  <2> QED
    BY <2>1, <2>2
<1> QED
  BY <1>3, <1>4, <1>5, <1>6, NoneFreeIsUnbalanced

LEMMA ExactStutter ==
  ASSUME ExactInv, UNCHANGED vars
  PROVE  ExactInv'
<1>1. /\ hash' = hash /\ pc' = pc /\ raw' = raw /\ g' = g
      /\ e' = e /\ slot' = slot /\ table' = table /\ nextEdge' = nextEdge /\ cand' = cand
  BY DEF vars
<1>2. StoredInv => StoredInv'
  <2>1. Inserted' = Inserted
    BY <1>1 DEF Inserted
  <2> QED
    BY <1>1, <2>1, StoredKept
<1>3. ProbeInv' = ProbeInv
  BY <1>1 DEF ProbeInv, IsReached, Keys, Key
<1>4. WalkInv' = WalkInv
  BY <1>1 DEF WalkInv, Ends, Reversed, IsBusy
<1> QED
  BY <1>1, <1>2, <1>3, <1>4 DEF ExactInv

\* The strict build succeeds if and only if the edges of the file can be paired at all:
\* taking the first free edge of a chain is never a mistake, no probe stops before the
\* key it looks for, and no walk leaves out an edge, however keys collide.
THEOREM BuildStrictIsExact == Spec => StrictIsExact
<1>1. Init => ExactInv
  BY DEF Init, ExactInv, StrictLabels
<1>2. ASSUME BuildInv, ExactInv, [Next]_vars PROVE ExactInv'
  <2>1. CASE UNCHANGED vars
    BY <1>2, <2>1, ExactStutter
  <2>2. CASE Strict
    <3>1. CASE PairMissing \/ WalkMissing \/ PairEnd
      BY <3>1 DEF PairMissing, WalkMissing, Missing, PairEnd, ExactInv, StrictLabels
    <3> QED
      BY <1>2, <2>2, <3>1, StartIsExact, ProbeIsExact, InsertIsExact, MoveIsExact, WalkIsExact
         DEF Strict
  <2>3. CASE ReadFile \/ Die \/ ResidualBuild
    BY <2>3 DEF ReadFile, Die, ResidualBuild, TooManyEdges, ResidualStart, Place, PlaceEnd,
       ExactInv, StrictLabels
  <2> QED
    BY <1>2, <2>1, <2>2, <2>3 DEF Next
<1>3. ASSUME BuildInv, ExactInv, [Next]_vars, pc \in StrictLabels, pc' \notin StrictLabels
      PROVE  pc' = "done" <=> IsBalanced
  <2>1. PairMissing \/ WalkMissing \/ PairEnd
    BY <1>3 DEF Next, vars, Strict, ResidualBuild, ReadFile, Die, StrictStart, InsertStart, ProbeNext,
       Insert, InsertEnd, PairSkip, PairStart, PairFound, Walk, Pair, TooManyEdges, ResidualStart,
       Place, PlaceEnd, StrictLabels
  <2>2. CASE PairMissing \/ WalkMissing
    <3>1. pc' # "done"
      BY <2>2 DEF PairMissing, WalkMissing, Missing
    <3> QED
      BY <1>3, <2>2, <3>1, MissingIsExact
  <2>3. CASE PairEnd
    <3>1. pc = "pair" /\ pc' = "done" /\ e = raw.m
      BY <2>3 DEF PairEnd
    <3>2. StrictInv /\ raw.m \in Nat
      BY <1>3, StrictFacts
    <3>3. IsStrictGraph /\ \A a \in Indices(raw.m) : g.rev[a] # -1
      BY <3>1, <3>2 DEF StrictInv
    <3> QED
      BY <3>1, <3>2, <3>3, AllPairedIsBalanced
  <2> QED
    BY <2>1, <2>2, <2>3
<1> QED
  BY <1>1, <1>2, <1>3, BuildInvariant, PTL DEF Spec, StrictIsExact

===============================================================================
