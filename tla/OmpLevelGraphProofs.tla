------------------------- MODULE OmpLevelGraphProofs --------------------------
(***************************************************************************)
(* What holds of every call of buildLevelGraph of tidalFlowOpenMP.c: on    *)
(* every network, with any number of threads and under every interleaving. *)
(***************************************************************************)
EXTENDS OmpLevelGraph, FlowNetworkProofs, FiniteSetTheorems, TLAPS

-------------------------------------------------------------------------------
(* The inductive invariant behind the three safety properties.             *)

Labels == {"search", "prune", "reach", "compact", "return"}

TypeOK ==
  /\ g \in Cases
  /\ flow = [a \in Edges(g) |-> 0]
  /\ pc \in Labels
  /\ dist \in [Nodes(g) -> Nat \cup {-1}]
  /\ global \in [Nodes(g) -> Int]
  /\ globalSize \in Nat /\ newSize \in Nat
  /\ levelEdges \in [Edges(g) -> Edges(g) \cup {-1}]
  /\ levelEdgeCount \in Nat /\ levelEdgeBase \in Nat
  /\ level \in Nat
  /\ levelVer \in [0 .. g.nodeCount -> Nat]
  /\ untaken \in SUBSET Int
  /\ at \in [Threads -> {"loop", "scan", "claim", "reread", "barrier", "joined"}]
  /\ node \in [Threads -> Nodes(g)]
  /\ edge \in [Threads -> Nat]
  /\ localNodes \in [Threads -> Seq(Nodes(g))]
  /\ localLevelEdges \in [Threads -> Seq(Edges(g))]
  /\ foundNodes \in [Threads -> Nat] /\ foundLevelEdges \in [Threads -> Nat]
  /\ reach \in SUBSET Nodes(g)
  /\ lvl \in Nat
  /\ todo \in SUBSET Int
  /\ compactLevelEdges \in [Edges(g) -> Edges(g) \cup {-1}]
  /\ writeCount \in Nat
  /\ result \in {-1, 0, 1}

Elements(s) == {s[i] : i \in 1 .. Len(s)}
Distinct(s) == \A i, j \in 1 .. Len(s) : s[i] = s[j] => i = j

\* The sequences of the threads have no element twice, nor one in common.
Disjoint(locals) ==
  /\ \A t \in Threads : Distinct(locals[t])
  /\ \A s, t \in Threads : s # t => Elements(locals[s]) \cap Elements(locals[t]) = {}

All(locals) == UNION {Elements(locals[t]) : t \in Threads}

\* The residual edges from the nodes labelled k to those labelled k + 1
EdgesOf(k) ==
  {a \in ResidualEdges(g, flow) : dist[g.src[a]] = k /\ dist[g.dst[a]] = k + 1}

\* Positions i .. j - 1 of array[] hold the members of S, each once.
Holds(array, i, j, S) ==
  /\ {array[k] : k \in i .. (j - 1)} = S
  /\ \A k, m \in i .. (j - 1) : array[k] = array[m] => k = m

\* Labels descend to the source in steps of one, and no level is empty.
LabelInv ==
  /\ \A x \in Nodes(g) :
       /\ dist[x] = 0 <=> x = g.source
       /\ dist[x] > 0 => \E a \in ResidualEdges(g, flow) :
                           g.dst[a] = x /\ dist[g.src[a]] = dist[x] - 1
       /\ dist[x] <= (IF pc = "search" THEN level + 1 ELSE level)
  /\ dist[g.sink] \in {-1, IF pc = "search" THEN level + 1 ELSE level}
  /\ pc \in {"prune", "reach", "compact"} => dist[g.sink] = level
  /\ \A k \in 0 .. level : (\E x \in Nodes(g) : dist[x] = k) \/ (pc = "return" /\ k = level)
  /\ \A a \in ResidualEdges(g, flow) :
       dist[g.src[a]] \in 0 .. (level - 1) =>
         dist[g.dst[a]] \in 0 .. (dist[g.src[a]] + 1)

\* The levels that are finished, in levelEdges[] and indexed by ver.
LevelsDone(ver) ==
  /\ ver[0] = 0
  /\ \A k \in 0 .. level : ver[k] \in Nat
  /\ \A k \in 0 .. (level - 1) :
       /\ ver[k] <= ver[k + 1] /\ ver[k + 1] <= ver[level]
       /\ Holds(levelEdges, ver[k], ver[k + 1], EdgesOf(k))

OldVer == IF pc = "compact" \/ (pc = "return" /\ result = 1) THEN global ELSE levelVer

LevelsInv == LevelsDone(OldVer) /\ OldVer[level] <= g.edgeCount

Active(t) == at[t] \in {"scan", "claim", "reread"}
Joining   == \E t \in Threads : at[t] = "joined"
Pending   == {global[i] : i \in untaken}

FrontierInv ==
  /\ globalSize \in 1 .. g.nodeCount
  /\ untaken \subseteq 0 .. (globalSize - 1)
  /\ \A i \in 0 .. (globalSize - 1) : global[i] \in Nodes(g)
  /\ ~Joining => Holds(global, 0, globalSize, {x \in Nodes(g) : dist[x] = level})
  /\ levelVer[level] = levelEdgeBase

ScanInv ==
  \A t \in Threads : Active(t) =>
    /\ dist[node[t]] = level /\ node[t] \notin Pending
    /\ edge[t] \in g.ver[node[t]] .. g.ver[node[t] + 1]
    /\ \A s \in Threads : Active(s) /\ s # t => node[s] # node[t]
    /\ at[t] # "scan" => edge[t] < g.ver[node[t] + 1] /\ Residual(g, flow, edge[t]) > 0
    /\ at[t] = "reread" => dist[Target(t)] # -1

ClaimInv ==
  /\ Disjoint(localNodes)
  /\ All(localNodes) = {x \in Nodes(g) : dist[x] = level + 1}

\* a has not been looked at.
Ahead(a) ==
  \/ g.src[a] \in Pending
  \/ \E t \in Threads : Active(t) /\ node[t] = g.src[a] /\ edge[t] <= a

RecordInv ==
  /\ Disjoint(localLevelEdges)
  /\ \A a \in All(localLevelEdges) : a \in EdgesOf(level) /\ ~Ahead(a)
  /\ \A a \in ResidualEdges(g, flow) :
       dist[g.src[a]] = level /\ ~Ahead(a) =>
         /\ dist[g.dst[a]] \in 0 .. (level + 1)
         /\ dist[g.dst[a]] = level + 1 => a \in All(localLevelEdges)

\* Positions i .. of array[] hold the sequence s.
Copied(array, i, s) == \A k \in 1 .. Len(s) : array[i + k - 1] = s[k]

CopyInv ==
  /\ \A t \in Threads : at[t] \in {"barrier", "joined"} =>
       /\ foundNodes[t] = Len(localNodes[t])
       /\ foundLevelEdges[t] = Len(localLevelEdges[t])
  /\ untaken # {} => \E t \in Threads : IsInLoop(t)
  /\ Joining => HavePublished
  /\ \A t \in Threads : at[t] = "joined" =>
       /\ Copied(global, Before(foundNodes, t), localNodes[t])
       /\ Copied(levelEdges, Base + Before(foundLevelEdges, t), localLevelEdges[t])
  /\ IF at[NumThreads - 1] = "joined"
     THEN /\ newSize = Before(foundNodes, NumThreads)
          /\ levelEdgeCount = Base + Before(foundLevelEdges, NumThreads)
     ELSE levelEdgeCount = Base

SearchInv ==
  pc = "search" => /\ dist[g.sink] = -1 \/ dist[g.sink] = level + 1
                   /\ FrontierInv /\ ScanInv /\ ClaimInv /\ RecordInv /\ CopyInv

Live == CoReach(g, LevelEdges(g, flow))

\* todo holds what is left of level lvl.
PruneInv ==
  /\ pc \in {"reach", "compact"} =>
       /\ lvl \in 0 .. (level - 1)
       /\ todo \subseteq Positions(OldVer, lvl)
       /\ g.sink \in reach /\ reach \subseteq Live
  /\ pc = "reach" =>
       \A a \in LevelEdges(g, flow) :
         /\ dist[g.src[a]] >= lvl
         /\ \A i \in todo : levelEdges[i] # a
         /\ g.dst[a] \in reach
         => g.src[a] \in reach
  /\ pc = "compact" => Live \subseteq reach

\* The levels that are compacted, and what is compacted of level lvl.
CompactInv ==
  /\ pc = "compact" =>
       /\ levelVer[0] = 0
       /\ levelVer[lvl] <= writeCount
       /\ \A k \in (lvl + 1) .. level : levelVer[k] = global[k]
       /\ \A k \in 0 .. (lvl - 1) :
            /\ levelVer[k] <= levelVer[k + 1] /\ levelVer[k + 1] <= levelVer[lvl]
            /\ Holds(compactLevelEdges, levelVer[k], levelVer[k + 1],
                     {a \in ShortestPathEdges(g, flow) : dist[g.src[a]] = k})
       /\ Holds(compactLevelEdges, levelVer[lvl], writeCount,
                {a \in ShortestPathEdges(g, flow) :
                   dist[g.src[a]] = lvl /\ \A i \in todo : levelEdges[i] # a})
  /\ pc = "return" /\ result = 1 =>
       /\ levelVer[0] = 0
       /\ \A k \in 0 .. (level - 1) :
            /\ levelVer[k] <= levelVer[k + 1]
            /\ Holds(compactLevelEdges, levelVer[k], levelVer[k + 1],
                     {a \in ShortestPathEdges(g, flow) : dist[g.src[a]] = k})

\* What the search leaves to the loops after it, and what they return.
ResultInv ==
  /\ pc # "search" =>
       /\ globalSize <= g.nodeCount /\ levelEdgeCount <= g.edgeCount
       /\ \A t \in Threads : localNodes[t] = <<>> /\ localLevelEdges[t] = <<>>
  /\ pc # "return" => result = -1
  /\ pc = "return" =>
       /\ result = (IF dist[g.sink] = -1 THEN 0 ELSE 1)
       /\ result = 0 => \A x \in Nodes(g) : dist[x] # level

BuilderInv ==
  /\ TypeOK
  /\ LabelInv
  /\ LevelsInv
  /\ SearchInv
  /\ PruneInv
  /\ CompactInv
  /\ ResultInv

-------------------------------------------------------------------------------
(* Sequences of finds and the places they are copied to.                   *)

\* Adding a new element to a sequence adds it to the set of its elements.
LEMMA AppendFacts ==
  ASSUME NEW S, NEW s \in Seq(S), NEW x \in S
  PROVE  /\ Append(s, x) \in Seq(S)
         /\ Len(Append(s, x)) = Len(s) + 1
         /\ Elements(Append(s, x)) = Elements(s) \cup {x}
         /\ Distinct(s) /\ x \notin Elements(s) => Distinct(Append(s, x))
<1>1. /\ Append(s, x) \in Seq(S) /\ Len(Append(s, x)) = Len(s) + 1 /\ Len(s) \in Nat
      /\ \A i \in 1 .. Len(s) : Append(s, x)[i] = s[i]
      /\ Append(s, x)[Len(s) + 1] = x
  OBVIOUS
<1>2. Elements(Append(s, x)) = Elements(s) \cup {x}
  <2>1. 1 .. (Len(s) + 1) = (1 .. Len(s)) \cup {Len(s) + 1}
    BY <1>1
  <2>2. ASSUME NEW y PROVE y \in Elements(Append(s, x)) <=> y \in Elements(s) \cup {x}
    <3>1. y \in Elements(Append(s, x)) <=> \E i \in 1 .. (Len(s) + 1) : y = Append(s, x)[i]
      BY <1>1 DEF Elements
    <3>2. y \in Elements(s) <=> \E i \in 1 .. Len(s) : y = s[i]
      BY DEF Elements
    <3> QED
      BY <1>1, <2>1, <3>1, <3>2
  <2> QED
    BY <2>2
<1>3. ASSUME Distinct(s), x \notin Elements(s) PROVE Distinct(Append(s, x))
  BY <1>1, <1>3 DEF Distinct, Elements
<1> QED
  BY <1>1, <1>2, <1>3

\* What the threads before t have found, and whose find a position holds.
LEMMA PrefixSums ==
  ASSUME NEW f, \A t \in Threads : f[t] \in Nat
  PROVE  /\ Before(f, 0) = 0 /\ Before(f, NumThreads) \in Nat
         /\ \A t \in Threads : /\ Before(f, t) \in Nat
                               /\ Before(f, t + 1) = Before(f, t) + f[t]
                               /\ Before(f, t) + f[t] <= Before(f, NumThreads)
         /\ \A s, t \in Threads : s < t => Before(f, s) + f[s] <= Before(f, t)
         /\ \A i \in 0 .. (Before(f, NumThreads) - 1) :
              \E t \in Threads : Before(f, t) <= i /\ i < Before(f, t) + f[t]
<1>1. NumThreads \in Nat \ {0}
  BY ThreadsAssumption
<1>2. ASSUME NEW k \in 0 .. NumThreads
      PROVE  /\ IsFiniteSet(0 .. (k - 1)) /\ 0 .. (k - 1) \subseteq Threads
             /\ \A t \in 0 .. (k - 1) : f[t] \in Nat /\ f[t] \in Int
  BY <1>1, FS_Interval DEF Threads
<1>3. ASSUME NEW k \in 0 .. NumThreads PROVE Before(f, k) \in Nat
  BY <1>2, SumOfNaturals DEF Before
<1>4. Before(f, 0) = 0
  <2>1. 0 .. (0 - 1) = {}
    OBVIOUS
  <2> QED
    BY <2>1, SumOfNone DEF Before
<1>5. ASSUME NEW t \in Threads PROVE Before(f, t + 1) = Before(f, t) + f[t]
  <2>1. t \in 0 .. NumThreads /\ t + 1 \in 0 .. NumThreads /\ t \in Int
    BY <1>1 DEF Threads
  <2>2. 0 .. ((t + 1) - 1) = (0 .. (t - 1)) \cup {t} /\ t \notin 0 .. (t - 1)
    BY <2>1
  <2>3. /\ IsFiniteSet(0 .. (t - 1))
        /\ \A s \in 0 .. ((t + 1) - 1) : f[s] \in Int
    BY <1>2, <2>1
  <2>4. SumOver(f, (0 .. (t - 1)) \cup {t}) = f[t] + SumOver(f, 0 .. (t - 1))
    BY <2>2, <2>3, SumInsert
  <2>5. Before(f, t) \in Nat /\ f[t] \in Nat
    BY <1>3, <2>1
  <2>6. Before(f, t + 1) = SumOver(f, (0 .. (t - 1)) \cup {t})
    BY <2>2 DEF Before
  <2>7. Before(f, t) = SumOver(f, 0 .. (t - 1))
    BY DEF Before
  <2> QED
    BY <2>4, <2>5, <2>6, <2>7
<1>6. ASSUME NEW s \in Threads, NEW k \in 0 .. NumThreads, s < k
      PROVE  Before(f, s) + f[s] <= Before(f, k)
  <2>1. s + 1 \in 0 .. NumThreads /\ s \in 0 .. NumThreads /\ s \in Int /\ k \in Int
    BY <1>1 DEF Threads
  <2> DEFINE P == 0 .. ((s + 1) - 1)
             Q == (s + 1) .. (k - 1)
  <2>2. 0 .. (k - 1) = P \cup Q /\ P \cap Q = {}
    BY <1>6, <2>1
  <2>3. IsFiniteSet(P) /\ \A r \in P : f[r] \in Int
    BY <1>2, <2>1
  <2>4. IsFiniteSet(Q)
    BY <2>1, FS_Interval
  <2>5. \A r \in Q : f[r] \in Nat /\ f[r] \in Int
    BY <1>2, <2>1, <2>2
  <2>6. Before(f, s + 1) = SumOver(f, P)
    BY DEF Before
  <2> HIDE DEF P, Q
  <2>7. SumOver(f, P \cup Q) = SumOver(f, P) + SumOver(f, Q)
    BY <2>2, <2>3, <2>4, <2>5, SumUnion
  <2>8. SumOver(f, Q) \in Nat
    BY <2>4, <2>5, SumOfNaturals
  <2>9. Before(f, s + 1) \in Nat /\ Before(f, s) + f[s] = Before(f, s + 1)
    BY <1>3, <1>5, <2>1
  <2>10. Before(f, k) = SumOver(f, P \cup Q)
    BY <2>2 DEF Before
  <2> QED
    BY <2>6, <2>7, <2>8, <2>9, <2>10
<1>7. ASSUME NEW i \in 0 .. (Before(f, NumThreads) - 1)
      PROVE  \E t \in Threads : Before(f, t) <= i /\ i < Before(f, t) + f[t]
  <2> DEFINE A == {k \in 0 .. NumThreads : i < Before(f, k)}
  <2>1. NumThreads \in A /\ A \subseteq Nat /\ A # {} /\ 0 \notin A /\ i \in Nat
    BY <1>1, <1>3, <1>4
  <2> HIDE DEF A
  <2>2. PICK n \in A : \A m \in A : ~(m < n)
    BY <2>1, LeastNumber
  <2>3. n \in 1 .. NumThreads /\ i < Before(f, n)
    BY <2>1, <2>2 DEF A
  <2>4. n - 1 \in Threads /\ n - 1 \in 0 .. NumThreads /\ (n - 1) + 1 = n
    BY <1>1, <2>3 DEF Threads
  <2>5. ~(i < Before(f, n - 1))
    BY <2>2, <2>3, <2>4 DEF A
  <2>6. Before(f, n) = Before(f, n - 1) + f[n - 1]
    BY <1>5, <2>4
  <2>7. Before(f, n - 1) \in Nat
    BY <1>3, <2>4
  <2> QED
    BY <2>1, <2>3, <2>4, <2>5, <2>6, <2>7
<1>8. \A t \in Threads : t \in 0 .. NumThreads /\ t < NumThreads
  BY <1>1 DEF Threads
<1>9. NumThreads \in 0 .. NumThreads
  BY <1>1
<1> QED
  BY <1>3, <1>4, <1>5, <1>6, <1>7, <1>8, <1>9

\* Once all have copied, the finds of all threads lie behind one another, each once.
LEMMA Gathered ==
  ASSUME NEW W, NEW seqs, \A t \in Threads : seqs[t] \in Seq(W), Disjoint(seqs),
         NEW f, \A t \in Threads : f[t] = Len(seqs[t]),
         NEW b \in Nat, NEW array,
         \A t \in Threads : Copied(array, b + Before(f, t), seqs[t])
  PROVE  Holds(array, b, b + Before(f, NumThreads), All(seqs))
<1> DEFINE total == Before(f, NumThreads)
<1>1. /\ \A t \in Threads : f[t] \in Nat
      /\ NumThreads \in Nat /\ \A t \in Threads : t \in Int
  BY ThreadsAssumption DEF Threads
<1>2. /\ total \in Nat
      /\ \A t \in Threads : Before(f, t) \in Nat /\ Before(f, t) + f[t] <= total
      /\ \A s, t \in Threads : s < t => Before(f, s) + f[s] <= Before(f, t)
      /\ \A i \in 0 .. (total - 1) :
           \E t \in Threads : Before(f, t) <= i /\ i < Before(f, t) + f[t]
  BY <1>1, PrefixSums
<1> HIDE DEF total
<1>3. ASSUME NEW k \in b .. ((b + total) - 1)
      PROVE  \E t \in Threads : \E i \in 1 .. f[t] :
               k = b + Before(f, t) + i - 1 /\ array[k] = seqs[t][i]
  <2>1. k - b \in 0 .. (total - 1)
    BY <1>2
  <2>2. PICK t \in Threads : Before(f, t) <= k - b /\ k - b < Before(f, t) + f[t]
    BY <1>2, <2>1
  <2> DEFINE i == k - b - Before(f, t) + 1
  <2>3. Before(f, t) \in Nat /\ f[t] \in Nat /\ k \in Int
    BY <1>1, <1>2
  <2>4. i \in 1 .. f[t] /\ k = b + Before(f, t) + i - 1
    BY <2>2, <2>3
  <2>5. array[b + Before(f, t) + i - 1] = seqs[t][i]
    BY <2>4 DEF Copied
  <2> QED
    BY <2>4, <2>5
<1>4. ASSUME NEW t \in Threads, NEW i \in 1 .. f[t]
      PROVE  /\ b + Before(f, t) + i - 1 \in b .. ((b + total) - 1)
             /\ array[b + Before(f, t) + i - 1] = seqs[t][i]
  <2>1. Before(f, t) \in Nat /\ f[t] \in Nat /\ Before(f, t) + f[t] <= total /\ f[t] = Len(seqs[t])
    BY <1>1, <1>2
  <2>2. b + Before(f, t) + i - 1 \in b .. ((b + total) - 1)
    <3>1. i \in Nat /\ 1 <= i /\ i <= f[t] /\ total \in Nat /\ b \in Nat
      BY <1>2, <2>1
    <3> QED
      BY ONLY <2>1, <3>1
  <2>3. i \in 1 .. Len(seqs[t])
    BY <2>1
  <2> QED
    BY <2>2, <2>3 DEF Copied
<1>5. ASSUME NEW s \in Threads, NEW t \in Threads, NEW i \in 1 .. f[s], NEW j \in 1 .. f[t],
             seqs[s][i] = seqs[t][j]
      PROVE  s = t /\ i = j
  <2>1. seqs[s][i] \in Elements(seqs[s]) /\ seqs[t][j] \in Elements(seqs[t])
    BY DEF Elements
  <2>2. s = t
    BY <1>5, <2>1 DEF Disjoint
  <2> QED
    BY <1>5, <2>2 DEF Disjoint, Distinct
<1>6. {array[k] : k \in b .. ((b + total) - 1)} = All(seqs)
  <2>1. ASSUME NEW k \in b .. ((b + total) - 1) PROVE array[k] \in All(seqs)
    BY <1>3 DEF All, Elements
  <2>2. ASSUME NEW x \in All(seqs) PROVE \E k \in b .. ((b + total) - 1) : x = array[k]
    <3>1. PICK t \in Threads : x \in Elements(seqs[t])
      BY DEF All
    <3>2. PICK i \in 1 .. f[t] : x = seqs[t][i]
      BY <3>1 DEF Elements
    <3> QED
      BY <1>4, <3>2
  <2> QED
    BY <2>1, <2>2
<1>7. ASSUME NEW k \in b .. ((b + total) - 1), NEW m \in b .. ((b + total) - 1), array[k] = array[m]
      PROVE  k = m
  <2>1. PICK s \in Threads : \E i \in 1 .. f[s] :
         k = b + Before(f, s) + i - 1 /\ array[k] = seqs[s][i]
    BY <1>3
  <2>2. PICK i \in 1 .. f[s] : k = b + Before(f, s) + i - 1 /\ array[k] = seqs[s][i]
    BY <2>1
  <2>3. PICK t \in Threads : \E j \in 1 .. f[t] :
         m = b + Before(f, t) + j - 1 /\ array[m] = seqs[t][j]
    BY <1>3
  <2>4. PICK j \in 1 .. f[t] : m = b + Before(f, t) + j - 1 /\ array[m] = seqs[t][j]
    BY <2>3
  <2>5. s = t /\ i = j
    BY <1>5, <1>7, <2>2, <2>4
  <2> QED
    BY <2>2, <2>4, <2>5
<1>8. Holds(array, b, b + total, All(seqs))
  <2>1. \A k, m \in b .. ((b + total) - 1) : array[k] = array[m] => k = m
    BY <1>7
  <2> QED
    BY <1>6, <2>1 DEF Holds
<1> QED
  BY <1>8 DEF total

\* As many positions as members.
LEMMA HoldsCount ==
  ASSUME NEW array, NEW i \in Nat, NEW j \in Nat, i <= j, NEW S, Holds(array, i, j, S)
  PROVE  IsFiniteSet(S) /\ Cardinality(S) = j - i
<1> DEFINE f == [k \in i .. (j - 1) |-> array[k]]
<1>1. f \in Bijection(i .. (j - 1), S)
  <2>1. f \in [i .. (j - 1) -> S]
    BY DEF Holds
  <2>2. \A y \in S : \E k \in i .. (j - 1) : f[k] = y
    BY DEF Holds
  <2>3. \A k, m \in i .. (j - 1) : f[k] = f[m] => k = m
    BY DEF Holds
  <2> QED
    BY <2>1, <2>2, <2>3 DEF Bijection, Injection, Surjection, IsInjective
<1>2. j - 1 \in Int /\ i \in Int /\ j \in Int
  OBVIOUS
<1>3. /\ IsFiniteSet(i .. (j - 1))
      /\ Cardinality(i .. (j - 1)) = IF i > j - 1 THEN 0 ELSE (j - 1) - i + 1
  BY <1>2, FS_Interval
<1>4. Cardinality(i .. (j - 1)) = j - i
  BY <1>2, <1>3
<1>5. ExistsBijection(i .. (j - 1), S)
  BY <1>1 DEF ExistsBijection
<1> QED
  BY <1>3, <1>4, <1>5, FS_Bijection

\* The threads have found as many as there are different finds.
LEMMA FindsCount ==
  ASSUME NEW W, NEW seqs, \A t \in Threads : seqs[t] \in Seq(W), Disjoint(seqs),
         NEW f, \A t \in Threads : f[t] = Len(seqs[t])
  PROVE  /\ IsFiniteSet(All(seqs)) /\ All(seqs) \subseteq W
         /\ Before(f, NumThreads) = Cardinality(All(seqs))
         /\ \A t \in Threads : f[t] <= Cardinality(All(seqs))
         /\ \A t \in Threads : Before(f, t) + f[t] <= Cardinality(All(seqs))
<1> DEFINE total == Before(f, NumThreads)
<1>1. /\ \A t \in Threads : f[t] \in Nat /\ t \in Int
  BY DEF Threads
<1>2. /\ total \in Nat
      /\ \A t \in Threads : Before(f, t) \in Nat /\ Before(f, t) + f[t] <= total
      /\ \A s, t \in Threads : s < t => Before(f, s) + f[s] <= Before(f, t)
  BY <1>1, PrefixSums
<1> HIDE DEF total
<1> DEFINE In(t, p) == Before(f, t) <= p /\ p < Before(f, t) + f[t]
           owner(p) == CHOOSE t \in Threads : In(t, p)
           array == [p \in 0 .. (total - 1) |-> seqs[owner(p)][p - Before(f, owner(p)) + 1]]
<1>3. ASSUME NEW t \in Threads, NEW i \in 1 .. Len(seqs[t])
      PROVE  array[(0 + Before(f, t)) + i - 1] = seqs[t][i]
  <2> DEFINE p == (Before(f, t) + i) - 1
  <2>1. Before(f, t) \in Nat /\ f[t] \in Nat /\ i \in 1 .. f[t] /\ Before(f, t) + f[t] <= total
    BY <1>1, <1>2
  <2>2. p \in 0 .. (total - 1) /\ In(t, p) /\ (0 + Before(f, t)) + i - 1 = p
        /\ p - Before(f, t) + 1 = i
    <3>1. i \in Nat /\ 1 <= i /\ i <= f[t] /\ total \in Nat
      BY <1>2, <2>1
    <3>2. p \in 0 .. (total - 1) /\ Before(f, t) <= p /\ p < Before(f, t) + f[t]
      BY ONLY <2>1, <3>1
    <3>3. (0 + Before(f, t)) + i - 1 = p /\ p - Before(f, t) + 1 = i
      BY ONLY <2>1, <3>1
    <3> QED
      BY <3>2, <3>3
  <2> HIDE DEF p
  <2>3. owner(p) \in Threads /\ In(owner(p), p)
    BY <2>2
  <2>4. ASSUME NEW s \in Threads, In(s, p) PROVE s = t
    <3>1. /\ s \in Int /\ t \in Int /\ Before(f, s) \in Nat /\ f[s] \in Nat
          /\ s < t => Before(f, s) + f[s] <= Before(f, t)
          /\ t < s => Before(f, t) + f[t] <= Before(f, s)
      BY <1>1, <1>2
    <3>2. p \in Int /\ Before(f, t) <= p /\ p < Before(f, t) + f[t]
      BY <2>2
    <3>3. Before(f, s) <= p /\ p < Before(f, s) + f[s]
      BY <2>4
    <3>4. ~(s < t)
      BY ONLY <2>1, <3>1, <3>2, <3>3
    <3>5. ~(t < s)
      BY ONLY <2>1, <3>1, <3>2, <3>3
    <3> QED
      BY ONLY <3>1, <3>4, <3>5
  <2>5. owner(p) = t
    BY <2>3, <2>4
  <2>6. array[p] = seqs[owner(p)][p - Before(f, owner(p)) + 1]
    BY <2>2
  <2> QED
    BY <2>2, <2>5, <2>6
<1>4. \A t \in Threads : Copied(array, 0 + Before(f, t), seqs[t])
  BY <1>3 DEF Copied
<1> HIDE DEF array
<1>5. Holds(array, 0, 0 + total, All(seqs))
  BY <1>4, Gathered DEF total
<1>6. IsFiniteSet(All(seqs)) /\ Cardinality(All(seqs)) = total
  <2>1. 0 + total = total /\ 0 <= total /\ total - 0 = total
    BY <1>2
  <2>2. Holds(array, 0, total, All(seqs))
    BY <1>5, <2>1
  <2> QED
    BY <1>2, <2>1, <2>2, HoldsCount
<1>7. All(seqs) \subseteq W
  BY DEF All, Elements
<1>8. \A t \in Threads : f[t] <= total
  BY <1>1, <1>2
<1> QED
  BY <1>2, <1>6, <1>7, <1>8 DEF total

\* Which level a position belongs to, and the array of all levels.
LEMMA LevelsHold ==
  ASSUME NEW array, NEW K \in Nat, NEW ver, \A k \in 0 .. K : ver[k] \in Nat, ver[0] = 0,
         NEW S, \A k, m \in 0 .. (K - 1) : k # m => S[k] \cap S[m] = {},
         \A k \in 0 .. (K - 1) : /\ ver[k] <= ver[k + 1] /\ ver[k + 1] <= ver[K]
                                 /\ Holds(array, ver[k], ver[k + 1], S[k]),
         NEW U, \A x : x \in U <=> \E k \in 0 .. (K - 1) : x \in S[k]
  PROVE  Holds(array, 0, ver[K], U)
<1>1. ASSUME NEW i \in 0 .. (ver[K] - 1)
      PROVE  \E k \in 0 .. (K - 1) : i \in ver[k] .. (ver[k + 1] - 1) /\ array[i] \in S[k]
  <2> DEFINE A == {k \in 0 .. K : i < ver[k]}
  <2>1. K \in A /\ A \subseteq Nat /\ A # {} /\ 0 \notin A /\ i \in Nat
    OBVIOUS
  <2> HIDE DEF A
  <2>2. PICK n \in A : \A m \in A : ~(m < n)
    BY <2>1, LeastNumber
  <2>3. n \in 1 .. K /\ i < ver[n]
    BY <2>1, <2>2 DEF A
  <2>4. n - 1 \in 0 .. (K - 1) /\ (n - 1) + 1 = n /\ n - 1 \in 0 .. K
    BY <2>3
  <2>5. ~(i < ver[n - 1])
    BY <2>2, <2>3, <2>4 DEF A
  <2>6. ver[n] \in Nat /\ ver[n - 1] \in Nat
    BY <2>3, <2>4
  <2>7. i \in ver[n - 1] .. (ver[(n - 1) + 1] - 1)
    BY <2>1, <2>3, <2>4, <2>5, <2>6
  <2> QED
    BY <2>4, <2>7 DEF Holds
<1>2. ASSUME NEW k \in 0 .. (K - 1), NEW x \in S[k]
      PROVE  \E i \in 0 .. (ver[K] - 1) : x = array[i]
  <2>1. PICK i \in ver[k] .. (ver[k + 1] - 1) : x = array[i]
    BY DEF Holds
  <2>2. ver[k] \in Nat /\ ver[k + 1] \in Nat /\ ver[K] \in Nat /\ ver[k + 1] <= ver[K]
    <3>1. k \in 0 .. K /\ k + 1 \in 0 .. K /\ K \in 0 .. K
      OBVIOUS
    <3> QED
      BY <3>1
  <2> QED
    BY <2>1, <2>2
<1>3. {array[i] : i \in 0 .. (ver[K] - 1)} = U
  <2>1. ASSUME NEW i \in 0 .. (ver[K] - 1) PROVE array[i] \in U
    BY <1>1
  <2>2. ASSUME NEW x \in U
        PROVE  \E i \in 0 .. (ver[K] - 1) : x = array[i]
    BY <1>2
  <2> QED
    BY <2>1, <2>2
<1>4. ASSUME NEW i \in 0 .. (ver[K] - 1), NEW j \in 0 .. (ver[K] - 1), array[i] = array[j]
      PROVE  i = j
  <2>1. PICK k \in 0 .. (K - 1) : i \in ver[k] .. (ver[k + 1] - 1) /\ array[i] \in S[k]
    BY <1>1
  <2>2. PICK m \in 0 .. (K - 1) : j \in ver[m] .. (ver[m + 1] - 1) /\ array[j] \in S[m]
    BY <1>1
  <2>3. k = m
    BY <1>4, <2>1, <2>2
  <2> QED
    BY <1>4, <2>1, <2>2, <2>3 DEF Holds
<1> QED
  BY <1>3, <1>4 DEF Holds

\* If the sink can be reached, a shortest path leaves the source.
LEMMA LiveFacts ==
  ASSUME NEW c, IsCase(c), NEW f, HasAugmentingPath(c, f)
  PROVE  /\ c.source \in CoReach(c, LevelEdges(c, f))
         /\ \E a \in ShortestPathEdges(c, f) : Distances(c, f)[c.src[a]] = 0
<1> DEFINE d == Distances(c, f)
           L == LevelEdges(c, f)
           C == CoReach(c, L)
<1>1. /\ d \in [Nodes(c) -> Nat \cup {-1}]
      /\ \A x \in Nodes(c) : d[x] = 0 <=> x = c.source
      /\ \A x \in Nodes(c) : d[x] > 0 =>
           \E a \in ResidualEdges(c, f) : c.dst[a] = x /\ d[c.src[a]] = d[x] - 1
  BY DistanceFacts
<1>2. /\ L = {a \in ResidualEdges(c, f) : /\ d[c.src[a]] # -1 /\ d[c.dst[a]] = d[c.src[a]] + 1
                                          /\ d[c.dst[a]] <= d[c.sink]}
      /\ L \subseteq Edges(c)
      /\ ShortestPathEdges(c, f) = {a \in L : c.src[a] \in C /\ c.dst[a] \in C}
  BY DEF LevelEdges, LevelEdgesAt, ResidualEdges, ShortestPathEdges, Between
<1>3. c.source # c.sink /\ c.sink \in Nodes(c) /\ d[c.sink] # -1
  BY DEF IsCase, HasAugmentingPath
<1> HIDE DEF d, L
<1>4. /\ c.sink \in C /\ C \subseteq Nodes(c)
      /\ \A a \in L : c.dst[a] \in C => c.src[a] \in C
  BY <1>2, CoReachFacts
<1>5. ASSUME NEW a \in L PROVE c.src[a] \in Nodes(c)
  BY <1>2, CaseFacts
<1> HIDE DEF C
<1> DEFINE A == {k \in Nat : k > 0 /\ \E x \in C : d[x] = k}
<1>6. d[c.sink] \in A /\ A \subseteq Nat
  BY <1>1, <1>3, <1>4
<1>7. PICK n \in A : \A m \in A : ~(m < n)
  <2> HIDE DEF A
  <2> QED
    BY <1>6, LeastNumber
<1>8. PICK x \in C : d[x] = n
  OBVIOUS
<1>9. n \in Nat /\ n > 0 /\ ~(d[c.sink] < n)
  BY <1>6, <1>7
<1>10. PICK a \in ResidualEdges(c, f) : c.dst[a] = x /\ d[c.src[a]] = n - 1
  BY <1>1, <1>4, <1>8, <1>9
<1>11. d[c.sink] \in Nat
  BY <1>6
<1>12. a \in L /\ c.src[a] \in C /\ c.src[a] \in Nodes(c)
  <2>1. a \in L
    BY <1>2, <1>8, <1>9, <1>10, <1>11
  <2> QED
    BY <1>4, <1>5, <1>10, <2>1
<1>13. n - 1 = 0
  <2>1. CASE n - 1 > 0
    BY <1>7, <1>9, <1>10, <1>12, <2>1
  <2> QED
    BY <1>9, <2>1
<1>14. c.src[a] = c.source
  BY <1>1, <1>10, <1>12, <1>13
<1>15. a \in ShortestPathEdges(c, f)
  BY <1>2, <1>10, <1>12
<1> QED
  BY <1>10, <1>12, <1>13, <1>14, <1>15 DEF d, C, L

-------------------------------------------------------------------------------
(* What the invariant says at one place.                                   *)

\* The parts of the case that a step cites.
LEMMA CaseParts ==
  ASSUME TypeOK
  PROVE  /\ IsCase(g)
         /\ g.nodeCount \in Nat /\ g.edgeCount \in Nat
         /\ Nodes(g) = 0 .. (g.nodeCount - 1) /\ Edges(g) = 0 .. (g.edgeCount - 1)
         /\ g.source \in Nodes(g) /\ g.sink \in Nodes(g) /\ g.source # g.sink
         /\ \A a \in Edges(g) : /\ g.src[a] \in Nodes(g) /\ g.dst[a] \in Nodes(g)
                                /\ Residual(g, flow, a) \in Nat
                                /\ g.ver[g.src[a]] <= a /\ a < g.ver[g.src[a] + 1]
         /\ \A x \in Nodes(g) :
              /\ g.ver[x] \in Nat /\ g.ver[x + 1] \in Nat
              /\ g.ver[x] <= g.ver[x + 1] /\ g.ver[x + 1] <= g.edgeCount
              /\ \A a \in g.ver[x] .. (g.ver[x + 1] - 1) : a \in Edges(g) /\ g.src[a] = x
         /\ IsFiniteSet(Nodes(g)) /\ Cardinality(Nodes(g)) = g.nodeCount
         /\ IsFiniteSet(Edges(g)) /\ Cardinality(Edges(g)) = g.edgeCount
         /\ ResidualEdges(g, flow) \subseteq Edges(g)
<1>1. IsCase(g)
  BY CasesAssumption DEF TypeOK
<1>2. /\ g.nodeCount \in Nat /\ g.edgeCount \in Nat
      /\ Nodes(g) = 0 .. (g.nodeCount - 1) /\ Edges(g) = 0 .. (g.edgeCount - 1)
      /\ g.source \in Nodes(g) /\ g.sink \in Nodes(g) /\ g.source # g.sink
  BY <1>1 DEF IsCase, Nodes, Edges
<1>3. /\ g.ver \in [0 .. g.nodeCount -> 0 .. g.edgeCount]
      /\ \A x \in Nodes(g) : g.ver[x] <= g.ver[x + 1]
      /\ \A x \in Nodes(g), a \in Edges(g) :
            g.src[a] = x <=> g.ver[x] <= a /\ a < g.ver[x + 1]
  BY <1>1 DEF IsCase, IsIndexed
<1>4. ASSUME NEW a \in Edges(g)
      PROVE  /\ g.src[a] \in Nodes(g) /\ g.dst[a] \in Nodes(g) /\ Residual(g, flow, a) \in Nat
  BY <1>1, CaseFacts DEF TypeOK, Residual
<1>5. ASSUME NEW x \in Nodes(g)
      PROVE  /\ g.ver[x] \in Nat /\ g.ver[x + 1] \in Nat
             /\ g.ver[x] <= g.ver[x + 1] /\ g.ver[x + 1] <= g.edgeCount
             /\ \A a \in g.ver[x] .. (g.ver[x + 1] - 1) : a \in Edges(g) /\ g.src[a] = x
  <2>1. x \in 0 .. g.nodeCount /\ x + 1 \in 0 .. g.nodeCount
    BY <1>2
  <2>2. g.ver[x] \in 0 .. g.edgeCount /\ g.ver[x + 1] \in 0 .. g.edgeCount
    BY <1>3, <2>1
  <2>3. g.ver[x] <= g.ver[x + 1]
    BY <1>3
  <2>4. ASSUME NEW a \in g.ver[x] .. (g.ver[x + 1] - 1)
        PROVE  a \in Edges(g) /\ g.src[a] = x
    <3>1. /\ g.edgeCount \in Nat /\ g.ver[x] \in Nat /\ g.ver[x + 1] \in Nat
          /\ g.ver[x + 1] <= g.edgeCount
      BY <1>2, <2>2
    <3>2. a \in Int /\ 0 <= a /\ a < g.edgeCount /\ g.ver[x] <= a /\ a < g.ver[x + 1]
      BY ONLY <3>1, a \in g.ver[x] .. (g.ver[x + 1] - 1)
    <3>3. a \in Edges(g)
      BY <1>2, <3>2
    <3> QED
      BY <1>3, <3>2, <3>3
  <2> QED
    BY <1>2, <2>2, <2>3, <2>4
<1>6. /\ IsFiniteSet(Nodes(g)) /\ Cardinality(Nodes(g)) = g.nodeCount
      /\ IsFiniteSet(Edges(g)) /\ Cardinality(Edges(g)) = g.edgeCount
  <2>1. ASSUME NEW n \in Nat
        PROVE  IsFiniteSet(0 .. (n - 1)) /\ Cardinality(0 .. (n - 1)) = n
    <3>1. /\ IsFiniteSet(0 .. (n - 1))
          /\ Cardinality(0 .. (n - 1)) = IF 0 > n - 1 THEN 0 ELSE (n - 1) - 0 + 1
      <4>1. 0 \in Int /\ n - 1 \in Int
        OBVIOUS
      <4> QED
        BY <4>1, FS_Interval
    <3> QED
      BY <3>1
  <2> QED
    BY <1>2, <2>1
<1> QED
  BY <1>1, <1>2, <1>3, <1>4, <1>5, <1>6 DEF ResidualEdges

\* Every label up to level is used, so the index arrays are long enough.
LEMMA LevelFits ==
  ASSUME TypeOK, LabelInv
  PROVE  /\ level <= g.nodeCount
         /\ ~(pc = "return" /\ \A x \in Nodes(g) : dist[x] # level) => level < g.nodeCount
<1>1. g.nodeCount \in Nat /\ Nodes(g) = 0 .. (g.nodeCount - 1) /\ level \in Nat
  BY CaseParts DEF TypeOK
<1>2. CASE \E x \in Nodes(g) : dist[x] = level
  <2>1. \A k \in 0 .. level : \E x \in 0 .. (g.nodeCount - 1) : dist[x] = k
    BY <1>1, <1>2 DEF LabelInv
  <2>2. level < g.nodeCount
    BY <1>1, <2>1, LevelsAreNodes
  <2> QED
    BY <1>1, <2>2
<1>3. CASE ~\E x \in Nodes(g) : dist[x] = level
  <2>1. pc = "return"
    BY <1>1, <1>3 DEF LabelInv
  <2>2. CASE level = 0
    BY <1>1, <1>3, <2>1, <2>2
  <2>3. CASE level > 0
    <3>1. level - 1 \in Nat
      BY <1>1, <2>3
    <3>2. ASSUME NEW k \in 0 .. (level - 1)
          PROVE  \E x \in 0 .. (g.nodeCount - 1) : dist[x] = k
      <4>1. k \in 0 .. level /\ k # level
        BY <1>1, <2>3
      <4> QED
        BY <1>1, <4>1 DEF LabelInv
    <3>3. level - 1 < g.nodeCount
      BY <1>1, <3>1, <3>2, LevelsAreNodes
    <3> QED
      BY <1>1, <1>3, <2>1, <3>3
  <2> QED
    BY <1>1, <2>2, <2>3
<1> QED
  BY <1>2, <1>3

\* The edges of the finished levels are different ones, and none starts at level.
LEMMA OldEdges ==
  ASSUME TypeOK, LevelsInv
  PROVE  /\ OldVer[level] \in Nat
         /\ Holds(levelEdges, 0, OldVer[level], UNION {EdgesOf(k) : k \in 0 .. (level - 1)})
         /\ UNION {EdgesOf(k) : k \in 0 .. (level - 1)}
              \subseteq {a \in Edges(g) : dist[g.src[a]] # level}
<1> DEFINE S == [k \in 0 .. (level - 1) |-> EdgesOf(k)]
           ver == OldVer
<1>1. level \in Nat /\ (\A k \in 0 .. level : ver[k] \in Nat) /\ ver[0] = 0
  BY DEF TypeOK, LevelsInv, LevelsDone
<1>2. \A k \in 0 .. (level - 1) : /\ ver[k] <= ver[k + 1] /\ ver[k + 1] <= ver[level]
                                  /\ Holds(levelEdges, ver[k], ver[k + 1], S[k])
  BY DEF LevelsInv, LevelsDone
<1>3. \A k, m \in 0 .. (level - 1) : k # m => S[k] \cap S[m] = {}
  BY DEF EdgesOf
<1> DEFINE U == UNION {EdgesOf(k) : k \in 0 .. (level - 1)}
<1>4. \A x : x \in U <=> \E k \in 0 .. (level - 1) : x \in S[k]
  OBVIOUS
<1>5. UNION {EdgesOf(k) : k \in 0 .. (level - 1)}
        \subseteq {a \in Edges(g) : dist[g.src[a]] # level}
  BY <1>1 DEF EdgesOf, ResidualEdges
<1> HIDE DEF S, ver, U
<1>6. Holds(levelEdges, 0, ver[level], U)
  <2>1. level \in Nat
    BY <1>1
  <2>2. \A k \in 0 .. level : ver[k] \in Nat
    BY <1>1
  <2>3. ver[0] = 0
    BY <1>1
  <2> QED
    BY ONLY <2>1, <2>2, <2>3, <1>2, <1>3, <1>4, LevelsHold
<1>7. ver[level] \in Nat
  BY <1>1
<1> QED
  BY <1>5, <1>6, <1>7 DEF ver, U

\* There is room for what the threads have found.
LEMMA RoomForFinds ==
  ASSUME BuilderInv, pc = "search"
  PROVE  /\ \A t \in Threads : /\ Len(localNodes[t]) <= g.nodeCount
                               /\ Len(localLevelEdges[t]) <= g.edgeCount
         /\ levelEdgeBase \in Nat /\ levelEdgeBase <= g.edgeCount
         /\ (\A t \in Threads : at[t] \in {"barrier", "joined"}) =>
              /\ Before(foundNodes, NumThreads) = Cardinality(All(localNodes))
              /\ Before(foundNodes, NumThreads) \in 0 .. g.nodeCount
              /\ \A t \in Threads : Before(foundNodes, t) + Len(localNodes[t]) <= g.nodeCount
              /\ Base + Before(foundLevelEdges, NumThreads) \in 0 .. g.edgeCount
              /\ \A t \in Threads :
                   Base + Before(foundLevelEdges, t) + Len(localLevelEdges[t]) <= g.edgeCount
<1> DEFINE N == [t \in Threads |-> Len(localNodes[t])]
           E == [t \in Threads |-> Len(localLevelEdges[t])]
           old == UNION {EdgesOf(k) : k \in 0 .. (level - 1)}
<1>1. TypeOK /\ LevelsInv /\ FrontierInv /\ ClaimInv /\ RecordInv /\ CopyInv
  BY DEF BuilderInv, SearchInv
<1>2. /\ g.nodeCount \in Nat /\ g.edgeCount \in Nat
      /\ IsFiniteSet(Nodes(g)) /\ Cardinality(Nodes(g)) = g.nodeCount
      /\ IsFiniteSet(Edges(g)) /\ Cardinality(Edges(g)) = g.edgeCount
  BY <1>1, CaseParts
<1>3. /\ \A t \in Threads : localNodes[t] \in Seq(Nodes(g)) /\ localLevelEdges[t] \in Seq(Edges(g))
      /\ Disjoint(localNodes) /\ Disjoint(localLevelEdges)
      /\ \A t \in Threads : N[t] = Len(localNodes[t]) /\ E[t] = Len(localLevelEdges[t])
  BY <1>1 DEF TypeOK, ClaimInv, RecordInv
<1>4. /\ IsFiniteSet(All(localNodes)) /\ All(localNodes) \subseteq Nodes(g)
      /\ \A f : (\A t \in Threads : f[t] = Len(localNodes[t])) =>
           /\ Before(f, NumThreads) = Cardinality(All(localNodes))
           /\ \A t \in Threads : f[t] <= Cardinality(All(localNodes))
           /\ \A t \in Threads : Before(f, t) + f[t] <= Cardinality(All(localNodes))
  BY <1>3, FindsCount
<1>5. /\ IsFiniteSet(All(localLevelEdges)) /\ All(localLevelEdges) \subseteq Edges(g)
      /\ \A f : (\A t \in Threads : f[t] = Len(localLevelEdges[t])) =>
           /\ Before(f, NumThreads) = Cardinality(All(localLevelEdges))
           /\ \A t \in Threads : f[t] <= Cardinality(All(localLevelEdges))
           /\ \A t \in Threads : Before(f, t) + f[t] <= Cardinality(All(localLevelEdges))
  BY <1>3, FindsCount
<1>6. /\ Cardinality(All(localNodes)) \in Nat /\ Cardinality(All(localNodes)) <= g.nodeCount
  BY <1>2, <1>4, FS_Subset, FS_CardinalityType
<1>7. /\ levelEdgeBase \in Nat
      /\ Holds(levelEdges, 0, levelEdgeBase, old)
      /\ old \subseteq {a \in Edges(g) : dist[g.src[a]] # level}
  <2>1. OldVer = levelVer
    BY DEF OldVer
  <2> HIDE DEF old
  <2> QED
    BY <1>1, <2>1, OldEdges DEF FrontierInv, old
<1> HIDE DEF old
<1>8. IsFiniteSet(old) /\ Cardinality(old) = levelEdgeBase
  <2>1. 0 <= levelEdgeBase /\ levelEdgeBase - 0 = levelEdgeBase
    BY <1>7
  <2> QED
    BY <1>7, <2>1, HoldsCount
<1>9. /\ Cardinality(All(localLevelEdges)) \in Nat
      /\ levelEdgeBase + Cardinality(All(localLevelEdges)) <= g.edgeCount
  <2>1. All(localLevelEdges) \cap old = {}
    BY <1>1, <1>7 DEF RecordInv, EdgesOf
  <2>2. /\ IsFiniteSet(old \cup All(localLevelEdges))
        /\ Cardinality(old \cup All(localLevelEdges))
             = Cardinality(old) + Cardinality(All(localLevelEdges))
                 - Cardinality(old \cap All(localLevelEdges))
    BY <1>5, <1>8, FS_Union
  <2>3. Cardinality(old \cap All(localLevelEdges)) = 0
    BY <2>1, FS_EmptySet
  <2>4. Cardinality(old \cup All(localLevelEdges)) <= g.edgeCount
    BY <1>2, <1>5, <1>7, FS_Subset
  <2>5. Cardinality(All(localLevelEdges)) \in Nat
    BY <1>5, FS_CardinalityType
  <2> QED
    BY <1>7, <1>8, <2>2, <2>3, <2>4, <2>5
<1>10. \A t \in Threads : Len(localNodes[t]) \in Nat /\ Len(localLevelEdges[t]) \in Nat
  BY <1>3
<1>11. \A t \in Threads : /\ Len(localNodes[t]) <= g.nodeCount
                          /\ Len(localLevelEdges[t]) <= g.edgeCount
  <2>1. \A t \in Threads : /\ Len(localNodes[t]) <= Cardinality(All(localNodes))
                           /\ Len(localLevelEdges[t]) <= Cardinality(All(localLevelEdges))
    BY <1>3, <1>4, <1>5
  <2> QED
    BY <1>2, <1>6, <1>7, <1>9, <1>10, <2>1
<1>12. ASSUME \A t \in Threads : at[t] \in {"barrier", "joined"}
       PROVE  /\ Before(foundNodes, NumThreads) = Cardinality(All(localNodes))
              /\ Before(foundNodes, NumThreads) \in 0 .. g.nodeCount
              /\ \A t \in Threads : Before(foundNodes, t) + Len(localNodes[t]) <= g.nodeCount
              /\ Base + Before(foundLevelEdges, NumThreads) \in 0 .. g.edgeCount
              /\ \A t \in Threads :
                   Base + Before(foundLevelEdges, t) + Len(localLevelEdges[t]) <= g.edgeCount
  <2>1. \A t \in Threads : /\ foundNodes[t] = Len(localNodes[t])
                           /\ foundLevelEdges[t] = Len(localLevelEdges[t])
    BY <1>1, <1>12 DEF CopyInv
  <2>2. /\ \A t \in Threads : foundNodes[t] \in Nat /\ foundLevelEdges[t] \in Nat
        /\ \A t \in Threads : Before(foundNodes, t) \in Nat /\ Before(foundLevelEdges, t) \in Nat
    BY <1>10, <2>1, PrefixSums
  <2>3. /\ Before(foundNodes, NumThreads) = Cardinality(All(localNodes))
        /\ \A t \in Threads : Before(foundNodes, t) + foundNodes[t] <= Cardinality(All(localNodes))
        /\ Before(foundLevelEdges, NumThreads) = Cardinality(All(localLevelEdges))
        /\ \A t \in Threads :
             Before(foundLevelEdges, t) + foundLevelEdges[t] <= Cardinality(All(localLevelEdges))
    BY <1>4, <1>5, <2>1
  <2>4. Before(foundNodes, NumThreads) \in 0 .. g.nodeCount
    BY <1>2, <1>6, <2>3
  <2>5. Base + Before(foundLevelEdges, NumThreads) \in 0 .. g.edgeCount
    BY <1>2, <1>7, <1>9, <2>3 DEF Base
  <2>6. ASSUME NEW t \in Threads
        PROVE  /\ Before(foundNodes, t) + Len(localNodes[t]) <= g.nodeCount
               /\ Base + Before(foundLevelEdges, t) + Len(localLevelEdges[t]) <= g.edgeCount
    <3>1. /\ Before(foundNodes, t) \in Nat /\ Before(foundLevelEdges, t) \in Nat
          /\ Len(localNodes[t]) \in Nat /\ Len(localLevelEdges[t]) \in Nat
          /\ Before(foundNodes, t) + Len(localNodes[t]) <= Cardinality(All(localNodes))
          /\ Before(foundLevelEdges, t) + Len(localLevelEdges[t]) <= Cardinality(All(localLevelEdges))
      BY <1>10, <2>1, <2>2, <2>3
    <3>2. Base = levelEdgeBase /\ Base \in Nat
      BY <1>7 DEF Base
    <3>3. Before(foundNodes, t) + Len(localNodes[t]) <= g.nodeCount
      BY <1>2, <1>6, <3>1
    <3> QED
      BY <1>2, <1>9, <3>1, <3>2, <3>3
  <2> QED
    BY <2>3, <2>4, <2>5, <2>6
<1> QED
  BY <1>2, <1>7, <1>9, <1>11, <1>12

-------------------------------------------------------------------------------
(* Steps of the threads.                                                   *)

\* A step of the search that sets no label and copies nothing.
LEMMA SearchStepKeeps ==
  ASSUME BuilderInv, pc = "search",
         UNCHANGED <<callVars, pc, dist, level, levelVer, levelEdges, pruneVars>>
  PROVE  LabelInv' /\ LevelsInv' /\ PruneInv' /\ CompactInv' /\ ResultInv'
<1>1. UNCHANGED <<g, flow, result, pc, dist, level, levelVer, levelEdges>>
  BY DEF callVars
<1>2. LabelInv' /\ ResultInv'
  BY <1>1 DEF BuilderInv, LabelInv, ResultInv
<1>3. LevelsInv'
  <2>1. OldVer = levelVer /\ OldVer' = levelVer
    BY <1>1 DEF OldVer
  <2> QED
    BY <1>1, <2>1 DEF BuilderInv, LevelsInv, LevelsDone, Holds, EdgesOf
<1>4. PruneInv' /\ CompactInv'
  BY <1>1 DEF PruneInv, CompactInv
<1> QED
  BY <1>2, <1>3, <1>4

\* What the invariant says of a thread that scans, and of the slot it looks at.
LEMMA ScanFacts ==
  ASSUME BuilderInv, pc = "search", NEW t \in Threads, Active(t)
  PROVE  /\ node[t] \in Nodes(g) /\ dist[node[t]] = level /\ node[t] \notin Pending
         /\ edge[t] \in Nat /\ level \in Nat
         /\ \A s \in Threads : Active(s) /\ s # t => node[s] # node[t]
         /\ edge[t] < g.ver[node[t] + 1] =>
              /\ edge[t] \in Edges(g) /\ g.src[edge[t]] = node[t]
              /\ Target(t) \in Nodes(g) /\ Residual(g, flow, edge[t]) \in Nat
              /\ Residual(g, flow, edge[t]) > 0 => edge[t] \in ResidualEdges(g, flow)
              /\ Ahead(edge[t])
         /\ ~Joining
<1>1. TypeOK /\ ScanInv /\ CopyInv
  BY DEF BuilderInv, SearchInv
<1>2. /\ node[t] \in Nodes(g) /\ dist[node[t]] = level /\ node[t] \notin Pending
      /\ edge[t] \in Nat /\ level \in Nat
      /\ \A s \in Threads : Active(s) /\ s # t => node[s] # node[t]
      /\ edge[t] \in g.ver[node[t]] .. g.ver[node[t] + 1]
  BY <1>1 DEF ScanInv, TypeOK
<1>3. ~Joining
  BY <1>1 DEF CopyInv, HavePublished, IsInLoop, Active
<1>4. ASSUME edge[t] < g.ver[node[t] + 1]
      PROVE  /\ edge[t] \in Edges(g) /\ g.src[edge[t]] = node[t]
             /\ Target(t) \in Nodes(g) /\ Residual(g, flow, edge[t]) \in Nat
             /\ Residual(g, flow, edge[t]) > 0 => edge[t] \in ResidualEdges(g, flow)
             /\ Ahead(edge[t])
  <2>1. g.ver[node[t]] \in Nat /\ g.ver[node[t] + 1] \in Nat
    BY <1>1, <1>2, CaseParts
  <2>2. edge[t] \in g.ver[node[t]] .. (g.ver[node[t] + 1] - 1)
    BY <1>2, <1>4, <2>1
  <2>3. edge[t] \in Edges(g) /\ g.src[edge[t]] = node[t]
    BY <1>1, <1>2, <2>2, CaseParts
  <2>4. g.dst[edge[t]] \in Nodes(g) /\ Residual(g, flow, edge[t]) \in Nat
    BY <1>1, <2>3, CaseParts
  <2>5. Ahead(edge[t])
    BY <1>2, <2>3 DEF Ahead
  <2> QED
    BY <2>3, <2>4, <2>5 DEF Target, ResidualEdges
<1> QED
  BY <1>2, <1>3, <1>4

\* A thread goes on to the next slot, which may have labelled the node it leads to.
LEMMA AdvanceKeeps ==
  ASSUME BuilderInv, pc = "search", NEW t \in Threads, Active(t), edge[t] < g.ver[node[t] + 1],
         NEW b \in BOOLEAN, Advance(t, b), at' = [at EXCEPT ![t] = "scan"],
         UNCHANGED <<g, flow, pc, node, global, globalSize, untaken, level>>,
         \A x \in Nodes(g) : \/ dist'[x] = dist[x]
                             \/ x = Target(t) /\ dist[x] = -1 /\ dist'[x] = level + 1,
         b => Residual(g, flow, edge[t]) > 0,
         Residual(g, flow, edge[t]) > 0 =>
           dist'[Target(t)] \in 0 .. (level + 1) /\ (b <=> dist'[Target(t)] = level + 1)
  PROVE  ScanInv' /\ RecordInv'
<1> DEFINE e == edge[t]
<1>1. TypeOK /\ ScanInv /\ RecordInv
  BY DEF BuilderInv, SearchInv
<1>2. /\ node[t] \in Nodes(g) /\ dist[node[t]] = level /\ node[t] \notin Pending
      /\ e \in Edges(g) /\ g.src[e] = node[t] /\ e \in Nat /\ level \in Nat
      /\ Target(t) \in Nodes(g) /\ Target(t) = g.dst[e]
      /\ \A s \in Threads : Active(s) /\ s # t => node[s] # node[t]
      /\ Residual(g, flow, e) > 0 => e \in ResidualEdges(g, flow)
      /\ Ahead(e)
  BY ScanFacts DEF Target
<1>3. /\ edge' = [edge EXCEPT ![t] = e + 1]
      /\ localLevelEdges' = IF b THEN [localLevelEdges EXCEPT ![t] = Append(@, e)] ELSE localLevelEdges
      /\ at \in [Threads -> {"loop", "scan", "claim", "reread", "barrier", "joined"}]
      /\ edge \in [Threads -> Nat] /\ node \in [Threads -> Nodes(g)]
      /\ localLevelEdges \in [Threads -> Seq(Edges(g))]
  BY <1>1 DEF Advance, TypeOK
<1>4. /\ \A s \in Threads : (Active(s))' <=> Active(s)
      /\ \A s \in Threads : s # t => at'[s] = at[s] /\ edge'[s] = edge[s]
      /\ at'[t] = "scan" /\ edge'[t] = e + 1 /\ Pending' = Pending
  BY <1>3 DEF Active, Pending
<1>5. /\ \A a \in Edges(g) : g.src[a] \in Nodes(g) /\ g.dst[a] \in Nodes(g)
      /\ ResidualEdges(g, flow) \subseteq Edges(g)
      /\ \A x \in Nodes(g) : dist'[x] = level <=> dist[x] = level
      /\ \A x \in Nodes(g) : dist[x] # -1 => dist'[x] = dist[x]
      /\ g.ver[node[t] + 1] \in Nat /\ g.ver[node[t]] \in Nat
  <2>1. \A a \in Edges(g) : g.src[a] \in Nodes(g) /\ g.dst[a] \in Nodes(g)
    BY <1>1, CaseParts
  <2>2. g.ver[node[t] + 1] \in Nat /\ g.ver[node[t]] \in Nat
    BY <1>1, <1>2, CaseParts
  <2> QED
    BY <1>2, <2>1, <2>2 DEF ResidualEdges
<1>6. ScanInv'
  <2>1. ASSUME NEW s \in Threads, (Active(s))', s # t
        PROVE  /\ dist'[node[s]] = level /\ node[s] \notin Pending
               /\ edge'[s] \in g.ver[node[s]] .. g.ver[node[s] + 1]
               /\ \A r \in Threads : (Active(r))' /\ r # s => node[r] # node[s]
               /\ at'[s] # "scan" => edge'[s] < g.ver[node[s] + 1] /\ Residual(g, flow, edge'[s]) > 0
               /\ at'[s] = "reread" => dist'[g.dst[edge'[s]]] # -1
    <3>1. Active(s) /\ at'[s] = at[s] /\ edge'[s] = edge[s] /\ node[s] \in Nodes(g)
      BY <1>3, <1>4, <2>1
    <3>2. /\ dist[node[s]] = level /\ node[s] \notin Pending
          /\ edge[s] \in g.ver[node[s]] .. g.ver[node[s] + 1]
          /\ \A r \in Threads : Active(r) /\ r # s => node[r] # node[s]
          /\ at[s] # "scan" => edge[s] < g.ver[node[s] + 1] /\ Residual(g, flow, edge[s]) > 0
          /\ at[s] = "reread" => dist[g.dst[edge[s]]] # -1
      BY <1>1, <3>1 DEF ScanInv, Target
    <3>3. at[s] # "scan" => g.dst[edge[s]] \in Nodes(g)
      BY <3>1, <3>2, ScanFacts DEF Target
    <3> QED
      BY <1>4, <1>5, <3>1, <3>2, <3>3
  <2>2. /\ dist'[node[t]] = level /\ node[t] \notin Pending
        /\ edge'[t] \in g.ver[node[t]] .. g.ver[node[t] + 1]
        /\ \A r \in Threads : (Active(r))' /\ r # t => node[r] # node[t]
    <3>1. e \in g.ver[node[t]] .. g.ver[node[t] + 1]
      BY <1>1 DEF ScanInv
    <3> QED
      BY <1>2, <1>4, <1>5, <3>1
  <2>3. ASSUME NEW s \in Threads, (Active(s))'
        PROVE  /\ dist'[node[s]] = level /\ node[s] \notin Pending
               /\ edge'[s] \in g.ver[node[s]] .. g.ver[node[s] + 1]
               /\ \A r \in Threads : (Active(r))' /\ r # s => node[r] # node[s]
               /\ at'[s] # "scan" => edge'[s] < g.ver[node[s] + 1] /\ Residual(g, flow, edge'[s]) > 0
               /\ at'[s] = "reread" => dist'[g.dst[edge'[s]]] # -1
    BY <1>4, <2>1, <2>2, <2>3
  <2>4. \A s \in Threads : (Target(s))' = g.dst[edge'[s]]
    BY DEF Target
  <2> QED
    BY <1>4, <2>3, <2>4 DEF ScanInv
<1>7. \A a \in Edges(g) : (Ahead(a))' <=> Ahead(a) /\ a # e
  <2>1. ASSUME NEW a \in Edges(g), (Ahead(a))' PROVE Ahead(a) /\ a # e
    <3>1. a \in Int
      BY DEF Edges
    <3>2. CASE g.src[a] \in Pending
      BY <1>2, <3>2 DEF Ahead
    <3>3. CASE \E s \in Threads : (Active(s))' /\ node[s] = g.src[a] /\ edge'[s] <= a
      BY <1>2, <1>4, <3>1, <3>3 DEF Ahead
    <3> QED
      BY <1>4, <2>1, <3>2, <3>3 DEF Ahead
  <2>2. ASSUME NEW a \in Edges(g), Ahead(a), a # e PROVE (Ahead(a))'
    <3>1. a \in Int
      BY DEF Edges
    <3>2. CASE g.src[a] \in Pending
      BY <1>4, <3>2 DEF Ahead
    <3>3. CASE \E s \in Threads : Active(s) /\ node[s] = g.src[a] /\ edge[s] <= a
      <4>1. PICK s \in Threads : Active(s) /\ node[s] = g.src[a] /\ edge[s] <= a
        BY <3>3
      <4>2. (Active(s))' /\ node'[s] = g.src[a] /\ edge'[s] <= a
        BY <1>2, <1>4, <2>2, <3>1, <4>1
      <4> QED
        BY <4>2 DEF Ahead
    <3> QED
      BY <2>2, <3>2, <3>3 DEF Ahead
  <2> QED
    BY <2>1, <2>2
<1>8. e \notin All(localLevelEdges)
  BY <1>1, <1>2 DEF RecordInv
<1>9. /\ \A s \in Threads : Elements(localLevelEdges'[s])
            = Elements(localLevelEdges[s]) \cup (IF b /\ s = t THEN {e} ELSE {})
      /\ \A s \in Threads : Distinct(localLevelEdges'[s])
  <2>1. /\ localLevelEdges[t] \in Seq(Edges(g)) /\ Distinct(localLevelEdges[t])
        /\ e \notin Elements(localLevelEdges[t])
    BY <1>1, <1>3, <1>8 DEF RecordInv, Disjoint, All
  <2>2. /\ Elements(Append(localLevelEdges[t], e)) = Elements(localLevelEdges[t]) \cup {e}
        /\ Distinct(Append(localLevelEdges[t], e))
    BY <1>2, <2>1, AppendFacts
  <2>3. \A s \in Threads : Distinct(localLevelEdges[s])
    BY <1>1 DEF RecordInv, Disjoint
  <2>4. CASE b
    BY <1>3, <2>2, <2>3, <2>4
  <2>5. CASE ~b
    BY <1>3, <2>3, <2>5
  <2> QED
    BY <2>4, <2>5
<1>10. All(localLevelEdges') = All(localLevelEdges) \cup (IF b THEN {e} ELSE {})
  BY <1>9 DEF All
<1>11. Disjoint(localLevelEdges')
  <2>1. \A s, r \in Threads : s # r => Elements(localLevelEdges[s]) \cap Elements(localLevelEdges[r]) = {}
    BY <1>1 DEF RecordInv, Disjoint
  <2>2. \A s \in Threads : e \notin Elements(localLevelEdges[s])
    BY <1>8 DEF All
  <2>3. \A s, r \in Threads : s # r => Elements(localLevelEdges'[s]) \cap Elements(localLevelEdges'[r]) = {}
    BY <1>9, <2>1, <2>2
  <2> QED
    BY <1>9, <2>3 DEF Disjoint
<1>12. (EdgesOf(level))' = {a \in ResidualEdges(g, flow) : dist'[g.src[a]] = level /\ dist'[g.dst[a]] = level + 1}
  BY DEF EdgesOf
<1>13. ASSUME NEW a \in All(localLevelEdges')
       PROVE  a \in (EdgesOf(level))' /\ ~(Ahead(a))'
  <2>1. CASE a \in All(localLevelEdges)
    <3>1. a \in EdgesOf(level) /\ ~Ahead(a)
      BY <1>1, <2>1 DEF RecordInv
    <3>2. a \in ResidualEdges(g, flow) /\ dist[g.src[a]] = level /\ dist[g.dst[a]] = level + 1
      BY <3>1 DEF EdgesOf
    <3>3. dist'[g.src[a]] = level /\ dist'[g.dst[a]] = level + 1
      BY <1>2, <1>5, <3>2
    <3> QED
      BY <1>5, <1>7, <1>12, <3>1, <3>2, <3>3
  <2>2. CASE b /\ a = e
    BY <1>2, <1>5, <1>7, <1>12, <2>2
  <2> QED
    BY <1>10, <1>13, <2>1, <2>2
<1>14. ASSUME NEW a \in ResidualEdges(g, flow), dist'[g.src[a]] = level, ~(Ahead(a))'
       PROVE  /\ dist'[g.dst[a]] \in 0 .. (level + 1)
              /\ dist'[g.dst[a]] = level + 1 => a \in All(localLevelEdges')
  <2>1. CASE a = e
    <3>1. Residual(g, flow, e) > 0
      BY <2>1 DEF ResidualEdges
    <3> QED
      BY <1>2, <1>10, <2>1, <3>1
  <2>2. CASE a # e
    <3>1. ~Ahead(a) /\ dist[g.src[a]] = level /\ g.dst[a] \in Nodes(g)
      BY <1>5, <1>7, <1>14, <2>2
    <3>2. /\ dist[g.dst[a]] \in 0 .. (level + 1)
          /\ dist[g.dst[a]] = level + 1 => a \in All(localLevelEdges)
      BY <1>1, <3>1 DEF RecordInv
    <3>3. dist'[g.dst[a]] = dist[g.dst[a]]
      BY <1>2, <1>5, <3>1, <3>2
    <3> QED
      BY <1>10, <3>2, <3>3
  <2> QED
    BY <2>1, <2>2
<1>15. RecordInv'
  BY <1>11, <1>13, <1>14 DEF RecordInv
<1> QED
  BY <1>6, <1>15

\* The position taken may be any that is left, while other threads scan, or wait with what
\* they have published.
LEMMA TakeNodeKeeps ==
  ASSUME BuilderInv, pc = "search", NEW t \in Threads, NEW i \in untaken, TakeNode(t, i)
  PROVE  BuilderInv'
<1> DEFINE u == global[i]
<1>1. TypeOK /\ FrontierInv /\ ScanInv /\ ClaimInv /\ RecordInv /\ CopyInv
  BY DEF BuilderInv, SearchInv
<1>2. /\ at[t] = "loop" /\ untaken' = untaken \ {i}
      /\ node' = [node EXCEPT ![t] = u] /\ edge' = [edge EXCEPT ![t] = g.ver[u]]
      /\ at' = [at EXCEPT ![t] = "scan"]
      /\ UNCHANGED <<callVars, pc, dist, global, globalSize, newSize, levelEdges,
                     levelEdgeCount, levelEdgeBase, level, levelVer,
                     localNodes, localLevelEdges, foundNodes, foundLevelEdges, pruneVars>>
      /\ UNCHANGED <<g, flow, pc, dist>>
  BY DEF TakeNode, GoTo, callVars, foundVars
<1>3. /\ untaken \in SUBSET Int /\ globalSize \in Nat /\ level \in Nat
      /\ at \in [Threads -> {"loop", "scan", "claim", "reread", "barrier", "joined"}]
      /\ node \in [Threads -> Nodes(g)] /\ edge \in [Threads -> Nat]
  BY <1>1 DEF TypeOK
<1>4. NumThreads - 1 \in Threads
  BY ThreadsAssumption DEF Threads
<1>5. ~Joining
  BY <1>1, <1>2 DEF CopyInv, HavePublished, IsInLoop
<1>6. Holds(global, 0, globalSize, {x \in Nodes(g) : dist[x] = level})
  BY <1>1, <1>5 DEF FrontierInv
<1>7. /\ u \in Nodes(g) /\ dist[u] = level
      /\ u \notin Pending' /\ Pending = Pending' \cup {u}
  <2>1. i \in 0 .. (globalSize - 1) /\ \A k \in untaken : k \in 0 .. (globalSize - 1)
    BY <1>1 DEF FrontierInv
  <2>2. u \in {x \in Nodes(g) : dist[x] = level}
    BY <1>6, <2>1 DEF Holds
  <2>3. Pending' = {global[k] : k \in untaken \ {i}}
    BY <1>2 DEF Pending
  <2>4. u \notin Pending'
    BY <1>6, <2>1, <2>3 DEF Holds
  <2>5. Pending = Pending' \cup {u}
    BY <2>3 DEF Pending
  <2> QED
    BY <2>2, <2>4, <2>5
<1>8. /\ g.ver[u] \in Nat /\ g.ver[u + 1] \in Nat /\ g.ver[u] <= g.ver[u + 1]
      /\ \A a \in Edges(g) : g.src[a] = u => g.ver[u] <= a
      /\ ResidualEdges(g, flow) \subseteq Edges(g)
  BY <1>1, <1>7, CaseParts
<1>9. TypeOK'
  <2>1. untaken' \in SUBSET Int /\ node' \in [Threads -> Nodes(g)] /\ edge' \in [Threads -> Nat]
        /\ at' \in [Threads -> {"loop", "scan", "claim", "reread", "barrier", "joined"}]
    BY <1>2, <1>3, <1>7, <1>8
  <2> QED
    BY <1>1, <1>2, <2>1 DEF TypeOK, callVars, pruneVars
<1>10. /\ \A s \in Threads : (Active(s))' <=> Active(s) \/ s = t
       /\ \A s \in Threads : s # t => at'[s] = at[s] /\ edge'[s] = edge[s] /\ node'[s] = node[s]
       /\ at'[t] = "scan" /\ edge'[t] = g.ver[u] /\ node'[t] = u /\ ~Active(t)
       /\ \A s \in Threads : at'[s] \in {"barrier", "joined"} => s # t
       /\ ~Joining'
  BY <1>2, <1>3, <1>5 DEF Active, Joining
<1>11. FrontierInv'
  <2>1. untaken' \subseteq 0 .. (globalSize - 1)
    BY <1>1, <1>2 DEF FrontierInv
  <2> QED
    BY <1>1, <1>2, <1>6, <2>1 DEF FrontierInv, callVars
<1>12. ScanInv'
  <2>1. ASSUME NEW s \in Threads, (Active(s))'
        PROVE  /\ dist[node'[s]] = level /\ node'[s] \notin Pending'
               /\ edge'[s] \in g.ver[node'[s]] .. g.ver[node'[s] + 1]
               /\ \A r \in Threads : (Active(r))' /\ r # s => node'[r] # node'[s]
               /\ at'[s] # "scan" => edge'[s] < g.ver[node'[s] + 1] /\ Residual(g, flow, edge'[s]) > 0
               /\ at'[s] = "reread" => dist[g.dst[edge'[s]]] # -1
    <3>1. CASE s = t
      <4>1. \A r \in Threads : Active(r) => node[r] # u
        BY <1>1, <1>7 DEF ScanInv
      <4>2. at'[s] = "scan" /\ edge'[s] = g.ver[u] /\ node'[s] = u
        BY <1>10, <3>1
      <4>3. \A r \in Threads : (Active(r))' /\ r # s => node'[r] # u
        BY <1>10, <3>1, <4>1
      <4>4. g.ver[u] \in g.ver[u] .. g.ver[u + 1]
        BY <1>8
      <4> QED
        BY <1>7, <4>2, <4>3, <4>4
    <3>2. CASE s # t
      <4>1. Active(s)
        BY <1>10, <2>1, <3>2
      <4>2. /\ dist[node[s]] = level /\ node[s] \notin Pending
            /\ edge[s] \in g.ver[node[s]] .. g.ver[node[s] + 1]
            /\ \A r \in Threads : Active(r) /\ r # s => node[r] # node[s]
            /\ at[s] # "scan" => edge[s] < g.ver[node[s] + 1] /\ Residual(g, flow, edge[s]) > 0
            /\ at[s] = "reread" => dist[g.dst[edge[s]]] # -1
        BY <1>1, <4>1 DEF ScanInv, Target
      <4> QED
        BY <1>7, <1>10, <3>2, <4>2
    <3> QED
      BY <3>1, <3>2
  <2>2. \A s \in Threads : (Target(s))' = g.dst[edge'[s]]
    BY <1>2 DEF Target
  <2> QED
    BY <1>2, <2>1, <2>2 DEF ScanInv
<1>13. ClaimInv'
  BY <1>1, <1>2 DEF ClaimInv
<1>14. \A a \in Edges(g) : (Ahead(a))' <=> Ahead(a)
  <2>1. ASSUME NEW a \in Edges(g), g.src[a] \in Pending' PROVE Ahead(a)
    BY <1>7, <2>1 DEF Ahead
  <2>2. ASSUME NEW a \in Edges(g), NEW s \in Threads,
               (Active(s))', node'[s] = g.src[a], edge'[s] <= a
        PROVE  Ahead(a)
    BY <1>7, <1>10, <2>2 DEF Ahead
  <2>3. ASSUME NEW a \in Edges(g), g.src[a] \in Pending PROVE (Ahead(a))'
    <3>1. CASE g.src[a] \in Pending'
      BY <1>2, <3>1 DEF Ahead
    <3>2. CASE g.src[a] = u
      BY <1>2, <1>8, <1>10, <3>2 DEF Ahead
    <3> QED
      BY <1>7, <2>3, <3>1, <3>2
  <2>4. ASSUME NEW a \in Edges(g), NEW s \in Threads, Active(s), node[s] = g.src[a], edge[s] <= a
        PROVE  (Ahead(a))'
    BY <1>2, <1>10, <2>4 DEF Ahead
  <2>5. \A a \in Edges(g) :
          (Ahead(a))' <=> \/ g.src[a] \in Pending'
                          \/ \E s \in Threads : (Active(s))' /\ node'[s] = g.src[a] /\ edge'[s] <= a
    BY <1>2 DEF Ahead
  <2> QED
    BY <2>1, <2>2, <2>3, <2>4, <2>5 DEF Ahead
<1>15. RecordInv'
  <2>1. All(localLevelEdges) \subseteq Edges(g) /\ (EdgesOf(level))' = EdgesOf(level)
    BY <1>1, <1>2, <1>8 DEF RecordInv, EdgesOf
  <2> QED
    BY <1>1, <1>2, <1>8, <1>14, <2>1 DEF RecordInv
<1>16. CopyInv'
  <2>1. (IsInLoop(t))'
    BY <1>10 DEF IsInLoop
  <2>2. at[NumThreads - 1] # "joined" /\ \A s \in Threads : at'[s] # "joined"
    BY <1>4, <1>5, <1>10 DEF Joining
  <2>3. levelEdgeCount = Base
    BY <1>1, <2>2 DEF CopyInv
  <2>4. \A s \in Threads : at'[s] \in {"barrier", "joined"} =>
          /\ foundNodes[s] = Len(localNodes[s])
          /\ foundLevelEdges[s] = Len(localLevelEdges[s])
    BY <1>1, <1>10 DEF CopyInv
  <2> QED
    BY <1>2, <1>4, <1>10, <2>1, <2>2, <2>3, <2>4 DEF CopyInv, Base
<1>17. LabelInv' /\ LevelsInv' /\ PruneInv' /\ CompactInv' /\ ResultInv'
  BY <1>2, SearchStepKeeps DEF callVars, pruneVars
<1>18. dist'[g'.sink] = -1 \/ dist'[g'.sink] = level' + 1
  BY <1>2 DEF BuilderInv, SearchInv
<1> QED
  BY <1>9, <1>11, <1>12, <1>13, <1>15, <1>16, <1>17, <1>18 DEF BuilderInv, SearchInv

\* A thread that is scanning, and keeps scanning, joins nobody.
LEMMA ScanningKeeps ==
  ASSUME BuilderInv, pc = "search", NEW t \in Threads, Active(t),
         NEW label \in {"scan", "claim", "reread", "loop"}, at' = [at EXCEPT ![t] = label],
         UNCHANGED <<g, pc, global, globalSize, newSize, levelEdgeCount, levelEdgeBase, level,
                     levelVer, untaken, foundNodes, foundLevelEdges>>,
         \A s \in Threads : s # t => /\ localNodes'[s] = localNodes[s]
                                     /\ localLevelEdges'[s] = localLevelEdges[s],
         \A x \in Nodes(g) : dist'[x] = level <=> dist[x] = level
  PROVE  FrontierInv' /\ CopyInv'
<1>1. TypeOK /\ FrontierInv /\ CopyInv
  BY DEF BuilderInv, SearchInv
<1>2. at \in [Threads -> {"loop", "scan", "claim", "reread", "barrier", "joined"}]
  BY <1>1 DEF TypeOK
<1>3. NumThreads - 1 \in Threads
  BY ThreadsAssumption DEF Threads
<1>4. \A s \in Threads : at'[s] \in {"barrier", "joined"} => s # t /\ at[s] = at'[s]
  BY <1>2
<1>5. /\ ~Joining /\ ~Joining'
      /\ \A s \in Threads : at[s] # "joined" /\ at'[s] # "joined"
  BY <1>4, ScanFacts DEF Joining
<1>6. FrontierInv'
  <2>1. {x \in Nodes(g) : dist'[x] = level} = {x \in Nodes(g) : dist[x] = level}
    OBVIOUS
  <2> QED
    BY <1>1, <1>5, <2>1 DEF FrontierInv, Holds
<1>7. CopyInv'
  <2>1. levelEdgeCount = Base
    BY <1>1, <1>3, <1>5 DEF CopyInv
  <2>2. \A s \in Threads : at'[s] \in {"barrier", "joined"} =>
          /\ foundNodes[s] = Len(localNodes'[s])
          /\ foundLevelEdges[s] = Len(localLevelEdges'[s])
    BY <1>1, <1>4 DEF CopyInv
  <2>3. (IsInLoop(t))'
    BY <1>2 DEF IsInLoop
  <2> QED
    BY <1>3, <1>5, <2>1, <2>2, <2>3 DEF CopyInv, Base
<1> QED
  BY <1>6, <1>7

\* A thread reads and goes on, or sees an unlabelled node and comes to claim it, or has
\* found it claimed.
LEMMA ReadKeeps ==
  ASSUME BuilderInv, pc = "search", NEW t \in Threads, SkipEdge(t) \/ ReadDist(t) \/ Reread(t)
  PROVE  BuilderInv'
<1>1. TypeOK /\ LabelInv /\ FrontierInv /\ ScanInv /\ ClaimInv /\ RecordInv /\ CopyInv
  BY DEF BuilderInv, SearchInv
<1>2. /\ UNCHANGED <<callVars, pc, dist, searchVars, node, localNodes, foundVars, pruneVars>>
      /\ UNCHANGED <<g, flow, pc, dist, node, localNodes, foundNodes, foundLevelEdges, pruneVars,
                     global, globalSize, newSize, levelEdges, levelEdgeCount, levelEdgeBase,
                     level, levelVer, untaken, result, reach, lvl, todo, compactLevelEdges, writeCount>>
  BY DEF SkipEdge, ReadDist, Reread, callVars, searchVars, foundVars, pruneVars
<1>3. /\ at \in [Threads -> {"loop", "scan", "claim", "reread", "barrier", "joined"}]
      /\ edge \in [Threads -> Nat] /\ localLevelEdges \in [Threads -> Seq(Edges(g))]
  BY <1>1 DEF TypeOK
<1>4. Active(t) /\ edge[t] < g.ver[node[t] + 1]
  BY <1>1 DEF SkipEdge, ReadDist, Reread, Scanning, Active, ScanInv
<1>5. /\ edge[t] \in Edges(g) /\ edge[t] \in Nat /\ Target(t) \in Nodes(g) /\ level \in Nat
      /\ Residual(g, flow, edge[t]) \in Nat /\ dist[node[t]] = level
  BY <1>4, ScanFacts
<1>6. dist[Target(t)] # -1 => dist[Target(t)] \in 0 .. (level + 1)
  <2>1. dist[Target(t)] \in Nat \cup {-1} /\ dist[Target(t)] <= level + 1
    BY <1>1, <1>5 DEF TypeOK, LabelInv
  <2> QED
    BY <1>5, <2>1
<1>7. \/ /\ at' = [at EXCEPT ![t] = "claim"] /\ UNCHANGED <<edge, localLevelEdges>>
         /\ at[t] = "scan" /\ Residual(g, flow, edge[t]) > 0
      \/ \E b \in BOOLEAN :
           /\ Advance(t, b) /\ at' = [at EXCEPT ![t] = "scan"]
           /\ b => Residual(g, flow, edge[t]) > 0
           /\ Residual(g, flow, edge[t]) > 0 =>
                dist'[Target(t)] \in 0 .. (level + 1) /\ (b <=> dist'[Target(t)] = level + 1)
  <2>1. CASE SkipEdge(t)
    <3>1. /\ Advance(t, FALSE) /\ at' = at /\ at[t] = "scan" /\ Residual(g, flow, edge[t]) <= 0
      BY <2>1 DEF SkipEdge, Scanning
    <3>2. at' = [at EXCEPT ![t] = "scan"]
      BY <1>3, <3>1
    <3>3. ~(Residual(g, flow, edge[t]) > 0)
      BY <1>5, <3>1
    <3>4. \E b \in BOOLEAN :
           /\ Advance(t, b) /\ at' = [at EXCEPT ![t] = "scan"]
           /\ b => Residual(g, flow, edge[t]) > 0
           /\ Residual(g, flow, edge[t]) > 0 =>
                dist'[Target(t)] \in 0 .. (level + 1) /\ (b <=> dist'[Target(t)] = level + 1)
      <4> WITNESS FALSE \in BOOLEAN
      <4> QED
        BY <3>1, <3>2, <3>3
    <3> QED
      BY <3>4
  <2>2. CASE ReadDist(t) /\ dist[Target(t)] = -1
    BY <2>2 DEF ReadDist, GoTo, Scanning
  <2>3. CASE ReadDist(t) /\ dist[Target(t)] # -1
    <3>1. /\ Advance(t, dist[Target(t)] = level + 1) /\ at' = at /\ at[t] = "scan"
          /\ Residual(g, flow, edge[t]) > 0
      BY <1>5, <2>3 DEF ReadDist, Scanning, LevelBeyond
    <3>2. at' = [at EXCEPT ![t] = "scan"]
      BY <1>3, <3>1
    <3> QED
      BY <1>2, <1>6, <2>3, <3>1, <3>2
  <2>4. CASE Reread(t)
    <3>1. /\ Advance(t, dist[Target(t)] = level + 1) /\ at' = [at EXCEPT ![t] = "scan"]
          /\ at[t] = "reread"
      BY <1>5, <2>4 DEF Reread, IsLevelEdge, LevelBeyond, GoTo
    <3>2. dist[Target(t)] # -1 /\ Residual(g, flow, edge[t]) > 0
      BY <1>1, <1>4, <3>1 DEF ScanInv
    <3> QED
      BY <1>2, <1>6, <3>1, <3>2
  <2> QED
    BY <2>1, <2>2, <2>3, <2>4
<1>8. \E label \in {"scan", "claim", "reread", "loop"} : at' = [at EXCEPT ![t] = label]
  BY <1>7
<1>9. /\ at' \in [Threads -> {"loop", "scan", "claim", "reread", "barrier", "joined"}]
      /\ edge' \in [Threads -> Nat] /\ localLevelEdges' \in [Threads -> Seq(Edges(g))]
      /\ \A s \in Threads : s # t => localLevelEdges'[s] = localLevelEdges[s]
  <2>1. Append(localLevelEdges[t], edge[t]) \in Seq(Edges(g))
    BY <1>3, <1>5
  <2>2. CASE UNCHANGED <<edge, localLevelEdges>>
    BY <1>3, <1>8, <2>2
  <2>3. CASE \E b \in BOOLEAN : Advance(t, b)
    BY <1>3, <1>5, <1>8, <2>1, <2>3 DEF Advance
  <2> QED
    BY <1>7, <2>2, <2>3
<1>10. TypeOK'
  BY <1>1, <1>2, <1>9 DEF TypeOK
<1>11. FrontierInv' /\ CopyInv'
  BY <1>2, <1>4, <1>8, <1>9, ScanningKeeps
<1>12. ClaimInv'
  BY <1>1, <1>2 DEF ClaimInv
<1>13. ScanInv' /\ RecordInv'
  <2>1. CASE \E b \in BOOLEAN :
           /\ Advance(t, b) /\ at' = [at EXCEPT ![t] = "scan"]
           /\ b => Residual(g, flow, edge[t]) > 0
           /\ Residual(g, flow, edge[t]) > 0 =>
                dist'[Target(t)] \in 0 .. (level + 1) /\ (b <=> dist'[Target(t)] = level + 1)
    BY <1>2, <1>4, <2>1, AdvanceKeeps
  <2>2. CASE /\ at' = [at EXCEPT ![t] = "claim"] /\ UNCHANGED <<edge, localLevelEdges>>
             /\ at[t] = "scan" /\ Residual(g, flow, edge[t]) > 0
    <3>1. /\ \A s \in Threads : (Active(s))' <=> Active(s)
          /\ \A s \in Threads : s # t => at'[s] = at[s]
          /\ at'[t] = "claim" /\ Pending' = Pending
      BY <1>2, <1>3, <2>2 DEF Active, Pending
    <3>2. ScanInv'
      BY <1>1, <1>2, <1>4, <2>2, <3>1 DEF ScanInv, Target
    <3>3. \A a : (Ahead(a))' <=> Ahead(a)
      BY <1>2, <2>2, <3>1 DEF Ahead
    <3>4. RecordInv'
      BY <1>1, <1>2, <2>2, <3>3 DEF RecordInv, EdgesOf
    <3> QED
      BY <3>2, <3>4
  <2> QED
    BY <1>7, <2>1, <2>2
<1>14. LabelInv' /\ LevelsInv' /\ PruneInv' /\ CompactInv' /\ ResultInv'
  BY <1>2, SearchStepKeeps
<1>15. dist'[g'.sink] = -1 \/ dist'[g'.sink] = level' + 1
  BY <1>2 DEF BuilderInv, SearchInv
<1> QED
  BY <1>10, <1>11, <1>12, <1>13, <1>14, <1>15 DEF BuilderInv, SearchInv

LEMMA ScanEndKeeps ==
  ASSUME BuilderInv, pc = "search", NEW t \in Threads, ScanEnd(t)
  PROVE  BuilderInv'
<1>1. TypeOK /\ FrontierInv /\ ScanInv /\ ClaimInv /\ RecordInv /\ CopyInv
  BY DEF BuilderInv, SearchInv
<1>2. /\ UNCHANGED <<g, flow, pc, dist, node, edge, localNodes, localLevelEdges, foundNodes,
                     foundLevelEdges, global, globalSize, newSize, levelEdges, levelEdgeCount,
                     levelEdgeBase, level, levelVer, untaken, callVars, pruneVars>>
      /\ at[t] = "scan" /\ edge[t] = g.ver[node[t] + 1] /\ at' = [at EXCEPT ![t] = "loop"]
  BY DEF ScanEnd, GoTo, callVars, searchVars, foundVars
<1>3. at \in [Threads -> {"loop", "scan", "claim", "reread", "barrier", "joined"}]
  BY <1>1 DEF TypeOK
<1>4. Active(t) /\ node[t] \in Nodes(g)
  BY <1>1, <1>2 DEF Active, TypeOK
<1>5. /\ \A s \in Threads : (Active(s))' <=> Active(s) /\ s # t
      /\ \A s \in Threads : s # t => at'[s] = at[s]
      /\ Pending' = Pending
  BY <1>2, <1>3 DEF Active, Pending
<1>6. TypeOK'
  <2>1. at' \in [Threads -> {"loop", "scan", "claim", "reread", "barrier", "joined"}]
    BY <1>2, <1>3
  <2> QED
    BY <1>1, <1>2, <2>1 DEF TypeOK, callVars, pruneVars
<1>7. FrontierInv' /\ CopyInv'
  BY <1>2, <1>4, ScanningKeeps
<1>8. ScanInv'
  <2>1. ASSUME NEW s \in Threads, (Active(s))'
        PROVE  /\ dist[node[s]] = level /\ node[s] \notin Pending
               /\ edge[s] \in g.ver[node[s]] .. g.ver[node[s] + 1]
               /\ \A r \in Threads : (Active(r))' /\ r # s => node[r] # node[s]
               /\ at'[s] # "scan" => edge[s] < g.ver[node[s] + 1] /\ Residual(g, flow, edge[s]) > 0
               /\ at'[s] = "reread" => dist[Target(s)] # -1
    BY <1>1, <1>5, <2>1 DEF ScanInv
  <2>2. \A s \in Threads : (Target(s))' = Target(s)
    BY <1>2 DEF Target
  <2> QED
    BY <1>2, <1>5, <2>1, <2>2 DEF ScanInv
<1>9. ClaimInv'
  BY <1>1, <1>2 DEF ClaimInv
<1>10. \A a \in Edges(g) : (Ahead(a))' <=> Ahead(a)
  <2>1. ASSUME NEW a \in Edges(g), g.src[a] = node[t] PROVE ~(edge[t] <= a)
    <3>1. a < g.ver[g.src[a] + 1] /\ g.src[a] \in Nodes(g) /\ a \in Int
      BY <1>1, CaseParts
    <3>2. g.ver[node[t] + 1] \in Nat /\ a < g.ver[node[t] + 1]
      BY <1>1, <1>4, <2>1, <3>1, CaseParts
    <3> QED
      BY <1>2, <3>1, <3>2
  <2> QED
    BY <1>2, <1>5, <2>1 DEF Ahead
<1>11. RecordInv'
  <2>1. /\ ResidualEdges(g, flow) \subseteq Edges(g) /\ (EdgesOf(level))' = EdgesOf(level)
        /\ All(localLevelEdges) \subseteq Edges(g)
    BY <1>1, <1>2 DEF RecordInv, EdgesOf, ResidualEdges
  <2> QED
    BY <1>1, <1>2, <1>10, <2>1 DEF RecordInv
<1>12. LabelInv' /\ LevelsInv' /\ PruneInv' /\ CompactInv' /\ ResultInv'
  BY <1>2, SearchStepKeeps
<1>13. dist'[g'.sink] = -1 \/ dist'[g'.sink] = level' + 1
  BY <1>2 DEF BuilderInv, SearchInv
<1> QED
  BY <1>6, <1>7, <1>8, <1>9, <1>11, <1>12, <1>13 DEF BuilderInv, SearchInv

LEMMA PublishKeeps ==
  ASSUME BuilderInv, pc = "search", NEW t \in Threads, Publish(t)
  PROVE  BuilderInv'
<1>1. TypeOK /\ FrontierInv /\ ScanInv /\ ClaimInv /\ RecordInv /\ CopyInv
  BY DEF BuilderInv, SearchInv
<1>2. /\ UNCHANGED <<g, flow, pc, dist, node, edge, localNodes, localLevelEdges,
                     global, globalSize, newSize, levelEdges, levelEdgeCount,
                     levelEdgeBase, level, levelVer, untaken, callVars, pruneVars>>
      /\ at[t] = "loop" /\ at' = [at EXCEPT ![t] = "barrier"]
      /\ untaken # {} => \E s \in Threads \ {t} : IsInLoop(s)
      /\ foundNodes' = [foundNodes EXCEPT ![t] = Len(localNodes[t])]
      /\ foundLevelEdges' = [foundLevelEdges EXCEPT ![t] = Len(localLevelEdges[t])]
  BY DEF Publish, GoTo, callVars, searchVars
<1>3. /\ at \in [Threads -> {"loop", "scan", "claim", "reread", "barrier", "joined"}]
      /\ foundNodes \in [Threads -> Nat] /\ foundLevelEdges \in [Threads -> Nat]
      /\ localNodes[t] \in Seq(Nodes(g)) /\ localLevelEdges[t] \in Seq(Edges(g))
  BY <1>1 DEF TypeOK
<1>4. NumThreads - 1 \in Threads
  BY ThreadsAssumption DEF Threads
<1>5. /\ \A s \in Threads : (Active(s))' <=> Active(s)
      /\ \A s \in Threads : s # t => at'[s] = at[s]
      /\ at'[t] = "barrier"
      /\ Pending' = Pending
  BY <1>2, <1>3 DEF Active, Pending
<1>6. ~Joining /\ ~Joining'
  <2>1. ~Joining
    BY <1>1, <1>2 DEF CopyInv, HavePublished, IsInLoop
  <2> QED
    BY <1>5, <2>1 DEF Joining
<1>7. TypeOK'
  <2>1. /\ at' \in [Threads -> {"loop", "scan", "claim", "reread", "barrier", "joined"}]
        /\ foundNodes' \in [Threads -> Nat] /\ foundLevelEdges' \in [Threads -> Nat]
    BY <1>2, <1>3
  <2> QED
    BY <1>1, <1>2, <2>1 DEF TypeOK, callVars, pruneVars
<1>8. FrontierInv'
  BY <1>1, <1>2, <1>6 DEF FrontierInv
<1>9. ScanInv'
  <2>1. \A s \in Threads : (Target(s))' = Target(s)
    BY <1>2 DEF Target
  <2>2. \A s \in Threads : Active(s) => s # t
    BY <1>2 DEF Active
  <2> QED
    BY <1>1, <1>2, <1>5, <2>1, <2>2 DEF ScanInv
<1>10. ClaimInv'
  BY <1>1, <1>2 DEF ClaimInv
<1>11. RecordInv'
  <2>1. \A a : (Ahead(a))' <=> Ahead(a)
    BY <1>2, <1>5 DEF Ahead
  <2> QED
    BY <1>1, <1>2, <2>1 DEF RecordInv, EdgesOf
<1>12. CopyInv'
  <2>1. \A s \in Threads : at'[s] \in {"barrier", "joined"} =>
          /\ foundNodes'[s] = Len(localNodes[s])
          /\ foundLevelEdges'[s] = Len(localLevelEdges[s])
    BY <1>1, <1>2, <1>3, <1>5 DEF CopyInv
  <2>2. levelEdgeCount = Base
    BY <1>1, <1>4, <1>6 DEF CopyInv, Joining
  <2>3. untaken # {} => \E s \in Threads : (IsInLoop(s))'
    BY <1>2, <1>5 DEF IsInLoop
  <2> QED
    BY <1>2, <1>4, <1>6, <2>1, <2>2, <2>3 DEF CopyInv, Joining, Base
<1>13. LabelInv' /\ LevelsInv' /\ PruneInv' /\ CompactInv' /\ ResultInv'
  BY <1>2, SearchStepKeeps
<1>14. dist'[g'.sink] = -1 \/ dist'[g'.sink] = level' + 1
  BY <1>2 DEF BuilderInv, SearchInv
<1> QED
  BY <1>7, <1>8, <1>9, <1>10, <1>11, <1>12, <1>13, <1>14 DEF BuilderInv, SearchInv

\* A new find of one thread.
LEMMA FindKeepsDisjoint ==
  ASSUME NEW W, NEW seqs, NEW t \in Threads, seqs[t] \in Seq(W), NEW x \in W,
         Disjoint(seqs), x \notin All(seqs),
         NEW seqs1, \A s \in Threads : seqs1[s] = IF s = t THEN Append(seqs[t], x) ELSE seqs[s]
  PROVE  Disjoint(seqs1) /\ All(seqs1) = All(seqs) \cup {x}
<1>1. /\ Distinct(seqs[t]) /\ \A s \in Threads : x \notin Elements(seqs[s])
      /\ \A s, r \in Threads : s # r => Elements(seqs[s]) \cap Elements(seqs[r]) = {}
      /\ \A s \in Threads : Distinct(seqs[s])
  BY DEF Disjoint, All
<1>2. /\ Elements(Append(seqs[t], x)) = Elements(seqs[t]) \cup {x}
      /\ Distinct(Append(seqs[t], x))
  BY <1>1, AppendFacts
<1>3. \A s \in Threads : /\ Elements(seqs1[s]) = Elements(seqs[s]) \cup (IF s = t THEN {x} ELSE {})
                         /\ Distinct(seqs1[s])
  BY <1>1, <1>2
<1>4. ASSUME NEW s \in Threads, NEW r \in Threads, s # r
      PROVE  Elements(seqs1[s]) \cap Elements(seqs1[r]) = {}
  <2>1. /\ Elements(seqs[s]) \cap Elements(seqs[r]) = {}
        /\ x \notin Elements(seqs[s]) /\ x \notin Elements(seqs[r])
    BY <1>1, <1>4
  <2>2. CASE s = t
    BY <1>3, <1>4, <2>1, <2>2
  <2>3. CASE s # t
    BY <1>3, <2>1, <2>3
  <2> QED
    BY <2>2, <2>3
<1>5. All(seqs1) = All(seqs) \cup {x}
  BY <1>3 DEF All
<1> QED
  BY <1>3, <1>4, <1>5 DEF Disjoint

LEMMA ClaimFails ==
  ASSUME BuilderInv, pc = "search", NEW t \in Threads, Claim(t), ~IsUnclaimed(Target(t))
  PROVE  BuilderInv'
<1>1. TypeOK /\ FrontierInv /\ ScanInv /\ ClaimInv /\ RecordInv /\ CopyInv
  BY DEF BuilderInv, SearchInv
<1>2. /\ UNCHANGED <<g, flow, pc, dist, node, edge, localNodes, localLevelEdges, foundNodes,
                     foundLevelEdges, global, globalSize, newSize, levelEdges, levelEdgeCount,
                     levelEdgeBase, level, levelVer, untaken, callVars, pruneVars>>
      /\ at[t] = "claim" /\ at' = [at EXCEPT ![t] = "reread"] /\ dist[Target(t)] # -1
  BY DEF Claim, GoTo, IsUnclaimed, callVars, searchVars, foundVars
<1>3. at \in [Threads -> {"loop", "scan", "claim", "reread", "barrier", "joined"}]
  BY <1>1 DEF TypeOK
<1>4. Active(t)
  BY <1>2 DEF Active
<1>5. /\ \A s \in Threads : (Active(s))' <=> Active(s)
      /\ \A s \in Threads : s # t => at'[s] = at[s]
      /\ at'[t] = "reread" /\ Pending' = Pending
  BY <1>2, <1>3 DEF Active, Pending
<1>6. TypeOK'
  <2>1. at' \in [Threads -> {"loop", "scan", "claim", "reread", "barrier", "joined"}]
    BY <1>2, <1>3
  <2> QED
    BY <1>1, <1>2, <2>1 DEF TypeOK, callVars, pruneVars
<1>7. FrontierInv' /\ CopyInv'
  BY <1>2, <1>4, ScanningKeeps
<1>8. ScanInv'
  <2>1. \A s \in Threads : (Target(s))' = Target(s)
    BY <1>2 DEF Target
  <2> QED
    BY <1>1, <1>2, <1>5, <2>1 DEF ScanInv
<1>9. ClaimInv'
  BY <1>1, <1>2 DEF ClaimInv
<1>10. RecordInv'
  <2>1. \A a : (Ahead(a))' <=> Ahead(a)
    BY <1>2, <1>5 DEF Ahead
  <2> QED
    BY <1>1, <1>2, <2>1 DEF RecordInv, EdgesOf
<1>11. LabelInv' /\ LevelsInv' /\ PruneInv' /\ CompactInv' /\ ResultInv'
  BY <1>2, SearchStepKeeps
<1>12. dist'[g'.sink] = -1 \/ dist'[g'.sink] = level' + 1
  BY <1>2 DEF BuilderInv, SearchInv
<1> QED
  BY <1>6, <1>7, <1>8, <1>9, <1>10, <1>11, <1>12 DEF BuilderInv, SearchInv

LEMMA ClaimSucceeds ==
  ASSUME BuilderInv, pc = "search", NEW t \in Threads, Claim(t), IsUnclaimed(Target(t))
  PROVE  BuilderInv'
<1> DEFINE y == Target(t)
           e == edge[t]
<1>1. /\ TypeOK /\ LabelInv /\ LevelsInv
      /\ FrontierInv /\ ScanInv /\ ClaimInv /\ RecordInv /\ CopyInv
  BY DEF BuilderInv, SearchInv
<1>2. /\ UNCHANGED <<g, flow, result, pc, node, foundNodes, foundLevelEdges, global, globalSize,
                     newSize, levelEdges, levelEdgeCount, levelEdgeBase, level, levelVer, untaken,
                     reach, lvl, todo, compactLevelEdges, writeCount>>
      /\ at[t] = "claim" /\ at' = [at EXCEPT ![t] = "scan"] /\ dist[y] = -1
      /\ dist' = [dist EXCEPT ![y] = dist[node[t]] + 1]
      /\ localNodes' = [localNodes EXCEPT ![t] = Append(@, y)]
      /\ Advance(t, TRUE)
  BY DEF Claim, GoTo, IsUnclaimed, LevelBeyond, callVars, searchVars, foundVars, pruneVars
<1>3. /\ at \in [Threads -> {"loop", "scan", "claim", "reread", "barrier", "joined"}]
      /\ dist \in [Nodes(g) -> Nat \cup {-1}] /\ level \in Nat
      /\ localNodes \in [Threads -> Seq(Nodes(g))] /\ edge \in [Threads -> Nat]
      /\ localLevelEdges \in [Threads -> Seq(Edges(g))]
  BY <1>1 DEF TypeOK
<1>4. Active(t) /\ e < g.ver[node[t] + 1] /\ Residual(g, flow, e) > 0
  BY <1>1, <1>2 DEF Active, ScanInv
<1>5. /\ node[t] \in Nodes(g) /\ dist[node[t]] = level
      /\ y \in Nodes(g) /\ y = g.dst[e] /\ e \in Edges(g) /\ g.src[e] = node[t]
      /\ e \in ResidualEdges(g, flow)
  BY <1>4, ScanFacts DEF Target
<1> HIDE DEF y
<1>6. /\ dist' = [dist EXCEPT ![y] = level + 1] /\ dist'[y] = level + 1
      /\ \A x \in Nodes(g) : x # y => dist'[x] = dist[x]
      /\ \A x \in Nodes(g) : dist[x] # -1 => dist'[x] = dist[x]
      /\ \A x \in Nodes(g) : dist'[x] # level + 1 => dist'[x] = dist[x]
      /\ \A x \in Nodes(g) : dist'[x] = level <=> dist[x] = level
  BY <1>2, <1>3, <1>5
<1>7. /\ \A a \in ResidualEdges(g, flow) : g.src[a] \in Nodes(g) /\ g.dst[a] \in Nodes(g)
      /\ g.sink \in Nodes(g) /\ g.source \in Nodes(g)
      /\ \A k \in 0 .. (level - 1) : k \in Nat /\ k < level
  <2>1. \A k \in 0 .. (level - 1) : k \in Nat /\ k < level
    BY ONLY <1>3
  <2> QED
    BY <1>1, <2>1, CaseParts, Zenon
<1>8. TypeOK'
  <2>1. /\ at' \in [Threads -> {"loop", "scan", "claim", "reread", "barrier", "joined"}]
        /\ dist' \in [Nodes(g) -> Nat \cup {-1}]
    BY <1>2, <1>3, <1>6
  <2>2. localNodes' \in [Threads -> Seq(Nodes(g))]
    <3>1. Append(localNodes[t], y) \in Seq(Nodes(g))
      BY <1>3, <1>5
    <3> QED
      BY <1>2, <1>3, <3>1
  <2>3. edge' \in [Threads -> Nat] /\ localLevelEdges' \in [Threads -> Seq(Edges(g))]
    <3>1. Append(localLevelEdges[t], e) \in Seq(Edges(g)) /\ e + 1 \in Nat
      BY <1>3, <1>5
    <3> QED
      BY <1>2, <1>3, <3>1 DEF Advance
  <2> QED
    BY <1>1, <1>2, <2>1, <2>2, <2>3 DEF TypeOK
<1>9. FrontierInv' /\ CopyInv'
  <2>1. \A s \in Threads : s # t => /\ localNodes'[s] = localNodes[s]
                                    /\ localLevelEdges'[s] = localLevelEdges[s]
    BY <1>2, <1>3 DEF Advance
  <2> QED
    BY <1>2, <1>4, <1>6, <2>1, ScanningKeeps
<1>10. ScanInv' /\ RecordInv'
  <2>1. \A x \in Nodes(g) : \/ dist'[x] = dist[x]
                            \/ x = Target(t) /\ dist[x] = -1 /\ dist'[x] = level + 1
    BY <1>2, <1>6 DEF y
  <2>2. dist'[Target(t)] \in 0 .. (level + 1) /\ dist'[Target(t)] = level + 1
    BY <1>3, <1>6 DEF y
  <2> QED
    BY <1>2, <1>4, <2>1, <2>2, AdvanceKeeps
<1>11. ClaimInv'
  <2>1. y \notin All(localNodes)
    BY <1>1, <1>2, <1>3 DEF ClaimInv
  <2>2. \A s \in Threads : localNodes'[s] = IF s = t THEN Append(localNodes[t], y) ELSE localNodes[s]
    BY <1>2, <1>3
  <2>3. Disjoint(localNodes') /\ All(localNodes') = All(localNodes) \cup {y}
    <3>1. localNodes[t] \in Seq(Nodes(g)) /\ Disjoint(localNodes)
      BY <1>1, <1>3 DEF ClaimInv
    <3>2. PICK old, new : old = localNodes /\ new = localNodes'
      OBVIOUS
    <3>3. PICK x : x = y
      OBVIOUS
    <3>4. old[t] \in Seq(Nodes(g)) /\ x \in Nodes(g)
      BY <1>5, <3>1, <3>2, <3>3
    <3>5. Disjoint(old) /\ x \notin All(old)
      BY <2>1, <3>1, <3>2, <3>3
    <3>6. \A s \in Threads : new[s] = IF s = t THEN Append(old[t], x) ELSE old[s]
      BY <2>2, <3>2, <3>3
    <3>7. Disjoint(new) /\ All(new) = All(old) \cup {x}
      BY ONLY <3>4, <3>5, <3>6, FindKeepsDisjoint
    <3> QED
      BY <3>2, <3>3, <3>7
  <2>4. {x \in Nodes(g) : dist'[x] = level + 1} = {x \in Nodes(g) : dist[x] = level + 1} \cup {y}
    BY <1>2, <1>3, <1>5, <1>6
  <2> QED
    BY <1>1, <1>2, <2>3, <2>4 DEF ClaimInv
<1>12. LabelInv'
  <2>1. \A x \in Nodes(g) : dist'[x] = 0 <=> x = g.source
    BY <1>1, <1>2, <1>3, <1>6 DEF LabelInv
  <2>2. ASSUME NEW x \in Nodes(g), dist'[x] > 0
        PROVE  \E a \in ResidualEdges(g, flow) : g.dst[a] = x /\ dist'[g.src[a]] = dist'[x] - 1
    <3>1. CASE x = y
      <4>1. dist'[g.src[e]] = level /\ dist'[x] - 1 = level /\ g.dst[e] = x
        BY <1>3, <1>5, <1>6, <3>1
      <4> QED
        BY <1>5, <4>1
    <3>2. CASE x # y
      <4>1. dist'[x] = dist[x] /\ dist[x] \in Nat
        BY <1>3, <1>6, <2>2, <3>2
      <4>2. PICK a \in ResidualEdges(g, flow) : g.dst[a] = x /\ dist[g.src[a]] = dist[x] - 1
        BY <1>1, <2>2, <4>1 DEF LabelInv
      <4>3. dist'[g.src[a]] = dist[g.src[a]]
        BY <1>6, <1>7, <2>2, <4>1, <4>2
      <4> QED
        BY <4>1, <4>2, <4>3
    <3> QED
      BY <3>1, <3>2
  <2>3. \A x \in Nodes(g) : dist'[x] <= level + 1
    BY <1>1, <1>2, <1>3, <1>6 DEF LabelInv
  <2>4. dist'[g.sink] \in {-1, level + 1}
    BY <1>1, <1>2, <1>6, <1>7 DEF LabelInv
  <2>5. \A k \in 0 .. level : \E x \in Nodes(g) : dist'[x] = k
    <3>1. \A k \in 0 .. level : k # -1 /\ \E x \in Nodes(g) : dist[x] = k
      BY <1>1, <1>2, <1>3 DEF LabelInv
    <3> QED
      BY <1>6, <3>1
  <2>6. ASSUME NEW a \in ResidualEdges(g, flow), dist'[g.src[a]] \in 0 .. (level - 1)
        PROVE  dist'[g.dst[a]] \in 0 .. (dist'[g.src[a]] + 1)
    <3>1. dist'[g.src[a]] = dist[g.src[a]]
      BY <1>3, <1>6, <1>7, <2>6
    <3>2. dist[g.dst[a]] \in 0 .. (dist[g.src[a]] + 1)
      BY <1>1, <2>6, <3>1 DEF LabelInv
    <3>3. dist'[g.dst[a]] = dist[g.dst[a]]
      BY <1>6, <1>7, <2>6, <3>1, <3>2
    <3> QED
      BY <3>1, <3>2, <3>3
  <2> QED
    BY <1>2, <2>1, <2>2, <2>3, <2>4, <2>5, <2>6 DEF LabelInv
<1>13. LevelsInv'
  <2>1. ASSUME NEW k \in 0 .. (level - 1) PROVE (EdgesOf(k))' = EdgesOf(k)
    <3>1. \A x \in Nodes(g) : /\ dist'[x] = k <=> dist[x] = k
                              /\ dist'[x] = k + 1 <=> dist[x] = k + 1
      BY <1>2, <1>3, <1>6, <1>7
    <3> QED
      BY <1>2, <1>7, <3>1 DEF EdgesOf
  <2>2. OldVer = levelVer /\ OldVer' = levelVer
    BY <1>2 DEF OldVer
  <2> QED
    BY <1>1, <1>2, <2>1, <2>2 DEF LevelsInv, LevelsDone, Holds
<1>14. PruneInv' /\ CompactInv' /\ ResultInv'
  BY <1>2 DEF PruneInv, CompactInv, ResultInv, BuilderInv
<1>15. dist'[g.sink] = -1 \/ dist'[g.sink] = level + 1
  BY <1>2, <1>12 DEF LabelInv
<1> QED
  BY <1>2, <1>8, <1>9, <1>10, <1>11, <1>12, <1>13, <1>14, <1>15 DEF BuilderInv, SearchInv

\* new[] is array[] of length n with s, of members of W, copied to position i.
IsCopy(new, array, n, i, s, W) ==
  /\ \A k \in 0 .. (n - 1) : new[k] = array[k] \/ new[k] \in W
  /\ \A k \in 0 .. (n - 1) : k < i \/ i + Len(s) <= k => new[k] = array[k]
  /\ Copied(new, i, s)

LEMMA OverwriteFacts ==
  ASSUME NEW n \in Nat, NEW V, NEW array \in [0 .. (n - 1) -> V],
         NEW i \in Nat, NEW W \in SUBSET V, NEW s \in Seq(W), i + Len(s) <= n,
         NEW new, new = Overwrite(array, i, s)
  PROVE  new \in [0 .. (n - 1) -> V] /\ IsCopy(new, array, n, i, s, W)
<1>1. /\ new = [k \in 0 .. (n - 1) |->
                  IF k \in i .. ((i + Len(s)) - 1) THEN s[k - i + 1] ELSE array[k]]
      /\ Len(s) \in Nat
  BY DEF Overwrite
<1>2. ASSUME NEW k \in 0 .. (n - 1)
      PROVE  /\ new[k] \in V /\ (new[k] = array[k] \/ new[k] \in W)
             /\ k < i \/ i + Len(s) <= k => new[k] = array[k]
  <2>1. CASE k \in i .. ((i + Len(s)) - 1)
    <3>1. k - i + 1 \in 1 .. Len(s) /\ new[k] = s[k - i + 1] /\ ~(k < i) /\ ~(i + Len(s) <= k)
      BY <1>1, <2>1
    <3> QED
      BY <3>1
  <2>2. CASE k \notin i .. ((i + Len(s)) - 1)
    BY <1>1, <2>2
  <2> QED
    BY <2>1, <2>2
<1>3. ASSUME NEW k \in 1 .. Len(s) PROVE new[i + k - 1] = s[k]
  <2>1. /\ i + k - 1 \in 0 .. (n - 1) /\ i + k - 1 \in i .. ((i + Len(s)) - 1)
        /\ (i + k - 1) - i + 1 = k
    BY <1>1
  <2> QED
    BY <1>1, <2>1
<1>4. new \in [0 .. (n - 1) -> V]
  BY <1>1, <1>2
<1> QED
  BY <1>2, <1>3, <1>4 DEF Copied, IsCopy

\* A thread copies its finds; those of the others stay where they are.
LEMMA CopyKeepsOthers ==
  ASSUME NEW f, \A s \in Threads : f[s] \in Nat, NEW t \in Threads,
         NEW b \in Nat, NEW n \in Nat, b + Before(f, NumThreads) <= n,
         NEW array, NEW new,
         \A k \in 0 .. (n - 1) :
            k < b + Before(f, t) \/ (b + Before(f, t)) + f[t] <= k => new[k] = array[k]
  PROVE  /\ \A k \in 0 .. (b - 1) : new[k] = array[k]
         /\ \A s \in Threads : s # t =>
              \A k \in 1 .. f[s] : new[b + Before(f, s) + k - 1] = array[b + Before(f, s) + k - 1]
<1>1. /\ \A s \in Threads : Before(f, s) \in Nat /\ Before(f, s) + f[s] <= Before(f, NumThreads)
      /\ \A s, r \in Threads : s < r => Before(f, s) + f[s] <= Before(f, r)
      /\ Before(f, NumThreads) \in Nat
  BY PrefixSums
<1>2. ASSUME NEW k \in 0 .. (b - 1) PROVE new[k] = array[k]
  <2>1. Before(f, t) \in Nat
    BY <1>1
  <2>2. k \in 0 .. (n - 1) /\ k < b + Before(f, t)
    BY <1>1, <2>1
  <2> QED
    BY <2>2
<1>3. ASSUME NEW s \in Threads, s # t, NEW k \in 1 .. f[s]
      PROVE  new[b + Before(f, s) + k - 1] = array[b + Before(f, s) + k - 1]
  <2>1. /\ s \in Int /\ t \in Int /\ f[s] \in Nat /\ f[t] \in Nat
        /\ Before(f, s) \in Nat /\ Before(f, t) \in Nat
        /\ Before(f, s) + f[s] <= Before(f, NumThreads)
    BY <1>1 DEF Threads
  <2> DEFINE p == b + Before(f, s) + k - 1
  <2>2. p \in 0 .. (n - 1)
    BY <1>1, <2>1
  <2>3. CASE s < t
    <3>1. Before(f, s) + f[s] <= Before(f, t)
      BY <1>1, <2>3
    <3>2. p < b + Before(f, t)
      BY <2>1, <3>1
    <3> QED
      BY <2>2, <3>2
  <2>4. CASE t < s
    <3>1. Before(f, t) + f[t] <= Before(f, s)
      BY <1>1, <2>4
    <3>2. (b + Before(f, t)) + f[t] <= p
      BY <2>1, <3>1
    <3> QED
      BY <2>2, <3>2
  <2> QED
    BY <1>3, <2>1, <2>3, <2>4
<1> QED
  BY <1>2, <1>3

LEMMA CopyKeeps ==
  ASSUME BuilderInv, pc = "search", NEW t \in Threads, Copy(t)
  PROVE  BuilderInv'
<1> DEFINE i == Before(foundNodes, t)
           j == Base + Before(foundLevelEdges, t)
<1>1. /\ TypeOK /\ LabelInv /\ LevelsInv
      /\ FrontierInv /\ ScanInv /\ ClaimInv /\ RecordInv /\ CopyInv
  BY DEF BuilderInv, SearchInv
<1>2. /\ UNCHANGED <<g, flow, result, pc, dist, globalSize, levelEdgeBase, level, levelVer, untaken,
                     node, edge, localNodes, localLevelEdges, foundNodes, foundLevelEdges,
                     reach, lvl, todo, compactLevelEdges, writeCount>>
      /\ at[t] = "barrier" /\ at' = [at EXCEPT ![t] = "joined"]
      /\ \A s \in Threads : at[s] \in {"barrier", "joined"} /\ ~IsInLoop(s)
      /\ global' = Overwrite(global, i, localNodes[t])
      /\ levelEdges' = Overwrite(levelEdges, j, localLevelEdges[t])
      /\ IF t = NumThreads - 1
         THEN newSize' = i + Len(localNodes[t]) /\ levelEdgeCount' = j + Len(localLevelEdges[t])
         ELSE UNCHANGED <<newSize, levelEdgeCount>>
  BY DEF Copy, GoTo, HavePublished, IsInLoop, callVars, foundVars, pruneVars
<1>3. /\ at \in [Threads -> {"loop", "scan", "claim", "reread", "barrier", "joined"}]
      /\ global \in [Nodes(g) -> Int] /\ levelEdges \in [Edges(g) -> Edges(g) \cup {-1}]
      /\ \A s \in Threads : /\ localNodes[s] \in Seq(Nodes(g)) /\ Len(localNodes[s]) \in Nat
                            /\ localLevelEdges[s] \in Seq(Edges(g)) /\ Len(localLevelEdges[s]) \in Nat
      /\ level \in Nat /\ newSize \in Nat /\ levelEdgeCount \in Nat
  BY <1>1 DEF TypeOK
<1>4. \A s \in Threads : /\ foundNodes[s] = Len(localNodes[s]) /\ foundNodes[s] \in Nat
                         /\ foundLevelEdges[s] = Len(localLevelEdges[s]) /\ foundLevelEdges[s] \in Nat
  BY <1>1, <1>2, <1>3 DEF CopyInv
<1>5. /\ Before(foundNodes, NumThreads) \in 0 .. g.nodeCount
      /\ i + Len(localNodes[t]) <= g.nodeCount
      /\ Base + Before(foundLevelEdges, NumThreads) \in 0 .. g.edgeCount
      /\ j + Len(localLevelEdges[t]) <= g.edgeCount
      /\ levelEdgeBase \in Nat /\ Base = levelEdgeBase
  BY <1>2, RoomForFinds DEF Base
<1>6. /\ \A s \in Threads : Before(foundNodes, s) \in Nat /\ Before(foundLevelEdges, s) \in Nat
      /\ i \in Nat /\ j \in Nat
      /\ i + foundNodes[t] = Before(foundNodes, t + 1)
      /\ j + foundLevelEdges[t] = Base + Before(foundLevelEdges, t + 1)
  <2>1. /\ \A s \in Threads : /\ Before(foundNodes, s) \in Nat
                              /\ Before(foundNodes, s + 1) = Before(foundNodes, s) + foundNodes[s]
    BY <1>4, PrefixSums
  <2>2. /\ \A s \in Threads : /\ Before(foundLevelEdges, s) \in Nat
                              /\ Before(foundLevelEdges, s + 1)
                                   = Before(foundLevelEdges, s) + foundLevelEdges[s]
    BY <1>4, PrefixSums
  <2>3. t \in Threads /\ Base \in Nat
    BY <1>5
  <2>4. /\ foundNodes[t] \in Nat /\ Before(foundNodes, t) \in Nat
        /\ Before(foundNodes, t + 1) = Before(foundNodes, t) + foundNodes[t]
        /\ foundLevelEdges[t] \in Nat /\ Before(foundLevelEdges, t) \in Nat
        /\ Before(foundLevelEdges, t + 1) = Before(foundLevelEdges, t) + foundLevelEdges[t]
    BY <1>4, <2>1, <2>2, <2>3, Zenon
  <2>5. /\ i \in Nat /\ j \in Nat
        /\ i + foundNodes[t] = Before(foundNodes, t + 1)
        /\ j + foundLevelEdges[t] = Base + Before(foundLevelEdges, t + 1)
    BY ONLY <2>3, <2>4 DEF i, j
  <2> QED
    BY <2>1, <2>2, <2>5, Zenon
<1>7. /\ g.nodeCount \in Nat /\ g.edgeCount \in Nat
      /\ Nodes(g) = 0 .. (g.nodeCount - 1) /\ Edges(g) = 0 .. (g.edgeCount - 1)
  BY <1>1, CaseParts
<1> HIDE DEF i, j
<1>8. /\ global' \in [Nodes(g) -> Int]
      /\ \A k \in Nodes(g) : global'[k] = global[k] \/ global'[k] \in Nodes(g)
      /\ \A k \in Nodes(g) : k < i \/ i + Len(localNodes[t]) <= k => global'[k] = global[k]
      /\ Copied(global', i, localNodes[t])
  <2>1. PICK n, V, old, m, W, s, new :
          /\ n = g.nodeCount /\ V = Int /\ old = global /\ m = i
          /\ W = Nodes(g) /\ s = localNodes[t] /\ new = global'
    OBVIOUS
  <2>2. n \in Nat /\ m \in Nat /\ m + Len(s) <= n
    BY <1>5, <1>6, <1>7, <2>1
  <2>3. old \in [0 .. (n - 1) -> V]
    BY <1>3, <1>7, <2>1
  <2>4. s \in Seq(W) /\ W \in SUBSET V
    BY <1>3, <1>7, <2>1
  <2>5. new = Overwrite(old, m, s)
    BY <1>2, <2>1
  <2>6. new \in [0 .. (n - 1) -> V] /\ IsCopy(new, old, n, m, s, W)
    BY ONLY <2>2, <2>3, <2>4, <2>5, OverwriteFacts, Zenon
  <2> QED
    BY <1>7, <2>1, <2>6 DEF IsCopy
<1>9. /\ levelEdges' \in [Edges(g) -> Edges(g) \cup {-1}]
      /\ \A k \in Edges(g) : k < j \/ j + Len(localLevelEdges[t]) <= k => levelEdges'[k] = levelEdges[k]
      /\ Copied(levelEdges', j, localLevelEdges[t])
  <2>1. PICK n, V, old, m, W, s, new :
          /\ n = g.edgeCount /\ V = Edges(g) \cup {-1} /\ old = levelEdges /\ m = j
          /\ W = Edges(g) /\ s = localLevelEdges[t] /\ new = levelEdges'
    OBVIOUS
  <2>2. n \in Nat /\ m \in Nat /\ m + Len(s) <= n
    BY <1>5, <1>6, <1>7, <2>1
  <2>3. old \in [0 .. (n - 1) -> V]
    BY <1>3, <1>7, <2>1
  <2>4. s \in Seq(W) /\ W \in SUBSET V
    BY <1>3, <1>7, <2>1
  <2>5. new = Overwrite(old, m, s)
    BY <1>2, <2>1
  <2>6. new \in [0 .. (n - 1) -> V] /\ IsCopy(new, old, n, m, s, W)
    BY ONLY <2>2, <2>3, <2>4, <2>5, OverwriteFacts, Zenon
  <2> QED
    BY <1>7, <2>1, <2>6 DEF IsCopy
<1>10. /\ \A s \in Threads : s # t => at'[s] = at[s]
       /\ at'[t] = "joined" /\ \A s \in Threads : at'[s] \in {"barrier", "joined"}
       /\ \A s \in Threads : ~Active(s) /\ ~(Active(s))'
       /\ at' \in [Threads -> {"loop", "scan", "claim", "reread", "barrier", "joined"}]
  BY <1>2, <1>3 DEF Active
<1>11. TypeOK'
  <2>1. /\ global' \in [Nodes(g) -> Int] /\ levelEdges' \in [Edges(g) -> Edges(g) \cup {-1}]
    BY <1>8, <1>9
  <2>2. newSize' \in Nat /\ levelEdgeCount' \in Nat
    <3>1. /\ newSize \in Nat /\ levelEdgeCount \in Nat /\ i \in Nat /\ j \in Nat
          /\ Len(localNodes[t]) \in Nat /\ Len(localLevelEdges[t]) \in Nat
      BY <1>3, <1>6
    <3>2. /\ newSize' = newSize \/ newSize' = i + Len(localNodes[t])
          /\ levelEdgeCount' = levelEdgeCount
               \/ levelEdgeCount' = j + Len(localLevelEdges[t])
      BY <1>2
    <3> QED
      BY ONLY <3>1, <3>2
  <2> QED
    BY <1>1, <1>2, <1>10, <2>1, <2>2 DEF TypeOK
<1>12. untaken = {} /\ Pending = {} /\ Pending' = {} /\ globalSize \in Nat
  <2>1. untaken = {} /\ globalSize \in Nat
    BY <1>1, <1>2 DEF CopyInv, TypeOK
  <2> QED
    BY <1>2, <2>1 DEF Pending
<1>13. FrontierInv'
  <2>1. Joining'
    BY <1>10 DEF Joining
  <2>2. \A k \in 0 .. (globalSize - 1) : global'[k] \in Nodes(g)
    <3>1. \A k \in 0 .. (globalSize - 1) : k \in Nodes(g) /\ global[k] \in Nodes(g)
      BY <1>1, <1>7, <1>12 DEF FrontierInv
    <3> QED
      BY <1>8, <3>1
  <2> QED
    BY <1>1, <1>2, <2>1, <2>2 DEF FrontierInv
<1>14. ScanInv'
  BY <1>10 DEF ScanInv
<1>15. ClaimInv'
  BY <1>1, <1>2 DEF ClaimInv
<1>16. RecordInv'
  <2>1. \A a : ~Ahead(a) /\ ~(Ahead(a))'
    BY <1>10, <1>12 DEF Ahead
  <2> QED
    BY <1>1, <1>2, <2>1 DEF RecordInv, EdgesOf
<1>17. /\ \A k \in 0 .. (Base - 1) : levelEdges'[k] = levelEdges[k]
       /\ \A s \in Threads : s # t =>
            \A k \in 1 .. foundLevelEdges[s] :
              levelEdges'[Base + Before(foundLevelEdges, s) + k - 1]
                = levelEdges[Base + Before(foundLevelEdges, s) + k - 1]
  <2>1. \A k \in 0 .. (g.edgeCount - 1) :
          k < Base + Before(foundLevelEdges, t) \/ (Base + Before(foundLevelEdges, t)) + foundLevelEdges[t] <= k
            => levelEdges'[k] = levelEdges[k]
    BY <1>4, <1>7, <1>9 DEF j
  <2>2. Base \in Nat /\ Base + Before(foundLevelEdges, NumThreads) <= g.edgeCount
    BY <1>5
  <2>3. PICK f, b, n, old, new : /\ f = foundLevelEdges /\ b = Base /\ n = g.edgeCount
                                 /\ old = levelEdges /\ new = levelEdges'
    OBVIOUS
  <2>4. /\ \A s \in Threads : f[s] \in Nat
        /\ b \in Nat /\ n \in Nat /\ b + Before(f, NumThreads) <= n
        /\ \A k \in 0 .. (n - 1) :
             k < b + Before(f, t) \/ (b + Before(f, t)) + f[t] <= k => new[k] = old[k]
    BY <1>4, <1>7, <2>1, <2>2, <2>3
  <2>5. /\ \A k \in 0 .. (b - 1) : new[k] = old[k]
        /\ \A s \in Threads : s # t =>
             \A k \in 1 .. f[s] : new[b + Before(f, s) + k - 1] = old[b + Before(f, s) + k - 1]
    BY <2>4, CopyKeepsOthers
  <2> QED
    BY <2>3, <2>5
<1>18. \A s \in Threads : s # t =>
         \A k \in 1 .. foundNodes[s] :
           global'[Before(foundNodes, s) + k - 1] = global[Before(foundNodes, s) + k - 1]
  <2>1. \A k \in 0 .. (g.nodeCount - 1) :
          k < Before(foundNodes, t) \/ Before(foundNodes, t) + foundNodes[t] <= k
            => global'[k] = global[k]
    BY <1>4, <1>7, <1>8 DEF i
  <2>2. PICK f, n, old, new : /\ f = foundNodes /\ n = g.nodeCount
                              /\ old = global /\ new = global'
    OBVIOUS
  <2>3. \A s \in Threads : f[s] \in Nat /\ Before(f, s) \in Nat /\ 0 + Before(f, s) = Before(f, s)
    BY <1>4, <1>6, <2>2
  <2>4. /\ \A s \in Threads : f[s] \in Nat
        /\ n \in Nat /\ 0 + Before(f, NumThreads) <= n
        /\ \A k \in 0 .. (n - 1) :
             k < 0 + Before(f, t) \/ (0 + Before(f, t)) + f[t] <= k => new[k] = old[k]
    BY <1>5, <1>7, <2>1, <2>2, <2>3
  <2>5. \A s \in Threads : s # t =>
          \A k \in 1 .. f[s] : new[0 + Before(f, s) + k - 1] = old[0 + Before(f, s) + k - 1]
    BY <2>4, CopyKeepsOthers
  <2>6. ASSUME NEW s \in Threads, NEW k \in 1 .. f[s]
        PROVE  0 + Before(f, s) + k - 1 = Before(f, s) + k - 1
    BY <2>3
  <2> QED
    BY <2>2, <2>5, <2>6
<1>19. CopyInv'
  <2>1. ASSUME NEW s \in Threads, at'[s] = "joined"
        PROVE  /\ Copied(global', Before(foundNodes, s), localNodes[s])
               /\ Copied(levelEdges', Base + Before(foundLevelEdges, s), localLevelEdges[s])
    <3>1. CASE s = t
      BY <1>8, <1>9, <3>1 DEF i, j
    <3>2. CASE s # t
      <4>1. /\ Copied(global, Before(foundNodes, s), localNodes[s])
            /\ Copied(levelEdges, Base + Before(foundLevelEdges, s), localLevelEdges[s])
        BY <1>1, <1>10, <2>1, <3>2 DEF CopyInv
      <4>2. /\ foundNodes[s] = Len(localNodes[s])
            /\ foundLevelEdges[s] = Len(localLevelEdges[s])
        BY <1>4
      <4>3. Copied(global', Before(foundNodes, s), localNodes[s])
        BY <1>18, <3>2, <4>1, <4>2 DEF Copied
      <4>4. Copied(levelEdges', Base + Before(foundLevelEdges, s), localLevelEdges[s])
        BY <1>17, <3>2, <4>1, <4>2 DEF Copied
      <4> QED
        BY <4>3, <4>4
    <3> QED
      BY <3>1, <3>2
  <2>2. Base' = Base
    BY <1>2 DEF Base
  <2>3. CASE t = NumThreads - 1
    <3>1. t + 1 = NumThreads
      BY <2>3, ThreadsAssumption
    <3>2. /\ newSize' = Before(foundNodes, NumThreads)
          /\ levelEdgeCount' = Base + Before(foundLevelEdges, NumThreads)
      BY <1>2, <1>4, <1>6, <2>3, <3>1
    <3> QED
      BY <1>2, <1>4, <1>10, <1>12, <2>1, <2>2, <2>3, <3>2 DEF CopyInv, HavePublished, IsInLoop, Joining
  <2>4. CASE t # NumThreads - 1
    <3>1. NumThreads - 1 \in Threads
      BY ThreadsAssumption DEF Threads
    <3>2. at'[NumThreads - 1] = at[NumThreads - 1] /\ UNCHANGED <<newSize, levelEdgeCount>>
      BY <1>2, <1>10, <2>4, <3>1
    <3> QED
      BY <1>1, <1>2, <1>4, <1>10, <1>12, <2>1, <2>2, <3>2 DEF CopyInv, HavePublished, IsInLoop, Joining
  <2> QED
    BY <2>3, <2>4
<1>20. LevelsInv'
  <2>1. OldVer = levelVer /\ OldVer' = levelVer
    BY <1>2 DEF OldVer
  <2>2. ASSUME NEW k \in 0 .. (level - 1)
        PROVE  Holds(levelEdges', levelVer[k], levelVer[k + 1], EdgesOf(k))
    <3>1. /\ Holds(levelEdges, levelVer[k], levelVer[k + 1], EdgesOf(k))
          /\ levelVer[k] \in Nat /\ levelVer[k + 1] \in Nat
          /\ levelVer[k + 1] <= levelVer[level] /\ levelVer[level] = Base
      <4>1. k \in 0 .. level /\ k + 1 \in 0 .. level
        BY <1>3
      <4> QED
        BY <1>1, <2>1, <4>1 DEF LevelsInv, LevelsDone, FrontierInv, Base
    <3>2. \A m \in levelVer[k] .. (levelVer[k + 1] - 1) : m \in 0 .. (Base - 1)
      BY <1>5, <3>1
    <3>3. \A m \in levelVer[k] .. (levelVer[k + 1] - 1) : levelEdges'[m] = levelEdges[m]
      BY <1>17, <3>2
    <3> QED
      BY <3>1, <3>3 DEF Holds
  <2>3. \A k : (EdgesOf(k))' = EdgesOf(k)
    BY <1>2 DEF EdgesOf
  <2> QED
    BY <1>1, <1>2, <2>1, <2>2, <2>3 DEF LevelsInv, LevelsDone
<1>21. LabelInv' /\ ResultInv' /\ PruneInv' /\ CompactInv'
  BY <1>1, <1>2 DEF LabelInv, PruneInv, CompactInv, ResultInv, BuilderInv
<1>22. dist'[g'.sink] = -1 \/ dist'[g'.sink] = level' + 1
  BY <1>2 DEF BuilderInv, SearchInv
<1> QED
  BY <1>11, <1>13, <1>14, <1>15, <1>16, <1>19, <1>20, <1>21, <1>22 DEF BuilderInv, SearchInv

\* The end of a region: its finds are the next frontier and the next level of edges.
LEMMA JoinKeeps ==
  ASSUME BuilderInv, Join
  PROVE  BuilderInv'
<1>1. /\ TypeOK /\ LabelInv /\ LevelsInv /\ pc = "search" /\ ResultInv
      /\ FrontierInv /\ ClaimInv /\ RecordInv /\ CopyInv
  BY DEF BuilderInv, SearchInv, Join
<1>2. /\ \A t \in Threads : at[t] = "joined"
      /\ globalSize' = newSize /\ newSize' = 0 /\ level' = level + 1
      /\ untaken' = 0 .. (newSize - 1)
      /\ levelVer' = [levelVer EXCEPT ![level + 1] = levelEdgeCount]
      /\ levelEdgeBase' = levelEdgeCount
      /\ at' = [t \in Threads |-> "loop"]
      /\ localNodes' = Fresh(localNodes) /\ localLevelEdges' = Fresh(localLevelEdges)
      /\ UNCHANGED <<g, flow, dist, global, levelEdges, levelEdgeCount, node, edge,
                     foundNodes, foundLevelEdges, reach, lvl, todo, compactLevelEdges, writeCount>>
  BY DEF Join, foundVars, pruneVars
<1>3. \/ pc' = "prune" /\ result' = result /\ dist[g.sink] # -1
      \/ pc' = "search" /\ result' = result /\ dist[g.sink] = -1 /\ newSize # 0
      \/ pc' = "return" /\ result' = 0 /\ dist[g.sink] = -1 /\ newSize = 0
  BY <1>1 DEF Join
<1>4. /\ NumThreads - 1 \in Threads /\ level \in Nat /\ newSize \in Nat /\ levelEdgeCount \in Nat
      /\ dist \in [Nodes(g) -> Nat \cup {-1}] /\ levelVer \in [0 .. g.nodeCount -> Nat]
      /\ \A t \in Threads : /\ localNodes[t] \in Seq(Nodes(g))
                            /\ localLevelEdges[t] \in Seq(Edges(g))
      /\ DOMAIN localNodes = Threads /\ DOMAIN localLevelEdges = Threads
  BY <1>1, ThreadsAssumption DEF TypeOK, Threads
<1>5. /\ untaken = {}
      /\ \A t \in Threads : /\ foundNodes[t] = Len(localNodes[t])
                            /\ foundLevelEdges[t] = Len(localLevelEdges[t])
                            /\ Copied(global, Before(foundNodes, t), localNodes[t])
                            /\ Copied(levelEdges, Base + Before(foundLevelEdges, t), localLevelEdges[t])
      /\ newSize = Before(foundNodes, NumThreads)
      /\ levelEdgeCount = Base + Before(foundLevelEdges, NumThreads)
  BY <1>1, <1>2, <1>4 DEF CopyInv, IsInLoop
<1>6. /\ Base \in Nat /\ Base = levelEdgeBase
      /\ newSize <= g.nodeCount /\ levelEdgeCount <= g.edgeCount
      /\ \A t \in Threads : foundNodes[t] \in Nat /\ Before(foundNodes, t) \in Nat
  <2>1. /\ Base \in Nat /\ newSize \in 0 .. g.nodeCount /\ levelEdgeCount \in 0 .. g.edgeCount
    BY <1>1, <1>2, <1>5, RoomForFinds DEF Base
  <2>2. \A t \in Threads : foundNodes[t] \in Nat
    BY <1>4, <1>5
  <2>3. \A t \in Threads : Before(foundNodes, t) \in Nat
    BY <2>2, PrefixSums
  <2> QED
    BY <1>1, <2>1, <2>2, <2>3, CaseParts DEF Base
<1>7. Holds(global, 0, newSize, {x \in Nodes(g) : dist[x] = level + 1})
  <2>1. \A t \in Threads : Copied(global, 0 + Before(foundNodes, t), localNodes[t])
    <3>1. \A t \in Threads : 0 + Before(foundNodes, t) = Before(foundNodes, t)
      BY <1>6
    <3> QED
      BY <1>5, <3>1
  <2>2. Disjoint(localNodes) /\ All(localNodes) = {x \in Nodes(g) : dist[x] = level + 1}
    BY <1>1 DEF ClaimInv
  <2>3. PICK W, seqs, f, array : /\ W = Nodes(g) /\ seqs = localNodes /\ f = foundNodes
                                 /\ array = global
    OBVIOUS
  <2>4. /\ \A t \in Threads : seqs[t] \in Seq(W)
        /\ Disjoint(seqs)
        /\ \A t \in Threads : f[t] = Len(seqs[t])
        /\ \A t \in Threads : Copied(array, 0 + Before(f, t), seqs[t])
    BY <1>4, <1>5, <2>1, <2>2, <2>3
  <2>5. Holds(array, 0, 0 + Before(f, NumThreads), All(seqs))
    <3>1. 0 \in Nat
      OBVIOUS
    <3> QED
      BY ONLY <2>4, <3>1, Gathered, Zenon
  <2>6. 0 + Before(f, NumThreads) = newSize
    BY <1>4, <1>5, <2>3
  <2> QED
    BY <2>2, <2>3, <2>5, <2>6
<1>8. Holds(levelEdges, levelEdgeBase, levelEdgeCount, EdgesOf(level))
  <2>1. \A a : ~Ahead(a)
    BY <1>2, <1>5 DEF Ahead, Pending, Active
  <2>2. All(localLevelEdges) = EdgesOf(level)
    BY <1>1, <2>1 DEF RecordInv, EdgesOf
  <2>3. PICK W, seqs, f, array, b : /\ W = Edges(g) /\ seqs = localLevelEdges
                                    /\ f = foundLevelEdges /\ array = levelEdges /\ b = Base
    OBVIOUS
  <2>4. /\ \A t \in Threads : seqs[t] \in Seq(W)
        /\ Disjoint(seqs)
        /\ \A t \in Threads : f[t] = Len(seqs[t])
        /\ \A t \in Threads : Copied(array, b + Before(f, t), seqs[t])
        /\ b \in Nat
    BY <1>1, <1>4, <1>5, <1>6, <2>3 DEF RecordInv
  <2>5. Holds(array, b, b + Before(f, NumThreads), All(seqs))
    BY ONLY <2>4, Gathered, Zenon
  <2> QED
    BY <1>5, <1>6, <2>2, <2>3, <2>5
<1>9. /\ g.nodeCount \in Nat /\ level < g.nodeCount
      /\ Nodes(g) = 0 .. (g.nodeCount - 1) /\ g.sink \in Nodes(g)
      /\ \A a \in ResidualEdges(g, flow) : g.src[a] \in Nodes(g) /\ g.dst[a] \in Nodes(g)
  BY <1>1, CaseParts, LevelFits
<1>10. /\ levelVer' \in [0 .. g.nodeCount -> Nat]
       /\ levelVer'[level + 1] = levelEdgeCount
       /\ \A k \in 0 .. level : levelVer'[k] = levelVer[k]
  BY <1>2, <1>4, <1>9
<1>11. \A t \in Threads : localNodes'[t] = <<>> /\ localLevelEdges'[t] = <<>>
  BY <1>2, <1>4 DEF Fresh
<1>12. TypeOK'
  <2>1. /\ at' \in [Threads -> {"loop", "scan", "claim", "reread", "barrier", "joined"}]
        /\ localNodes' \in [Threads -> Seq(Nodes(g))]
        /\ localLevelEdges' \in [Threads -> Seq(Edges(g))]
    BY <1>2, <1>4 DEF Fresh
  <2>2. /\ newSize' \in Nat /\ globalSize' \in Nat /\ level' \in Nat /\ untaken' \in SUBSET Int
        /\ levelEdgeBase' \in Nat /\ levelEdgeCount' \in Nat
        /\ pc' \in Labels /\ result' \in {-1, 0, 1}
    BY <1>1, <1>2, <1>3, <1>4 DEF TypeOK, Labels
  <2> QED
    BY <1>1, <1>2, <1>10, <2>1, <2>2 DEF TypeOK
<1>13. \A x \in Nodes(g) : dist[x] <= level + 1
  BY <1>1 DEF LabelInv
<1>14. dist[g.sink] \in {-1, level + 1}
  BY <1>1 DEF LabelInv
<1>15. LabelInv'
  <2>1. \A x \in Nodes(g) : dist[x] <= (IF pc' = "search" THEN level' + 1 ELSE level')
    <3>1. \A x \in Nodes(g) : dist[x] \in Int /\ dist[x] <= level + 1
      BY <1>4, <1>13
    <3>2. \A x \in Nodes(g) : dist[x] <= level' /\ dist[x] <= level' + 1
      BY <1>2, <1>4, <3>1
    <3> QED
      BY <3>2
  <2>2. /\ dist[g.sink] \in {-1, IF pc' = "search" THEN level' + 1 ELSE level'}
        /\ pc' \in {"prune", "reach", "compact"} => dist[g.sink] = level'
    BY <1>2, <1>3, <1>14
  <2>3. ASSUME NEW k \in 0 .. level'
        PROVE  (\E x \in Nodes(g) : dist[x] = k) \/ (pc' = "return" /\ k = level')
    <3>1. CASE k \in 0 .. level
      BY <1>1, <3>1 DEF LabelInv
    <3>2. CASE k = level + 1
      <4>1. CASE pc' = "prune"
        BY <1>3, <1>9, <1>14, <3>2, <4>1
      <4>2. CASE pc' = "search"
        <5>1. 0 \in 0 .. (newSize - 1)
          BY <1>3, <1>4, <4>2
        <5>2. global[0] \in {x \in Nodes(g) : dist[x] = level + 1}
          BY <1>7, <5>1 DEF Holds
        <5> QED
          BY <3>2, <5>2
      <4> QED
        BY <1>2, <1>3, <3>2, <4>1, <4>2
    <3> QED
      BY <1>2, <1>4, <3>1, <3>2
  <2>4. ASSUME NEW a \in ResidualEdges(g, flow), dist[g.src[a]] \in 0 .. (level' - 1)
        PROVE  dist[g.dst[a]] \in 0 .. (dist[g.src[a]] + 1)
    <3>1. CASE dist[g.src[a]] \in 0 .. (level - 1)
      BY <1>1, <3>1 DEF LabelInv
    <3>2. CASE dist[g.src[a]] = level
      <4>1. ~Ahead(a)
        BY <1>2, <1>5 DEF Ahead, Pending, Active
      <4> QED
        BY <1>1, <3>2, <4>1 DEF RecordInv
    <3> QED
      BY <1>2, <1>4, <2>4, <3>1, <3>2
  <2>5. /\ \A x \in Nodes(g) :
             /\ dist[x] = 0 <=> x = g.source
             /\ dist[x] > 0 => \E a \in ResidualEdges(g, flow) :
                                 g.dst[a] = x /\ dist[g.src[a]] = dist[x] - 1
    BY <1>1 DEF LabelInv
  <2> QED
    BY <1>2, <2>1, <2>2, <2>3, <2>4, <2>5 DEF LabelInv
<1>16. LevelsInv'
  <2>1. OldVer = levelVer /\ OldVer' = levelVer'
    BY <1>1, <1>3 DEF OldVer
  <2>2. /\ levelVer[0] = 0 /\ (\A k \in 0 .. level : levelVer[k] \in Nat)
        /\ levelVer[level] = levelEdgeBase
        /\ \A k \in 0 .. (level - 1) :
             /\ levelVer[k] <= levelVer[k + 1] /\ levelVer[k + 1] <= levelVer[level]
             /\ Holds(levelEdges, levelVer[k], levelVer[k + 1], EdgesOf(k))
    BY <1>1, <2>1 DEF LevelsInv, LevelsDone, FrontierInv
  <2>3. levelEdgeBase \in Nat /\ levelEdgeBase <= levelEdgeCount
    <3>1. Before(foundLevelEdges, NumThreads) \in Nat
      <4>1. \A t \in Threads : foundLevelEdges[t] \in Nat
        BY <1>4, <1>5
      <4> QED
        BY <4>1, PrefixSums
    <3> QED
      BY <1>5, <1>6, <3>1
  <2>4. ASSUME NEW k \in 0 .. level
        PROVE  /\ levelVer'[k] <= levelVer'[k + 1] /\ levelVer'[k + 1] <= levelVer'[level + 1]
               /\ Holds(levelEdges, levelVer'[k], levelVer'[k + 1], EdgesOf(k))
    <3>1. CASE k = level
      BY <1>4, <1>8, <1>10, <2>2, <2>3, <3>1
    <3>2. CASE k # level
      <4>1. k \in 0 .. (level - 1) /\ k + 1 \in 0 .. level
        BY <1>4, <3>2
      <4>2. levelVer'[k] = levelVer[k] /\ levelVer'[k + 1] = levelVer[k + 1] /\ levelVer[k + 1] \in Nat
        BY <1>10, <2>2, <4>1
      <4> QED
        BY <1>4, <1>10, <2>2, <2>3, <4>1, <4>2
    <3> QED
      BY <3>1, <3>2
  <2>5. \A k \in 0 .. (level + 1) : levelVer'[k] \in Nat
    BY <1>4, <1>9, <1>10
  <2>6. \A k : (EdgesOf(k))' = EdgesOf(k)
    BY <1>2 DEF EdgesOf
  <2>7. level' - 1 = level /\ level' = level + 1 /\ levelVer'[0] = 0
    BY <1>2, <1>4, <1>10, <2>2
  <2>8. (LevelsDone(levelVer))'
    BY <1>2, <2>4, <2>5, <2>6, <2>7 DEF LevelsDone
  <2> QED
    BY <1>2, <1>6, <1>10, <2>1, <2>8 DEF LevelsInv, LevelsDone
<1>17. SearchInv'
  <2> SUFFICES ASSUME pc' = "search"
               PROVE  /\ dist'[g'.sink] = -1
                      /\ FrontierInv' /\ ScanInv' /\ ClaimInv' /\ RecordInv' /\ CopyInv'
    BY DEF SearchInv
  <2>1. newSize # 0 /\ dist[g.sink] = -1
    BY <1>3
  <2>2. \A t \in Threads : at'[t] = "loop" /\ ~(Active(t))'
    BY <1>2 DEF Active
  <2>3. Pending' = {x \in Nodes(g) : dist[x] = level + 1}
    BY <1>2, <1>7 DEF Pending, Holds
  <2>4. FrontierInv'
    <3>1. \A i \in 0 .. (newSize - 1) : global[i] \in Nodes(g)
      BY <1>7 DEF Holds
    <3>2. newSize \in 1 .. g.nodeCount /\ 0 <= newSize
      BY <1>4, <1>6, <1>9, <2>1
    <3> QED
      BY <1>2, <1>7, <1>10, <3>1, <3>2 DEF FrontierInv
  <2>5. ScanInv'
    BY <2>2 DEF ScanInv
  <2>6. \A t \in Threads : /\ Elements(localNodes'[t]) = {} /\ Elements(localLevelEdges'[t]) = {}
                           /\ Distinct(localNodes'[t]) /\ Distinct(localLevelEdges'[t])
    BY <1>11 DEF Elements, Distinct
  <2>7. /\ (Disjoint(localNodes))' /\ (All(localNodes))' = {}
        /\ (Disjoint(localLevelEdges))' /\ (All(localLevelEdges))' = {}
    BY <2>6 DEF Disjoint, All
  <2>8. {x \in Nodes(g) : dist[x] = level' + 1} = {}
    BY <1>2, <1>4, <1>13
  <2>9. ClaimInv'
    BY <1>2, <2>7, <2>8 DEF ClaimInv
  <2>10. RecordInv'
    <3>1. \A a \in ResidualEdges(g, flow) : dist[g.src[a]] = level' => (Ahead(a))'
      BY <1>2, <1>9, <2>3 DEF Ahead
    <3> QED
      BY <1>2, <2>7, <3>1 DEF RecordInv
  <2>11. CopyInv'
    BY <1>2, <1>4, <2>2 DEF CopyInv, Joining, Base, IsInLoop
  <2> QED
    BY <1>2, <2>1, <2>4, <2>5, <2>9, <2>10, <2>11
<1>18. PruneInv' /\ CompactInv'
  BY <1>3 DEF PruneInv, CompactInv
<1>19. ResultInv'
  <2>1. ASSUME newSize = 0, NEW x \in Nodes(g) PROVE dist[x] # level + 1
    <3>1. 0 .. (newSize - 1) = {}
      BY <2>1
    <3> QED
      BY <1>7, <3>1 DEF Holds
  <2> QED
    BY <1>1, <1>2, <1>3, <1>6, <1>11, <2>1 DEF ResultInv
<1> QED
  BY <1>12, <1>15, <1>16, <1>17, <1>18, <1>19 DEF BuilderInv

-------------------------------------------------------------------------------
(* Steps of the loops after the search.                                    *)

\* The levels found are those of the network, up to that of the sink.
LEMMA SearchResult ==
  ASSUME TypeOK, LabelInv, pc # "search", dist[g.sink] = level
  PROVE  /\ HasAugmentingPath(g, flow) /\ Distances(g, flow)[g.sink] = level
         /\ level \in Nat \ {0} /\ level < g.nodeCount
         /\ LevelEdges(g, flow) \subseteq ResidualEdges(g, flow)
         /\ \A a \in LevelEdges(g, flow) :
              /\ dist[g.src[a]] \in 0 .. (level - 1) /\ dist[g.dst[a]] = dist[g.src[a]] + 1
              /\ Distances(g, flow)[g.src[a]] = dist[g.src[a]]
         /\ \A k \in 0 .. (level - 1) :
              EdgesOf(k) = {a \in LevelEdges(g, flow) : dist[g.src[a]] = k}
<1> DEFINE D == Distances(g, flow)
<1>1. /\ IsCase(g) /\ g.sink \in Nodes(g) /\ g.source # g.sink /\ level \in Nat
      /\ dist \in [Nodes(g) -> Nat \cup {-1}]
      /\ \A a \in ResidualEdges(g, flow) : g.src[a] \in Nodes(g) /\ g.dst[a] \in Nodes(g)
  BY CaseParts DEF TypeOK
<1>2. \A x \in Nodes(g) : /\ dist[x] \in 0 .. level => D[x] = dist[x]
                          /\ D[x] \in 0 .. level => dist[x] = D[x]
  <2>1. PICK c, f, K, d : c = g /\ f = flow /\ K = level /\ d = dist
    OBVIOUS
  <2>2. /\ IsCase(c) /\ K \in Nat /\ d \in [Nodes(c) -> Nat \cup {-1}]
        /\ \A x \in Nodes(c) : d[x] = 0 <=> x = c.source
        /\ \A a \in ResidualEdges(c, f) :
             d[c.src[a]] \in 0 .. (K - 1) => d[c.dst[a]] \in 0 .. (d[c.src[a]] + 1)
        /\ \A x \in Nodes(c) :
             d[x] > 0 => \E a \in ResidualEdges(c, f) : c.dst[a] = x /\ d[c.src[a]] = d[x] - 1
    BY <1>1, <2>1 DEF LabelInv
  <2>3. \A x \in Nodes(c) : /\ d[x] \in 0 .. K => Distances(c, f)[x] = d[x]
                            /\ Distances(c, f)[x] \in 0 .. K => d[x] = Distances(c, f)[x]
    BY <2>2, LabelsAreDistances
  <2> QED
    BY <2>1, <2>3
<1>3. D \in [Nodes(g) -> Nat \cup {-1}]
  BY <1>1, DistanceFacts
<1>4. D[g.sink] = level /\ level # -1
  BY <1>1, <1>2
<1>5. level # 0
  BY <1>1 DEF LabelInv
<1>6. level < g.nodeCount
  BY <1>1, LevelFits
<1>7. LevelEdges(g, flow) = {a \in ResidualEdges(g, flow) :
                               D[g.src[a]] # -1 /\ D[g.dst[a]] = D[g.src[a]] + 1 /\ D[g.dst[a]] <= level}
  BY <1>4 DEF LevelEdges, LevelEdgesAt
<1> HIDE DEF D
<1>8. ASSUME NEW a \in LevelEdges(g, flow)
      PROVE  /\ dist[g.src[a]] \in 0 .. (level - 1) /\ dist[g.dst[a]] = dist[g.src[a]] + 1
             /\ D[g.src[a]] = dist[g.src[a]]
  <2>1. /\ g.src[a] \in Nodes(g) /\ g.dst[a] \in Nodes(g)
        /\ D[g.src[a]] # -1 /\ D[g.dst[a]] = D[g.src[a]] + 1 /\ D[g.dst[a]] <= level
    BY <1>1, <1>7
  <2>2. D[g.src[a]] \in Nat /\ D[g.src[a]] \in 0 .. (level - 1) /\ D[g.dst[a]] \in 0 .. level
        /\ D[g.src[a]] \in 0 .. level
    BY <1>1, <1>3, <2>1
  <2> QED
    BY <1>2, <2>1, <2>2
<1>9. ASSUME NEW k \in 0 .. (level - 1), NEW a \in EdgesOf(k)
      PROVE  a \in LevelEdges(g, flow)
  <2>1. /\ a \in ResidualEdges(g, flow) /\ dist[g.src[a]] = k /\ dist[g.dst[a]] = k + 1
        /\ k \in 0 .. level /\ k + 1 \in 0 .. level
    BY <1>1 DEF EdgesOf
  <2>2. D[g.src[a]] = k /\ D[g.dst[a]] = k + 1
    BY <1>1, <1>2, <2>1
  <2> QED
    BY <1>7, <2>1, <2>2
<1>10. \A k \in 0 .. (level - 1) : EdgesOf(k) = {a \in LevelEdges(g, flow) : dist[g.src[a]] = k}
  BY <1>7, <1>8, <1>9 DEF EdgesOf
<1> QED
  BY <1>1, <1>4, <1>5, <1>6, <1>7, <1>8, <1>10 DEF D, HasAugmentingPath

\* What a position of a level holds.
LEMMA LevelAt ==
  ASSUME BuilderInv, pc \in {"prune", "reach", "compact"}, NEW k \in 0 .. (level - 1)
  PROVE  /\ \A i \in Positions(OldVer, k) :
              levelEdges[i] \in LevelEdges(g, flow) /\ dist[g.src[levelEdges[i]]] = k
         /\ \A a \in LevelEdges(g, flow) :
              dist[g.src[a]] = k => \E i \in Positions(OldVer, k) : levelEdges[i] = a
         /\ \A i, j \in Positions(OldVer, k) : levelEdges[i] = levelEdges[j] => i = j
<1>1. Holds(levelEdges, OldVer[k], OldVer[k + 1], EdgesOf(k))
  BY DEF BuilderInv, LevelsInv, LevelsDone
<1>2. EdgesOf(k) = {a \in LevelEdges(g, flow) : dist[g.src[a]] = k}
  BY SearchResult DEF BuilderInv, LabelInv
<1> QED
  BY <1>1, <1>2 DEF Holds, Positions

\* The loops after the search leave its result alone.
LEMMA LoopStepKeeps ==
  ASSUME BuilderInv, pc \in {"prune", "reach", "compact"}, pc' \in Labels \ {"search"},
         UNCHANGED <<g, flow, dist, level, levelEdges, globalSize, levelEdgeCount>>,
         \A k \in 0 .. level : OldVer'[k] = OldVer[k]
  PROVE  LabelInv' /\ LevelsInv' /\ SearchInv'
<1>1. LabelInv'
  BY DEF BuilderInv, LabelInv
<1>2. LevelsInv'
  <2>1. /\ OldVer[0] = 0
        /\ \A k \in 0 .. level : OldVer[k] \in Nat
        /\ \A k \in 0 .. (level - 1) :
             /\ OldVer[k] <= OldVer[k + 1] /\ OldVer[k + 1] <= OldVer[level]
             /\ Holds(levelEdges, OldVer[k], OldVer[k + 1], EdgesOf(k))
        /\ OldVer[level] <= g.edgeCount
    BY DEF BuilderInv, LevelsInv, LevelsDone
  <2>2. level \in Nat
    BY DEF BuilderInv, TypeOK
  <2>3. /\ \A k \in 0 .. (level - 1) : OldVer'[k] = OldVer[k] /\ OldVer'[k + 1] = OldVer[k + 1]
        /\ OldVer'[0] = OldVer[0] /\ OldVer'[level] = OldVer[level]
    BY <2>2
  <2>4. \A k : (EdgesOf(k))' = EdgesOf(k)
    BY DEF EdgesOf
  <2> QED
    BY <2>1, <2>3, <2>4 DEF LevelsInv, LevelsDone
<1>3. SearchInv'
  BY DEF SearchInv, Labels
<1> QED
  BY <1>1, <1>2, <1>3

LEMMA PruneStartKeeps ==
  ASSUME BuilderInv, PruneStart
  PROVE  BuilderInv'
<1>1. /\ TypeOK /\ LabelInv /\ ResultInv /\ pc = "prune"
  BY DEF BuilderInv, PruneStart
<1>2. /\ reach' = {g.sink} /\ lvl' = level - 1 /\ pc' = "reach"
      /\ todo' = Positions(levelVer, level - 1)
      /\ UNCHANGED <<g, flow, result, dist, global, globalSize, newSize, levelEdges,
                     levelEdgeCount, levelEdgeBase, level, levelVer, untaken, at, node, edge,
                     localNodes, localLevelEdges, foundNodes, foundLevelEdges,
                     compactLevelEdges, writeCount>>
  BY DEF PruneStart, callVars, searchVars, threadVars, foundVars
<1>3. /\ level \in Nat \ {0} /\ dist[g.sink] = level
      /\ \A a \in LevelEdges(g, flow) : dist[g.src[a]] \in 0 .. (level - 1)
      /\ LevelEdges(g, flow) \subseteq Edges(g)
  BY <1>1, SearchResult DEF LabelInv, ResidualEdges
<1>4. OldVer' = levelVer /\ OldVer = levelVer
  BY <1>1, <1>2 DEF OldVer
<1>5. TypeOK'
  <2>1. reach' \in SUBSET Nodes(g) /\ lvl' \in Nat /\ pc' \in Labels
    BY <1>1, <1>2, <1>3, CaseParts DEF Labels
  <2>2. todo' \in SUBSET Int
    BY <1>2 DEF Positions
  <2> QED
    BY <1>1, <1>2, <2>1, <2>2 DEF TypeOK
<1>6. LabelInv' /\ LevelsInv' /\ SearchInv'
  BY <1>1, <1>2, <1>4, LoopStepKeeps DEF Labels
<1>7. PruneInv'
  <2>1. Live' = Live /\ g.sink \in Live
    BY <1>1, <1>2, <1>3, CaseParts, CoReachFacts DEF Live
  <2>2. ASSUME NEW a \in LevelEdges(g, flow), dist[g.src[a]] >= lvl'
        PROVE  \E i \in todo' : levelEdges[i] = a
    <3>1. dist[g.src[a]] = level - 1 /\ level - 1 \in 0 .. (level - 1)
      BY <1>2, <1>3, <2>2
    <3> QED
      BY <1>1, <1>2, <1>4, <3>1, LevelAt
  <2> QED
    BY <1>2, <1>3, <1>4, <2>1, <2>2 DEF PruneInv
<1>8. CompactInv'
  BY <1>2 DEF CompactInv
<1>9. ResultInv'
  BY <1>1, <1>2 DEF ResultInv
<1> QED
  BY <1>5, <1>6, <1>7, <1>8, <1>9 DEF BuilderInv

LEMMA MarkReachKeeps ==
  ASSUME BuilderInv, NEW i, MarkReach(i)
  PROVE  BuilderInv'
<1> DEFINE e == levelEdges[i]
           L == LevelEdges(g, flow)
<1>1. /\ TypeOK /\ LabelInv /\ ResultInv /\ PruneInv /\ pc = "reach" /\ i \in todo
  BY DEF BuilderInv, MarkReach
<1>2. /\ todo' = todo \ {i}
      /\ reach' = IF g.dst[e] \in reach THEN reach \cup {g.src[e]} ELSE reach
      /\ UNCHANGED <<g, flow, result, pc, dist, global, globalSize, newSize, levelEdges,
                     levelEdgeCount, levelEdgeBase, level, levelVer, untaken, at, node, edge,
                     localNodes, localLevelEdges, foundNodes, foundLevelEdges, lvl,
                     compactLevelEdges, writeCount>>
  BY DEF MarkReach, callVars, searchVars, threadVars, foundVars
<1>3. /\ level \in Nat \ {0} /\ lvl \in 0 .. (level - 1) /\ todo \subseteq Positions(OldVer, lvl)
      /\ g.sink \in reach /\ reach \subseteq Live /\ IsCase(g)
      /\ \A a \in L : /\ dist[g.src[a]] \in 0 .. (level - 1)
                      /\ dist[g.dst[a]] = dist[g.src[a]] + 1
      /\ L \subseteq Edges(g)
  BY <1>1, SearchResult, CaseParts DEF LabelInv, PruneInv
<1>4. e \in L /\ dist[g.src[e]] = lvl
  BY <1>1, <1>3, LevelAt
<1>5. OldVer' = OldVer /\ Live' = Live
  BY <1>2 DEF OldVer, Live
<1> HIDE DEF L
<1>6. \A a \in L : g.dst[a] \in Live => g.src[a] \in Live
  BY <1>3, CoReachFacts DEF Live, L
<1>7. reach \subseteq reach' /\ reach' \subseteq Live
  BY <1>2, <1>3, <1>4, <1>6
<1>8. TypeOK'
  <2>1. reach' \in SUBSET Nodes(g)
    <3>1. g.src[e] \in Nodes(g)
      BY <1>1, <1>3, <1>4, CaseParts
    <3> QED
      BY <1>1, <1>2, <3>1 DEF TypeOK
  <2>2. todo' \in SUBSET Int
    BY <1>1, <1>2 DEF TypeOK
  <2> QED
    BY <1>1, <1>2, <2>1, <2>2 DEF TypeOK
<1>9. LabelInv' /\ LevelsInv' /\ SearchInv'
  BY <1>1, <1>2, <1>5, LoopStepKeeps DEF Labels
<1>10. PruneInv'
  <2>1. ASSUME NEW a \in L, dist[g.src[a]] >= lvl, \A j \in todo' : levelEdges[j] # a,
               g.dst[a] \in reach'
        PROVE  g.src[a] \in reach'
    <3>1. dist[g.dst[a]] # lvl
      BY <1>3, <2>1
    <3>2. g.dst[a] \in reach
      BY <1>2, <1>4, <2>1, <3>1
    <3>3. CASE a = e
      BY <1>2, <3>2, <3>3
    <3>4. CASE a # e
      <4>1. \A j \in todo : levelEdges[j] # a
        BY <1>2, <2>1, <3>4
      <4> QED
        BY <1>1, <1>7, <2>1, <3>2, <4>1 DEF PruneInv, L
    <3> QED
      BY <3>3, <3>4
  <2>2. todo' \subseteq Positions(OldVer, lvl) /\ g.sink \in reach'
    BY <1>2, <1>3, <1>7
  <2> QED
    BY <1>1, <1>2, <1>3, <1>5, <1>7, <2>1, <2>2 DEF PruneInv, L
<1>11. CompactInv' /\ ResultInv'
  BY <1>1, <1>2 DEF CompactInv, ResultInv
<1> QED
  BY <1>8, <1>9, <1>10, <1>11 DEF BuilderInv

LEMMA MarkLevelKeeps ==
  ASSUME BuilderInv, MarkLevel
  PROVE  BuilderInv'
<1>1. /\ TypeOK /\ LabelInv /\ ResultInv /\ PruneInv /\ pc = "reach" /\ todo = {} /\ lvl > 0
  BY DEF BuilderInv, MarkLevel
<1>2. /\ lvl' = lvl - 1 /\ todo' = Positions(levelVer, lvl - 1)
      /\ UNCHANGED <<g, flow, result, pc, dist, global, globalSize, newSize, levelEdges,
                     levelEdgeCount, levelEdgeBase, level, levelVer, untaken, at, node, edge,
                     localNodes, localLevelEdges, foundNodes, foundLevelEdges, reach,
                     compactLevelEdges, writeCount>>
  BY DEF MarkLevel, callVars, searchVars, threadVars, foundVars
<1>3. /\ level \in Nat \ {0} /\ lvl \in 0 .. (level - 1)
      /\ lvl - 1 \in 0 .. (level - 1) /\ lvl \in Nat /\ lvl - 1 \in Nat
      /\ \A a \in LevelEdges(g, flow) : dist[g.src[a]] \in 0 .. (level - 1)
  BY <1>1, SearchResult DEF LabelInv, PruneInv
<1>4. OldVer' = levelVer /\ OldVer = levelVer /\ Live' = Live
  BY <1>1, <1>2 DEF OldVer, Live
<1>5. TypeOK'
  <2>1. todo' \in SUBSET Int
    BY <1>2 DEF Positions
  <2> QED
    BY <1>1, <1>2, <1>3, <2>1 DEF TypeOK
<1>6. LabelInv' /\ LevelsInv' /\ SearchInv'
  BY <1>1, <1>2, <1>4, LoopStepKeeps DEF Labels
<1>7. PruneInv'
  <2>1. ASSUME NEW a \in LevelEdges(g, flow), dist[g.src[a]] >= lvl',
               \A j \in todo' : levelEdges[j] # a, g.dst[a] \in reach
        PROVE  g.src[a] \in reach
    <3>1. dist[g.src[a]] # lvl - 1
      BY <1>1, <1>2, <1>3, <1>4, <2>1, LevelAt
    <3>2. dist[g.src[a]] >= lvl
      BY <1>2, <1>3, <2>1, <3>1
    <3> QED
      BY <1>1, <2>1, <3>2 DEF PruneInv
  <2> QED
    BY <1>1, <1>2, <1>3, <1>4, <2>1 DEF PruneInv
<1>8. CompactInv' /\ ResultInv'
  BY <1>1, <1>2 DEF CompactInv, ResultInv
<1> QED
  BY <1>5, <1>6, <1>7, <1>8 DEF BuilderInv

\* Nothing at position i.
LEMMA HoldsNone ==
  ASSUME NEW array, NEW i \in Int
  PROVE  Holds(array, i, i, {})
<1>1. i .. (i - 1) = {}
  OBVIOUS
<1> QED
  BY <1>1 DEF Holds

\* The backward pass ends when no level edge leads from an unmarked node to a marked one.
LEMMA MarkEndKeeps ==
  ASSUME BuilderInv, MarkEnd
  PROVE  BuilderInv'
<1>1. /\ TypeOK /\ LabelInv /\ LevelsInv /\ ResultInv /\ PruneInv /\ pc = "reach"
      /\ todo = {} /\ lvl = 0
  BY DEF BuilderInv, MarkEnd
<1>2. /\ global' = [k \in DOMAIN global |-> IF k <= level THEN levelVer[k] ELSE global[k]]
      /\ levelVer' = [levelVer EXCEPT ![0] = 0]
      /\ writeCount' = 0 /\ todo' = Positions(global', 0) /\ pc' = "compact"
      /\ UNCHANGED <<g, flow, result, dist, globalSize, newSize, levelEdges,
                     levelEdgeCount, levelEdgeBase, level, untaken, at, node, edge,
                     localNodes, localLevelEdges, foundNodes, foundLevelEdges, reach, lvl,
                     compactLevelEdges>>
  BY DEF MarkEnd, callVars, threadVars, foundVars
<1>3. /\ level \in Nat \ {0} /\ level < g.nodeCount /\ IsCase(g)
      /\ \A a \in LevelEdges(g, flow) : dist[g.src[a]] \in 0 .. (level - 1)
      /\ LevelEdges(g, flow) \subseteq Edges(g)
      /\ g.nodeCount \in Nat /\ Nodes(g) = 0 .. (g.nodeCount - 1)
  BY <1>1, SearchResult, CaseParts DEF LabelInv
<1>4. /\ OldVer = levelVer /\ OldVer' = global' /\ Live' = Live
      /\ levelVer[0] = 0 /\ \A k \in 0 .. level : levelVer[k] \in Nat
  BY <1>1, <1>2 DEF OldVer, Live, LevelsInv, LevelsDone
<1>5. /\ levelVer \in [0 .. g.nodeCount -> Nat] /\ global \in [Nodes(g) -> Int]
  BY <1>1 DEF TypeOK
<1>6. /\ levelVer' = levelVer
      /\ \A k \in 0 .. level : global'[k] = levelVer[k]
  BY <1>2, <1>3, <1>4, <1>5
<1>7. TypeOK'
  <2>1. todo' \in SUBSET Int /\ global' \in [Nodes(g) -> Int]
    <3>1. \A k \in Nodes(g) : k <= level => levelVer[k] \in Int
      BY <1>3, <1>4
    <3> QED
      BY <1>2, <1>5, <3>1 DEF Positions
  <2>2. pc' \in Labels /\ writeCount' \in Nat
    BY <1>2 DEF Labels
  <2> QED
    BY <1>1, <1>2, <1>6, <2>1, <2>2 DEF TypeOK
<1>8. LabelInv' /\ LevelsInv' /\ SearchInv'
  BY <1>1, <1>2, <1>4, <1>6, LoopStepKeeps DEF Labels
<1>9. Live \subseteq reach
  <2>1. \A a \in LevelEdges(g, flow) : g.dst[a] \in reach => g.src[a] \in reach
    BY <1>1, <1>3 DEF PruneInv
  <2>2. g.sink \in reach
    BY <1>1 DEF PruneInv
  <2> QED
    BY <1>3, <2>1, <2>2, CoReachIsLeast DEF Live
<1>10. PruneInv'
  BY <1>1, <1>2, <1>3, <1>4, <1>9 DEF PruneInv
<1>11. CompactInv'
  <2>1. {a \in ShortestPathEdges(g, flow) :
           dist[g.src[a]] = lvl' /\ \A i \in todo' : levelEdges[i] # a} = {}
    <3>1. ASSUME NEW a \in ShortestPathEdges(g, flow), dist[g.src[a]] = 0
          PROVE  \E i \in todo' : levelEdges[i] = a
      <4>1. a \in LevelEdges(g, flow) /\ 0 \in 0 .. (level - 1)
        BY <1>3 DEF ShortestPathEdges, Between
      <4>2. Positions(global', 0) = Positions(OldVer, 0)
        BY <1>3, <1>4, <1>6 DEF Positions
      <4> QED
        BY <1>1, <1>2, <3>1, <4>1, <4>2, LevelAt
    <3> QED
      BY <1>1, <1>2, <3>1
  <2>2. Holds(compactLevelEdges, 0, 0, {})
    BY HoldsNone
  <2>3. \A k \in (lvl + 1) .. level : levelVer'[k] = global'[k]
    BY <1>1, <1>3, <1>6
  <2>4. 0 .. (lvl - 1) = {}
    BY <1>1
  <2>5. ShortestPathEdges(g', flow') = ShortestPathEdges(g, flow)
    BY <1>2
  <2> QED
    BY <1>1, <1>2, <1>4, <1>6, <2>1, <2>2, <2>3, <2>4, <2>5 DEF CompactInv
<1>12. ResultInv'
  BY <1>1, <1>2 DEF ResultInv
<1> QED
  BY <1>7, <1>8, <1>10, <1>11, <1>12 DEF BuilderInv

\* What has been compacted so far of the edges on shortest augmenting paths.
Compacted ==
  {a \in ShortestPathEdges(g, flow) :
     \/ dist[g.src[a]] \in 0 .. (lvl - 1)
     \/ dist[g.src[a]] = lvl /\ \A i \in todo : levelEdges[i] # a}

LEMMA CompactedHold ==
  ASSUME BuilderInv, pc = "compact"
  PROVE  /\ writeCount \in Nat /\ Holds(compactLevelEdges, 0, writeCount, Compacted)
         /\ Compacted \subseteq Edges(g) /\ writeCount = Cardinality(Compacted)
<1> DEFINE ver == [k \in 0 .. (lvl + 1) |-> IF k <= lvl THEN levelVer[k] ELSE writeCount]
           S == [k \in 0 .. lvl |-> {a \in Compacted : dist[g.src[a]] = k}]
<1>1. /\ TypeOK /\ LabelInv /\ PruneInv /\ CompactInv
  BY DEF BuilderInv
<1>2. /\ lvl \in Nat /\ lvl \in 0 .. (level - 1) /\ level \in Nat /\ level < g.nodeCount
      /\ levelVer \in [0 .. g.nodeCount -> Nat] /\ writeCount \in Nat /\ g.nodeCount \in Nat
  BY <1>1, SearchResult, CaseParts DEF TypeOK, PruneInv, LabelInv
<1>3. \A k \in 0 .. lvl : levelVer[k] \in Nat
  BY <1>2
<1>4. /\ levelVer[0] = 0 /\ levelVer[lvl] <= writeCount
      /\ \A k \in 0 .. (lvl - 1) :
           /\ levelVer[k] <= levelVer[k + 1] /\ levelVer[k + 1] <= levelVer[lvl]
           /\ Holds(compactLevelEdges, levelVer[k], levelVer[k + 1],
                    {a \in ShortestPathEdges(g, flow) : dist[g.src[a]] = k})
      /\ Holds(compactLevelEdges, levelVer[lvl], writeCount,
               {a \in ShortestPathEdges(g, flow) :
                  dist[g.src[a]] = lvl /\ \A i \in todo : levelEdges[i] # a})
  BY <1>1 DEF CompactInv
<1>5. /\ \A k \in 0 .. (lvl - 1) : S[k] = {a \in ShortestPathEdges(g, flow) : dist[g.src[a]] = k}
      /\ S[lvl] = {a \in ShortestPathEdges(g, flow) :
                     dist[g.src[a]] = lvl /\ \A i \in todo : levelEdges[i] # a}
  BY <1>2 DEF Compacted
<1>6. /\ \A k \in 0 .. (lvl + 1) : ver[k] \in Nat
      /\ ver[0] = 0 /\ ver[lvl + 1] = writeCount /\ ver[lvl] = levelVer[lvl]
      /\ \A k \in 0 .. (lvl - 1) : ver[k] = levelVer[k] /\ ver[k + 1] = levelVer[k + 1]
  BY <1>2, <1>3, <1>4
<1>7. \A k, m \in 0 .. lvl : k # m => S[k] \cap S[m] = {}
  OBVIOUS
<1>8. \A a : a \in Compacted <=> \E k \in 0 .. lvl : a \in S[k]
  BY <1>2 DEF Compacted
<1> HIDE DEF ver, S
<1>9. ASSUME NEW k \in 0 .. lvl
      PROVE  /\ ver[k] <= ver[k + 1] /\ ver[k + 1] <= ver[lvl + 1]
             /\ Holds(compactLevelEdges, ver[k], ver[k + 1], S[k])
  <2>1. CASE k = lvl
    <3>1. ver[k] = levelVer[lvl] /\ ver[k + 1] = writeCount /\ ver[lvl + 1] = writeCount
      BY <1>6, <2>1
    <3>2. Holds(compactLevelEdges, levelVer[lvl], writeCount, S[lvl])
      BY <1>4, <1>5
    <3>3. writeCount <= writeCount
      BY <1>2
    <3> QED
      BY <1>4, <2>1, <3>1, <3>2, <3>3
  <2>2. CASE k # lvl
    <3>1. k \in 0 .. (lvl - 1) /\ k + 1 \in 0 .. lvl
      BY <1>2, <2>2
    <3>2. levelVer[k + 1] \in Nat /\ levelVer[lvl] \in Nat
      BY <1>2, <1>3, <3>1
    <3>3. levelVer[k + 1] <= writeCount
      <4>1. levelVer[k + 1] <= levelVer[lvl] /\ levelVer[lvl] <= writeCount
        BY <1>4, <3>1
      <4> QED
        BY <1>2, <3>2, <4>1
    <3>4. S[k] = {a \in ShortestPathEdges(g, flow) : dist[g.src[a]] = k}
      BY <1>5, <3>1
    <3> QED
      BY <1>4, <1>6, <3>1, <3>3, <3>4
  <2> QED
    BY <2>1, <2>2
<1>10. Holds(compactLevelEdges, 0, writeCount, Compacted)
  <2>1. PICK K, v, s, U, array : /\ K = lvl + 1 /\ v = ver /\ s = S /\ U = Compacted
                                 /\ array = compactLevelEdges
    OBVIOUS
  <2>2. K \in Nat /\ K - 1 = lvl
    BY <1>2, <2>1
  <2>3. /\ K \in Nat /\ (\A k \in 0 .. K : v[k] \in Nat) /\ v[0] = 0
        /\ \A k, m \in 0 .. (K - 1) : k # m => s[k] \cap s[m] = {}
        /\ \A k \in 0 .. (K - 1) : /\ v[k] <= v[k + 1] /\ v[k + 1] <= v[K]
                                   /\ Holds(array, v[k], v[k + 1], s[k])
        /\ \A x : x \in U <=> \E k \in 0 .. (K - 1) : x \in s[k]
    BY <1>6, <1>7, <1>8, <1>9, <2>1, <2>2
  <2>4. Holds(array, 0, v[K], U)
    BY ONLY <2>3, LevelsHold
  <2> QED
    BY <1>6, <2>1, <2>4
<1>11. Compacted \subseteq Edges(g)
  BY DEF Compacted, ShortestPathEdges, Between, LevelEdges, LevelEdgesAt, ResidualEdges
<1>12. writeCount = Cardinality(Compacted)
  <2>1. 0 \in Nat /\ 0 <= writeCount /\ writeCount - 0 = writeCount
    BY <1>2
  <2> QED
    BY <1>2, <1>10, <2>1, HoldsCount
<1> QED
  BY <1>2, <1>10, <1>11, <1>12

\* One more element behind those of a set.
LEMMA HoldsMore ==
  ASSUME NEW array, NEW i \in Nat, NEW j \in Nat, i <= j, NEW S, Holds(array, i, j, S),
         NEW x, x \notin S, NEW new, new[j] = x, \A k \in i .. (j - 1) : new[k] = array[k],
         NEW T, \A y : y \in T <=> y \in S \/ y = x
  PROVE  Holds(new, i, j + 1, T)
<1>1. /\ \A k : k \in i .. ((j + 1) - 1) <=> k \in i .. (j - 1) \/ k = j
      /\ j \notin i .. (j - 1)
  OBVIOUS
<1>2. {new[k] : k \in i .. ((j + 1) - 1)} = T
  <2>1. ASSUME NEW k \in i .. ((j + 1) - 1) PROVE new[k] \in T
    BY <1>1 DEF Holds
  <2>2. ASSUME NEW y \in T PROVE \E k \in i .. ((j + 1) - 1) : y = new[k]
    BY <1>1 DEF Holds
  <2> QED
    BY <2>1, <2>2
<1>3. ASSUME NEW k \in i .. ((j + 1) - 1), NEW m \in i .. ((j + 1) - 1), new[k] = new[m]
      PROVE  k = m
  BY <1>1, <1>3 DEF Holds
<1> QED
  BY <1>2, <1>3 DEF Holds

\* There is a position left for every edge that is kept.
LEMMA CompactKeeps ==
  ASSUME BuilderInv, NEW i, Compact(i)
  PROVE  BuilderInv'
<1> DEFINE e == levelEdges[i]
           SP == ShortestPathEdges(g, flow)
           S == {a \in SP : dist[g.src[a]] = lvl /\ \A j \in todo : levelEdges[j] # a}
           T == {a \in SP : dist[g.src[a]] = lvl /\ \A j \in todo' : levelEdges[j] # a}
<1>1. /\ TypeOK /\ LabelInv /\ PruneInv /\ CompactInv /\ ResultInv /\ pc = "compact" /\ i \in todo
  BY DEF BuilderInv, Compact
<1>2. /\ todo' = todo \ {i}
      /\ IF IsKept(e)
         THEN /\ compactLevelEdges' = [compactLevelEdges EXCEPT ![writeCount] = e]
              /\ writeCount' = writeCount + 1
         ELSE UNCHANGED <<compactLevelEdges, writeCount>>
      /\ UNCHANGED <<g, flow, result, pc, dist, global, globalSize, newSize, levelEdges,
                     levelEdgeCount, levelEdgeBase, level, levelVer, untaken, at, node, edge,
                     localNodes, localLevelEdges, foundNodes, foundLevelEdges, reach, lvl>>
  BY DEF Compact, callVars, searchVars, threadVars, foundVars
<1>3. /\ level \in Nat \ {0} /\ lvl \in 0 .. (level - 1) /\ todo \subseteq Positions(OldVer, lvl)
      /\ reach = Live /\ level < g.nodeCount /\ lvl \in Nat
      /\ g.edgeCount \in Nat /\ Edges(g) = 0 .. (g.edgeCount - 1)
      /\ IsFiniteSet(Edges(g)) /\ Cardinality(Edges(g)) = g.edgeCount
      /\ g.nodeCount \in Nat /\ LevelEdges(g, flow) \subseteq Edges(g)
  <2>1. dist[g.sink] = level
    BY <1>1 DEF LabelInv
  <2>2. level \in Nat \ {0} /\ level < g.nodeCount /\ LevelEdges(g, flow) \subseteq ResidualEdges(g, flow)
    BY <1>1, <2>1, SearchResult
  <2>3. lvl \in 0 .. (level - 1) /\ todo \subseteq Positions(OldVer, lvl) /\ reach = Live
    BY <1>1 DEF PruneInv
  <2>4. /\ g.edgeCount \in Nat /\ Edges(g) = 0 .. (g.edgeCount - 1)
        /\ IsFiniteSet(Edges(g)) /\ Cardinality(Edges(g)) = g.edgeCount
        /\ g.nodeCount \in Nat /\ ResidualEdges(g, flow) \subseteq Edges(g)
    BY <1>1, CaseParts
  <2> QED
    BY <2>2, <2>3, <2>4
<1>4. e \in LevelEdges(g, flow) /\ dist[g.src[e]] = lvl /\ e \in Edges(g)
  BY <1>1, <1>3, LevelAt
<1>5. OldVer' = OldVer /\ Live' = Live
  BY <1>1, <1>2 DEF OldVer, Live
<1>6. IsKept(e) <=> e \in SP
  BY <1>3, <1>4 DEF IsKept, ShortestPathEdges, Between, Live
<1>7. \A j \in todo : levelEdges[j] = e => j = i
  BY <1>1, <1>3, LevelAt
<1>8. /\ writeCount \in Nat /\ levelVer[lvl] \in Nat /\ levelVer[lvl] <= writeCount
      /\ \A k \in 0 .. lvl : levelVer[k] \in Nat
      /\ compactLevelEdges \in [Edges(g) -> Edges(g) \cup {-1}]
      /\ levelVer[0] = 0
      /\ \A k \in (lvl + 1) .. level : levelVer[k] = global[k]
      /\ \A k \in 0 .. (lvl - 1) :
           /\ levelVer[k] <= levelVer[k + 1] /\ levelVer[k + 1] <= levelVer[lvl]
           /\ Holds(compactLevelEdges, levelVer[k], levelVer[k + 1],
                    {a \in SP : dist[g.src[a]] = k})
      /\ Holds(compactLevelEdges, levelVer[lvl], writeCount, S)
  <2>1. \A k \in 0 .. lvl : k \in 0 .. g.nodeCount
    BY <1>3
  <2>2. /\ writeCount \in Nat /\ levelVer \in [0 .. g.nodeCount -> Nat]
        /\ compactLevelEdges \in [Edges(g) -> Edges(g) \cup {-1}]
    BY <1>1 DEF TypeOK
  <2>3. \A k \in 0 .. lvl : levelVer[k] \in Nat
    BY <2>1, <2>2
  <2>4. levelVer[lvl] \in Nat
    BY <1>3, <2>3
  <2> QED
    BY <1>1, <2>2, <2>3, <2>4 DEF CompactInv
<1> HIDE DEF SP
<1>9. \A a : a \in T <=> a \in S \/ (IsKept(e) /\ a = e)
  <2>1. ASSUME NEW a \in SP, dist[g.src[a]] = lvl
        PROVE  (\A j \in todo' : levelEdges[j] # a) <=> (\A j \in todo : levelEdges[j] # a) \/ a = e
    BY <1>1, <1>2, <1>7
  <2> QED
    BY <1>4, <1>6, <2>1
<1>10. ASSUME IsKept(e)
       PROVE  /\ writeCount \in Edges(g) /\ e \notin S
              /\ compactLevelEdges'[writeCount] = e /\ writeCount' = writeCount + 1
              /\ \A k \in 0 .. (writeCount - 1) : compactLevelEdges'[k] = compactLevelEdges[k]
              /\ compactLevelEdges' \in [Edges(g) -> Edges(g) \cup {-1}]
  <2>1. e \notin S /\ e \notin Compacted
    BY <1>1, <1>3, <1>4 DEF Compacted
  <2>2. /\ Compacted \subseteq Edges(g) /\ writeCount = Cardinality(Compacted)
    BY <1>1, CompactedHold
  <2>3. IsFiniteSet(Compacted)
    BY <1>3, <2>2, FS_Subset
  <2>4. Cardinality(Compacted \cup {e}) = Cardinality(Compacted) + 1
    BY <2>1, <2>3, FS_AddElement
  <2>5. Cardinality(Compacted \cup {e}) <= g.edgeCount
    BY <1>3, <1>4, <2>2, FS_Subset
  <2>6. writeCount \in Edges(g)
    BY <1>3, <1>8, <2>2, <2>4, <2>5
  <2>7. /\ compactLevelEdges' = [compactLevelEdges EXCEPT ![writeCount] = e]
        /\ writeCount' = writeCount + 1
    BY <1>2, <1>10
  <2>8. compactLevelEdges'[writeCount] = e
    BY <1>8, <2>6, <2>7
  <2>9. \A k \in 0 .. (writeCount - 1) : compactLevelEdges'[k] = compactLevelEdges[k]
    BY <1>3, <1>8, <2>6, <2>7
  <2> QED
    BY <1>4, <1>8, <2>1, <2>6, <2>7, <2>8, <2>9
<1>11. /\ compactLevelEdges' \in [Edges(g) -> Edges(g) \cup {-1}]
       /\ writeCount' \in Nat /\ writeCount <= writeCount'
       /\ \A k \in 0 .. (writeCount - 1) : compactLevelEdges'[k] = compactLevelEdges[k]
  <2>1. CASE IsKept(e)
    BY <1>8, <1>10, <2>1
  <2>2. CASE ~IsKept(e)
    BY <1>2, <1>8, <2>2
  <2> QED
    BY <2>1, <2>2
<1>12. TypeOK'
  <2>1. todo' \in SUBSET Int
    BY <1>1, <1>2 DEF TypeOK
  <2> QED
    BY <1>1, <1>2, <1>11, <2>1 DEF TypeOK
<1>13. LabelInv' /\ LevelsInv' /\ SearchInv'
  BY <1>1, <1>2, <1>5, LoopStepKeeps DEF Labels
<1>14. PruneInv'
  BY <1>1, <1>2, <1>5 DEF PruneInv
<1> HIDE DEF S, T
<1>15. CompactInv'
  <2>1. Holds(compactLevelEdges', levelVer[lvl], writeCount', T)
    <3>1. \A k \in levelVer[lvl] .. (writeCount - 1) : compactLevelEdges'[k] = compactLevelEdges[k]
      BY <1>8, <1>11
    <3>2. CASE IsKept(e)
      <4>1. PICK array, new, j : /\ array = compactLevelEdges /\ new = compactLevelEdges'
                                 /\ j = writeCount
        OBVIOUS
      <4>2. /\ levelVer[lvl] \in Nat /\ j \in Nat /\ levelVer[lvl] <= j
            /\ Holds(array, levelVer[lvl], j, S) /\ e \notin S /\ new[j] = e
            /\ \A k \in levelVer[lvl] .. (j - 1) : new[k] = array[k]
            /\ \A a : a \in T <=> a \in S \/ a = e
        BY <1>8, <1>9, <1>10, <3>1, <3>2, <4>1
      <4>3. Holds(new, levelVer[lvl], j + 1, T)
        BY <4>2, HoldsMore
      <4> QED
        BY <1>10, <3>2, <4>1, <4>3
    <3>3. CASE ~IsKept(e)
      <4>1. T = S /\ compactLevelEdges' = compactLevelEdges /\ writeCount' = writeCount
        BY <1>2, <1>9, <3>3
      <4> QED
        BY <1>8, <4>1
    <3> QED
      BY <3>2, <3>3
  <2>2. ASSUME NEW k \in 0 .. (lvl - 1)
        PROVE  Holds(compactLevelEdges', levelVer[k], levelVer[k + 1],
                     {a \in SP : dist[g.src[a]] = k})
    <3>1. k \in 0 .. lvl /\ k + 1 \in 0 .. lvl
      BY <1>3
    <3>2. levelVer[k] \in Nat /\ levelVer[k + 1] \in Nat /\ levelVer[k + 1] <= writeCount
      <4>1. /\ levelVer[k] \in Nat /\ levelVer[k + 1] \in Nat
            /\ levelVer[k + 1] <= levelVer[lvl] /\ levelVer[lvl] <= writeCount
        BY <1>8, <3>1
      <4> QED
        BY <1>8, <4>1
    <3>3. \A m \in levelVer[k] .. (levelVer[k + 1] - 1) : compactLevelEdges'[m] = compactLevelEdges[m]
      BY <1>8, <1>11, <3>2
    <3>4. Holds(compactLevelEdges, levelVer[k], levelVer[k + 1], {a \in SP : dist[g.src[a]] = k})
      BY <1>8
    <3> QED
      BY <3>3, <3>4 DEF Holds
  <2>3. levelVer[lvl] <= writeCount'
    BY <1>8, <1>11
  <2>4. /\ levelVer' = levelVer /\ lvl' = lvl /\ level' = level /\ global' = global
        /\ pc' = "compact" /\ dist' = dist /\ g' = g /\ levelEdges' = levelEdges
        /\ ShortestPathEdges(g', flow') = SP
    BY <1>1, <1>2 DEF SP
  <2> QED
    BY <1>8, <2>1, <2>2, <2>3, <2>4 DEF CompactInv, T
<1>16. ResultInv'
  BY <1>1, <1>2 DEF ResultInv
<1> QED
  BY <1>12, <1>13, <1>14, <1>15, <1>16 DEF BuilderInv

\* When the last level has been compacted, a path has been found.
LEMMA PathIsCompacted ==
  ASSUME BuilderInv, pc = "compact", todo = {}
  PROVE  writeCount > 0 /\ g.source \in reach
<1>1. TypeOK /\ LabelInv /\ PruneInv
  BY DEF BuilderInv
<1>2. /\ IsCase(g) /\ HasAugmentingPath(g, flow) /\ reach = Live /\ lvl \in Nat
      /\ \A a \in LevelEdges(g, flow) : Distances(g, flow)[g.src[a]] = dist[g.src[a]]
  <2>1. dist[g.sink] = level /\ reach = Live
    BY <1>1 DEF LabelInv, PruneInv
  <2>2. IsCase(g) /\ lvl \in Nat
    BY <1>1, CasesAssumption DEF TypeOK
  <2>3. /\ HasAugmentingPath(g, flow)
        /\ \A a \in LevelEdges(g, flow) : Distances(g, flow)[g.src[a]] = dist[g.src[a]]
    BY <1>1, <2>1, SearchResult
  <2> QED
    BY <2>1, <2>2, <2>3
<1>3. g.source \in Live
  BY <1>2, LiveFacts DEF Live
<1>4. PICK a \in ShortestPathEdges(g, flow) : Distances(g, flow)[g.src[a]] = 0
  BY <1>2, LiveFacts
<1>5. a \in Compacted
  <2>1. dist[g.src[a]] = 0
    BY <1>2, <1>4 DEF ShortestPathEdges, Between
  <2>2. 0 \in 0 .. (lvl - 1) \/ 0 = lvl
    BY <1>2
  <2> QED
    BY <2>1, <2>2 DEF Compacted
<1>6. writeCount \in Nat /\ Holds(compactLevelEdges, 0, writeCount, Compacted)
  BY CompactedHold
<1>7. \E k \in 0 .. (writeCount - 1) : a = compactLevelEdges[k]
  BY <1>5, <1>6 DEF Holds
<1> QED
  BY <1>2, <1>3, <1>6, <1>7

LEMMA CompactLevelKeeps ==
  ASSUME BuilderInv, CompactLevel
  PROVE  BuilderInv'
<1> DEFINE SP == ShortestPathEdges(g, flow)
           At(k) == {a \in SP : dist[g.src[a]] = k}
<1>1. /\ TypeOK /\ LabelInv /\ PruneInv /\ CompactInv /\ ResultInv /\ pc = "compact" /\ todo = {}
  BY DEF BuilderInv, CompactLevel
<1>2. /\ levelVer' = [levelVer EXCEPT ![lvl + 1] = writeCount]
      /\ UNCHANGED <<g, flow, dist, global, globalSize, newSize, levelEdges, levelEdgeCount,
                     levelEdgeBase, level, untaken, at, node, edge,
                     localNodes, localLevelEdges, foundNodes, foundLevelEdges, reach,
                     compactLevelEdges, writeCount>>
  BY DEF CompactLevel, threadVars, foundVars
<1>3. /\ level \in Nat \ {0} /\ lvl \in 0 .. (level - 1) /\ lvl \in Nat
      /\ level < g.nodeCount /\ g.nodeCount \in Nat /\ reach = Live /\ dist[g.sink] = level
  <2>1. dist[g.sink] = level
    BY <1>1 DEF LabelInv
  <2>2. level \in Nat \ {0} /\ level < g.nodeCount
    BY <1>1, <2>1, SearchResult
  <2> QED
    BY <1>1, <2>1, <2>2, CaseParts DEF PruneInv
<1>4. \/ /\ lvl + 1 < level /\ lvl' = lvl + 1 /\ todo' = Positions(global, lvl + 1)
         /\ pc' = "compact" /\ result' = result
      \/ /\ lvl + 1 = level /\ result' = 1 /\ pc' = "return" /\ lvl' = lvl /\ todo' = {}
  <2>1. writeCount > 0 /\ g.source \in reach
    BY <1>1, PathIsCompacted
  <2>2. lvl + 1 < level \/ lvl + 1 = level
    BY <1>3
  <2> QED
    BY <1>1, <1>3, <2>1, <2>2 DEF CompactLevel
<1>5. OldVer' = OldVer /\ OldVer = global /\ Live' = Live
  BY <1>1, <1>2, <1>4 DEF OldVer, Live
<1>6. levelVer \in [0 .. g.nodeCount -> Nat] /\ writeCount \in Nat
  BY <1>1 DEF TypeOK
<1>7. /\ levelVer' \in [0 .. g.nodeCount -> Nat]
      /\ levelVer'[lvl + 1] = writeCount
      /\ \A k \in 0 .. g.nodeCount : k # lvl + 1 => levelVer'[k] = levelVer[k]
      /\ \A k \in 0 .. lvl : k \in 0 .. g.nodeCount /\ levelVer'[k] = levelVer[k]
  BY <1>2, <1>3, <1>6
<1>8. TypeOK'
  <2>1. /\ pc' \in Labels /\ result' \in {-1, 0, 1} /\ lvl' \in Nat /\ todo' \in SUBSET Int
    <3>1. CASE pc' = "compact"
      BY <1>1, <1>3, <1>4, <3>1 DEF Labels, Positions, TypeOK
    <3>2. CASE pc' = "return"
      BY <1>3, <1>4, <3>2 DEF Labels
    <3> QED
      BY <1>4, <3>1, <3>2
  <2> QED
    BY <1>1, <1>2, <1>7, <2>1 DEF TypeOK
<1>9. LabelInv' /\ LevelsInv' /\ SearchInv'
  BY <1>1, <1>2, <1>4, <1>5, LoopStepKeeps DEF Labels
<1>10. PruneInv'
  <2>1. CASE pc' = "compact"
    BY <1>1, <1>2, <1>3, <1>4, <1>5, <2>1 DEF PruneInv
  <2>2. CASE pc' = "return"
    BY <2>2 DEF PruneInv
  <2> QED
    BY <1>4, <2>1, <2>2
<1> HIDE DEF SP
<1>11. /\ levelVer[0] = 0
       /\ \A k \in (lvl + 1) .. level : levelVer[k] = global[k]
       /\ levelVer[lvl] <= writeCount
       /\ \A k \in 0 .. (lvl - 1) :
            /\ levelVer[k] <= levelVer[k + 1] /\ levelVer[k + 1] <= levelVer[lvl]
            /\ Holds(compactLevelEdges, levelVer[k], levelVer[k + 1], At(k))
       /\ Holds(compactLevelEdges, levelVer[lvl], writeCount, At(lvl))
  BY <1>1 DEF CompactInv, SP
<1> HIDE DEF At
<1>12. ASSUME NEW k \in 0 .. lvl
       PROVE  /\ levelVer'[k] <= levelVer'[k + 1] /\ levelVer'[k + 1] <= writeCount
              /\ Holds(compactLevelEdges, levelVer'[k], levelVer'[k + 1], At(k))
  <2>1. CASE k = lvl
    <3>1. levelVer'[k] = levelVer[lvl] /\ levelVer'[k + 1] = writeCount
      BY <1>7, <2>1
    <3>2. writeCount <= writeCount
      BY <1>6
    <3> QED
      BY <1>11, <2>1, <3>1, <3>2
  <2>2. CASE k # lvl
    <3>1. k \in 0 .. (lvl - 1) /\ k + 1 \in 0 .. lvl
      BY <1>3, <2>2
    <3>2. levelVer'[k] = levelVer[k] /\ levelVer'[k + 1] = levelVer[k + 1]
      BY <1>7, <3>1
    <3>3. levelVer[k + 1] <= levelVer[lvl] /\ levelVer[k + 1] \in Nat /\ levelVer[lvl] \in Nat
      <4>1. k + 1 \in 0 .. g.nodeCount /\ lvl \in 0 .. g.nodeCount
        BY <1>3, <3>1
      <4> QED
        BY <1>6, <1>11, <3>1, <4>1
    <3>4. levelVer[k + 1] <= writeCount
      BY <1>6, <1>11, <3>3
    <3> QED
      BY <1>11, <3>1, <3>2, <3>4
  <2> QED
    BY <2>1, <2>2
<1>13. levelVer'[0] = 0
  BY <1>3, <1>7, <1>11
<1>14. CompactInv'
  <2>1. CASE pc' = "compact"
    <3>1. lvl' = lvl + 1 /\ lvl + 1 < level /\ todo' = Positions(global, lvl + 1)
      BY <1>4, <2>1
    <3>2. lvl' - 1 = lvl /\ levelVer'[lvl'] = writeCount /\ writeCount <= writeCount
          /\ lvl + 1 \in 0 .. (level - 1)
      BY <1>3, <1>6, <1>7, <3>1
    <3>3. \A k \in (lvl' + 1) .. level : levelVer'[k] = global[k]
      <4>1. \A k \in (lvl + 2) .. level : k \in (lvl + 1) .. level /\ k \in 0 .. g.nodeCount /\ k # lvl + 1
        BY <1>3
      <4>2. lvl' + 1 = lvl + 2
        BY <1>3, <3>1
      <4> QED
        BY <1>7, <1>11, <4>1, <4>2
    <3>4. {a \in SP : dist[g.src[a]] = lvl + 1 /\ \A i \in todo' : levelEdges[i] # a} = {}
      <4>1. ASSUME NEW a \in SP, dist[g.src[a]] = lvl + 1
            PROVE  \E i \in todo' : levelEdges[i] = a
        <5>1. a \in LevelEdges(g, flow)
          BY DEF SP, ShortestPathEdges, Between
        <5> QED
          BY <1>1, <1>5, <3>1, <3>2, <4>1, <5>1, LevelAt
      <4> QED
        BY <4>1
    <3>5. Holds(compactLevelEdges, writeCount, writeCount, {})
      <4>1. writeCount \in Int
        BY <1>6
      <4> QED
        BY <4>1, HoldsNone
    <3>6. /\ ShortestPathEdges(g', flow') = SP /\ level' = level /\ global' = global
          /\ dist' = dist /\ g' = g /\ levelEdges' = levelEdges /\ writeCount' = writeCount
          /\ compactLevelEdges' = compactLevelEdges
      BY <1>2 DEF SP
    <3>7. \A k \in 0 .. (lvl' - 1) :
            /\ levelVer'[k] <= levelVer'[k + 1] /\ levelVer'[k + 1] <= levelVer'[lvl']
            /\ Holds(compactLevelEdges, levelVer'[k], levelVer'[k + 1],
                     {a \in SP : dist[g.src[a]] = k})
      BY <1>12, <3>2 DEF At
    <3>8. Holds(compactLevelEdges, levelVer'[lvl'], writeCount,
                {a \in SP : dist[g.src[a]] = lvl' /\ \A i \in todo' : levelEdges[i] # a})
      BY <3>1, <3>2, <3>4, <3>5
    <3> QED
      BY <1>13, <2>1, <3>2, <3>3, <3>6, <3>7, <3>8 DEF CompactInv
  <2>2. CASE pc' = "return"
    <3>1. lvl + 1 = level
      BY <1>4, <2>2
    <3>2. level - 1 = lvl
      BY <1>3, <3>1
    <3>3. \A k \in 0 .. (level - 1) :
            /\ levelVer'[k] <= levelVer'[k + 1]
            /\ Holds(compactLevelEdges, levelVer'[k], levelVer'[k + 1],
                     {a \in SP : dist[g.src[a]] = k})
      BY <1>12, <3>2 DEF At
    <3>4. /\ ShortestPathEdges(g', flow') = SP /\ level' = level
          /\ dist' = dist /\ g' = g /\ compactLevelEdges' = compactLevelEdges
      BY <1>2 DEF SP
    <3> QED
      BY <1>13, <2>2, <3>3, <3>4 DEF CompactInv
  <2> QED
    BY <1>4, <2>1, <2>2
<1>15. ResultInv'
  <2>1. dist'[g'.sink] # -1
    BY <1>2, <1>3
  <2> QED
    BY <1>1, <1>2, <1>4, <2>1 DEF ResultInv
<1> QED
  BY <1>8, <1>9, <1>10, <1>14, <1>15 DEF BuilderInv

-------------------------------------------------------------------------------
(* The invariant.                                                          *)

LEMMA InitHolds ==
  ASSUME Init
  PROVE  BuilderInv
<1>1. /\ g \in Cases /\ flow = [a \in Edges(g) |-> 0] /\ pc = "search"
      /\ dist = [x \in Nodes(g) |-> IF x = g.source THEN 0 ELSE -1]
      /\ global = [i \in Nodes(g) |-> IF i = 0 THEN g.source ELSE -1]
      /\ globalSize = 1 /\ newSize = 0
      /\ levelEdges = [i \in Edges(g) |-> -1] /\ levelEdgeCount = 0 /\ levelEdgeBase = 0
      /\ level = 0 /\ levelVer = [k \in 0 .. g.nodeCount |-> 0] /\ untaken = {0}
      /\ at = [t \in Threads |-> "loop"] /\ node = [t \in Threads |-> g.source]
      /\ edge = [t \in Threads |-> 0]
      /\ localNodes = [t \in Threads |-> <<>>] /\ localLevelEdges = [t \in Threads |-> <<>>]
      /\ foundNodes = [t \in Threads |-> 0] /\ foundLevelEdges = [t \in Threads |-> 0]
      /\ reach = {} /\ lvl = 0 /\ todo = {}
      /\ compactLevelEdges = [i \in Edges(g) |-> -1] /\ writeCount = 0 /\ result = -1
  BY DEF Init
<1>2. IsCase(g)
  BY <1>1, CasesAssumption
<1>3. /\ g.nodeCount \in Nat /\ g.edgeCount \in Nat /\ Nodes(g) = 0 .. (g.nodeCount - 1)
      /\ g.source \in Nodes(g) /\ g.sink \in Nodes(g) /\ g.source # g.sink
      /\ 0 \in Nodes(g) /\ 0 \in 0 .. g.nodeCount
  BY <1>2 DEF IsCase, Nodes
<1>4. TypeOK
  <2>1. /\ pc \in Labels /\ result \in {-1, 0, 1}
        /\ dist \in [Nodes(g) -> Nat \cup {-1}] /\ global \in [Nodes(g) -> Int]
        /\ reach \in SUBSET Nodes(g) /\ todo \in SUBSET Int
    BY <1>1, <1>3 DEF Labels
  <2>2. /\ at \in [Threads -> {"loop", "scan", "claim", "reread", "barrier", "joined"}]
        /\ node \in [Threads -> Nodes(g)] /\ edge \in [Threads -> Nat]
        /\ foundNodes \in [Threads -> Nat] /\ foundLevelEdges \in [Threads -> Nat]
    BY <1>1, <1>3
  <2>3. /\ localNodes \in [Threads -> Seq(Nodes(g))]
        /\ localLevelEdges \in [Threads -> Seq(Edges(g))]
    BY <1>1
  <2>4. /\ levelEdges \in [Edges(g) -> Edges(g) \cup {-1}]
        /\ compactLevelEdges \in [Edges(g) -> Edges(g) \cup {-1}]
        /\ levelVer \in [0 .. g.nodeCount -> Nat]
    BY <1>1
  <2> QED
    BY <1>1, <2>1, <2>2, <2>3, <2>4 DEF TypeOK
<1>5. \A x \in Nodes(g) : dist[x] = IF x = g.source THEN 0 ELSE -1
  BY <1>1
<1>6. \A a \in ResidualEdges(g, flow) : g.src[a] \in Nodes(g) /\ g.dst[a] \in Nodes(g)
  BY <1>4, CaseParts
<1>7. LabelInv
  <2>1. ASSUME NEW x \in Nodes(g)
        PROVE  (dist[x] = 0 <=> x = g.source) /\ ~(dist[x] > 0) /\ dist[x] <= level + 1
    BY <1>1, <1>5
  <2>2. dist[g.sink] = -1 /\ dist[g.source] = 0
    BY <1>3, <1>5
  <2>3. \A k \in 0 .. level : \E x \in Nodes(g) : dist[x] = k
    BY <1>1, <1>3, <2>2
  <2>4. 0 .. (level - 1) = {}
    BY <1>1
  <2> QED
    BY <1>1, <2>1, <2>2, <2>3, <2>4 DEF LabelInv
<1>8. LevelsInv
  <2>1. OldVer = levelVer /\ levelVer[0] = 0 /\ level = 0 /\ 0 .. (level - 1) = {}
    BY <1>1, <1>3 DEF OldVer
  <2> QED
    BY <1>3, <2>1 DEF LevelsInv, LevelsDone
<1>9. \A t \in Threads : ~Active(t) /\ at[t] = "loop"
  BY <1>1 DEF Active
<1>10. /\ \A t \in Threads : /\ Elements(localNodes[t]) = {} /\ Elements(localLevelEdges[t]) = {}
                             /\ Distinct(localNodes[t]) /\ Distinct(localLevelEdges[t])
       /\ Disjoint(localNodes) /\ Disjoint(localLevelEdges)
       /\ All(localNodes) = {} /\ All(localLevelEdges) = {}
  <2>1. \A t \in Threads : /\ Elements(localNodes[t]) = {} /\ Elements(localLevelEdges[t]) = {}
                           /\ Distinct(localNodes[t]) /\ Distinct(localLevelEdges[t])
    BY <1>1 DEF Elements, Distinct
  <2> QED
    BY <2>1 DEF Disjoint, All
<1>11. FrontierInv /\ Pending = {g.source}
  <2>1. 0 .. (globalSize - 1) = {0} /\ global[0] = g.source
    BY <1>1, <1>3
  <2>2. {x \in Nodes(g) : dist[x] = level} = {g.source}
    BY <1>1, <1>3, <1>5
  <2>3. Holds(global, 0, globalSize, {x \in Nodes(g) : dist[x] = level})
    BY <2>1, <2>2 DEF Holds
  <2>4. globalSize \in 1 .. g.nodeCount /\ levelVer[level] = levelEdgeBase
    BY <1>1, <1>3
  <2> QED
    BY <1>1, <1>3, <2>1, <2>3, <2>4 DEF FrontierInv, Pending
<1>12. ScanInv
  BY <1>9 DEF ScanInv
<1>13. ClaimInv
  <2>1. {x \in Nodes(g) : dist[x] = level + 1} = {}
    BY <1>1, <1>5
  <2> QED
    BY <1>10, <2>1 DEF ClaimInv
<1>14. RecordInv
  <2>1. \A a \in ResidualEdges(g, flow) : dist[g.src[a]] = level => Ahead(a)
    BY <1>1, <1>5, <1>6, <1>11 DEF Ahead
  <2> QED
    BY <1>10, <2>1 DEF RecordInv
<1>15. CopyInv
  <2>1. NumThreads - 1 \in Threads
    BY ThreadsAssumption DEF Threads
  <2> QED
    BY <1>1, <1>9, <2>1 DEF CopyInv, Joining, Base, IsInLoop
<1>16. SearchInv
  <2>1. dist[g.sink] = -1
    BY <1>3, <1>5
  <2> QED
    BY <1>11, <1>12, <1>13, <1>14, <1>15, <2>1 DEF SearchInv
<1>17. PruneInv /\ CompactInv /\ ResultInv
  BY <1>1 DEF PruneInv, CompactInv, ResultInv
<1> QED
  BY <1>4, <1>7, <1>8, <1>16, <1>17 DEF BuilderInv

LEMMA ClaimKeeps ==
  ASSUME BuilderInv, pc = "search", NEW t \in Threads, Claim(t)
  PROVE  BuilderInv'
BY ClaimFails, ClaimSucceeds

LEMMA BuilderStep ==
  ASSUME BuilderInv, [Next]_vars
  PROVE  BuilderInv'
<1>1. ASSUME NEW t \in Threads, Thread(t) PROVE BuilderInv'
  <2>1. pc = "search"
    BY <1>1 DEF Thread
  <2>2. CASE \E i \in untaken : TakeNode(t, i)
    BY <2>1, <2>2, TakeNodeKeeps
  <2>3. CASE SkipEdge(t)
    BY <2>1, <2>3, ReadKeeps
  <2>4. CASE ReadDist(t)
    BY <2>1, <2>4, ReadKeeps
  <2>5. CASE Claim(t)
    BY <2>1, <2>5, ClaimKeeps
  <2>6. CASE Reread(t)
    BY <2>1, <2>6, ReadKeeps
  <2>7. CASE ScanEnd(t)
    BY <2>1, <2>7, ScanEndKeeps
  <2>8. CASE Publish(t)
    BY <2>1, <2>8, PublishKeeps
  <2>9. CASE Copy(t)
    BY <2>1, <2>9, CopyKeeps
  <2> QED
    BY <1>1, <2>2, <2>3, <2>4, <2>5, <2>6, <2>7, <2>8, <2>9 DEF Thread
<1>2. ASSUME NEW i \in todo, Iteration(i) PROVE BuilderInv'
  <2>1. CASE MarkReach(i)
    BY <2>1, MarkReachKeeps
  <2>2. CASE Compact(i)
    BY <2>2, CompactKeeps
  <2> QED
    BY <1>2, <2>1, <2>2 DEF Iteration
<1>3. CASE Join
  BY <1>3, JoinKeeps
<1>4. CASE PruneStart
  BY <1>4, PruneStartKeeps
<1>5. CASE MarkLevel
  BY <1>5, MarkLevelKeeps
<1>6. CASE MarkEnd
  BY <1>6, MarkEndKeeps
<1>7. CASE CompactLevel
  BY <1>7, CompactLevelKeeps
<1>8. CASE UNCHANGED vars
  <2>1. /\ UNCHANGED <<g, flow, result, pc, dist, global, globalSize, newSize, levelEdges,
                       levelEdgeCount, levelEdgeBase, level, levelVer, untaken, at, node, edge,
                       localNodes, localLevelEdges, foundNodes, foundLevelEdges,
                       reach, lvl, todo, compactLevelEdges, writeCount>>
    BY <1>8 DEF vars, callVars, searchVars, threadVars, foundVars, pruneVars
  <2>2. TypeOK' /\ LabelInv' /\ ResultInv'
    <3>1. (TypeOK' <=> TypeOK) /\ (LabelInv' <=> LabelInv) /\ (ResultInv' <=> ResultInv)
      <4>1. TypeOK' <=> TypeOK
        BY <2>1 DEF TypeOK
      <4>2. LabelInv' <=> LabelInv
        BY <2>1 DEF LabelInv
      <4>3. ResultInv' <=> ResultInv
        BY <2>1 DEF ResultInv
      <4> QED
        BY <4>1, <4>2, <4>3
    <3> QED
      BY <3>1 DEF BuilderInv
  <2>3. LevelsInv'
    BY <2>1 DEF BuilderInv, LevelsInv, LevelsDone, OldVer, Holds, EdgesOf
  <2>4. FrontierInv' <=> FrontierInv
    BY <2>1 DEF FrontierInv, Joining, Holds
  <2>5. ScanInv' <=> ScanInv
    BY <2>1 DEF ScanInv, Active, Pending, Target
  <2>6. ClaimInv' <=> ClaimInv
    BY <2>1 DEF ClaimInv
  <2>7. RecordInv' <=> RecordInv
    BY <2>1 DEF RecordInv, Ahead, Active, Pending, EdgesOf
  <2>8. CopyInv' <=> CopyInv
    BY <2>1 DEF CopyInv, Joining, HavePublished, IsInLoop, Base
  <2>9. SearchInv'
    BY <2>1, <2>4, <2>5, <2>6, <2>7, <2>8 DEF BuilderInv, SearchInv
  <2>10. PruneInv' /\ CompactInv'
    BY <2>1 DEF BuilderInv, PruneInv, CompactInv, OldVer, Live
  <2> QED
    BY <2>2, <2>3, <2>9, <2>10 DEF BuilderInv
<1> QED
  BY <1>1, <1>2, <1>3, <1>4, <1>5, <1>6, <1>7, <1>8 DEF Next

\* Every behaviour of the builder keeps its invariant, whichever thread begins which
\* position of a frontier, in whatever order, and however early a thread without one
\* leaves the loop: what the threads of a region have claimed and recorded between them,
\* and where it goes, is what a sequential search of the same network finds.
THEOREM BuilderInvariant == Spec => []BuilderInv
<1>1. Init => BuilderInv
  BY InitHolds
<1>2. BuilderInv /\ [Next]_vars => BuilderInv'
  BY BuilderStep
<1> QED
  BY <1>1, <1>2, PTL DEF Spec

-------------------------------------------------------------------------------
(* What follows from it.                                                   *)

\* Between two regions the frontier holds every node of the level just finished, each
\* once, whatever thread claimed it and wherever it was copied.
THEOREM FrontierHoldsTheLevel == Spec => []FrontierIsLevel
<1>1. ASSUME BuilderInv PROVE FrontierIsLevel
  <2> DEFINE d == Distances(g, flow)
             frontier == {i \in Nodes(g) : i < globalSize}
  <2> SUFFICES ASSUME pc = "search", untaken = 0 .. (globalSize - 1), \A t \in Threads : at[t] = "loop"
               PROVE  /\ {global[i] : i \in frontier} = {x \in Nodes(g) : dist[x] = level}
                      /\ \A i, j \in frontier : global[i] = global[j] => i = j
                      /\ \A x \in Nodes(g) : dist[x] \in {-1, d[x]}
    BY DEF FrontierIsLevel
  <2>1. TypeOK /\ LabelInv /\ FrontierInv
    BY <1>1 DEF BuilderInv, SearchInv
  <2>2. Holds(global, 0, globalSize, {x \in Nodes(g) : dist[x] = level})
    BY <2>1 DEF FrontierInv, Joining
  <2>3. frontier = 0 .. (globalSize - 1)
    <3>1. Nodes(g) = 0 .. (g.nodeCount - 1) /\ g.nodeCount \in Nat /\ globalSize \in 1 .. g.nodeCount
      BY <2>1, CaseParts DEF FrontierInv
    <3> QED
      BY <3>1
  <2>4. /\ IsCase(g) /\ level \in Nat /\ dist \in [Nodes(g) -> Nat \cup {-1}]
        /\ \A x \in Nodes(g) : dist[x] <= level + 1
        /\ \A a \in ResidualEdges(g, flow) : g.src[a] \in Nodes(g) /\ g.dst[a] \in Nodes(g)
    BY <2>1, CaseParts DEF TypeOK, LabelInv
  <2>5. \A x \in Nodes(g) : /\ dist[x] \in 0 .. level => d[x] = dist[x]
                            /\ d[x] \in 0 .. level => dist[x] = d[x]
    <3>1. /\ \A x \in Nodes(g) : dist[x] = 0 <=> x = g.source
          /\ \A a \in ResidualEdges(g, flow) :
               dist[g.src[a]] \in 0 .. (level - 1) => dist[g.dst[a]] \in 0 .. (dist[g.src[a]] + 1)
          /\ \A x \in Nodes(g) :
               dist[x] > 0 => \E a \in ResidualEdges(g, flow) :
                                g.dst[a] = x /\ dist[g.src[a]] = dist[x] - 1
      BY <2>1 DEF LabelInv
    <3>2. PICK c, f, K, e : c = g /\ f = flow /\ K = level /\ e = dist
      OBVIOUS
    <3>3. /\ IsCase(c) /\ K \in Nat /\ e \in [Nodes(c) -> Nat \cup {-1}]
          /\ \A x \in Nodes(c) : e[x] = 0 <=> x = c.source
          /\ \A a \in ResidualEdges(c, f) :
               e[c.src[a]] \in 0 .. (K - 1) => e[c.dst[a]] \in 0 .. (e[c.src[a]] + 1)
          /\ \A x \in Nodes(c) :
               e[x] > 0 => \E a \in ResidualEdges(c, f) : c.dst[a] = x /\ e[c.src[a]] = e[x] - 1
      BY <2>4, <3>1, <3>2
    <3>4. \A x \in Nodes(c) : /\ e[x] \in 0 .. K => Distances(c, f)[x] = e[x]
                              /\ Distances(c, f)[x] \in 0 .. K => e[x] = Distances(c, f)[x]
      BY ONLY <3>3, LabelsAreDistances
    <3> QED
      BY <3>2, <3>4
  <2>6. ASSUME NEW x \in Nodes(g), dist[x] # -1 PROVE dist[x] = d[x]
    <3>1. CASE dist[x] \in 0 .. level
      BY <2>5, <3>1
    <3>2. CASE dist[x] = level + 1
      <4>1. PICK a \in ResidualEdges(g, flow) : g.dst[a] = x /\ dist[g.src[a]] = level
        BY <2>1, <2>4, <3>2 DEF LabelInv
      <4>2. d[g.src[a]] = level
        BY <2>4, <2>5, <4>1
      <4>3. d[x] \in 0 .. (level + 1)
        BY <2>4, <4>1, <4>2, DistanceFacts
      <4>4. d[x] \notin 0 .. level
        BY <2>4, <2>5, <3>2
      <4> QED
        BY <2>4, <3>2, <4>3, <4>4
    <3> QED
      BY <2>4, <2>6, <3>1, <3>2
  <2> HIDE DEF frontier
  <2> QED
    BY <2>2, <2>3, <2>6 DEF Holds
<1> QED
  BY <1>1, BuilderInvariant, PTL

\* A call that finds no path has reached every node that can be reached.
LEMMA NoPathLeft ==
  ASSUME BuilderInv, pc = "return", dist[g.sink] = -1
  PROVE  ~HasAugmentingPath(g, flow)
<1> DEFINE T == {x \in Nodes(g) : dist[x] # -1}
<1>1. TypeOK /\ LabelInv /\ ResultInv
  BY DEF BuilderInv
<1>2. /\ IsCase(g) /\ level \in Nat /\ dist \in [Nodes(g) -> Nat \cup {-1}]
      /\ g.source \in Nodes(g) /\ g.sink \in Nodes(g)
      /\ \A a \in ResidualEdges(g, flow) : g.src[a] \in Nodes(g) /\ g.dst[a] \in Nodes(g)
  BY <1>1, CaseParts DEF TypeOK
<1>3. ASSUME NEW a \in ResidualEdges(g, flow), g.src[a] \in T
      PROVE  g.dst[a] \in T
  <2>1. dist[g.src[a]] # level /\ dist[g.src[a]] <= level /\ dist[g.src[a]] \in Nat
    BY <1>1, <1>2, <1>3 DEF ResultInv, LabelInv
  <2>2. dist[g.src[a]] \in 0 .. (level - 1)
    BY <1>2, <2>1
  <2>3. dist[g.dst[a]] \in 0 .. (dist[g.src[a]] + 1)
    BY <1>1, <2>2 DEF LabelInv
  <2> QED
    BY <1>2, <2>3
<1>4. g.source \in T /\ g.sink \notin T
  <2>1. dist[g.source] = 0
    BY <1>1, <1>2 DEF LabelInv
  <2> QED
    BY <1>2, <2>1
<1> HIDE DEF T
<1> QED
  BY <1>2, <1>3, <1>4, ClosedSetHasNoPath

\* The level graph returned holds, level by level, exactly the edges of shortest
\* augmenting paths, each once; 0 is returned if and only if there is no such path.
THEOREM LevelGraphExact == Spec => []LevelGraphIsExact
<1>1. ASSUME BuilderInv PROVE LevelGraphIsExact
  <2> DEFINE d == Distances(g, flow)
             SP == ShortestPathEdges(g, flow)
             edgesOf(k) == {compactLevelEdges[i] : i \in Positions(levelVer, k)}
  <2> SUFFICES ASSUME pc = "return"
               PROVE  /\ result = 1 <=> HasAugmentingPath(g, flow)
                      /\ result = 1 =>
                           /\ level = d[g.sink]
                           /\ levelVer[0] = 0
                           /\ \A k \in 0 .. (level - 1) :
                                /\ edgesOf(k) = {a \in SP : d[g.src[a]] = k}
                                /\ Cardinality(edgesOf(k)) = levelVer[k + 1] - levelVer[k]
    BY DEF LevelGraphIsExact
  <2>1. TypeOK /\ LabelInv /\ CompactInv /\ ResultInv
    BY <1>1 DEF BuilderInv
  <2>2. CASE dist[g.sink] = -1
    <3>1. result = 0
      BY <2>1, <2>2 DEF ResultInv
    <3>2. ~HasAugmentingPath(g, flow)
      BY <1>1, <2>2, NoPathLeft
    <3> QED
      BY <3>1, <3>2
  <2>3. CASE dist[g.sink] # -1
    <3>1. result = 1 /\ dist[g.sink] = level
      BY <2>1, <2>3 DEF ResultInv, LabelInv
    <3>2. /\ HasAugmentingPath(g, flow) /\ d[g.sink] = level /\ level \in Nat /\ level < g.nodeCount
          /\ \A a \in LevelEdges(g, flow) : d[g.src[a]] = dist[g.src[a]]
      BY <2>1, <3>1, SearchResult
    <3>3. \A k \in 0 .. (level - 1) :
            /\ levelVer[k] <= levelVer[k + 1]
            /\ Holds(compactLevelEdges, levelVer[k], levelVer[k + 1],
                     {a \in SP : dist[g.src[a]] = k})
      BY <2>1, <3>1 DEF CompactInv
    <3>4. \A a \in SP : d[g.src[a]] = dist[g.src[a]]
      BY <3>2 DEF ShortestPathEdges, Between
    <3> HIDE DEF SP, d
    <3>5. ASSUME NEW k \in 0 .. (level - 1)
          PROVE  /\ edgesOf(k) = {a \in SP : d[g.src[a]] = k}
                 /\ Cardinality(edgesOf(k)) = levelVer[k + 1] - levelVer[k]
      <4>1. edgesOf(k) = {a \in SP : dist[g.src[a]] = k}
        BY <3>3 DEF Holds, Positions
      <4>2. {a \in SP : dist[g.src[a]] = k} = {a \in SP : d[g.src[a]] = k}
        BY <3>4
      <4>3. levelVer[k] \in Nat /\ levelVer[k + 1] \in Nat
        <5>1. k \in 0 .. g.nodeCount /\ k + 1 \in 0 .. g.nodeCount
          BY <2>1, <3>2, CaseParts
        <5> QED
          BY <2>1, <5>1 DEF TypeOK
      <4> HIDE DEF edgesOf
      <4>4. Holds(compactLevelEdges, levelVer[k], levelVer[k + 1], edgesOf(k))
        BY <3>3, <4>1
      <4>5. Cardinality(edgesOf(k)) = levelVer[k + 1] - levelVer[k]
        BY <3>3, <4>3, <4>4, HoldsCount
      <4> QED
        BY <4>1, <4>2, <4>5
    <3>6. levelVer[0] = 0
      BY <2>1, <3>1 DEF CompactInv
    <3> QED
      BY <3>1, <3>2, <3>5, <3>6
  <2> QED
    BY <2>2, <2>3
<1> QED
  BY <1>1, BuilderInvariant, PTL

\* An index array that grows at every step ends with its largest entry.
LEMMA StepsGrow ==
  ASSUME NEW K \in Nat, NEW v, \A k \in 0 .. K : v[k] \in Nat,
         \A k \in 0 .. (K - 1) : v[k] <= v[k + 1]
  PROVE  \A k \in 0 .. (K - 1) : v[k + 1] <= v[K]
<1> DEFINE A == {n \in Nat : n <= K /\ v[K - n] > v[K]}
<1>1. A = {}
  <2> SUFFICES ASSUME A # {} PROVE FALSE
    OBVIOUS
  <2>1. PICK n \in A : \A m \in A : ~(m < n)
    <3>1. A \in SUBSET Nat
      OBVIOUS
    <3> HIDE DEF A
    <3> QED
      BY <3>1, LeastNumber
  <2>2. n \in Nat /\ n <= K /\ v[K - n] > v[K]
    BY <2>1
  <2>3. n # 0
    <3>1. K - 0 = K /\ v[K] \in Nat
      OBVIOUS
    <3> QED
      BY <2>2, <3>1
  <2>4. n - 1 \in Nat /\ n - 1 <= K /\ n - 1 < n /\ K - n \in 0 .. (K - 1)
        /\ K - (n - 1) = (K - n) + 1 /\ (K - n) + 1 \in 0 .. K /\ K - n \in 0 .. K
    BY <2>2, <2>3
  <2>5. v[(K - n) + 1] > v[K]
    <3>1. v[K - n] \in Nat /\ v[(K - n) + 1] \in Nat /\ v[K] \in Nat /\ v[K - n] <= v[(K - n) + 1]
      BY <2>4
    <3> QED
      BY <2>2, <3>1
  <2>6. n - 1 \in A
    BY <2>4, <2>5
  <2> QED
    BY <2>1, <2>4, <2>6
<1>2. ASSUME NEW k \in 0 .. (K - 1) PROVE v[k + 1] <= v[K]
  <2>1. K - (k + 1) \in Nat /\ K - (k + 1) <= K /\ K - (K - (k + 1)) = k + 1
        /\ k + 1 \in 0 .. K /\ K \in 0 .. K
    OBVIOUS
  <2>2. ~(v[K - (K - (k + 1))] > v[K])
    BY <1>1, <2>1
  <2> QED
    BY <2>1, <2>2
<1> QED
  BY <1>2

\* The finished levels of levelEdges[] hold edges: also by the index array that is left
\* when the unneeded edges are gone, as these are no more than before.
LEMMA LevelsAreRead ==
  ASSUME BuilderInv
  PROVE  \A i \in 0 .. (levelVer[level] - 1) : levelEdges[i] \in Edges(g)
<1>1. TypeOK /\ LabelInv /\ LevelsInv /\ PruneInv /\ CompactInv /\ ResultInv
  BY DEF BuilderInv
<1>2. /\ OldVer[level] \in Nat
      /\ \A i \in 0 .. (OldVer[level] - 1) : levelEdges[i] \in Edges(g)
  BY <1>1, OldEdges DEF Holds
<1>3. CASE pc # "compact" /\ ~(pc = "return" /\ result = 1)
  BY <1>2, <1>3 DEF OldVer
<1>4. CASE pc = "compact"
  <2>1. dist[g.sink] = level
    BY <1>1, <1>4 DEF LabelInv
  <2>2. level \in (lvl + 1) .. level
    BY <1>1, <1>4, <2>1, SearchResult DEF PruneInv
  <2> QED
    BY <1>1, <1>2, <1>4, <2>2 DEF OldVer, CompactInv
<1>5. CASE pc = "return" /\ result = 1
  <2> DEFINE SP == ShortestPathEdges(g, flow)
             S == [k \in 0 .. (level - 1) |-> {a \in SP : dist[g.src[a]] = k}]
             V == UNION {EdgesOf(k) : k \in 0 .. (level - 1)}
  <2>1. dist[g.sink] = level
    BY <1>1, <1>5 DEF ResultInv, LabelInv
  <2>2. /\ level \in Nat /\ level < g.nodeCount /\ g.nodeCount \in Nat
        /\ \A a \in LevelEdges(g, flow) : dist[g.src[a]] \in 0 .. (level - 1)
        /\ \A k \in 0 .. (level - 1) :
             EdgesOf(k) = {a \in LevelEdges(g, flow) : dist[g.src[a]] = k}
    BY <1>1, <1>5, <2>1, SearchResult, CaseParts
  <2>3. SP \subseteq LevelEdges(g, flow)
    BY DEF ShortestPathEdges, Between
  <2>4. \A x : x \in SP <=> \E k \in 0 .. (level - 1) : x \in S[k]
    BY <2>2, <2>3
  <2>5. SP \subseteq V
    BY <2>2, <2>3
  <2>6. /\ \A k \in 0 .. level : levelVer[k] \in Nat
        /\ levelVer[0] = 0
    <3>1. \A k \in 0 .. level : k \in 0 .. g.nodeCount
      BY <2>2
    <3> QED
      BY <1>1, <1>5, <3>1 DEF TypeOK, CompactInv
  <2> HIDE DEF SP
  <2>7. \A k \in 0 .. (level - 1) :
          levelVer[k] <= levelVer[k + 1] /\ Holds(compactLevelEdges, levelVer[k], levelVer[k + 1], S[k])
    BY <1>1, <1>5 DEF CompactInv, SP
  <2>8. \A k, m \in 0 .. (level - 1) : k # m => S[k] \cap S[m] = {}
    OBVIOUS
  <2> HIDE DEF S, V
  <2>9. \A k \in 0 .. (level - 1) : levelVer[k + 1] <= levelVer[level]
    BY <2>2, <2>6, <2>7, StepsGrow
  <2>10. Holds(compactLevelEdges, 0, levelVer[level], SP)
    <3>1. \A k \in 0 .. (level - 1) : /\ levelVer[k] <= levelVer[k + 1] /\ levelVer[k + 1] <= levelVer[level]
                                      /\ Holds(compactLevelEdges, levelVer[k], levelVer[k + 1], S[k])
      BY <2>7, <2>9
    <3>2. level \in Nat
      BY <2>2
    <3> QED
      BY ONLY <2>4, <2>6, <2>8, <3>1, <3>2, LevelsHold
  <2>11. Holds(levelEdges, 0, OldVer[level], V)
    BY <1>1, OldEdges DEF V
  <2>12. levelVer[level] <= OldVer[level]
    <3>1. 0 <= levelVer[level] /\ 0 <= OldVer[level] /\ levelVer[level] \in Nat
          /\ levelVer[level] - 0 = levelVer[level] /\ OldVer[level] - 0 = OldVer[level]
      BY <1>2, <2>2, <2>6
    <3>2. IsFiniteSet(V) /\ Cardinality(V) = OldVer[level]
      BY <1>2, <2>11, <3>1, HoldsCount
    <3>3. IsFiniteSet(SP) /\ Cardinality(SP) = levelVer[level]
      BY <2>10, <3>1, HoldsCount
    <3> QED
      BY <2>5, <3>2, <3>3, FS_Subset
  <2>13. levelVer[level] \in Nat
    BY <2>2, <2>6
  <2> QED
    BY <1>2, <2>12, <2>13
<1> QED
  BY <1>3, <1>4, <1>5

\* No write to a buffer lies outside of it, and no position is read that was not written.
THEOREM BuffersAreLongEnough == Spec => []BuffersSuffice
<1>1. ASSUME BuilderInv PROVE BuffersSuffice
  <2>1. TypeOK /\ LabelInv /\ LevelsInv /\ SearchInv /\ ResultInv
    BY <1>1 DEF BuilderInv
  <2>2. /\ g.nodeCount \in Nat /\ g.edgeCount \in Nat /\ level \in Nat
        /\ globalSize \in Nat /\ levelEdgeCount \in Nat
    BY <2>1, CaseParts DEF TypeOK
  <2>3. globalSize <= g.nodeCount /\ levelEdgeCount <= g.edgeCount
    <3>1. CASE pc = "search"
      <4>1. FrontierInv /\ CopyInv
        BY <2>1, <3>1 DEF SearchInv
      <4>2. globalSize <= g.nodeCount
        BY <2>2, <4>1 DEF FrontierInv
      <4>3. CASE at[NumThreads - 1] = "joined"
        <5>1. NumThreads - 1 \in Threads
          BY ThreadsAssumption DEF Threads
        <5>2. \A t \in Threads : at[t] \in {"barrier", "joined"}
          BY <4>1, <4>3, <5>1 DEF CopyInv, Joining, HavePublished, IsInLoop
        <5> QED
          BY <1>1, <2>2, <3>1, <4>1, <4>2, <4>3, <5>2, RoomForFinds DEF CopyInv
      <4>4. CASE at[NumThreads - 1] # "joined"
        BY <1>1, <3>1, <4>1, <4>2, <4>4, RoomForFinds DEF CopyInv, Base
      <4> QED
        BY <4>3, <4>4
    <3>2. CASE pc # "search"
      BY <2>1, <3>2 DEF ResultInv
    <3> QED
      BY <3>1, <3>2
  <2>4. pc = "search" => \A i \in 0 .. (globalSize - 1) : global[i] \in Nodes(g)
    BY <2>1 DEF SearchInv, FrontierInv
  <2>5. \A i \in 0 .. (levelVer[level] - 1) : levelEdges[i] \in Edges(g)
    BY <1>1, LevelsAreRead
  <2>6. level <= g.nodeCount /\ (pc \in {"prune", "reach", "compact"} => level + 1 <= g.nodeCount)
    BY <2>1, <2>2, LevelFits
  <2>7. \A t \in Threads : /\ Len(localNodes[t]) <= g.nodeCount
                           /\ Len(localLevelEdges[t]) <= g.edgeCount
    <3>1. CASE pc = "search"
      BY <1>1, <3>1, RoomForFinds
    <3>2. CASE pc # "search"
      <4>1. Len(<<>>) = 0
        OBVIOUS
      <4> QED
        BY <2>1, <2>2, <3>2, <4>1 DEF ResultInv
    <3> QED
      BY <3>1, <3>2
  <2>8. pc = "search" /\ HavePublished =>
          \A t \in Threads :
            /\ Before(foundNodes, t) + Len(localNodes[t]) <= g.nodeCount
            /\ Base + Before(foundLevelEdges, t) + Len(localLevelEdges[t]) <= g.edgeCount
    BY <1>1, RoomForFinds DEF HavePublished, IsInLoop
  <2> QED
    BY <2>3, <2>4, <2>5, <2>6, <2>7, <2>8 DEF BuffersSuffice
<1> QED
  BY <1>1, BuilderInvariant, PTL

===============================================================================
