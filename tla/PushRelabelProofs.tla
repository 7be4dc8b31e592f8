--------------------------- MODULE PushRelabelProofs ---------------------------
(***************************************************************************)
(* The push-relabel solver keeps its invariant and returns the capacity of *)
(* a minimum cut, on every network.                                        *)
(*                                                                         *)
(* The invariant PreflowInv of PushRelabelHighest is inductive.  There is  *)
(* one lemma per action; the steps that push water are taken apart by a    *)
(* lemma about the sums of the excesses.  At the end no vertex that may    *)
(* reach the sink has any excess left, and some label is not in use: the   *)
(* vertices above it are the source's side of a cut that is filled.        *)
(***************************************************************************)
EXTENDS PushRelabelHighest, FlowNetworkProofs

-------------------------------------------------------------------------------
(* The network, and least and largest members.                             *)

LEMMA LeastMember ==
  ASSUME NEW A \in SUBSET Nat, A # {}
  PROVE  Min(A) \in A /\ \A x \in A : Min(A) <= x
<1>1. \E n \in A : \A m \in A : n <= m
  <2>1. PICK n \in A : \A m \in A : ~(m < n)
    BY LeastNumber
  <2>2. n \in Nat /\ \A m \in A : m \in Nat
    OBVIOUS
  <2> QED
    BY <2>1, <2>2
<1> QED
  BY <1>1 DEF Min

LEMMA LargestMember ==
  ASSUME NEW n \in Nat, NEW A \in SUBSET (0 .. n), A # {}
  PROVE  Max(A) \in A /\ \A x \in A : x <= Max(A)
<1> DEFINE B == {m \in 0 .. n : n - m \in A}
<1>1. PICK x \in A : TRUE
  OBVIOUS
<1>2. n - x \in B
  <2>1. x \in 0 .. n /\ n - x \in 0 .. n /\ n - (n - x) = x
    OBVIOUS
  <2> QED
    BY <2>1
<1>3. PICK m \in B : \A i \in B : ~(i < m)
  <2>1. B \in SUBSET Nat
    OBVIOUS
  <2> HIDE DEF B
  <2> QED
    BY <1>2, <2>1, LeastNumber
<1>4. ASSUME NEW y \in A PROVE y <= n - m
  <2>1. y \in 0 .. n /\ n - y \in 0 .. n /\ n - (n - y) = y
    OBVIOUS
  <2>2. n - y \in B
    BY <2>1
  <2>3. ~(n - y < m)
    BY <1>3, <2>2
  <2>4. m \in 0 .. n
    OBVIOUS
  <2> HIDE DEF B
  <2> QED
    BY <2>1, <2>3, <2>4
<1>5. n - m \in A
  OBVIOUS
<1> HIDE DEF B
<1> QED
  BY <1>4, <1>5 DEF Max

LEMMA GraphFacts ==
  ASSUME TypeOK
  PROVE  /\ IsCase(g) /\ IsMerged(g)
         /\ NotReached \in Nat /\ NotReached > 1 /\ NotReached = g.nodeCount
         /\ Nodes(g) = 0 .. (NotReached - 1)
         /\ g.edgeCount \in Nat /\ Edges(g) = 0 .. (g.edgeCount - 1)
         /\ g.source \in Nodes(g) /\ g.sink \in Nodes(g) /\ g.source # g.sink
         /\ \A a \in Edges(g) :
              /\ a \in Nat
              /\ g.src[a] \in Nodes(g) /\ g.dst[a] \in Nodes(g)
              /\ g.rev[a] \in Edges(g) /\ g.rev[g.rev[a]] = a /\ g.rev[a] # a
              /\ g.src[g.rev[a]] = g.dst[a] /\ g.dst[g.rev[a]] = g.src[a]
              /\ g.capacity[a] \in Nat
         /\ \A x \in Nodes(g) :
              /\ g.ver[x] \in 0 .. g.edgeCount
              /\ \A a \in Out(g, x) : g.ver[x] <= a /\ a \in Edges(g) /\ g.src[a] = x
              /\ Out(g, x) \in SUBSET Nat
              /\ IsFiniteSet(Out(g, x))
<1>1. IsCase(g) /\ IsMerged(g)
  BY CasesAssumption, MergedAssumption DEF TypeOK
<1>2. /\ g.nodeCount \in Nat /\ g.edgeCount \in Nat
      /\ g.source \in Nodes(g) /\ g.sink \in Nodes(g) /\ g.source # g.sink
  BY <1>1 DEF IsCase
<1>3. /\ Nodes(g) = 0 .. (NotReached - 1) /\ Edges(g) = 0 .. (g.edgeCount - 1)
      /\ NotReached = g.nodeCount
  BY DEF Nodes, Edges, NotReached
<1>4. NotReached \in Nat /\ NotReached > 1
  BY <1>2, <1>3
<1>5. \A a \in Edges(g) : a \in Nat
  BY <1>2, <1>3
<1>6. \A a \in Edges(g) :
        /\ g.src[a] \in Nodes(g) /\ g.dst[a] \in Nodes(g)
        /\ g.rev[a] \in Edges(g) /\ g.rev[g.rev[a]] = a /\ g.rev[a] # a
        /\ g.src[g.rev[a]] = g.dst[a] /\ g.dst[g.rev[a]] = g.src[a]
        /\ g.capacity[a] \in Nat
  BY <1>1, CaseFacts
<1>7. ASSUME NEW x \in Nodes(g)
      PROVE  /\ g.ver[x] \in 0 .. g.edgeCount
             /\ \A a \in Out(g, x) : g.ver[x] <= a /\ a \in Edges(g) /\ g.src[a] = x
             /\ Out(g, x) \in SUBSET Nat
             /\ IsFiniteSet(Out(g, x))
  <2>1. /\ g.ver \in [0 .. g.nodeCount -> 0 .. g.edgeCount]
        /\ \A a \in Edges(g) : g.src[a] = x <=> g.ver[x] <= a /\ a < g.ver[x + 1]
    BY <1>1 DEF IsCase, IsIndexed
  <2>2. x \in 0 .. g.nodeCount
    BY <1>2, <1>3
  <2>3. Out(g, x) \in SUBSET Edges(g)
    BY DEF Out
  <2> QED
    BY <1>1, <1>5, <2>1, <2>2, <2>3, NetworkIsFinite DEF Out
<1> QED
  BY <1>1, <1>2, <1>3, <1>4, <1>5, <1>6, <1>7

\* The mate of a slot is the slot paired with it, unless the slot is a loop; the mate of
\* a loop is one.
LEMMA MateFacts ==
  ASSUME TypeOK, NEW a \in Edges(g)
  PROVE  /\ Mate(a) \in Edges(g)
         /\ g.src[a] # g.dst[a] => Mate(a) = g.rev[a]
         /\ g.src[a] = g.dst[a] => g.src[Mate(a)] = g.src[a] /\ g.dst[Mate(a)] = g.dst[a]
<1>1. /\ g.rev[a] \in Edges(g)
      /\ g.src[g.rev[a]] = g.dst[a] /\ g.dst[g.rev[a]] = g.src[a]
  BY GraphFacts
<1>2. Lesser(a, g.rev[a]) \in {a, g.rev[a]}
  BY DEF Lesser
<1>3. CASE g.src[a] # g.dst[a]
  BY <1>1, <1>3 DEF Mate
<1>4. CASE g.src[a] = g.dst[a]
  <2>1. Mate(a) \in {a, g.rev[a]}
    BY <1>2, <1>4 DEF Mate
  <2> QED
    BY <1>1, <1>4, <2>1
<1> QED
  BY <1>3, <1>4

LEMMA NumberFacts ==
  ASSUME TypeOK
  PROVE  /\ edge \in Nat /\ level \in Nat /\ level <= NotReached
         /\ highest_active \in Nat /\ highest_active <= NotReached
         /\ highest_vertex \in Nat /\ highest_vertex <= NotReached
         /\ \A x \in Nodes(g) : /\ label[x] \in Nat /\ label[x] <= NotReached
                               /\ excess[x] \in Nat
         /\ \A a \in Edges(g) : r_capacity[a] \in Nat /\ reverse_r_capacity[a] \in Nat
<1>1. NotReached \in Nat /\ g.edgeCount \in Nat
  BY GraphFacts
<1>2. /\ edge \in 0 .. g.edgeCount /\ level \in 0 .. NotReached
      /\ highest_active \in 0 .. NotReached /\ highest_vertex \in 0 .. NotReached
      /\ \A x \in Nodes(g) : label[x] \in 0 .. NotReached /\ excess[x] \in Nat
      /\ \A a \in Edges(g) : r_capacity[a] \in Nat /\ reverse_r_capacity[a] \in Nat
  BY DEF TypeOK
<1> QED
  BY ONLY <1>1, <1>2

LEMMA GreaterFacts ==
  ASSUME NEW m \in Nat, NEW n \in Nat
  PROVE  /\ Greater(m, n) \in {m, n} /\ Greater(m, n) \in Nat
         /\ m <= Greater(m, n) /\ n <= Greater(m, n)
BY DEF Greater

LEMMA LesserFacts ==
  ASSUME NEW m \in Nat, NEW n \in Nat
  PROVE  /\ Lesser(m, n) \in {m, n} /\ Lesser(m, n) \in Nat
         /\ Lesser(m, n) <= m /\ Lesser(m, n) <= n
BY DEF Lesser

\* The water that has been sent along each slot.
Flow == [a \in Edges(g) |-> IF IsSourceLoop(a) THEN 0 ELSE Pushed(a)]

\* The steps that send no water keep what is known of it.
LEMMA NetworkKept ==
  ASSUME CopiesAgree, ExcessIsInflow, UNCHANGED <<g, network>>
  PROVE  CopiesAgree' /\ ExcessIsInflow'
<1>1. g' = g /\ r_capacity' = r_capacity /\ reverse_r_capacity' = reverse_r_capacity /\ excess' = excess
  BY DEF network
<1> QED
  BY <1>1 DEF CopiesAgree, ExcessIsInflow, IsSourceLoop, Mate, Pushed

-------------------------------------------------------------------------------
(* The start.                                                              *)

\* Nothing has been pushed at first.
LEMMA InitPreflow ==
  ASSUME Init
  PROVE  PreflowInv
<1>1. /\ g \in Cases /\ pc = "init" /\ r_capacity = g.capacity
      /\ reverse_r_capacity = [a \in Edges(g) |-> g.capacity[Mate(a)]]
      /\ excess = [x \in Nodes(g) |-> 0] /\ label = [x \in Nodes(g) |-> 0]
      /\ active_vertices = [l \in 0 .. NotReached |-> {}]
      /\ inactive_vertices = [l \in 0 .. NotReached |-> {}]
      /\ highest_active = 0 /\ highest_vertex = 0 /\ relabel_progress = 0
      /\ distance_q = <<>> /\ front = 0 /\ node = 0 /\ level = 0 /\ edge = 0
  BY DEF Init
<1>2. IsCase(g)
  BY <1>1, CasesAssumption
<1>3. /\ g.nodeCount \in Nat /\ g.edgeCount \in Nat /\ NotReached = g.nodeCount
      /\ Nodes(g) = 0 .. (NotReached - 1) /\ g.source \in Nodes(g)
      /\ g.capacity \in [Edges(g) -> 0 .. IntMax]
  BY <1>2 DEF IsCase, Nodes, NotReached
<1>4. \A a \in Edges(g) : g.capacity[a] \in Nat /\ g.rev[a] \in Edges(g)
  BY <1>2, CaseFacts
<1>5. \A a \in Edges(g) : Mate(a) \in Edges(g)
  BY <1>4 DEF Mate, Lesser
<1>6. r_capacity \in [Edges(g) -> Nat] /\ reverse_r_capacity \in [Edges(g) -> Nat]
  BY <1>1, <1>3, <1>4, <1>5
<1>7. 0 \in Nodes(g) /\ 0 \in 0 .. NotReached /\ 0 \in 0 .. g.edgeCount
  BY <1>3
<1>8. /\ distance_q \in Seq(Nodes(g) \X Nat) /\ Len(distance_q) = 0
  BY <1>1
<1>9. TypeOK
  BY <1>1, <1>3, <1>6, <1>7, <1>8 DEF TypeOK
<1>10. CopiesAgree
  BY <1>1, <1>5 DEF CopiesAgree
<1>11. ExcessIsInflow
  <2>1. \A a \in Edges(g) : Pushed(a) = 0 /\ Pushed(g.rev[a]) = 0
    BY <1>1, <1>4 DEF Pushed
  <2>2. ASSUME NEW x \in Nodes(g) PROVE SumOver([a \in Edges(g) |-> Pushed(a)], Out(g, x)) = 0
    <3>1. IsFiniteSet(Out(g, x)) /\ \A a \in Out(g, x) : a \in Edges(g)
      BY <1>2, NetworkIsFinite DEF Out
    <3>2. \A a \in Out(g, x) : [b \in Edges(g) |-> Pushed(b)][a] = 0
      BY <2>1, <3>1
    <3> QED
      BY <3>1, <3>2, SumOfZeros
  <2>3. \A a \in Edges(g) : r_capacity[a] >= 0
    BY <1>6
  <2> QED
    BY <1>1, <2>1, <2>2, <2>3 DEF ExcessIsInflow
<1>12. SourceIsDrained /\ LabelsAreValid /\ ListsAreTrue /\ SearchInv /\ DischargeInv
  BY <1>1 DEF SourceIsDrained, LabelsAreValid, IsSettled, ListsAreTrue, SearchInv, DischargeInv
<1> QED
  BY <1>9, <1>10, <1>11, <1>12 DEF PreflowInv

\* init() fills the edges of the source.  As no two of them lead to one vertex, what a
\* vertex is assigned is what it gets.
LEMMA SaturateKeepsNetwork ==
  ASSUME TypeOK, CopiesAgree, ExcessIsInflow, SourceIsDrained, Saturate
  PROVE  /\ r_capacity' \in [Edges(g) -> Nat]
         /\ reverse_r_capacity' \in [Edges(g) -> Nat]
         /\ excess' \in [Nodes(g) -> Nat]
         /\ CopiesAgree' /\ ExcessIsInflow' /\ SourceIsDrained'
<1> DEFINE r == r_capacity
           s == reverse_r_capacity
           P == [a \in Edges(g) |-> g.capacity[a] - r_capacity'[a]]
<1>1. /\ pc = "init" /\ pc' = "relabel" /\ g' = g
      /\ r' = [a \in Edges(g) |->
             IF g.src[a] = g.source THEN 0
             ELSE IF g.dst[a] = g.source THEN r[a] + r[Mate(a)]
             ELSE r[a]]
      /\ s' = [a \in Edges(g) |->
             IF g.src[a] = g.source THEN IF Mate(a) = a THEN s[a] - r[a] ELSE s[a] + r[a]
             ELSE IF g.dst[a] = g.source THEN s[a] - r[Mate(a)]
             ELSE s[a]]
      /\ excess' = [x \in Nodes(g) |-> InitialExcess(x)]
  BY DEF Saturate
<1>2. r = g.capacity /\ \A a \in Edges(g) : s[a] = r[Mate(a)]
  BY <1>1 DEF SourceIsDrained
<1>3. ASSUME NEW a \in Edges(g)
      PROVE  /\ g.src[a] \in Nodes(g) /\ g.dst[a] \in Nodes(g)
             /\ g.rev[a] \in Edges(g) /\ g.rev[g.rev[a]] = a
             /\ g.src[g.rev[a]] = g.dst[a] /\ g.dst[g.rev[a]] = g.src[a]
             /\ r[a] \in Nat /\ r[g.rev[a]] \in Nat /\ s[a] = r[Mate(a)]
             /\ g.capacity[a] = r[a]
             /\ Mate(a) \in Edges(g) /\ r[Mate(a)] \in Nat
             /\ g.src[a] # g.dst[a] => Mate(a) = g.rev[a]
             /\ g.src[a] = g.dst[a] => g.src[Mate(a)] = g.src[a] /\ g.dst[Mate(a)] = g.dst[a]
             /\ IsSourceLoop(a) <=> g.src[a] = g.source /\ g.dst[a] = g.source
  <2>1. r \in [Edges(g) -> Nat]
    BY DEF TypeOK
  <2> QED
    BY <1>2, <2>1, GraphFacts, MateFacts DEF IsSourceLoop
<1>4. ASSUME NEW a \in Edges(g)
      PROVE  /\ g.src[a] = g.source => r'[a] = 0
             /\ g.src[a] = g.source /\ g.dst[a] # g.source => s'[a] = r[g.rev[a]] + r[a]
             /\ g.src[a] # g.source /\ g.dst[a] = g.source =>
                  r'[a] = r[a] + r[g.rev[a]] /\ s'[a] = 0
             /\ g.src[a] # g.source /\ g.dst[a] # g.source => r'[a] = r[a] /\ s'[a] = r[Mate(a)]
             /\ IsSourceLoop(a) => s'[a] \in Nat
  <2>1. /\ r'[a] = IF g.src[a] = g.source THEN 0
                   ELSE IF g.dst[a] = g.source THEN r[a] + r[Mate(a)]
                   ELSE r[a]
        /\ s'[a] = IF g.src[a] = g.source
                   THEN IF Mate(a) = a THEN s[a] - r[a] ELSE s[a] + r[a]
                   ELSE IF g.dst[a] = g.source THEN s[a] - r[Mate(a)]
                   ELSE s[a]
    BY <1>1
  <2>2. CASE g.src[a] = g.source /\ g.dst[a] # g.source
    <3>1. Mate(a) # a
      BY <1>3, <2>2
    <3> QED
      BY <1>3, <2>1, <2>2, <3>1
  <2>3. CASE IsSourceLoop(a)
    <3>1. s'[a] = IF Mate(a) = a THEN s[a] - r[a] ELSE s[a] + r[a]
      BY <1>3, <2>1, <2>3
    <3>2. CASE Mate(a) = a
      BY <1>3, <2>1, <2>3, <3>1, <3>2
    <3>3. CASE Mate(a) # a
      BY <1>3, <2>1, <2>3, <3>1, <3>3
    <3> QED
      BY <3>2, <3>3
  <2>4. CASE g.src[a] # g.source
    BY <1>3, <2>1, <2>4
  <2> QED
    BY <1>3, <2>2, <2>3, <2>4
<1>5. \A a \in Edges(g) :
        r'[a] \in Nat /\ s'[a] \in Nat /\ (IsSourceLoop(a) \/ s'[a] = r'[Mate(a)])
  <2> SUFFICES ASSUME NEW a \in Edges(g)
               PROVE  /\ r'[a] \in Nat /\ s'[a] \in Nat
                      /\ IsSourceLoop(a) \/ s'[a] = r'[Mate(a)]
    OBVIOUS
  <2>1. CASE g.src[a] = g.source /\ g.dst[a] # g.source
    BY <1>3, <1>4, <2>1
  <2>2. CASE g.src[a] # g.source /\ g.dst[a] = g.source
    BY <1>3, <1>4, <2>2
  <2>3. CASE g.src[a] # g.source /\ g.dst[a] # g.source
    <3>1. Mate(a) \in Edges(g) /\ g.src[Mate(a)] # g.source /\ g.dst[Mate(a)] # g.source
      BY <1>3, <2>3
    <3> QED
      BY <1>3, <1>4, <2>3, <3>1
  <2>4. CASE IsSourceLoop(a)
    BY <1>3, <1>4, <2>4
  <2> QED
    BY <1>3, <2>1, <2>2, <2>3, <2>4
<1>6. \A a \in Edges(g) :
        /\ P[a] \in Int
        /\ g.src[a] = g.source => P[a] = r[a]
        /\ g.src[a] # g.source /\ g.dst[a] = g.source => P[a] = -r[g.rev[a]]
        /\ g.src[a] # g.source /\ g.dst[a] # g.source => P[a] = 0
  BY <1>3, <1>4
<1>7. \A a \in Edges(g) : IsSourceLoop(a) \/ P[g.rev[a]] = -P[a]
  <2> SUFFICES ASSUME NEW a \in Edges(g), ~IsSourceLoop(a) PROVE P[g.rev[a]] = -P[a]
    OBVIOUS
  <2> HIDE DEF P
  <2>1. CASE g.src[a] = g.source
    BY <1>3, <1>6, <2>1
  <2>2. CASE g.dst[a] = g.source
    BY <1>3, <1>6, <2>2
  <2>3. CASE g.src[a] # g.source /\ g.dst[a] # g.source
    BY <1>3, <1>6, <2>3
  <2> QED
    BY <2>1, <2>2, <2>3
<1>8. ASSUME NEW x \in Nodes(g)
      PROVE  /\ excess'[x] \in Nat
             /\ x # g.source => excess'[x] = -SumOver(P, Out(g, x))
  <2> DEFINE into == {a \in Out(g, g.source) : g.dst[a] = x}
  <2>1. excess'[x] = IF into = {} THEN excess[x] ELSE r[Max(into)]
    BY <1>1 DEF InitialExcess
  <2>2. \A a \in into : a \in Edges(g) /\ g.src[a] = g.source /\ g.dst[a] = x
    BY DEF Out
  <2>3. Out(g, x) = {a \in Edges(g) : g.src[a] = x}
    BY DEF Out
  <2>4. IsFiniteSet(Out(g, x))
    BY GraphFacts
  <2>5. CASE into = {}
    <3>1. excess'[x] = excess[x] /\ excess[x] \in Nat
      BY <2>1, <2>5 DEF TypeOK
    <3>2. \A a \in Out(g, x) : x # g.source => P[a] = 0
      <4> SUFFICES ASSUME NEW a \in Out(g, x), x # g.source PROVE P[a] = 0
        OBVIOUS
      <4>1. a \in Edges(g) /\ g.src[a] = x
        BY <2>3
      <4>2. g.rev[a] \in Edges(g) /\ g.src[g.rev[a]] = g.dst[a] /\ g.dst[g.rev[a]] = x
        BY <1>3, <4>1
      <4>3. g.dst[a] # g.source
        BY <2>5, <4>2 DEF Out
      <4> HIDE DEF P
      <4> QED
        BY <1>6, <4>1, <4>3
    <3>3. x # g.source => excess[x] = 0
      <4> SUFFICES ASSUME x # g.source PROVE excess[x] = 0
        OBVIOUS
      <4>1. excess[x] = -SumOver([a \in Edges(g) |-> Pushed(a)], Out(g, x))
        BY DEF ExcessIsInflow
      <4>2. \A a \in Out(g, x) : [b \in Edges(g) |-> Pushed(b)][a] = 0
        BY <1>3, <2>3 DEF Pushed
      <4>3. SumOver([a \in Edges(g) |-> Pushed(a)], Out(g, x)) = 0
        BY <2>4, <4>2, SumOfZeros
      <4>4. \A i \in Int : i <= 0 /\ i >= 0 => -i = 0
        OBVIOUS
      <4>5. /\ SumOver([a \in Edges(g) |-> Pushed(a)], Out(g, x)) \in Int
            /\ SumOver([a \in Edges(g) |-> Pushed(a)], Out(g, x)) <= 0
            /\ SumOver([a \in Edges(g) |-> Pushed(a)], Out(g, x)) >= 0
        BY <4>3
      <4> QED
        BY ONLY <4>1, <4>4, <4>5, Zenon
    <3>4. x # g.source => SumOver(P, Out(g, x)) = 0
      <4> HIDE DEF P
      <4> QED
        BY <2>4, <3>2, SumOfZeros
    <3> QED
      BY <3>1, <3>3, <3>4
  <2>6. CASE into # {}
    <3>1. Max(into) \in into
      <4>1. into \in SUBSET (0 .. g.edgeCount) /\ g.edgeCount \in Nat
        BY <2>2, GraphFacts
      <4> HIDE DEF into
      <4> QED
        BY <2>6, <4>1, LargestMember
    <3>2. PICK m : m = Max(into)
      OBVIOUS
    <3>3. m \in Edges(g) /\ g.src[m] = g.source /\ g.dst[m] = x /\ excess'[x] = r[m]
      BY <2>1, <2>2, <2>6, <3>1, <3>2
    <3>4. CASE x = g.source
      BY <1>3, <3>3, <3>4
    <3> SUFFICES ASSUME x # g.source
                 PROVE  excess'[x] \in Nat /\ excess'[x] = -SumOver(P, Out(g, x))
      BY <3>4
    <3>5. x # g.source
      OBVIOUS
    <3>6. g.rev[m] \in Out(g, x)
      BY <1>3, <2>3, <3>3
    <3>7. ASSUME NEW a \in Out(g, x) \ {g.rev[m]} PROVE P[a] = 0
      <4>1. a \in Edges(g) /\ g.src[a] = x /\ a # g.rev[m]
        BY <2>3
      <4>2. /\ g.rev[a] \in Edges(g) /\ g.src[g.rev[a]] = g.dst[a] /\ g.dst[g.rev[a]] = x
            /\ g.rev[g.rev[a]] = a
        BY <1>3, <4>1
      <4>3. g.rev[a] # m
        BY <4>1, <4>2
      <4>4. g.dst[a] # g.source
        <5>1. SUFFICES ASSUME g.dst[a] = g.source PROVE FALSE
          OBVIOUS
        <5>2. g.src[g.rev[a]] = g.src[m] /\ g.dst[g.rev[a]] = g.dst[m]
          BY <3>3, <4>2, <5>1
        <5>3. m \in {g.rev[a], a}
          BY <3>3, <4>2, <5>2, GraphFacts DEF IsMerged
        <5> QED
          BY <3>3, <3>5, <4>1, <4>3, <5>3
      <4> HIDE DEF P
      <4> QED
        BY <1>6, <3>5, <4>1, <4>4
    <3>8. P[g.rev[m]] = -r[m]
      <4> HIDE DEF P
      <4> QED
        BY <1>3, <1>6, <3>3
    <3>9. r[m] \in Nat
      BY <1>3, <3>3
    <3>10. SumOver(P, Out(g, x)) = -r[m]
      <4> HIDE DEF P
      <4>1. P[g.rev[m]] \in Int
        BY <3>8, <3>9
      <4> QED
        BY <2>4, <3>6, <3>7, <3>8, <4>1, SumOfOne
    <3> QED
      BY <3>3, <3>9, <3>10
  <2> QED
    BY <2>5, <2>6
<1>9. r' \in [Edges(g) -> Nat] /\ s' \in [Edges(g) -> Nat]
  BY <1>1, <1>5
<1>10. excess' \in [Nodes(g) -> Nat]
  BY <1>1, <1>8
<1>11. CopiesAgree'
  <2>1. g' = g
    BY <1>1
  <2> HIDE DEF P
  <2> QED
    BY <1>5, <2>1 DEF CopiesAgree, IsSourceLoop, Mate
<1>12. ExcessIsInflow'
  <2>1. P = [a \in Edges(g) |-> Pushed(a)]'
    BY <1>1 DEF Pushed
  <2>2. \A a \in Edges(g) : (IsSourceLoop(a) \/ Pushed(g.rev[a])' = -Pushed(a)') /\ r'[a] >= 0
    <3>1. ASSUME NEW a \in Edges(g)
          PROVE  (IsSourceLoop(a) \/ Pushed(g.rev[a])' = -Pushed(a)') /\ r'[a] >= 0
      <4>1. /\ g.rev[a] \in Edges(g) /\ r'[a] \in Nat
            /\ IsSourceLoop(a) \/ P[g.rev[a]] = -P[a]
        BY <1>3, <1>5, <1>7
      <4>2. Pushed(a)' = P[a] /\ Pushed(g.rev[a])' = P[g.rev[a]]
        BY <1>1, <4>1 DEF Pushed
      <4> HIDE DEF P
      <4> QED
        BY <4>1, <4>2
    <3> QED
      BY <3>1
  <2>3. \A x \in Nodes(g) \ {g.source} : excess'[x] >= 0 /\ excess'[x] = -SumOver(P, Out(g, x))
    BY <1>8
  <2> HIDE DEF P
  <2> QED
    BY <1>1, <2>1, <2>2, <2>3 DEF ExcessIsInflow, IsSourceLoop
<1>13. SourceIsDrained'
  BY <1>1, <1>4 DEF SourceIsDrained, Out
<1> QED
  BY <1>9, <1>10, <1>11, <1>12, <1>13

LEMMA SaturateStep ==
  ASSUME PreflowInv, Saturate
  PROVE  PreflowInv'
<1>1. /\ TypeOK /\ CopiesAgree /\ ExcessIsInflow /\ SourceIsDrained /\ ListsAreTrue
  BY DEF PreflowInv
<1>2. /\ r_capacity' \in [Edges(g) -> Nat]
      /\ reverse_r_capacity' \in [Edges(g) -> Nat]
      /\ excess' \in [Nodes(g) -> Nat]
      /\ CopiesAgree' /\ ExcessIsInflow' /\ SourceIsDrained'
  BY <1>1, SaturateKeepsNetwork
<1>3. /\ pc = "init" /\ pc' = "relabel" /\ highest_vertex' = 1
      /\ UNCHANGED <<g, label, active_vertices, inactive_vertices, highest_active,
                     relabel_progress, distance_q, front, node, level, edge>>
  BY DEF Saturate, queue, place
<1>4. NotReached \in Nat /\ NotReached > 1 /\ NotReached' = NotReached
  BY <1>1, <1>3, GraphFacts DEF NotReached
<1>5. TypeOK'
  BY <1>1, <1>2, <1>3, <1>4 DEF TypeOK
<1>6. ListsAreTrue'
  <2>1. \A l \in 0 .. NotReached : active_vertices[l] \cup inactive_vertices[l] = {}
    BY <1>1, <1>3 DEF ListsAreTrue
  <2> QED
    BY <1>3, <1>4, <2>1 DEF ListsAreTrue, IsSettled
<1>7. LabelsAreValid' /\ SearchInv' /\ DischargeInv'
  BY <1>3 DEF LabelsAreValid, IsSettled, SearchInv, DischargeInv
<1> QED
  BY <1>2, <1>5, <1>6, <1>7 DEF PreflowInv

-------------------------------------------------------------------------------
(* The distance search.                                                    *)

LEMMA StartGlobalRelabelStep ==
  ASSUME PreflowInv, StartGlobalRelabel
  PROVE  PreflowInv'
<1>1. /\ TypeOK /\ CopiesAgree /\ ExcessIsInflow /\ SourceIsDrained /\ ListsAreTrue
  BY DEF PreflowInv
<1>2. /\ pc = "relabel" /\ pc' = "distances" /\ g' = g
      /\ label' = [x \in Nodes(g) |-> IF x = g.sink THEN 0 ELSE NotReached]
      /\ distance_q' = << <<g.sink, 0>> >> /\ front' = 0
      /\ active_vertices' = [l \in 0 .. NotReached |->
                               IF l <= highest_vertex THEN {} ELSE active_vertices[l]]
      /\ inactive_vertices' = [l \in 0 .. NotReached |->
                                 IF l <= highest_vertex THEN {} ELSE inactive_vertices[l]]
      /\ highest_active' = 0 /\ highest_vertex' = 0
      /\ UNCHANGED <<r_capacity, reverse_r_capacity, excess, relabel_progress, node, level, edge>>
  BY DEF StartGlobalRelabel, network, place
<1>3. /\ NotReached \in Nat /\ NotReached > 1 /\ NotReached' = NotReached
      /\ g.source \in Nodes(g) /\ g.sink \in Nodes(g) /\ g.source # g.sink
      /\ NotReached = g.nodeCount
  BY <1>1, <1>2, GraphFacts DEF NotReached
<1>4. CopiesAgree' /\ ExcessIsInflow'
  BY <1>1, <1>2, NetworkKept DEF network
<1>5. /\ distance_q' \in Seq(Nodes(g) \X Nat) /\ Len(distance_q') = 1
      /\ distance_q'[1] = <<g.sink, 0>>
  BY <1>2, <1>3
<1>6. \A l \in 0 .. NotReached : active_vertices'[l] = {} /\ inactive_vertices'[l] = {}
  BY <1>1, <1>2 DEF ListsAreTrue
<1>7. TypeOK'
  <2>1. label' \in [Nodes(g) -> 0 .. NotReached]
    BY <1>2, <1>3
  <2>2. /\ active_vertices' \in [0 .. NotReached -> SUBSET Nodes(g)]
        /\ inactive_vertices' \in [0 .. NotReached -> SUBSET Nodes(g)]
    BY <1>2, <1>6
  <2>3. front' \in 0 .. Len(distance_q') /\ Len(distance_q') <= g.nodeCount
    BY <1>2, <1>3, <1>5
  <2>4. highest_active' \in 0 .. NotReached /\ highest_vertex' \in 0 .. NotReached
    BY <1>2, <1>3
  <2> QED
    BY <1>1, <1>2, <1>3, <1>5, <2>1, <2>2, <2>3, <2>4 DEF TypeOK
<1>8. \A x \in Nodes(g) : /\ x = g.sink => label'[x] = 0
                          /\ x # g.sink => label'[x] = NotReached
  BY <1>2
<1>9. SourceIsDrained' /\ DischargeInv'
  BY <1>1, <1>2 DEF SourceIsDrained, DischargeInv
<1>10. LabelsAreValid'
  BY <1>2, <1>3, <1>8 DEF LabelsAreValid, IsSettled
<1>11. ListsAreTrue'
  <2>1. \A l : At(l)' = {}
    BY <1>2, <1>3, <1>8 DEF At
  <2> QED
    BY <1>2, <1>3, <1>6, <2>1 DEF ListsAreTrue, IsSettled
<1>12. SearchInv'
  <2>1. Queued(1)' = g.sink
    BY <1>5 DEF Queued
  <2>2. 1 .. Len(distance_q') = {1} /\ 1 .. front' = {}
    BY <1>2, <1>5
  <2>3. {x \in Nodes(g) : label'[x] # NotReached} = {g.sink}
    BY <1>3, <1>8
  <2>4. label'[g.sink] = 0 /\ 0 \in Nat
    BY <1>3, <1>8
  <2>5. {Queued(i)' : i \in {1}} = {g.sink}
    BY <2>1
  <2>6. distance_q'[1][2] = label'[Queued(1)']
    BY <1>5, <2>1, <2>4
  <2>7. \A l \in 0 .. (NotReached - 1) : l <= 0 => l = 0
    BY <1>3
  <2>8. \A i, j \in {1} : /\ ~(i < j) /\ i = j /\ label'[Queued(i)'] = 0
                           /\ label'[Queued(j)'] <= label'[Queued(i)'] + 1
    BY <2>1, <2>4
  <2>9. \A l \in 0 .. (NotReached - 1) :
          (\E x \in {g.sink} : l <= label'[x]) => \E x \in {g.sink} : label'[x] = l
    BY <2>4, <2>7
  <2>10. pc' = "distances" /\ g' = g /\ NotReached' = NotReached
    BY <1>2, <1>3
  <2>11. \A i \in {1} : distance_q'[i][2] = label'[Queued(i)']
    BY <2>6
  <2> QED
    BY <2>2, <2>3, <2>5, <2>8, <2>9, <2>10, <2>11 DEF SearchInv
<1> QED
  BY <1>4, <1>7, <1>9, <1>10, <1>11, <1>12 DEF PreflowInv

LEMMA PopVertexStep ==
  ASSUME PreflowInv, PopVertex
  PROVE  PreflowInv'
<1>1. /\ TypeOK /\ CopiesAgree /\ ExcessIsInflow /\ SourceIsDrained /\ LabelsAreValid
      /\ ListsAreTrue /\ SearchInv
  BY DEF PreflowInv
<1>2. /\ pc = "distances" /\ pc' = "visit" /\ front < Len(distance_q) /\ front' = front + 1
      /\ node' = distance_q[front + 1][1] /\ level' = distance_q[front + 1][2]
      /\ highest_vertex' = Greater(highest_vertex, level')
      /\ edge' = g.ver[node']
      /\ UNCHANGED <<g, r_capacity, reverse_r_capacity, excess, label, active_vertices,
                     inactive_vertices, highest_active, relabel_progress, distance_q>>
  BY DEF PopVertex, network
<1>3. /\ NotReached \in Nat /\ NotReached' = NotReached
  BY <1>1, <1>2, GraphFacts DEF NotReached
<1>4. CopiesAgree' /\ ExcessIsInflow'
  BY <1>1, <1>2, NetworkKept DEF network
<1>5. /\ Len(distance_q) \in Nat /\ front \in Nat
      /\ distance_q \in Seq(Nodes(g) \X Nat)
      /\ front + 1 \in 1 .. Len(distance_q)
  <2>1. distance_q \in Seq(Nodes(g) \X Nat) /\ front \in 0 .. Len(distance_q)
    BY <1>1 DEF TypeOK
  <2> HIDE DEF PopVertex
  <2>2. Len(distance_q) \in Nat
    BY <2>1
  <2> QED
    BY <1>2, <2>1, <2>2
<1>6. /\ node' \in Nodes(g) /\ node' = Queued(front + 1) /\ level' = label[node']
      /\ level' \in 0 .. NotReached
  <2>1. distance_q[front + 1] \in Nodes(g) \X Nat
    BY <1>5
  <2>2. distance_q[front + 1][2] = label[Queued(front + 1)]
    BY <1>1, <1>2, <1>5 DEF SearchInv
  <2>3. label \in [Nodes(g) -> 0 .. NotReached]
    BY <1>1 DEF TypeOK
  <2>4. node' = Queued(front + 1) /\ node' \in Nodes(g)
    BY <1>2, <2>1 DEF Queued
  <2> QED
    BY <1>2, <2>2, <2>3, <2>4
<1>7. /\ highest_vertex' \in 0 .. NotReached
      /\ highest_vertex <= highest_vertex' /\ level' <= highest_vertex'
      /\ highest_vertex \in Nat
  <2>1. highest_vertex \in 0 .. NotReached
    BY <1>1 DEF TypeOK
  <2>2. highest_vertex \in Nat /\ level' \in Nat
    BY <1>3, <1>6, <2>1
  <2>3. /\ highest_vertex' \in {highest_vertex, level'}
        /\ highest_vertex <= highest_vertex' /\ level' <= highest_vertex'
    BY <1>2, <2>2, GreaterFacts
  <2> QED
    BY ONLY <1>6, <2>1, <2>2, <2>3
<1>8. TypeOK'
  <2>1. g.ver[node'] \in 0 .. g.edgeCount
    BY <1>1, <1>6, GraphFacts
  <2>2. front' \in 0 .. Len(distance_q)
    BY <1>2, <1>5
  <2> QED
    BY <1>1, <1>2, <1>3, <1>6, <1>7, <2>1, <2>2 DEF TypeOK
<1>9. SourceIsDrained' /\ DischargeInv' /\ LabelsAreValid'
  BY <1>1, <1>2, <1>3 DEF SourceIsDrained, DischargeInv, LabelsAreValid, IsSettled
<1>10. ListsAreTrue'
  <2>1. \A l : At(l)' = At(l)
    BY <1>2, <1>3 DEF At, Held
  <2> QED
    BY <1>1, <1>2, <1>3, <2>1 DEF ListsAreTrue, IsSettled
<1>11. SearchInv'
  <2> DEFINE labelled == {x \in Nodes(g) : label[x] # NotReached}
             I == 1 .. Len(distance_q)
  <2>1. \A i : Queued(i)' = Queued(i)
    BY <1>2 DEF Queued
  <2>2. /\ {Queued(i) : i \in I} = labelled
        /\ \A i \in I : distance_q[i][2] = label[Queued(i)]
        /\ \A i, j \in I : /\ i < j => label[Queued(i)] <= label[Queued(j)]
                           /\ Queued(i) = Queued(j) => i = j
                           /\ front \in {0, i} => label[Queued(j)] <= label[Queued(i)] + 1
        /\ \A l \in 0 .. (NotReached - 1) :
             (\E x \in labelled : l <= label[x]) => \E x \in labelled : label[x] = l
        /\ \A i \in 1 .. front : label[Queued(i)] <= highest_vertex
        /\ \A i \in 1 .. front : \A a \in Out(g, Queued(i)) :
             reverse_r_capacity[a] > 0 => label[g.dst[a]] <= label[Queued(i)] + 1
    BY <1>1, <1>2 DEF SearchInv
  <2>3. \A i \in I : Queued(i) \in Nodes(g) /\ label[Queued(i)] \in 0 .. NotReached
    BY <1>1, <2>2 DEF TypeOK
  <2>4. \A i, j \in I : front' \in {0, i} => label[Queued(j)] <= label[Queued(i)] + 1
    <3> SUFFICES ASSUME NEW i \in I, NEW j \in I, front' \in {0, i}
                 PROVE  label[Queued(j)] <= label[Queued(i)] + 1
      OBVIOUS
    <3>1. i = front + 1
      BY <1>2, <1>5
    <3>2. CASE front = 0
      BY <2>2, <3>2
    <3>3. CASE front # 0
      <4>1. front \in I /\ front < i
        BY <1>5, <3>1, <3>3
      <4>2. label[Queued(j)] <= label[Queued(front)] + 1 /\ label[Queued(front)] <= label[Queued(i)]
        BY <2>2, <4>1
      <4>3. label[Queued(j)] \in Nat /\ label[Queued(front)] \in Nat /\ label[Queued(i)] \in Nat
        BY <1>3, <2>3, <4>1
      <4> QED
        BY ONLY <4>2, <4>3
    <3> QED
      BY <3>2, <3>3
  <2>5. \A i \in 1 .. front' : label[Queued(i)] <= highest_vertex'
    <3> SUFFICES ASSUME NEW i \in 1 .. front'
                 PROVE  label[Queued(i)] <= highest_vertex'
      OBVIOUS
    <3>1. CASE i = front + 1
      BY <1>6, <1>7, <3>1
    <3>2. CASE i # front + 1
      <4>1. i \in 1 .. front /\ i \in I
        BY <1>2, <1>5, <3>2
      <4>2. label[Queued(i)] <= highest_vertex /\ label[Queued(i)] \in Nat
        BY <1>3, <2>2, <2>3, <4>1
      <4>3. highest_vertex' \in Nat
        BY <1>3, <1>7
      <4> QED
        BY ONLY <1>7, <4>2, <4>3
    <3> QED
      BY <3>1, <3>2
  <2>6. \A i \in 1 .. front' : \A a \in Out(g, Queued(i)) :
          reverse_r_capacity[a] > 0 /\ (i = front' => a < edge') =>
            label[g.dst[a]] <= label[Queued(i)] + 1
    <3> SUFFICES ASSUME NEW i \in 1 .. front', NEW a \in Out(g, Queued(i)),
                        reverse_r_capacity[a] > 0, i = front' => a < edge'
                 PROVE  label[g.dst[a]] <= label[Queued(i)] + 1
      OBVIOUS
    <3>1. CASE i = front + 1
      <4>1. a < g.ver[node'] /\ a \in Out(g, node')
        BY <1>2, <1>6, <3>1
      <4>2. g.ver[node'] <= a /\ a \in Nat /\ g.ver[node'] \in Nat
        BY <1>1, <1>6, <4>1, GraphFacts
      <4> QED
        BY ONLY <4>1, <4>2
    <3>2. CASE i # front + 1
      <4>1. i \in 1 .. front
        BY <1>2, <1>5, <3>2
      <4> QED
        BY <2>2, <4>1
    <3> QED
      BY <3>1, <3>2
  <2>7. front' > 0 /\ node' = Queued(front') /\ level' = label[node']
    BY <1>2, <1>5, <1>6
  <2> QED
    BY <1>2, <1>3, <2>1, <2>2, <2>4, <2>5, <2>6, <2>7 DEF SearchInv
<1> QED
  BY <1>4, <1>8, <1>9, <1>10, <1>11 DEF PreflowInv

\* What SearchInv says while the slots of a vertex are looked at.
LEMMA VisitFacts ==
  ASSUME TypeOK, SearchInv, pc = "visit"
  PROVE  /\ front \in 1 .. Len(distance_q) /\ Len(distance_q) \in Nat /\ front \in Nat
         /\ node \in Nodes(g) /\ node = Queued(front) /\ level = label[node]
         /\ level \in Nat /\ level < NotReached
         /\ {Queued(i) : i \in 1 .. Len(distance_q)} = {x \in Nodes(g) : label[x] # NotReached}
         /\ \A i \in 1 .. Len(distance_q) :
              /\ Queued(i) \in Nodes(g) /\ label[Queued(i)] \in Nat
              /\ label[Queued(i)] # NotReached /\ label[Queued(i)] < NotReached
              /\ distance_q[i][2] = label[Queued(i)]
              /\ label[Queued(i)] <= level + 1
         /\ \A i, j \in 1 .. Len(distance_q) :
              /\ i < j => label[Queued(i)] <= label[Queued(j)]
              /\ Queued(i) = Queued(j) => i = j
         /\ \A l \in 0 .. (NotReached - 1) :
              (\E y \in Nodes(g) : label[y] # NotReached /\ l <= label[y])
                => \E y \in Nodes(g) : label[y] # NotReached /\ label[y] = l
         /\ \A i \in 1 .. front : label[Queued(i)] <= highest_vertex
         /\ \A i \in 1 .. front : \A b \in Out(g, Queued(i)) :
              reverse_r_capacity[b] > 0 /\ (i = front => b < edge) =>
                label[g.dst[b]] <= label[Queued(i)] + 1
<1> DEFINE labelled == {x \in Nodes(g) : label[x] # NotReached}
           I == 1 .. Len(distance_q)
<1>1. /\ {Queued(i) : i \in I} = labelled
      /\ \A i \in I : distance_q[i][2] = label[Queued(i)]
      /\ \A i, j \in I : /\ i < j => label[Queued(i)] <= label[Queued(j)]
                         /\ Queued(i) = Queued(j) => i = j
                         /\ front \in {0, i} => label[Queued(j)] <= label[Queued(i)] + 1
      /\ \A l \in 0 .. (NotReached - 1) :
           (\E x \in labelled : l <= label[x]) => \E x \in labelled : label[x] = l
      /\ \A i \in 1 .. front : label[Queued(i)] <= highest_vertex
      /\ front > 0 /\ node = Queued(front) /\ level = label[node]
      /\ \A i \in 1 .. front : \A b \in Out(g, Queued(i)) :
           reverse_r_capacity[b] > 0 /\ (i = front => b < edge) =>
             label[g.dst[b]] <= label[Queued(i)] + 1
  BY DEF SearchInv
<1>2. distance_q \in Seq(Nodes(g) \X Nat) /\ front \in 0 .. Len(distance_q) /\ node \in Nodes(g)
  BY DEF TypeOK
<1>3. Len(distance_q) \in Nat /\ front \in Nat /\ front \in I
  BY <1>1, <1>2
<1>4. NotReached \in Nat
  BY GraphFacts
<1>5. \A i \in I : /\ Queued(i) \in Nodes(g) /\ label[Queued(i)] \in 0 .. NotReached
                   /\ label[Queued(i)] # NotReached
  <2>1. label \in [Nodes(g) -> 0 .. NotReached]
    BY DEF TypeOK
  <2>2. \A i \in I : Queued(i) \in labelled
    BY <1>1
  <2> HIDE DEF I
  <2> QED
    BY <2>1, <2>2
<1>6. \A i \in I : /\ Queued(i) \in Nodes(g) /\ label[Queued(i)] \in Nat
                   /\ label[Queued(i)] # NotReached /\ label[Queued(i)] < NotReached
  <2> HIDE DEF I
  <2> QED
    BY <1>4, <1>5
<1>7. level \in Nat /\ level < NotReached
  BY <1>1, <1>3, <1>6
<1>8. \A i \in I : label[Queued(i)] <= level + 1
  BY <1>1, <1>3
<1> QED
  BY <1>1, <1>2, <1>3, <1>6, <1>7, <1>8

\* The search labels no vertex so high that the label means out of reach, and never
\* comes to the source.
LEMMA ReachFacts ==
  ASSUME TypeOK, CopiesAgree, SourceIsDrained, LabelsAreValid, SearchInv, Reach,
         NEW a, a = Min(Unreached), NEW x, x = g.dst[a]
  PROVE  /\ a \in Out(g, node) /\ a \in Edges(g) /\ a \in Nat /\ edge <= a
         /\ reverse_r_capacity[a] > 0
         /\ \A b \in Out(g, node) : edge <= b /\ b < a /\ reverse_r_capacity[b] > 0
                                     => label[g.dst[b]] # NotReached
         /\ x \in Nodes(g) /\ label[x] = NotReached /\ x # g.source /\ x # g.sink
         /\ level + 1 \in 1 .. (NotReached - 1)
<1>1. pc = "visit" /\ Unreached # {}
  BY DEF Reach
<1>2. node \in Nodes(g)
  BY <1>1, VisitFacts
<1>3. Unreached \in SUBSET Nat /\ Unreached \in SUBSET Out(g, node)
  BY <1>2, GraphFacts DEF Unreached
<1>4. a \in Unreached /\ \A b \in Unreached : a <= b
  BY <1>1, <1>3, LeastMember
<1>5. /\ a \in Out(g, node) /\ a \in Edges(g) /\ a \in Nat /\ edge <= a
      /\ reverse_r_capacity[a] > 0 /\ label[x] = NotReached
  BY <1>2, <1>4, GraphFacts DEF Unreached
<1>6. ASSUME NEW b \in Out(g, node), edge <= b, b < a, reverse_r_capacity[b] > 0
      PROVE  label[g.dst[b]] # NotReached
  <2>1. b \in Nat
    BY <1>2, GraphFacts
  <2>2. ~(a <= b)
    BY <1>5, <1>6, <2>1
  <2> QED
    BY <1>4, <1>6, <2>2 DEF Unreached
<1>7. label[node] # NotReached
  BY <1>1, VisitFacts, GraphFacts
<1>8. g.src[a] = node /\ g.src[a] # g.dst[a]
  BY <1>2, <1>5, <1>7, GraphFacts
<1>9. /\ x \in Nodes(g) /\ g.rev[a] \in Edges(g) /\ g.src[g.rev[a]] = x
      /\ r_capacity[g.rev[a]] > 0
  <2>1. /\ g.dst[a] \in Nodes(g) /\ g.rev[a] \in Edges(g) /\ g.src[g.rev[a]] = g.dst[a]
        /\ Mate(a) = g.rev[a]
    BY <1>5, <1>8, GraphFacts, MateFacts
  <2>2. reverse_r_capacity[a] = r_capacity[Mate(a)]
    BY <1>5, <1>8 DEF CopiesAgree, IsSourceLoop
  <2> QED
    BY <1>5, <2>1, <2>2
<1>10. x # g.source
  BY <1>1, <1>9 DEF SourceIsDrained, Out
<1>11. NotReached \in Nat /\ NotReached > 1 /\ Nodes(g) = 0 .. (NotReached - 1)
  BY GraphFacts
<1>12. x # g.sink
  BY <1>1, <1>5, <1>9, <1>11 DEF LabelsAreValid
<1>13. /\ level = label[node] /\ level \in Nat /\ level < NotReached
       /\ \A l \in 0 .. (NotReached - 1) :
            (\E y \in Nodes(g) : label[y] # NotReached /\ l <= label[y])
              => \E y \in Nodes(g) : label[y] # NotReached /\ label[y] = l
  BY <1>1, VisitFacts
<1>14. level + 1 < NotReached
  <2> DEFINE d == [label EXCEPT ![x] = level + 1]
  <2>1. label \in [Nodes(g) -> 0 .. NotReached]
    BY DEF TypeOK
  <2>2. d[x] = level + 1 /\ \A y \in Nodes(g) : y # x => d[y] = label[y]
    BY <1>9, <2>1
  <2>3. ASSUME NEW k \in 0 .. (level + 1) PROVE \E y \in 0 .. (NotReached - 1) : d[y] = k
    <3>1. CASE k = level + 1
      BY <1>9, <1>11, <2>2, <3>1
    <3>2. CASE k # level + 1
      <4>1. k \in 0 .. (NotReached - 1) /\ k <= level
        BY <1>11, <1>13, <3>2
      <4>2. label[node] # NotReached /\ k <= label[node]
        BY <1>11, <1>13, <4>1
      <4>3. PICK y \in Nodes(g) : label[y] # NotReached /\ label[y] = k
        BY <1>2, <1>13, <4>1, <4>2
      <4>4. y # x
        BY <1>5, <4>3
      <4> HIDE DEF d
      <4> QED
        BY <1>11, <2>2, <4>3, <4>4
    <3> QED
      BY <3>1, <3>2
  <2>4. level + 1 \in Nat
    BY <1>13
  <2> HIDE DEF d
  <2> QED
    BY <1>11, <2>3, <2>4, LevelsAreNodes
<1>15. level + 1 \in 1 .. (NotReached - 1)
  BY <1>11, <1>13, <1>14
<1> QED
  BY <1>5, <1>6, <1>9, <1>10, <1>12, <1>15

LEMMA ReachStep ==
  ASSUME PreflowInv, Reach
  PROVE  PreflowInv'
<1> DEFINE I == 1 .. Len(distance_q)
<1>1. /\ TypeOK /\ CopiesAgree /\ ExcessIsInflow /\ SourceIsDrained /\ LabelsAreValid
      /\ ListsAreTrue /\ SearchInv
  BY DEF PreflowInv
<1>2. PICK a : a = Min(Unreached)
  OBVIOUS
<1>3. PICK x : x = g.dst[a]
  OBVIOUS
<1>4. PICK d : d = level + 1
  OBVIOUS
<1>5. /\ pc = "visit" /\ pc' = "visit" /\ edge' = a + 1
      /\ label' = [label EXCEPT ![x] = d]
      /\ distance_q' = Append(distance_q, <<x, d>>)
      /\ excess[x] > 0 =>
           /\ highest_active' = Greater(highest_active, d)
           /\ active_vertices' = [active_vertices EXCEPT ![d] = @ \cup {x}]
           /\ inactive_vertices' = inactive_vertices
      /\ ~(excess[x] > 0) =>
           /\ inactive_vertices' = [inactive_vertices EXCEPT ![d] = @ \cup {x}]
           /\ active_vertices' = active_vertices /\ highest_active' = highest_active
      /\ UNCHANGED <<g, r_capacity, reverse_r_capacity, excess, highest_vertex,
                     relabel_progress, front, node, level>>
  BY <1>2, <1>3, <1>4 DEF Reach, network
<1>6. /\ a \in Out(g, node) /\ a \in Edges(g) /\ a \in Nat /\ edge <= a
      /\ reverse_r_capacity[a] > 0
      /\ \A b \in Out(g, node) : edge <= b /\ b < a /\ reverse_r_capacity[b] > 0
                                  => label[g.dst[b]] # NotReached
      /\ x \in Nodes(g) /\ label[x] = NotReached /\ x # g.source /\ x # g.sink
      /\ d \in 1 .. (NotReached - 1) /\ d = level + 1
  BY <1>1, <1>2, <1>3, <1>4, ReachFacts
<1>7. /\ front \in I /\ Len(distance_q) \in Nat /\ front \in Nat
      /\ node \in Nodes(g) /\ node = Queued(front) /\ level = label[node]
      /\ level \in Nat /\ level < NotReached
      /\ {Queued(i) : i \in I} = {y \in Nodes(g) : label[y] # NotReached}
      /\ \A i \in I : /\ Queued(i) \in Nodes(g) /\ label[Queued(i)] \in Nat
                      /\ label[Queued(i)] # NotReached /\ label[Queued(i)] < NotReached
                      /\ distance_q[i][2] = label[Queued(i)]
                      /\ label[Queued(i)] <= level + 1
      /\ \A i, j \in I : /\ i < j => label[Queued(i)] <= label[Queued(j)]
                         /\ Queued(i) = Queued(j) => i = j
      /\ \A l \in 0 .. (NotReached - 1) :
           (\E y \in Nodes(g) : label[y] # NotReached /\ l <= label[y])
             => \E y \in Nodes(g) : label[y] # NotReached /\ label[y] = l
      /\ \A i \in 1 .. front : label[Queued(i)] <= highest_vertex
      /\ \A i \in 1 .. front : \A b \in Out(g, Queued(i)) :
           reverse_r_capacity[b] > 0 /\ (i = front => b < edge) =>
             label[g.dst[b]] <= label[Queued(i)] + 1
  BY <1>1, <1>5, VisitFacts
<1>8. /\ NotReached \in Nat /\ NotReached > 1 /\ NotReached' = NotReached
      /\ Nodes(g) = 0 .. (NotReached - 1) /\ NotReached = g.nodeCount
      /\ g.source \in Nodes(g) /\ g.sink \in Nodes(g)
  BY <1>1, <1>5, GraphFacts DEF NotReached
<1>9. d \in Nat /\ d < NotReached /\ d \in 0 .. NotReached /\ d > 0
  BY <1>6, <1>8
<1>10. CopiesAgree' /\ ExcessIsInflow'
  BY <1>1, <1>5, NetworkKept DEF network
<1>11. /\ label \in [Nodes(g) -> 0 .. NotReached] /\ label' \in [Nodes(g) -> 0 .. NotReached]
       /\ label'[x] = d /\ \A y \in Nodes(g) : y # x => label'[y] = label[y]
  <2>1. label \in [Nodes(g) -> 0 .. NotReached]
    BY <1>1 DEF TypeOK
  <2> QED
    BY <1>5, <1>6, <1>9, <2>1
<1>12. PICK n : n = Len(distance_q) + 1
  OBVIOUS
<1>13. /\ Len(distance_q') = n
       /\ distance_q' \in Seq(Nodes(g) \X Nat)
       /\ \A i \in I : distance_q'[i] = distance_q[i] /\ Queued(i)' = Queued(i)
       /\ distance_q'[n] = <<x, d>> /\ Queued(n)' = x
  <2>1. distance_q \in Seq(Nodes(g) \X Nat)
    BY <1>1 DEF TypeOK
  <2>2. <<x, d>> \in Nodes(g) \X Nat
    BY <1>6, <1>9
  <2>3. /\ Len(distance_q') = n /\ distance_q' \in Seq(Nodes(g) \X Nat)
        /\ \A i \in I : distance_q'[i] = distance_q[i]
        /\ distance_q'[n] = <<x, d>>
    BY <1>5, <1>12, <2>1, <2>2
  <2>4. \A i \in I : Queued(i)' = Queued(i)
    BY <2>3 DEF Queued
  <2>5. Queued(n)' = x
    BY <2>3 DEF Queued
  <2> QED
    BY <2>3, <2>4, <2>5
<1>14. \A i \in I : Queued(i) # x /\ label'[Queued(i)] = label[Queued(i)]
  BY <1>6, <1>7, <1>11
<1>15. /\ n \in Nat /\ n \notin I /\ front < n
       /\ \A i \in 1 .. n : i = n \/ i \in I
       /\ \A i \in I : i \in 1 .. n /\ i < n /\ i \in Nat
       /\ n \in 1 .. n
  BY ONLY <1>7, <1>12
<1>16. \A i, j \in 1 .. n : /\ i < j => label'[Queued(i)'] <= label'[Queued(j)']
                            /\ Queued(i)' = Queued(j)' => i = j
                            /\ front \in {0, i} => label'[Queued(j)'] <= label'[Queued(i)'] + 1
  <2> HIDE DEF I
  <2> SUFFICES ASSUME NEW i \in 1 .. n, NEW j \in 1 .. n
               PROVE  /\ i < j => label'[Queued(i)'] <= label'[Queued(j)']
                      /\ Queued(i)' = Queued(j)' => i = j
                      /\ front \in {0, i} => label'[Queued(j)'] <= label'[Queued(i)'] + 1
    OBVIOUS
  <2>1. \A k \in I : /\ Queued(k)' = Queued(k) /\ label'[Queued(k)'] = label[Queued(k)]
                     /\ Queued(k) # x
    BY <1>13, <1>14
  <2>2. Queued(n)' = x /\ label'[x] = level + 1
    BY <1>6, <1>11, <1>13
  <2>3. front # 0 /\ front \in Nat
    BY <1>7 DEF I
  <2>4. CASE i \in I /\ j \in I
    <3>1. front = i => label[Queued(j)] <= label[Queued(i)] + 1
      BY <1>7, <2>4
    <3> QED
      BY <1>7, <2>1, <2>3, <2>4, <3>1
  <2>5. CASE i \in I /\ j = n
    <3>1. front = i => label[Queued(i)] = level
      BY <1>7
    <3> QED
      BY <1>7, <1>15, <2>1, <2>2, <2>3, <2>5, <3>1
  <2>6. CASE i = n /\ j \in I
    BY <1>7, <1>15, <2>1, <2>2, <2>3, <2>6
  <2>7. CASE i = n /\ j = n
    BY <1>7, <1>15, <2>2, <2>3, <2>7
  <2> QED
    BY <1>15, <2>4, <2>5, <2>6, <2>7
<1>17. n <= NotReached
  <2>1. ASSUME NotReached < n PROVE FALSE
    <3> DEFINE f == [i \in 1 .. n |-> distance_q'[i][1]]
    <3>1. f \in [1 .. n -> Nodes(g)]
      <4>1. \A i \in 1 .. n : distance_q'[i] \in Nodes(g) \X Nat
        BY <1>13, <1>15
      <4> QED
        BY <4>1
    <3>2. IsFiniteSet(1 .. n) /\ Cardinality(1 .. n) = n
      <4>1. IsFiniteSet(1 .. n) /\ Cardinality(1 .. n) = IF 1 > n THEN 0 ELSE n - 1 + 1
        BY <1>15, FS_Interval
      <4> QED
        BY <1>15, <4>1
    <3>3. IsFiniteSet(Nodes(g)) /\ Cardinality(Nodes(g)) = NotReached
      <4>1. 0 \in Int /\ NotReached - 1 \in Int
        BY <1>8
      <4>2. /\ IsFiniteSet(0 .. (NotReached - 1))
            /\ Cardinality(0 .. (NotReached - 1)) = IF 0 > NotReached - 1 THEN 0 ELSE (NotReached - 1) - 0 + 1
        BY <4>1, FS_Interval
      <4> QED
        BY <1>8, <4>2
    <3> HIDE DEF f
    <3>4. \E i, j \in 1 .. n : i # j /\ f[i] = f[j]
      BY <2>1, <3>1, <3>2, <3>3, FS_PigeonHole
    <3>5. \A i \in 1 .. n : f[i] = Queued(i)'
      BY DEF f, Queued
    <3> QED
      BY <1>16, <3>4, <3>5
  <2> QED
    BY <1>8, <1>15, <2>1
<1>18. /\ highest_active' \in 0 .. NotReached /\ highest_active <= highest_active'
       /\ excess[x] > 0 => d <= highest_active'
       /\ highest_active \in Nat
  <2>1. highest_active \in 0 .. NotReached /\ highest_active \in Nat
    BY <1>1, <1>8 DEF TypeOK
  <2>2. CASE excess[x] > 0
    <3>1. highest_active' \in {highest_active, d} /\ highest_active <= highest_active' /\ d <= highest_active'
      BY <1>5, <1>9, <2>1, <2>2, GreaterFacts
    <3> QED
      BY ONLY <1>9, <2>1, <3>1
  <2>3. CASE ~(excess[x] > 0)
    BY <1>5, <2>1, <2>3
  <2> QED
    BY <2>2, <2>3
<1>19. /\ active_vertices \in [0 .. NotReached -> SUBSET Nodes(g)]
       /\ inactive_vertices \in [0 .. NotReached -> SUBSET Nodes(g)]
       /\ excess \in [Nodes(g) -> Nat]
  BY <1>1 DEF TypeOK
<1>20. TypeOK'
  <2>1. /\ active_vertices' \in [0 .. NotReached -> SUBSET Nodes(g)]
        /\ inactive_vertices' \in [0 .. NotReached -> SUBSET Nodes(g)]
    <3>1. CASE excess[x] > 0
      BY <1>5, <1>6, <1>9, <1>19, <3>1
    <3>2. CASE ~(excess[x] > 0)
      <4>1. active_vertices' = active_vertices
        BY <1>5, <3>2
      <4>2. inactive_vertices' = [inactive_vertices EXCEPT ![d] = @ \cup {x}]
        BY <1>5, <3>2
      <4>3. inactive_vertices[d] \cup {x} \in SUBSET Nodes(g)
        BY <1>6, <1>9, <1>19
      <4> QED
        BY <1>9, <1>19, <4>1, <4>2, <4>3
    <3> QED
      BY <3>1, <3>2
  <2>2. front \in 0 .. Len(distance_q')
    BY <1>7, <1>13, <1>15
  <2>3. edge' \in 0 .. g.edgeCount
    BY <1>1, <1>5, <1>6, GraphFacts
  <2>4. Len(distance_q') <= g.nodeCount
    BY <1>8, <1>13, <1>17
  <2> HIDE DEF I
  <2> QED
    BY <1>1, <1>5, <1>8, <1>11, <1>13, <1>18, <2>1, <2>2, <2>3, <2>4 DEF TypeOK
<1>21. SourceIsDrained' /\ DischargeInv'
  BY <1>1, <1>5 DEF SourceIsDrained, DischargeInv
<1>22. LabelsAreValid'
  <2>1. label[g.source] = NotReached /\ \A y \in Nodes(g) : label[y] = 0 <=> y = g.sink
    BY <1>1, <1>5 DEF LabelsAreValid
  <2>2. label'[g.source] = NotReached
    BY <1>6, <1>8, <1>11, <2>1
  <2>3. \A y \in Nodes(g) : label'[y] = 0 <=> y = g.sink
    BY <1>6, <1>9, <1>11, <2>1
  <2> QED
    BY <1>5, <1>8, <2>2, <2>3 DEF LabelsAreValid, IsSettled
<1>23. ListsAreTrue'
  <2>1. \A l \in 0 .. NotReached :
          /\ active_vertices[l] = {y \in At(l) : excess[y] > 0}
          /\ inactive_vertices[l] = {y \in At(l) : excess[y] = 0}
          /\ active_vertices[l] # {} => l <= highest_active
    BY <1>1, <1>5 DEF ListsAreTrue
  <2>2. ASSUME NEW l \in 0 .. NotReached
        PROVE  At(l)' = IF l = d THEN At(l) \cup {x} ELSE At(l)
    <3>1. /\ At(l)' = {y \in Nodes(g) \ {g.source, g.sink} : label'[y] = l /\ l # NotReached}
          /\ At(l) = {y \in Nodes(g) \ {g.source, g.sink} : label[y] = l /\ l # NotReached}
      BY <1>5, <1>8 DEF At, Held
    <3>2. x \in Nodes(g) \ {g.source, g.sink} /\ label[x] = NotReached /\ d # NotReached
      BY <1>6, <1>9, <1>8
    <3> QED
      BY <1>11, <3>1, <3>2
  <2>3. excess[x] \in Nat
    BY <1>6, <1>19
  <2>4. ASSUME NEW l \in 0 .. NotReached
        PROVE  /\ active_vertices'[l] = {y \in At(l)' : excess[y] > 0}
               /\ inactive_vertices'[l] = {y \in At(l)' : excess[y] = 0}
               /\ active_vertices'[l] # {} => l <= highest_active'
    <3>1. CASE excess[x] > 0 /\ l = d
      <4>1. active_vertices'[l] = active_vertices[l] \cup {x} /\ inactive_vertices'[l] = inactive_vertices[l]
        BY <1>5, <1>19, <3>1
      <4>2. At(l)' = At(l) \cup {x} /\ ~(excess[x] = 0)
        BY <2>2, <2>3, <3>1
      <4> QED
        BY <1>18, <2>1, <3>1, <4>1, <4>2
    <3>2. CASE ~(excess[x] > 0) /\ l = d
      <4>1. inactive_vertices'[l] = inactive_vertices[l] \cup {x} /\ active_vertices'[l] = active_vertices[l]
        BY <1>5, <1>19, <3>2
      <4>2. At(l)' = At(l) \cup {x} /\ excess[x] = 0
        BY <2>2, <2>3, <3>2
      <4>3. highest_active' = highest_active
        BY <1>5, <3>2
      <4> QED
        BY <2>1, <3>2, <4>1, <4>2, <4>3
    <3>3. CASE l # d
      <4>1. inactive_vertices'[l] = inactive_vertices[l] /\ active_vertices'[l] = active_vertices[l]
        BY <1>5, <1>19, <3>3
      <4>2. At(l)' = At(l)
        BY <2>2, <3>3
      <4>3. active_vertices[l] # {} => l <= highest_active'
        <5>1. l \in Nat /\ highest_active' \in Nat
          BY <1>8, <1>18
        <5> QED
          BY <1>18, <2>1, <5>1
      <4> QED
        BY <2>1, <4>1, <4>2, <4>3
    <3> QED
      BY <3>1, <3>2, <3>3
  <2> QED
    BY <1>5, <1>8, <2>4 DEF ListsAreTrue, IsSettled
<1>24. SearchInv'
  <2>1. {Queued(i)' : i \in 1 .. n} = {y \in Nodes(g) : label'[y] # NotReached}
    <3>1. \A i \in 1 .. n : Queued(i)' \in Nodes(g) /\ label'[Queued(i)'] # NotReached
      <4> HIDE DEF I
      <4> SUFFICES ASSUME NEW i \in 1 .. n
                   PROVE  Queued(i)' \in Nodes(g) /\ label'[Queued(i)'] # NotReached
        OBVIOUS
      <4>1. CASE i = n
        BY <1>6, <1>8, <1>9, <1>11, <1>13, <4>1
      <4>2. CASE i \in I
        BY <1>7, <1>13, <1>14, <4>2
      <4> QED
        BY <1>15, <4>1, <4>2
    <3>2. ASSUME NEW y \in Nodes(g), label'[y] # NotReached
          PROVE  \E i \in 1 .. n : y = Queued(i)'
      <4> HIDE DEF I
      <4>1. CASE y = x
        BY <1>13, <1>15, <4>1
      <4>2. CASE y # x
        <5>1. y \in {z \in Nodes(g) : label[z] # NotReached}
          BY <1>11, <3>2, <4>2
        <5>2. PICK i \in I : y = Queued(i)
          BY <1>7, <5>1
        <5> QED
          BY <1>13, <1>15, <5>2
      <4> QED
        BY <4>1, <4>2
    <3> QED
      BY <3>1, <3>2
  <2>2. \A i \in 1 .. n : distance_q'[i][2] = label'[Queued(i)']
    <3> SUFFICES ASSUME NEW i \in 1 .. n PROVE distance_q'[i][2] = label'[Queued(i)']
      OBVIOUS
    <3> HIDE DEF I
    <3>1. CASE i = n
      BY <1>11, <1>13, <3>1
    <3>2. CASE i \in I
      <4>1. distance_q'[i] = distance_q[i] /\ Queued(i)' = Queued(i)
        BY <1>13, <3>2
      <4>2. label'[Queued(i)] = label[Queued(i)]
        BY <1>14, <3>2
      <4>3. distance_q[i][2] = label[Queued(i)]
        BY <1>7, <3>2
      <4> QED
        BY ONLY <4>1, <4>2, <4>3
    <3> QED
      BY <1>15, <3>1, <3>2
  <2>3. ASSUME NEW l \in 0 .. (NotReached - 1),
               NEW y \in Nodes(g), label'[y] # NotReached, l <= label'[y]
        PROVE  \E z \in Nodes(g) : label'[z] # NotReached /\ label'[z] = l
    <3>1. CASE l = d
      <4>1. label'[x] # NotReached /\ label'[x] = l
        BY <1>8, <1>9, <1>11, <3>1
      <4> QED
        BY <1>6, <4>1
    <3>2. CASE l # d
      <4>1. \E u \in Nodes(g) : label[u] # NotReached /\ l <= label[u]
        <5>1. CASE y = x
          <6>1. l <= level /\ label[node] # NotReached
            BY <1>6, <1>7, <1>8, <1>11, <2>3, <3>2, <5>1
          <6> QED
            BY <1>7, <6>1
        <5>2. CASE y # x
          BY <1>11, <2>3, <5>2
        <5> QED
          BY <5>1, <5>2
      <4>2. PICK z \in Nodes(g) : label[z] # NotReached /\ label[z] = l
        BY <1>7, <4>1
      <4>3. z # x
        BY <1>6, <4>2
      <4> QED
        BY <1>11, <4>2, <4>3
    <3> QED
      BY <3>1, <3>2
  <2>4. \A i \in 1 .. front : i \in I
    BY <1>7
  <2>5. \A i \in 1 .. front : label'[Queued(i)'] <= highest_vertex'
    <3> HIDE DEF I
    <3> QED
      BY <1>5, <1>7, <1>13, <1>14, <2>4
  <2>6. front > 0 /\ node = Queued(front)' /\ level = label'[node]
    <3> HIDE DEF I
    <3>1. front > 0
      BY <1>7 DEF I
    <3>2. Queued(front)' = Queued(front)
      BY <1>5, <1>7, <1>13
    <3> QED
      BY <1>5, <1>7, <1>14, <3>1, <3>2
  <2>7. \A i \in 1 .. front : \A b \in Out(g, Queued(i)') :
          reverse_r_capacity[b] > 0 /\ (i = front => b < edge') =>
            label'[g.dst[b]] <= label'[Queued(i)'] + 1
    <3> SUFFICES ASSUME NEW i \in 1 .. front, NEW b \in Out(g, Queued(i)'),
                        reverse_r_capacity[b] > 0, i = front => b < edge'
                 PROVE  label'[g.dst[b]] <= label'[Queued(i)'] + 1
      OBVIOUS
    <3> HIDE DEF I
    <3>1. /\ i \in I /\ b \in Out(g, Queued(i)) /\ label'[Queued(i)'] = label[Queued(i)]
          /\ Queued(i) \in Nodes(g) /\ label[Queued(i)] \in Nat
      BY <1>7, <1>13, <1>14, <2>4
    <3>2. b \in Edges(g) /\ b \in Nat /\ g.dst[b] \in Nodes(g)
      BY <1>1, <3>1, GraphFacts
    <3>3. label[g.dst[b]] \in Nat /\ label'[g.dst[b]] \in Nat /\ label'[g.dst[b]] <= label[g.dst[b]]
      <4>1. CASE g.dst[b] = x
        BY <1>6, <1>8, <1>9, <1>11, <4>1
      <4>2. CASE g.dst[b] # x
        <5>1. label[g.dst[b]] \in 0 .. NotReached /\ label'[g.dst[b]] = label[g.dst[b]]
          BY <1>11, <3>2, <4>2
        <5> QED
          BY <1>8, <5>1
      <4> QED
        BY <4>1, <4>2
    <3>4. CASE i = front => b < edge
      <4>1. label[g.dst[b]] <= label[Queued(i)] + 1
        BY <1>7, <3>1, <3>4
      <4> QED
        BY ONLY <3>1, <3>3, <4>1
    <3>5. CASE i = front /\ ~(b < edge)
      <4>1. b \in Out(g, node) /\ b < a + 1 /\ edge \in Nat
        BY <1>1, <1>5, <1>7, <3>1, <3>5, GraphFacts DEF TypeOK
      <4>2. edge <= b /\ (b < a \/ b = a)
        BY ONLY <1>6, <3>2, <3>5, <4>1
      <4>3. CASE b < a
        <5>1. label[g.dst[b]] # NotReached
          BY <1>6, <4>1, <4>2, <4>3
        <5>2. g.dst[b] \in {y \in Nodes(g) : label[y] # NotReached}
          BY <3>2, <5>1
        <5>3. PICK j \in I : g.dst[b] = Queued(j)
          BY <1>7, <5>2
        <5>4. label[g.dst[b]] <= level + 1 /\ label[Queued(i)] = level
          BY <1>7, <3>5, <5>3
        <5> QED
          BY ONLY <3>1, <3>3, <5>4
      <4>4. CASE b = a
        BY <1>3, <1>6, <1>7, <1>11, <3>1, <3>5, <4>4
      <4> QED
        BY <4>2, <4>3, <4>4
    <3> QED
      BY <3>4, <3>5
  <2> HIDE DEF I
  <2> DEFINE labelled == {y \in Nodes(g) : label[y] # NotReached}
  <2>8. labelled' = {y \in Nodes(g) : label'[y] # NotReached}
    BY <1>5, <1>8
  <2>9. \A l \in 0 .. (NotReached - 1) :
          (\E y \in labelled' : l <= label'[y]) => \E z \in labelled' : label'[z] = l
    BY <2>3, <2>8
  <2>10. {Queued(i)' : i \in 1 .. n} = labelled'
    BY <2>1, <2>8
  <2>11. /\ g' = g /\ front' = front /\ node' = node /\ level' = level /\ pc' = "visit"
         /\ reverse_r_capacity' = reverse_r_capacity /\ NotReached' = NotReached
         /\ Len(distance_q') = n
    BY <1>5, <1>8, <1>13
  <2>12. \A i \in 1 .. front : \A b \in Out(g, Queued(i)') :
           reverse_r_capacity'[b] > 0 /\ (pc' = "visit" /\ i = front => b < edge') =>
             label'[g.dst[b]] <= label'[Queued(i)'] + 1
    BY <2>7, <2>11
  <2>13. SearchInv' <=>
           /\ {Queued(i)' : i \in 1 .. n} = labelled'
           /\ \A i \in 1 .. n : distance_q'[i][2] = label'[Queued(i)']
           /\ \A i, j \in 1 .. n : /\ i < j => label'[Queued(i)'] <= label'[Queued(j)']
                                   /\ Queued(i)' = Queued(j)' => i = j
                                   /\ front \in {0, i} => label'[Queued(j)'] <= label'[Queued(i)'] + 1
           /\ \A l \in 0 .. (NotReached - 1) :
                (\E y \in labelled' : l <= label'[y]) => \E z \in labelled' : label'[z] = l
           /\ \A i \in 1 .. front : label'[Queued(i)'] <= highest_vertex'
           /\ front > 0 /\ node = Queued(front)' /\ level = label'[node]
           /\ \A i \in 1 .. front : \A b \in Out(g, Queued(i)') :
                reverse_r_capacity'[b] > 0 /\ (pc' = "visit" /\ i = front => b < edge') =>
                  label'[g.dst[b]] <= label'[Queued(i)'] + 1
    BY <2>11 DEF SearchInv
  <2> HIDE DEF labelled
  <2> QED
    BY ONLY <1>16, <2>2, <2>5, <2>6, <2>9, <2>10, <2>12, <2>13
<1> QED
  BY <1>10, <1>20, <1>21, <1>22, <1>23, <1>24 DEF PreflowInv

LEMMA VisitEndStep ==
  ASSUME PreflowInv, VisitEnd
  PROVE  PreflowInv'
<1>1. /\ TypeOK /\ CopiesAgree /\ ExcessIsInflow /\ SourceIsDrained /\ LabelsAreValid
      /\ ListsAreTrue /\ SearchInv
  BY DEF PreflowInv
<1>2. /\ pc = "visit" /\ pc' = "distances" /\ Unreached = {}
      /\ UNCHANGED <<g, r_capacity, reverse_r_capacity, excess, label, active_vertices,
                     inactive_vertices, highest_active, highest_vertex, relabel_progress,
                     distance_q, front, node, level, edge>>
  BY DEF VisitEnd, network, lists, queue, place
<1>3. /\ NotReached \in Nat /\ NotReached' = NotReached
  BY <1>1, <1>2, GraphFacts DEF NotReached
<1>4. CopiesAgree' /\ ExcessIsInflow'
  BY <1>1, <1>2, NetworkKept DEF network
<1>5. TypeOK'
  BY <1>1, <1>2, <1>3 DEF TypeOK
<1>6. SourceIsDrained' /\ DischargeInv' /\ LabelsAreValid'
  BY <1>1, <1>2, <1>3 DEF SourceIsDrained, DischargeInv, LabelsAreValid, IsSettled
<1>7. ListsAreTrue'
  <2>1. \A l : At(l)' = At(l)
    BY <1>2, <1>3 DEF At, Held
  <2> QED
    BY <1>1, <1>2, <1>3, <2>1 DEF ListsAreTrue, IsSettled
<1>8. SearchInv'
  <2>1. \A i : Queued(i)' = Queued(i)
    BY <1>2 DEF Queued
  <2>2. ASSUME NEW i \in 1 .. front, NEW a \in Out(g, Queued(i)), reverse_r_capacity[a] > 0
        PROVE  label[g.dst[a]] <= label[Queued(i)] + 1
    <3>1. i \in 1 .. Len(distance_q) /\ Queued(i) \in Nodes(g) /\ label[Queued(i)] \in Nat
      BY <1>1, <1>2, VisitFacts
    <3>2. a \in Edges(g) /\ a \in Nat /\ g.dst[a] \in Nodes(g) /\ edge \in Nat
      BY <1>1, <3>1, GraphFacts, NumberFacts
    <3>3. CASE i = front => a < edge
      BY <1>1, <1>2, <2>2, <3>3, VisitFacts
    <3>4. CASE i = front /\ ~(a < edge)
      <4>1. node = Queued(i) /\ edge <= a /\ level = label[Queued(i)]
        BY <1>1, <1>2, <3>2, <3>4, VisitFacts
      <4>2. label[g.dst[a]] # NotReached
        BY <1>2, <2>2, <4>1 DEF Unreached
      <4>3. g.dst[a] \in {y \in Nodes(g) : label[y] # NotReached}
        BY <3>2, <4>2
      <4>4. PICK j \in 1 .. Len(distance_q) : g.dst[a] = Queued(j)
        BY <1>1, <1>2, <4>3, VisitFacts
      <4> QED
        BY <1>1, <1>2, <4>1, <4>4, VisitFacts
    <3> QED
      BY <3>3, <3>4
  <2> QED
    BY <1>1, <1>2, <1>3, <2>1, <2>2 DEF SearchInv
<1> QED
  BY <1>4, <1>5, <1>6, <1>7, <1>8 DEF PreflowInv

\* When the queue is used up the labels bound the distance to the sink.
LEMMA DistancesEndStep ==
  ASSUME PreflowInv, DistancesEnd
  PROVE  PreflowInv'
<1>1. /\ TypeOK /\ CopiesAgree /\ ExcessIsInflow /\ SourceIsDrained /\ LabelsAreValid
      /\ ListsAreTrue /\ SearchInv
  BY DEF PreflowInv
<1>2. /\ pc = "distances" /\ pc' = "select" /\ front = Len(distance_q)
      /\ UNCHANGED <<g, r_capacity, reverse_r_capacity, excess, label, active_vertices,
                     inactive_vertices, highest_active, highest_vertex, relabel_progress,
                     distance_q, front, node, level, edge>>
  BY DEF DistancesEnd, network, lists, queue, place
<1>3. /\ NotReached \in Nat /\ NotReached' = NotReached
      /\ label \in [Nodes(g) -> 0 .. NotReached]
  BY <1>1, <1>2, GraphFacts DEF NotReached, TypeOK
<1>4. CopiesAgree' /\ ExcessIsInflow'
  BY <1>1, <1>2, NetworkKept DEF network
<1>5. TypeOK'
  BY <1>1, <1>2, <1>3 DEF TypeOK
<1>6. SourceIsDrained' /\ DischargeInv' /\ SearchInv'
  BY <1>1, <1>2 DEF SourceIsDrained, DischargeInv, SearchInv
<1>7. /\ {Queued(i) : i \in 1 .. front} = {x \in Nodes(g) : label[x] # NotReached}
      /\ \A i \in 1 .. front : label[Queued(i)] <= highest_vertex
      /\ \A i \in 1 .. front : \A a \in Out(g, Queued(i)) :
           reverse_r_capacity[a] > 0 => label[g.dst[a]] <= label[Queued(i)] + 1
  BY <1>1, <1>2 DEF SearchInv
<1>8. ASSUME NEW a \in Edges(g), r_capacity[a] > 0
      PROVE  label[g.src[a]] <= label[g.dst[a]] + 1
  <2>1. /\ g.src[a] \in Nodes(g) /\ g.dst[a] \in Nodes(g) /\ g.rev[a] \in Edges(g)
        /\ g.src[g.rev[a]] = g.dst[a] /\ g.dst[g.rev[a]] = g.src[a] /\ g.rev[g.rev[a]] = a
    BY <1>1, GraphFacts
  <2>2. CASE g.src[a] = g.dst[a]
    <3>1. label[g.src[a]] \in Nat
      BY <1>3, <2>1
    <3> QED
      BY <2>2, <3>1
  <2> SUFFICES ASSUME g.src[a] # g.dst[a]
               PROVE  label[g.src[a]] <= label[g.dst[a]] + 1
    BY <2>2
  <2>3. reverse_r_capacity[g.rev[a]] > 0
    <3>1. Mate(g.rev[a]) = a /\ ~IsSourceLoop(g.rev[a])
      BY <1>1, <2>1, MateFacts DEF IsSourceLoop
    <3> QED
      BY <1>1, <1>8, <2>1, <3>1 DEF CopiesAgree
  <2>4. CASE label[g.dst[a]] = NotReached
    <3>1. label[g.src[a]] \in 0 .. NotReached
      BY <1>3, <2>1
    <3> QED
      BY ONLY <1>3, <2>4, <3>1
  <2>5. CASE label[g.dst[a]] # NotReached
    <3>1. g.dst[a] \in {x \in Nodes(g) : label[x] # NotReached}
      BY <2>1, <2>5
    <3>2. PICK i \in 1 .. front : g.dst[a] = Queued(i)
      BY <1>7, <3>1
    <3>3. g.rev[a] \in Out(g, Queued(i))
      BY <2>1, <3>2 DEF Out
    <3> QED
      BY <1>7, <2>1, <2>3, <3>2, <3>3
  <2> QED
    BY <2>4, <2>5
<1>9. LabelsAreValid'
  BY <1>1, <1>2, <1>3, <1>8 DEF LabelsAreValid
<1>10. ListsAreTrue'
  <2>1. \A l : At(l)' = At(l)
    BY <1>2, <1>3 DEF At, Held
  <2>2. ASSUME NEW l \in 0 .. NotReached, At(l) # {} PROVE l <= highest_vertex
    <3>1. PICK x \in Nodes(g) : label[x] = l /\ l # NotReached
      BY <2>2 DEF At
    <3>2. x \in {y \in Nodes(g) : label[y] # NotReached}
      BY <3>1
    <3>3. PICK i \in 1 .. front : x = Queued(i)
      BY <1>7, <3>2
    <3> QED
      BY <1>7, <3>1, <3>3
  <2> QED
    BY <1>1, <1>2, <1>3, <2>1, <2>2 DEF ListsAreTrue
<1> QED
  BY <1>4, <1>5, <1>6, <1>9, <1>10 DEF PreflowInv

-------------------------------------------------------------------------------
(* Selection and discharge.                                                *)

LEMMA NoActiveVertexStep ==
  ASSUME PreflowInv, NoActiveVertex
  PROVE  PreflowInv'
<1>1. /\ TypeOK /\ CopiesAgree /\ ExcessIsInflow /\ SourceIsDrained /\ LabelsAreValid
      /\ ListsAreTrue
  BY DEF PreflowInv
<1>2. /\ pc = "select" /\ pc' = "done"
      /\ UNCHANGED <<g, r_capacity, reverse_r_capacity, excess, label, active_vertices,
                     inactive_vertices, highest_active, highest_vertex, relabel_progress,
                     distance_q, front, node, level, edge>>
  BY DEF NoActiveVertex, network, lists, queue, place
<1>3. NotReached' = NotReached
  BY <1>2 DEF NotReached
<1>4. CopiesAgree' /\ ExcessIsInflow'
  BY <1>1, <1>2, NetworkKept DEF network
<1>5. TypeOK'
  BY <1>1, <1>2, <1>3 DEF TypeOK
<1>6. SourceIsDrained' /\ DischargeInv' /\ LabelsAreValid' /\ SearchInv'
  BY <1>1, <1>2, <1>3 DEF SourceIsDrained, DischargeInv, LabelsAreValid, IsSettled, SearchInv
<1>7. ListsAreTrue'
  <2>1. \A l : At(l)' = At(l)
    BY <1>2, <1>3 DEF At, Held
  <2> QED
    BY <1>1, <1>2, <1>3, <2>1 DEF ListsAreTrue, IsSettled
<1> QED
  BY <1>4, <1>5, <1>6, <1>7 DEF PreflowInv

LEMMA CheckProgressStep ==
  ASSUME PreflowInv, CheckProgress
  PROVE  PreflowInv'
<1>1. /\ TypeOK /\ CopiesAgree /\ ExcessIsInflow /\ SourceIsDrained /\ LabelsAreValid
      /\ ListsAreTrue
  BY DEF PreflowInv
<1>2. /\ pc = "check" /\ pc' \in {"relabel", "select"}
      /\ relabel_progress' \in {0, relabel_progress}
      /\ UNCHANGED <<g, r_capacity, reverse_r_capacity, excess, label, active_vertices,
                     inactive_vertices, highest_active, highest_vertex,
                     distance_q, front, node, level, edge>>
  BY DEF CheckProgress, network, lists, queue, place
<1>3. NotReached' = NotReached
  BY <1>2 DEF NotReached
<1>4. CopiesAgree' /\ ExcessIsInflow'
  BY <1>1, <1>2, NetworkKept DEF network
<1>5. TypeOK'
  <2>1. pc' \in {"init", "relabel", "distances", "visit", "select", "discharge", "check", "done"}
    BY <1>2
  <2>2. relabel_progress' \in Nat
    BY <1>1, <1>2 DEF TypeOK
  <2> QED
    BY <1>1, <1>2, <1>3, <2>1, <2>2 DEF TypeOK
<1>6. SourceIsDrained' /\ DischargeInv' /\ SearchInv'
  BY <1>1, <1>2 DEF SourceIsDrained, DischargeInv, SearchInv
<1>7. LabelsAreValid'
  BY <1>1, <1>2, <1>3 DEF LabelsAreValid, IsSettled
<1>8. ListsAreTrue'
  <2>1. \A l : At(l)' = At(l)
    BY <1>2, <1>3 DEF At, Held
  <2>2. \A l \in 0 .. NotReached :
          /\ active_vertices[l] = {x \in At(l) : excess[x] > 0}
          /\ inactive_vertices[l] = {x \in At(l) : excess[x] = 0}
          /\ active_vertices[l] # {} => l <= highest_active
          /\ At(l) # {} => l <= highest_vertex
    BY <1>1, <1>2 DEF ListsAreTrue, IsSettled
  <2>3. \A l \in 0 .. NotReached :
          active_vertices[l] \cup inactive_vertices[l] # {} => l <= highest_vertex
    BY <2>2
  <2>4. CASE pc' = "relabel"
    BY <1>2, <1>3, <2>3, <2>4 DEF ListsAreTrue, IsSettled
  <2>5. CASE pc' = "select"
    BY <1>2, <1>3, <2>1, <2>2, <2>5 DEF ListsAreTrue, IsSettled
  <2> QED
    BY <1>2, <2>4, <2>5
<1> QED
  BY <1>4, <1>5, <1>6, <1>7, <1>8 DEF PreflowInv

\* The vertex taken from the list of the highest active label is discharged.
LEMMA GetActiveVertexStep ==
  ASSUME PreflowInv, GetActiveVertex
  PROVE  PreflowInv'
<1>1. /\ TypeOK /\ CopiesAgree /\ ExcessIsInflow /\ SourceIsDrained /\ LabelsAreValid
      /\ ListsAreTrue
  BY DEF PreflowInv
<1>2. PICK l : l = Max(ActiveLabels)
  OBVIOUS
<1>3. /\ pc = "select" /\ pc' = "discharge" /\ ActiveLabels # {}
      /\ node' \in active_vertices[l]
      /\ active_vertices' = [active_vertices EXCEPT ![l] = @ \ {node'}]
      /\ highest_active' = l /\ level' = l /\ edge' = g.ver[node']
      /\ UNCHANGED <<g, r_capacity, reverse_r_capacity, excess, label, inactive_vertices,
                     highest_vertex, relabel_progress, distance_q, front>>
  BY <1>2 DEF GetActiveVertex, network, queue
<1>4. /\ NotReached \in Nat /\ NotReached' = NotReached
      /\ highest_active \in Nat /\ highest_active <= NotReached
      /\ label \in [Nodes(g) -> 0 .. NotReached]
      /\ active_vertices \in [0 .. NotReached -> SUBSET Nodes(g)]
      /\ g.source \in Nodes(g) /\ g.sink \in Nodes(g)
  <2>1. NotReached' = NotReached
    BY <1>3 DEF NotReached
  <2>2. /\ label \in [Nodes(g) -> 0 .. NotReached]
        /\ active_vertices \in [0 .. NotReached -> SUBSET Nodes(g)]
    BY <1>1 DEF TypeOK
  <2> QED
    BY <1>1, <2>1, <2>2, GraphFacts, NumberFacts
<1>5. /\ l \in 0 .. highest_active /\ l \in 0 .. NotReached /\ l \in Nat
      /\ \A m \in 0 .. highest_active : active_vertices[m] # {} => m <= l
  <2>1. ActiveLabels \in SUBSET (0 .. highest_active)
    BY DEF ActiveLabels
  <2>2. l \in ActiveLabels /\ \A m \in ActiveLabels : m <= l
    BY <1>2, <1>3, <1>4, <2>1, LargestMember
  <2>3. l \in 0 .. highest_active
    BY <2>1, <2>2
  <2>4. \A m \in 0 .. highest_active : active_vertices[m] # {} => m <= l
    BY <2>2 DEF ActiveLabels
  <2> QED
    BY <1>4, <2>3, <2>4
<1>6. \A m \in 0 .. NotReached :
        /\ active_vertices[m] = {x \in At(m) : excess[x] > 0}
        /\ inactive_vertices[m] = {x \in At(m) : excess[x] = 0}
        /\ active_vertices[m] # {} => m <= highest_active
        /\ At(m) # {} => m <= highest_vertex
  BY <1>1, <1>3 DEF ListsAreTrue, IsSettled
<1>7. /\ node' \in Nodes(g) /\ node' \notin {g.source, g.sink} /\ label[node'] = l
      /\ l # NotReached /\ excess[node'] > 0 /\ l <= highest_vertex
  <2>1. node' \in At(l) /\ excess[node'] > 0
    BY <1>3, <1>5, <1>6
  <2> QED
    BY <1>5, <1>6, <2>1 DEF At
<1>8. CopiesAgree' /\ ExcessIsInflow'
  BY <1>1, <1>3, NetworkKept DEF network
<1>9. TypeOK'
  <2>1. g.ver[node'] \in 0 .. g.edgeCount
    BY <1>1, <1>7, GraphFacts
  <2>2. active_vertices' \in [0 .. NotReached -> SUBSET Nodes(g)]
    BY <1>3, <1>4, <1>5
  <2> QED
    BY <1>1, <1>3, <1>4, <1>5, <1>7, <2>1, <2>2 DEF TypeOK
<1>10. SourceIsDrained' /\ LabelsAreValid' /\ SearchInv'
  BY <1>1, <1>3, <1>4 DEF SourceIsDrained, LabelsAreValid, IsSettled, SearchInv
<1>11. DischargeInv'
  <2>1. \A a \in Out(g, node') : ~(a < edge')
    <3> SUFFICES ASSUME NEW a \in Out(g, node') PROVE ~(a < edge')
      OBVIOUS
    <3>1. g.ver[node'] \in Nat /\ a \in Nat /\ g.ver[node'] <= a
      BY <1>1, <1>7, GraphFacts
    <3> QED
      BY <1>3, <3>1
  <2> QED
    BY <1>3, <1>4, <1>5, <1>7, <2>1 DEF DischargeInv
<1>12. ListsAreTrue'
  <2>1. ASSUME NEW m \in 0 .. NotReached
        PROVE  At(m)' = IF m = l THEN At(m) \ {node'} ELSE At(m)
    <3>1. /\ At(m)' = {x \in Nodes(g) \ {g.source, g.sink} : label[x] = m /\ m # NotReached} \ {node'}
          /\ At(m) = {x \in Nodes(g) \ {g.source, g.sink} : label[x] = m /\ m # NotReached}
      BY <1>3, <1>4 DEF At, Held
    <3> QED
      BY <1>7, <3>1
  <2>2. ASSUME NEW m \in 0 .. NotReached
        PROVE  /\ active_vertices'[m] = {x \in At(m)' : excess[x] > 0}
               /\ inactive_vertices[m] = {x \in At(m)' : excess[x] = 0}
               /\ active_vertices'[m] # {} => m <= l
               /\ At(m)' # {} => m <= highest_vertex
    <3>1. active_vertices'[m] = IF m = l THEN active_vertices[m] \ {node'} ELSE active_vertices[m]
      BY <1>3, <1>4
    <3>2. /\ active_vertices'[m] = {x \in At(m)' : excess[x] > 0}
          /\ inactive_vertices[m] = {x \in At(m)' : excess[x] = 0}
      <4>1. ~(excess[node'] = 0)
        BY <1>1, <1>7 DEF TypeOK
      <4> QED
        BY <1>6, <2>1, <3>1, <4>1
    <3>3. active_vertices'[m] # {} => m <= l
      <4>1. active_vertices'[m] # {} => active_vertices[m] # {}
        BY <3>1
      <4>2. active_vertices[m] # {} => m \in 0 .. highest_active
        BY <1>4, <1>6
      <4> QED
        BY <1>5, <4>1, <4>2
    <3>4. At(m)' # {} => m <= highest_vertex
      BY <1>6, <2>1
    <3> QED
      BY <3>2, <3>3, <3>4
  <2> QED
    BY <1>3, <1>4, <2>2 DEF ListsAreTrue, IsSettled
<1> QED
  BY <1>8, <1>9, <1>10, <1>11, <1>12 DEF PreflowInv

\* What a push of flow along slot a, with mate m and target to, leaves.
PushLeaves(a, m, to, flow) ==
  /\ r_capacity' \in [Edges(g) -> Nat]
  /\ reverse_r_capacity' \in [Edges(g) -> Nat]
  /\ excess' \in [Nodes(g) -> Nat]
  /\ excess'[node] = excess[node] - flow /\ excess'[to] = excess[to] + flow
  /\ \A x \in Nodes(g) : x # node /\ x # to => excess'[x] = excess[x]
  /\ r_capacity'[a] = r_capacity[a] - flow
  /\ \A b \in Edges(g) : b # a /\ b # m => r_capacity'[b] = r_capacity[b]
  /\ m \in Edges(g) /\ g.src[m] = to /\ g.dst[m] = node /\ to \in Nodes(g)
  /\ CopiesAgree' /\ ExcessIsInflow'

\* A push moves excess from one vertex to another and nothing else.
LEMMA PushKeepsNetwork ==
  ASSUME TypeOK, CopiesAgree, ExcessIsInflow, node \in Nodes(g),
         NEW a \in Out(g, node), NEW m, m = g.rev[a], NEW to, to = g.dst[a], NEW flow \in Nat,
         flow <= excess[node], flow <= r_capacity[a],
         node # g.source, to # g.source, to # node,
         g' = g,
         excess' = [excess EXCEPT ![node] = @ - flow, ![to] = @ + flow],
         r_capacity' = Moved(r_capacity, a, flow),
         reverse_r_capacity' = MovedBack(reverse_r_capacity, a, flow)
  PROVE  PushLeaves(a, m, to, flow)
<1> DEFINE r == r_capacity
           s == reverse_r_capacity
           P == [b \in Edges(g) |-> g.capacity[b] - r[b]]
           Q == [b \in Edges(g) |-> g.capacity[b] - r'[b]]
<1>1. /\ a \in Edges(g) /\ g.src[a] = node /\ m \in Edges(g) /\ m # a
      /\ g.rev[m] = a /\ g.src[m] = to /\ g.dst[m] = node /\ to \in Nodes(g)
      /\ ~IsSourceLoop(a) /\ ~IsSourceLoop(m)
  BY GraphFacts DEF IsSourceLoop
<1>2. /\ Mate(a) = m /\ Mate(m) = a
       /\ \A b \in Edges(g) : Mate(b) \in Edges(g) /\ (b # a /\ b # m => Mate(b) # a /\ Mate(b) # m)
  <2>1. Mate(a) = m /\ Mate(m) = a
    BY <1>1, MateFacts
  <2>2. ASSUME NEW b \in Edges(g)
        PROVE  Mate(b) \in Edges(g) /\ (b # a /\ b # m => Mate(b) # a /\ Mate(b) # m)
    <3>1. CASE g.src[b] # g.dst[b]
      <4>1. Mate(b) = g.rev[b] /\ g.rev[b] \in Edges(g) /\ g.rev[g.rev[b]] = b
        BY <2>2, <3>1, GraphFacts, MateFacts
      <4> QED
        BY <1>1, <4>1
    <3>2. CASE g.src[b] = g.dst[b]
      BY <1>1, <2>2, <3>2, MateFacts
    <3> QED
      BY <3>1, <3>2
  <2> QED
    BY <2>1, <2>2
<1>3. \A b \in Edges(g) :
        /\ g.rev[b] \in Edges(g) /\ g.rev[g.rev[b]] = b
        /\ r[b] \in Nat /\ s[b] \in Nat /\ g.capacity[b] \in Nat
        /\ IsSourceLoop(b) \/ s[b] = r[Mate(b)]
        /\ IsSourceLoop(b) \/ P[g.rev[b]] = -P[b]
  <2>1. \A b \in Edges(g) : IsSourceLoop(b) \/ P[g.rev[b]] = -P[b]
    BY GraphFacts DEF ExcessIsInflow, Pushed
  <2> HIDE DEF P
  <2> QED
    BY <2>1, GraphFacts, NumberFacts DEF CopiesAgree
<1>4. /\ r' = [r EXCEPT ![a] = @ - flow, ![m] = @ + flow]
      /\ s' = [s EXCEPT ![a] = @ + flow, ![m] = @ - flow]
      /\ r \in [Edges(g) -> Nat] /\ s \in [Edges(g) -> Nat]
      /\ excess \in [Nodes(g) -> Nat]
  BY <1>2 DEF Moved, MovedBack, TypeOK
<1>5. /\ r'[a] = r[a] - flow /\ r'[m] = r[m] + flow
      /\ s'[a] = s[a] + flow /\ s'[m] = s[m] - flow
      /\ \A b \in Edges(g) : b # a /\ b # m => r'[b] = r[b] /\ s'[b] = s[b]
  BY <1>1, <1>4
<1>6. /\ r[a] \in Nat /\ r[m] \in Nat /\ s[a] = r[m] /\ s[m] = r[a]
  BY <1>1, <1>3, <1>2
<1>7. \A b \in Edges(g) :
        r'[b] \in Nat /\ s'[b] \in Nat /\ (IsSourceLoop(b) \/ s'[b] = r'[Mate(b)])
  <2> SUFFICES ASSUME NEW b \in Edges(g)
               PROVE  /\ r'[b] \in Nat /\ s'[b] \in Nat
                      /\ IsSourceLoop(b) \/ s'[b] = r'[Mate(b)]
    OBVIOUS
  <2>1. CASE b = a
    BY <1>5, <1>6, <1>2, <2>1
  <2>2. CASE b = m
    BY <1>1, <1>5, <1>6, <1>2, <2>2
  <2>3. CASE b # a /\ b # m
    <3>1. Mate(b) # a /\ Mate(b) # m /\ Mate(b) \in Edges(g)
      BY <1>2, <2>3
    <3> QED
      BY ZenonT(60), <1>3, <1>5, <2>3, <3>1
  <2> QED
    BY <2>1, <2>2, <2>3
<1>8. r' \in [Edges(g) -> Nat] /\ s' \in [Edges(g) -> Nat]
  <2>1. DOMAIN r' = Edges(g) /\ DOMAIN s' = Edges(g)
    BY <1>4
  <2>2. r' = [b \in Edges(g) |-> r'[b]] /\ s' = [b \in Edges(g) |-> s'[b]]
    BY <1>4, <2>1
  <2> QED
    BY <1>7, <2>2
<1>9. /\ excess'[node] = excess[node] - flow /\ excess'[to] = excess[to] + flow
      /\ \A x \in Nodes(g) : x # node /\ x # to => excess'[x] = excess[x]
  BY <1>1, <1>4
<1>10. excess' \in [Nodes(g) -> Nat]
  <2>1. excess[node] - flow \in Nat /\ excess[to] + flow \in Nat
    BY <1>1, <1>4
  <2> QED
    BY <1>1, <1>4, <2>1
<1>11. CopiesAgree'
  BY <1>7 DEF CopiesAgree, IsSourceLoop, Mate
<1>12. /\ P[a] \in Int /\ P[m] \in Int
       /\ Q[a] = P[a] + flow /\ Q[m] = P[m] - flow
       /\ \A b \in Edges(g) : P[b] \in Int /\ Q[b] \in Int /\ (b # a /\ b # m => Q[b] = P[b])
  <2>1. \A b \in Edges(g) : g.capacity[b] \in Nat /\ r[b] \in Nat /\ r'[b] \in Nat
    BY <1>3, <1>7
  <2>2. \A b \in Edges(g) : P[b] = g.capacity[b] - r[b] /\ Q[b] = g.capacity[b] - r'[b]
    OBVIOUS
  <2> HIDE DEF P, Q
  <2> QED
    BY <1>1, <1>5, <2>1, <2>2
<1>13. \A b \in Edges(g) : IsSourceLoop(b) \/ Q[g.rev[b]] = -Q[b]
  <2> HIDE DEF P, Q
  <2> SUFFICES ASSUME NEW b \in Edges(g), ~IsSourceLoop(b) PROVE Q[g.rev[b]] = -Q[b]
    OBVIOUS
  <2>1. P[m] = -P[a] /\ g.rev[a] = m
    BY <1>1, <1>3
  <2>2. CASE b = a
    BY <1>12, <2>1, <2>2
  <2>3. CASE b = m
    BY <1>1, <1>12, <2>1, <2>3
  <2>4. CASE b # a /\ b # m
    <3>1. g.rev[b] # a /\ g.rev[b] # m
      BY <1>1, <1>3, <2>4
    <3> QED
      BY <1>3, <1>12, <2>4, <3>1
  <2> QED
    BY <2>2, <2>3, <2>4
<1>14. ASSUME NEW x \in Nodes(g) \ {g.source}
       PROVE  excess'[x] = -SumOver(Q, Out(g, x))
  <2> HIDE DEF P, Q
  <2>1. excess[x] = -SumOver(P, Out(g, x))
    BY DEF P, ExcessIsInflow, Pushed
  <2>2. /\ IsFiniteSet(Out(g, x))
        /\ \A b \in Out(g, x) : b \in Edges(g) /\ g.src[b] = x /\ P[b] \in Int /\ Q[b] \in Int
    BY <1>12, GraphFacts
  <2>3. SumOver(P, Out(g, x)) \in Int
    BY <2>2, SumType
  <2>4. CASE x = node
    <3>1. a \in Out(g, x) /\ \A b \in Out(g, x) \ {a} : Q[b] = P[b]
      BY <1>1, <1>12, <2>2, <2>4
    <3>2. SumOver(Q, Out(g, x)) = SumOver(P, Out(g, x)) + Q[a] - P[a]
      BY <2>2, <3>1, SumUpdate
    <3> QED
      BY <1>9, <1>12, <2>1, <2>3, <2>4, <3>2
  <2>5. CASE x = to
    <3>1. m \in Out(g, x) /\ \A b \in Out(g, x) \ {m} : Q[b] = P[b]
      BY <1>1, <1>12, <2>2, <2>5 DEF Out
    <3>2. SumOver(Q, Out(g, x)) = SumOver(P, Out(g, x)) + Q[m] - P[m]
      BY <2>2, <3>1, SumUpdate
    <3> QED
      BY <1>9, <1>12, <2>1, <2>3, <2>5, <3>2
  <2>6. CASE x # node /\ x # to
    <3>1. \A b \in Out(g, x) : P[b] \in Int /\ Q[b] = P[b]
      BY <1>1, <1>12, <2>2, <2>6
    <3>2. SumOver(Q, Out(g, x)) = SumOver(P, Out(g, x))
      BY <2>2, <3>1, SumSame
    <3> QED
      BY <1>9, <2>1, <2>6, <3>2
  <2> QED
    BY <2>4, <2>5, <2>6
<1>15. ExcessIsInflow'
  <2>1. Q = [b \in Edges(g) |-> Pushed(b)]'
    BY DEF Pushed
  <2>2. ASSUME NEW b \in Edges(g)
        PROVE  (IsSourceLoop(b) \/ Pushed(g.rev[b])' = -Pushed(b)') /\ r'[b] >= 0
    <3>1. /\ g.rev[b] \in Edges(g) /\ r'[b] \in Nat
          /\ IsSourceLoop(b) \/ Q[g.rev[b]] = -Q[b]
      BY <1>3, <1>7, <1>13
    <3>2. Pushed(b)' = Q[b] /\ Pushed(g.rev[b])' = Q[g.rev[b]]
      BY <3>1 DEF Pushed
    <3> HIDE DEF Q
    <3> QED
      BY <3>1, <3>2
  <2>3. \A x \in Nodes(g) \ {g.source} : excess'[x] >= 0 /\ excess'[x] = -SumOver(Q, Out(g, x))
    BY <1>10, <1>14
  <2> HIDE DEF P, Q
  <2> QED
    BY <2>1, <2>2, <2>3 DEF ExcessIsInflow, IsSourceLoop
<1> QED
  BY <1>1, <1>5, <1>8, <1>9, <1>10, <1>11, <1>15 DEF PushLeaves

\* What is known while a vertex is discharged.
LEMMA DischargeFacts ==
  ASSUME TypeOK, LabelsAreValid, ListsAreTrue, DischargeInv, pc = "discharge"
  PROVE  /\ node \in Nodes(g) /\ node # g.source /\ node # g.sink
         /\ excess[node] \in Nat /\ excess[node] > 0
         /\ level = label[node] /\ level \in Nat /\ level > 0 /\ level < NotReached
         /\ level - 1 \in 0 .. NotReached /\ level \in 0 .. NotReached
         /\ highest_active \in {level - 1, level} /\ level <= highest_vertex
         /\ \A a \in Out(g, node) :
              a < edge /\ r_capacity[a] > 0 => label[g.dst[a]] # level - 1
         /\ label[g.source] = NotReached
         /\ \A x \in Nodes(g) : label[x] = 0 <=> x = g.sink
         /\ \A a \in Edges(g) : r_capacity[a] > 0 => label[g.src[a]] <= label[g.dst[a]] + 1
         /\ \A l \in 0 .. NotReached :
              /\ At(l) = {x \in Nodes(g) \ {g.source, g.sink} : label[x] = l /\ l # NotReached} \ {node}
              /\ active_vertices[l] = {x \in At(l) : excess[x] > 0}
              /\ inactive_vertices[l] = {x \in At(l) : excess[x] = 0}
              /\ active_vertices[l] # {} => l <= highest_active
              /\ At(l) # {} => l <= highest_vertex
<1>1. /\ node \in Nodes(g) /\ excess[node] \in Nat /\ level \in Nat /\ level <= NotReached
      /\ NotReached \in Nat
  BY GraphFacts, NumberFacts DEF TypeOK
<1>2. /\ node # g.source /\ node # g.sink /\ excess[node] > 0
      /\ level = label[node] /\ level # NotReached
      /\ highest_active \in {level - 1, level} /\ level <= highest_vertex
      /\ \A a \in Out(g, node) :
           a < edge /\ r_capacity[a] > 0 => label[g.dst[a]] # level - 1
  BY DEF DischargeInv
<1>3. /\ label[g.source] = NotReached
      /\ \A x \in Nodes(g) : label[x] = 0 <=> x = g.sink
      /\ \A a \in Edges(g) : r_capacity[a] > 0 => label[g.src[a]] <= label[g.dst[a]] + 1
  BY DEF LabelsAreValid, IsSettled
<1>4. level # 0
  BY <1>1, <1>2, <1>3
<1>5. /\ level > 0 /\ level < NotReached
      /\ level - 1 \in 0 .. NotReached /\ level \in 0 .. NotReached
  BY ONLY <1>1, <1>2, <1>4
<1>6. \A l \in 0 .. NotReached :
        /\ At(l) = {x \in Nodes(g) \ {g.source, g.sink} : label[x] = l /\ l # NotReached} \ {node}
        /\ active_vertices[l] = {x \in At(l) : excess[x] > 0}
        /\ inactive_vertices[l] = {x \in At(l) : excess[x] = 0}
        /\ active_vertices[l] # {} => l <= highest_active
        /\ At(l) # {} => l <= highest_vertex
  BY DEF ListsAreTrue, IsSettled, At, Held
<1> QED
  BY <1>1, <1>2, <1>3, <1>5, <1>6

LEMMA PushFacts ==
  ASSUME TypeOK, LabelsAreValid, ListsAreTrue, DischargeInv, Push,
         NEW a, a = Min(Admissible), NEW to, to = g.dst[a], NEW flow, flow = FlowAlong(a)
  PROVE  /\ a \in Out(g, node) /\ a \in Edges(g) /\ a \in Nat /\ edge <= a
         /\ r_capacity[a] \in Nat /\ r_capacity[a] > 0 /\ label[to] = level - 1
         /\ \A b \in Out(g, node) : edge <= b /\ b < a /\ r_capacity[b] > 0
                                     => label[g.dst[b]] # level - 1
         /\ to \in Nodes(g) /\ to # g.source /\ to # node
         /\ flow \in Nat /\ flow > 0 /\ flow <= excess[node] /\ flow <= r_capacity[a]
         /\ flow = excess[node] \/ flow = r_capacity[a]
<1>1. pc = "discharge" /\ Admissible # {}
  BY DEF Push
<1>2. /\ node \in Nodes(g) /\ level \in Nat /\ level > 0 /\ level < NotReached
      /\ level = label[node] /\ label[g.source] = NotReached
      /\ excess[node] \in Nat /\ excess[node] > 0
  BY <1>1, DischargeFacts
<1>3. Admissible \in SUBSET Nat /\ Admissible \in SUBSET Out(g, node)
  BY <1>2, GraphFacts DEF Admissible
<1>4. a \in Admissible /\ \A b \in Admissible : a <= b
  BY <1>1, <1>3, LeastMember
<1>5. /\ a \in Out(g, node) /\ a \in Edges(g) /\ a \in Nat /\ edge <= a
      /\ r_capacity[a] > 0 /\ label[to] = level - 1 /\ to \in Nodes(g)
  BY <1>2, <1>4, GraphFacts DEF Admissible
<1>6. ASSUME NEW b \in Out(g, node), edge <= b, b < a, r_capacity[b] > 0
      PROVE  label[g.dst[b]] # level - 1
  <2>1. b \in Nat
    BY <1>2, GraphFacts
  <2>2. ~(a <= b)
    BY <1>5, <1>6, <2>1
  <2> QED
    BY <1>4, <1>6, <2>2 DEF Admissible
<1>7. level - 1 # level /\ level - 1 # NotReached /\ NotReached \in Nat
  BY <1>2, GraphFacts
<1>8. to # g.source /\ to # node
  BY <1>2, <1>5, <1>7
<1>9. r_capacity[a] \in Nat
  BY <1>5, NumberFacts
<1>10. /\ flow \in {excess[node], r_capacity[a]} /\ flow \in Nat
       /\ flow <= excess[node] /\ flow <= r_capacity[a]
  BY <1>2, <1>9, LesserFacts DEF FlowAlong
<1>11. flow > 0
  BY <1>2, <1>5, <1>10
<1> QED
  BY <1>5, <1>6, <1>8, <1>9, <1>10, <1>11

LEMMA PushStep ==
  ASSUME PreflowInv, Push
  PROVE  PreflowInv'
<1>1. /\ TypeOK /\ CopiesAgree /\ ExcessIsInflow /\ SourceIsDrained /\ LabelsAreValid
      /\ ListsAreTrue /\ DischargeInv
  BY DEF PreflowInv
<1>2. PICK a : a = Min(Admissible)
  OBVIOUS
<1>3. PICK to : to = g.dst[a]
  OBVIOUS
<1>4. PICK flow : flow = FlowAlong(a)
  OBVIOUS
<1>5. PICK m : m = g.rev[a]
  OBVIOUS
<1>6. PICK low : low = level - 1
  OBVIOUS
<1>7. PICK wakes \in BOOLEAN : wakes <=> excess[to] = 0 /\ to # g.sink
  OBVIOUS
<1>8. PICK spends \in BOOLEAN : spends <=> excess[node] = flow
  OBVIOUS
<1>9. /\ pc = "discharge" /\ edge' = a + 1
      /\ excess' = [excess EXCEPT ![node] = @ - flow, ![to] = @ + flow]
      /\ r_capacity' = Moved(r_capacity, a, flow)
      /\ reverse_r_capacity' = MovedBack(reverse_r_capacity, a, flow)
      /\ UNCHANGED <<g, label, highest_active, highest_vertex, relabel_progress,
                     distance_q, front, node, level>>
  BY <1>2, <1>3, <1>4 DEF Push, queue
<1>10. /\ active_vertices' =
            IF wakes THEN [active_vertices EXCEPT ![low] = @ \cup {to}] ELSE active_vertices
       /\ inactive_vertices' =
            [inactive_vertices EXCEPT ![low] = IF wakes THEN @ \ {to} ELSE @,
                                      ![level] = IF spends THEN @ \cup {node} ELSE @]
       /\ pc' = IF spends THEN "check" ELSE "discharge"
  BY <1>2, <1>3, <1>4, <1>6, <1>7, <1>8 DEF Push
<1>11. /\ NotReached \in Nat /\ NotReached > 1 /\ NotReached' = NotReached
       /\ g.source \in Nodes(g) /\ g.sink \in Nodes(g)
  BY <1>1, <1>9, GraphFacts DEF NotReached
<1>12. /\ node \in Nodes(g) /\ node # g.source /\ node # g.sink
       /\ excess[node] \in Nat /\ excess[node] > 0
       /\ level = label[node] /\ level \in Nat /\ level > 0 /\ level < NotReached
       /\ low \in 0 .. NotReached /\ level \in 0 .. NotReached
       /\ highest_active \in {low, level} /\ level <= highest_vertex
       /\ \A b \in Out(g, node) :
            b < edge /\ r_capacity[b] > 0 => label[g.dst[b]] # low
       /\ label[g.source] = NotReached
       /\ \A x \in Nodes(g) : label[x] = 0 <=> x = g.sink
       /\ \A b \in Edges(g) : r_capacity[b] > 0 => label[g.src[b]] <= label[g.dst[b]] + 1
  BY <1>1, <1>6, <1>9, DischargeFacts
<1>13. \A l \in 0 .. NotReached :
         /\ At(l) = {x \in Nodes(g) \ {g.source, g.sink} : label[x] = l /\ l # NotReached} \ {node}
         /\ active_vertices[l] = {x \in At(l) : excess[x] > 0}
         /\ inactive_vertices[l] = {x \in At(l) : excess[x] = 0}
         /\ active_vertices[l] # {} => l <= highest_active
         /\ At(l) # {} => l <= highest_vertex
  BY <1>1, <1>9, DischargeFacts
<1>14. /\ a \in Out(g, node) /\ a \in Edges(g) /\ a \in Nat /\ edge <= a
       /\ r_capacity[a] \in Nat /\ r_capacity[a] > 0 /\ label[to] = low
       /\ \A b \in Out(g, node) : edge <= b /\ b < a /\ r_capacity[b] > 0
                                   => label[g.dst[b]] # low
       /\ to \in Nodes(g) /\ to # g.source /\ to # node
       /\ flow \in Nat /\ flow > 0 /\ flow <= excess[node] /\ flow <= r_capacity[a]
       /\ flow = excess[node] \/ flow = r_capacity[a]
  BY <1>1, <1>2, <1>3, <1>4, <1>6, PushFacts
<1>15. /\ low # level /\ low # NotReached /\ level # NotReached /\ low <= highest_active
       /\ low \in Nat /\ low = level - 1
  BY ONLY <1>6, <1>11, <1>12
<1>16. /\ r_capacity' \in [Edges(g) -> Nat]
       /\ reverse_r_capacity' \in [Edges(g) -> Nat]
       /\ excess' \in [Nodes(g) -> Nat]
       /\ excess'[node] = excess[node] - flow /\ excess'[to] = excess[to] + flow
       /\ \A x \in Nodes(g) : x # node /\ x # to => excess'[x] = excess[x]
       /\ r_capacity'[a] = r_capacity[a] - flow
       /\ \A b \in Edges(g) : b # a /\ b # m => r_capacity'[b] = r_capacity[b]
       /\ m \in Edges(g) /\ g.src[m] = to /\ g.dst[m] = node
       /\ CopiesAgree' /\ ExcessIsInflow'
  <2>1. /\ g' = g
        /\ excess' = [excess EXCEPT ![node] = @ - flow, ![to] = @ + flow]
        /\ r_capacity' = Moved(r_capacity, a, flow)
        /\ reverse_r_capacity' = MovedBack(reverse_r_capacity, a, flow)
    BY <1>9
  <2>2. /\ node \in Nodes(g) /\ node # g.source /\ to # g.source /\ to # node
        /\ a \in Out(g, node) /\ flow \in Nat /\ flow <= excess[node] /\ flow <= r_capacity[a]
    BY <1>12, <1>14
  <2>3. TypeOK /\ CopiesAgree /\ ExcessIsInflow
    BY <1>1
  <2>4. PushLeaves(a, m, to, flow)
    BY ONLY <1>3, <1>5, <2>1, <2>2, <2>3, PushKeepsNetwork, Zenon
  <2> QED
    BY <2>4 DEF PushLeaves
<1>17. /\ active_vertices \in [0 .. NotReached -> SUBSET Nodes(g)]
       /\ inactive_vertices \in [0 .. NotReached -> SUBSET Nodes(g)]
  BY <1>1 DEF TypeOK
<1>18. \A l \in 0 .. NotReached :
         /\ active_vertices'[l] = IF wakes /\ l = low THEN active_vertices[l] \cup {to}
                                  ELSE active_vertices[l]
         /\ inactive_vertices'[l] = IF wakes /\ l = low THEN inactive_vertices[l] \ {to}
                                    ELSE IF spends /\ l = level THEN inactive_vertices[l] \cup {node}
                                    ELSE inactive_vertices[l]
  <2>1. ASSUME NEW l \in 0 .. NotReached
        PROVE  active_vertices'[l] = IF wakes /\ l = low THEN active_vertices[l] \cup {to}
                                    ELSE active_vertices[l]
    BY <1>10, <1>12, <1>17
  <2>2. ASSUME NEW l \in 0 .. NotReached
        PROVE  inactive_vertices'[l] = IF wakes /\ l = low THEN inactive_vertices[l] \ {to}
                                       ELSE IF spends /\ l = level THEN inactive_vertices[l] \cup {node}
                                       ELSE inactive_vertices[l]
    <3>1. CASE l = low
      BY <1>10, <1>12, <1>15, <1>17, <3>1
    <3>2. CASE l = level
      BY <1>10, <1>12, <1>15, <1>17, <3>2
    <3>3. CASE l # low /\ l # level
      BY <1>10, <1>12, <1>17, <3>3
    <3> QED
      BY <3>1, <3>2, <3>3
  <2> QED
    BY <2>1, <2>2
<1>19. TypeOK'
  <2>1. /\ active_vertices' \in [0 .. NotReached -> SUBSET Nodes(g)]
        /\ inactive_vertices' \in [0 .. NotReached -> SUBSET Nodes(g)]
    <3>1. \A l \in 0 .. NotReached :
            active_vertices'[l] \in SUBSET Nodes(g) /\ inactive_vertices'[l] \in SUBSET Nodes(g)
      <4> SUFFICES ASSUME NEW l \in 0 .. NotReached
                   PROVE  /\ active_vertices'[l] \in SUBSET Nodes(g)
                          /\ inactive_vertices'[l] \in SUBSET Nodes(g)
        OBVIOUS
      <4>1. active_vertices[l] \in SUBSET Nodes(g) /\ inactive_vertices[l] \in SUBSET Nodes(g)
        BY <1>17
      <4>2. /\ active_vertices'[l] \in {active_vertices[l] \cup {to}, active_vertices[l]}
            /\ inactive_vertices'[l] \in {inactive_vertices[l] \ {to}, inactive_vertices[l] \cup {node},
                                         inactive_vertices[l]}
        BY <1>18
      <4> QED
        BY <1>12, <1>14, <4>1, <4>2
    <3>2. /\ active_vertices' = [l \in 0 .. NotReached |-> active_vertices'[l]]
          /\ inactive_vertices' = [l \in 0 .. NotReached |-> inactive_vertices'[l]]
      BY <1>10, <1>17
    <3> QED
      BY <3>1, <3>2
  <2>2. edge' \in 0 .. g.edgeCount
    BY <1>1, <1>9, <1>14, GraphFacts
  <2>3. pc' \in {"init", "relabel", "distances", "visit", "select", "discharge", "check", "done"}
    BY <1>10
  <2> QED
    BY <1>1, <1>9, <1>11, <1>16, <2>1, <2>2, <2>3 DEF TypeOK
<1>20. SourceIsDrained'
  <2>1. \A b \in Out(g, g.source) : b \in Edges(g) /\ b # a /\ b # m /\ r_capacity[b] = 0
    BY <1>1, <1>9, <1>12, <1>14, <1>16 DEF SourceIsDrained, Out
  <2> QED
    BY <1>9, <1>10, <1>16, <2>1 DEF SourceIsDrained
<1>21. LabelsAreValid'
  <2>1. ASSUME NEW b \in Edges(g), r_capacity'[b] > 0
        PROVE  label[g.src[b]] <= label[g.dst[b]] + 1
    <3>1. CASE b = m
      BY <1>12, <1>14, <1>15, <1>16, <3>1
    <3>2. CASE b # m
      <4>1. r_capacity[b] > 0
        BY <1>14, <1>16, <2>1, <3>2
      <4> QED
        BY <1>12, <4>1
    <3> QED
      BY <3>1, <3>2
  <2> QED
    BY <1>9, <1>11, <1>12, <2>1 DEF LabelsAreValid, IsSettled
<1>22. \A l \in 0 .. NotReached :
         At(l)' = IF spends /\ l = level THEN At(l) \cup {node} ELSE At(l)
  <2> SUFFICES ASSUME NEW l \in 0 .. NotReached
               PROVE  At(l)' = IF spends /\ l = level THEN At(l) \cup {node} ELSE At(l)
    OBVIOUS
  <2>1. At(l) = {x \in Nodes(g) \ {g.source, g.sink} : label[x] = l /\ l # NotReached} \ {node}
    BY <1>13
  <2>2. At(l)' = {x \in Nodes(g) \ {g.source, g.sink} : label[x] = l /\ l # NotReached}
                 \ (IF spends THEN {} ELSE {node})
    BY <1>9, <1>10, <1>11 DEF At, Held
  <2> QED
    BY <1>12, <1>15, <2>1, <2>2
<1>23. ListsAreTrue'
  <2>1. excess[to] \in Nat
    BY <1>1, <1>14, NumberFacts
  <2>2. ASSUME NEW l \in 0 .. NotReached
        PROVE  /\ active_vertices'[l] = {x \in At(l)' : excess'[x] > 0}
               /\ inactive_vertices'[l] = {x \in At(l)' : excess'[x] = 0}
               /\ active_vertices'[l] # {} => l <= highest_active
               /\ At(l)' # {} => l <= highest_vertex
    <3>1. /\ At(l) \in SUBSET Nodes(g) /\ node \notin At(l) /\ g.sink \notin At(l)
          /\ \A x \in At(l) : label[x] = l
          /\ active_vertices[l] = {x \in At(l) : excess[x] > 0}
          /\ inactive_vertices[l] = {x \in At(l) : excess[x] = 0}
          /\ active_vertices[l] # {} => l <= highest_active
          /\ At(l) # {} => l <= highest_vertex
      BY <1>13
    <3>2. CASE l = low
      <4>1. At(l)' = At(l)
        BY <1>15, <1>22, <3>2
      <4>2. to # g.sink => to \in At(l)
        BY <1>13, <1>14, <1>15, <3>2
      <4>3. to = g.sink => to \notin At(l)
        BY <3>1
      <4>4. \A x \in At(l) : x # to => excess'[x] = excess[x]
        BY <1>16, <3>1
      <4>5. excess'[to] > 0 /\ ~(excess'[to] = 0)
        BY <1>14, <1>16, <2>1
      <4>6. /\ active_vertices'[l] = IF wakes THEN active_vertices[l] \cup {to} ELSE active_vertices[l]
            /\ inactive_vertices'[l] = IF wakes THEN inactive_vertices[l] \ {to} ELSE inactive_vertices[l]
        BY <1>15, <1>18, <3>2
      <4>7. CASE wakes
        <5>1. to \in At(l) /\ excess[to] = 0
          BY <1>7, <4>2, <4>7
        <5> QED
          BY <1>15, <3>1, <3>2, <4>1, <4>4, <4>5, <4>6, <4>7, <5>1
      <4>8. CASE ~wakes
        <5>1. to \in At(l) => excess[to] > 0 /\ ~(excess[to] = 0)
          BY <1>7, <2>1, <4>3, <4>8
        <5> QED
          BY <3>1, <4>1, <4>4, <4>5, <4>6, <4>8, <5>1
      <4> QED
        BY <4>7, <4>8
    <3>3. CASE l # low
      <4>1. to \notin At(l)
        BY <1>14, <3>1, <3>3
      <4>2. \A x \in At(l) : excess'[x] = excess[x]
        BY <1>16, <3>1, <4>1
      <4>3. active_vertices'[l] = active_vertices[l]
        BY <1>18, <3>3
      <4>4. CASE spends /\ l = level
        <5>1. excess'[node] = 0 /\ ~(excess'[node] > 0)
          BY <1>8, <1>12, <1>14, <1>16, <4>4
        <5>2. At(l)' = At(l) \cup {node} /\ inactive_vertices'[l] = inactive_vertices[l] \cup {node}
          BY <1>18, <1>22, <3>3, <4>4
        <5> QED
          BY <1>12, <3>1, <4>2, <4>3, <4>4, <5>1, <5>2
      <4>5. CASE ~(spends /\ l = level)
        <5>1. At(l)' = At(l) /\ inactive_vertices'[l] = inactive_vertices[l]
          BY <1>18, <1>22, <3>3, <4>5
        <5> QED
          BY <3>1, <4>2, <4>3, <5>1
      <4> QED
        BY <4>4, <4>5
    <3> QED
      BY <3>2, <3>3
  <2> QED
    BY <1>9, <1>10, <1>11, <2>2 DEF ListsAreTrue, IsSettled
<1>24. SearchInv'
  BY <1>10 DEF SearchInv
<1>25. DischargeInv'
  <2> SUFFICES ASSUME pc' = "discharge" PROVE DischargeInv'
    BY DEF DischargeInv
  <2>1. ~spends /\ flow # excess[node] /\ flow = r_capacity[a]
    BY <1>8, <1>10, <1>14
  <2>2. excess'[node] > 0
    BY <1>12, <1>14, <1>16, <2>1
  <2>3. ASSUME NEW b \in Out(g, node), b < edge', r_capacity'[b] > 0
        PROVE  label[g.dst[b]] # low
    <3>1. b \in Nat /\ b \in Edges(g) /\ g.src[b] = node /\ edge \in Nat
      BY <1>1, <1>12, GraphFacts, NumberFacts
    <3>2. b # m /\ b # a
      BY <1>14, <1>16, <2>1, <2>3, <3>1
    <3>3. r_capacity[b] > 0
      BY <1>16, <2>3, <3>1, <3>2
    <3>4. b < edge \/ (edge <= b /\ b < a)
      <4>1. b < a + 1
        BY <1>9, <2>3
      <4> QED
        BY ONLY <1>14, <3>1, <3>2, <4>1
    <3> QED
      BY <1>12, <1>14, <3>3, <3>4
  <2> QED
    <3>1. /\ node \notin {g.source, g.sink} /\ level = label[node] /\ level # NotReached
          /\ highest_active \in {level - 1, level} /\ level <= highest_vertex
      BY <1>12, <1>15
    <3>2. \A b \in Out(g, node) : b < edge' /\ r_capacity'[b] > 0 => label[g.dst[b]] # level - 1
      BY <1>15, <2>3
    <3>3. /\ g' = g /\ node' = node /\ level' = level /\ label' = label
          /\ highest_active' = highest_active /\ highest_vertex' = highest_vertex
          /\ NotReached' = NotReached
      BY <1>9, <1>11
    <3> QED
      BY ONLY <2>2, <3>1, <3>2, <3>3 DEF DischargeInv
<1> QED
  BY <1>16, <1>19, <1>20, <1>21, <1>23, <1>24, <1>25 DEF PreflowInv

\* A vertex that cannot push is labelled higher than it was, and no higher than its
\* residual edges allow.
LEMMA NewLabelFacts ==
  ASSUME TypeOK, LabelsAreValid, ListsAreTrue, DischargeInv, pc = "discharge", Admissible = {}
  PROVE  /\ NewLabel \in Nat /\ NewLabel > level /\ NewLabel <= NotReached
         /\ NewLabel \in 0 .. NotReached
         /\ \A a \in Out(g, node) : r_capacity[a] > 0 =>
              label[g.dst[a]] >= level /\ NewLabel <= label[g.dst[a]] + 1
         /\ HighestVertex \in 0 .. NotReached /\ HighestVertex \in Nat
         /\ highest_vertex <= HighestVertex
         /\ NewLabel # NotReached => NewLabel <= HighestVertex
<1> DEFINE A == {NotReached - 1} \cup
                  {label[g.dst[a]] : a \in {b \in Out(g, node) : r_capacity[b] # 0}}
<1>1. /\ node \in Nodes(g) /\ level = label[node] /\ level \in Nat /\ level < NotReached /\ level > 0
      /\ \A a \in Out(g, node) :
           a < edge /\ r_capacity[a] > 0 => label[g.dst[a]] # level - 1
      /\ \A a \in Edges(g) : r_capacity[a] > 0 => label[g.src[a]] <= label[g.dst[a]] + 1
  BY DischargeFacts
<1>2. NotReached \in Nat /\ NotReached > 1 /\ edge \in Nat
  BY GraphFacts, NumberFacts
<1>3. \A a \in Out(g, node) :
        /\ a \in Edges(g) /\ a \in Nat /\ g.src[a] = node /\ g.dst[a] \in Nodes(g)
        /\ label[g.dst[a]] \in Nat /\ r_capacity[a] \in Nat
  BY <1>1, GraphFacts, NumberFacts
<1>4. ASSUME NEW a \in Out(g, node), r_capacity[a] > 0
      PROVE  label[g.dst[a]] >= level
  <2>1. label[g.dst[a]] # level - 1
    <3>1. CASE a < edge
      BY <1>1, <1>4, <3>1
    <3>2. CASE ~(a < edge)
      <4>1. edge <= a
        BY <1>2, <1>3, <3>2
      <4> QED
        BY <1>4, <4>1 DEF Admissible
    <3> QED
      BY <3>1, <3>2
  <2>2. level <= label[g.dst[a]] + 1 /\ label[g.dst[a]] \in Nat
    BY <1>1, <1>3, <1>4
  <2> QED
    BY ONLY <1>1, <2>1, <2>2
<1>5. A \in SUBSET Nat /\ A # {}
  BY <1>2, <1>3
<1>6. \A x \in A : x >= level
  <2>1. \A a \in Out(g, node) : r_capacity[a] # 0 => r_capacity[a] > 0
    BY <1>3
  <2> QED
    BY <1>1, <1>2, <1>4, <2>1
<1>7. PICK k : k = Min(A)
  OBVIOUS
<1>8. k \in A /\ \A x \in A : k <= x
  <2> HIDE DEF A
  <2> QED
    BY <1>5, <1>7, LeastMember
<1>9. NewLabel = 1 + k
  BY <1>7 DEF NewLabel
<1>10. k \in Nat /\ k >= level /\ k <= NotReached - 1
  BY <1>5, <1>6, <1>8
<1>11. /\ NewLabel \in Nat /\ NewLabel > level /\ NewLabel <= NotReached
       /\ NewLabel \in 0 .. NotReached
  BY ONLY <1>1, <1>2, <1>9, <1>10
<1>12. ASSUME NEW a \in Out(g, node), r_capacity[a] > 0
       PROVE  NewLabel <= label[g.dst[a]] + 1
  <2>1. label[g.dst[a]] \in A
    BY <1>3, <1>12
  <2>2. k <= label[g.dst[a]] /\ label[g.dst[a]] \in Nat
    BY <1>3, <1>8, <2>1
  <2> QED
    BY ONLY <1>9, <1>10, <2>2
<1>13. /\ HighestVertex \in 0 .. NotReached /\ HighestVertex \in Nat
       /\ highest_vertex <= HighestVertex
       /\ NewLabel # NotReached => NewLabel <= HighestVertex
  <2>1. highest_vertex \in Nat /\ highest_vertex <= NotReached
    BY NumberFacts
  <2>2. CASE NewLabel # NotReached
    <3>1. HighestVertex = Greater(highest_vertex, NewLabel)
      BY <2>2 DEF HighestVertex
    <3>2. /\ HighestVertex \in {highest_vertex, NewLabel} /\ HighestVertex \in Nat
          /\ highest_vertex <= HighestVertex /\ NewLabel <= HighestVertex
      BY <1>11, <2>1, <3>1, GreaterFacts
    <3> QED
      BY ONLY <1>2, <1>11, <2>1, <3>2
  <2>3. CASE NewLabel = NotReached
    <3>1. HighestVertex = highest_vertex
      BY <2>3 DEF HighestVertex
    <3> QED
      BY ONLY <1>2, <2>1, <2>3, <3>1
  <2> QED
    BY <2>2, <2>3
<1> QED
  BY <1>4, <1>11, <1>12, <1>13

LEMMA ProgressType ==
  ASSUME TypeOK
  PROVE  Progress \in Nat
<1>1. relabel_progress \in Nat /\ node \in Nodes(g)
  BY DEF TypeOK
<1>2. g.nodeCount \in Nat /\ g.edgeCount \in Nat /\ IsFiniteSet(Out(g, node))
  BY <1>1, GraphFacts
<1>3. Cardinality(Out(g, node)) \in Nat
  BY <1>2, FS_CardinalityType
<1>4. g.edgeCount \div 2 \in Nat
  BY <1>2
<1>5. WornAt \in Nat
  BY <1>2, <1>4 DEF WornAt, ALPHA
<1>6. relabel_progress + BETA + Cardinality(Out(g, node)) \in Nat
  BY <1>1, <1>3 DEF BETA
<1> QED
  BY <1>5, <1>6 DEF Progress, Lesser

LEMMA RelabelStep ==
  ASSUME PreflowInv, Relabel
  PROVE  PreflowInv'
<1>1. /\ TypeOK /\ CopiesAgree /\ ExcessIsInflow /\ SourceIsDrained /\ LabelsAreValid
      /\ ListsAreTrue /\ DischargeInv
  BY DEF PreflowInv
<1>2. PICK new : new = NewLabel
  OBVIOUS
<1>3. PICK top : top = HighestVertex
  OBVIOUS
<1>4. /\ pc = "discharge" /\ Admissible = {}
      /\ label' = [label EXCEPT ![node] = new]
      /\ highest_vertex' = top
      /\ new # NotReached => highest_active' = new - 1
      /\ new = NotReached => highest_active' = highest_active
      /\ relabel_progress' = Progress
      /\ level' = new /\ edge' = g.ver[node]
      /\ new = NotReached => pc' = "check"
      /\ new # NotReached => pc' = "discharge"
      /\ UNCHANGED <<g, r_capacity, reverse_r_capacity, excess, active_vertices,
                     inactive_vertices, distance_q, front, node>>
  BY <1>2, <1>3 DEF Relabel, network, queue
<1>5. /\ NotReached \in Nat /\ NotReached > 1 /\ NotReached' = NotReached
      /\ g.source \in Nodes(g) /\ g.sink \in Nodes(g)
  BY <1>1, <1>4, GraphFacts DEF NotReached
<1>6. /\ node \in Nodes(g) /\ node # g.source /\ node # g.sink
      /\ excess[node] \in Nat /\ excess[node] > 0
      /\ level = label[node] /\ level \in Nat /\ level > 0 /\ level < NotReached
      /\ highest_active \in {level - 1, level} /\ level <= highest_vertex
      /\ label[g.source] = NotReached
      /\ \A x \in Nodes(g) : label[x] = 0 <=> x = g.sink
      /\ \A b \in Edges(g) : r_capacity[b] > 0 => label[g.src[b]] <= label[g.dst[b]] + 1
  BY <1>1, <1>4, DischargeFacts
<1>7. \A l \in 0 .. NotReached :
        /\ At(l) = {x \in Nodes(g) \ {g.source, g.sink} : label[x] = l /\ l # NotReached} \ {node}
        /\ active_vertices[l] = {x \in At(l) : excess[x] > 0}
        /\ inactive_vertices[l] = {x \in At(l) : excess[x] = 0}
        /\ active_vertices[l] # {} => l <= highest_active
        /\ At(l) # {} => l <= highest_vertex
  BY <1>1, <1>4, DischargeFacts
<1>8. /\ new \in Nat /\ new > level /\ new <= NotReached /\ new \in 0 .. NotReached
      /\ \A a \in Out(g, node) : r_capacity[a] > 0 => new <= label[g.dst[a]] + 1
      /\ top \in 0 .. NotReached /\ top \in Nat /\ highest_vertex <= top
      /\ new # NotReached => new <= top
  BY <1>1, <1>2, <1>3, <1>4, NewLabelFacts
<1>9. CopiesAgree' /\ ExcessIsInflow'
  BY <1>1, <1>4, NetworkKept DEF network
<1>10. /\ label \in [Nodes(g) -> 0 .. NotReached] /\ label' \in [Nodes(g) -> 0 .. NotReached]
       /\ label'[node] = new /\ \A x \in Nodes(g) : x # node => label'[x] = label[x]
       /\ \A x \in Nodes(g) : label[x] \in Nat
  <2>1. label \in [Nodes(g) -> 0 .. NotReached]
    BY <1>1 DEF TypeOK
  <2> QED
    BY <1>1, <1>4, <1>6, <1>8, <2>1, NumberFacts
<1>11. highest_active \in Nat /\ highest_active <= NotReached /\ highest_vertex \in Nat
  BY <1>1, NumberFacts
<1>12. highest_active' \in 0 .. NotReached /\ highest_active <= highest_active'
  <2>1. CASE new # NotReached
    <3>1. highest_active' = new - 1
      BY <1>4, <2>1
    <3> QED
      BY ONLY <1>5, <1>6, <1>8, <1>11, <3>1
  <2>2. CASE new = NotReached
    <3>1. highest_active' = highest_active
      BY <1>4, <2>2
    <3> QED
      BY ONLY <1>5, <1>11, <3>1
  <2> QED
    BY <2>1, <2>2
<1>13. TypeOK'
  <2>1. relabel_progress' \in Nat
    BY <1>1, <1>4, ProgressType
  <2>2. g.ver[node] \in 0 .. g.edgeCount
    BY <1>1, <1>6, GraphFacts
  <2>3. pc' \in {"init", "relabel", "distances", "visit", "select", "discharge", "check", "done"}
    BY <1>4
  <2> QED
    BY <1>1, <1>4, <1>5, <1>8, <1>10, <1>12, <2>1, <2>2, <2>3 DEF TypeOK
<1>14. SourceIsDrained'
  <2>1. pc' # "init"
    BY <1>4
  <2> QED
    BY <1>1, <1>4, <2>1 DEF SourceIsDrained
<1>15. LabelsAreValid'
  <2>1. label'[g.source] = NotReached
    BY <1>5, <1>6, <1>10
  <2>2. \A x \in Nodes(g) : label'[x] = 0 <=> x = g.sink
    BY <1>6, <1>8, <1>10
  <2>3. ASSUME NEW a \in Edges(g), r_capacity[a] > 0
        PROVE  label'[g.src[a]] <= label'[g.dst[a]] + 1
    <3>1. g.src[a] \in Nodes(g) /\ g.dst[a] \in Nodes(g)
      BY <1>1, GraphFacts
    <3>2. label[g.src[a]] <= label[g.dst[a]] + 1
      BY <1>6, <2>3
    <3>3. label[g.src[a]] \in Nat /\ label[g.dst[a]] \in Nat
      BY <1>10, <3>1
    <3>4. CASE g.src[a] = node /\ g.dst[a] # node
      <4>1. new <= label[g.dst[a]] + 1
        BY <1>8, <2>3, <3>4 DEF Out
      <4> QED
        BY <1>10, <3>1, <3>4, <4>1
    <3>5. CASE g.src[a] = node /\ g.dst[a] = node
      BY <1>8, <1>10, <3>5
    <3>6. CASE g.src[a] # node /\ g.dst[a] = node
      <4>1. label'[g.src[a]] = label[g.src[a]] /\ label'[g.dst[a]] = new /\ label[g.dst[a]] = level
        BY <1>6, <1>10, <3>1, <3>6
      <4> QED
        BY ONLY <1>6, <1>8, <3>2, <3>3, <4>1
    <3>7. CASE g.src[a] # node /\ g.dst[a] # node
      BY <1>10, <3>1, <3>2, <3>7
    <3> QED
      BY <3>4, <3>5, <3>6, <3>7
  <2> QED
    BY <1>4, <1>5, <2>1, <2>2, <2>3 DEF LabelsAreValid, IsSettled
<1>16. ListsAreTrue'
  <2>1. ASSUME NEW l \in 0 .. NotReached PROVE At(l)' = At(l)
    <3>1. At(l) = {x \in Nodes(g) \ {g.source, g.sink} : label[x] = l /\ l # NotReached} \ {node}
      BY <1>7
    <3>2. At(l)' = {x \in Nodes(g) \ {g.source, g.sink} : label'[x] = l /\ l # NotReached}
                   \ (IF pc' = "discharge" THEN {node} ELSE {})
      BY <1>4, <1>5 DEF At, Held
    <3>3. CASE new = NotReached
      <4>1. pc' # "discharge" /\ label'[node] = NotReached
        BY <1>4, <1>10, <3>3
      <4> QED
        BY <1>10, <3>1, <3>2, <4>1
    <3>4. CASE new # NotReached
      <4>1. pc' = "discharge"
        BY <1>4, <3>4
      <4> QED
        BY <1>10, <3>1, <3>2, <4>1
    <3> QED
      BY <3>3, <3>4
  <2>2. ASSUME NEW l \in 0 .. NotReached
        PROVE  /\ active_vertices[l] # {} => l <= highest_active'
               /\ At(l) # {} => l <= top
    <3>1. l \in Nat /\ highest_active' \in Nat
      BY <1>5, <1>12
    <3> QED
      BY <1>7, <1>8, <1>11, <1>12, <3>1
  <2>3. pc' \notin {"init", "relabel"}
    BY <1>4
  <2> QED
    BY <1>4, <1>5, <1>7, <2>1, <2>2, <2>3 DEF ListsAreTrue
<1>17. SearchInv'
  BY <1>4 DEF SearchInv
<1>18. DischargeInv'
  <2> SUFFICES ASSUME pc' = "discharge" PROVE DischargeInv'
    BY DEF DischargeInv
  <2>1. new # NotReached
    BY <1>4
  <2>2. \A a \in Out(g, node) : ~(a < edge')
    <3> SUFFICES ASSUME NEW a \in Out(g, node) PROVE ~(a < edge')
      OBVIOUS
    <3>1. g.ver[node] \in Nat /\ a \in Nat /\ g.ver[node] <= a
      BY <1>1, <1>6, GraphFacts, SMTT(30)
    <3> QED
      BY <1>4, <3>1
  <2>3. /\ g' = g /\ node' = node /\ excess' = excess /\ level' = new
        /\ highest_active' = new - 1 /\ highest_vertex' = top /\ NotReached' = NotReached
    BY <1>4, <1>5, <2>1
  <2>4. label'[node] = new /\ new <= top
    BY <1>8, <1>10, <2>1
  <2> QED
    BY ONLY <1>6, <2>1, <2>2, <2>3, <2>4 DEF DischargeInv
<1> QED
  BY <1>9, <1>13, <1>14, <1>15, <1>16, <1>17, <1>18 DEF PreflowInv

\* No residual edge leads from the vertices above a gap to a vertex below it.
LEMMA GapRelabelStep ==
  ASSUME PreflowInv, GapRelabel
  PROVE  PreflowInv'
<1>1. /\ TypeOK /\ CopiesAgree /\ ExcessIsInflow /\ SourceIsDrained /\ LabelsAreValid
      /\ ListsAreTrue /\ DischargeInv
  BY DEF PreflowInv
<1>2. PICK top : top = HighestVertex
  OBVIOUS
<1>3. PICK cut : cut = {node} \cup UNION {active_vertices[l] \cup inactive_vertices[l] :
                                          l \in (level + 1) .. top}
  OBVIOUS
<1>4. /\ pc = "discharge" /\ pc' = "check" /\ Admissible = {} /\ IsGap
      /\ label' = [x \in Nodes(g) |-> IF x \in cut THEN NotReached ELSE label[x]]
      /\ active_vertices' = [l \in 0 .. NotReached |->
                               IF l \in (level + 1) .. top THEN {} ELSE active_vertices[l]]
      /\ inactive_vertices' = [l \in 0 .. NotReached |->
                                 IF l \in (level + 1) .. top THEN {} ELSE inactive_vertices[l]]
      /\ highest_vertex' = level - 1 /\ highest_active' = level - 1
      /\ relabel_progress' = Progress
      /\ UNCHANGED <<g, r_capacity, reverse_r_capacity, excess, distance_q, front,
                     node, level, edge>>
  BY <1>2, <1>3 DEF GapRelabel, network, queue, place
<1>5. /\ NotReached \in Nat /\ NotReached > 1 /\ NotReached' = NotReached
      /\ g.source \in Nodes(g) /\ g.sink \in Nodes(g)
  BY <1>1, <1>4, GraphFacts DEF NotReached
<1>6. /\ node \in Nodes(g) /\ node # g.source /\ node # g.sink
      /\ level = label[node] /\ level \in Nat /\ level > 0 /\ level < NotReached
      /\ level - 1 \in 0 .. NotReached /\ level \in 0 .. NotReached
      /\ highest_active \in {level - 1, level}
      /\ label[g.source] = NotReached
      /\ \A x \in Nodes(g) : label[x] = 0 <=> x = g.sink
      /\ \A b \in Edges(g) : r_capacity[b] > 0 => label[g.src[b]] <= label[g.dst[b]] + 1
  BY <1>1, <1>4, DischargeFacts
<1>7. \A l \in 0 .. NotReached :
        /\ At(l) = {x \in Nodes(g) \ {g.source, g.sink} : label[x] = l /\ l # NotReached} \ {node}
        /\ active_vertices[l] = {x \in At(l) : excess[x] > 0}
        /\ inactive_vertices[l] = {x \in At(l) : excess[x] = 0}
        /\ active_vertices[l] # {} => l <= highest_active
        /\ At(l) # {} => l <= highest_vertex
  BY <1>1, <1>4, DischargeFacts
<1>8. /\ \A a \in Out(g, node) : r_capacity[a] > 0 => label[g.dst[a]] >= level
      /\ top \in 0 .. NotReached /\ top \in Nat /\ highest_vertex <= top
      /\ highest_vertex \in Nat
  BY <1>1, <1>2, <1>4, NewLabelFacts, NumberFacts
<1>9. CopiesAgree' /\ ExcessIsInflow'
  BY <1>1, <1>4, NetworkKept DEF network
<1>10. \A x \in Nodes(g) : label[x] \in Nat /\ label[x] <= NotReached /\ excess[x] \in Nat
                         /\ label[x] \in 0 .. NotReached
  BY <1>1, <1>5, NumberFacts
<1>11. \A l \in 0 .. NotReached : active_vertices[l] \cup inactive_vertices[l] = At(l)
  <2> SUFFICES ASSUME NEW l \in 0 .. NotReached
               PROVE  active_vertices[l] \cup inactive_vertices[l] = At(l)
    OBVIOUS
  <2>1. \A x \in At(l) : excess[x] > 0 \/ excess[x] = 0
    BY <1>7, <1>10
  <2> QED
    BY <1>7, <2>1
<1>12. \A x \in Nodes(g) :
         x \in cut <=> x = node \/ (x # g.source /\ level < label[x] /\ label[x] < NotReached)
  <2> SUFFICES ASSUME NEW x \in Nodes(g)
               PROVE  x \in cut <=> x = node \/ (x # g.source /\ level < label[x] /\ label[x] < NotReached)
    OBVIOUS
  <2>1. ASSUME NEW l \in (level + 1) .. top, x \in active_vertices[l] \cup inactive_vertices[l]
        PROVE  x # g.source /\ level < label[x] /\ label[x] < NotReached
    <3>1. l \in 0 .. NotReached /\ l \in Nat /\ level < l
      BY <1>5, <1>6, <1>8
    <3>2. x \in At(l)
      BY <1>11, <2>1, <3>1
    <3>3. x # g.source /\ label[x] = l /\ l # NotReached
      BY <1>7, <3>1, <3>2
    <3> QED
      BY <1>5, <3>1, <3>3
  <2>2. ASSUME x # g.source, x # node, level < label[x], label[x] < NotReached
        PROVE  label[x] \in (level + 1) .. top /\ x \in active_vertices[label[x]] \cup inactive_vertices[label[x]]
    <3>1. x # g.sink /\ label[x] # NotReached /\ label[x] \in 0 .. NotReached
      BY <1>5, <1>6, <1>10, <2>2
    <3>2. x \in At(label[x])
      BY <1>7, <2>2, <3>1
    <3>3. label[x] <= highest_vertex /\ label[x] \in Nat
      BY <1>7, <1>10, <3>1, <3>2
    <3>4. label[x] \in (level + 1) .. top
      BY ONLY <1>6, <1>8, <2>2, <3>3
    <3> QED
      BY <1>11, <3>1, <3>2, <3>4
  <2> QED
    BY <1>3, <2>1, <2>2
<1>13. \A x \in Nodes(g) : label[x] = level => x = node
  <2> SUFFICES ASSUME NEW x \in Nodes(g), label[x] = level, x # node PROVE FALSE
    OBVIOUS
  <2>1. x # g.source /\ x # g.sink /\ level # NotReached
    BY <1>5, <1>6
  <2>2. x \in At(level)
    BY <1>6, <1>7, <2>1
  <2>3. At(level) = {}
    BY <1>4, <1>6, <1>11 DEF IsGap
  <2> QED
    BY <2>2, <2>3
<1>14. /\ \A x \in Nodes(g) : x \in cut => label'[x] = NotReached
       /\ \A x \in Nodes(g) : x \notin cut => label'[x] = label[x]
       /\ label' \in [Nodes(g) -> 0 .. NotReached]
  BY <1>4, <1>5, <1>10
<1>15. TypeOK'
  <2>1. relabel_progress' \in Nat
    BY <1>1, <1>4, ProgressType
  <2>2. /\ active_vertices' \in [0 .. NotReached -> SUBSET Nodes(g)]
        /\ inactive_vertices' \in [0 .. NotReached -> SUBSET Nodes(g)]
    BY <1>1, <1>4 DEF TypeOK
  <2>3. pc' \in {"init", "relabel", "distances", "visit", "select", "discharge", "check", "done"}
    BY <1>4
  <2> QED
    BY <1>1, <1>4, <1>5, <1>6, <1>14, <2>1, <2>2, <2>3 DEF TypeOK
<1>16. SourceIsDrained' /\ SearchInv' /\ DischargeInv'
  BY <1>1, <1>4 DEF SourceIsDrained, SearchInv, DischargeInv
<1>17. ASSUME NEW a \in Edges(g), r_capacity[a] > 0
       PROVE  label'[g.src[a]] <= label'[g.dst[a]] + 1
  <2>1. g.src[a] \in Nodes(g) /\ g.dst[a] \in Nodes(g) /\ a \in Out(g, g.src[a])
    BY <1>1, GraphFacts DEF Out
  <2>2. label[g.src[a]] <= label[g.dst[a]] + 1
    BY <1>6, <1>17
  <2>3. /\ label[g.src[a]] \in Nat /\ label[g.dst[a]] \in Nat
        /\ label[g.src[a]] <= NotReached /\ label[g.dst[a]] <= NotReached
    BY <1>10, <2>1
  <2>4. CASE g.src[a] \in cut
    <3>1. label'[g.src[a]] = NotReached
      BY <1>14, <2>1, <2>4
    <3>2. label[g.dst[a]] >= level
      <4>1. CASE g.src[a] = node
        BY <1>8, <1>17, <2>1, <4>1
      <4>2. CASE g.src[a] # node
        <5>1. level < label[g.src[a]]
          BY <1>12, <2>1, <2>4, <4>2
        <5> QED
          BY ONLY <1>6, <2>2, <2>3, <5>1
      <4> QED
        BY <4>1, <4>2
    <3>3. label'[g.dst[a]] = NotReached
      <4>1. CASE label[g.dst[a]] = level
        BY <1>12, <1>13, <1>14, <2>1, <4>1
      <4>2. CASE label[g.dst[a]] > level /\ label[g.dst[a]] < NotReached
        BY <1>5, <1>6, <1>12, <1>14, <2>1, <4>2
      <4>3. CASE label[g.dst[a]] = NotReached
        BY <1>14, <2>1, <4>3
      <4>4. \/ label[g.dst[a]] = level \/ label[g.dst[a]] = NotReached
            \/ label[g.dst[a]] > level /\ label[g.dst[a]] < NotReached
        BY ONLY <1>5, <1>6, <2>3, <3>2
      <4> QED
        BY <4>1, <4>2, <4>3, <4>4
    <3> QED
      BY <1>5, <3>1, <3>3
  <2>5. CASE g.src[a] \notin cut
    <3>1. label'[g.src[a]] = label[g.src[a]]
      BY <1>14, <2>1, <2>5
    <3>2. label'[g.dst[a]] \in {label[g.dst[a]], NotReached}
      BY <1>14, <2>1
    <3> QED
      BY ONLY <1>5, <2>2, <2>3, <3>1, <3>2
  <2> QED
    BY <2>4, <2>5
<1>18. LabelsAreValid'
  <2>1. label'[g.source] = NotReached
    BY <1>5, <1>6, <1>14
  <2>2. \A x \in Nodes(g) : label'[x] = 0 <=> x = g.sink
    <3>1. g.sink \notin cut
      BY <1>5, <1>6, <1>12
    <3> QED
      BY <1>5, <1>6, <1>14, <3>1
  <2> QED
    BY <1>4, <1>5, <1>17, <2>1, <2>2 DEF LabelsAreValid, IsSettled
<1>19. ListsAreTrue'
  <2>1. ASSUME NEW l \in 0 .. NotReached
        PROVE  At(l)' = IF l < level THEN At(l) ELSE {}
    <3>1. At(l) = {x \in Nodes(g) \ {g.source, g.sink} : label[x] = l /\ l # NotReached} \ {node}
      BY <1>7
    <3>2. At(l)' = {x \in Nodes(g) \ {g.source, g.sink} : label'[x] = l /\ l # NotReached}
      BY <1>4, <1>5 DEF At, Held
    <3>3. l \in Nat
      BY <1>5
    <3>4. CASE l < level
      <4>1. \A x \in Nodes(g) : label[x] = l => x \notin cut
        BY <1>6, <1>10, <1>12, <3>3, <3>4
      <4>2. l # NotReached /\ l # level
        BY <1>5, <1>6, <3>3, <3>4
      <4> QED
        BY <1>6, <1>14, <3>1, <3>2, <3>4, <4>1, <4>2
    <3>5. CASE ~(l < level)
      <4>1. SUFFICES ASSUME NEW x \in Nodes(g), x # g.source, label'[x] = l, l # NotReached
                     PROVE  FALSE
        BY <3>2, <3>5
      <4>2. x \notin cut /\ label[x] = l
        BY <1>14, <4>1
      <4>3. x # node /\ ~(level < l /\ l < NotReached)
        BY <1>12, <4>1, <4>2
      <4>4. l # level
        BY <1>13, <4>2, <4>3
      <4>5. l <= NotReached
        BY <1>5
      <4> QED
        BY ONLY <1>5, <1>6, <3>3, <3>5, <4>1, <4>3, <4>4, <4>5
    <3> QED
      BY <3>4, <3>5
  <2>2. ASSUME NEW l \in 0 .. NotReached
        PROVE  /\ l < level => /\ active_vertices'[l] = active_vertices[l]
                              /\ inactive_vertices'[l] = inactive_vertices[l]
               /\ ~(l < level) => active_vertices'[l] = {} /\ inactive_vertices'[l] = {}
    <3>1. l \in Nat /\ (level + 1) .. top \in SUBSET Nat
      BY <1>5, <1>6, <1>8
    <3>2. CASE l \in (level + 1) .. top
      <4>1. ~(l < level)
        BY <1>6, <1>8, <3>1, <3>2
      <4> QED
        BY <1>4, <3>2, <4>1
    <3>3. CASE l \notin (level + 1) .. top
      <4>1. active_vertices'[l] = active_vertices[l] /\ inactive_vertices'[l] = inactive_vertices[l]
        BY <1>4, <3>3
      <4>2. ~(l < level) => At(l) = {}
        <5> SUFFICES ASSUME ~(l < level) PROVE At(l) = {}
          OBVIOUS
        <5>1. CASE l = level
          BY <1>7, <1>13, <5>1
        <5>2. CASE l # level
          <6>1. top < l
            BY ONLY <1>6, <1>8, <3>1, <3>3, <5>2, ~(l < level)
          <6>2. ~(l <= highest_vertex)
            BY ONLY <1>8, <3>1, <6>1
          <6> QED
            BY <1>7, <6>2
        <5> QED
          BY <5>1, <5>2
      <4> QED
        BY <1>11, <4>1, <4>2
    <3> QED
      BY <3>2, <3>3
  <2>3. ASSUME NEW l \in 0 .. NotReached
        PROVE  /\ active_vertices'[l] = {x \in At(l)' : excess[x] > 0}
               /\ inactive_vertices'[l] = {x \in At(l)' : excess[x] = 0}
               /\ active_vertices'[l] # {} => l <= level - 1
               /\ At(l)' # {} => l <= level - 1
    <3>1. CASE l < level
      <4>1. l <= level - 1
        <5>1. l \in Nat
          BY <1>5
        <5> QED
          BY ONLY <1>6, <3>1, <5>1
      <4> QED
        BY <1>7, <2>1, <2>2, <3>1, <4>1
    <3>2. CASE ~(l < level)
      BY <2>1, <2>2, <3>2
    <3> QED
      BY <3>1, <3>2
  <2> QED
    BY <1>4, <1>5, <2>3 DEF ListsAreTrue, IsSettled
<1> QED
  BY <1>9, <1>15, <1>16, <1>18, <1>19 DEF PreflowInv

-------------------------------------------------------------------------------
(* The invariant, and the value that is returned.                          *)

LEMMA Stutter ==
  ASSUME PreflowInv, UNCHANGED vars
  PROVE  PreflowInv'
<1>1. /\ TypeOK /\ CopiesAgree /\ ExcessIsInflow /\ SourceIsDrained /\ LabelsAreValid
      /\ ListsAreTrue /\ SearchInv /\ DischargeInv
  BY DEF PreflowInv
<1>2. UNCHANGED <<g, pc, r_capacity, reverse_r_capacity, excess, label, active_vertices,
                  inactive_vertices, highest_active, highest_vertex, relabel_progress,
                  distance_q, front, node, level, edge>>
  BY DEF vars
<1>3. NotReached' = NotReached /\ (\A l : At(l)' = At(l)) /\ (\A i : Queued(i)' = Queued(i))
  BY <1>2 DEF NotReached, At, Held, Queued
<1>4. TypeOK'
  BY <1>1, <1>2, <1>3 DEF TypeOK
<1>5. CopiesAgree' /\ ExcessIsInflow'
  BY <1>1, <1>2, NetworkKept DEF network
<1>6. SourceIsDrained' /\ DischargeInv'
  BY <1>1, <1>2, <1>3 DEF SourceIsDrained, Mate, DischargeInv
<1>7. LabelsAreValid' /\ ListsAreTrue'
  BY <1>1, <1>2, <1>3 DEF LabelsAreValid, ListsAreTrue, IsSettled
<1>8. SearchInv'
  BY <1>1, <1>2, <1>3 DEF SearchInv
<1> QED
  BY <1>4, <1>5, <1>6, <1>7, <1>8 DEF PreflowInv

\* PreflowInv: whatever the network addArc() has merged, loops included, between any two
\* steps the copies of the capacities are true and no water is lost, loops of the source
\* apart, the labels bound the distance to the sink and every vertex that may still
\* reach it is in the list where it is looked for.
THEOREM PreflowHolds == Spec => []PreflowInv
<1>1. Init => PreflowInv
  BY InitPreflow
<1>2. PreflowInv /\ [Next]_vars => PreflowInv'
  <2> SUFFICES ASSUME PreflowInv, [Next]_vars PROVE PreflowInv'
    OBVIOUS
  <2>1. CASE Saturate
    BY <2>1, SaturateStep
  <2>2. CASE StartGlobalRelabel
    BY <2>2, StartGlobalRelabelStep
  <2>3. CASE PopVertex
    BY <2>3, PopVertexStep
  <2>4. CASE Reach
    BY <2>4, ReachStep
  <2>5. CASE VisitEnd
    BY <2>5, VisitEndStep
  <2>6. CASE DistancesEnd
    BY <2>6, DistancesEndStep
  <2>7. CASE GetActiveVertex
    BY <2>7, GetActiveVertexStep
  <2>8. CASE NoActiveVertex
    BY <2>8, NoActiveVertexStep
  <2>9. CASE Push
    BY <2>9, PushStep
  <2>10. CASE Relabel
    BY <2>10, RelabelStep
  <2>11. CASE GapRelabel
    BY <2>11, GapRelabelStep
  <2>12. CASE CheckProgress
    BY <2>12, CheckProgressStep
  <2>13. CASE UNCHANGED vars
    BY <2>13, Stutter
  <2> QED
    BY <2>1, <2>2, <2>3, <2>4, <2>5, <2>6, <2>7, <2>8, <2>9, <2>10, <2>11, <2>12, <2>13 DEF Next
<1> QED
  BY <1>1, <1>2, PTL DEF Spec

\* What leaves a side of the network that holds the source is what the vertices on the
\* other side hold.
LEMMA ExcessCrossesCut ==
  ASSUME TypeOK, ExcessIsInflow,
         NEW N \in SUBSET Nodes(g), g.source \in N, g.sink \notin N
  PROVE  /\ SumOver(excess, Nodes(g) \ N) = SumOver(Flow, Leaving(g, N))
         /\ \A a \in Leaving(g, N) : Flow[a] \in Int /\ g.capacity[a] \in Int /\ Flow[a] <= g.capacity[a]
         /\ IsFiniteSet(Leaving(g, N)) /\ IsFiniteSet(Nodes(g) \ N)
<1> DEFINE net == [x \in Nodes(g) |-> NetOutflow(g, Flow, x)]
           rest == Nodes(g) \ N
<1>1. IsCase(g)
  BY GraphFacts
<1>2. \A a \in Edges(g) :
        /\ Flow[a] \in Int /\ Flow[g.rev[a]] = -Flow[a]
        /\ g.capacity[a] \in Int /\ Flow[a] <= g.capacity[a]
  <2> SUFFICES ASSUME NEW a \in Edges(g)
               PROVE  /\ Flow[a] \in Int /\ Flow[g.rev[a]] = -Flow[a]
                      /\ g.capacity[a] \in Int /\ Flow[a] <= g.capacity[a]
    OBVIOUS
  <2>1. g.capacity[a] \in Nat /\ r_capacity[a] \in Nat /\ g.rev[a] \in Edges(g)
    BY GraphFacts, NumberFacts
  <2>2. IsSourceLoop(g.rev[a]) <=> IsSourceLoop(a)
    BY GraphFacts DEF IsSourceLoop
  <2>3. CASE IsSourceLoop(a)
    <3>1. Flow[a] = 0 /\ Flow[g.rev[a]] = 0
      BY <2>1, <2>2, <2>3 DEF Flow
    <3>2. \A i \in Int : i <= 0 /\ i >= 0 => -i = 0
      OBVIOUS
    <3>3. Flow[a] \in Int /\ Flow[a] <= 0 /\ Flow[a] >= 0
      BY <3>1
    <3>4. -Flow[a] = 0
      BY ONLY <3>2, <3>3, Zenon
    <3>5. g.capacity[a] \in Int /\ 0 <= g.capacity[a]
      BY <2>1
    <3> QED
      BY ONLY <3>1, <3>5, <3>3, <3>4, Zenon
  <2>4. CASE ~IsSourceLoop(a)
    <3>1. /\ Flow[a] = g.capacity[a] - r_capacity[a] /\ Flow[a] = Pushed(a)
          /\ Flow[g.rev[a]] = Pushed(g.rev[a])
      BY <2>1, <2>2, <2>4 DEF Flow, Pushed
    <3>2. Pushed(g.rev[a]) = -Pushed(a)
      BY <2>4 DEF ExcessIsInflow
    <3> QED
      BY <2>1, <3>1, <3>2
  <2> QED
    BY <2>3, <2>4
<1>3. SkewSymmetry(g, Flow)
  BY <1>2 DEF SkewSymmetry
<1>4. net \in [Nodes(g) -> Int]
  BY <1>1, <1>2, NetOutflowType
<1>5. \A x \in Nodes(g) : net[x] = NetOutflow(g, Flow, x)
  OBVIOUS
<1>6. \A x \in rest : excess[x] \in Int /\ net[x] \in Int /\ net[x] = -excess[x]
  <2> SUFFICES ASSUME NEW x \in rest
               PROVE  excess[x] \in Int /\ net[x] \in Int /\ net[x] = -excess[x]
    OBVIOUS
  <2>1. x \in Nodes(g) \ {g.source}
    OBVIOUS
  <2>2. excess[x] = -SumOver(Flow, Out(g, x))
    <3>1. excess[x] = -SumOver([a \in Edges(g) |-> Pushed(a)], Out(g, x))
      BY <2>1 DEF ExcessIsInflow
    <3>2. \A a \in Out(g, x) : /\ Flow[a] \in Int
                               /\ [b \in Edges(g) |-> Pushed(b)][a] = Flow[a]
      BY <1>2, <2>1 DEF Flow, IsSourceLoop, Out
    <3>3. IsFiniteSet(Out(g, x))
      BY <2>1, GraphFacts
    <3>4. SumOver([a \in Edges(g) |-> Pushed(a)], Out(g, x)) = SumOver(Flow, Out(g, x))
      BY <3>2, <3>3, SumSame
    <3> QED
      BY <3>1, <3>4
  <2>3. net[x] = SumOver(Flow, Out(g, x))
    BY <1>5, <2>1, NetOutflowIsSum
  <2>4. net[x] \in Int
    BY <1>4, <2>1
  <2> HIDE DEF net
  <2> QED
    BY <2>2, <2>3, <2>4
<1> HIDE DEF net
<1>7. IsFiniteSet(rest) /\ IsFiniteSet(N) /\ IsFiniteSet(Leaving(g, N))
  BY <1>1, NetworkIsFinite DEF Leaving
<1>8. SumOver(net, Nodes(g)) = 0
  BY <1>1, <1>2, <1>3, <1>4, <1>5, SourceFeedsSink
<1>9. SumOver(net, N) = SumOver(Flow, Leaving(g, N))
  BY <1>1, <1>2, <1>3, <1>5, NetOutflowOfCut
<1>10. SumOver(net, Nodes(g)) = SumOver(net, N) + SumOver(net, rest)
  <2>1. N \cup rest = Nodes(g) /\ N \cap rest = {}
    OBVIOUS
  <2>2. \A x \in N \cup rest : net[x] \in Int
    BY <1>4
  <2>3. SumOver(net, N \cup rest) = SumOver(net, N) + SumOver(net, rest)
    BY <1>7, <2>1, <2>2, SumUnion
  <2> QED
    BY <2>1, <2>3
<1>11. SumOver(net, rest) = -SumOver(excess, rest)
  BY <1>6, <1>7, SumNegated
<1>12. SumOver(excess, rest) \in Int /\ SumOver(net, N) \in Int
  BY <1>4, <1>6, <1>7, SumType
<1>13. SumOver(excess, rest) = SumOver(net, N)
  BY ONLY <1>8, <1>10, <1>11, <1>12
<1> QED
  BY <1>2, <1>7, <1>9, <1>13 DEF Leaving

\* No cut is smaller than what has come to the sink.
LEMMA SinkBelowCuts ==
  ASSUME TypeOK, ExcessIsInflow,
         NEW N \in SUBSET Nodes(g), g.source \in N, g.sink \notin N
  PROVE  excess[g.sink] <= SumOver(g.capacity, Leaving(g, N))
<1>1. /\ SumOver(excess, Nodes(g) \ N) = SumOver(Flow, Leaving(g, N))
      /\ \A a \in Leaving(g, N) : Flow[a] \in Int /\ g.capacity[a] \in Int /\ Flow[a] <= g.capacity[a]
      /\ IsFiniteSet(Leaving(g, N)) /\ IsFiniteSet(Nodes(g) \ N)
  BY ExcessCrossesCut
<1>2. SumOver(Flow, Leaving(g, N)) <= SumOver(g.capacity, Leaving(g, N))
  BY <1>1, SumMonotonic
<1>3. /\ SumOver(Flow, Leaving(g, N)) \in Int /\ SumOver(g.capacity, Leaving(g, N)) \in Int
  BY <1>1, SumType
<1>4. g.sink \in Nodes(g) \ N /\ \A x \in Nodes(g) \ N : excess[x] \in Nat
  BY GraphFacts, NumberFacts
<1>5. excess[g.sink] <= SumOver(excess, Nodes(g) \ N)
  BY <1>1, <1>4, SumOfNaturals
<1>6. excess[g.sink] \in Int
  BY <1>4
<1> QED
  BY ONLY <1>1, <1>2, <1>3, <1>5, <1>6

\* With no active vertex left a label below n that no vertex has splits the network into
\* the sides of a filled cut, and all that crosses it is at the sink.
LEMMA NoneActiveMeansMinCut ==
  ASSUME PreflowInv, NoActiveVertex
  PROVE  excess[g.sink] = MinCut(g)
<1>1. /\ TypeOK /\ ExcessIsInflow /\ LabelsAreValid /\ ListsAreTrue
  BY DEF PreflowInv
<1>2. pc = "select" /\ ActiveLabels = {}
  BY DEF NoActiveVertex
<1>3. /\ IsCase(g) /\ NotReached \in Nat /\ NotReached > 1
      /\ Nodes(g) = 0 .. (NotReached - 1)
      /\ g.source \in Nodes(g) /\ g.sink \in Nodes(g)
  BY <1>1, GraphFacts
<1>4. \A x \in Nodes(g) : label[x] \in Nat /\ label[x] <= NotReached /\ excess[x] \in Nat
  BY <1>1, NumberFacts
<1>5. /\ label[g.source] = NotReached /\ label[g.sink] = 0
      /\ \A a \in Edges(g) : r_capacity[a] > 0 => label[g.src[a]] <= label[g.dst[a]] + 1
  BY <1>1, <1>2, <1>3 DEF LabelsAreValid, IsSettled
<1>6. \E k \in 1 .. (NotReached - 1) : \A x \in Nodes(g) : label[x] # k
  <2>1. SUFFICES ASSUME \A k \in 1 .. (NotReached - 1) : \E x \in Nodes(g) : label[x] = k
                 PROVE  FALSE
    OBVIOUS
  <2>2. \A k \in 0 .. NotReached : \E x \in 0 .. (NotReached - 1) : label[x] = k
    <3> SUFFICES ASSUME NEW k \in 0 .. NotReached
                 PROVE  \E x \in 0 .. (NotReached - 1) : label[x] = k
      OBVIOUS
    <3>1. CASE k = 0
      BY <1>3, <1>5, <3>1
    <3>2. CASE k = NotReached
      BY <1>3, <1>5, <3>2
    <3>3. CASE k # 0 /\ k # NotReached
      <4>1. k \in 1 .. (NotReached - 1)
        BY <1>3, <3>3
      <4> QED
        BY <1>3, <2>1, <4>1
    <3> QED
      BY <3>1, <3>2, <3>3
  <2>3. NotReached < NotReached
    BY <1>3, <2>2, LevelsAreNodes
  <2> QED
    BY <1>3, <2>3
<1>7. PICK k \in 1 .. (NotReached - 1) : \A x \in Nodes(g) : label[x] # k
  BY <1>6
<1>8. k \in Nat /\ 0 < k /\ k < NotReached
  BY <1>3
<1> DEFINE N == {x \in Nodes(g) : label[x] > k}
<1>9. N \in SUBSET Nodes(g) /\ g.source \in N /\ g.sink \notin N
  BY <1>3, <1>5, <1>8
<1>10. \A a \in Leaving(g, N) : a \in Edges(g) /\ Flow[a] = g.capacity[a]
  <2> SUFFICES ASSUME NEW a \in Leaving(g, N)
               PROVE  a \in Edges(g) /\ Flow[a] = g.capacity[a]
    OBVIOUS
  <2>1. a \in Edges(g) /\ g.src[a] \in N /\ g.dst[a] \notin N
    BY DEF Leaving
  <2>2. /\ g.src[a] \in Nodes(g) /\ g.dst[a] \in Nodes(g)
        /\ g.capacity[a] \in Nat /\ r_capacity[a] \in Nat
    BY <1>1, <2>1, GraphFacts, NumberFacts
  <2>3. label[g.src[a]] > k /\ ~(label[g.dst[a]] > k) /\ label[g.dst[a]] # k
    BY <1>7, <2>1, <2>2
  <2>4. ~(label[g.src[a]] <= label[g.dst[a]] + 1)
    BY <1>4, <1>8, <2>2, <2>3
  <2>5. r_capacity[a] = 0
    BY <1>5, <2>1, <2>2, <2>4
  <2>6. ~IsSourceLoop(a)
    BY <1>9, <2>1 DEF IsSourceLoop
  <2> QED
    BY <2>1, <2>2, <2>5, <2>6 DEF Flow, Pushed
<1>11. \A x \in Nodes(g) \ N : x # g.sink => excess[x] = 0
  <2> SUFFICES ASSUME NEW x \in Nodes(g), ~(label[x] > k), x # g.sink
               PROVE  excess[x] = 0
    OBVIOUS
  <2>1. x # g.source /\ label[x] # NotReached /\ label[x] \in 0 .. NotReached
    BY <1>3, <1>4, <1>5, <1>8
  <2>2. x \in At(label[x])
    BY <1>2, <2>1 DEF At, Held
  <2>3. /\ active_vertices[label[x]] = {y \in At(label[x]) : excess[y] > 0}
        /\ active_vertices[label[x]] # {} => label[x] <= highest_active
    BY <1>1, <1>2, <2>1 DEF ListsAreTrue
  <2>4. active_vertices[label[x]] = {}
    <3> SUFFICES ASSUME active_vertices[label[x]] # {} PROVE FALSE
      OBVIOUS
    <3>1. label[x] <= highest_active /\ label[x] \in Nat /\ highest_active \in Nat
      BY <1>1, <1>4, <2>3, NumberFacts
    <3>2. label[x] \in 0 .. highest_active
      BY ONLY <3>1
    <3> QED
      BY <1>2, <3>2 DEF ActiveLabels
  <2>5. ~(excess[x] > 0)
    BY <2>2, <2>3, <2>4
  <2> QED
    BY <1>4, <2>5
<1> HIDE DEF N
<1>12. /\ SumOver(excess, Nodes(g) \ N) = SumOver(Flow, Leaving(g, N))
       /\ \A a \in Leaving(g, N) : Flow[a] \in Int /\ g.capacity[a] \in Int
       /\ IsFiniteSet(Leaving(g, N)) /\ IsFiniteSet(Nodes(g) \ N)
  BY <1>1, <1>9, ExcessCrossesCut
<1>13. SumOver(excess, Nodes(g) \ N) = excess[g.sink]
  <2>1. g.sink \in Nodes(g) \ N /\ excess[g.sink] \in Int
    BY <1>3, <1>4, <1>9
  <2>2. \A x \in (Nodes(g) \ N) \ {g.sink} : excess[x] = 0
    BY <1>11
  <2> QED
    BY <1>12, <2>1, <2>2, SumOfOne
<1>14. SumOver(Flow, Leaving(g, N)) = SumOver(g.capacity, Leaving(g, N))
  BY <1>10, <1>12, SumSame
<1>15. SumOver(g.capacity, Leaving(g, N)) = excess[g.sink]
  BY <1>12, <1>13, <1>14
<1>16. \A S \in SUBSET Nodes(g) : g.source \in S /\ g.sink \notin S =>
         excess[g.sink] <= SumOver(g.capacity, Leaving(g, S))
  BY <1>1, SinkBelowCuts
<1>17. excess[g.sink] \in Int
  BY <1>3, <1>4
<1> QED
  BY <1>3, <1>9, <1>15, <1>16, <1>17, CutMeetsBound

\* ResultIsMinCut: whatever the network addArc() has merged, find_max_flow() returns the
\* capacity of a minimum cut, although the vertices that cannot reach the sink keep their
\* excess.
THEOREM SolverReturnsMinCut == Spec => []ResultIsMinCut
<1>1. Init => ResultIsMinCut
  BY DEF Init, ResultIsMinCut
<1>2. PreflowInv /\ ResultIsMinCut /\ [Next]_vars => ResultIsMinCut'
  <2> SUFFICES ASSUME PreflowInv, ResultIsMinCut, [Next]_vars, pc' = "done"
               PROVE  excess'[g'.sink] = MinCut(g')
    BY DEF ResultIsMinCut
  <2>1. CASE NoActiveVertex
    <3>1. excess[g.sink] = MinCut(g)
      BY <2>1, NoneActiveMeansMinCut
    <3>2. excess' = excess /\ g' = g
      BY <2>1 DEF NoActiveVertex, network
    <3> QED
      BY <3>1, <3>2
  <2>2. CASE UNCHANGED vars
    BY <2>2 DEF vars, ResultIsMinCut
  <2>3. CASE Next /\ ~NoActiveVertex
    BY <2>3 DEF Next, Saturate, StartGlobalRelabel, PopVertex, Reach, VisitEnd, DistancesEnd,
       GetActiveVertex, Push, Relabel, GapRelabel, CheckProgress
  <2> QED
    BY <2>1, <2>2, <2>3
<1> QED
  BY <1>1, <1>2, PreflowHolds, PTL DEF Spec

===============================================================================
