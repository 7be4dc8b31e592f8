------------------------------ MODULE MCGraphBuild -----------------------------
EXTENDS GraphBuild

\* The index array of a file whose edges have the tails of the sequence s.
Index(n, s) == [i \in 1 .. (n + 1) |-> Cardinality({k \in DOMAIN s : s[k] < i - 1})]

Sorted(s) == \A k \in 1 .. (Len(s) - 1) : s[k] <= s[k + 1]

Tails(n, m)  == {s \in [1 .. m -> 0 .. (n - 1)] : Sorted(s)}
Heads(n, m)  == [1 .. m -> 0 .. (n - 1)]

File(n, tails, heads, weights) ==
  <<n, Len(tails)>> \o Index(n, tails) \o heads \o weights

\* Every graph with two nodes and up to four edges, all weights different.
TwoNodes ==
  UNION {{File(2, t, h, [k \in 1 .. m |-> IF k = 2 THEN -2 ELSE k]) :
            t \in Tails(2, m), h \in Heads(2, m)} : m \in 0 .. 4}

\* Three nodes: keys of different chains collide, a reverse key may be absent.
ThreeNodes ==
  {File(3, <<0, 0, 1, 2>>, h, <<1, 2, 3, 4>>) :
     h \in {<<1, 2, 0, 0>>, <<1, 2, 2, 0>>, <<1, 2, 0, 1>>, <<0, 0, 2, 1>>}}

Unweighted == {File(2, <<0, 1>>, <<1, 0>>, <<>>), File(2, <<0, 0>>, <<0, 1>>, <<>>)}

Large == {File(2, <<0, 0, 0, 0, 0>>, <<1, 1, 1, 1, 1>>, <<>>)}

Corrupt ==
  {<<>>, <<2>>, <<0, 1>>, <<2, -1>>, <<2, 1, 0>>, <<2, 1, 0, 1, 1>>,
   <<2, 2, 0, 1, 2, 1, 0, 5>>,        \* half of the weights
   <<2, 1, 1, 1, 1, 0>>,              \* ver[0] is not 0
   <<2, 1, 0, 0, 0, 1>>,              \* ver[n] is not m
   <<2, 1, 0, 2, 1, 1>>,              \* not monotonic
   <<2, 1, 0, 1, 1, 2>>}              \* an end out of range

\* abs() of the least int is negative.
LeastWeight == {File(2, <<0>>, <<1>>, <<-10>>)}

MCFiles == LeastWeight \cup TwoNodes \cup ThreeNodes \cup Unweighted \cup Large \cup Corrupt
MCHashValues == {0, 7}
MCModes == {"require", "add", "auto", "other"}

===============================================================================
