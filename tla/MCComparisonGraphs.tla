--------------------------- MODULE MCComparisonGraphs --------------------------
EXTENDS ComparisonGraphs

\* A file with the edges of the sequence s, sorted by their tails.
File(n, s, weights) ==
  LET ver == [i \in 1 .. (n + 1) |-> Cardinality({j \in DOMAIN s : s[j][1] < i - 1})]
  IN  <<n, Len(s)>> \o ver \o [j \in DOMAIN s |-> s[j][2]] \o weights

Sorted(s) == \A j \in 1 .. (Len(s) - 1) : s[j][1] <= s[j + 1][1]

\* All graphs with two nodes and up to four edges: self-loops, parallel and opposite edges.
TwoNodes ==
  UNION {{File(2, s, [j \in 1 .. m |-> IF j = 2 THEN -2 ELSE j]) :
            s \in {t \in [1 .. m -> (0 .. 1) \X (0 .. 1)] : Sorted(t)}} : m \in 0 .. 4}

\* Lists that grow in a different order than they are gone through.
ThreeNodes ==
  {File(3, s, [j \in DOMAIN s |-> j]) :
     s \in {<< <<0, 1>>, <<0, 2>>, <<1, 0>>, <<1, 2>>, <<2, 1>>, <<2, 2>> >>,
            << <<0, 2>>, <<1, 1>>, <<1, 0>>, <<1, 2>>, <<2, 0>>, <<2, 0>> >>,
            << <<1, 0>>, <<2, 0>>, <<2, 1>>, <<2, 1>> >>}}

Unweighted == {File(2, << <<0, 1>>, <<1, 0>> >>, <<>>), File(3, << <<0, 1>>, <<0, 2>> >>, <<>>)}

LeastWeight == {File(2, << <<0, 1>> >>, <<-10>>)}

Corrupt ==
  {<<>>, <<2>>, <<0, 1>>, <<2, -1>>, <<2, 1, 0>>, <<2, 1, 0, 1, 1>>,
   <<2, 2, 0, 1, 2, 1, 0, 5>>,        \* half of the weights
   <<2, 2, 0, 1, 2, 1>>,              \* half of the edges
   <<2, 1, 1, 1, 1, 0>>,              \* ver[0] is not 0
   <<2, 1, 0, 0, 0, 1>>,              \* ver[n] is not m
   <<2, 1, 0, 2, 1, 1>>,              \* not monotonic
   <<2, 2, 0, 1, 2, 1, 2, 1, 1>>,     \* an end out of range
   <<2, 2, 0, 1, 2, 1, 2>>}           \* the same without weights

MCFiles == TwoNodes \cup ThreeNodes \cup Unweighted \cup LeastWeight \cup Corrupt
MCTerminals == {<<0, -1>>, <<1, 0>>, <<1, 1>>, <<0, 2>>}

===============================================================================
