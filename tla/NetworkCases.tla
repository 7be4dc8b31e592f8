------------------------------ MODULE NetworkCases -----------------------------
(***************************************************************************)
(* Small networks for the model checker, laid out as graph.c lays them     *)
(* out: a list of links, each of them two slots paired by rev[], sorted by *)
(* source node into CSR form.  In a residual build a link is an edge of    *)
(* the file and the slot added for it; in a strict build both of its slots *)
(* are edges of the file, and parallel edges may be paired across links.   *)
(***************************************************************************)
EXTENDS Integers, Sequences, FiniteSetsExt

Link(from, to, cap, back) == [from |-> from, to |-> to, cap |-> cap, back |-> back]

\* The slots in the order the links create them, forward slots odd.
LOCAL Unsorted(links) ==
  [k \in 1 .. 2 * Len(links) |->
     LET link == links[(k + 1) \div 2]
     IN  IF k % 2 = 1
         THEN [src |-> link.from, dst |-> link.to, cap |-> link.cap]
         ELSE [src |-> link.to, dst |-> link.from, cap |-> link.back]]

Network(n, links, source, sink) ==
  LET slots    == Unsorted(links)
      m        == Len(slots)
      place    == [k \in 1 .. m |->
                     Cardinality({j \in 1 .. m :
                        \/ slots[j].src < slots[k].src
                        \/ slots[j].src = slots[k].src /\ j < k})]
      at       == [a \in 0 .. (m - 1) |-> CHOOSE k \in 1 .. m : place[k] = a]
      twin(k)  == IF k % 2 = 1 THEN k + 1 ELSE k - 1
  IN  [nodeCount |-> n,
       edgeCount |-> m,
       ver       |-> [x \in 0 .. n |-> Cardinality({k \in 1 .. m : slots[k].src < x})],
       src       |-> [a \in 0 .. (m - 1) |-> slots[at[a]].src],
       dst       |-> [a \in 0 .. (m - 1) |-> slots[at[a]].dst],
       capacity  |-> [a \in 0 .. (m - 1) |-> slots[at[a]].cap],
       rev       |-> [a \in 0 .. (m - 1) |-> place[twin(at[a])]],
       source    |-> source,
       sink      |-> sink]

\* Every slot, the lowest first, gets the highest free slot of the opposite direction.
LOCAL LastFree(c) ==
  LET free(rev, a) == {b \in DOMAIN rev \ {a} : /\ rev[b] = -1
                                                /\ c.src[b] = c.dst[a]
                                                /\ c.dst[b] = c.src[a]}
      pair(rev, a) == LET b == Max(free(rev, a))
                      IN  [rev EXCEPT ![a] = b, ![b] = a]
      after[k \in 0 .. c.edgeCount] ==
        IF k = 0
        THEN [a \in DOMAIN c.src |-> -1]
        ELSE LET rev == after[k - 1]
             IN  IF rev[k - 1] = -1 THEN pair(rev, k - 1) ELSE rev
  IN  after[c.edgeCount]

StrictNetwork(n, links, source, sink) ==
  LET c == Network(n, links, source, sink)
  IN  [c EXCEPT !.rev = LastFree(c)]

\* Four nodes, a diamond with a crossing edge: long augmenting paths undo
\* flow of shorter ones.
Diamonds(Caps) ==
  {Network(4, <<Link(0, 1, c[1], 0), Link(0, 2, c[2], 0), Link(1, 2, c[3], 0),
                Link(1, 3, c[4], 0), Link(2, 3, c[5], 0)>>, 0, 3) :
     c \in [1 .. 5 -> Caps]}

\* Six nodes; the first cycle gives the only slot from node 2 to node 4, so the
\* other path through node 4 has to undo it in a later phase.
Detours(Caps) ==
  {Network(6, <<Link(0, 1, c[1], 0), Link(0, 2, c[2], 0), Link(1, 4, c[1], 0),
                Link(2, 3, 1, 0), Link(2, 4, c[3], 0),
                Link(3, 5, c[2], 0), Link(4, 5, c[3], 0)>>, 0, 5) :
     c \in [1 .. 3 -> Caps]}

\* Seven nodes; two slots from node 2 promise the same water to node 4, the high
\* tide at node 4 is too high and one cycle does not block the level graph.
Overpromises(Caps) ==
  {Network(7, <<Link(0, 1, c[1], 0), Link(0, 2, c[2], 0), Link(1, 3, c[1], 0),
                Link(2, 4, 1, 0), Link(2, 4, c[2], 0), Link(3, 5, 1, 0),
                Link(4, 5, 2, 0), Link(5, 6, c[3], 0)>>, 0, 6) :
     c \in [1 .. 3 -> Caps]}

\* Both directions carry capacity, one link is doubled, one is a self-loop, node 3
\* is a dead end and slots enter the source and leave the sink.
Streets(Caps) ==
  {StrictNetwork(5, <<Link(0, 1, c[1], c[2]), Link(1, 2, c[3], 1), Link(1, 2, c[2], c[1]),
                      Link(1, 3, 2, 0), Link(2, 4, c[1], c[3]), Link(2, 2, 1, 0),
                      Link(4, 1, 1, c[3])>>, 0, 4) :
     c \in [1 .. 3 -> Caps]}

\* Six nodes; the edges 1-3, 1-4 and 2-3 of the middle level share a tail and a
\* head, so workers on them meet at both of their compare-and-swaps.
Contended(Caps) ==
  {Network(6, <<Link(0, 1, c[1], 0), Link(0, 2, c[2], 0), Link(1, 3, c[3], 0),
                Link(1, 4, c[1], 0), Link(2, 3, c[2], 0), Link(3, 5, c[3], 0),
                Link(4, 5, c[2], 0)>>, 0, 5) :
     c \in [1 .. 3 -> Caps]}

\* Two pairs of parallel edges in a row.
Parallel(Caps) ==
  {Network(3, <<Link(0, 1, c[1], 0), Link(0, 1, c[2], 0),
                Link(1, 2, c[2], 0), Link(1, 2, c[3], 0)>>, 0, 2) :
     c \in [1 .. 3 -> Caps]}

\* Seven nodes; three nodes of one level lead to the same two nodes of the next, one
\* edge joins two nodes of a level and one runs back.
Fan(Caps) ==
  {Network(7, <<Link(0, 1, 1, 0), Link(0, 2, 1, 0), Link(0, 3, c[1], 0), Link(1, 4, 1, 0),
                Link(2, 1, 1, 0), Link(2, 4, 1, 0), Link(2, 5, c[2], 0), Link(3, 5, 1, 0),
                Link(4, 0, 1, 0), Link(5, 6, c[3], 0)>>, 0, 6) :
     c \in [1 .. 3 -> Caps]}

\* Six nodes; the first level has four nodes, two of which lead to the sink.
Wide ==
  {Network(6, <<Link(0, 1, 1, 0), Link(0, 2, 1, 0), Link(0, 3, 1, 0), Link(0, 4, 1, 0),
                Link(1, 5, 1, 0), Link(4, 5, 1, 0)>>, 0, 5)}

\* Arcs merged into pairs that carry capacity both ways, loops at the source, the sink
\* and between them, a dead end and slots into the source and out of the sink.
Merged(Caps) ==
  {Network(5, <<Link(0, 0, c[1], 0), Link(0, 1, c[1], c[2]), Link(0, 2, c[2], 0),
                Link(1, 2, c[3], c[1]), Link(1, 3, 2, 0), Link(2, 4, c[1], c[3]),
                Link(2, 2, 1, 0), Link(4, 1, 1, c[3]), Link(4, 4, c[3], 0)>>, 0, 4) :
     c \in [1 .. 3 -> Caps]}

\* Two lakes of two nodes each that drain into a chain, whose other nodes occupy the
\* labels above: water that does not fit down the chain is pushed back and forth in
\* the lakes, one label higher each time.
Lakes(Caps) ==
  {Network(13, <<Link(0, 1, c[1], 0), Link(0, 3, c[2], 0), Link(1, 2, 3, 3), Link(3, 4, 3, 3),
                 Link(1, 5, 1, 0), Link(3, 5, 2, 0), Link(5, 12, 2, 0), Link(6, 5, 1, 0),
                 Link(7, 6, 1, 0), Link(8, 7, 1, 0), Link(9, 8, 1, 0), Link(10, 9, 1, 0),
                 Link(11, 10, 1, 0)>>, 0, 12) :
     c \in [1 .. 2 -> Caps]}

===============================================================================
