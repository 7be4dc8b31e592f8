--------------------------- MODULE PushRelabelHighest --------------------------
(***************************************************************************)
(* push_relabel_highest.h, the comparison solver that                      *)
(* pushRelabelHighestMain.cpp runs: the constructor with init() and        *)
(* find_max_flow().  An action is one vertex labelled by the distance      *)
(* search, one selection, one push or one relabel.                         *)
(*                                                                         *)
(* A slot a of the network is an edge of the code's adjacency list of      *)
(* src[a], rev[a] the slot made with it for the same pair of arcs.  The    *)
(* lists of vertices are sets: which vertex of a list is popped first is   *)
(* left open.                                                              *)
(***************************************************************************)
EXTENDS SolverCalls

VARIABLES
  g,                  \* the graph that the constructor takes, source and sink
  pc,
  r_capacity,         \* of a slot
  reverse_r_capacity, \* of a slot: its own copy of the capacity of its mate
  excess, label,      \* of a vertex
  active_vertices, inactive_vertices,  \* of a label
  highest_active, highest_vertex,      \* no active vertex, no vertex is listed above
  relabel_progress,   \* work since the last global relabelling
  distance_q, front,  \* pairs of a vertex and its distance; how many have been popped
  node, level, edge   \* the vertex at hand, its label, the next of its slots to look at

vars == <<g, pc, r_capacity, reverse_r_capacity, excess, label, active_vertices,
          inactive_vertices, highest_active, highest_vertex, relabel_progress,
          distance_q, front, node, level, edge>>

network == <<r_capacity, reverse_r_capacity, excess>>
lists   == <<active_vertices, inactive_vertices, highest_active, highest_vertex>>
queue   == <<distance_q, front>>
place   == <<node, level, edge>>

\* addArc() merges arcs: no two slots lead from one node to another, except the two of
\* a loop.
IsMerged(c) ==
  \A a, b \in Edges(c) :
     c.src[a] = c.src[b] /\ c.dst[a] = c.dst[b] => b \in {a, c.rev[a]}

\* addArc() finds a loop again under its forward key: the slot build() appends second
\* has no capacity.
LoopsAreForward(c) ==
  \A a \in Edges(c) : c.src[a] = c.dst[a] /\ c.rev[a] < a => c.capacity[a] = 0

ASSUME MergedAssumption == \A c \in Cases : IsMerged(c) /\ LoopsAreForward(c)

ALPHA == 6
BETA  == 12

Greater(a, b) == IF a >= b THEN a ELSE b

\* The label of vertices that cannot reach the sink.
NotReached == g.nodeCount

\* The slot that reverse_edge_index leads to.  build() reads the lengths of both lists
\* before it grows them, so both slots of a loop lead to the first one.
Mate(a) == IF g.src[a] = g.dst[a] THEN Lesser(a, g.rev[a]) ELSE g.rev[a]

Init ==
  /\ g \in Cases
  /\ pc = "init"
  /\ r_capacity = g.capacity
  /\ reverse_r_capacity = [a \in Edges(g) |-> g.capacity[Mate(a)]]
  /\ excess = [x \in Nodes(g) |-> 0]
  /\ label = [x \in Nodes(g) |-> 0]
  /\ active_vertices = [l \in 0 .. NotReached |-> {}]
  /\ inactive_vertices = [l \in 0 .. NotReached |-> {}]
  /\ highest_active = 0 /\ highest_vertex = 0
  /\ relabel_progress = 0
  /\ distance_q = <<>> /\ front = 0
  /\ node = 0 /\ level = 0 /\ edge = 0

\* What init() leaves as the excess of x: it assigns, so the last of several edges of
\* the source to one vertex would decide.
InitialExcess(x) ==
  LET into == {a \in Out(g, g.source) : g.dst[a] = x}
  IN  IF into = {} THEN excess[x] ELSE r_capacity[Max(into)]

\* init(): every edge of the source is filled.  A loop that is its own mate has been
\* doubled when it is taken off the copy, to which it was added once.
Saturate ==
  /\ pc = "init"
  /\ r_capacity' = [a \in Edges(g) |->
       IF g.src[a] = g.source THEN 0
       ELSE IF g.dst[a] = g.source THEN r_capacity[a] + r_capacity[Mate(a)]
       ELSE r_capacity[a]]
  /\ reverse_r_capacity' = [a \in Edges(g) |->
       IF g.src[a] = g.source
       THEN IF Mate(a) = a THEN reverse_r_capacity[a] - r_capacity[a]
            ELSE reverse_r_capacity[a] + r_capacity[a]
       ELSE IF g.dst[a] = g.source THEN reverse_r_capacity[a] - r_capacity[Mate(a)]
       ELSE reverse_r_capacity[a]]
  /\ excess' = [x \in Nodes(g) |-> InitialExcess(x)]
  /\ highest_vertex' = 1
  /\ pc' = "relabel"
  /\ UNCHANGED <<g, label, active_vertices, inactive_vertices, highest_active,
                 relabel_progress, queue, place>>

-------------------------------------------------------------------------------
(* global_relabel(): distances to the sink, found backwards from it.       *)

\* Only the lists up to _highest_vertex are emptied.
StartGlobalRelabel ==
  /\ pc = "relabel"
  /\ label' = [x \in Nodes(g) |-> IF x = g.sink THEN 0 ELSE NotReached]
  /\ distance_q' = << <<g.sink, 0>> >> /\ front' = 0
  /\ active_vertices' = [l \in 0 .. NotReached |->
                           IF l <= highest_vertex THEN {} ELSE active_vertices[l]]
  /\ inactive_vertices' = [l \in 0 .. NotReached |->
                             IF l <= highest_vertex THEN {} ELSE inactive_vertices[l]]
  /\ highest_active' = 0 /\ highest_vertex' = 0
  /\ pc' = "distances"
  /\ UNCHANGED <<g, network, relabel_progress, place>>

PopVertex ==
  /\ pc = "distances"
  /\ front < Len(distance_q)
  /\ node' = distance_q[front + 1][1]
  /\ level' = distance_q[front + 1][2]
  /\ highest_vertex' = Greater(highest_vertex, level')
  /\ edge' = g.ver[node']
  /\ front' = front + 1
  /\ pc' = "visit"
  /\ UNCHANGED <<g, network, label, active_vertices, inactive_vertices, highest_active,
                 relabel_progress, distance_q>>

\* Slots of the vertex whose mates lead to it from vertices not reached yet.
Unreached ==
  {a \in Out(g, node) : edge <= a /\ reverse_r_capacity[a] > 0 /\ label[g.dst[a]] = NotReached}

\* The next of them: the vertex is labelled, queued and listed.
Reach ==
  /\ pc = "visit"
  /\ Unreached # {}
  /\ LET a == Min(Unreached)
         x == g.dst[a]
         d == level + 1
     IN  /\ label' = [label EXCEPT ![x] = d]
         /\ distance_q' = Append(distance_q, <<x, d>>)
         /\ IF excess[x] > 0
            THEN /\ highest_active' = Greater(highest_active, d)
                 /\ active_vertices' = [active_vertices EXCEPT ![d] = @ \cup {x}]
                 /\ UNCHANGED inactive_vertices
            ELSE /\ inactive_vertices' = [inactive_vertices EXCEPT ![d] = @ \cup {x}]
                 /\ UNCHANGED <<highest_active, active_vertices>>
         /\ edge' = a + 1
  /\ UNCHANGED <<g, pc, network, highest_vertex, relabel_progress, front, node, level>>

VisitEnd ==
  /\ pc = "visit"
  /\ Unreached = {}
  /\ pc' = "distances"
  /\ UNCHANGED <<g, network, label, lists, relabel_progress, queue, place>>

DistancesEnd ==
  /\ pc = "distances"
  /\ front = Len(distance_q)
  /\ pc' = "select"
  /\ UNCHANGED <<g, network, label, lists, relabel_progress, queue, place>>

-------------------------------------------------------------------------------
(* find_max_flow_inner(), get_active_vertex(), discharge().                *)

ActiveLabels == {l \in 0 .. highest_active : active_vertices[l] # {}}

GetActiveVertex ==
  /\ pc = "select"
  /\ ActiveLabels # {}
  /\ LET l == Max(ActiveLabels)
     IN  /\ node' \in active_vertices[l]
         /\ active_vertices' = [active_vertices EXCEPT ![l] = @ \ {node'}]
         /\ highest_active' = l
         /\ level' = l
         /\ edge' = g.ver[node']
  /\ pc' = "discharge"
  /\ UNCHANGED <<g, network, label, inactive_vertices, highest_vertex, relabel_progress,
                 queue>>

NoActiveVertex ==
  /\ pc = "select"
  /\ ActiveLabels = {}
  /\ pc' = "done"
  /\ UNCHANGED <<g, network, label, lists, relabel_progress, queue, place>>

\* Slots of the vertex that the rest of the loop of push() would push along.
Admissible ==
  {a \in Out(g, node) : /\ edge <= a
                        /\ r_capacity[a] > 0
                        /\ label[g.dst[a]] = level - 1}

FlowAlong(a) == Lesser(excess[node], r_capacity[a])

\* The capacities after a push along slot a, and the copies of them at the mates.
Moved(capacity, a, flow) == [capacity EXCEPT ![a] = @ - flow, ![Mate(a)] = @ + flow]

MovedBack(copy, a, flow) == [copy EXCEPT ![a] = @ + flow, ![Mate(a)] = @ - flow]

\* One push along the next admissible edge.  A vertex without excess becomes active,
\* the discharged vertex inactive when it has nothing left.
Push ==
  /\ pc = "discharge"
  /\ Admissible # {}
  /\ LET a    == Min(Admissible)
         to   == g.dst[a]
         flow == FlowAlong(a)
         wakes  == excess[to] = 0 /\ to # g.sink
         spends == excess[node] = flow
     IN  /\ excess' = [excess EXCEPT ![node] = @ - flow, ![to] = @ + flow]
         /\ r_capacity' = Moved(r_capacity, a, flow)
         /\ reverse_r_capacity' = MovedBack(reverse_r_capacity, a, flow)
         /\ active_vertices' =
              IF wakes THEN [active_vertices EXCEPT ![level - 1] = @ \cup {to}]
              ELSE active_vertices
         /\ inactive_vertices' =
              [inactive_vertices EXCEPT
                 ![level - 1] = IF wakes THEN @ \ {to} ELSE @,
                 ![level] = IF spends THEN @ \cup {node} ELSE @]
         /\ edge' = a + 1
         /\ pc' = IF spends THEN "check" ELSE "discharge"
  /\ UNCHANGED <<g, label, highest_active, highest_vertex, relabel_progress, queue,
                 node, level>>

NewLabel_NotAbove ==
  Min({NotReached - 1} \cup {label[g.dst[a]] : a \in {b \in Out(g, node) : r_capacity[b] # 0}})

\* calculate_new_label()
NewLabel ==
  1 + Min({NotReached - 1} \cup {label[g.dst[a]] : a \in {b \in Out(g, node) : r_capacity[b] # 0}})

\* _relabel_threshold; GLOBAL_RELABEL_FREQ is 0.5.
WornAt == 2 * (g.nodeCount * ALPHA + g.edgeCount \div 2)

\* _relabel_progress after a relabel.  It is only compared with the threshold and stops
\* counting there.
Progress == Lesser(WornAt, relabel_progress + BETA + Cardinality(Out(g, node)))

HighestVertex_Kept == highest_vertex

\* _highest_vertex after the new label is taken into account.
HighestVertex ==
  IF NewLabel # NotReached THEN Greater(highest_vertex, NewLabel) ELSE highest_vertex

IsGap_ActiveOnly == active_vertices[level] = {}

IsGap == active_vertices[level] = {} /\ inactive_vertices[level] = {}

Relabel ==
  /\ pc = "discharge"
  /\ Admissible = {}
  /\ ~IsGap
  /\ label' = [label EXCEPT ![node] = NewLabel]
  /\ highest_vertex' = HighestVertex
  /\ highest_active' = IF NewLabel # NotReached THEN NewLabel - 1 ELSE highest_active
  /\ relabel_progress' = Progress
  /\ level' = NewLabel
  /\ edge' = g.ver[node]
  /\ pc' = IF NewLabel = NotReached THEN "check" ELSE "discharge"
  /\ UNCHANGED <<g, network, active_vertices, inactive_vertices, queue, node>>

\* gap_relabel(): no vertex is left at the label, none above it reaches the sink.
GapRelabel ==
  /\ pc = "discharge"
  /\ Admissible = {}
  /\ IsGap
  /\ LET above == (level + 1) .. HighestVertex
         cut   == {node} \cup UNION {active_vertices[l] \cup inactive_vertices[l] : l \in above}
     IN  /\ label' = [x \in Nodes(g) |-> IF x \in cut THEN NotReached ELSE label[x]]
         /\ active_vertices' = [l \in 0 .. NotReached |->
                                  IF l \in above THEN {} ELSE active_vertices[l]]
         /\ inactive_vertices' = [l \in 0 .. NotReached |->
                                    IF l \in above THEN {} ELSE inactive_vertices[l]]
  /\ highest_vertex' = level - 1 /\ highest_active' = level - 1
  /\ relabel_progress' = Progress
  /\ pc' = "check"
  /\ UNCHANGED <<g, network, queue, place>>

IsWorn == relabel_progress >= WornAt

CheckProgress ==
  /\ pc = "check"
  /\ relabel_progress' = IF IsWorn THEN 0 ELSE relabel_progress
  /\ pc' = IF IsWorn THEN "relabel" ELSE "select"
  /\ UNCHANGED <<g, network, label, lists, queue, place>>

Next ==
  \/ Saturate
  \/ StartGlobalRelabel \/ PopVertex \/ Reach \/ VisitEnd \/ DistancesEnd
  \/ GetActiveVertex \/ NoActiveVertex
  \/ Push \/ Relabel \/ GapRelabel
  \/ CheckProgress

Spec == Init /\ [][Next]_vars

\* One thread runs the solver to its end.
FairSpec == Spec /\ WF_vars(Next)

-------------------------------------------------------------------------------
(* Properties.                                                             *)

TypeOK ==
  /\ g \in Cases
  /\ pc \in {"init", "relabel", "distances", "visit", "select", "discharge", "check", "done"}
  /\ r_capacity \in [Edges(g) -> Nat]
  /\ reverse_r_capacity \in [Edges(g) -> Nat]
  /\ excess \in [Nodes(g) -> Nat]
  /\ label \in [Nodes(g) -> 0 .. NotReached]
  /\ active_vertices \in [0 .. NotReached -> SUBSET Nodes(g)]
  /\ inactive_vertices \in [0 .. NotReached -> SUBSET Nodes(g)]
  /\ highest_active \in 0 .. NotReached
  /\ highest_vertex \in 0 .. NotReached
  /\ relabel_progress \in Nat
  /\ distance_q \in Seq(Nodes(g) \X Nat)
  /\ front \in 0 .. Len(distance_q)
  /\ Len(distance_q) <= g.nodeCount
  /\ node \in Nodes(g)
  /\ level \in 0 .. NotReached
  /\ edge \in 0 .. g.edgeCount

\* A slot that leads from the source back to it
IsSourceLoop(a) == g.src[a] = g.source /\ g.dst[a] = g.source

\* A push updates four fields of two edges.  The distance search reads the copies, so
\* they must agree with the capacities they stand for, or vertices that can reach the
\* sink are written off.  They do agree wherever water can be sent; init() leaves the
\* loop of a source with a copy of what it has emptied.
CopiesAgree ==
  \A a \in Edges(g) : IsSourceLoop(a) \/ reverse_r_capacity[a] = r_capacity[Mate(a)]

\* What has been taken off the capacity of slot a.
Pushed(a) == g.capacity[a] - r_capacity[a]

\* No water is made or lost: a pair of edges keeps its capacity, unless it is a loop of
\* the source, and every vertex but the source has as much excess as came in, none of
\* it negative.
ExcessIsInflow ==
  /\ \A a \in Edges(g) :
        /\ IsSourceLoop(a) \/ Pushed(g.rev[a]) = -Pushed(a)
        /\ r_capacity[a] >= 0
  /\ \A x \in Nodes(g) \ {g.source} :
        /\ excess[x] >= 0
        /\ excess[x] = -SumOver([a \in Edges(g) |-> Pushed(a)], Out(g, x))

IsSettled == pc \in {"select", "discharge", "check", "done"}

\* The edges of the source are filled once and for all: no vertex is ever labelled so
\* high that it may push back to it.
SourceIsDrained ==
  IF pc = "init"
  THEN /\ r_capacity = g.capacity
       /\ reverse_r_capacity = [a \in Edges(g) |-> g.capacity[Mate(a)]]
  ELSE \A a \in Out(g, g.source) : r_capacity[a] = 0

\* No residual edge leads down by more than one label, the reason why a gap in the
\* labels, and label n, mean that the sink is out of reach.
LabelsAreValid ==
  /\ pc \notin {"init", "relabel"} =>
       /\ label[g.source] = NotReached
       /\ \A x \in Nodes(g) : label[x] = 0 <=> x = g.sink
  /\ IsSettled =>
       \A a \in Edges(g) : r_capacity[a] > 0 => label[g.src[a]] <= label[g.dst[a]] + 1

\* The vertex that discharge() holds; it is in no list.
Held == IF pc = "discharge" THEN {node} ELSE {}

\* The vertices that have to be in one of the lists of label l
At(l) == {x \in Nodes(g) \ {g.source, g.sink} : label[x] = l /\ l # NotReached} \ Held

\* Each vertex that may reach the sink is in the list its label and its excess call
\* for, nothing else is listed, and the two bounds that selection and relabelling rely
\* on leave nothing out: remove() and pop() find their vertex, a gap is a gap, and the
\* next global relabelling empties all lists.
ListsAreTrue ==
  /\ pc \notin {"init", "relabel"} =>
       \A l \in 0 .. NotReached :
          /\ active_vertices[l] = {x \in At(l) : excess[x] > 0}
          /\ inactive_vertices[l] = {x \in At(l) : excess[x] = 0}
          /\ active_vertices[l] # {} => l <= highest_active
  /\ IsSettled => \A l \in 0 .. NotReached : At(l) # {} => l <= highest_vertex
  /\ pc \in {"init", "relabel"} =>
       \A l \in 0 .. NotReached :
          active_vertices[l] \cup inactive_vertices[l] # {} =>
            pc = "relabel" /\ l <= highest_vertex

Queued(i) == distance_q[i][1]

\* The distance search: the queue holds the labelled vertices, each once, by rising
\* labels of which there are two at most; no label is left out; and from a vertex whose
\* slot has been looked at the sink is at most one step further.
SearchInv ==
  pc \in {"distances", "visit"} =>
    LET labelled == {x \in Nodes(g) : label[x] # NotReached}
        I        == 1 .. Len(distance_q)
    IN  /\ {Queued(i) : i \in I} = labelled
        /\ \A i \in I : distance_q[i][2] = label[Queued(i)]
        /\ \A i, j \in I : /\ i < j => label[Queued(i)] <= label[Queued(j)]
                           /\ Queued(i) = Queued(j) => i = j
                           /\ front \in {0, i} => label[Queued(j)] <= label[Queued(i)] + 1
        /\ \A l \in 0 .. (NotReached - 1) :
             (\E x \in labelled : l <= label[x]) => \E x \in labelled : label[x] = l
        /\ \A i \in 1 .. front : label[Queued(i)] <= highest_vertex
        /\ pc = "visit" => front > 0 /\ node = Queued(front) /\ level = label[node]
        /\ \A i \in 1 .. front : \A a \in Out(g, Queued(i)) :
             reverse_r_capacity[a] > 0 /\ (pc = "visit" /\ i = front => a < edge) =>
               label[g.dst[a]] <= label[Queued(i)] + 1

\* discharge(): the vertex has something left, it may still reach the sink, and no slot
\* behind the current one may be pushed along.
DischargeInv ==
  pc = "discharge" =>
    /\ node \notin {g.source, g.sink} /\ excess[node] > 0
    /\ level = label[node] /\ level # NotReached
    /\ highest_active \in {level - 1, level} /\ level <= highest_vertex
    /\ \A a \in Out(g, node) :
         a < edge /\ r_capacity[a] > 0 => label[g.dst[a]] # level - 1

\* What holds between any two steps of the solver: the copies are true, no water is
\* lost, the labels bound the distance to the sink and the lists show every vertex.
PreflowInv ==
  /\ TypeOK
  /\ CopiesAgree
  /\ ExcessIsInflow
  /\ SourceIsDrained
  /\ LabelsAreValid
  /\ ListsAreTrue
  /\ SearchInv
  /\ DischargeInv

\* find_max_flow() returns the capacity of a minimum cut.
ResultIsMinCut == pc = "done" => excess[g.sink] = MinCut(g)

\* The solver returns.
Returns == <>(pc = "done")

===============================================================================
