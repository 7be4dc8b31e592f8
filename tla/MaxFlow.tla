-------------------------------- MODULE MaxFlow --------------------------------
(***************************************************************************)
(* What a tidalFlow* function promises its caller: it replaces the flow by *)
(* flows of larger and larger value and returns only when no residual path *)
(* from the source to the sink is left, with the value it has reached.     *)
(* It may also give up before it starts, when an allocation fails, and     *)
(* then returns -1 with the flow untouched.                                *)
(*                                                                         *)
(* The solver modules are shown to implement this specification: one tide  *)
(* cycle that delivers something is one Augment.                           *)
(***************************************************************************)
EXTENDS SolverCalls

VARIABLES
  g,        \* the case being solved
  flow,     \* flow[]
  value,    \* the value returned so far
  status    \* "running", "done" or "failed"

vars == <<g, flow, value, status>>

Init ==
  /\ g \in Cases
  /\ flow = [a \in Edges(g) |-> 0]
  /\ value = 0
  /\ status = "running"

\* The flow is replaced by another flow of the network, of larger value.
Augment ==
  /\ status = "running"
  /\ value' > value
  /\ IsFlow(g, flow')
  /\ FlowValue(g, flow') = value'
  /\ UNCHANGED <<g, status>>

Finish ==
  /\ status = "running"
  /\ status' = "done"
  /\ ~HasAugmentingPath(g, flow)
  /\ UNCHANGED <<g, flow, value>>

Fail ==
  /\ status = "running"
  /\ value = 0
  /\ status' = "failed"
  /\ value' = -1
  /\ UNCHANGED <<g, flow>>

Next == Augment \/ Finish \/ Fail

Spec == Init /\ [][Next]_vars

===============================================================================
