------------------------------- MODULE SolverCalls ------------------------------
(***************************************************************************)
(* The calls of a solver.  flow[] is a variable of the modules that extend *)
(* this one.                                                               *)
(***************************************************************************)
EXTENDS FlowNetwork

CONSTANTS
  Cases,      \* the graphs, sources and sinks a solver is called with
  LLongMax    \* LLONG_MAX, the high tide the source starts with

ASSUME WidthsAssumption == LLongMax \in Nat /\ IntMax <= LLongMax

ASSUME CasesAssumption == \A c \in Cases : IsCase(c)

===============================================================================
