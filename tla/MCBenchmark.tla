------------------------------- MODULE MCBenchmark -----------------------------
(***************************************************************************)
(* Two cases, two configurations of two runs each.  The buffer of the      *)
(* parent holds three lines, the pipe one, and an int goes up to 1.        *)
(***************************************************************************)
EXTENDS Benchmark

Printing(lines, end, found) == [lines |-> lines, end |-> end, found |-> found]

MCPrograms ==
  {NoProgram, TidalChild(-1), TidalChild(0), TidalChild(1),
   Printing(<<EclLine(3)>>, "success", 3),                            \* printed as -1
   Printing(<<Text>>, "never", 0),                                    \* hangs
   Printing(<<FlowLine(1)>>, "signal", 1),                            \* crashes after its result
   Printing(<<Text, Text, Text, FlowLine(1)>>, "success", 1),         \* accepted with flow 0
   Printing(<<Text, Text, Text, Text, FlowLine(1)>>, "success", 1)}   \* blocks on the full pipe

===============================================================================
