----------------------------- MODULE BenchmarkChild ----------------------------
(***************************************************************************)
(* runProgram of the benchmark programs: a solver is run as a child        *)
(* process, its output is read from a pipe, and it is killed when its time *)
(* is up.  The three programs hold the same function, up to the            *)
(* environment of the child and the place where a full buffer is noticed.  *)
(*                                                                         *)
(* The pipe is a queue with its history: the child is going to write       *)
(* program.lines, has written the first `written' of them, and the parent  *)
(* has read the first `used' into result->output.  A line is the unit of   *)
(* all sizes.  Parent, child and clock take steps independently.           *)
(***************************************************************************)
EXTENDS Integers, Sequences

CONSTANTS
  OutputSize, \* sizeof(result->output); the last place is for the terminating 0
  PipeSize,   \* what the pipe holds
  Timeout,    \* timeoutSec
  Programs,   \* what a child may do
  IntMax      \* INT_MAX

Ends  == {"success", "failure", "signal", "never"}
Kinds == {"text", "flow", "ecl"}

ASSUME ChildAssumption ==
  /\ OutputSize \in Nat \ {0}
  /\ PipeSize \in Nat \ {0}
  /\ Timeout \in Nat
  /\ IntMax \in Nat
  /\ \A prog \in Programs :
       /\ prog.lines \in Seq([kind : Kinds, value : Int])
       /\ \A i \in 1 .. Len(prog.lines) :
            prog.lines[i].value >= IF prog.lines[i].kind = "ecl" THEN -(IntMax + 1) ELSE 0
       /\ prog.end \in Ends
       /\ prog.found \in Nat

VARIABLES
  pc,       \* where the parent is
  program,  \* what the child of this call does
  child,    \* the child as the kernel sees it
  status,   \* how the child has ended
  killed,   \* SIGKILL has been sent
  readers,  \* the processes that hold the read end of the pipe
  writers,  \* the processes that hold the write end
  written, used,
  clock,    \* nowMillis() - start
  ok, timedOut, flow \* RunResult

childVars  == <<program, child, status, killed>>
pipeVars   == <<readers, writers, written, used>>
resultVars == <<ok, timedOut, flow>>
callVars   == <<childVars, pipeVars, clock, resultVars>>

CallLabels == {"pipe", "fork", "close", "poll", "read", "wait", "elapsed", "kill", "reap",
               "drain", "finish"}

MaxUsed  == OutputSize - 1
Lines    == program.lines
IsAlive  == child \in {"forked", "running"}
HasData  == used < written

-------------------------------------------------------------------------------
(* What a child prints, and what the parent makes of it.                   *)

Words       == 2 * (IntMax + 1) \* 2^32
Text        == [kind |-> "text", value |-> 0]
FlowLine(f) == [kind |-> "flow", value |-> f]

\* ECL-MaxFlow prints an int, which has wrapped around.
EclLine(f)  == [kind |-> "ecl", value |-> ((f + IntMax + 1) % Words) - (IntMax + 1)]

\* A child that is the benchmark program itself: its flow stands between other
\* lines, or it ends with a message.
TidalChild(f) ==
  IF f < 0 THEN [lines |-> <<Text>>, end |-> "failure", found |-> 0]
           ELSE [lines |-> <<Text, FlowLine(f), Text>>, end |-> "success", found |-> f]

\* A child that ends well has printed the flow it found on one line, and on no other.
ASSUME ReportAssumption ==
  \A prog \in Programs : prog.end = "success" =>
    \E i \in 1 .. Len(prog.lines) :
      /\ prog.lines[i] \in {FlowLine(prog.found), EclLine(prog.found)}
      /\ \A k \in 1 .. Len(prog.lines) : prog.lines[k].kind # "text" => k = i

\* A child whose execv failed.
NoProgram == [lines |-> <<Text>>, end |-> "failure", found |-> 0]

\* parseEclMaxFlowLine
EclFlow(v) == IF v < 0 THEN v + Words ELSE v

ValueOf(line) == IF line.kind = "ecl" THEN EclFlow(line.value) ELSE line.value

\* parseRunOutput on the first n lines: the last line with a flow counts.
ParsedFlow(lines, n) ==
  LET found == {i \in 1 .. n : lines[i].kind # "text"}
      last  == {i \in found : \A k \in found : k <= i}
  IN  IF last = {} THEN 0 ELSE ValueOf(lines[CHOOSE i \in last : TRUE])

-------------------------------------------------------------------------------
(* The parent.                                                             *)

\* memset and pipe(), which may fail.
OpenPipe ==
  /\ pc = "pipe"
  /\ ok' = FALSE /\ timedOut' = FALSE /\ flow' = 0
  /\ killed' = FALSE /\ written' = 0 /\ used' = 0 /\ clock' = 0
  /\ \/ /\ readers' = {"parent"} /\ writers' = {"parent"}
        /\ pc' = "fork"
     \/ /\ pc' = "return"
        /\ UNCHANGED <<readers, writers>>
  /\ child' = "none" /\ status' = "none"
  /\ UNCHANGED program

\* fork(), which may fail; a child starts with both ends of the pipe.
Fork ==
  /\ pc = "fork"
  /\ \/ /\ child' = "forked"
        /\ readers' = {"parent", "child"} /\ writers' = {"parent", "child"}
        /\ pc' = "close"
     \/ /\ readers' = {} /\ writers' = {}
        /\ pc' = "return"
        /\ UNCHANGED child
  /\ UNCHANGED <<program, status, killed, written, used, clock, resultVars>>

CloseWriteEnd_Keeps == writers

CloseWriteEnd == writers \ {"parent"}

\* From here on the time of the child counts.
Start ==
  /\ pc = "close"
  /\ writers' = CloseWriteEnd
  /\ clock' = 0
  /\ pc' = "poll"
  /\ UNCHANGED <<childVars, readers, written, used, resultVars>>

\* poll() waits at most 50 ms: it returns for data, for the end of the child, or for nothing.
Poll ==
  /\ pc = "poll"
  /\ pc' = IF HasData THEN "read" ELSE "wait"
  /\ UNCHANGED callVars

\* No place is left for the terminating 0.
Filled_Overrun == IF written < OutputSize THEN written ELSE OutputSize

\* What one read() leaves in the buffer; with a full buffer it reads nothing.
Filled == IF written < MaxUsed THEN written ELSE MaxUsed

Read ==
  /\ pc = "read"
  /\ used' = Filled
  /\ pc' = "wait"
  /\ UNCHANGED <<childVars, readers, writers, written, clock, resultVars>>

\* waitpid(WNOHANG)
Wait ==
  /\ pc = "wait"
  /\ IF child = "zombie" THEN child' = "reaped" /\ pc' = "drain"
                         ELSE pc' = "elapsed" /\ UNCHANGED child
  /\ UNCHANGED <<program, status, killed, pipeVars, clock, resultVars>>

IsLate_Idle == clock > Timeout /\ ~HasData

IsLate == clock > Timeout

Elapsed ==
  /\ pc = "elapsed"
  /\ pc' = IF IsLate THEN "kill" ELSE "poll"
  /\ UNCHANGED callVars

\* The child may have ended since it was last looked for.
Kill ==
  /\ pc = "kill"
  /\ killed' = TRUE
  /\ pc' = "reap"
  /\ UNCHANGED <<program, child, status, pipeVars, clock, resultVars>>

Reap ==
  /\ pc = "reap"
  /\ child = "zombie"
  /\ child' = "reaped"
  /\ timedOut' = TRUE
  /\ pc' = "drain"
  /\ UNCHANGED <<program, status, killed, pipeVars, clock, ok, flow>>

\* The loop behind the wait stops when read() returns 0, which it does for a
\* full buffer and for an empty pipe that nobody can write to, or when the
\* buffer has become full.
DrainEnds == used' = MaxUsed \/ ~HasData

Drain ==
  /\ pc = "drain"
  /\ used = MaxUsed \/ HasData \/ writers = {}
  /\ used' = Filled
  /\ pc' = IF DrainEnds THEN "finish" ELSE "drain"
  /\ UNCHANGED <<childVars, readers, writers, written, clock, resultVars>>

IsAccepted_Raced == status = "success"

IsAccepted == ~timedOut /\ status = "success"

Finish ==
  /\ pc = "finish"
  /\ readers' = readers \ {"parent"}
  /\ ok' = IsAccepted
  /\ flow' = IF IsAccepted THEN ParsedFlow(Lines, used) ELSE 0
  /\ pc' = "return"
  /\ UNCHANGED <<childVars, writers, written, used, clock, timedOut>>

Parent ==
  \/ OpenPipe \/ Fork \/ Start \/ Poll \/ Read \/ Wait \/ Elapsed
  \/ Kill \/ Reap \/ Drain \/ Finish

-------------------------------------------------------------------------------
(* The child, the kernel and the clock.                                    *)

\* The child closes its read end, moves its write end to stdout and stderr, and execs.
Exec ==
  /\ child = "forked"
  /\ child' = "running"
  /\ readers' = readers \ {"child"}
  /\ UNCHANGED <<pc, program, status, killed, writers, written, used, clock, resultVars>>

\* A full pipe blocks the child.
Write ==
  /\ child = "running"
  /\ written < Len(Lines)
  /\ written - used < PipeSize
  /\ written' = written + 1
  /\ UNCHANGED <<pc, childVars, readers, writers, used, clock, resultVars>>

Gone(how) ==
  /\ child' = "zombie"
  /\ status' = how
  /\ readers' = readers \ {"child"}
  /\ writers' = writers \ {"child"}
  /\ UNCHANGED <<pc, program, killed, written, used, clock, resultVars>>

End ==
  /\ child = "running"
  /\ written = Len(Lines)
  /\ program.end # "never"
  /\ Gone(program.end)

\* The signal reaches the child some time after kill().
Die ==
  /\ killed
  /\ IsAlive
  /\ Gone("signal")

\* Time after the limit makes no difference any more.
Tick ==
  /\ pc \in CallLabels \ {"pipe", "fork", "close"}
  /\ clock <= Timeout
  /\ clock' = clock + 1
  /\ UNCHANGED <<pc, childVars, pipeVars, resultVars>>

Child == Exec \/ Write \/ End

===============================================================================
