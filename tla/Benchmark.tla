-------------------------------- MODULE Benchmark ------------------------------
(***************************************************************************)
(* runBenchmark: every case is given to every solver, several times, each  *)
(* time through a call of runProgram (BenchmarkChild); the first flow that *)
(* comes back for a case is what all others are compared with.             *)
(*                                                                         *)
(* A configuration is what one row of the summary stands for: a solver of  *)
(* the sequential program, a solver with a number of threads or a block    *)
(* size in the other two, whose two loops visit them one after another.    *)
(***************************************************************************)
EXTENDS BenchmarkChild, FiniteSets

CONSTANTS
  NumCases,   \* benchmark cases
  NumConfigs, \* configurations of a case
  Runs        \* runs of a configuration

ASSUME DriverAssumption ==
  /\ NumCases \in Nat
  /\ NumConfigs \in Nat
  /\ Runs \in Nat \ {0}

VARIABLES
  rawCsv,       \* print every run instead of a summary
  case, config, run,
  expectedFlow, \* the first flow of this case, or -1
  okRuns, solverFailed, solverFlow, solverStatus, \* of this configuration
  failures,
  row,          \* the row of the summary that was printed last
  exitCode

\* History: results of the runs of this configuration, all flows of this case,
\* and whether everything went well so far.
VARIABLES log, flows, clean

driverVars  == <<rawCsv, case, config, run, expectedFlow, okRuns, solverFailed, solverFlow,
                 solverStatus, failures, row, exitCode>>
historyVars == <<log, flows, clean>>
vars        == <<pc, callVars, driverVars, historyVars>>

Statuses == {"ok", "timeout", "error", "flow-mismatch", "partial"}

NoRow == [status |-> "none", okRuns |-> 0, flow |-> -1, consistent |-> FALSE]

Init ==
  /\ pc = "case"
  /\ program \in Programs
  /\ child = "none" /\ status = "none" /\ killed = FALSE
  /\ readers = {} /\ writers = {} /\ written = 0 /\ used = 0
  /\ clock = 0
  /\ ok = FALSE /\ timedOut = FALSE /\ flow = 0
  /\ rawCsv \in BOOLEAN
  /\ case = 1 /\ config = 1 /\ run = 1
  /\ expectedFlow = -1
  /\ okRuns = 0 /\ solverFailed = FALSE /\ solverFlow = -1 /\ solverStatus = "ok"
  /\ failures = 0
  /\ row = NoRow
  /\ exitCode = -1
  /\ log = <<>> /\ flows = {} /\ clean = TRUE

-------------------------------------------------------------------------------
(* The loop over the cases.                                                *)

NoExpectedFlow_Zero == 0

NoExpectedFlow == -1

\* prepareCase accepts the case, or the case is left out.
StartCase ==
  /\ pc = "case"
  /\ case <= NumCases
  /\ \/ /\ expectedFlow' = NoExpectedFlow
        /\ config' = 1
        /\ flows' = {}
        /\ pc' = "config"
        /\ UNCHANGED <<case, failures, clean>>
     \/ /\ failures' = failures + 1
        /\ clean' = FALSE
        /\ case' = case + 1
        /\ UNCHANGED <<pc, expectedFlow, config, flows>>
  /\ UNCHANGED <<callVars, rawCsv, run, okRuns, solverFailed, solverFlow, solverStatus, row,
                 exitCode, log>>

Exit(code) ==
  /\ exitCode' = code
  /\ pc' = "done"
  /\ UNCHANGED <<callVars, rawCsv, case, config, run, expectedFlow, okRuns, solverFailed,
                 solverFlow, solverStatus, failures, row, historyVars>>

LastCase ==
  /\ pc = "case"
  /\ case > NumCases
  /\ Exit(IF failures # 0 THEN 1 ELSE 0)

\* calloc of the timing buffer may fail: the program gives up.
StartConfig ==
  /\ pc = "config"
  /\ config <= NumConfigs
  /\ \/ /\ okRuns' = 0 /\ solverFailed' = FALSE /\ solverFlow' = -1 /\ solverStatus' = "ok"
        /\ run' = 1
        /\ log' = <<>>
        /\ pc' = "run"
        /\ UNCHANGED <<callVars, rawCsv, case, config, expectedFlow, failures, row, exitCode,
                       flows, clean>>
     \/ Exit(1)

LastConfig ==
  /\ pc = "config"
  /\ config > NumConfigs
  /\ case' = case + 1
  /\ pc' = "case"
  /\ UNCHANGED <<callVars, rawCsv, config, run, expectedFlow, okRuns, solverFailed, solverFlow,
                 solverStatus, failures, row, exitCode, historyVars>>

\* A solver may do something else in every run.
Launch ==
  /\ pc = "run"
  /\ run <= Runs
  /\ program' \in Programs
  /\ pc' = "pipe"
  /\ UNCHANGED <<child, status, killed, pipeVars, clock, resultVars, driverVars, historyVars>>

RunStatus_Last ==
  IF ~ok THEN IF timedOut THEN "timeout" ELSE "error"
  ELSE IF solverFlow >= 0 /\ flow # solverFlow THEN "flow-mismatch" ELSE "ok"

RunStatus ==
  IF ~ok THEN IF timedOut THEN "timeout" ELSE "error"
  ELSE IF expectedFlow >= 0 /\ flow # expectedFlow THEN "flow-mismatch" ELSE "ok"

\* What is kept of the result of a run.
Judge ==
  /\ pc = "return"
  /\ expectedFlow' = IF ok /\ expectedFlow < 0 THEN flow ELSE expectedFlow
  /\ IF RunStatus = "ok"
     THEN /\ solverFlow' = IF solverFlow < 0 THEN flow ELSE solverFlow
          /\ okRuns' = okRuns + 1
          /\ UNCHANGED <<solverStatus, solverFailed, failures>>
     ELSE /\ solverStatus' = RunStatus
          /\ solverFailed' = TRUE
          /\ failures' = failures + 1
          /\ UNCHANGED <<solverFlow, okRuns>>
  /\ run' = run + 1
  /\ pc' = "run"
  /\ log' = Append(log, [ok |-> ok, timedOut |-> timedOut, flow |-> flow])
  /\ flows' = IF ok THEN flows \cup {flow} ELSE flows
  /\ clean' = (clean /\ ok /\ flows \subseteq {flow})
  /\ UNCHANGED <<callVars, rawCsv, case, config, row, exitCode>>

FlowConsistent == okRuns > 0 /\ expectedFlow >= 0 /\ solverFlow = expectedFlow

\* The row of a configuration; a raw list of runs has no such rows.
Summarise ==
  /\ pc = "run"
  /\ run > Runs
  /\ IF rawCsv
     THEN UNCHANGED <<solverStatus, row>>
     ELSE /\ solverStatus' = IF ~solverFailed /\ okRuns # Runs THEN "partial" ELSE solverStatus
          /\ row' = [status |-> solverStatus', okRuns |-> okRuns, flow |-> solverFlow,
                     consistent |-> FlowConsistent]
  /\ config' = config + 1
  /\ pc' = "config"
  /\ UNCHANGED <<callVars, rawCsv, case, run, expectedFlow, okRuns, solverFailed, solverFlow,
                 failures, exitCode, historyVars>>

-------------------------------------------------------------------------------
Driver == StartCase \/ LastCase \/ StartConfig \/ LastConfig \/ Launch \/ Judge \/ Summarise

Call == (Parent \/ Child \/ Die \/ Tick) /\ UNCHANGED <<driverVars, historyVars>>

Next == Driver \/ Call

ParentStep == Parent /\ UNCHANGED <<driverVars, historyVars>>
DieStep    == Die /\ UNCHANGED <<driverVars, historyVars>>
TickStep   == Tick /\ UNCHANGED <<driverVars, historyVars>>

\* The benchmark program is not stopped, a signal arrives, time passes.  Nothing
\* is assumed of a child.
Fairness == WF_vars(Driver \/ ParentStep) /\ WF_vars(DieStep) /\ WF_vars(TickStep)

Spec == Init /\ [][Next]_vars /\ Fairness

-------------------------------------------------------------------------------
(* Properties.                                                             *)

Outcome == [ok : BOOLEAN, timedOut : BOOLEAN, flow : Nat]

TypeOK ==
  /\ pc \in CallLabels \cup {"case", "config", "run", "return", "done"}
  /\ program \in Programs
  /\ child \in {"none", "forked", "running", "zombie", "reaped"}
  /\ status \in {"none", "success", "failure", "signal"}
  /\ killed \in BOOLEAN
  /\ readers \subseteq {"parent", "child"} /\ writers \subseteq {"parent", "child"}
  /\ written \in Nat /\ used \in Nat
  /\ clock \in 0 .. Timeout + 1
  /\ ok \in BOOLEAN /\ timedOut \in BOOLEAN /\ flow \in Nat
  /\ rawCsv \in BOOLEAN
  /\ case \in 1 .. NumCases + 1 /\ config \in 1 .. NumConfigs + 1 /\ run \in 1 .. Runs + 1
  /\ expectedFlow \in Int
  /\ okRuns \in 0 .. Runs /\ solverFailed \in BOOLEAN /\ solverFlow \in Int
  /\ solverStatus \in Statuses
  /\ failures \in Nat
  /\ row \in [status : Statuses \cup {"none"}, okRuns : 0 .. Runs, flow : Int,
              consistent : BOOLEAN]
  /\ exitCode \in {-1, 0, 1}
  /\ log \in Seq(Outcome) /\ flows \subseteq Nat /\ clean \in BOOLEAN

\* Whatever a child does, and wherever pipe(), fork() or the time-out
\* interrupt a call: when runProgram is left no process and no end of its pipe
\* is left behind, and a process is signalled and waited for only while it is
\* this call's child and has not been reaped, so that kill() never meets a
\* number that belongs to somebody else.
ChildIsReaped ==
  /\ pc \notin CallLabels => /\ child \in {"none", "reaped"}
                             /\ readers = {} /\ writers = {}
  /\ pc \in {"kill", "reap"} => child \in {"forked", "running", "zombie"}
  /\ pc \in {"drain", "finish"} => writers = {}

\* A call reports success exactly when its child was not killed and ended
\* with exit status 0, and a time-out exactly when it was killed, which is done
\* only after the limit: also when the child ends by itself between the last
\* look at it and the signal.
OutcomeIsTrue ==
  /\ pc = "return" => /\ ok <=> child = "reaped" /\ ~killed /\ status = "success"
                      /\ timedOut <=> killed
  /\ killed => clock > Timeout

\* The output is kept from its first line on, never more than the buffer holds,
\* with no line left in the pipe unless the buffer is full; so all of the
\* output of a success is searched for a flow whenever it fits.
BufferIsKept ==
  /\ used <= written /\ used <= MaxUsed
  /\ pc = "return" /\ child = "reaped" =>
       /\ used = IF written < MaxUsed THEN written ELSE MaxUsed
       /\ ok /\ Len(Lines) <= MaxUsed => flow = ParsedFlow(Lines, Len(Lines))

\* The flow of a success is the flow the child found, if its output fits: also
\* when it had to be drained behind the end of the child. Of what ECL-MaxFlow
\* finds, an int tells the remainder by 2^32.
OutputIsKept ==
  /\ BufferIsKept
  /\ pc = "return" /\ ok /\ Len(Lines) <= MaxUsed =>
       flow = IF \E i \in 1 .. Len(Lines) : Lines[i].kind = "ecl"
              THEN program.found % Words ELSE program.found

\* What the runs of this configuration have come to.
GoodRuns == {i \in DOMAIN log : log[i].ok /\ log[i].flow = expectedFlow}
BadRuns  == DOMAIN log \ GoodRuns

LastBadRun == log[CHOOSE i \in BadRuns : \A other \in BadRuns : other <= i]

Failure(result) ==
  IF result.ok THEN "flow-mismatch" ELSE IF result.timedOut THEN "timeout" ELSE "error"

RowIsHonest ==
  /\ Len(log) = Runs
  /\ row.okRuns = Cardinality(GoodRuns)
  /\ row.flow = IF GoodRuns = {} THEN -1 ELSE expectedFlow
  /\ row.consistent <=> GoodRuns # {}
  /\ row.status = IF BadRuns = {} THEN "ok" ELSE Failure(LastBadRun)

\* A row of the summary says "ok" exactly when every run of the configuration
\* was accepted with the first flow of the case; it counts the runs that were,
\* its flow is the first flow of the case if there are any, and only then does it
\* say that the flow is consistent; otherwise it names the failure of the last
\* run that failed.  No row says "partial".
RowsAreHonest == [][pc = "run" /\ pc' = "config" /\ ~rawCsv => RowIsHonest']_vars

\* The program ends with exit code 0 only if every case could be read, every
\* run was accepted, and all flows of a case are one and the same; and it ends
\* with 1 if that is not so or memory for the times ran out.
ExitCodeIsVerdict ==
  pc = "done" => /\ exitCode = 0 => clean /\ case > NumCases
                 /\ exitCode = 1 => ~clean \/ case <= NumCases
                 /\ exitCode # -1

\* Children may hang, crash, fill the pipe or race with the time-out: the benchmark
\* comes to its end.
BenchmarkEnds == <>(pc = "done")

===============================================================================
