----------------------------- MODULE BenchmarkProofs ---------------------------
(***************************************************************************)
(* Invariants of the benchmark program, for every number of cases,         *)
(* configurations and runs, every size of buffer and pipe, every time-out  *)
(* and every behaviour of the children.                                    *)
(***************************************************************************)
EXTENDS Benchmark, FiniteSetTheorems, TLAPS

Between == {"case", "config", "run", "return", "done"}
Waiting == {"close", "poll", "read", "wait", "elapsed", "kill"}

\* Which process there is, who holds the pipe, and what is known of its end.
CallInv ==
  /\ pc \in Between \cup {"pipe"} => child \in {"none", "reaped"}
  /\ pc = "fork" => child = "none"
  /\ pc \in Waiting \cup {"reap"} => child \in {"forked", "running", "zombie"}
  /\ pc \in {"drain", "finish"} => child = "reaped"
  /\ "parent" \in readers => pc \in CallLabels \ {"pipe"}
  /\ "parent" \in writers => pc \in {"fork", "close"}
  /\ "child" \in readers \cup writers => IsAlive
  /\ status = "none" <=> child \notin {"zombie", "reaped"}

\* How the outcome comes about.
OutcomeInv ==
  /\ killed => clock > Timeout
  /\ pc = "kill" => clock > Timeout
  /\ pc \in Waiting \cup {"fork", "reap", "drain", "finish"} => ~ok
  /\ pc \in Waiting \cup {"fork"} => ~killed /\ ~timedOut
  /\ pc = "reap" => killed /\ ~timedOut
  /\ pc \in {"drain", "finish", "return"} => (timedOut <=> killed)
  /\ pc = "return" => (ok <=> child = "reaped" /\ ~killed /\ status = "success")

FullOrAll == used = IF written < MaxUsed THEN written ELSE MaxUsed

\* What has been read.
BufferInv ==
  /\ used <= written /\ used <= MaxUsed
  /\ pc = "finish" => FullOrAll
  /\ pc = "return" /\ child = "reaped" => FullOrAll
  /\ pc \in CallLabels \ {"pipe"} => written <= Len(Lines)
  /\ pc \in (CallLabels \ {"pipe"}) \cup {"return"} /\ status = "success" =>
       written = Len(Lines) /\ program.end = "success"
  /\ pc = "return" /\ ok => flow = ParsedFlow(Lines, used)

\* Where the loops are.
LoopInv ==
  /\ pc \notin {"case", "done"} => case <= NumCases
  /\ pc \in CallLabels \cup {"run", "return"} => config <= NumConfigs /\ okRuns <= run - 1
  /\ pc \in CallLabels \cup {"return"} => run <= Runs

\* What the verdict rests on.
VerdictInv ==
  /\ failures = 0 <=> clean
  /\ \/ expectedFlow = -1 /\ flows = {}
     \/ expectedFlow \in Nat /\ expectedFlow \in flows
  /\ clean => flows \subseteq {expectedFlow}
  /\ pc = "done" => /\ exitCode = 0 => failures = 0 /\ case > NumCases
                    /\ exitCode = 1 => failures # 0 \/ case <= NumCases
                    /\ exitCode # -1

\* What the row of a configuration is made of.
RowInv ==
  pc \in CallLabels \cup {"run", "return"} =>
    /\ Len(log) = run - 1
    /\ expectedFlow = -1 => \A i \in DOMAIN log : ~log[i].ok
    /\ okRuns = Cardinality(GoodRuns)
    /\ solverFlow = IF GoodRuns = {} THEN -1 ELSE expectedFlow
    /\ solverFailed <=> BadRuns # {}
    /\ BadRuns = {} => solverStatus = "ok"
    /\ BadRuns # {} =>
         \E l \in BadRuns : /\ \A other \in BadRuns : other <= l
                            /\ solverStatus = Failure(log[l])

IInv == TypeOK /\ CallInv /\ OutcomeInv /\ BufferInv /\ LoopInv /\ VerdictInv /\ RowInv

-------------------------------------------------------------------------------
(* Frames: what the steps of a call leave alone, and what the others do.   *)

LEMMA CallFrame ==
  ASSUME TypeOK, CallInv, Call
  PROVE  /\ pc \in CallLabels /\ pc' \in CallLabels \cup {"return"}
         /\ UNCHANGED <<program, driverVars, historyVars>>
<1>1. UNCHANGED <<driverVars, historyVars>> /\ (Parent \/ Child \/ Die \/ Tick)
  BY DEF Call
<1>2. CASE Parent
  BY <1>1, <1>2 DEF Parent, OpenPipe, Fork, Start, Poll, Read, Wait, Elapsed, Kill, Reap, Drain,
    Finish, CallLabels, callVars, childVars, pipeVars, resultVars
<1>3. CASE Child \/ Die
  BY <1>1, <1>3 DEF Child, Exec, Write, End, Die, Gone, IsAlive, TypeOK, CallInv, Between, CallLabels,
    callVars, childVars, pipeVars, resultVars
<1>4. CASE Tick
  BY <1>1, <1>4 DEF Tick, CallLabels, callVars, childVars, pipeVars, resultVars
<1> QED
  BY <1>1, <1>2, <1>3, <1>4

LEMMA DriverFrame ==
  ASSUME Driver
  PROVE  /\ pc \in Between /\ pc' \in (Between \ {"return"}) \cup {"pipe"}
         /\ UNCHANGED <<child, status, killed, pipeVars, clock, resultVars>>
BY DEF Driver, StartCase, LastCase, StartConfig, LastConfig, Launch, Judge, Summarise, Exit, Between,
  callVars, childVars, pipeVars, resultVars

-------------------------------------------------------------------------------
(* The call.                                                               *)

LEMMA CallKeepsCallInv ==
  ASSUME ChildAssumption, TypeOK, CallInv, Call
  PROVE  CallInv'
<1> USE DEF CallLabels, Between, Waiting, IsAlive, callVars, childVars, pipeVars, resultVars
<1>OpenPipe. CASE OpenPipe
  BY <1>OpenPipe DEF OpenPipe, TypeOK, CallInv
<1>Fork. CASE Fork
  BY <1>Fork DEF Fork, TypeOK, CallInv
<1>Start. CASE Start
  BY <1>Start DEF Start, CloseWriteEnd, TypeOK, CallInv
<1>Poll. CASE Poll
  BY <1>Poll DEF Poll, HasData, TypeOK, CallInv
<1>Read. CASE Read
  BY <1>Read DEF Read, Filled, TypeOK, CallInv
<1>Wait. CASE Wait
  BY <1>Wait DEF Wait, TypeOK, CallInv
<1>Elapsed. CASE Elapsed
  BY <1>Elapsed DEF Elapsed, IsLate, TypeOK, CallInv
<1>Kill. CASE Kill
  BY <1>Kill DEF Kill, TypeOK, CallInv
<1>Reap. CASE Reap
  BY <1>Reap DEF Reap, TypeOK, CallInv
<1>Drain. CASE Drain
  BY <1>Drain DEF Drain, Filled, DrainEnds, HasData, TypeOK, CallInv
<1>Finish. CASE Finish
  BY <1>Finish DEF Finish, IsAccepted, TypeOK, CallInv
<1>Exec. CASE Exec
  BY <1>Exec DEF Exec, TypeOK, CallInv
<1>Write. CASE Write
  BY <1>Write DEF Write, TypeOK, CallInv
<1>End. CASE End
  BY <1>End DEF End, Gone, ChildAssumption, Ends, TypeOK, CallInv
<1>Die. CASE Die
  BY <1>Die DEF Die, Gone, IsAlive, TypeOK, CallInv
<1>Tick. CASE Tick
  BY <1>Tick DEF Tick, TypeOK, CallInv
<1> QED
  BY <1>OpenPipe, <1>Fork, <1>Start, <1>Poll, <1>Read, <1>Wait, <1>Elapsed,
    <1>Kill, <1>Reap, <1>Drain, <1>Finish, <1>Exec, <1>Write, <1>End, <1>Die, <1>Tick
  DEF Call, Parent, Child

LEMMA CallKeepsOutcomeInv ==
  ASSUME ChildAssumption, TypeOK, CallInv, OutcomeInv, Call
  PROVE  OutcomeInv'
<1> USE DEF CallLabels, Between, Waiting, IsAlive, callVars, childVars, pipeVars, resultVars
<1>OpenPipe. CASE OpenPipe
  BY <1>OpenPipe DEF OpenPipe, TypeOK, CallInv, OutcomeInv
<1>Fork. CASE Fork
  BY <1>Fork DEF Fork, TypeOK, CallInv, OutcomeInv
<1>Start. CASE Start
  BY <1>Start DEF Start, CloseWriteEnd, TypeOK, CallInv, OutcomeInv
<1>Poll. CASE Poll
  BY <1>Poll DEF Poll, HasData, TypeOK, CallInv, OutcomeInv
<1>Read. CASE Read
  BY <1>Read DEF Read, Filled, TypeOK, CallInv, OutcomeInv
<1>Wait. CASE Wait
  BY <1>Wait DEF Wait, TypeOK, CallInv, OutcomeInv
<1>Elapsed. CASE Elapsed
  BY <1>Elapsed DEF Elapsed, IsLate, TypeOK, CallInv, OutcomeInv
<1>Kill. CASE Kill
  BY <1>Kill DEF Kill, TypeOK, CallInv, OutcomeInv
<1>Reap. CASE Reap
  BY <1>Reap DEF Reap, TypeOK, CallInv, OutcomeInv
<1>Drain. CASE Drain
  BY <1>Drain DEF Drain, Filled, DrainEnds, HasData, TypeOK, CallInv, OutcomeInv
<1>Finish. CASE Finish
  BY <1>Finish DEF Finish, IsAccepted, TypeOK, CallInv, OutcomeInv
<1>Exec. CASE Exec
  BY <1>Exec DEF Exec, TypeOK, CallInv, OutcomeInv
<1>Write. CASE Write
  BY <1>Write DEF Write, TypeOK, CallInv, OutcomeInv
<1>End. CASE End
  BY <1>End DEF End, Gone, ChildAssumption, Ends, TypeOK, CallInv, OutcomeInv
<1>Die. CASE Die
  BY <1>Die DEF Die, Gone, IsAlive, TypeOK, CallInv, OutcomeInv
<1>Tick. CASE Tick
  BY <1>Tick DEF Tick, TypeOK, CallInv, OutcomeInv
<1> QED
  BY <1>OpenPipe, <1>Fork, <1>Start, <1>Poll, <1>Read, <1>Wait, <1>Elapsed,
    <1>Kill, <1>Reap, <1>Drain, <1>Finish, <1>Exec, <1>Write, <1>End, <1>Die, <1>Tick
  DEF Call, Parent, Child

LEMMA CallKeepsBufferInv ==
  ASSUME ChildAssumption, TypeOK, CallInv, OutcomeInv, BufferInv, Call
  PROVE  BufferInv'
<1> USE DEF CallLabels, Between, Waiting, IsAlive, callVars, childVars, pipeVars, resultVars
<1>OpenPipe. CASE OpenPipe
  BY <1>OpenPipe DEF OpenPipe, TypeOK, CallInv, OutcomeInv, BufferInv, FullOrAll, MaxUsed, Lines
<1>Fork. CASE Fork
  BY <1>Fork DEF Fork, TypeOK, CallInv, OutcomeInv, BufferInv, FullOrAll, MaxUsed, Lines
<1>Start. CASE Start
  BY <1>Start DEF Start, CloseWriteEnd, TypeOK, CallInv, OutcomeInv, BufferInv, FullOrAll, MaxUsed, Lines
<1>Poll. CASE Poll
  BY <1>Poll DEF Poll, HasData, TypeOK, CallInv, OutcomeInv, BufferInv, FullOrAll, MaxUsed, Lines
<1>Read. CASE Read
  BY <1>Read DEF Read, Filled, TypeOK, CallInv, OutcomeInv, BufferInv, FullOrAll, MaxUsed, Lines
<1>Wait. CASE Wait
  BY <1>Wait DEF Wait, TypeOK, CallInv, OutcomeInv, BufferInv, FullOrAll, MaxUsed, Lines
<1>Elapsed. CASE Elapsed
  BY <1>Elapsed DEF Elapsed, IsLate, TypeOK, CallInv, OutcomeInv, BufferInv, FullOrAll, MaxUsed, Lines
<1>Kill. CASE Kill
  BY <1>Kill DEF Kill, TypeOK, CallInv, OutcomeInv, BufferInv, FullOrAll, MaxUsed, Lines
<1>Reap. CASE Reap
  BY <1>Reap DEF Reap, TypeOK, CallInv, OutcomeInv, BufferInv, FullOrAll, MaxUsed, Lines
<1>Drain. CASE Drain
  BY <1>Drain DEF Drain, Filled, DrainEnds, HasData, TypeOK, CallInv, OutcomeInv, BufferInv, FullOrAll, MaxUsed, Lines
<1>Finish. CASE Finish
  BY <1>Finish DEF Finish, IsAccepted, TypeOK, CallInv, OutcomeInv, BufferInv, FullOrAll, MaxUsed, Lines
<1>Exec. CASE Exec
  BY <1>Exec DEF Exec, TypeOK, CallInv, OutcomeInv, BufferInv, FullOrAll, MaxUsed, Lines
<1>Write. CASE Write
  BY <1>Write DEF Write, TypeOK, CallInv, OutcomeInv, BufferInv, FullOrAll, MaxUsed, Lines
<1>End. CASE End
  BY <1>End DEF End, Gone, ChildAssumption, Ends, TypeOK, CallInv, OutcomeInv, BufferInv, FullOrAll, MaxUsed, Lines
<1>Die. CASE Die
  BY <1>Die DEF Die, Gone, IsAlive, TypeOK, CallInv, OutcomeInv, BufferInv, FullOrAll, MaxUsed, Lines
<1>Tick. CASE Tick
  BY <1>Tick DEF Tick, TypeOK, CallInv, OutcomeInv, BufferInv, FullOrAll, MaxUsed, Lines
<1> QED
  BY <1>OpenPipe, <1>Fork, <1>Start, <1>Poll, <1>Read, <1>Wait, <1>Elapsed,
    <1>Kill, <1>Reap, <1>Drain, <1>Finish, <1>Exec, <1>Write, <1>End, <1>Die, <1>Tick
  DEF Call, Parent, Child

-------------------------------------------------------------------------------
(* The driver leaves the call alone.                                       *)

LEMMA DriverKeepsCall ==
  ASSUME CallInv, OutcomeInv, BufferInv, Driver
  PROVE  CallInv' /\ OutcomeInv' /\ BufferInv'
<1>1. /\ pc \in Between /\ pc' \in (Between \ {"return"}) \cup {"pipe"}
      /\ UNCHANGED <<child, status, killed, pipeVars, clock, resultVars>>
  BY DriverFrame
<1>2. CallInv'
  BY <1>1 DEF CallInv, Between, Waiting, CallLabels, IsAlive, pipeVars
<1>3. OutcomeInv'
  BY <1>1 DEF OutcomeInv, Between, Waiting, pipeVars, resultVars
<1>4. BufferInv'
  BY <1>1 DEF BufferInv, Between, CallLabels, MaxUsed, pipeVars
<1> QED
  BY <1>2, <1>3, <1>4

-------------------------------------------------------------------------------
(* Types.                                                                  *)

LEMMA ElementType ==
  ASSUME NEW S, NEW s \in Seq(S), NEW i \in 1 .. Len(s)
  PROVE  s[i] \in S
OBVIOUS

\* A flow that was parsed is a number from 0, whatever ECL-MaxFlow printed.
LEMMA ParsedFlowType ==
  ASSUME NEW prog \in Programs, NEW n \in Nat, n <= Len(prog.lines)
  PROVE  ParsedFlow(prog.lines, n) \in Nat
<1> DEFINE found == {i \in 1 .. n : prog.lines[i].kind # "text"}
           last  == {i \in found : \A k \in found : k <= i}
           top   == CHOOSE i \in last : TRUE
<1>1. CASE last = {}
  BY <1>1 DEF ParsedFlow
<1>2. CASE last # {}
  <2>1. top \in 1 .. Len(prog.lines)
    BY <1>2
  <2>2. /\ prog.lines \in Seq([kind : Kinds, value : Int])
        /\ prog.lines[top].value >= IF prog.lines[top].kind = "ecl" THEN -(IntMax + 1) ELSE 0
    BY <2>1, ChildAssumption DEF ChildAssumption
  <2>3. prog.lines[top].value \in Int
    <3>1. prog.lines[top] \in [kind : Kinds, value : Int]
      BY <2>1, <2>2, ElementType
    <3> QED
      BY <3>1
  <2>4. ValueOf(prog.lines[top]) \in Nat
    <3> DEFINE v == prog.lines[top].value
               kind == prog.lines[top].kind
    <3>1. v \in Int /\ v >= IF kind = "ecl" THEN -(IntMax + 1) ELSE 0
      BY <2>2, <2>3
    <3>2. IntMax \in Nat
      BY ChildAssumption DEF ChildAssumption
    <3>3. (IF kind = "ecl" THEN IF v < 0 THEN v + 2 * (IntMax + 1) ELSE v ELSE v) \in Nat
      <4> HIDE DEF v, kind
      <4> QED
        BY <3>1, <3>2
    <3> QED
      BY <3>3 DEF ValueOf, EclFlow, Words
  <2> QED
    BY <1>2, <2>4 DEF ParsedFlow
<1> QED
  BY <1>1, <1>2

LEMMA CallKeepsTypes ==
  ASSUME TypeOK, CallInv, BufferInv, Call
  PROVE  TypeOK'
<1>1. /\ pc' \in CallLabels \cup {"return"}
      /\ UNCHANGED <<program, driverVars, historyVars>>
  BY CallFrame
<1>2. /\ rawCsv' \in BOOLEAN
      /\ case' \in 1 .. NumCases + 1 /\ config' \in 1 .. NumConfigs + 1 /\ run' \in 1 .. Runs + 1
      /\ expectedFlow' \in Int
      /\ okRuns' \in 0 .. Runs /\ solverFailed' \in BOOLEAN /\ solverFlow' \in Int
      /\ solverStatus' \in Statuses
      /\ failures' \in Nat
      /\ row' \in [status : Statuses \cup {"none"}, okRuns : 0 .. Runs, flow : Int,
                   consistent : BOOLEAN]
      /\ exitCode' \in {-1, 0, 1}
      /\ log' \in Seq(Outcome) /\ flows' \subseteq Nat /\ clean' \in BOOLEAN
  BY <1>1 DEF TypeOK, driverVars, historyVars
<1> DEFINE CallTypes ==
      /\ child \in {"none", "forked", "running", "zombie", "reaped"}
      /\ status \in {"none", "success", "failure", "signal"}
      /\ killed \in BOOLEAN
      /\ readers \subseteq {"parent", "child"} /\ writers \subseteq {"parent", "child"}
      /\ written \in Nat /\ used \in Nat
      /\ clock \in 0 .. Timeout + 1
      /\ ok \in BOOLEAN /\ timedOut \in BOOLEAN /\ flow \in Nat
<1> SUFFICES CallTypes'
  BY <1>1, <1>2 DEF TypeOK
<1>3. CallTypes /\ program \in Programs
  BY DEF TypeOK
<1>4. OutputSize \in Nat \ {0} /\ Timeout \in Nat /\ program.end \in Ends
  BY <1>3, ChildAssumption DEF ChildAssumption
<1> USE <1>3, <1>4 DEF callVars, childVars, pipeVars, resultVars
<1>OpenPipe. CASE OpenPipe
  <2>1. killed' \in BOOLEAN /\ ok' \in BOOLEAN /\ timedOut' \in BOOLEAN
    BY <1>OpenPipe, Zenon DEF OpenPipe
  <2>2. /\ child' = "none" /\ status' = "none" /\ written' = 0 /\ used' = 0 /\ clock' = 0
        /\ flow' = 0
    BY <1>OpenPipe DEF OpenPipe
  <2>3. readers' \subseteq {"parent", "child"} /\ writers' \subseteq {"parent", "child"}
    BY <1>OpenPipe DEF OpenPipe
  <2> QED
    BY <2>1, <2>2, <2>3
<1>Finish. CASE Finish
  <2>1. used \in Nat /\ used <= Len(program.lines)
    BY <1>Finish, ChildAssumption DEF Finish, BufferInv, CallLabels, Lines, ChildAssumption
  <2>2. ParsedFlow(Lines, used) \in Nat
    BY <2>1, ParsedFlowType DEF Lines
  <2> QED
    BY <1>Finish, <2>2 DEF Finish, IsAccepted
<1>Fork. CASE Fork
  BY <1>Fork DEF Fork
<1>Start. CASE Start
  BY <1>Start DEF Start, CloseWriteEnd
<1>Poll. CASE Poll
  BY <1>Poll DEF Poll, HasData
<1>Read. CASE Read
  BY <1>Read DEF Read, Filled, MaxUsed
<1>Wait. CASE Wait
  BY <1>Wait DEF Wait
<1>Elapsed. CASE Elapsed
  BY <1>Elapsed DEF Elapsed, IsLate
<1>Kill. CASE Kill
  BY <1>Kill DEF Kill
<1>Reap. CASE Reap
  BY <1>Reap DEF Reap
<1>Drain. CASE Drain
  BY <1>Drain DEF Drain, Filled, DrainEnds, HasData, MaxUsed
<1>Exec. CASE Exec
  BY <1>Exec DEF Exec
<1>Write. CASE Write
  BY <1>Write DEF Write
<1>End. CASE End
  BY <1>End DEF End, Gone, Ends
<1>Die. CASE Die
  BY <1>Die DEF Die, Gone, IsAlive
<1>Tick. CASE Tick
  BY <1>Tick DEF Tick
<1> QED
  BY <1>OpenPipe, <1>Fork, <1>Start, <1>Poll, <1>Read, <1>Wait, <1>Elapsed,
    <1>Kill, <1>Reap, <1>Drain, <1>Finish, <1>Exec, <1>Write, <1>End, <1>Die, <1>Tick
  DEF Call, Parent, Child

LEMMA DriverKeepsTypes ==
  ASSUME TypeOK, LoopInv, Driver
  PROVE  TypeOK'
<1> USE DriverAssumption DEF DriverAssumption, TypeOK, callVars, childVars, pipeVars, resultVars,
      historyVars, driverVars, Statuses, CallLabels
<1>LastCase. CASE LastCase
  BY <1>LastCase DEF LastCase, Exit, LoopInv
<1>LastConfig. CASE LastConfig
  BY <1>LastConfig DEF LastConfig, LoopInv
<1>Launch. CASE Launch
  BY <1>Launch DEF Launch, LoopInv
<1>StartCase. CASE StartCase
  <2>1. /\ UNCHANGED <<callVars, rawCsv, run, okRuns, solverFailed, solverFlow, solverStatus, row,
                       exitCode, log>>
        /\ pc' \in {"case", "config"}
    BY <1>StartCase DEF StartCase
  <2>2. clean' \in BOOLEAN
    BY <1>StartCase, Zenon DEF StartCase
  <2>3. \/ /\ expectedFlow' = -1 /\ config' = 1 /\ flows' = {}
           /\ case' = case /\ failures' = failures
        \/ /\ failures' = failures + 1 /\ case' = case + 1 /\ case <= NumCases
           /\ expectedFlow' = expectedFlow /\ config' = config /\ flows' = flows
    BY <1>StartCase, Zenon DEF StartCase, NoExpectedFlow
  <2>4. /\ case \in 1 .. NumCases + 1 /\ config \in 1 .. NumConfigs + 1
        /\ expectedFlow \in Int /\ failures \in Nat /\ flows \subseteq Nat
    OBVIOUS
  <2>5. case' \in 1 .. NumCases + 1 /\ config' \in 1 .. NumConfigs + 1
    <3> HIDE DEF TypeOK
    <3>1. case' \in 1 .. NumCases + 1
      BY <2>3, <2>4
    <3>2. config' \in 1 .. NumConfigs + 1
      BY <2>3, <2>4
    <3> QED
      BY <3>1, <3>2
  <2>6. expectedFlow' \in Int /\ failures' \in Nat
    <3> HIDE DEF TypeOK
    <3> QED
      BY <2>3, <2>4
  <2>7. flows' \subseteq Nat
    BY <2>3, <2>4
  <2> QED
    BY <2>1, <2>2, <2>5, <2>6, <2>7
<1>StartConfig. CASE StartConfig
  <2>1. /\ UNCHANGED <<callVars, rawCsv, case, config, expectedFlow, failures, row, flows, clean>>
        /\ pc' \in {"run", "done"}
    BY <1>StartConfig DEF StartConfig, Exit
  <2>2. solverFailed' \in BOOLEAN
    BY <1>StartConfig, Zenon DEF StartConfig, Exit
  <2>3. \/ /\ run' = 1 /\ okRuns' = 0 /\ solverFlow' = -1 /\ solverStatus' = "ok"
           /\ log' = <<>> /\ exitCode' = exitCode
        \/ /\ run' = run /\ okRuns' = okRuns /\ solverFlow' = solverFlow
           /\ solverStatus' = solverStatus /\ log' = log /\ exitCode' = 1
    BY <1>StartConfig, Zenon DEF StartConfig, Exit
  <2>4. /\ run \in 1 .. Runs + 1 /\ okRuns \in 0 .. Runs /\ solverFlow \in Int
        /\ solverStatus \in Statuses /\ exitCode \in {-1, 0, 1} /\ log \in Seq(Outcome)
    OBVIOUS
  <2>5. run' \in 1 .. Runs + 1 /\ okRuns' \in 0 .. Runs /\ solverFlow' \in Int
    <3> HIDE DEF TypeOK
    <3>1. run' \in 1 .. Runs + 1
      BY <2>3, <2>4
    <3>2. okRuns' \in 0 .. Runs
      BY <2>3, <2>4
    <3>3. solverFlow' \in Int
      BY <2>3, <2>4
    <3> QED
      BY <3>1, <3>2, <3>3
  <2>6. solverStatus' \in Statuses /\ exitCode' \in {-1, 0, 1}
    <3> HIDE DEF TypeOK
    <3> QED
      BY <2>3, <2>4
  <2>7. log' \in Seq(Outcome)
    <3>1. <<>> \in Seq(Outcome)
      OBVIOUS
    <3>2. log' = <<>> \/ log' = log
      BY <2>3, Zenon
    <3> QED
      BY <2>4, <3>1, <3>2, Zenon
  <2> QED
    BY <2>1, <2>2, <2>5, <2>6, <2>7
<1>Summarise. CASE Summarise
  <2>1. UNCHANGED <<callVars, rawCsv, case, run, expectedFlow, okRuns, solverFailed, solverFlow,
                    failures, exitCode, historyVars>>
    BY <1>Summarise DEF Summarise
  <2>2. config' \in 1 .. NumConfigs + 1 /\ pc' = "config"
    BY <1>Summarise DEF Summarise, LoopInv
  <2>3. solverStatus' \in Statuses
    BY <1>Summarise DEF Summarise
  <2>4. FlowConsistent \in BOOLEAN
    BY DEF FlowConsistent
  <2>5. row' \in [status : Statuses \cup {"none"}, okRuns : 0 .. Runs, flow : Int,
                 consistent : BOOLEAN]
    BY <1>Summarise, <2>3, <2>4 DEF Summarise
  <2> QED
    BY <2>1, <2>2, <2>3, <2>5
<1>Judge. CASE Judge
  <2>1. run' = run + 1 /\ pc' = "run" /\ run <= Runs /\ okRuns <= run - 1
    BY <1>Judge DEF Judge, LoopInv
  <2>2. okRuns' \in 0 .. Runs /\ failures' \in Nat /\ solverFlow' \in Int
    <3>1. CASE RunStatus = "ok"
      <4>1. okRuns' = okRuns + 1 /\ failures' = failures /\ solverFlow' \in {solverFlow, flow}
        BY <1>Judge, <3>1 DEF Judge
      <4> QED
        BY <2>1, <4>1
    <3>2. CASE RunStatus # "ok"
      BY <1>Judge, <3>2 DEF Judge
    <3> QED
      BY <3>1, <3>2
  <2>3. solverStatus' \in Statuses /\ solverFailed' \in BOOLEAN
    BY <1>Judge DEF Judge, RunStatus
  <2>4. log' \in Seq(Outcome)
    <3>1. [ok |-> ok, timedOut |-> timedOut, flow |-> flow] \in Outcome
      BY DEF Outcome
    <3> QED
      BY <1>Judge, <3>1 DEF Judge
  <2>5. flows' \subseteq Nat /\ clean' \in BOOLEAN /\ expectedFlow' \in Int
    BY <1>Judge DEF Judge
  <2> QED
    BY <1>Judge, <2>1, <2>2, <2>3, <2>4, <2>5 DEF Judge
<1> QED
  BY <1>StartCase, <1>LastCase, <1>StartConfig, <1>LastConfig, <1>Launch, <1>Judge, <1>Summarise
  DEF Driver

-------------------------------------------------------------------------------
(* The loops and the verdict.                                              *)

LEMMA CallKeepsDriver ==
  ASSUME TypeOK, CallInv, LoopInv, VerdictInv, RowInv, Call
  PROVE  LoopInv' /\ VerdictInv' /\ RowInv'
<1>1. /\ pc \in CallLabels /\ pc' \in CallLabels \cup {"return"}
      /\ UNCHANGED <<program, driverVars, historyVars>>
  BY CallFrame
<1>2. LoopInv'
  BY <1>1 DEF LoopInv, CallLabels, driverVars
<1>3. VerdictInv'
  BY <1>1 DEF VerdictInv, CallLabels, driverVars, historyVars
<1>4. GoodRuns' = GoodRuns /\ BadRuns' = BadRuns
  BY <1>1 DEF GoodRuns, BadRuns, driverVars, historyVars
<1>5. RowInv'
  BY <1>1, <1>4 DEF RowInv, CallLabels, driverVars, historyVars
<1> QED
  BY <1>2, <1>3, <1>5

LEMMA DriverKeepsLoops ==
  ASSUME TypeOK, LoopInv, Driver
  PROVE  LoopInv'
<1> USE DriverAssumption DEF DriverAssumption, TypeOK, LoopInv, CallLabels, callVars, driverVars, historyVars
<1>StartCase. CASE StartCase
  BY <1>StartCase DEF StartCase, NoExpectedFlow
<1>LastCase. CASE LastCase
  BY <1>LastCase DEF LastCase, Exit
<1>StartConfig. CASE StartConfig
  <2>1. /\ pc = "config" /\ config <= NumConfigs
        /\ case' = case /\ config' = config
        /\ \/ pc' = "run" /\ run' = 1 /\ okRuns' = 0
           \/ pc' = "done"
    BY <1>StartConfig DEF StartConfig, Exit
  <2>2. case <= NumCases
    BY <2>1
  <2> QED
    BY <2>1, <2>2
<1>LastConfig. CASE LastConfig
  BY <1>LastConfig DEF LastConfig
<1>Launch. CASE Launch
  BY <1>Launch DEF Launch
<1>Judge. CASE Judge
  BY <1>Judge DEF Judge, RunStatus
<1>Summarise. CASE Summarise
  BY <1>Summarise DEF Summarise, FlowConsistent
<1> QED
  BY <1>StartCase, <1>LastCase, <1>StartConfig, <1>LastConfig, <1>Launch, <1>Judge, <1>Summarise
  DEF Driver

LEMMA DriverKeepsVerdict ==
  ASSUME TypeOK, LoopInv, VerdictInv, Driver
  PROVE  VerdictInv'
<1> USE DEF VerdictInv, callVars, driverVars, historyVars
<1>LastCase. CASE LastCase
  BY <1>LastCase DEF LastCase, Exit, TypeOK, LoopInv, resultVars
<1>LastConfig. CASE LastConfig
  BY <1>LastConfig DEF LastConfig, TypeOK, LoopInv, resultVars
<1>Launch. CASE Launch
  BY <1>Launch DEF Launch, TypeOK, LoopInv, resultVars
<1>Summarise. CASE Summarise
  BY <1>Summarise DEF Summarise, FlowConsistent, TypeOK, LoopInv, resultVars
<1>StartCase. CASE StartCase
  <2>1. failures \in Nat /\ pc' # "done"
    BY <1>StartCase DEF StartCase, TypeOK
  <2>2. CASE /\ expectedFlow' = NoExpectedFlow /\ flows' = {}
             /\ UNCHANGED <<failures, clean>>
    BY <2>1, <2>2 DEF NoExpectedFlow
  <2>3. CASE /\ failures' = failures + 1 /\ ~clean'
             /\ UNCHANGED <<expectedFlow, flows>>
    BY <2>1, <2>3
  <2> QED
    BY <1>StartCase, <2>2, <2>3 DEF StartCase
<1>StartConfig. CASE StartConfig
  <2>1. UNCHANGED <<case, failures, clean, flows, expectedFlow>> /\ case <= NumCases
    BY <1>StartConfig DEF StartConfig, Exit, LoopInv
  <2>2. pc' = "done" => exitCode' = 1
    BY <1>StartConfig DEF StartConfig, Exit
  <2> QED
    BY <2>1, <2>2
<1>Judge. CASE Judge
  <2>1. /\ failures \in Nat /\ flow \in Nat /\ flows \subseteq Nat /\ ok \in BOOLEAN
        /\ clean \in BOOLEAN /\ expectedFlow \in Int
    BY DEF TypeOK
  <2>2. pc' = "run" /\ clean' = (clean /\ ok /\ flows \subseteq {flow})
    BY <1>Judge DEF Judge
  <2>3. CASE ~ok
    <3>1. /\ RunStatus # "ok"
          /\ UNCHANGED <<flows, expectedFlow>> /\ failures' = failures + 1
      BY <1>Judge, <2>3 DEF Judge, RunStatus
    <3> QED
      BY <2>1, <2>2, <2>3, <3>1
  <2>4. CASE ok /\ expectedFlow = -1
    <3>1. RunStatus = "ok"
      BY <2>4 DEF RunStatus
    <3>2. flows = {}
      BY <2>4
    <3>3. expectedFlow' = flow /\ flows' = flows \cup {flow} /\ UNCHANGED failures
      BY <1>Judge, <2>4, <3>1 DEF Judge
    <3> QED
      BY <2>1, <2>2, <2>4, <3>2, <3>3
  <2>5. CASE ok /\ expectedFlow # -1
    <3>1. /\ expectedFlow \in Nat /\ expectedFlow \in flows /\ UNCHANGED expectedFlow
          /\ flows' = flows \cup {flow}
      BY <1>Judge, <2>1, <2>5 DEF Judge
    <3>2. CASE flow = expectedFlow
      <4>1. RunStatus = "ok"
        BY <2>5, <3>2 DEF RunStatus
      <4>2. UNCHANGED failures /\ flows' = flows
        BY <1>Judge, <3>1, <3>2, <4>1 DEF Judge
      <4> QED
        BY <2>1, <2>2, <2>5, <3>1, <3>2, <4>2
    <3>3. CASE flow # expectedFlow
      <4>1. RunStatus # "ok"
        BY <2>5, <3>1, <3>3 DEF RunStatus
      <4>2. failures' = failures + 1
        BY <1>Judge, <4>1 DEF Judge
      <4>3. ~clean'
        BY <2>2, <3>1, <3>3
      <4> QED
        BY <2>1, <2>2, <3>1, <4>2, <4>3
    <3> QED
      BY <3>2, <3>3
  <2> QED
    BY <2>1, <2>3, <2>4, <2>5
<1> QED
  BY <1>StartCase, <1>LastCase, <1>StartConfig, <1>LastConfig, <1>Launch, <1>Judge, <1>Summarise
  DEF Driver

-------------------------------------------------------------------------------
(* The rows of the summary.                                                *)

\* The runs so far, and their number.
LEMMA RunFacts ==
  ASSUME TypeOK
  PROVE  /\ Len(log) \in Nat /\ DOMAIN log = 1 .. Len(log)
         /\ GoodRuns \subseteq 1 .. Len(log) /\ BadRuns = (1 .. Len(log)) \ GoodRuns
         /\ IsFiniteSet(1 .. Len(log)) /\ Cardinality(1 .. Len(log)) = Len(log)
         /\ IsFiniteSet(GoodRuns) /\ Cardinality(GoodRuns) \in Nat
<1>1. log \in Seq(Outcome)
  BY DEF TypeOK
<1>2. Len(log) \in Nat /\ DOMAIN log = 1 .. Len(log)
  BY <1>1
<1>3. GoodRuns \subseteq 1 .. Len(log) /\ BadRuns = (1 .. Len(log)) \ GoodRuns
  BY <1>2 DEF GoodRuns, BadRuns
<1>4. IsFiniteSet(1 .. Len(log)) /\ Cardinality(1 .. Len(log)) = Len(log)
  <2>1. /\ IsFiniteSet(1 .. Len(log))
        /\ Cardinality(1 .. Len(log)) = IF 1 > Len(log) THEN 0 ELSE Len(log) - 1 + 1
    BY <1>2, FS_Interval
  <2> QED
    BY <1>2, <2>1
<1>5. IsFiniteSet(GoodRuns)
  BY <1>3, <1>4, FS_Subset
<1>6. Cardinality(GoodRuns) \in Nat
  BY <1>5, FS_CardinalityType
<1> QED
  BY <1>2, <1>3, <1>4, <1>5, <1>6

\* A run is good if and only if its status is "ok", and then it stays good.
LEMMA JudgeSorts ==
  ASSUME TypeOK, VerdictInv, RowInv, Judge
  PROVE  /\ Len(log') = Len(log) + 1 /\ DOMAIN log' = 1 .. Len(log) + 1
         /\ \A i \in 1 .. Len(log) : log'[i] = log[i]
         /\ log'[Len(log) + 1] = [ok |-> ok, timedOut |-> timedOut, flow |-> flow]
         /\ RunStatus = "ok" => /\ GoodRuns' = GoodRuns \cup {Len(log) + 1}
                                /\ BadRuns' = BadRuns /\ expectedFlow' = flow
         /\ RunStatus # "ok" => /\ GoodRuns' = GoodRuns
                                /\ BadRuns' = BadRuns \cup {Len(log) + 1}
                                /\ expectedFlow' = expectedFlow
<1> DEFINE n == Len(log) + 1
           result == [ok |-> ok, timedOut |-> timedOut, flow |-> flow]
<1>1. Len(log) \in Nat /\ DOMAIN log = 1 .. Len(log) /\ log \in Seq(Outcome)
  BY RunFacts DEF TypeOK
<1>2. log' = Append(log, result)
  BY DEF Judge
<1>3. /\ Len(log') = n /\ DOMAIN log' = 1 .. n /\ log'[n] = result
      /\ \A i \in 1 .. Len(log) : log'[i] = log[i]
  BY <1>1, <1>2
<1>4. flow \in Nat /\ (expectedFlow = -1 \/ expectedFlow \in Nat)
  BY DEF TypeOK, VerdictInv
<1>5. /\ ok /\ expectedFlow = -1 => expectedFlow' = flow
      /\ ~(ok /\ expectedFlow = -1) => expectedFlow' = expectedFlow
  BY <1>4 DEF Judge
<1>6. RunStatus = "ok" <=> ok /\ (expectedFlow = -1 \/ flow = expectedFlow)
  BY <1>4 DEF RunStatus
<1>7. expectedFlow' = IF RunStatus = "ok" THEN flow ELSE expectedFlow
  BY <1>5, <1>6
<1>8. expectedFlow = -1 => \A i \in 1 .. Len(log) : ~log[i].ok
  BY <1>1 DEF RowInv, Judge
<1>9. \A i \in 1 .. Len(log) : i \in GoodRuns' <=> i \in GoodRuns
  <2> TAKE i \in 1 .. Len(log)
  <2>1. i \in GoodRuns <=> log[i].ok /\ log[i].flow = expectedFlow
    BY <1>1 DEF GoodRuns
  <2>2. i \in GoodRuns' <=> log[i].ok /\ log[i].flow = expectedFlow'
    BY <1>1, <1>3 DEF GoodRuns
  <2>3. CASE expectedFlow' = expectedFlow
    BY <2>1, <2>2, <2>3
  <2>4. CASE expectedFlow = -1
    BY <1>8, <2>1, <2>2, <2>4
  <2> QED
    BY <1>5, <2>3, <2>4
<1>10. n \in GoodRuns' <=> RunStatus = "ok"
  <2>1. n \in GoodRuns' <=> ok /\ flow = expectedFlow'
    BY <1>1, <1>3 DEF GoodRuns
  <2> QED
    BY <1>4, <1>6, <1>7, <2>1
<1>11. GoodRuns' \subseteq 1 .. n /\ BadRuns' = (1 .. n) \ GoodRuns'
  BY <1>3 DEF GoodRuns, BadRuns
<1>12. GoodRuns \subseteq 1 .. Len(log) /\ BadRuns = (1 .. Len(log)) \ GoodRuns
  BY RunFacts
<1>13. 1 .. n = (1 .. Len(log)) \cup {n} /\ n \notin 1 .. Len(log)
  BY <1>1
<1>14. /\ RunStatus = "ok" => GoodRuns' = GoodRuns \cup {n} /\ BadRuns' = BadRuns
       /\ RunStatus # "ok" => GoodRuns' = GoodRuns /\ BadRuns' = BadRuns \cup {n}
  <2> HIDE DEF n
  <2> QED
    BY <1>9, <1>10, <1>11, <1>12, <1>13
<1> QED
  BY <1>3, <1>7, <1>14

LEMMA JudgeKeepsRows ==
  ASSUME TypeOK, VerdictInv, RowInv, Judge
  PROVE  RowInv'
<1> DEFINE n == Len(log) + 1
<1>1. /\ Len(log) \in Nat /\ GoodRuns \subseteq 1 .. Len(log)
      /\ BadRuns = (1 .. Len(log)) \ GoodRuns
      /\ IsFiniteSet(GoodRuns) /\ Cardinality(GoodRuns) \in Nat
  BY RunFacts
<1>2. /\ Len(log') = n /\ DOMAIN log' = 1 .. n
      /\ \A i \in 1 .. Len(log) : log'[i] = log[i]
      /\ log'[n] = [ok |-> ok, timedOut |-> timedOut, flow |-> flow]
      /\ RunStatus = "ok" => /\ GoodRuns' = GoodRuns \cup {n}
                             /\ BadRuns' = BadRuns /\ expectedFlow' = flow
      /\ RunStatus # "ok" => /\ GoodRuns' = GoodRuns
                             /\ BadRuns' = BadRuns \cup {n}
                             /\ expectedFlow' = expectedFlow
  BY JudgeSorts
<1>3. /\ Len(log) = run - 1 /\ run' = run + 1 /\ run \in Nat
      /\ expectedFlow = -1 => \A i \in DOMAIN log : ~log[i].ok
      /\ okRuns = Cardinality(GoodRuns)
      /\ solverFlow = IF GoodRuns = {} THEN -1 ELSE expectedFlow
      /\ solverFailed <=> BadRuns # {}
      /\ BadRuns = {} => solverStatus = "ok"
      /\ BadRuns # {} => \E l \in BadRuns : /\ \A other \in BadRuns : other <= l
                                            /\ solverStatus = Failure(log[l])
  BY DEF RowInv, Judge, TypeOK
<1>4. flow \in Nat /\ (expectedFlow = -1 \/ expectedFlow \in Nat)
  BY DEF TypeOK, VerdictInv
<1>5. GoodRuns # {} => expectedFlow # -1
  BY <1>3 DEF GoodRuns
<1>6. Len(log') = run' - 1
  BY <1>2, <1>3
<1>7. expectedFlow' = -1 => \A i \in DOMAIN log' : ~log'[i].ok
  <2> SUFFICES ASSUME expectedFlow' = -1, NEW i \in 1 .. n
               PROVE  ~log'[i].ok
    BY <1>2
  <2>1. RunStatus # "ok" /\ expectedFlow = -1
    BY <1>2, <1>4
  <2>2. ~ok
    BY <2>1 DEF RunStatus
  <2>3. CASE i = n
    BY <1>2, <2>2, <2>3
  <2>4. CASE i # n
    <3>1. i \in 1 .. Len(log)
      BY <1>1, <2>4
    <3>2. ~log[i].ok
      BY <1>3, <2>1, <3>1, RunFacts
    <3> QED
      BY <1>2, <3>1, <3>2
  <2> QED
    BY <2>3, <2>4
<1>8. CASE RunStatus = "ok"
  <2>1. /\ solverFlow' = IF solverFlow < 0 THEN flow ELSE solverFlow
        /\ okRuns' = okRuns + 1
        /\ UNCHANGED <<solverStatus, solverFailed>>
    BY <1>8 DEF Judge
  <2>2. n \notin GoodRuns
    BY <1>1
  <2>3. Cardinality(GoodRuns \cup {n}) = Cardinality(GoodRuns) + 1
    BY <1>1, <2>2, FS_AddElement
  <2>4. okRuns' = Cardinality(GoodRuns')
    BY <1>2, <1>3, <1>8, <2>1, <2>3
  <2>5. expectedFlow = -1 \/ expectedFlow = flow
    BY <1>4, <1>8 DEF RunStatus
  <2>6. solverFlow' = flow
    BY <1>3, <1>4, <1>5, <2>1, <2>5
  <2>7. solverFlow' = IF GoodRuns' = {} THEN -1 ELSE expectedFlow'
    BY <1>2, <1>8, <2>6
  <2>8. (solverFailed' <=> BadRuns' # {}) /\ (BadRuns' = {} => solverStatus' = "ok")
    BY <1>2, <1>3, <1>8, <2>1
  <2>9. BadRuns' # {} => \E l \in BadRuns' : /\ \A other \in BadRuns' : other <= l
                                             /\ solverStatus' = Failure(log'[l])
    <3> SUFFICES ASSUME BadRuns # {}
                 PROVE  \E l \in BadRuns : /\ \A other \in BadRuns : other <= l
                                           /\ solverStatus' = Failure(log'[l])
      BY <1>2, <1>8
    <3>1. PICK l \in BadRuns : /\ \A other \in BadRuns : other <= l
                               /\ solverStatus = Failure(log[l])
      BY <1>3
    <3>2. log'[l] = log[l] /\ solverStatus' = solverStatus
      BY <1>1, <1>2, <2>1
    <3> QED
      BY <3>1, <3>2
  <2> QED
    BY <1>6, <1>7, <2>4, <2>7, <2>8, <2>9 DEF RowInv
<1>9. CASE RunStatus # "ok"
  <2>1. /\ solverStatus' = RunStatus /\ solverFailed' = TRUE
        /\ UNCHANGED <<solverFlow, okRuns>>
    BY <1>9 DEF Judge
  <2>2. okRuns' = Cardinality(GoodRuns') /\ solverFlow' = IF GoodRuns' = {} THEN -1 ELSE expectedFlow'
    BY <1>2, <1>3, <1>9, <2>1
  <2>3. n \in BadRuns' /\ \A other \in BadRuns' : other <= n
    BY <1>1, <1>2, <1>9
  <2>4. RunStatus = Failure(log'[n])
    BY <1>2, <1>9 DEF RunStatus, Failure
  <2> QED
    BY <1>6, <1>7, <2>1, <2>2, <2>3, <2>4 DEF RowInv
<1> QED
  BY <1>8, <1>9

LEMMA DriverKeepsRows ==
  ASSUME TypeOK, VerdictInv, RowInv, Driver
  PROVE  RowInv'
<1>1. CASE pc' \notin CallLabels \cup {"run", "return"}
  BY <1>1 DEF RowInv
<1>2. CASE Launch
  <2>1. pc = "run" /\ UNCHANGED <<driverVars, historyVars>>
    BY <1>2 DEF Launch
  <2>2. GoodRuns' = GoodRuns /\ BadRuns' = BadRuns
    BY <2>1 DEF GoodRuns, BadRuns, driverVars, historyVars
  <2> QED
    BY <2>1, <2>2 DEF RowInv, driverVars, historyVars
<1>3. CASE StartConfig /\ pc' = "run"
  <2>1. /\ run' = 1 /\ okRuns' = 0 /\ ~solverFailed' /\ solverFlow' = -1 /\ solverStatus' = "ok"
        /\ log' = <<>>
    BY <1>3 DEF StartConfig, Exit
  <2>2. Len(log') = 0 /\ DOMAIN log' = {}
    BY <2>1
  <2>3. GoodRuns' = {} /\ BadRuns' = {}
    BY <2>2 DEF GoodRuns, BadRuns
  <2>4. Cardinality(GoodRuns') = 0
    BY <2>3, FS_EmptySet
  <2> QED
    BY <2>1, <2>2, <2>3, <2>4 DEF RowInv
<1>4. CASE Judge
  BY <1>4, JudgeKeepsRows
<1>5. \/ pc' \notin CallLabels \cup {"run", "return"}
      \/ Launch \/ Judge \/ (StartConfig /\ pc' = "run")
  BY DEF Driver, StartCase, LastCase, StartConfig, LastConfig, Summarise, Exit, CallLabels
<1> QED
  BY <1>1, <1>2, <1>3, <1>4, <1>5

-------------------------------------------------------------------------------
(* The theorems.                                                           *)

LEMMA InitInv ==
  ASSUME Init
  PROVE  IInv
<1> USE DriverAssumption, ChildAssumption DEF DriverAssumption, ChildAssumption, Init
<1>1. TypeOK
  <2>1. killed \in BOOLEAN /\ ok \in BOOLEAN /\ timedOut \in BOOLEAN /\ rawCsv \in BOOLEAN
        /\ solverFailed \in BOOLEAN /\ clean \in BOOLEAN
    BY Zenon
  <2>2. row \in [status : Statuses \cup {"none"}, okRuns : 0 .. Runs, flow : Int,
                 consistent : BOOLEAN]
    BY DEF NoRow
  <2>3. log \in Seq(Outcome) /\ flows \subseteq Nat
    OBVIOUS
  <2>4. /\ pc = "case" /\ program \in Programs /\ child = "none" /\ status = "none"
        /\ readers = {} /\ writers = {} /\ written = 0 /\ used = 0 /\ clock = 0 /\ flow = 0
        /\ case = 1 /\ config = 1 /\ run = 1 /\ expectedFlow = -1 /\ okRuns = 0
        /\ solverFlow = -1 /\ solverStatus = "ok" /\ failures = 0 /\ exitCode = -1
    BY Zenon
  <2>5. NumCases \in Nat /\ NumConfigs \in Nat /\ Runs \in Nat /\ Timeout \in Nat
    OBVIOUS
  <2> HIDE DEF Init
  <2> QED
    BY <2>1, <2>2, <2>3, <2>4, <2>5 DEF TypeOK, Statuses
<1>2. CallInv
  BY DEF CallInv, Waiting, IsAlive, CallLabels
<1>3. OutcomeInv
  BY DEF OutcomeInv, Waiting
<1>4. BufferInv
  BY DEF BufferInv, CallLabels, MaxUsed
<1>5. LoopInv
  BY DEF LoopInv, CallLabels
<1>6. VerdictInv
  BY DEF VerdictInv
<1>7. RowInv
  BY DEF RowInv, CallLabels
<1> QED
  BY <1>1, <1>2, <1>3, <1>4, <1>5, <1>6, <1>7 DEF IInv

LEMMA NextInv ==
  ASSUME IInv, [Next]_vars
  PROVE  IInv'
<1> USE DEF IInv
<1>1. CASE Call
  BY <1>1, ChildAssumption, CallKeepsTypes, CallKeepsCallInv, CallKeepsOutcomeInv,
    CallKeepsBufferInv, CallKeepsDriver
<1>2. CASE Driver
  BY <1>2, DriverKeepsTypes, DriverKeepsCall, DriverKeepsLoops, DriverKeepsVerdict,
    DriverKeepsRows
<1>3. CASE UNCHANGED vars
  <2> USE <1>3 DEF vars, callVars, childVars, pipeVars, resultVars, driverVars, historyVars
  <2>1. TypeOK'
    BY DEF TypeOK
  <2>2. CallInv' /\ OutcomeInv'
    BY DEF CallInv, OutcomeInv, IsAlive
  <2>3. BufferInv'
    BY DEF BufferInv, FullOrAll, Lines
  <2>4. LoopInv' /\ VerdictInv'
    BY DEF LoopInv, VerdictInv
  <2>5. RowInv'
    <3>1. GoodRuns' = GoodRuns /\ BadRuns' = BadRuns
      BY DEF GoodRuns, BadRuns
    <3> QED
      BY <3>1 DEF RowInv
  <2> QED
    BY <2>1, <2>2, <2>3, <2>4, <2>5
<1> QED
  BY <1>1, <1>2, <1>3 DEF Next

\* The invariant of runBenchmark with its calls of runProgram.
THEOREM BenchmarkInvariant == Spec => []IInv
<1>1. Init => IInv
  BY InitInv
<1>2. IInv /\ [Next]_vars => IInv'
  BY NextInv
<1> QED
  BY <1>1, <1>2, PTL DEF Spec

\* Counters, flows and rows keep their types: no more good runs are counted than
\* there are runs, and a flow that was parsed is never negative.
THEOREM BenchmarkTypeOK == Spec => []TypeOK
<1>1. IInv => TypeOK
  BY DEF IInv
<1> QED
  BY <1>1, BenchmarkInvariant, PTL

\* runProgram leaves no process and no end of a pipe behind, and never signals
\* or waits for a process it has reaped.
THEOREM BenchmarkChildIsReaped == Spec => []ChildIsReaped
<1>1. IInv => ChildIsReaped
  <2> SUFFICES ASSUME IInv
               PROVE  ChildIsReaped
    OBVIOUS
  <2>1. /\ pc \in CallLabels \cup Between
        /\ readers \subseteq {"parent", "child"} /\ writers \subseteq {"parent", "child"}
    BY DEF IInv, TypeOK, Between
  <2>2. pc \notin CallLabels => /\ child \in {"none", "reaped"}
                                /\ readers = {} /\ writers = {}
    BY <2>1 DEF IInv, CallInv, Between, IsAlive, CallLabels
  <2>3. pc \in {"kill", "reap"} => child \in {"forked", "running", "zombie"}
    BY DEF IInv, CallInv, Waiting
  <2>4. pc \in {"drain", "finish"} => writers = {}
    BY <2>1 DEF IInv, CallInv, IsAlive
  <2> QED
    BY <2>2, <2>3, <2>4 DEF ChildIsReaped
<1> QED
  BY <1>1, BenchmarkInvariant, PTL

\* Success and time-out are reported exactly when they happened, although the
\* child may end between the last look at it and the signal.
THEOREM BenchmarkOutcomeIsTrue == Spec => []OutcomeIsTrue
<1>1. IInv => OutcomeIsTrue
  BY DEF IInv, OutcomeInv, OutcomeIsTrue
<1> QED
  BY <1>1, BenchmarkInvariant, PTL

\* The buffer is never overrun, no output is lost unless the buffer is full, and
\* what fits is searched for the flow to its end.
THEOREM BenchmarkBufferIsKept == Spec => []BufferIsKept
<1>1. IInv => BufferIsKept
  <2> SUFFICES ASSUME IInv
               PROVE  BufferIsKept
    OBVIOUS
  <2>1. /\ used \in Nat /\ written \in Nat /\ MaxUsed \in Int
        /\ used <= written /\ used <= MaxUsed
    BY ChildAssumption DEF IInv, TypeOK, BufferInv, MaxUsed, ChildAssumption
  <2>2. ASSUME pc = "return", child = "reaped"
        PROVE  /\ used = IF written < MaxUsed THEN written ELSE MaxUsed
               /\ ok /\ Len(Lines) <= MaxUsed => flow = ParsedFlow(Lines, Len(Lines))
    <3>1. FullOrAll
      BY <2>2 DEF IInv, BufferInv
    <3>2. ok => written = Len(Lines) /\ flow = ParsedFlow(Lines, used)
      BY <2>2 DEF IInv, BufferInv, OutcomeInv
    <3>3. ok /\ Len(Lines) <= MaxUsed => used = Len(Lines)
      BY <2>1, <3>1, <3>2 DEF FullOrAll
    <3> QED
      BY <3>1, <3>2, <3>3 DEF FullOrAll
  <2> QED
    BY <2>1, <2>2 DEF BufferIsKept
<1> QED
  BY <1>1, BenchmarkInvariant, PTL

\* What was printed as an int is the flow modulo 2^32 again.
LEMMA WrapsAround ==
  ASSUME NEW f \in Nat
  PROVE  /\ EclFlow(EclLine(f).value) = f % Words
         /\ EclLine(f).kind = "ecl"
<1>1. IntMax \in Nat
  BY ChildAssumption DEF ChildAssumption
<1> DEFINE M == IntMax + 1
           W == 2 * M
           r == (f + M) % W
           q == (f + M) \div W
<1>2. M \in Nat /\ M > 0 /\ W \in Nat \ {0} /\ W = 2 * M /\ W = Words
  BY <1>1 DEF Words
<1>3. EclLine(f).value = r - M /\ EclLine(f).kind = "ecl"
  <2>1. f + IntMax + 1 = f + M
    BY <1>1
  <2>2. EclLine(f) = [kind |-> "ecl", value |-> ((f + IntMax + 1) % Words) - M]
    BY DEF EclLine
  <2>3. EclLine(f) = [kind |-> "ecl", value |-> r - M]
    BY <1>2, <2>1, <2>2, Zenon
  <2> HIDE DEF r, M
  <2> QED
    BY <2>3
<1> HIDE DEF M, W
<1>4. f + M \in Int
  BY <1>2
<1>5. r \in 0 .. (W - 1) /\ f + M = W * q + r /\ q \in Int
  BY <1>2, <1>4
<1> HIDE DEF r, q
<1>6. CASE r < M
  <2>1. f = W * (q - 1) + (r + M) /\ r + M \in 0 .. (W - 1) /\ q - 1 \in Int
    BY <1>2, <1>5, <1>6
  <2>2. f % W = r + M
    <3>1. PICK k \in Int, s \in 0 .. (W - 1) : k = q - 1 /\ s = r + M
      BY <2>1
    <3>2. f = W * k + s
      BY <2>1, <3>1
    <3>3. f % W = s
      BY <1>2, <3>2
    <3> QED
      BY <3>1, <3>3
  <2>3. r - M < 0 /\ (r - M) + W = r + M
    BY <1>2, <1>5, <1>6
  <2> QED
    BY <1>2, <1>3, <2>2, <2>3 DEF EclFlow
<1>7. CASE ~(r < M)
  <2>1. f = W * q + (r - M) /\ r - M \in 0 .. (W - 1) /\ ~(r - M < 0)
    BY <1>2, <1>5, <1>7
  <2>2. f % W = r - M
    <3>1. PICK s \in 0 .. (W - 1) : s = r - M
      BY <2>1
    <3>2. f = W * q + s
      BY <2>1, <3>1
    <3>3. f % W = s
      BY <1>2, <1>5, <3>2
    <3> QED
      BY <3>1, <3>3
  <2> QED
    BY <1>2, <1>3, <2>1, <2>2 DEF EclFlow
<1> QED
  BY <1>6, <1>7

\* The only line with a flow is the one that counts.
LEMMA OneLineIsParsed ==
  ASSUME NEW prog \in Programs, NEW i \in 1 .. Len(prog.lines),
         prog.lines[i].kind # "text",
         \A k \in 1 .. Len(prog.lines) : prog.lines[k].kind # "text" => k = i
  PROVE  ParsedFlow(prog.lines, Len(prog.lines)) = ValueOf(prog.lines[i])
<1> DEFINE found == {k \in 1 .. Len(prog.lines) : prog.lines[k].kind # "text"}
           last  == {k \in found : \A j \in found : j <= k}
<1>1. found = {i}
  OBVIOUS
<1>2. last = {i}
  <2> HIDE DEF found
  <2>1. i <= i
    OBVIOUS
  <2> QED
    BY <1>1, <2>1
<1>3. (CHOOSE k \in last : TRUE) = i
  BY <1>2
<1>4. last # {}
  BY <1>2
<1> QED
  BY <1>3, <1>4 DEF ParsedFlow

\* OutputIsKept: the flow of a success is the one its child found, if the output fits
\* the buffer, whatever was still in the pipe when the child ended; of what
\* ECL-MaxFlow finds, the remainder by 2^32.
THEOREM BenchmarkOutputIsKept == Spec => []OutputIsKept
<1>1. IInv /\ BufferIsKept => OutputIsKept
  <2> SUFFICES ASSUME IInv, BufferIsKept, pc = "return", ok, Len(Lines) <= MaxUsed
               PROVE  flow = IF \E i \in 1 .. Len(Lines) : Lines[i].kind = "ecl"
                             THEN program.found % Words ELSE program.found
    BY DEF OutputIsKept
  <2>1. child = "reaped" /\ status = "success" /\ program \in Programs
    BY DEF IInv, OutcomeInv, TypeOK
  <2>2. program.end = "success" /\ program.found \in Nat
    BY <2>1, ChildAssumption DEF IInv, BufferInv, ChildAssumption
  <2>3. flow = ParsedFlow(Lines, Len(Lines))
    BY <2>1 DEF BufferIsKept
  <2>4. PICK i \in 1 .. Len(Lines) :
          /\ Lines[i] \in {FlowLine(program.found), EclLine(program.found)}
          /\ \A k \in 1 .. Len(Lines) : Lines[k].kind # "text" => k = i
    BY <2>1, <2>2, ReportAssumption DEF ReportAssumption, Lines
  <2>5. CASE Lines[i] = FlowLine(program.found)
    <3>1. Lines[i].kind = "flow" /\ ValueOf(Lines[i]) = program.found
      BY <2>5 DEF FlowLine, ValueOf
    <3>2. flow = program.found
      BY <2>1, <2>3, <2>4, <3>1, OneLineIsParsed DEF Lines
    <3>3. ~\E k \in 1 .. Len(Lines) : Lines[k].kind = "ecl"
      BY <2>4, <3>1
    <3> QED
      BY <3>2, <3>3
  <2>6. CASE Lines[i] = EclLine(program.found)
    <3>1. Lines[i].kind = "ecl" /\ EclFlow(Lines[i].value) = program.found % Words
      BY <2>2, <2>6, WrapsAround
    <3>2. ValueOf(Lines[i]) = program.found % Words
      BY <3>1 DEF ValueOf
    <3>3. flow = program.found % Words
      BY <2>1, <2>3, <2>4, <3>1, <3>2, OneLineIsParsed DEF Lines
    <3> QED
      BY <3>1, <3>3
  <2> QED
    BY <2>4, <2>5, <2>6
<1> QED
  BY <1>1, BenchmarkInvariant, BenchmarkBufferIsKept, PTL

\* The exit code of the program is the verdict on all cases, solvers and runs.
THEOREM BenchmarkExitCodeIsVerdict == Spec => []ExitCodeIsVerdict
<1>1. IInv => ExitCodeIsVerdict
  BY DEF IInv, VerdictInv, ExitCodeIsVerdict
<1> QED
  BY <1>1, BenchmarkInvariant, PTL

\* Every row of the summary tells what the runs of its configuration came to.
THEOREM BenchmarkRowsAreHonest == Spec => RowsAreHonest
<1>1. ASSUME IInv, IInv', [Next]_vars, pc = "run", pc' = "config", ~rawCsv
      PROVE  RowIsHonest'
  <2>1. ~Call /\ ~UNCHANGED vars
    BY <1>1, CallFrame DEF IInv, CallLabels, vars
  <2>2. Summarise
    BY <1>1, <2>1 DEF Next, Driver, StartCase, LastCase, StartConfig, LastConfig, Launch, Judge,
      Summarise, Exit
  <2>3. /\ Len(log) = run - 1
        /\ okRuns = Cardinality(GoodRuns)
        /\ solverFlow = IF GoodRuns = {} THEN -1 ELSE expectedFlow
        /\ solverFailed <=> BadRuns # {}
        /\ BadRuns = {} => solverStatus = "ok"
        /\ BadRuns # {} => \E l \in BadRuns : /\ \A other \in BadRuns : other <= l
                                              /\ solverStatus = Failure(log[l])
        /\ expectedFlow = -1 => \A i \in DOMAIN log : ~log[i].ok
    BY <1>1 DEF IInv, RowInv
  <2>4. /\ Len(log) \in Nat /\ DOMAIN log = 1 .. Len(log)
        /\ GoodRuns \subseteq 1 .. Len(log) /\ BadRuns = (1 .. Len(log)) \ GoodRuns
        /\ Cardinality(1 .. Len(log)) = Len(log)
        /\ IsFiniteSet(GoodRuns) /\ Cardinality(GoodRuns) \in Nat
    BY <1>1, RunFacts DEF IInv
  <2>5. Len(log) = Runs
    BY <1>1, <2>2, <2>3, DriverAssumption DEF IInv, TypeOK, Summarise, DriverAssumption
  <2>6. /\ UNCHANGED <<log, expectedFlow, okRuns, solverFlow>>
        /\ solverStatus' = IF ~solverFailed /\ okRuns # Runs THEN "partial" ELSE solverStatus
        /\ row' = [status |-> solverStatus', okRuns |-> okRuns, flow |-> solverFlow,
                   consistent |-> FlowConsistent]
    BY <1>1, <2>2 DEF Summarise, historyVars
  <2>7. GoodRuns' = GoodRuns /\ BadRuns' = BadRuns /\ LastBadRun' = LastBadRun
    BY <2>6 DEF GoodRuns, BadRuns, LastBadRun
  <2>8. FlowConsistent <=> GoodRuns # {}
    <3>1. Cardinality(GoodRuns) = 0 <=> GoodRuns = {}
      BY <2>4, FS_EmptySet
    <3>2. GoodRuns # {} => expectedFlow # -1
      BY <2>3 DEF GoodRuns
    <3>3. expectedFlow = -1 \/ expectedFlow \in Nat
      BY <1>1 DEF IInv, VerdictInv
    <3>4. /\ okRuns = Cardinality(GoodRuns)
          /\ solverFlow = IF GoodRuns = {} THEN -1 ELSE expectedFlow
          /\ Cardinality(GoodRuns) \in Nat
      BY <2>3, <2>4
    <3>5. CASE GoodRuns = {}
      <4>1. okRuns = 0
        BY <3>1, <3>4, <3>5
      <4> QED
        BY <3>5, <4>1 DEF FlowConsistent
    <3>6. CASE GoodRuns # {}
      <4>1. okRuns > 0
        BY <3>1, <3>4, <3>6
      <4>2. expectedFlow >= 0
        BY <3>2, <3>3, <3>6
      <4>3. solverFlow = expectedFlow
        BY <3>4, <3>6
      <4> QED
        BY <3>6, <4>1, <4>2, <4>3 DEF FlowConsistent
    <3> QED
      BY <3>5, <3>6
  <2>9. solverStatus' = IF BadRuns = {} THEN "ok" ELSE Failure(LastBadRun)
    <3>1. CASE BadRuns = {}
      <4>1. GoodRuns = 1 .. Len(log)
        BY <2>4, <3>1
      <4>2. okRuns = Runs
        BY <2>3, <2>4, <2>5, <4>1
      <4> QED
        BY <2>3, <2>6, <3>1, <4>2
    <3>2. CASE BadRuns # {}
      <4>1. PICK l \in BadRuns : /\ \A other \in BadRuns : other <= l
                                 /\ solverStatus = Failure(log[l])
        BY <2>3, <3>2
      <4> DEFINE last == CHOOSE i \in BadRuns : \A other \in BadRuns : other <= i
      <4>2. last \in BadRuns /\ \A other \in BadRuns : other <= last
        BY <4>1
      <4>3. last <= l /\ l <= last /\ last \in Nat /\ l \in Nat
        BY <2>4, <4>1, <4>2
      <4>4. last = l
        <5> HIDE DEF last
        <5> QED
          BY <4>3
      <4>5. LastBadRun = log[l]
        BY <4>4 DEF LastBadRun
      <4> QED
        BY <2>3, <2>6, <3>2, <4>1, <4>5
    <3> QED
      BY <3>1, <3>2
  <2> QED
    BY <2>3, <2>5, <2>6, <2>7, <2>8, <2>9 DEF RowIsHonest
<1> QED
  BY <1>1, BenchmarkInvariant, PTL DEF Spec, RowsAreHonest

===============================================================================
