-------------------------- MODULE LoopManagerProofs --------------------------
(***************************************************************************)
(* TLAPS proofs about LoopManager, for every limit of iterations and of    *)
(* failures and any number of starts.  Everything rests on one fact        *)
(* (RunnerInv): a task that has not ended is the one in _tasks.            *)
(***************************************************************************)
EXTENDS LoopManager, TLAPS

(* Only the latest task is live, and the tasks after it are not born.      *)
RunnerInv ==
    /\ \A k \in Task : Live(k) => k = latest
    /\ \A k \in Task : k > latest => tasks[k] = "unborn" /\ cancel[k] = "no"
    /\ latest # 0 => tasks[latest] # "unborn"

TickInv ==
    /\ iterations <= MaxIterations
    /\ latest # 0 /\ Ticking(latest) => iterations < MaxIterations
    /\ runs = iterations + cut + Interrupted

(* The row counts what the tasks together have failed in a row, and a task *)
(* that has not ended still owes the tick that its start bought.           *)
StreakInv ==
    /\ streak = failures
    /\ streak < MaxFailures + latest
    /\ Running => streak < MaxFailures + latest - 1
    /\ Running /\ tasks[latest] = "sleep" => streak < MaxFailures

(* What the row says of the latest task, and the reverse.                  *)
RowInv ==
    /\ status = "running" /\ ~lost => Running
    /\ Running /\ cancel[latest] # "no" => status # "running"
    /\ Running /\ tasks[latest] = "completing" => status # "running"
    /\ Running /\ status = "stopped" => cancel[latest] # "no"

IInv == TypeOK /\ RunnerInv /\ TickInv /\ StreakInv /\ RowInv

-----------------------------------------------------------------------------
LEMMA StartIsLive ==
    ASSUME TypeOK, RunnerInv, Start, ~Running
    PROVE  /\ latest < MaxStarts /\ latest' = latest + 1 /\ latest + 1 \in Task
           /\ tasks' = [tasks EXCEPT ![latest + 1] = "new"]
           /\ status' = "running" /\ lost' = FALSE
           /\ cancel[latest + 1] = "no"
           /\ UNCHANGED <<iterations, failures, cancel, runs, cut, streak>>
BY LoopAssumption DEF Start, MovesTo, TypeOK, RunnerInv, Task

LEMMA InvInit == Init => IInv
<1> SUFFICES ASSUME Init PROVE IInv
  OBVIOUS
<1>1. lost \in BOOLEAN
  BY Zenon DEF Init
<1>2. TypeOK
  BY <1>1, LoopAssumption DEF Init, TypeOK, Places
<1>3. RunnerInv /\ ~Running /\ Interrupted = 0
  BY DEF Init, RunnerInv, Live, Running, Interrupted
<1>4. TickInv /\ StreakInv /\ RowInv
  BY <1>3, LoopAssumption DEF Init, TickInv, StreakInv, RowInv
<1> QED BY <1>2, <1>3, <1>4 DEF IInv

LEMMA TypeStep == TypeOK /\ [Next]_vars => TypeOK'
<1> SUFFICES ASSUME TypeOK, [Next]_vars PROVE TypeOK'
  OBVIOUS
<1> USE LoopAssumption DEF TypeOK, Places
<1>1. CASE Start
  <2>1. lost' \in BOOLEAN
    BY <1>1, Zenon DEF Start
  <2> QED BY <1>1, <2>1 DEF Start, MovesTo, Task
<1>2. CASE Pause \/ Stop
  BY <1>2 DEF Pause, Stop, Task, Running
<1>3. ASSUME NEW k \in Task, TaskStep(k) PROVE TypeOK'
  <2>1. CASE Head(k)
    BY <2>1 DEF Head, MovesTo
  <2>2. CASE TickSucceeds(k) \/ ErrorTold(k)
    BY <2>2 DEF TickSucceeds, ErrorTold, RecordTick, MovesTo
  <2>3. CASE TickFails(k) \/ CompleteTold(k)
    BY <2>3 DEF TickFails, CompleteTold, MovesTo, row, history
  <2>4. CASE Cancelled(k)
    BY <2>4 DEF Cancelled, MovesTo, row
  <2> QED BY <1>3, <2>1, <2>2, <2>3, <2>4 DEF TaskStep
<1>4. CASE Restart
  BY <1>4 DEF Restart, Interrupted, row
<1>5. CASE UNCHANGED vars
  BY <1>5 DEF vars
<1> QED BY <1>1, <1>2, <1>3, <1>4, <1>5 DEF Next, Commands

(* A step of a task is a step of the latest one.                           *)
LEMMA StepIsLatest ==
    ASSUME TypeOK, RunnerInv, NEW k \in Task, TaskStep(k)
    PROVE  k = latest /\ Running /\ latest' = latest /\ latest # 0
BY DEF TaskStep, Head, TickSucceeds, TickFails, ErrorTold, CompleteTold, Cancelled, TaskIsAt,
       RecordTick, RunnerInv, Live, Running, Task, row, history

LEMMA RunnerStep == TypeOK /\ RunnerInv /\ [Next]_vars => RunnerInv'
<1> SUFFICES ASSUME TypeOK, RunnerInv, [Next]_vars PROVE RunnerInv'
  OBVIOUS
<1> USE DEF RunnerInv, Live, TypeOK
<1>1. CASE Start
  <2>1. CASE Running
    BY <1>1, <2>1 DEF Start
  <2>2. CASE ~Running
    <3>1. \A k \in Task : ~Live(k)
      BY <2>2 DEF Running, Task
    <3>2. /\ latest' = latest + 1 /\ latest + 1 \in Task /\ cancel' = cancel
          /\ tasks' = [tasks EXCEPT ![latest + 1] = "new"]
      BY <1>1, <2>2, StartIsLive
    <3> QED BY <3>1, <3>2, LoopAssumption DEF Task
  <2> QED BY <2>1, <2>2
<1>2. CASE Pause \/ Stop
  BY <1>2 DEF Pause, Stop, Running, Task
<1>3. ASSUME NEW k \in Task, TaskStep(k) PROVE RunnerInv'
  <2>0. k = latest /\ latest' = latest /\ latest # 0
    BY <1>3, StepIsLatest
  <2>1. PICK p \in Places \ {"unborn"} : tasks' = [tasks EXCEPT ![k] = p]
    BY <1>3 DEF TaskStep, Head, TickSucceeds, TickFails, ErrorTold, CompleteTold, Cancelled,
                RecordTick, MovesTo, Places
  <2>2. cancel' = cancel
    BY <1>3 DEF TaskStep, Head, TickSucceeds, TickFails, ErrorTold, CompleteTold, Cancelled,
                RecordTick
  <2> QED BY <2>0, <2>1, <2>2 DEF Task
<1>4. CASE Restart
  BY <1>4 DEF Restart, Task
<1>5. CASE UNCHANGED vars
  BY <1>5 DEF vars
<1> QED BY <1>1, <1>2, <1>3, <1>4, <1>5 DEF Next, Commands

LEMMA TickStep == TypeOK /\ RunnerInv /\ TickInv /\ [Next]_vars => TickInv'
<1> SUFFICES ASSUME TypeOK, RunnerInv, TickInv, [Next]_vars PROVE TickInv'
  OBVIOUS
<1> USE LoopAssumption DEF TickInv, Interrupted, Ticking
<1>0. iterations \in Nat /\ runs \in Nat /\ cut \in Nat /\ latest \in 0..MaxStarts
      /\ tasks \in [Task -> Places]
  BY DEF TypeOK
<1>1. CASE Start
  <2>1. CASE Running
    BY <1>1, <2>1 DEF Start
  <2>2. CASE ~Running
    <3>1. Interrupted = 0
      BY <2>2 DEF Running, Live
    <3> QED BY <1>0, <1>1, <2>2, <3>1, StartIsLive
  <2> QED BY <2>1, <2>2
<1>2. CASE Pause \/ Stop
  BY <1>2 DEF Pause, Stop
<1>3. ASSUME NEW k \in Task, TaskStep(k) PROVE TickInv'
  <2>0. k = latest /\ latest' = latest /\ latest # 0
    BY <1>3, StepIsLatest
  <2>1. CASE Head(k)
    BY <1>0, <2>0, <2>1 DEF Head, MovesTo
  <2>2. CASE TickSucceeds(k) \/ ErrorTold(k)
    BY <1>0, <2>0, <2>2 DEF TickSucceeds, ErrorTold, RecordTick, MovesTo, TaskIsAt
  <2>3. CASE TickFails(k) \/ CompleteTold(k)
    BY <1>0, <2>0, <2>3 DEF TickFails, CompleteTold, MovesTo, TaskIsAt, row, history
  <2>4. CASE Cancelled(k)
    BY <1>0, <2>0, <2>4 DEF Cancelled, MovesTo, row
  <2> QED BY <1>3, <2>1, <2>2, <2>3, <2>4 DEF TaskStep
<1>4. CASE Restart
  <2>1. Interrupted' = 0
    BY <1>0, <1>4 DEF Restart, Live, Task
  <2> QED BY <1>0, <1>4, <2>1 DEF Restart, row
<1>5. CASE UNCHANGED vars
  BY <1>5 DEF vars
<1> QED BY <1>1, <1>2, <1>3, <1>4, <1>5 DEF Next, Commands

LEMMA StreakStep == TypeOK /\ RunnerInv /\ StreakInv /\ [Next]_vars => StreakInv'
<1> SUFFICES ASSUME TypeOK, RunnerInv, StreakInv, [Next]_vars PROVE StreakInv'
  OBVIOUS
<1> USE LoopAssumption DEF StreakInv
<1>0. /\ streak \in Nat /\ failures \in Nat /\ tasks \in [Task -> Places]
      /\ latest \in Nat
  BY DEF TypeOK
<1>1. CASE Start
  <2>1. CASE Running
    BY <1>1, <2>1 DEF Start, Running, Live
  <2>2. CASE ~Running
    <3>1. tasks'[latest'] = "new" /\ latest' = latest + 1 /\ UNCHANGED <<streak, failures>>
      BY <1>0, <1>1, <2>2, StartIsLive
    <3> QED BY <1>0, <3>1
  <2> QED BY <2>1, <2>2
<1>2. CASE Pause \/ Stop
  BY <1>2 DEF Pause, Stop, Running, Live
<1>3. ASSUME NEW k \in Task, TaskStep(k) PROVE StreakInv'
  <2>0. k = latest /\ latest' = latest /\ latest # 0 /\ Running
    BY <1>3, StepIsLatest
  <2>1. CASE Head(k) \/ TickFails(k) \/ CompleteTold(k) \/ Cancelled(k)
    <3>1. /\ tasks'[latest] # "sleep"
          /\ UNCHANGED <<streak, failures, latest>>
      BY <1>0, <2>0, <2>1 DEF Head, TickFails, CompleteTold, Cancelled, MovesTo, row, history
    <3> QED BY <1>0, <2>0, <3>1
  <2>2. CASE TickSucceeds(k) \/ ErrorTold(k)
    <3>1. PICK failed \in BOOLEAN : RecordTick(k, failed)
      BY <2>2 DEF TickSucceeds, ErrorTold
    <3>2. /\ failures' = streak' /\ streak' <= streak + 1 /\ streak' \in Nat
          /\ tasks'[latest] \in {"ended", "completing", "sleep"}
          /\ tasks'[latest] # "ended" => streak' < MaxFailures
      BY <1>0, <2>0, <3>1 DEF RecordTick, MovesTo
    <3>3. Running' => tasks'[latest] # "ended"
      BY <2>0 DEF Running, Live
    <3> QED BY <1>0, <2>0, <3>2, <3>3
  <2> QED BY <1>3, <2>1, <2>2 DEF TaskStep
<1>4. CASE Restart
  <2>1. ~Running'
    BY <1>0, <1>4 DEF Restart, Running, Live, Task, TypeOK
  <2> QED BY <1>4, <2>1 DEF Restart, row
<1>5. CASE UNCHANGED vars
  BY <1>5 DEF vars, Running, Live
<1> QED BY <1>1, <1>2, <1>3, <1>4, <1>5 DEF Next, Commands

LEMMA RowStep == TypeOK /\ RunnerInv /\ RowInv /\ [Next]_vars => RowInv'
<1> SUFFICES ASSUME TypeOK, RunnerInv, RowInv, [Next]_vars PROVE RowInv'
  OBVIOUS
<1> USE DEF RowInv
<1>0. /\ tasks \in [Task -> Places] /\ latest \in 0..MaxStarts
      /\ cancel \in [Task -> {"no", "outside", "inside"}]
  BY DEF TypeOK
<1>1. CASE Start
  <2>1. CASE Running
    BY <1>1, <2>1 DEF Start, Running, Live
  <2>2. CASE ~Running
    BY <1>0, <1>1, <2>2, StartIsLive DEF Running, Live
  <2> QED BY <2>1, <2>2
<1>2. CASE Pause
  BY <1>2 DEF Pause, Running, Live
<1>3. CASE Stop
  BY <1>0, <1>3, LoopAssumption DEF Stop, Running, Live, Task
<1>4. ASSUME NEW k \in Task, TaskStep(k) PROVE RowInv'
  <2>0. k = latest /\ latest' = latest /\ latest # 0 /\ Running
    BY <1>4, StepIsLatest
  <2>1. CASE Head(k)
    BY <1>0, <2>0, <2>1 DEF Head, MovesTo, Running, Live, row
  <2>2. CASE TickSucceeds(k) \/ ErrorTold(k)
    BY <1>0, <2>0, <2>2 DEF TickSucceeds, ErrorTold, RecordTick, MovesTo, Running, Live
  <2>3. CASE TickFails(k)
    BY <1>0, <2>0, <2>3 DEF TickFails, MovesTo, Running, Live, row, history
  <2>4. CASE CompleteTold(k)
    BY <1>0, <2>0, <2>4 DEF CompleteTold, TaskIsAt, MovesTo, Running, Live, row, history
  <2>5. CASE Cancelled(k)
    BY <1>0, <2>0, <2>5 DEF Cancelled, MovesTo, Running, Live, row
  <2> QED BY <1>4, <2>1, <2>2, <2>3, <2>4, <2>5 DEF TaskStep
<1>5. CASE Restart
  <2>1. ~Running'
    BY <1>0, <1>5 DEF Restart, Running, Live, Task
  <2> QED BY <1>5, <2>1 DEF Restart, row
<1>6. CASE UNCHANGED vars
  BY <1>6 DEF vars, Running, Live
<1> QED BY <1>1, <1>2, <1>3, <1>4, <1>5, <1>6 DEF Next, Commands

LEMMA Inductive == Spec => []IInv
<1>1. IInv /\ [Next]_vars => IInv'
  BY TypeStep, RunnerStep, TickStep, StreakStep, RowStep DEF IInv
<1> QED BY <1>1, InvInit, PTL DEF Spec

-----------------------------------------------------------------------------
(* The variables of the row and of the tasks keep their types.             *)
THEOREM TypeCorrect == Spec => []TypeOK
<1>1. IInv => TypeOK
  BY DEF IInv
<1> QED BY <1>1, Inductive, PTL

(* No order of start, stop and restart leads to two tasks of one loop.     *)
THEOREM AtMostOneRunner == Spec => []OneRunner
<1>1. IInv => OneRunner
  BY DEF IInv, RunnerInv, OneRunner
<1> QED BY <1>1, Inductive, PTL

(* max_iterations bounds the counted ticks, and no tick goes uncounted     *)
(* except those that a stop or a restart cut off.                          *)
THEOREM TicksAccounted == Spec => []RunsAccounted
<1>1. IInv => RunsAccounted
  BY DEF IInv, TickInv, RunsAccounted
<1> QED BY <1>1, Inductive, PTL

(* The breaker counts across pauses, stops, starts and the ends of the     *)
(* process: no task goes on after too many failures in a row.              *)
THEOREM BreakerCounts == Spec => []FailuresBreak
<1>1. IInv => FailuresBreak
  BY DEF IInv, RunnerInv, StreakInv, FailuresBreak, Running, Live, Task
<1> QED BY <1>1, Inductive, PTL

(* A running row is never without a task that will run it.                 *)
THEOREM RunningHasTask == Spec => []RunningIsDriven
<1>1. IInv => RunningIsDriven
  BY DEF IInv, RowInv, RunningIsDriven
<1> QED BY <1>1, Inductive, PTL

(* stop() is final.                                                        *)
THEOREM StopIsFinal == Spec => StopHolds
<1> DEFINE Held == status = "stopped" /\ ~StoppedItself =>
                      /\ status' \in {"stopped", "running", "paused"}
                      /\ iterations' = iterations /\ runs' = runs
<1>1. IInv /\ [Next]_vars => [Held]_vars
  <2> SUFFICES ASSUME IInv, Next, status = "stopped", ~StoppedItself PROVE Held
    OBVIOUS
  <2>1. Running => cancel[latest] = "outside"
    BY DEF IInv, TypeOK, RowInv, StoppedItself, Running, Task
  <2>2. CASE Commands \/ Restart
    BY <2>2 DEF Commands, Start, Pause, Stop, Restart, row
  <2>3. ASSUME NEW k \in Task, TaskStep(k) PROVE Held
    <3>1. k = latest /\ Running
      BY <2>3, StepIsLatest DEF IInv
    <3>2. Cancelled(k)
      BY <2>1, <2>3, <3>1 DEF TaskStep, Head, TickSucceeds, TickFails, ErrorTold,
                              CompleteTold, TaskIsAt
    <3> QED BY <3>2 DEF Cancelled, row
  <2> QED BY <2>2, <2>3 DEF Next
<1> QED BY <1>1, Inductive, PTL DEF Spec, StopHolds
=============================================================================
