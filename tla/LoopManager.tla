----------------------------- MODULE LoopManager -----------------------------
(***************************************************************************)
(* metis/loops/loop_manager.py: one background loop, its row in the state  *)
(* store (metis/state/sqlite_store.py, table loops) and the asyncio tasks  *)
(* that LoopManager.start creates for it.  Commands arrive whenever the    *)
(* event loop is free, from outside or from a hook handler or controller   *)
(* that the loop itself is running; the process may be restarted, which    *)
(* loses the tasks and keeps the row.  Loops share nothing with one        *)
(* another, so one is enough.  Task k is the one the k-th effective start  *)
(* created.                                                                *)
(***************************************************************************)
EXTENDS Integers

CONSTANTS
    MaxIterations,  \* max_iterations of the loop
    MaxFailures,    \* max_consecutive_failures of the manager
    MaxStarts       \* bound: how many tasks are ever created

ASSUME LoopAssumption ==
    MaxIterations \in Nat /\ MaxFailures \in Nat \ {0} /\ MaxStarts \in Nat \ {0}

VARIABLES
    status,         \* row: status
    iterations,     \* row: iterations
    failures,       \* row: consecutive_failures
    tasks,          \* where each task is suspended
    latest,         \* _tasks[loop_id], 0 if there is none
    cancel,         \* task.cancel() on a task: from outside or by the task itself
    command,        \* history: the latest command
    runs,           \* history: ticks begun
    cut,            \* history: ticks cut off by a cancellation or a restart
    streak,         \* history: failed ticks in a row, of all tasks
    lost            \* history: the process was restarted under the latest task

row == <<status, iterations, failures>>
history == <<command, runs, cut, streak, lost>>
vars == <<status, iterations, failures, tasks, latest, cancel, command, runs, cut,
          streak, lost>>

Task == 1..MaxStarts
Places == {"unborn", "new", "tick", "error", "sleep", "completing", "ended"}
Live(k) == tasks[k] \notin {"unborn", "ended"}
Ticking(k) == tasks[k] \in {"tick", "error"}
Running == latest # 0 /\ Live(latest)
Interrupted == IF latest # 0 /\ Ticking(latest) THEN 1 ELSE 0

Init ==
    /\ status = "created" /\ iterations = 0 /\ failures = 0
    /\ tasks = [k \in Task |-> "unborn"] /\ latest = 0
    /\ cancel = [k \in Task |-> "no"]
    /\ command = "create" /\ runs = 0 /\ cut = 0 /\ streak = 0 /\ lost = FALSE

MovesTo(k, p) == tasks' = [tasks EXCEPT ![k] = p]
-----------------------------------------------------------------------------
(* Mutants: the status is written before the early return; a second task   *)
(* is created beside a live one.                                           *)
StartEager ==
    /\ command' = "start"
    /\ status' = "running"
    /\ \/ Running /\ UNCHANGED <<tasks, latest, streak, lost>>
       \/ /\ ~Running /\ latest < MaxStarts
          /\ latest' = latest + 1
          /\ MovesTo(latest + 1, "new")
          /\ lost' = FALSE /\ UNCHANGED streak
    /\ UNCHANGED <<iterations, failures, cancel, runs, cut>>

StartTwice ==
    /\ command' = "start"
    /\ latest < MaxStarts
    /\ status' = "running"
    /\ latest' = latest + 1
    /\ MovesTo(latest + 1, "new")
    /\ lost' = FALSE
    /\ UNCHANGED <<iterations, failures, cancel, runs, cut, streak>>

(* Mutant: the failures are counted for one task, not in the row. *)
StartForgetful ==
    /\ command' = "start"
    /\ \/ Running /\ UNCHANGED <<status, failures, tasks, latest, lost>>
       \/ /\ ~Running /\ latest < MaxStarts
          /\ status' = "running"
          /\ latest' = latest + 1
          /\ MovesTo(latest + 1, "new")
          /\ failures' = 0 /\ lost' = FALSE
    /\ UNCHANGED <<iterations, cancel, runs, cut, streak>>

(* start and resume. *)
Start ==
    /\ command' = "start"
    /\ \/ Running /\ UNCHANGED <<status, tasks, latest, lost>>
       \/ /\ ~Running /\ latest < MaxStarts
          /\ status' = "running"
          /\ latest' = latest + 1
          /\ MovesTo(latest + 1, "new")
          /\ lost' = FALSE
    /\ UNCHANGED <<iterations, failures, cancel, runs, cut, streak>>

Pause ==
    /\ command' = "pause"
    /\ status' = "paused"
    /\ UNCHANGED <<iterations, failures, tasks, latest, cancel, runs, cut, streak, lost>>

(* Mutant: the task is left alone. *)
StopUncancelled ==
    /\ command' = "stop"
    /\ status' = "stopped"
    /\ UNCHANGED <<iterations, failures, tasks, latest, cancel, runs, cut, streak, lost>>

(* A task cancelled from outside is suspended, and ends where it is; one   *)
(* that cancels itself runs on to the next suspension.                     *)
Stop ==
    /\ command' = "stop"
    /\ status' = "stopped"
    /\ \/ Running /\ cancel' = [cancel EXCEPT ![latest] = "outside"]
       \/ /\ Running /\ cancel[latest] = "no"
          /\ tasks[latest] \in {"tick", "error", "completing"}
          /\ cancel' = [cancel EXCEPT ![latest] = "inside"]
       \/ ~Running /\ UNCHANGED cancel
    /\ UNCHANGED <<iterations, failures, tasks, latest, runs, cut, streak, lost>>

Commands == Start \/ Pause \/ Stop
-----------------------------------------------------------------------------
(* _run. *)
TaskIsAt(k, p) == tasks[k] = p /\ cancel[k] # "outside"

(* Mutants: a loop that was started again runs past its last iteration; a  *)
(* paused task polls instead of returning.                                 *)
HeadUnlimited(k) ==
    /\ tasks[k] \in {"new", "sleep"} /\ cancel[k] = "no"
    /\ IF status = "running"
       THEN MovesTo(k, "tick") /\ runs' = runs + 1
       ELSE MovesTo(k, "ended") /\ UNCHANGED runs
    /\ UNCHANGED <<row, latest, cancel, command, cut, streak, lost>>

HeadPolling(k) ==
    /\ tasks[k] \in {"new", "sleep"} /\ cancel[k] = "no"
    /\ \/ /\ status = "running" /\ iterations >= MaxIterations
          /\ status' = "complete"
          /\ MovesTo(k, "completing")
          /\ UNCHANGED runs
       \/ /\ status = "running" /\ iterations < MaxIterations
          /\ MovesTo(k, "tick")
          /\ runs' = runs + 1
          /\ UNCHANGED status
    /\ UNCHANGED <<iterations, failures, latest, cancel, command, cut, streak, lost>>

(* The head of the while loop, reached by a new task and after the sleep.  *)
Head(k) ==
    /\ tasks[k] \in {"new", "sleep"} /\ cancel[k] = "no"
    /\ \/ /\ status # "running"
          /\ MovesTo(k, "ended")
          /\ UNCHANGED <<status, runs>>
       \/ /\ status = "running" /\ iterations >= MaxIterations
          /\ status' = "complete"
          /\ MovesTo(k, "completing")
          /\ UNCHANGED runs
       \/ /\ status = "running" /\ iterations < MaxIterations
          /\ MovesTo(k, "tick")
          /\ runs' = runs + 1
          /\ UNCHANGED status
    /\ UNCHANGED <<iterations, failures, latest, cancel, command, cut, streak, lost>>

(* record_loop_tick and what follows it up to the next suspension; the     *)
(* status is not looked at.                                                *)
RecordTick(k, failed) ==
    LET n == iterations + 1
        m == IF failed THEN failures + 1 ELSE 0
    IN /\ iterations' = n /\ failures' = m
       /\ streak' = IF failed THEN streak + 1 ELSE 0
       /\ \/ m >= MaxFailures /\ status' = "failed" /\ MovesTo(k, "ended")
          \/ m < MaxFailures /\ n >= MaxIterations /\ status' = "complete" /\ MovesTo(k, "completing")
          \/ m < MaxFailures /\ n < MaxIterations /\ UNCHANGED status /\ MovesTo(k, "sleep")
       /\ UNCHANGED <<latest, cancel, command, runs, cut, lost>>

TickSucceeds(k) == TaskIsAt(k, "tick") /\ RecordTick(k, FALSE)

TickFails(k) ==
    /\ TaskIsAt(k, "tick")
    /\ MovesTo(k, "error")
    /\ UNCHANGED <<row, latest, cancel, history>>

ErrorTold(k) == TaskIsAt(k, "error") /\ RecordTick(k, TRUE)

CompleteTold(k) ==
    /\ TaskIsAt(k, "completing")
    /\ MovesTo(k, "ended")
    /\ UNCHANGED <<row, latest, cancel, history>>

Cancelled(k) ==
    /\ Live(k) /\ cancel[k] # "no"
    /\ MovesTo(k, "ended")
    /\ cut' = IF Ticking(k) THEN cut + 1 ELSE cut
    /\ UNCHANGED <<row, latest, cancel, command, runs, streak, lost>>

TaskStep(k) ==
    \/ Head(k) \/ TickSucceeds(k) \/ TickFails(k) \/ ErrorTold(k)
    \/ CompleteTold(k) \/ Cancelled(k)

(* The process ends and a new LoopManager is built on the same database.   *)
Restart ==
    /\ latest # 0
    /\ tasks' = [k \in Task |-> IF Live(k) THEN "ended" ELSE tasks[k]]
    /\ cut' = cut + Interrupted
    /\ lost' = TRUE
    /\ UNCHANGED <<row, latest, cancel, command, runs, streak>>

Next == Commands \/ Restart \/ \E k \in Task : TaskStep(k)

Spec == Init /\ [][Next]_vars

(* The event loop runs every task that is ready, and a tick ends: the      *)
(* controller's run is itself bounded by turns and timeouts.               *)
FairSpec == Spec /\ \A k \in Task : WF_vars(TaskStep(k))
-----------------------------------------------------------------------------
TypeOK ==
    /\ status \in {"created", "running", "paused", "stopped", "complete", "failed"}
    /\ iterations \in Nat /\ failures \in Nat
    /\ tasks \in [Task -> Places] /\ latest \in 0..MaxStarts
    /\ cancel \in [Task -> {"no", "outside", "inside"}]
    /\ command \in {"create", "start", "pause", "stop"}
    /\ runs \in Nat /\ cut \in Nat /\ streak \in Nat /\ lost \in BOOLEAN

(* Whatever the order of commands, restarts and ticks, at most one task    *)
(* drives the loop: two would run the prompt twice per interval.           *)
OneRunner == \A j, k \in Task : Live(j) /\ Live(k) => j = k

(* The loop never counts more than max_iterations ticks, and every tick    *)
(* that ran the prompt is counted, is still running, or was cut off by a   *)
(* stop or a restart: the prompt never runs unaccounted for.               *)
RunsAccounted ==
    /\ iterations <= MaxIterations
    /\ runs = iterations + cut + Interrupted

(* The breaker holds over pauses, stops and the end of the process: after  *)
(* max_consecutive_failures failed ticks in a row, whichever tasks ran     *)
(* them, no task sleeps towards another tick, and each further start of    *)
(* the loop buys a single one.                                             *)
FailuresBreak ==
    /\ \A k \in Task : tasks[k] = "sleep" => streak < MaxFailures
    /\ streak < MaxFailures + latest

(* A row that says "running" has a task that will run it, as long as the   *)
(* process lives: no order of pause, stop and start leaves it orphaned.    *)
RunningIsDriven ==
    status = "running" /\ ~lost => Running /\ cancel[latest] # "outside"

(* stop() is final: until the next command no tick begins or is counted,   *)
(* and a tick that was under way cannot report the loop complete or        *)
(* failed, unless that tick itself had called stop().                      *)
StoppedItself == Running /\ cancel[latest] = "inside"
StopHolds ==
    [][status = "stopped" /\ ~StoppedItself =>
          /\ status' \in {"stopped", "running", "paused"}
          /\ iterations' = iterations /\ runs' = runs]_vars

(* Every task ends: a loop cannot run for ever.                            *)
TasksEnd == \A k \in Task : Live(k) ~> ~Live(k)

(* After start() or resume() the loop is no longer paused or stopped.      *)
ResumeTakesEffect == command = "start" => status \notin {"paused", "stopped"}
=============================================================================
