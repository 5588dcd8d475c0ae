---------------------------- MODULE ToolDispatch ----------------------------
(***************************************************************************)
(* metis/tools/dispatcher.py: ToolDispatcher.dispatch, the guardrails      *)
(* (metis/tools/guardrails.py) around it and the thread pool that runs the *)
(* tool handlers.  A dispatch waits for its handler with future.result,    *)
(* which blocks the event loop: until the handler ends or the timeout      *)
(* passes no other coroutine takes a step.  A timeout gives up the wait    *)
(* and nothing else: the handler stays in the pool, queued or running.     *)
(*                                                                         *)
(* A job is one invocation of dispatch(), numbered in the order they are   *)
(* made.  A call is what the guardrails tell apart: the tool and its       *)
(* arguments.  before_call sees the arguments as the model wrote them; the *)
(* hooks, the handler and after_call get them coerced to the tool's        *)
(* schema, "30" to 30 for instance, which is another call to the counters. *)
(* Refusals (unknown tool, policy, schema) and the verdict of the          *)
(* TOOL_PRE_DISPATCH hooks, human approval among them, are nondeterminism. *)
(***************************************************************************)
EXTENDS Integers, Sequences, FiniteSets

CONSTANTS
    Calls,          \* (name, arguments) pairs
    Tools,
    ToolOf,         \* [Calls -> Tools]
    Mutating,       \* calls of a tool whose side_effect is not "read"
    Coerced,        \* [Calls -> Calls]: a call with its arguments coerced
    Workers,        \* TOOL_DISPATCHER_WORKERS
    MaxExact,       \* max_exact_failures
    MaxSame,        \* max_same_tool_failures
    MaxRepeats,     \* max_mutating_repeats
    MaxJobs         \* bound: dispatch() invocations

Jobs == 1..MaxJobs

ASSUME CallAssumption == ToolOf \in [Calls -> Tools] /\ Mutating \subseteq Calls
(* Coercion keeps the tool and leaves what it made alone.                  *)
ASSUME CoercionAssumption ==
    /\ Coerced \in [Calls -> Calls]
    /\ \A c \in Calls : /\ Coerced[Coerced[c]] = Coerced[c]
                        /\ ToolOf[Coerced[c]] = ToolOf[c]
                        /\ Coerced[c] \in Mutating <=> c \in Mutating
ASSUME LimitAssumption ==
    /\ Workers \in Nat \ {0}
    /\ MaxJobs \in Nat
    /\ MaxExact \in Nat \ {0} /\ MaxSame \in Nat \ {0} /\ MaxRepeats \in Nat \ {0}

VARIABLES
    guarded,        \* self.guardrails is not None (the "small" profile)
    made,           \* the calls of the dispatch() invocations so far
    stage,          \* where each dispatch() stands
    result,         \* the ToolResult it returned
    queue,          \* jobs submitted to the pool and not yet started
    executing,      \* jobs a worker is running
    outcome,        \* what the handler of a job did
    exactFailures,  \* _failure_counts
    toolFailures,   \* _tool_failure_counts
    repeats,        \* _mutating_counts
    started,        \* history: handlers started, per call
    gaveUp          \* history: timeouts reported, per call

guardVars == <<exactFailures, toolFailures, repeats>>
poolVars == <<queue, executing, outcome, started>>
vars == <<guarded, made, stage, result, queue, executing, outcome, exactFailures,
          toolFailures, repeats, started, gaveUp>>

Stages == {"idle", "asking", "waiting", "returned"}
Results == {"none", "ok", "command_failed", "runtime_error", "timeout", "blocked"}
Outcomes == {"none", "ok", "exit_code", "exception", "timeout_error", "lost"}

Init ==
    /\ guarded \in BOOLEAN /\ made = <<>>
    /\ stage = [d \in Jobs |-> "idle"] /\ result = [d \in Jobs |-> "none"]
    /\ queue = <<>> /\ executing = {}
    /\ outcome = [d \in Jobs |-> "none"]
    /\ exactFailures = [c \in Calls |-> 0]
    /\ toolFailures = [t \in Tools |-> 0]
    /\ repeats = [c \in Calls |-> 0]
    /\ started = [c \in Calls |-> 0] /\ gaveUp = [c \in Calls |-> 0]

Outstanding == {d \in Jobs : stage[d] \in {"asking", "waiting"}}
LoopIsFree == \A d \in Jobs : stage[d] # "waiting"
IsMutating(d) == made[d] \in Mutating
\* What the hooks, the handler and after_call get.
Performed(d) == Coerced[made[d]]

Return(d, r) ==
    /\ stage' = [stage EXCEPT ![d] = "returned"]
    /\ result' = [result EXCEPT ![d] = r]
-----------------------------------------------------------------------------
(* How AgentLoop calls: one job at a time, except that a profile with      *)
(* concurrent dispatch, which has no guardrails, overlaps reads.           *)
CallerMay(d, c) ==
    /\ LoopIsFree
    /\ d = Len(made) + 1
    /\ made' = Append(made, c)
    /\ \/ Outstanding = {}
       \/ ~guarded /\ c \notin Mutating /\ \A e \in Outstanding : ~IsMutating(e)

(* Mutant: no limit on the failures of a tool. *)
BlocksPerCall(c) ==
    /\ guarded
    /\ \/ exactFailures[c] >= MaxExact
       \/ c \in Mutating /\ repeats[c] >= MaxRepeats

(* guardrails.before_call, with the arguments as they came. *)
Blocks(c) ==
    /\ guarded
    /\ \/ exactFailures[c] >= MaxExact
       \/ toolFailures[ToolOf[c]] >= MaxSame
       \/ c \in Mutating /\ repeats[c] >= MaxRepeats

(* Unknown tool, policy, guardrails, schema. *)
Refuse(d, c) ==
    /\ CallerMay(d, c)
    /\ Return(d, "blocked")
    /\ UNCHANGED <<guarded, poolVars, guardVars, gaveUp>>

Admit(d, c) ==
    /\ CallerMay(d, c) /\ ~Blocks(c)
    /\ stage' = [stage EXCEPT ![d] = "asking"]
    /\ UNCHANGED <<guarded, result, poolVars, guardVars, gaveUp>>

HookBlocks(d) ==
    /\ LoopIsFree /\ stage[d] = "asking"
    /\ Return(d, "blocked")
    /\ UNCHANGED <<guarded, made, poolVars, guardVars, gaveUp>>

Submit(d) ==
    /\ LoopIsFree /\ stage[d] = "asking"
    /\ stage' = [stage EXCEPT ![d] = "waiting"]
    /\ queue' = Append(queue, d)
    /\ UNCHANGED <<guarded, made, result, executing, outcome, started, guardVars, gaveUp>>
-----------------------------------------------------------------------------
(* The pool. *)
WorkerTakes ==
    /\ queue # <<>> /\ Cardinality(executing) < Workers
    /\ queue' = Tail(queue)
    /\ executing' = executing \cup {Head(queue)}
    /\ started' = [started EXCEPT ![made[Head(queue)]] = @ + 1]
    /\ UNCHANGED <<guarded, made, stage, result, outcome, guardVars, gaveUp>>

(* The handler returns a result, one with an exit_code that is not 0, or   *)
(* it raises, TimeoutError or another (a result that cannot be serialised  *)
(* or stored is treated like an exception).  Nobody looks at the outcome   *)
(* of a handler whose dispatch has given up.                               *)
HandlerEnds(d) ==
    /\ d \in executing
    /\ executing' = executing \ {d}
    /\ \E o \in Outcomes \ {"none"} :
          /\ (o = "lost") = (stage[d] = "returned")
          /\ outcome' = [outcome EXCEPT ![d] = o]
    /\ UNCHANGED <<guarded, made, stage, result, queue, started, guardVars, gaveUp>>
-----------------------------------------------------------------------------
(* Mutant: a failing mutating call is not counted as a repetition. *)
AfterCallCountsSuccess(d, failed) ==
    LET c == Performed(d) IN
    IF ~guarded THEN UNCHANGED guardVars
    ELSE /\ IF failed
            THEN /\ exactFailures' = [exactFailures EXCEPT ![c] = @ + 1]
                 /\ toolFailures' = [toolFailures EXCEPT ![ToolOf[c]] = @ + 1]
            ELSE UNCHANGED <<exactFailures, toolFailures>>
         /\ repeats' = IF IsMutating(d) /\ ~failed THEN [repeats EXCEPT ![c] = @ + 1] ELSE repeats

(* guardrails.after_call, with the arguments that the handler got. *)
AfterCall(d, failed) ==
    LET c == Performed(d) IN
    IF ~guarded THEN UNCHANGED guardVars
    ELSE /\ IF failed
            THEN /\ exactFailures' = [exactFailures EXCEPT ![c] = @ + 1]
                 /\ toolFailures' = [toolFailures EXCEPT ![ToolOf[c]] = @ + 1]
            ELSE UNCHANGED <<exactFailures, toolFailures>>
         /\ repeats' = IF IsMutating(d) THEN [repeats EXCEPT ![c] = @ + 1] ELSE repeats

GiveUp(d) ==
    /\ Return(d, "timeout")
    /\ gaveUp' = [gaveUp EXCEPT ![made[d]] = @ + 1]
    /\ UNCHANGED guardVars

(* future.result returns or raises.  A TimeoutError of the handler is      *)
(* taken for the timeout of the wait.                                      *)
ResultArrives(d) ==
    /\ stage[d] = "waiting" /\ outcome[d] # "none"
    /\ \/ outcome[d] = "timeout_error" /\ GiveUp(d)
       \/ /\ outcome[d] = "ok"
          /\ Return(d, "ok") /\ AfterCall(d, FALSE) /\ UNCHANGED gaveUp
       \/ /\ outcome[d] = "exit_code"
          /\ Return(d, "command_failed") /\ AfterCall(d, TRUE) /\ UNCHANGED gaveUp
       \/ /\ outcome[d] = "exception"
          /\ Return(d, "runtime_error") /\ AfterCall(d, TRUE) /\ UNCHANGED gaveUp
    /\ UNCHANGED <<guarded, made, poolVars>>

(* Mutants: the timeout runs only from the moment a worker takes the job;  *)
(* a timed-out job is put into the queue once more.                        *)
TimesOutOnceStarted(d) ==
    /\ stage[d] = "waiting" /\ d \in executing
    /\ GiveUp(d)
    /\ UNCHANGED <<guarded, made, poolVars>>

TimesOutAndRetries(d) ==
    /\ stage[d] = "waiting" /\ outcome[d] = "none"
    /\ GiveUp(d)
    /\ queue' = Append(queue, d)
    /\ UNCHANGED <<guarded, made, executing, outcome, started>>

(* future.result(timeout=...) expires. *)
TimesOut(d) ==
    /\ stage[d] = "waiting" /\ outcome[d] = "none"
    /\ GiveUp(d)
    /\ UNCHANGED <<guarded, made, poolVars>>

Terminated ==
    /\ \A d \in Jobs : stage[d] = "returned"
    /\ queue = <<>> /\ executing = {}
    /\ UNCHANGED vars

Dispatching(d) == HookBlocks(d) \/ Submit(d) \/ ResultArrives(d) \/ TimesOut(d)

Next ==
    \/ \E d \in Jobs, c \in Calls : Refuse(d, c) \/ Admit(d, c)
    \/ \E d \in Jobs : Dispatching(d) \/ HandlerEnds(d)
    \/ WorkerTakes
    \/ Terminated

Spec == Init /\ [][Next]_vars

(* Hooks answer (an approval waits at most its own timeout) and the timer  *)
(* of future.result expires; a handler owes nothing.                       *)
FairSpec == Spec /\ \A d \in Jobs : WF_vars(Dispatching(d))
-----------------------------------------------------------------------------
TypeOK ==
    /\ guarded \in BOOLEAN /\ made \in Seq(Calls) /\ Len(made) <= MaxJobs
    /\ stage \in [Jobs -> Stages] /\ result \in [Jobs -> Results]
    /\ queue \in Seq(Jobs) /\ executing \subseteq Jobs
    /\ outcome \in [Jobs -> Outcomes]
    /\ exactFailures \in [Calls -> Nat] /\ toolFailures \in [Tools -> 0..MaxSame]
    /\ repeats \in [Calls -> Nat]
    /\ started \in [Calls -> Nat] /\ gaveUp \in [Calls -> Nat]

(* With guardrails a mutating call whose arguments need no coercion starts *)
(* its handler at most max_mutating_repeats times, plus once for every     *)
(* time its dispatch reported a timeout: a timeout is not counted by       *)
(* after_call, and the job it gave up may still run.  (A call whose        *)
(* arguments are coerced is counted as another one and not bounded.)       *)
Stable(c) == Coerced[c] = c

MutationsBounded ==
    guarded => \A c \in Calls \cap Mutating :
                  Stable(c) => started[c] <= MaxRepeats + gaveUp[c]

(* With guardrails the calls of one tool, coerced or not, are answered     *)
(* with a failure of the handler at most max_same_tool_failures times, and *)
(* a call that needs no coercion at most max_exact_failures times.         *)
Failures(C) ==
    {d \in Jobs : result[d] \in {"command_failed", "runtime_error"} /\ made[d] \in C}
CallsOf(t) == {c \in Calls : ToolOf[c] = t}

FailuresBounded ==
    guarded =>
        /\ \A t \in Tools : Cardinality(Failures(CallsOf(t))) <= MaxSame
        /\ \A c \in Calls : Stable(c) => Cardinality(Failures({c})) <= MaxExact

(* A job that was refused, or blocked by a hook, never reaches a worker,   *)
(* and a job reaches one at most once, also after a timeout.               *)
RunsOnlyAdmitted ==
    /\ \A d \in Jobs : result[d] = "blocked" => outcome[d] = "none" /\ d \notin executing
    /\ \A i, j \in DOMAIN queue : queue[i] = queue[j] => i = j
    /\ \A i \in DOMAIN queue :
          /\ queue[i] \notin executing /\ outcome[queue[i]] = "none"
          /\ result[queue[i]] \in {"none", "timeout"}

(* A handler that is in the pool without its dispatch waiting for it is    *)
(* one whose timeout was reported.                                         *)
AbandonedWereReported ==
    \A d \in Jobs :
        (d \in executing \/ \E i \in DOMAIN queue : queue[i] = d) /\ stage[d] # "waiting" =>
            result[d] = "timeout" /\ gaveUp[made[d]] > 0

(* Every dispatch returns, although handlers may hang and hold all         *)
(* workers.                                                                *)
DispatchReturns == \A d \in Jobs : stage[d] # "idle" ~> stage[d] = "returned"

(* "read-only calls in parallel, then write calls sequentially": no two    *)
(* mutating handlers run at the same time.                                 *)
WritesSequential == Cardinality({d \in executing : IsMutating(d)}) <= 1
=============================================================================
