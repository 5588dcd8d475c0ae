------------------------------ MODULE AgentLoop ------------------------------
(***************************************************************************)
(* One run of metis/runtime/loop.py: AgentLoop.run and the pipeline every  *)
(* tool call goes through (_dispatch_tool_call, _dispatch_tool_calls_batch *)
(* and the budgets they keep).  The model's answers, the tools' outcomes,  *)
(* the passage of time and the shutdown request are the environment.       *)
(*                                                                         *)
(* A tool call is a value of Calls: what distinguishes two calls for the   *)
(* loop is the tool it names, its arguments (two calls with equal name and *)
(* arguments are the same value) and the shape that the retry budget       *)
(* predicts for it.  Message texts, traces and errors are left out.  A     *)
(* state store is attached: checkpoints and tool calls are recorded.       *)
(***************************************************************************)
EXTENDS Integers, Sequences, FiniteSets

CONSTANTS
    Calls,          \* the (name, arguments) pairs the model may ask for
    Tools,          \* tool names
    Reads,          \* the tools registered with side_effect "read"
    ToolOf,         \* [Calls -> Tools]
    ShapeOf,        \* [Calls -> shapes]: _predict_tool_failure_shape_key
    Recoverable,    \* failure types with _RECOVERABLE true
    Fatal,          \* failure types with _RECOVERABLE false
    TimeoutType,    \* the failure type a timed-out handler is reported with
    Shaped,         \* recoverable types whose shape key can be predicted
    Profiles,       \* ModelProfiles, each with the max_turns of the request
    MaxSameTool,    \* MAX_SAME_TOOL_PER_SESSION
    Threshold,      \* _CIRCUIT_BREAKER_THRESHOLD
    MaxPlan         \* bound: the most calls the model puts in one answer

VARIABLES
    profile,        \* self.profile, fixed at construction
    phase,          \* where run() stands
    turn,           \* turn_index
    stage,          \* context-length fallbacks used on this turn (0..2)
    repairs,        \* attempts of _parse_tool_calls_with_repair
    plan,           \* response.tool_calls of the latest turn that had an answer
    todo,           \* indices of plan not yet taken up
    inflight,       \* indices of plan inside dispatcher.dispatch
    replied,        \* indices of plan with a role "tool" message
    signatures,     \* the last two turn_signatures
    total,          \* total_tool_calls
    counts,         \* _session_tool_counts[session]
    cache,          \* keys of tool_result_cache
    recent,         \* failures of a tool inside the breaker's window (capped)
    streak,         \* failures each less than a cooldown after the one before
    repairCount,    \* repair_failure_counts
    exhausted,      \* exhausted_retry_fingerprints
    exhaustedShapes,\* exhausted_shape_fingerprints
    shutdown,       \* is_shutdown_requested()
    status,         \* AgentRunResult.status
    checkpoint,     \* phase of the latest run checkpoint
    handed,         \* history: calls handed to the dispatcher so far
    handedTo,       \* history: the same, per tool
    succeeded,      \* history: times each call came back from the dispatcher with "ok"
    failedWith,     \* history: times each call came back with each recoverable failure
    givenUp         \* handlers of each call whose dispatch timed out: they may go on
                    \* in the dispatcher's pool, unseen by the loop

runVars == <<profile, turn, shutdown, status, checkpoint>>
modelVars == <<stage, repairs>>
planVars == <<plan, signatures>>
callVars == <<todo, inflight, replied>>
breakerVars == <<recent, streak>>
retryVars == <<repairCount, exhausted, exhaustedShapes>>
budgetVars == <<total, counts, cache>>
historyVars == <<handed, handedTo, succeeded, failedWith, givenUp>>
vars == <<profile, phase, turn, stage, repairs, plan, todo, inflight, replied,
          signatures, total, counts, cache, recent, streak, repairCount,
          exhausted, exhaustedShapes, shutdown, status, checkpoint, handed,
          handedTo, succeeded, failedWith, givenUp>>

Profile == [oneCall : BOOLEAN, batch : BOOLEAN, strict : {"off", "soft", "strict"},
            perTurn : Nat, perSession : Nat, toolRetries : Nat, parserRetries : Nat,
            maxTurns : Nat]

ASSUME CallAssumption ==
    /\ Reads \subseteq Tools
    /\ ToolOf \in [Calls -> Tools]
    /\ DOMAIN ShapeOf = Calls
ASSUME FailureAssumption ==
    Recoverable \cap Fatal = {} /\ Shaped \subseteq Recoverable /\ TimeoutType \notin Fatal
ASSUME ProfileAssumption == Profiles \subseteq Profile
ASSUME BoundAssumption ==
    /\ MaxSameTool \in Nat
    /\ Threshold \in Nat \ {0} /\ MaxPlan \in Nat

Phases == {"start", "turn", "model", "repair", "dispatch", "finalize", "done", "raised"}
Ended == phase \in {"done", "raised"}
Statuses == {"none", "final", "blocked", "needs_more_work", "failed", "max_turns", "interrupted"}
Checkpoints == {"none", "agent.start", "agent.shutdown", "agent.finalization"}
Plans == UNION {[1..n -> Calls] : n \in 0..MaxPlan}
CallShape(c) == <<ToolOf[c], ShapeOf[c]>>

Init ==
    /\ profile \in Profiles
    /\ phase = "start" /\ turn = 0 /\ stage = 0 /\ repairs = 0
    /\ plan = <<>> /\ todo = {} /\ inflight = {} /\ replied = {}
    /\ signatures = <<>>
    /\ total = 0 /\ counts = [t \in Tools |-> 0] /\ cache = {}
    /\ recent = [t \in Tools |-> 0] /\ streak = [t \in Tools |-> 0]
    /\ repairCount = [t \in Tools |-> [f \in Recoverable |-> 0]]
    /\ exhausted = {} /\ exhaustedShapes = {}
    /\ shutdown = FALSE /\ status = "none" /\ checkpoint = "none"
    /\ handed = 0 /\ handedTo = [t \in Tools |-> 0]
    /\ succeeded = [c \in Calls |-> 0]
    /\ failedWith = [c \in Calls |-> [f \in Recoverable |-> 0]]
    /\ givenUp = [c \in Calls |-> 0]

-----------------------------------------------------------------------------
(* The result is returned with status s; cp is the checkpoint recorded on  *)
(* this way out, "" when this way out records none.                        *)
Return(s, cp) ==
    /\ phase' = "done"
    /\ status' = s
    /\ checkpoint' = IF cp = "" THEN checkpoint ELSE cp
    /\ UNCHANGED <<profile, turn, shutdown>>

GoTo(p) == phase' = p /\ UNCHANGED runVars

(* The `continue` of the turn loop. *)
NextTurn ==
    /\ phase' = "turn"
    /\ turn' = turn + 1
    /\ UNCHANGED <<profile, shutdown, status, checkpoint>>

Raise == GoTo("raised")

(* The checkpoint is "agent.resume" for a resumed run; the loop never      *)
(* tells the two apart afterwards.                                         *)
Start ==
    /\ phase = "start"
    /\ checkpoint' = "agent.start"
    /\ phase' = "turn"
    /\ UNCHANGED <<profile, turn, shutdown, status>>
    /\ UNCHANGED <<modelVars, planVars, callVars, breakerVars, retryVars, budgetVars, historyVars>>

BeginTurn ==
    /\ phase = "turn" /\ turn < profile.maxTurns
    /\ IF shutdown THEN Return("interrupted", "agent.shutdown") ELSE GoTo("model")
    /\ stage' = 0 /\ repairs' = 0
    /\ UNCHANGED <<planVars, callVars, breakerVars, retryVars, budgetVars, historyVars>>

TurnsExhausted ==
    /\ phase = "turn" /\ turn >= profile.maxTurns
    /\ Return("max_turns", "")
    /\ UNCHANGED <<modelVars, planVars, callVars, breakerVars, retryVars, budgetVars, historyVars>>

(* What run() does with the parsed calls of an answer: truncation, loop    *)
(* detection, the per-turn limit, then the calls or the finalization.      *)
Kept(calls) == IF profile.oneCall /\ Len(calls) > 1 THEN SubSeq(calls, 1, 1) ELSE calls
LoopDetected(kept) ==
    Len(signatures) = 2 /\ signatures[1] = kept /\ signatures[2] = kept
Remember(kept) ==
    IF Len(signatures) = 2 THEN <<signatures[2], kept>> ELSE Append(signatures, kept)

AcceptAnswer(calls) ==
    LET kept == Kept(calls) IN
    /\ signatures' = Remember(kept)
    /\ \/ /\ LoopDetected(kept)
          /\ Return("blocked", "")
          /\ UNCHANGED <<plan, callVars>>
       \/ /\ ~LoopDetected(kept) /\ Len(kept) > profile.perTurn
          /\ Return("blocked", "agent.finalization")
          /\ UNCHANGED <<plan, callVars>>
       \/ /\ ~LoopDetected(kept) /\ Len(kept) <= profile.perTurn
          /\ GoTo(IF kept = <<>> THEN "finalize" ELSE "dispatch")
          /\ plan' = kept /\ todo' = DOMAIN kept /\ inflight' = {} /\ replied' = {}

ModelAnswers ==
    /\ phase = "model"
    /\ \E calls \in Plans : AcceptAnswer(calls)
    /\ UNCHANGED <<modelVars, breakerVars, retryVars, budgetVars, historyVars>>

(* An answer whose tool call does not parse: ParserError, and a repair     *)
(* request while attempts remain; without them the answer has no calls.    *)
ModelGarbles ==
    /\ phase \in {"model", "repair"}
    /\ IF repairs < profile.parserRetries
       THEN /\ GoTo("repair")
            /\ repairs' = repairs + 1
            /\ UNCHANGED <<planVars, callVars>>
       ELSE AcceptAnswer(<<>>) /\ UNCHANGED repairs
    /\ UNCHANGED <<stage, breakerVars, retryVars, budgetVars, historyVars>>

RepairAnswers ==
    /\ phase = "repair"
    /\ \E calls \in Plans : AcceptAnswer(calls)
    /\ UNCHANGED <<modelVars, breakerVars, retryVars, budgetVars, historyVars>>

(* "context", "too long" or "length" in the error: recompress, then        *)
(* force-truncate, each only when it leaves fewer messages than before.    *)
ContextTooLong ==
    /\ phase = "model"
    /\ \/ /\ stage < 2
          /\ stage' = stage + 1
          /\ GoTo("model")
       \/ /\ stage' = stage
          /\ NextTurn
    /\ UNCHANGED <<repairs, planVars, callVars, breakerVars, retryVars, budgetVars, historyVars>>

(* Mutant: a timed-out turn is tried again without being counted. *)
ModelTimesOutUncounted ==
    /\ phase = "model"
    /\ GoTo("turn")
    /\ UNCHANGED <<modelVars, planVars, callVars, breakerVars, retryVars, budgetVars, historyVars>>

(* wait_for(per_turn_timeout) expires: the turn is used up. *)
ModelTimesOut ==
    /\ phase = "model"
    /\ NextTurn
    /\ UNCHANGED <<modelVars, planVars, callVars, breakerVars, retryVars, budgetVars, historyVars>>

(* Any other provider error: re-raised from the first call of a turn and   *)
(* from a repair call, only noted from the context fallbacks.              *)
ModelFails ==
    /\ phase \in {"model", "repair"}
    /\ IF phase = "model" /\ stage > 0 THEN NextTurn ELSE Raise
    /\ UNCHANGED <<modelVars, planVars, callVars, breakerVars, retryVars, budgetVars, historyVars>>

-----------------------------------------------------------------------------
(* Tool calls.  In a batch the reads are taken up first, without waiting   *)
(* for one another, then the other calls one at a time; otherwise calls    *)
(* are taken up one at a time in the order of the answer.                  *)
CallAt(i) == plan[i]
ToolAt(i) == ToolOf[plan[i]]
IsRead(i) == ToolAt(i) \in Reads
Batch == profile.batch /\ Len(plan) > 1

Before(i, j) ==
    IF Batch /\ IsRead(i) # IsRead(j) THEN IsRead(i) ELSE i < j

(* Mutant: mutating calls of a batch do not wait either. *)
TakesUpAtOnce(i) ==
    /\ phase = "dispatch" /\ i \in todo
    /\ \A j \in todo \ {i} : Before(i, j)
    /\ inflight = {} \/ Batch

TakesUp(i) ==
    /\ phase = "dispatch" /\ i \in todo
    /\ \A j \in todo \ {i} : Before(i, j)
    /\ inflight = {} \/ (Batch /\ IsRead(i))

(* Mutants: off by one, and a breaker that opens one failure late. *)
RateLimitedLate(i) == counts[ToolAt(i)] > MaxSameTool
BreakerOpenLate(i) == recent[ToolAt(i)] >= Threshold /\ streak[ToolAt(i)] > Threshold

RateLimited(i) == counts[ToolAt(i)] >= MaxSameTool
BreakerOpen(i) == recent[ToolAt(i)] >= Threshold /\ streak[ToolAt(i)] > 0
RetryExhausted(i) == CallAt(i) \in exhausted \/ CallShape(CallAt(i)) \in exhaustedShapes

CountCall(i) == counts' = [counts EXCEPT ![ToolAt(i)] = @ + 1]

RecordFailure(i) ==
    /\ recent' = [recent EXCEPT ![ToolAt(i)] = IF @ < Threshold THEN @ + 1 ELSE @]
    /\ streak' = [streak EXCEPT ![ToolAt(i)] = @ + 1]

(* The result of call i is recorded and its message appended.  The state    *)
(* store may refuse the record (tool_calls.id is a primary key and takes    *)
(* the id the provider gave): the exception leaves run(), and with it the   *)
(* reads of the batch that have not come back, unattended from then on.     *)
Settle(i) ==
    /\ todo' = todo \ {i} /\ inflight' = inflight \ {i}
    /\ \/ replied' = replied \cup {i} /\ GoTo("dispatch")
       \/ replied' = replied /\ Raise

(* The failure is noted for the breaker after the record. *)
SettleFailed(i) ==
    /\ Settle(i)
    /\ IF phase' = "raised" THEN UNCHANGED breakerVars ELSE RecordFailure(i)

(* The call that goes over max_session_tool_calls: alone it ends the run;  *)
(* in a batch it is dropped and the run ends after the batch.              *)
OverSession(i) ==
    /\ TakesUp(i)
    /\ total >= profile.perSession
    /\ total' = total + 1
    /\ IF Batch
       THEN /\ GoTo("dispatch")
            /\ todo' = todo \ {i}
       ELSE Return("blocked", "") /\ UNCHANGED todo
    /\ UNCHANGED <<inflight, replied, counts, cache, modelVars, planVars, breakerVars, retryVars, historyVars>>

(* The calls answered without the dispatcher: from the cache, over the     *)
(* tool's rate limit, by the open circuit breaker, by the retry budget.    *)
AnswerLocally(i) ==
    /\ TakesUp(i)
    /\ total < profile.perSession
    /\ total' = total + 1
    /\ \/ /\ CallAt(i) \in cache
          /\ Settle(i)
          /\ UNCHANGED <<counts, breakerVars>>
       \/ /\ CallAt(i) \notin cache
          /\ CountCall(i)
          /\ \/ (RateLimited(i) \/ BreakerOpen(i)) /\ Settle(i) /\ UNCHANGED breakerVars
             \/ /\ ~RateLimited(i) /\ ~BreakerOpen(i) /\ RetryExhausted(i)
                /\ SettleFailed(i)
    /\ UNCHANGED <<cache, modelVars, planVars, retryVars, historyVars>>

HandToDispatcher(i) ==
    /\ TakesUp(i)
    /\ total < profile.perSession
    /\ CallAt(i) \notin cache
    /\ ~RateLimited(i) /\ ~BreakerOpen(i) /\ ~RetryExhausted(i)
    /\ total' = total + 1
    /\ CountCall(i)
    /\ todo' = todo \ {i}
    /\ inflight' = inflight \cup {i}
    /\ handed' = handed + 1
    /\ handedTo' = [handedTo EXCEPT ![ToolAt(i)] = @ + 1]
    /\ GoTo("dispatch")
    /\ UNCHANGED <<replied, cache, succeeded, failedWith, givenUp, modelVars, planVars, breakerVars, retryVars>>

CallSucceeds(i) ==
    /\ phase = "dispatch" /\ i \in inflight
    /\ cache' = cache \cup {CallAt(i)}
    /\ succeeded' = [succeeded EXCEPT ![CallAt(i)] = @ + 1]
    /\ Settle(i)
    /\ UNCHANGED <<total, counts, handed, handedTo, failedWith, givenUp, modelVars, planVars, breakerVars, retryVars>>

(* Mutant: one attempt too many. *)
SpendRetryLate(c, f) ==
    LET attempts == repairCount[ToolOf[c]][f] + 1
        out == attempts > profile.toolRetries + 1
    IN /\ repairCount' = [repairCount EXCEPT ![ToolOf[c]][f] = attempts]
       /\ exhausted' = IF out THEN exhausted \cup {c} ELSE exhausted
       /\ exhaustedShapes' = IF out /\ f \in Shaped
                             THEN exhaustedShapes \cup {CallShape(c)} ELSE exhaustedShapes
       /\ failedWith' = [failedWith EXCEPT ![c][f] = @ + 1]

(* _apply_tool_failure_retry_budget: the attempts of a tool with one type  *)
(* of failure are counted together; the call on which they run out, and    *)
(* its predictable shape, are not dispatched again.                        *)
SpendRetry(c, f) ==
    LET attempts == repairCount[ToolOf[c]][f] + 1
        out == attempts > profile.toolRetries
    IN /\ repairCount' = [repairCount EXCEPT ![ToolOf[c]][f] = attempts]
       /\ exhausted' = IF out THEN exhausted \cup {c} ELSE exhausted
       /\ exhaustedShapes' = IF out /\ f \in Shaped
                             THEN exhaustedShapes \cup {CallShape(c)} ELSE exhaustedShapes
       /\ failedWith' = [failedWith EXCEPT ![c][f] = @ + 1]

(* The dispatch comes back with a failure of type f.  After a timeout of   *)
(* future.result only the wait is over: the handler goes on in its worker, *)
(* whatever its tool, and nothing tells the loop when it ends.             *)
CallFails(i, f) ==
    /\ phase = "dispatch" /\ i \in inflight
    /\ \/ UNCHANGED givenUp
       \/ f = TimeoutType /\ givenUp' = [givenUp EXCEPT ![CallAt(i)] = @ + 1]
    /\ IF f \in Recoverable
       THEN SpendRetry(CallAt(i), f)
       ELSE UNCHANGED <<retryVars, failedWith>>
    /\ SettleFailed(i)
    /\ UNCHANGED <<total, counts, cache, handed, handedTo, succeeded, modelVars, planVars>>

(* Mutant: the session limit is not looked at after a batch. *)
EndOfTurnUnlimited ==
    /\ phase = "dispatch" /\ todo = {} /\ inflight = {}
    /\ NextTurn
    /\ UNCHANGED <<modelVars, planVars, callVars, breakerVars, retryVars, budgetVars, historyVars>>

EndOfTurn ==
    /\ phase = "dispatch" /\ todo = {} /\ inflight = {}
    /\ IF Batch /\ total > profile.perSession THEN Return("blocked", "") ELSE NextTurn
    /\ UNCHANGED <<modelVars, planVars, callVars, breakerVars, retryVars, budgetVars, historyVars>>

-----------------------------------------------------------------------------
(* _finalize_turn.  A strict answer that says blocked or needs_more_work   *)
(* returns at once; one that does not parse is repaired with one provider  *)
(* call, which may itself fail; the rest goes through FinalizationGuard.   *)
GuardDecides == \E s \in {"final", "blocked"} : Return(s, "agent.finalization")
NotFinal == \E s \in {"blocked", "needs_more_work", "failed"} : Return(s, "")

Finalize ==
    /\ phase = "finalize"
    /\ \/ GuardDecides
       \/ profile.strict # "off" /\ NotFinal
       \/ profile.strict = "strict" /\ Raise
    /\ UNCHANGED <<modelVars, planVars, callVars, breakerVars, retryVars, budgetVars, historyVars>>

(* A signal may come at any time; the flag is read at the head of a turn   *)
(* only, so a request has the effect of one that comes just before.         *)
RequestShutdown ==
    /\ ~shutdown /\ phase = "turn"
    /\ shutdown' = TRUE
    /\ UNCHANGED <<phase, profile, turn, status, checkpoint>>
    /\ UNCHANGED <<modelVars, planVars, callVars, breakerVars, retryVars, budgetVars, historyVars>>

(* Time.  The cooldown (60 s) after the last failure of a tool passes, or  *)
(* failures leave the window (300 s).  The failures of a streak of at most *)
(* Threshold lie within (Threshold - 1) cooldowns, less than the window,   *)
(* so they leave it only after the streak has ended.  The breaker is read  *)
(* only when a call is taken up.  Of calls one at a time, the time that    *)
(* passes since the last failure matters only there: what passes while a   *)
(* call is handled might as well have passed before it.  In a batch one    *)
(* read can fail long before another.                                      *)
TimeCounts == phase = "dispatch" /\ (Batch \/ (todo # {} /\ inflight = {}))

CooldownPasses(t) ==
    /\ TimeCounts /\ streak[t] > 0
    /\ streak' = [streak EXCEPT ![t] = 0]
    /\ UNCHANGED <<phase, runVars, recent>>
    /\ UNCHANGED <<modelVars, planVars, callVars, retryVars, budgetVars, historyVars>>

WindowSlides(t) ==
    /\ TimeCounts
    /\ \E n \in 0..Threshold :
          /\ n < recent[t]
          /\ n >= IF streak[t] > Threshold THEN 1 ELSE streak[t]
          /\ recent' = [recent EXCEPT ![t] = n]
    /\ UNCHANGED <<phase, runVars, streak>>
    /\ UNCHANGED <<modelVars, planVars, callVars, retryVars, budgetVars, historyVars>>

Terminated == Ended /\ UNCHANGED vars

Dispatching ==
    \/ \E i \in DOMAIN plan : \/ OverSession(i) \/ AnswerLocally(i) \/ HandToDispatcher(i)
                              \/ CallSucceeds(i)
                              \/ \E f \in Recoverable \cup Fatal : CallFails(i, f)
    \/ EndOfTurn
Asking ==
    \/ ModelAnswers \/ ModelGarbles \/ RepairAnswers
    \/ ContextTooLong \/ ModelTimesOut \/ ModelFails
LoopStep == Start \/ BeginTurn \/ TurnsExhausted \/ Asking \/ Dispatching \/ Finalize
Environment ==
    \/ RequestShutdown
    \/ \E t \in Tools : CooldownPasses(t) \/ WindowSlides(t)

Next == LoopStep \/ Environment \/ Terminated

Spec == Init /\ [][Next]_vars

(* The coroutine is driven by the event loop; provider calls end by their  *)
(* HTTP timeout and tools by the dispatcher's, so a step is never withheld *)
(* for ever.                                                               *)
FairSpec == Spec /\ WF_vars(LoopStep)
-----------------------------------------------------------------------------
(* Type invariant. *)
TypeOK ==
    /\ profile \in Profiles /\ phase \in Phases
    /\ turn \in Nat /\ stage \in 0..2 /\ repairs \in Nat
    /\ plan \in Seq(Calls)
    /\ todo \subseteq DOMAIN plan /\ inflight \subseteq DOMAIN plan
    /\ replied \subseteq DOMAIN plan
    /\ signatures \in Seq(Seq(Calls))
    /\ total \in Nat /\ counts \in [Tools -> Nat] /\ cache \subseteq Calls
    /\ recent \in [Tools -> 0..Threshold] /\ streak \in [Tools -> Nat]
    /\ repairCount \in [Tools -> [Recoverable -> Nat]]
    /\ exhausted \subseteq Calls
    /\ exhaustedShapes \subseteq {CallShape(c) : c \in Calls}
    /\ shutdown \in BOOLEAN /\ status \in Statuses /\ checkpoint \in Checkpoints
    /\ handed \in Nat /\ handedTo \in [Tools -> Nat]
    /\ succeeded \in [Calls -> Nat]
    /\ failedWith \in [Calls -> [Recoverable -> Nat]]
    /\ givenUp \in [Calls -> Nat]

(* When the provider is asked again, every tool call of the answer before  *)
(* has its role "tool" message: an answer with an open call is rejected by *)
(* OpenAI-compatible endpoints, and every way a call is settled (cache,    *)
(* limits, breaker, budget, dispatcher, in any order of a batch) must      *)
(* append one.                                                             *)
CallsAnswered == phase \in {"turn", "model", "repair"} => replied = DOMAIN plan

(* The dispatcher never gets more calls than max_session_tool_calls, nor   *)
(* a tool more than MAX_SAME_TOOL_PER_SESSION, in whatever order the calls *)
(* of concurrent batches suspend and resume.                               *)
SessionBudget ==
    /\ handed <= profile.perSession
    /\ \A t \in Tools : handedTo[t] <= MaxSameTool

(* A mutating call that came back as a success is not run again with the   *)
(* same arguments: the result cache answers the repetition.  (Reads of a   *)
(* concurrent batch may both run; handlers given up by a timeout before    *)
(* the success are counted by LeftRunning, not here.)                      *)
AtMostOnceWrite ==
    \A c \in Calls : ToolOf[c] \notin Reads => succeeded[c] <= 1

(* A call that keeps failing with one recoverable type of failure runs at  *)
(* most max_tool_repair_retries more times, whatever other calls of the    *)
(* tool failed, succeeded or were blocked in between.                      *)
RetriesBounded ==
    \A c \in Calls : ~profile.batch \/ ToolOf[c] \notin Reads =>
        \A f \in Recoverable : failedWith[c][f] <= profile.toolRetries + 1

(* The circuit breaker: without concurrent dispatch a tool never fails     *)
(* more than Threshold times in a row without a cooldown in between.       *)
BreakerStopsStreaks ==
    ~profile.batch => \A t \in Tools : streak[t] <= Threshold

(* What may go on behind a run() that has been left, by its result or by   *)
(* an exception of the state store half way through a batch.  A dispatch   *)
(* that has not come back is one of a concurrent read.  Mutating handlers  *)
(* may go on too, those that timed out, but of one call at most one more   *)
(* than the retry budget, however its tool's failures came about.          *)
LeftRunning ==
    Ended =>
        /\ \A i \in inflight : Batch /\ IsRead(i)
        /\ \A c \in Calls : ToolOf[c] \notin Reads => givenUp[c] <= profile.toolRetries + 1

(* Every run comes to an end, by its result or by an exception.            *)
RunEnds == <>Ended

(* A run returns with its "agent.finalization" (or "agent.shutdown")       *)
(* checkpoint recorded.                                                    *)
FinalCheckpointRecorded ==
    phase = "done" => checkpoint \in {"agent.finalization", "agent.shutdown"}
=============================================================================
