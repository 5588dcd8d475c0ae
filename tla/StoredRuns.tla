----------------------------- MODULE StoredRuns -----------------------------
(***************************************************************************)
(* Runs that share a state store (state/sqlite_store.py): new runs, plan   *)
(* steps (runtime/execution_controller.py) and `metis resume`, which       *)
(* continues a session from the messages that earlier runs left in the     *)
(* database.  A run stores its messages, tool calls and checkpoints one    *)
(* transaction at a time (runtime/loop.py), can die between any two, and   *)
(* the ids of tool calls, which come from the provider, are primary keys.  *)
(***************************************************************************)
EXTENDS Naturals, Sequences

CONSTANTS StoredRunners,  \* runs, each in a process of its own
          Sessions,       \* session ids
          PlanSteps,      \* steps of plans
          CallIds,        \* ids that providers give to calls
          NoCallId,       \* the empty one
          StoredJobs,     \* what the runs can be
          MaxTurns,       \* turns that a run can have
          MaxBatch        \* bound on the calls of an answer

Jobs == [kind : {"run", "resume", "step"}, session : Sessions, step : PlanSteps]

ASSUME StoredAssumption ==
    /\ StoredJobs \subseteq [StoredRunners -> Jobs]
    /\ MaxTurns \in [StoredRunners -> Nat \ {0}]
    /\ MaxBatch \in Nat

VARIABLES assigned,       \* what a run is: its kind, session and plan step
          reached,     \* how far it is
          spent,     \* turns it has used
          open,      \* calls it has not answered yet
          prior,     \* the messages of its session that it began with
          ended,     \* runs whose last checkpoint it could see then (history)
          result,    \* the status it returned
          story,     \* messages of a session, in the order of their ids
          toolCalls, \* rows of tool_calls
          marks,     \* checkpoints of a session; no run asks for their order
          stepStatus

storedVars == <<assigned, reached, spent, open, prior, ended, result, story,
                toolCalls, marks, stepStatus>>

NoReply == <<>>

RunStages  == {"new", "begun", "system", "question", "turn", "returned", "closed",
            "refused", "died"}
\* "blocked" stands for "needs_more_work" too, "failed" for all that is not one of the
\* others: "max_turns" and "interrupted".
Results == {"none", "final", "blocked", "failed"}

\* A call is known by its run, turn and place; the provider's id need not be unique.
Call == {c \in StoredRunners \X (Nat \ {0}) \X (1..MaxBatch) : c[2] <= MaxTurns[c[1]]}
Pending == [call : Call, id : CallIds, recorded : BOOLEAN]
Row     == [by : StoredRunners, role : {"system", "user", "assistant", "tool"},
            call : Call \cup {NoReply}]
ToolRow == [id : CallIds \cup Call, session : Sessions, call : Call, dispatched : BOOLEAN]
Mark    == [by : StoredRunners, phase : {"start", "resume", "shutdown", "finalization"}]

StoredTypeOK ==
    /\ assigned \in [StoredRunners -> Jobs]
    /\ reached \in [StoredRunners -> RunStages]
    /\ spent \in [StoredRunners -> Nat]
    /\ open \in [StoredRunners -> SUBSET Pending]
    /\ prior \in [StoredRunners -> Seq(Row)]
    /\ ended \in [StoredRunners -> SUBSET StoredRunners]
    /\ result \in [StoredRunners -> Results]
    /\ story \in [Sessions -> Seq(Row)]
    /\ toolCalls \subseteq ToolRow
    /\ marks \in [Sessions -> SUBSET Mark]
    /\ stepStatus \in [PlanSteps -> {"pending", "running", "done", "blocked", "failed"}]

StoredInit ==
    /\ assigned \in StoredJobs
    /\ reached = [r \in StoredRunners |-> "new"]
    /\ spent = [r \in StoredRunners |-> 0]
    /\ open = [r \in StoredRunners |-> {}]
    /\ prior = [r \in StoredRunners |-> <<>>]
    /\ ended = [r \in StoredRunners |-> {}]
    /\ result = [r \in StoredRunners |-> "none"]
    /\ story = [s \in Sessions |-> <<>>]
    /\ toolCalls = {}
    /\ marks = [s \in Sessions |-> {}]
    /\ stepStatus = [p \in PlanSteps |-> "pending"]

----------------------------------------------------------------------------
(* The store *)

list_messages(s) == story[s]

append_message(r, role, call) ==
    story' = [story EXCEPT ![assigned[r].session] =
                 Append(@, [by |-> r, role |-> role, call |-> call])]

record_checkpoint(r, phase) ==
    marks' = [marks EXCEPT ![assigned[r].session] = @ \cup {[by |-> r, phase |-> phase]}]

list_checkpoints(s) == marks[s]

\* A call without an id gets a new one.
KeyOf(c) == IF c.id = NoCallId THEN c.call ELSE c.id
IdTaken(c) == \E t \in toolCalls : t.id = KeyOf(c)

ToolRowOf(r, c, dispatched) ==
    [id |-> KeyOf(c), session |-> assigned[r].session, call |-> c.call, dispatched |-> dispatched]

InsertCall(r, c, dispatched) ==
    ~IdTaken(c) /\ toolCalls' = toolCalls \cup {ToolRowOf(r, c, dispatched)}

(* Mutant: INSERT OR REPLACE, so that an id that comes again does no harm. *)
ReplaceCall(r, c, dispatched) ==
    toolCalls' = {t \in toolCalls : t.id # KeyOf(c)} \cup {ToolRowOf(r, c, dispatched)}

record_tool_call(r, c, dispatched) == InsertCall(r, c, dispatched)

----------------------------------------------------------------------------
(* A run *)

\* run_step: the step is "running" before the run begins.
RunStep(r) ==
    /\ assigned[r].kind = "step" /\ reached[r] = "new"
    /\ stepStatus' = [stepStatus EXCEPT ![assigned[r].step] = "running"]
    /\ reached' = [reached EXCEPT ![r] = "begun"]
    /\ UNCHANGED <<assigned, spent, open, prior, ended, result, story, toolCalls, marks>>

\* For the history `ended`: the runs that have left their last checkpoint in a session.
Finished(s) == {m.by : m \in {k \in list_checkpoints(s) : k.phase \in {"shutdown", "finalization"}}}

\* `metis resume` reads the session's messages, and the instruction follows them.
ReadStory(r) ==
    LET s == assigned[r].session IN
    /\ assigned[r].kind = "resume" /\ reached[r] = "new" /\ prior[r] = <<>>
    /\ prior' = [prior EXCEPT ![r] = list_messages(s)]
    /\ ended' = [ended EXCEPT ![r] = Finished(s)]
    /\ reached' = IF list_messages(s) = <<>> THEN [reached EXCEPT ![r] = "refused"] ELSE reached
    /\ UNCHANGED <<assigned, spent, open, result, story, toolCalls, marks, stepStatus>>

AddInstruction(r) ==
    /\ assigned[r].kind = "resume" /\ reached[r] = "new" /\ prior[r] # <<>>
    /\ append_message(r, "user", NoReply)
    /\ reached' = [reached EXCEPT ![r] = "begun"]
    /\ UNCHANGED <<assigned, spent, open, prior, ended, result, toolCalls, marks, stepStatus>>

\* The instructions and the question of a resumed run are stored already.
BeginRun(r) ==
    /\ reached[r] = "begun" \/ (reached[r] = "new" /\ assigned[r].kind = "run")
    /\ record_checkpoint(r, IF assigned[r].kind = "resume" THEN "resume" ELSE "start")
    /\ reached' = [reached EXCEPT ![r] = IF assigned[r].kind = "resume" THEN "turn" ELSE "system"]
    /\ UNCHANGED <<assigned, spent, open, prior, ended, result, story, toolCalls, stepStatus>>

StoreInitial(r) ==
    /\ \/ /\ reached[r] = "system" /\ append_message(r, "system", NoReply)
          /\ reached' = [reached EXCEPT ![r] = "question"]
       \/ /\ reached[r] = "question" /\ append_message(r, "user", NoReply)
          /\ reached' = [reached EXCEPT ![r] = "turn"]
    /\ UNCHANGED <<assigned, spent, open, prior, ended, result, toolCalls, marks, stepStatus>>

InTurn(r) == reached[r] = "turn" /\ open[r] = {} /\ spent[r] < MaxTurns[r]

\* An answer with calls; its assistant message is stored with their names only.
TakeCalls(r) ==
    /\ InTurn(r)
    /\ \E n \in 1..MaxBatch : \E ids \in [1..n -> CallIds] :
         open' = [open EXCEPT ![r] = {[call |-> <<r, spent[r] + 1, k>>, id |-> ids[k],
                                      recorded |-> FALSE] : k \in 1..n}]
    /\ append_message(r, "assistant", NoReply)
    /\ spent' = [spent EXCEPT ![r] = @ + 1]
    /\ UNCHANGED <<assigned, reached, prior, ended, result, toolCalls, marks, stepStatus>>

\* The provider failed, or its answer was of no use: the turn is gone.
LoseTurn(r) ==
    /\ InTurn(r)
    /\ spent' = [spent EXCEPT ![r] = @ + 1]
    /\ UNCHANGED <<assigned, reached, open, prior, ended, result, story, toolCalls, marks, stepStatus>>

\* No call waits for its reply to be stored; other calls of the batch wait for that.
Settled(r) == \A c \in open[r] : ~c.recorded

\* A call that the dispatcher has answered is recorded, then its reply is stored.
RecordCall(r, c) ==
    /\ reached[r] = "turn" /\ c \in open[r] /\ Settled(r)
    /\ record_tool_call(r, c, TRUE)
    /\ open' = [open EXCEPT ![r] = (@ \ {c}) \cup {[call |-> c.call, id |-> c.id, recorded |-> TRUE]}]
    /\ UNCHANGED <<assigned, reached, spent, prior, ended, result, story, marks, stepStatus>>

StoreReply(r, c) ==
    /\ reached[r] = "turn" /\ c \in open[r] /\ c.recorded
    /\ append_message(r, "tool", c.call)
    /\ open' = [open EXCEPT ![r] = @ \ {c}]
    /\ UNCHANGED <<assigned, reached, spent, prior, ended, result, toolCalls, marks, stepStatus>>

\* From the cache, or refused by the rate limit or the circuit breaker: recorded,
\* but the reply is not stored.
AnswerShort(r, c) ==
    /\ reached[r] = "turn" /\ c \in open[r] /\ Settled(r)
    /\ record_tool_call(r, c, FALSE)
    /\ open' = [open EXCEPT ![r] = @ \ {c}]
    /\ UNCHANGED <<assigned, reached, spent, prior, ended, result, story, marks, stepStatus>>

\* What a run has in memory goes with it.
Forget(r) ==
    /\ spent' = [spent EXCEPT ![r] = 0]
    /\ open' = [open EXCEPT ![r] = {}]

Returns(r, status) ==
    /\ Forget(r)
    /\ result' = [result EXCEPT ![r] = status]
    /\ reached' = [reached EXCEPT ![r] = IF assigned[r].kind = "step" THEN "returned" ELSE "closed"]

\* The shutdown is looked at between turns.
ShutDown(r) ==
    /\ InTurn(r)
    /\ Returns(r, "failed")
    /\ record_checkpoint(r, "shutdown")
    /\ UNCHANGED <<assigned, prior, ended, story, toolCalls, stepStatus>>

\* An answer without calls, judged by the finalization guard.
Finalize(r) ==
    /\ InTurn(r)
    /\ append_message(r, "assistant", NoReply)
    /\ \/ /\ \E v \in {"final", "blocked", "failed"} : Returns(r, v)
          /\ record_checkpoint(r, "finalization")
       \/ /\ \E v \in {"blocked", "failed"} : Returns(r, v)
          /\ UNCHANGED marks   \* strict output is not final
    /\ UNCHANGED <<assigned, prior, ended, toolCalls, stepStatus>>

\* Too many calls in an answer, or a loop detected; the answer is not stored.
RefuseAnswer(r) ==
    /\ InTurn(r)
    /\ Returns(r, "blocked")
    /\ record_checkpoint(r, "finalization") \/ UNCHANGED marks
    /\ UNCHANGED <<assigned, prior, ended, story, toolCalls, stepStatus>>

\* The session's tool calls or the turns are used up: no checkpoint is left.
RunOut(r) ==
    /\ reached[r] = "turn"
    /\ \/ open[r] # {} /\ Settled(r) /\ Returns(r, "blocked")
       \/ open[r] = {} /\ spent[r] = MaxTurns[r] /\ Returns(r, "failed")
    /\ UNCHANGED <<assigned, prior, ended, story, toolCalls, marks, stepStatus>>

\* The process dies or an exception leaves the run: the database is locked, or a
\* call's id is taken, be it by another session.
Dies(r) ==
    /\ reached[r] \notin {"closed", "refused", "died"}
    /\ reached' = [reached EXCEPT ![r] = "died"]
    /\ Forget(r)
    /\ UNCHANGED <<assigned, prior, ended, result, story, toolCalls, marks, stepStatus>>

\* run_step: a final run is verified, and its gates run, before the step is done.
CloseStep(r) ==
    /\ reached[r] = "returned"
    /\ \E verified \in IF result[r] = "final" THEN BOOLEAN ELSE {FALSE} :
         stepStatus' = [stepStatus EXCEPT ![assigned[r].step] =
             IF verified THEN "done"
             ELSE IF result[r] = "blocked" THEN "blocked" ELSE "failed"]
    /\ reached' = [reached EXCEPT ![r] = "closed"]
    /\ UNCHANGED <<assigned, spent, open, prior, ended, result, story, toolCalls, marks>>

StoredNext ==
    \E r \in StoredRunners :
        \/ RunStep(r) \/ ReadStory(r) \/ AddInstruction(r) \/ BeginRun(r) \/ StoreInitial(r)
        \/ TakeCalls(r) \/ LoseTurn(r)
        \/ \E c \in open[r] : RecordCall(r, c) \/ StoreReply(r, c) \/ AnswerShort(r, c)
        \/ ShutDown(r) \/ Finalize(r) \/ RefuseAnswer(r) \/ RunOut(r)
        \/ Dies(r) \/ CloseStep(r)

StoredSpec == StoredInit /\ [][StoredNext]_storedVars

----------------------------------------------------------------------------
(* Properties *)

Replied(call, rows) == \E i \in DOMAIN rows : rows[i].role = "tool" /\ rows[i].call = call

\* Every tool reply among a session's messages is backed by the record of its call in
\* that session, although providers use an id again in other runs and sessions.
RepliesAreRecorded ==
    \A s \in Sessions : \A i \in DOMAIN story[s] :
        story[s][i].role = "tool" =>
            \E t \in toolCalls : t.session = s /\ t.call = story[s][i].call

\* A resumed run knows the reply of every call that was dispatched in a run of its
\* session which had left its last checkpoint by then: it need not do the work again.
ResumedKnowsWork ==
    \A r \in StoredRunners : prior[r] # <<>> =>
        \A t \in toolCalls :
            t.dispatched /\ t.session = assigned[r].session /\ t.call[1] \in ended[r] =>
                Replied(t.call, prior[r])

\* A plan step that says "running" has a run that will say how it ended, or had one
\* that died; one that is done has a final run behind it.
StepsHaveRuns ==
    \A p \in PlanSteps :
        LET its == {r \in StoredRunners : assigned[r].kind = "step" /\ assigned[r].step = p} IN
        /\ stepStatus[p] = "running" =>
             \E r \in its : reached[r] \notin {"new", "closed", "refused"}
        /\ stepStatus[p] = "done" => \E r \in its : result[r] = "final"

(* What the database says of the runs is true, whichever of them died or   *)
(* overlapped: its replies, what a resumed run learns from them, and the   *)
(* status of plan steps.                                                   *)
StoreTellsTrue == RepliesAreRecorded /\ ResumedKnowsWork /\ StepsHaveRuns

=============================================================================
