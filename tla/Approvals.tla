----------------------------- MODULE Approvals -----------------------------
(***************************************************************************)
(* metis/hitl/core.py, metis/hitl/store.py and metis/app/hitl_api.py: the  *)
(* TOOL_PRE_DISPATCH hook that asks a human before a tool call runs, the   *)
(* store of approval requests, the terminal prompt and the web API that    *)
(* answer them.                                                            *)
(*                                                                         *)
(* A request is one call that reached the hook.  The hook runs on the      *)
(* event loop; a prompt reads the terminal in a thread of its own, which   *)
(* goes on reading after the hook has stopped waiting for it.  The store   *)
(* and the waiting hook share one ApprovalRequest object, so status is     *)
(* both what the API lists and what the hook reads.                        *)
(***************************************************************************)
EXTENDS FiniteSets

CONSTANTS
    Requests,
    AutoApproved,   \* of a tool in hitl_auto_approve_tools
    AutoDenied,     \* of a tool in hitl_auto_deny_tools
    Reads,          \* of a tool whose side_effect is "read"
    Ruled           \* matched by an ApprovalRule

ASSUME RequestAssumption ==
    /\ AutoApproved \subseteq Requests /\ AutoDenied \subseteq Requests
    /\ Reads \subseteq Requests /\ Ruled \subseteq Requests

VARIABLES
    interactive,    \* config.interactive and stdin is a terminal
    skipReads,      \* auto_approve_read_only
    patience,       \* timeout_seconds: positive, zero, or the text the environment gave
    stage,          \* where the hook stands with each call
    status,         \* ApprovalRequest.status, "none" before store.add
    signalled,      \* the asyncio.Event of the request is set
    thread,         \* the thread in input(): none, queued for the terminal, reading, done
    line,           \* what it read
    verdict,        \* whether the hook let the call run
    accepted,       \* history: the answer the API accepted (HTTP 200)
    outcome         \* history: the status with which request_approval returned

config == <<interactive, skipReads, patience>>
terminal == <<thread, line>>
vars == <<interactive, skipReads, patience, stage, status, signalled, thread, line,
          verdict, accepted, outcome>>

Stages == {"idle", "prompting", "waiting", "returned", "raised"}
Statuses == {"none", "pending", "approved", "denied", "timeout"}

Init ==
    /\ interactive \in BOOLEAN /\ skipReads \in BOOLEAN
    /\ patience \in {"positive", "zero", "text"}
    /\ stage = [r \in Requests |-> "idle"] /\ status = [r \in Requests |-> "none"]
    /\ signalled = [r \in Requests |-> FALSE]
    /\ thread = [r \in Requests |-> "none"] /\ line = [r \in Requests |-> "none"]
    /\ verdict = [r \in Requests |-> "none"] /\ accepted = [r \in Requests |-> "none"]
    /\ outcome = [r \in Requests |-> "none"]

(* requires_approval, for an enabled HITL.                                 *)
RequiresApproval(r) ==
    /\ r \notin AutoApproved
    /\ r \in AutoDenied \/ (~(skipReads /\ r \in Reads) /\ r \in Ruled)

(* Mutant: only a denial blocks. *)
VerdictOfDenial(s) == IF s = "denied" THEN "blocked" ELSE "run"

(* The hook blocks unless the request it got back is APPROVED. *)
Verdict(s) == IF s = "approved" THEN "run" ELSE "blocked"

(* request_approval ends: the request is stored with status s, its event   *)
(* is set, and the hook decides.                                           *)
Resolve(r, s) ==
    /\ stage' = [stage EXCEPT ![r] = "returned"]
    /\ status' = [status EXCEPT ![r] = s]
    /\ signalled' = [signalled EXCEPT ![r] = TRUE]
    /\ verdict' = [verdict EXCEPT ![r] = Verdict(s)]
    /\ outcome' = [outcome EXCEPT ![r] = s]
-----------------------------------------------------------------------------
Skip(r) ==
    /\ stage[r] = "idle" /\ ~RequiresApproval(r)
    /\ stage' = [stage EXCEPT ![r] = "returned"]
    /\ verdict' = [verdict EXCEPT ![r] = "run"]
    /\ UNCHANGED <<config, status, signalled, terminal, accepted, outcome>>

Asks(r) == stage[r] = "idle" /\ RequiresApproval(r)

(* The prompt starts its thread and waits for it.  A timeout of zero may   *)
(* cancel the thread before it starts.                                     *)
Prompt(r) ==
    /\ Asks(r) /\ interactive /\ patience # "text"
    /\ stage' = [stage EXCEPT ![r] = "prompting"]
    /\ status' = [status EXCEPT ![r] = "pending"]
    /\ \E t \in {"queued", "none"} :
          /\ t = "none" => patience = "zero"
          /\ thread' = [thread EXCEPT ![r] = t]
    /\ UNCHANGED <<config, signalled, line, verdict, accepted, outcome>>

(* asyncio.wait_for raises TypeError and _interactive_prompt denies.       *)
PromptFails(r) ==
    /\ Asks(r) /\ interactive /\ patience = "text"
    /\ Resolve(r, "denied")
    /\ UNCHANGED <<config, terminal, accepted>>

(* input() holds a lock: one prompt is shown at a time.                    *)
ShowPrompt(r) ==
    /\ thread[r] = "queued" /\ \A q \in Requests : thread[q] # "reading"
    /\ thread' = [thread EXCEPT ![r] = "reading"]
    /\ UNCHANGED <<config, stage, status, signalled, line, verdict, accepted, outcome>>

(* Somebody types a line, or input() raises (end of file).                 *)
ReadLine(r) ==
    /\ thread[r] = "reading"
    /\ thread' = [thread EXCEPT ![r] = "done"]
    /\ \E l \in {"yes", "no", "error"} : line' = [line EXCEPT ![r] = l]
    /\ UNCHANGED <<config, stage, status, signalled, verdict, accepted, outcome>>

(* The answer at the prompt replaces whatever the API has put into the     *)
(* request meanwhile.                                                      *)
PromptAnswered(r) ==
    /\ stage[r] = "prompting" /\ thread[r] = "done"
    /\ Resolve(r, IF line[r] = "yes" THEN "approved" ELSE "denied")
    /\ UNCHANGED <<config, terminal, accepted>>

(* Mutant: the time a prompt is not on the terminal does not count. *)
PromptExpiresOnceShown(r) ==
    /\ stage[r] = "prompting" /\ thread[r] # "queued"
    /\ Resolve(r, "denied")
    /\ UNCHANGED <<config, terminal, accepted>>

(* The timeout denies, also when the thread is just done; the thread keeps *)
(* its place at the terminal.                                              *)
PromptExpires(r) ==
    /\ stage[r] = "prompting"
    /\ Resolve(r, "denied")
    /\ UNCHANGED <<config, terminal, accepted>>
-----------------------------------------------------------------------------
ApproveRead(r) ==
    /\ Asks(r) /\ ~interactive /\ r \in Reads
    /\ Resolve(r, "approved")
    /\ UNCHANGED <<config, terminal, accepted>>

(* store.update sets the event of the still pending request, then          *)
(* wait_for waits for that event.                                          *)
WaitForApi(r) ==
    /\ Asks(r) /\ ~interactive /\ r \notin Reads /\ patience # "text"
    /\ stage' = [stage EXCEPT ![r] = "waiting"]
    /\ status' = [status EXCEPT ![r] = "pending"]
    /\ signalled' = [signalled EXCEPT ![r] = TRUE]
    /\ UNCHANGED <<config, terminal, verdict, accepted, outcome>>

(* asyncio.wait_for raises TypeError out of the hook; HookBus logs it and  *)
(* the context it goes on with is not blocked.                             *)
WaitRaises(r) ==
    /\ Asks(r) /\ ~interactive /\ r \notin Reads /\ patience = "text"
    /\ stage' = [stage EXCEPT ![r] = "raised"]
    /\ status' = [status EXCEPT ![r] = "pending"]
    /\ signalled' = [signalled EXCEPT ![r] = TRUE]
    /\ verdict' = [verdict EXCEPT ![r] = "run"]
    /\ UNCHANGED <<config, terminal, accepted, outcome>>

(* Mutant: the hook has a copy of the request and stores that.             *)
WaitReturnsCopy(r) ==
    /\ stage[r] = "waiting" /\ signalled[r]
    /\ Resolve(r, "pending")
    /\ UNCHANGED <<config, terminal, accepted>>

WaitReturns(r) ==
    /\ stage[r] = "waiting" /\ signalled[r]
    /\ Resolve(r, status[r])
    /\ UNCHANGED <<config, terminal, accepted>>

(* A timeout of zero expires although the event is set (Python 3.11).      *)
WaitExpires(r) ==
    /\ stage[r] = "waiting" /\ (signalled[r] => patience = "zero")
    /\ Resolve(r, "timeout")
    /\ UNCHANGED <<config, terminal, accepted>>

(* Mutant: the API does not look for the request and its status.           *)
ApiAnswersAnything(r, a) ==
    /\ status' = [status EXCEPT ![r] = a]
    /\ signalled' = [signalled EXCEPT ![r] = TRUE]
    /\ accepted' = [accepted EXCEPT ![r] = a]
    /\ UNCHANGED <<config, stage, terminal, verdict, outcome>>

(* approve_request and deny_request: 404, 400, or the answer is stored.    *)
ApiAnswers(r, a) ==
    /\ status[r] = "pending"
    /\ status' = [status EXCEPT ![r] = a]
    /\ signalled' = [signalled EXCEPT ![r] = TRUE]
    /\ accepted' = [accepted EXCEPT ![r] = a]
    /\ UNCHANGED <<config, stage, terminal, verdict, outcome>>

Terminated ==
    /\ \A r \in Requests : stage[r] \in {"returned", "raised"} /\ status[r] # "pending"
    /\ \A r \in Requests : thread[r] \notin {"queued", "reading"}
    /\ UNCHANGED vars

Hook(r) ==
    \/ Skip(r) \/ Prompt(r) \/ PromptFails(r) \/ PromptAnswered(r) \/ PromptExpires(r)
    \/ ApproveRead(r) \/ WaitForApi(r) \/ WaitRaises(r) \/ WaitReturns(r) \/ WaitExpires(r)

People(r) == ReadLine(r) \/ \E a \in {"approved", "denied"} : ApiAnswers(r, a)

Next ==
    \/ \E r \in Requests : Hook(r) \/ ShowPrompt(r) \/ People(r)
    \/ Terminated

Spec == Init /\ [][Next]_vars

(* The event loop runs what is ready and its timers expire; people owe     *)
(* nothing.                                                                *)
FairSpec == Spec /\ \A r \in Requests : WF_vars(Hook(r)) /\ WF_vars(ShowPrompt(r))
-----------------------------------------------------------------------------
TypeOK ==
    /\ interactive \in BOOLEAN /\ skipReads \in BOOLEAN
    /\ patience \in {"positive", "zero", "text"}
    /\ stage \in [Requests -> Stages] /\ status \in [Requests -> Statuses]
    /\ signalled \in [Requests -> BOOLEAN]
    /\ thread \in [Requests -> {"none", "queued", "reading", "done"}]
    /\ line \in [Requests -> {"none", "yes", "no", "error"}]
    /\ verdict \in [Requests -> {"none", "run", "blocked"}]
    /\ accepted \in [Requests -> {"none", "approved", "denied"}]
    /\ outcome \in [Requests -> Statuses]
    /\ \A r \in Requests : stage[r] = "idle" => status[r] = "none" /\ verdict[r] = "none"

(* Who may have approved: the line typed at the prompt of that very        *)
(* request, the rule for reads without a terminal, the API without one.    *)
Approved(r) ==
    \/ interactive /\ line[r] = "yes"
    \/ ~interactive /\ r \in Reads
    \/ ~interactive /\ accepted[r] = "approved"

(* A call that requires approval and whose request was answered runs only  *)
(* if it was approved, for itself and by the channel that counts: neither  *)
(* a line typed at another prompt nor an answer to the API while a prompt  *)
(* decides lets it run.                                                    *)
RunsApproved ==
    \A r \in Requests :
        verdict[r] = "run" /\ RequiresApproval(r) /\ stage[r] = "returned" => Approved(r)

(* A request the hook returned with as approved, denied or timed out keeps *)
(* that status, whatever the API and the terminal do later, and its call   *)
(* ran exactly if the status is approved.  The record tells nothing of a   *)
(* request the hook gave up while it was pending (PendingWaits): its call  *)
(* is blocked, it stays open to the API, and an approval accepted then is  *)
(* stored although nothing ran.  That is the only way to such a record,    *)
(* and only without a terminal.                                            *)
RecordMatchesRun ==
    \A r \in Requests :
        stage[r] = "returned" /\ RequiresApproval(r) =>
            IF outcome[r] = "pending"
            THEN ~interactive /\ verdict[r] = "blocked" /\ status[r] \in {"pending", accepted[r]}
            ELSE status[r] = outcome[r] /\ (verdict[r] = "run" <=> status[r] = "approved")

(* Without a terminal, an answer the API accepted is never overwritten,    *)
(* unless the timeout is zero.                                             *)
AnswerStands ==
    ~interactive /\ patience # "zero" =>
        \A r \in Requests : accepted[r] # "none" => status[r] = accepted[r]

(* Every call that reaches the hook gets its verdict, although the human   *)
(* never answers and an abandoned prompt holds the terminal.               *)
HookReturns == \A r \in Requests : stage[r] \in {"prompting", "waiting"} ~> verdict[r] # "none"

(* "block and wait for write tools to be approved via API": while the API  *)
(* lists a request as pending, its call has not been given up.             *)
PendingWaits ==
    \A r \in Requests : ~interactive /\ status[r] = "pending" => stage[r] # "returned"

(* "Tools with destructive side effects always require approval": a call   *)
(* that a rule matches runs only if it was approved.                       *)
AlwaysAsked ==
    \A r \in Requests : verdict[r] = "run" /\ RequiresApproval(r) => Approved(r)
=============================================================================
