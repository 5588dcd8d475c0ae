----------------------------- MODULE JudgedRuns -----------------------------
(***************************************************************************)
(* What a run claims and whether it is believed (runtime/loop.py           *)
(* _finalize_turn, finalization.py, strict_output.py, evidence/,           *)
(* quality/gates.py, evals/runner.py run_task): every tool call of a run   *)
(* is stored under the run's session, then what it shows is recorded as    *)
(* evidence; the final answer may cite evidence and claim work, which the  *)
(* finalization checks; and the evaluation judges the run by its results   *)
(* and by what the session has stored.                                     *)
(*   The session of a task is the same in every execution of the suite,    *)
(* and the store outlives the process: a run finds the calls and the       *)
(* evidence of those before it.                                            *)
(***************************************************************************)
EXTENDS Naturals, Sequences, FiniteSets, Functions

CONSTANTS EvalTasks,    \* tasks; each is a session, too
          TaskRuns,     \* runs of tasks
          ToolCalls,    \* what the model can call: a tool with arguments
          ToolOf,       \* the tool of a call
          SourceOf,     \* the path or the command of a call
          KindOf,       \* what a tool does
          SpecOf,       \* what a task demands
          MaxRows       \* bound on the calls that are stored

ToolKinds  == {"write", "command", "test", "read"}
Claims == {"generated", "ran", "tested", "reviewed", "deployed"}

\* large: it succeeded and its text was put away; exit: the command ran and failed;
\* error, denied: it did not run to its end, or its arguments did not fit, or it was not
\* allowed; blocked: it was not even tried.
CallOutcomes == {"ok", "large", "exit", "error", "denied", "blocked"}

Tools == {ToolOf[c] : c \in ToolCalls}
Types == {"tool_output", "command", "test"}
Sources == {SourceOf[c] : c \in ToolCalls} \cup {"nowhere"}

\* A requirement criterion: a tool that must succeed, the type and the source that some
\* evidence must have.  One that demands a text besides can fail without a reason here.
Whatever == "any"
Criterion == [tool   : Tools \cup {Whatever},
              type   : Types \cup {Whatever},
              source : Sources \cup {Whatever}]

IsSpec(s) ==
    /\ s.required \in Seq(Tools)
    /\ {s.allowed, s.forbidden} \subseteq SUBSET Tools
    /\ s.calls \subseteq ToolCalls
    /\ s.criteria \subseteq Criterion
    /\ s.sources \subseteq Types
    /\ {s.duplicates, s.repairs} \subseteq Nat
    /\ {s.recover, s.verified} \subseteq BOOLEAN

ASSUME JudgedAssumption ==
    /\ IsFiniteSet(EvalTasks)
    /\ KindOf \in [Tools -> ToolKinds]
    /\ \A t \in EvalTasks : IsSpec(SpecOf[t])
    /\ MaxRows \in Nat

VARIABLES rows,      \* the stored calls of a session, as they are listed
          settled,   \* how many of them are from earlier seconds
          ledger,    \* the evidence of a session
          judged     \* the runs

judgedVars == <<rows, settled, ledger, judged>>

CallResult   == [call : ToolCalls, out : CallOutcomes]
Evidence == [session : EvalTasks, type : Types, source : Sources, good : BOOLEAN]

\* A run: calling while the last result has not been recorded as evidence; refs are
\* those of its final answer, and it claimed some work or not; alone: no other run called
\* tools in its session.
NoRun == [phase |-> "new", task |-> "nil", results |-> <<>>, status |-> "nil",
          refs |-> {}, claimed |-> FALSE, alone |-> TRUE, success |-> FALSE]

RunPhases == {"new", "working", "calling", "finished", "judged", "dead"}
FinalStatuses == {"nil", "final", "blocked", "needs_more_work"}

JudgedTypeOK ==
    /\ DOMAIN rows = EvalTasks /\ DOMAIN settled = EvalTasks
    /\ \A t \in EvalTasks : rows[t] \in Seq(CallResult) /\ settled[t] \in 0..Len(rows[t])
    /\ ledger \in [EvalTasks -> SUBSET Evidence]
    /\ DOMAIN judged = TaskRuns
    /\ \A r \in TaskRuns :
         /\ judged[r].phase \in RunPhases
         /\ judged[r].task \in EvalTasks \cup {"nil"}
         /\ judged[r].results \in Seq(CallResult) /\ Len(judged[r].results) <= MaxRows
         /\ judged[r].status \in FinalStatuses
         /\ judged[r].refs \subseteq Evidence
         /\ {judged[r].claimed, judged[r].alone, judged[r].success} \subseteq BOOLEAN

JudgedInit ==
    /\ rows = [t \in EvalTasks |-> <<>>]
    /\ settled = [t \in EvalTasks |-> 0]
    /\ ledger = [t \in EvalTasks |-> {}]
    /\ judged = [r \in TaskRuns |-> NoRun]

-----------------------------------------------------------------------------
\* Tool calls.

Succeeded(o) == o \in {"ok", "large"}

\* tool_failure_metadata: failures that a later success of the tool makes good.
Recoverable(o) == o \in {"exit", "error"}

\* The path or command that a result names: none when the tool failed before its end,
\* and none that can be parsed when its text was put away.
Named(c, o) == IF o \in {"ok", "exit"} THEN SourceOf[c] ELSE "nowhere"

\* ToolEvidenceExtractor.extract
Extracted(t, c, o) ==
    LET k == KindOf[ToolOf[c]]
        e == [session |-> t, type |-> IF k = "write" THEN "tool_output" ELSE k,
              source |-> Named(c, o), good |-> Succeeded(o)]
    IN  IF k = "read" THEN {} ELSE {e}

Inserted(s, i, x) == SubSeq(s, 1, i) \o <<x>> \o SubSeq(s, i + 1, Len(s))

\* record_tool_call: calls are listed by the second and by their id, which the model or
\* a random number gives, so a call can get in front of others of its second.
Stored(t, x) ==
    \/ /\ rows' = [rows EXCEPT ![t] = Append(@, x)]
       /\ settled' = [settled EXCEPT ![t] = Len(rows[t])]
    \/ /\ \E i \in settled[t]..Len(rows[t]) : rows' = [rows EXCEPT ![t] = Inserted(@, i, x)]
       /\ UNCHANGED settled

\* The other runs whose session gets a call of r: they are no longer alone.
Touched(r) ==
    [x \in TaskRuns |-> IF x # r /\ judged[x].task = judged[r].task
                         THEN [judged[x] EXCEPT !.alone = FALSE] ELSE judged[x]]

WithResult(r, x, phase) ==
    judged' = [Touched(r) EXCEPT ![r].results = Append(@, x), ![r].phase = phase]

\* The result cache has the call's success.
InCache(r, c) ==
    \E i \in DOMAIN judged[r].results :
        judged[r].results[i].call = c /\ Succeeded(judged[r].results[i].out)

CanCall(r) ==
    /\ judged[r].phase = "working"
    /\ Cardinality({x \in EvalTasks \X (1..MaxRows) : x[2] \in DOMAIN rows[x[1]]}) < MaxRows

BeginTask(r, t) ==
    /\ judged[r].phase = "new"
    /\ judged' = [judged EXCEPT ![r].phase = "working", ![r].task = t,
                                ![r].alone = rows[t] = <<>>]
    /\ UNCHANGED <<rows, settled, ledger>>

\* The tool is dispatched and its result stored; the evidence comes in a transaction of
\* its own.
Dispatched(r, c) ==
    /\ CanCall(r) /\ ~InCache(r, c)
    /\ \E o \in CallOutcomes \ {"blocked"} :
         /\ o = "exit" => KindOf[ToolOf[c]] \in {"command", "test"}
         /\ ToolOf[c] \notin SpecOf[judged[r].task].allowed => o = "error"
         /\ Stored(judged[r].task, [call |-> c, out |-> o])
         /\ WithResult(r, [call |-> c, out |-> o], "calling")
    /\ UNCHANGED ledger

RecordEvidence(r) ==
    /\ judged[r].phase = "calling"
    /\ LET t == judged[r].task
           x == judged[r].results[Len(judged[r].results)]
       IN  ledger' = [ledger EXCEPT ![t] = @ \cup Extracted(t, x.call, x.out)]
    /\ judged' = [judged EXCEPT ![r].phase = "working"]
    /\ UNCHANGED <<rows, settled>>

\* Replies without a dispatch: the cached result, or a refusal of the session's limit or
\* of the circuit breaker. They are stored and are no evidence.
RepliedAtOnce(r, c) ==
    /\ CanCall(r)
    /\ \E o \in {"ok", "large", "blocked"} :
         /\ IF InCache(r, c)
            THEN [call |-> c, out |-> o] \in Range(judged[r].results) /\ Succeeded(o)
            ELSE o = "blocked"
         /\ Stored(judged[r].task, [call |-> c, out |-> o])
         /\ WithResult(r, [call |-> c, out |-> o], "working")
    /\ UNCHANGED ledger

-----------------------------------------------------------------------------
\* The final answer.

Successful(r) == {judged[r].results[i].call : i \in {j \in DOMAIN judged[r].results :
                                                      Succeeded(judged[r].results[j].out)}}
Did(r, ks) == \E c \in Successful(r) : KindOf[ToolOf[c]] \in ks

\* A mutant: the evidence of all sessions is listed.
ListedAll(t) == UNION {ledger[u] : u \in EvalTasks}

\* EvidenceLedger.list_evidence
Listed(t) == ledger[t]

\* A mutant: any stored call with the source will do.
ResolvesAnyCall(t, e) ==
    \E i \in DOMAIN rows[t] : Named(rows[t][i].call, rows[t][i].out) = e.source

\* EvidenceResolver.resolve: a successful call of the session had this command or path,
\* the cited one or another.  That a command has to be matched by a command and a path
\* by a path is left out: here a reference resolves whenever it does in the code, and
\* also by a call of the other sort.
Resolves(t, e) ==
    \E i \in DOMAIN rows[t] :
        /\ rows[t][i].out = "ok"
        /\ SourceOf[rows[t][i].call] = e.source

\* ClaimEvidenceMatcher: the names of the successful tools support a claim, or words in
\* the texts of successful results and evidence. Words can be anything; they need a text
\* to be in.
Supported(r, claim, words) ==
    LET good == {e \in Listed(judged[r].task) : e.good} IN
    \/ claim \in words /\ good # {}
    \/ claim = "generated" /\ (Did(r, {"write"}) \/ \E e \in good : e.type = "tool_output")
    \/ claim = "ran" /\ (Successful(r) # {} \/ \E e \in good : e.type # "tool_output")
    \/ claim = "tested" /\ claim \in words /\ Did(r, {"command", "test"})
    \/ claim = "reviewed" /\ Did(r, {"read"})
    \/ claim \in {"reviewed", "deployed"} \cap words /\ Successful(r) # {}

\* FinalizationGuard.validate for a final answer with these references and claims.
Validated(r, refs, claims, words) ==
    LET t == judged[r].task IN
    /\ refs \subseteq Listed(t)
    /\ \A e \in refs : Resolves(t, e)
    /\ \A c \in claims : Supported(r, c, words)

\* The run ends without a final answer: its turns are used up, the strict status is
\* another one, it cannot be parsed and the repair fails (a soft parse takes any text),
\* or it cites nothing where the profile demands it.
NotFinal(r) ==
    /\ judged[r].phase = "working"
    /\ \E s \in {"blocked", "needs_more_work"} :
         judged' = [judged EXCEPT ![r].phase = "finished", ![r].status = s]
    /\ UNCHANGED <<rows, settled, ledger>>

\* A final answer is believed or not. It can cite what it read in the texts of other
\* sessions, too (references that exist nowhere only make it blocked), and make a claim
\* whose words are found in the texts of successes or not.
FinalAnswer(r) ==
    /\ judged[r].phase = "working"
    /\ \E refs \in SUBSET UNION {ledger[t] : t \in EvalTasks},
          claims \in {{}} \cup {{c} : c \in Claims}, found \in BOOLEAN :
         judged' = IF Validated(r, refs, claims, IF found THEN claims ELSE {})
                   THEN [judged EXCEPT ![r].phase = "finished", ![r].status = "final",
                                       ![r].refs = refs, ![r].claimed = claims # {}]
                   ELSE [judged EXCEPT ![r].phase = "finished", ![r].status = "blocked"]
    /\ UNCHANGED <<rows, settled, ledger>>

\* The process ends before the run does; what is stored stays.
RunDies(r) ==
    /\ judged[r].phase \in {"working", "calling"}
    /\ judged' = [judged EXCEPT ![r] = [NoRun EXCEPT !.phase = "dead"]]
    /\ UNCHANGED <<rows, settled, ledger>>

-----------------------------------------------------------------------------
\* The judgement (EvalRunner.run_task).

ToolsOf(s) == [i \in DOMAIN s |-> ToolOf[s[i].call]]

\* _contains_order: how many of the required tools the first tools have, in their order;
\* all of them is what it takes.
MatchedSoFar(tools, required) ==
    LET found[i \in 0..Len(tools)] ==
          IF i = 0 THEN 0
          ELSE IF found[i - 1] < Len(required) /\ tools[i] = required[found[i - 1] + 1]
          THEN found[i - 1] + 1
          ELSE found[i - 1]
    IN  found

ContainsOrder(tools, required) == MatchedSoFar(tools, required)[Len(tools)] = Len(required)

\* _duplicate_tool_calls, of the stored calls of the session.
DuplicateCalls(s) == Cardinality({j \in DOMAIN s : \E i \in 1..(j - 1) : s[i].call = s[j].call})

SameTool(s, i, j) == ToolOf[s[i].call] = ToolOf[s[j].call]

\* A mutant: a success before the failure makes it good, too.
RecoveredSometime(s) ==
    {i \in DOMAIN s : Recoverable(s[i].out)
        /\ \E j \in DOMAIN s : SameTool(s, i, j) /\ Succeeded(s[j].out)}

\* _recovered_tool_failure_indexes
Recovered(s) ==
    {i \in DOMAIN s : Recoverable(s[i].out)
        /\ \E j \in DOMAIN s : j > i /\ SameTool(s, i, j) /\ Succeeded(s[j].out)}

\* tool_failures
Unforgiven(r) ==
    LET s == judged[r].results IN
    {i \in DOMAIN s : ~Succeeded(s[i].out)}
        \ (IF SpecOf[judged[r].task].recover THEN Recovered(s) ELSE {})

\* _evidence_matches_requirement; whether what it shows succeeded is not asked.
Matches(e, k) == k.type \in {Whatever, e.type} /\ k.source \in {Whatever, e.source}

\* _requirement_criterion_covered
Meets(r, k) ==
    /\ k.tool \in {Whatever} \cup {ToolOf[c] : c \in Successful(r)}
    /\ {k.type, k.source} # {Whatever} => \E e \in Listed(judged[r].task) : Matches(e, k)

\* The gate requirements_covered.  no_fake_completion asks again what the finalization
\* has found; the gates on artifacts fail, as no evaluation keeps a list of artifacts.
RequirementsCovered(r) == \A k \in SpecOf[judged[r].task].criteria : Meets(r, k)

\* _quality_failure_count is zero.
Covered(r) ==
    /\ RequirementsCovered(r)
    /\ SpecOf[judged[r].task].sources \subseteq {e.type : e \in Listed(judged[r].task)}

\* _trajectory_errors finds none.
TrajectoryHolds(r) ==
    LET spec  == SpecOf[judged[r].task]
        calls == rows[judged[r].task]
        tools == ToolsOf(calls)
    IN  /\ spec.forbidden \cap Range(tools) = {}
        /\ ContainsOrder(tools, spec.required)
        /\ spec.calls \subseteq {calls[i].call : i \in DOMAIN calls}
        /\ DuplicateCalls(calls) <= spec.duplicates
        /\ Cardinality(Recovered(judged[r].results)) >= spec.repairs

RunVerified(r) == judged[r].status = "final" /\ judged[r].refs # {}

Passes(r) ==
    /\ judged[r].status = "final"
    /\ Unforgiven(r) = {}
    /\ Covered(r)
    /\ SpecOf[judged[r].task].verified => RunVerified(r)
    /\ TrajectoryHolds(r)

\* run_task; a call that could not be parsed at first fails the run, too. Of a run that
\* failed only that is kept here.
Judged(r) ==
    /\ judged[r].phase = "finished"
    /\ \/ /\ Passes(r)
          /\ judged' = [judged EXCEPT ![r].phase = "judged", ![r].success = TRUE]
       \/ judged' = [judged EXCEPT ![r] = [NoRun EXCEPT !.phase = "judged"]]
    /\ UNCHANGED <<rows, settled, ledger>>

JudgedNext ==
    \E r \in TaskRuns :
        \/ \E t \in EvalTasks : BeginTask(r, t)
        \/ \E c \in ToolCalls : Dispatched(r, c)
        \/ RecordEvidence(r)
        \/ \E c \in ToolCalls : RepliedAtOnce(r, c)
        \/ NotFinal(r)
        \/ FinalAnswer(r)
        \/ RunDies(r)
        \/ Judged(r)

JudgedSpec == JudgedInit /\ [][JudgedNext]_judgedVars

-----------------------------------------------------------------------------
\* Some call of the session succeeded.
SomethingDone(t) == \E i \in DOMAIN rows[t] : Succeeded(rows[t][i].out)

\* A final answer is believed for a reason that is on record: with a claim, some call of
\* its session has succeeded; and each reference is to evidence of its own session with
\* a call that succeeded with that path or command. This includes evidence that another
\* run of the session left, or whose process died.
FinalsAreBacked ==
    \A r \in TaskRuns : judged[r].status = "final" =>
        LET t == judged[r].task IN
        /\ judged[r].claimed => SomethingDone(t)
        /\ \A e \in judged[r].refs :
             /\ e.session = t
             /\ \E i \in DOMAIN rows[t] :
                  rows[t][i].out = "ok" /\ SourceOf[rows[t][i].call] = e.source

\* A task that counts as passed was done by its run, when no other run has called tools
\* in its session: it called each required tool and no forbidden one, every failed
\* result was made good by a later success of the tool in the same run, what had to be
\* covered succeeded in it, and a task to be verified cites its own evidence.
SuccessIsEarned ==
    \A r \in TaskRuns : judged[r].success =>
        LET s    == judged[r].results
            spec == SpecOf[judged[r].task]
        IN  /\ \A i \in DOMAIN s : ~Succeeded(s[i].out) =>
                 \E j \in DOMAIN s : j > i /\ SameTool(s, i, j) /\ Succeeded(s[j].out)
            /\ \A k \in spec.criteria : k.tool # Whatever => \E i \in DOMAIN s :
                 ToolOf[s[i].call] = k.tool /\ Succeeded(s[i].out)
            /\ judged[r].alone =>
                 /\ Range(spec.required) \subseteq Range(ToolsOf(s))
                 /\ spec.forbidden \cap Range(ToolsOf(s)) = {}
                 /\ spec.calls \subseteq {s[i].call : i \in DOMAIN s}
                 /\ \A k \in spec.criteria : k.source # Whatever => \E i \in DOMAIN s :
                      Named(s[i].call, s[i].out) = k.source
                 /\ spec.verified => \E e \in judged[r].refs, i \in DOMAIN s :
                      s[i].out = "ok" /\ SourceOf[s[i].call] = e.source

=============================================================================
