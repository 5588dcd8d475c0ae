----------------------------- MODULE RepairPlan -----------------------------
(***************************************************************************)
(* Repair plans (evals/compare.py, attestation.py, the commands diagnose,  *)
(* repair-plan and repair-execute): a comparison that found regressions    *)
(* becomes repair tasks, the tasks a plan of phases, and each execution of *)
(* a phase loads a plan from one directory, tries the phase and writes the *)
(* plan with the attempt to another directory, or back to the same one.    *)
(* A plan is three files written one after the other; processes run side   *)
(* by side and can die between any two steps.                              *)
(***************************************************************************)
EXTENDS Naturals, Sequences, FiniteSets

CONSTANTS RepairTasks,  \* what a diagnosis can ask for
          ReasonOf,     \* the regression reason of a task
          SeverityOf,   \* the worst severity of its clusters in the backlog
          Commanded,    \* the tasks that come with commands
          PlanDirs,     \* directories of plans
          Repairers,    \* processes that run one of the commands
          Recordable,   \* the statuses that operators ask to record
          Diagnoses,    \* the sets of tasks that diagnoses ask for
          MaxAttempts   \* bound on the attempts a plan records

Reasons == {"attestation_untrusted", "artifact_path_hygiene_failed", "newly_failed_tasks",
            "regressed_metrics", "new_critical_clusters", "new_clusters"}

ASSUME RepairAssumption ==
    /\ ReasonOf \in [RepairTasks -> Reasons]
    /\ SeverityOf \in [RepairTasks -> {"none", "medium", "high", "critical"}]
    /\ Commanded \subseteq RepairTasks
    /\ Recordable \subseteq {"in_progress", "blocked", "complete", "verified"}
    /\ Diagnoses \subseteq SUBSET RepairTasks
    /\ MaxAttempts \in Nat

VARIABLES page,       \* the files of a directory
          job,        \* what a process is doing
          disturbed   \* processes whose plan was rewritten under them (history)

repairVars == <<page, job, disturbed>>

\* No file yet, and a file that was opened and is not written.
NoFile  == [file |-> "none"]
Partial == [file |-> "partial"]
NoPlan  == [file |-> "no plan"]

TaskStatuses   == {"open", "in_progress", "blocked", "complete", "verified"}

\* In the order of the plan; the first two are preconditions of those behind them.
PlanPhases == <<"trust", "hygiene", "blockers", "evals", "owners">>
PhaseIds == {PlanPhases[i] : i \in DOMAIN PlanPhases}
Hard     == {"trust", "hygiene"}

Attempt == [by : Repairers, phase : PhaseIds, status : Recordable \cup {"complete", "blocked"}, ready : BOOLEAN]

IsPlan(p) ==
    /\ p.file = "plan"
    /\ p.status \in [DOMAIN p.status -> TaskStatuses] /\ DOMAIN p.status \subseteq RepairTasks
    /\ p.log \in Seq(Attempt)

IsText(p)     == p \in {NoFile, Partial} \/ IsPlan(p)
IsSnapshot(p) == p.file = "subjects" /\ IsText(p.json) /\ IsText(p.md)

\* Where a process is: it verifies the plan, checks the phase, runs commands, then
\* writes a file after the other.
RepairStages == {"new", "verified", "checked", "ran", "json", "md", "digests", "attestation",
           "ended"}

\* sound: was the attestation right?  ready: did the preflight succeed?  verdict: what
\* the commands came to; draft: the plan it writes; subjects: the files it attests.
Idle == [stage |-> "new", from |-> "nil", to |-> "nil", asked |-> "nil", sound |-> FALSE,
         ready |-> FALSE, verdict |-> "nil", draft |-> NoPlan, subjects |-> NoFile]

RepairTypeOK ==
    /\ DOMAIN page = PlanDirs
    /\ \A d \in PlanDirs :
         /\ IsText(page[d].json)
         /\ IsText(page[d].md)
         /\ page[d].att \in {NoFile, Partial} \/ IsSnapshot(page[d].att)
    /\ DOMAIN job = Repairers
    /\ \A x \in Repairers :
         /\ job[x].stage \in RepairStages
         /\ {job[x].from, job[x].to} \subseteq PlanDirs \cup {"nil"}
         /\ job[x].asked \in PhaseIds \cup {"nil"}
         /\ {job[x].sound, job[x].ready} \subseteq BOOLEAN
         /\ job[x].verdict \in {"complete", "blocked", "nil"}
         /\ job[x].draft = NoPlan \/ IsPlan(job[x].draft)
         /\ job[x].subjects = NoFile \/ IsSnapshot(job[x].subjects)
    /\ disturbed \subseteq Repairers

\* The plan of a fresh diagnosis.
Fresh(T) == [file |-> "plan", status |-> [t \in T |-> "open"], log |-> <<>>]

Written(p) == [json |-> p, md |-> p, att |-> [file |-> "subjects", json |-> p, md |-> p]]

\* Some directories have a plan from before.
RepairInit ==
    /\ \E T \in Diagnoses : \E D \in SUBSET PlanDirs :
         page = [d \in PlanDirs |-> IF d \in D THEN Written(Fresh(T))
                                   ELSE [json |-> NoFile, md |-> NoFile, att |-> NoFile]]
    /\ job = [x \in Repairers |-> Idle]
    /\ disturbed = {}

-----------------------------------------------------------------------------
\* The plan.

\* _repair_priority
RepairPriority(t) ==
    IF ReasonOf[t] = "attestation_untrusted" \/ SeverityOf[t] = "critical" THEN "critical"
    ELSE IF SeverityOf[t] = "high"
              \/ ReasonOf[t] \in {"newly_failed_tasks", "regressed_metrics",
                                  "new_critical_clusters"}
    THEN "high"
    ELSE "medium"

Urgent(t) == RepairPriority(t) \in {"critical", "high"}

\* The tasks of a phase among T; every task suggests an evaluation.
Members(ph, T) ==
    CASE ph = "trust"    -> {t \in T : ReasonOf[t] = "attestation_untrusted"}
      [] ph = "hygiene"  -> {t \in T : ReasonOf[t] = "artifact_path_hygiene_failed"}
      [] ph = "blockers" -> {t \in T : Urgent(t)}
      [] ph = "evals"    -> T
      [] ph = "owners"   -> {t \in T : ~Urgent(t)}

Done == {"complete", "verified"}

\* _repair_phase_base_status; s gives the statuses of the tasks.
BaseStatus(s, ph) ==
    LET here == {s[t] : t \in Members(ph, DOMAIN s)} IN
    IF here = {} THEN "not_applicable"
    ELSE IF here \subseteq Done THEN (IF here = {"verified"} THEN "verified" ELSE "complete")
    ELSE IF "in_progress" \in here THEN "in_progress"
    ELSE IF "blocked" \in here THEN "blocked"
    ELSE "open"

\* A precondition without tasks is not a phase of the plan.
Present(s, ph) == ph \in Hard => Members(ph, DOMAIN s) # {}

\* blocked_by: the preconditions before the phase that are not complete, or blocked
\* themselves.
BlockedBy(s, ph) ==
    LET trust == IF ph = "trust" \/ ~Present(s, "trust") \/ BaseStatus(s, "trust") \in Done
                 THEN {} ELSE {"trust"}
        clean == ph \in Hard \/ ~Present(s, "hygiene")
                   \/ (trust = {} /\ BaseStatus(s, "hygiene") \in Done)
    IN  trust \cup (IF clean THEN {} ELSE {"hygiene"})

PhaseStatus(s, ph) ==
    IF BlockedBy(s, ph) # {} /\ BaseStatus(s, ph) # "not_applicable" THEN "blocked"
    ELSE BaseStatus(s, ph)

\* A mutant: whether the preconditions are complete is not asked.
StartedOrOpen(s, ph) ==
    /\ Present(s, ph)
    /\ BaseStatus(s, ph) \in {"open", "in_progress"}

\* executable_phases
Executable(s, ph) ==
    /\ Present(s, ph)
    /\ PhaseStatus(s, ph) \in {"open", "in_progress"}
    /\ BlockedBy(s, ph) = {}

\* A mutant: the rebuilt plan forgets the attempts before.
OnlyLast(p, a) ==
    [file |-> "plan",
     status |-> [t \in DOMAIN p.status |->
                   IF t \in Members(a.phase, DOMAIN p.status) THEN a.status ELSE p.status[t]],
     log |-> <<a>>]

\* _repair_plan_with_attempt_status
WithAttempt(p, a) ==
    [file |-> "plan",
     status |-> [t \in DOMAIN p.status |->
                   IF t \in Members(a.phase, DOMAIN p.status) THEN a.status ELSE p.status[t]],
     log |-> Append(p.log, a)]

-----------------------------------------------------------------------------
\* The files of a directory.

\* The page for people shows the phases and their statuses, not the attempts.
SamePage(x, y) ==
    \/ x = y
    \/ /\ {x, y} \cap {NoFile, Partial} = {}
       /\ DOMAIN x.status = DOMAIN y.status
       /\ \A ph \in PhaseIds : PhaseStatus(x.status, ph) = PhaseStatus(y.status, ph)

\* verify_repair_plan_attestation
Attested(d) ==
    LET f == page[d] IN
    /\ f.att \notin {NoFile, Partial}
    /\ f.json = f.att.json /\ f.json # NoFile
    /\ SamePage(f.md, f.att.md) /\ f.md # NoFile

\* _load_repair_plan_for_preflight
HasPlan(d) == page[d].json \notin {NoFile, Partial}

\* Processes that still read d before they record their attempt.
Reading(d) == {x \in Repairers : job[x].stage \in {"verified", "checked", "ran"}
                                  /\ job[x].from = d}

At(x, st) == job[x].stage = st

\* The process ends, or it is killed.
Ends(x) == job' = [job EXCEPT ![x] = [Idle EXCEPT !.stage = "ended"]]

-----------------------------------------------------------------------------
\* eval repair-plan --output-dir: the tasks as they were diagnosed, whatever plan
\* the directory has.
PlanRepairs(x, d) ==
    /\ At(x, "new")
    /\ \E T \in Diagnoses :
         job' = [job EXCEPT ![x].stage = "json", ![x].to = d, ![x].draft = Fresh(T)]
    /\ page' = [page EXCEPT ![d].json = Partial]
    /\ disturbed' = disturbed \cup Reading(d)

\* eval repair-execute: the preflight verifies the attestation (the other arguments
\* are chosen where they are first used) ...
StartPreflight(x, d) ==
    /\ At(x, "new")
    /\ job' = [job EXCEPT ![x] = [Idle EXCEPT !.stage = "verified", !.from = d,
                                             !.sound = Attested(d)]]
    /\ UNCHANGED <<page, disturbed>>

\* ... then loads the plan, looks for the phase, and verifies the stubs and the suite
\* if it was given some.
EndPreflight(x, ph) ==
    /\ At(x, "verified")
    /\ \E artifacts \in BOOLEAN :
         LET plan == page[job[x].from].json
             ok   == /\ job[x].sound /\ artifacts /\ HasPlan(job[x].from)
                     /\ Executable(plan.status, ph)
         IN  job' = [job EXCEPT ![x].stage = "checked", ![x].asked = ph, ![x].ready = ok]
    /\ UNCHANGED <<page, disturbed>>

\* The commands of a phase.  Each is held against a list of what may not run; one that
\* is on it does not run and fails the phase.
SafeCommands(p, ph) == Members(ph, DOMAIN p.status) \cap Commanded

\* --execute-safe-commands: the plan is loaded again; without a command in the phase,
\* or after a failed preflight, none is run and that is a failure.
RunCommands(x) ==
    /\ At(x, "checked")
    /\ \E v \in {"complete", "blocked"} :
         /\ v = "complete" =>
              /\ job[x].ready /\ HasPlan(job[x].from)
              /\ SafeCommands(page[job[x].from].json, job[x].asked) # {}
         /\ job' = [job EXCEPT ![x].stage = "ran", ![x].verdict = v]
    /\ UNCHANGED <<page, disturbed>>

\* A mutant: the status asked for is recorded, ready or not.
AskedStatus(x) == IF job[x].verdict # "nil" THEN {job[x].verdict} ELSE Recordable

\* What is recorded: what the commands came to, or what was asked for if it was ready.
Recorded(x) ==
    IF job[x].verdict # "nil" THEN {job[x].verdict}
    ELSE IF job[x].ready THEN Recordable ELSE {"blocked"}

\* The attempt goes into the plan, which is loaded once more and written elsewhere.
RecordAttempt(x, o) ==
    /\ At(x, "checked") \/ At(x, "ran")
    /\ HasPlan(job[x].from)
    /\ LET plan == page[job[x].from].json IN
       /\ Len(plan.log) < MaxAttempts
       /\ \E s \in Recorded(x) :
            LET a == [by |-> x, phase |-> job[x].asked, status |-> s, ready |-> job[x].ready]
            IN  job' = [job EXCEPT ![x] = [Idle EXCEPT !.stage = "json", !.to = o,
                                                     !.draft = WithAttempt(plan, a)]]
    /\ page' = [page EXCEPT ![o].json = Partial]
    /\ disturbed' = disturbed \cup (Reading(o) \ {x})

\* write_repair_plan: each file is opened, then written.
WritePlan(x) ==
    LET d == job[x].to IN
    /\ \/ /\ At(x, "json")
          /\ page' = [page EXCEPT ![d].json = job[x].draft, ![d].md = Partial]
          /\ job' = [job EXCEPT ![x].stage = "md"]
       \/ /\ At(x, "md")
          /\ page' = [page EXCEPT ![d].md = job[x].draft]
          /\ job' = [job EXCEPT ![x].stage = "digests", ![x].draft = NoPlan]
       \/ /\ At(x, "digests")
          /\ page' = [page EXCEPT ![d].att = Partial]
          /\ job' = [job EXCEPT ![x].stage = "attestation",
                 ![x].subjects = [file |-> "subjects", json |-> page[d].json, md |-> page[d].md]]
       \/ /\ At(x, "attestation")
          /\ page' = [page EXCEPT ![d].att = job[x].subjects]
          /\ Ends(x)
    /\ disturbed' = disturbed \cup Reading(d)

\* Nothing is recorded: it was not asked for, or the plan is gone; or the process is
\* killed.
Stops(x) ==
    /\ job[x].stage \notin {"new", "ended"}
    /\ Ends(x)
    /\ UNCHANGED <<page, disturbed>>

RepairNext ==
    \E x \in Repairers :
        \/ \E d \in PlanDirs : PlanRepairs(x, d)
        \/ \E d \in PlanDirs : StartPreflight(x, d)
        \/ \E ph \in PhaseIds : EndPreflight(x, ph)
        \/ RunCommands(x)
        \/ \E o \in PlanDirs : RecordAttempt(x, o)
        \/ WritePlan(x)
        \/ Stops(x)

RepairSpec == RepairInit /\ [][RepairNext]_repairVars

-----------------------------------------------------------------------------
\* The attempts among the first i of a log that were at a phase of task t.
Touching(T, log, i, t) == {j \in 1..i : t \in Members(log[j].phase, T)}

\* The statuses of the tasks T after the first i attempts of a log: what the last attempt
\* at a phase of the task recorded.
StatusesAfter(T, log, i) ==
    [t \in T |-> IF Touching(T, log, i, t) = {} THEN "open"
                 ELSE log[CHOOSE j \in Touching(T, log, i, t) :
                            \A k \in Touching(T, log, i, t) : k <= j].status]

Before(h, ph) == \E i, j \in DOMAIN PlanPhases : i < j /\ PlanPhases[i] = h /\ PlanPhases[j] = ph

\* What the executions of a plan leave can be trusted step by step: in every plan that
\* can be loaded, after crashes and copies from directory to directory, the statuses
\* are those that its attempts lead to, an attempt without a successful preflight left
\* "blocked", and one with it was at a phase that was not done and had the tasks of
\* all preconditions done by the attempts before -- unless someone rewrote the plan
\* while it was being tried.
AttemptsAccountForPlan ==
    \A d \in PlanDirs : HasPlan(d) =>
        LET p == page[d].json
            T == DOMAIN p.status
        IN  /\ p.status = StatusesAfter(T, p.log, Len(p.log))
            /\ \A i \in DOMAIN p.log :
                 LET was == StatusesAfter(T, p.log, i - 1) IN
                 \/ p.log[i].by \in disturbed
                 \/ ~p.log[i].ready /\ p.log[i].status = "blocked"
                 \/ /\ p.log[i].ready
                    /\ \E t \in Members(p.log[i].phase, T) : was[t] \notin Done
                    /\ \A h \in Hard : Before(h, p.log[i].phase) =>
                         \A t \in Members(h, T) : was[t] \in Done

=============================================================================
