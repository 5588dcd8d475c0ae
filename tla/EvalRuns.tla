------------------------------ MODULE EvalRuns ------------------------------
(***************************************************************************)
(* Evaluation runs (evals/suite_run.py, real_model_suite.py, the commands  *)
(* eval-run-suite and eval-real-small-model): an execution writes a        *)
(* contract before it runs the suite, then its artifacts file by file into *)
(* the directory of its run name, then an attestation of their digests.    *)
(* The release gate (gate.py) and the comparison of two runs (compare.py)  *)
(* read these directories later, whatever became of the executions: they   *)
(* can die at any step, and a run name can be used again.                  *)
(***************************************************************************)
EXTENDS Naturals, FiniteSets

CONSTANTS Executions,    \* processes that run one of the commands
          RunDirs,       \* run names
          MaxVersion,    \* bound on the edits of the suite file
          OutcomesOf,    \* the results that the tasks of a version can have
          Clusters,      \* cluster keys
          Critical,      \* those that _severity_for_cluster calls critical
          MostFaults,    \* bound on the faults of a task
          RootIsAbsolute, \* is --output-root an absolute path?
          MinRate, MaxFailed, MaxFaults, MaxClusters, MaxCritical  \* thresholds

Versions == 1..MaxVersion

\* The suite of eval-real-small-model, whose tasks are part of the program.
BuiltinSuite == MaxVersion + 1

Suites == Versions \cup {BuiltinSuite}

\* A failed task has a failure artifact, which has a cluster key; others have none.
Result == {r \in [success : BOOLEAN, faults : 0..MostFaults, clusters : SUBSET Clusters] :
             r.success <=> r.clusters = {}}

ASSUME EvalAssumption ==
    /\ MaxVersion \in Nat \ {0}
    /\ Critical \subseteq Clusters
    /\ IsFiniteSet(Clusters)
    /\ MostFaults \in Nat
    /\ RootIsAbsolute \in BOOLEAN
    /\ {MinRate, MaxFailed, MaxFaults, MaxClusters, MaxCritical} \subseteq Nat

\* The tasks are part of the suite, which is not run without any.
ASSUME OutcomesAssumption ==
    \A v \in Suites : \A o, p \in OutcomesOf[v] :
        /\ IsFiniteSet(DOMAIN o) /\ DOMAIN o # {}
        /\ o \in [DOMAIN o -> Result]
        /\ DOMAIN o = DOMAIN p

VARIABLES suite,      \* the version in the suite file
          progress,   \* how far an execution is
          runDir,     \* the directory it writes to
          agreed,     \* the version its contract was made from
          executed,   \* the version it ran
          outcome,    \* the results of its tasks
          evidence,   \* the contract it found when it wrote the manifest
          file,       \* who wrote a file of a directory last
          attested,   \* the files a directory's attestation names, by their writers
          latest,     \* the directory in latest.json
          overlapped  \* directories that two executions wrote to at once (history)

evalVars == <<suite, progress, runDir, agreed, executed, outcome,
              evidence, file, attested, latest, overlapped>>

Nil     == "nil"
Missing == "missing"  \* no such file
Torn    == "torn"     \* half written

Artifacts == {"contract", "report", "specs", "failures", "manifest"}
Verdicts  == {"gate", "comparison"}
Files     == Artifacts \cup Verdicts

Writers   == Executions \cup {Missing, Torn}
Snapshots == [Files -> Writers]

ASSUME WritersAssumption == {Missing, Torn} \cap Executions = {}

NoAttestation   == [f \in Files |-> Missing]
TornAttestation == [f \in Files |-> Torn]

\* Where an execution is: the files come in this order, then the attestation.
Steps == {"new", "contract", "ran", "report", "specs", "failures", "manifest",
          "attested", "published", "closed", "dead"}

Outcomes == UNION {OutcomesOf[v] : v \in Suites}

EvalTypeOK ==
    /\ suite \in Versions
    /\ progress \in [Executions -> Steps]
    /\ runDir \in [Executions -> RunDirs \cup {Nil}]
    /\ agreed \in [Executions -> Suites \cup {0}]
    /\ executed \in [Executions -> Suites \cup {0}]
    /\ outcome \in [Executions -> Outcomes \cup {<<>>}]
    /\ evidence \in [Executions -> Writers]
    /\ file \in [RunDirs -> Snapshots]
    /\ attested \in [RunDirs -> Snapshots]
    /\ latest \in RunDirs \cup {Nil}
    /\ overlapped \subseteq RunDirs

EvalInit ==
    /\ suite = 1
    /\ progress = [e \in Executions |-> "new"]
    /\ runDir = [e \in Executions |-> Nil]
    /\ agreed = [e \in Executions |-> 0]
    /\ executed = [e \in Executions |-> 0]
    /\ outcome = [e \in Executions |-> <<>>]
    /\ evidence = [e \in Executions |-> Missing]
    /\ file = [d \in RunDirs |-> [f \in Files |-> Missing]]
    /\ attested = [d \in RunDirs |-> NoAttestation]
    /\ latest = Nil
    /\ overlapped = {}

-----------------------------------------------------------------------------
\* What a directory says.

\* Can w and x leave the same text?  Contracts and manifests carry the time they
\* were made at, the others what the execution found (and how long it took, which
\* could be the same).
SameText(f, w, x) ==
    \/ w = x
    \/ /\ {w, x} \subseteq Executions
       /\ f \in {"report", "specs", "failures"}
       /\ executed[w] = executed[x]
       /\ f # "specs" => outcome[w] = outcome[x]

\* verify_run_attestation
Verified(d) ==
    /\ attested[d]["manifest"] # Torn
    /\ \A f \in Files :
        attested[d][f] # Missing => SameText(f, file[d][f], attested[d][f])
    /\ \A f \in {"manifest", "report", "specs"} : attested[d][f] # Missing

\* load_eval_run: the others are not parsed, or need not be there.
Loadable(d) ==
    /\ file[d]["manifest"] \in Executions
    /\ file[d]["report"] \in Executions
    /\ file[d]["contract"] # Torn
    /\ file[d]["failures"] # Torn

Reported(d) == outcome[file[d]["report"]]
Tasks(d)    == DOMAIN Reported(d)
Passed(d)   == {t \in Tasks(d) : Reported(d)[t].success}
Failed(d)   == Tasks(d) \ Passed(d)

\* The faults of all tasks, one by one.
Faults(d) == {x \in Tasks(d) \X (1..MostFaults) : x[2] <= Reported(d)[x[1]].faults}

\* The tasks whose failure artifacts are found.  The clustering looks for a relative path
\* in the run directory, but the paths start from the working directory.
FoundArtifacts(d) ==
    IF file[d]["failures"] \notin Executions \/ ~RootIsAbsolute THEN {}
    ELSE DOMAIN outcome[file[d]["failures"]]

\* Those that show a cluster.
Shown(d, k) ==
    {t \in FoundArtifacts(d) : k \in outcome[file[d]["failures"]][t].clusters}

ClustersOf(d) == {k \in Clusters : Shown(d, k) # {}}

\* The clusters whose remediation the gate counts.
CriticalOf(d) == ClustersOf(d) \cap Critical

\* _gate_failures, without the rate and the number of recoveries by schema repair hints
\* (gate.py:274-283): a directory passes here whenever it does in the code.
WithinThresholds(d) ==
    /\ 100 * Cardinality(Passed(d)) >= MinRate * Cardinality(Tasks(d))
    /\ Cardinality(Failed(d)) <= MaxFailed
    /\ Cardinality(Faults(d)) <= MaxFaults
    /\ Cardinality(ClustersOf(d)) <= MaxClusters
    /\ Cardinality(CriticalOf(d)) <= MaxCritical

\* The version that the manifest's provenance names.
Provenance(d) == executed[file[d]["manifest"]]

\* A mutant: that the contract is the one found is checked, not what it says.
ContractFound(d) ==
    /\ file[d]["contract"] \in Executions
    /\ evidence[file[d]["manifest"]] = file[d]["contract"]

\* _pre_run_contract_evidence_failures finds none.
ContractHolds(d) ==
    LET c == file[d]["contract"] IN
    /\ c \in Executions
    /\ agreed[c] = Provenance(d)
    /\ evidence[file[d]["manifest"]] = c

\* evaluate_eval_run_gate
GatePasses(d) ==
    /\ Loadable(d)
    /\ WithinThresholds(d)
    /\ ContractHolds(d)
    /\ Verified(d)

\* _pre_run_post_run_mismatches: without a contract there are none.
Mismatched(d) == file[d]["contract"] \in Executions /\ ~ContractHolds(d)

NoLowerRate(b, d) ==
    Cardinality(Passed(d)) * Cardinality(Tasks(b))
        >= Cardinality(Passed(b)) * Cardinality(Tasks(d))

NoneNewlyFailed(b, d) == Passed(b) \cap Failed(d) = {}

\* _metric_deltas, over the tasks that both runs have.
NoMoreFaults(b, d) ==
    \A t \in Tasks(b) \cap Tasks(d) : Reported(d)[t].faults <= Reported(b)[t].faults

\* _attestation_diff: one without an attestation is excused if the other has none.
AttestationsHold(b, d) ==
    {attested[b], attested[d]} # {NoAttestation} => Verified(b) /\ Verified(d)

\* _provenance_diff
ProvenanceHolds(b, d) ==
    /\ ~Mismatched(b)
    /\ ~Mismatched(d)
    /\ Provenance(b) = Provenance(d)

\* _cluster_diff
ClustersNoWorse(b, d) ==
    /\ ClustersOf(d) \subseteq ClustersOf(b)
    /\ \A k \in ClustersOf(d) : Cardinality(Shown(d, k)) <= Cardinality(Shown(b, k))

\* A mutant: the failure clusters are not compared.
UnregressedResults(b, d) ==
    /\ Loadable(b) /\ Loadable(d)
    /\ NoLowerRate(b, d)
    /\ NoneNewlyFailed(b, d)
    /\ NoMoreFaults(b, d)
    /\ AttestationsHold(b, d)
    /\ ProvenanceHolds(b, d)

\* The strict profile of the comparison finds no reason: _regression_reasons.
Unregressed(b, d) ==
    /\ Loadable(b) /\ Loadable(d)
    /\ NoLowerRate(b, d)
    /\ NoneNewlyFailed(b, d)
    /\ NoMoreFaults(b, d)
    /\ AttestationsHold(b, d)
    /\ ProvenanceHolds(b, d)
    /\ ClustersNoWorse(b, d)

-----------------------------------------------------------------------------
Advance(e, from, to) ==
    /\ progress[e] = from
    /\ progress' = [progress EXCEPT ![e] = to]

Writes(e, f) == file' = [file EXCEPT ![runDir[e]][f] = e]

Active(e) == progress[e] \notin {"new", "closed", "dead"}

\* A command starts with the contract for suite s.
Contracts(e, d, s) ==
    /\ Advance(e, "new", "contract")
    /\ runDir' = [runDir EXCEPT ![e] = d]
    /\ agreed' = [agreed EXCEPT ![e] = s]
    /\ file' = [file EXCEPT ![d]["contract"] = e]
    /\ overlapped' = IF \E o \in Executions : Active(o) /\ runDir[o] = d
                     THEN overlapped \cup {d} ELSE overlapped
    /\ UNCHANGED <<suite, executed, outcome, evidence, attested, latest>>

\* eval-run-suite reads the suite file, eval-real-small-model has its own.
StartRun(e, d)     == Contracts(e, d, suite)
StartBuiltin(e, d) == Contracts(e, d, BuiltinSuite)

Runs(e, s) ==
    /\ Advance(e, "contract", "ran")
    /\ executed' = [executed EXCEPT ![e] = s]
    /\ \E o \in OutcomesOf[s] : outcome' = [outcome EXCEPT ![e] = o]
    /\ UNCHANGED <<suite, runDir, agreed, evidence, file, attested,
                   latest, overlapped>>

\* The suite file is read again.
RunSuite(e)   == agreed[e] # BuiltinSuite /\ Runs(e, suite)
RunBuiltin(e) == agreed[e] = BuiltinSuite /\ Runs(e, BuiltinSuite)

\* write_reports: the report, the task specs, the failure artifacts and clusters.
WriteReport(e) ==
    /\ \/ Advance(e, "ran", "report") /\ Writes(e, "report")
       \/ Advance(e, "report", "specs") /\ Writes(e, "specs")
       \/ Advance(e, "specs", "failures") /\ Writes(e, "failures")
    /\ UNCHANGED <<suite, runDir, agreed, executed, outcome, evidence,
                   attested, latest, overlapped>>

\* _pre_run_contract_evidence: whoever wrote it.
ContractIn(d) == file[d]["contract"]

Manifests(e) ==
    /\ Advance(e, "failures", "manifest")
    /\ evidence' = [evidence EXCEPT ![e] = ContractIn(runDir[e])]
    /\ Writes(e, "manifest")
    /\ UNCHANGED <<suite, runDir, agreed, executed, outcome, attested,
                   latest, overlapped>>

WriteManifest(e)        == agreed[e] # BuiltinSuite /\ Manifests(e)
WriteBuiltinManifest(e) == agreed[e] = BuiltinSuite /\ Manifests(e)

\* Every file of the directory, those of earlier executions included.
WriteAttestation(e) ==
    /\ Advance(e, "manifest", "attested")
    /\ attested' = [attested EXCEPT ![runDir[e]] = file[runDir[e]]]
    /\ UNCHANGED <<suite, runDir, agreed, executed, outcome, evidence,
                   file, latest, overlapped>>

\* Both commands share the pointer.
Points(e) ==
    /\ Advance(e, "attested", "published")
    /\ latest' = runDir[e]
    /\ UNCHANGED <<suite, runDir, agreed, executed, outcome, evidence,
                   file, attested, overlapped>>

PointLatest(e)  == agreed[e] # BuiltinSuite /\ Points(e)
PointBuiltin(e) == agreed[e] = BuiltinSuite /\ Points(e)

\* --gate and --compare-...: their reports go into the run directory by default.
Judge(e) ==
    /\ Advance(e, "published", "closed")
    /\ \E V \in SUBSET Verdicts :
        /\ V # {} => Loadable(runDir[e])
        /\ file' = [file EXCEPT ![runDir[e]] = 
               [f \in Files |-> IF f \in V THEN e ELSE file[runDir[e]][f]]]
    /\ UNCHANGED <<suite, runDir, agreed, executed, outcome, evidence, attested,
                   latest, overlapped>>

\* The process is killed, or an error ends it; what it is writing may be half written.
ExecutionDies(e) ==
    /\ Active(e)
    /\ progress' = [progress EXCEPT ![e] = "dead"]
    /\ \/ UNCHANGED <<file, attested>>
       \/ /\ progress[e] \in Artifacts
          /\ file' = [file EXCEPT ![runDir[e]][progress[e]] = Torn]
          /\ UNCHANGED attested
       \/ /\ progress[e] = "attested"
          /\ attested' = [attested EXCEPT ![runDir[e]] = TornAttestation]
          /\ UNCHANGED file
    /\ UNCHANGED <<suite, runDir, agreed, executed, outcome, evidence,
                   latest, overlapped>>

\* Someone edits the suite file.
SuiteEdited ==
    /\ suite < MaxVersion
    /\ suite' = suite + 1
    /\ UNCHANGED <<progress, runDir, agreed, executed, outcome, evidence, file, attested,
                   latest, overlapped>>

EvalNext ==
    \/ \E e \in Executions :
        \/ \E d \in RunDirs : StartRun(e, d) \/ StartBuiltin(e, d)
        \/ RunSuite(e) \/ RunBuiltin(e)
        \/ WriteReport(e)
        \/ WriteManifest(e) \/ WriteBuiltinManifest(e)
        \/ WriteAttestation(e)
        \/ PointLatest(e) \/ PointBuiltin(e)
        \/ Judge(e)
        \/ ExecutionDies(e)
    \/ SuiteEdited

EvalSpec == EvalInit /\ [][EvalNext]_evalVars

-----------------------------------------------------------------------------
\* A directory that passes the gate shows one execution: the contract is that of
\* the execution that wrote the manifest, names what it ran, and the report, the
\* specs and the clusters are what it found; whoever died in the directory before,
\* or began to write there again; unless two executions wrote there at once.
GatedRunIsOne ==
    \A d \in RunDirs :
        GatePasses(d) /\ d \notin overlapped =>
            LET m == file[d]["manifest"] IN
            /\ file[d]["contract"] = m
            /\ agreed[m] = executed[m]
            /\ \A f \in Artifacts : SameText(f, file[d][f], m)

\* The comparison guards what the gate admits: when the strict profile finds no
\* regression from a run that passes the gate, the other run passes it too, under
\* any thresholds.
NoRegressionKeepsGate ==
    \A b, d \in RunDirs :
        {b, d} \cap overlapped = {} /\ GatePasses(b) /\ Unregressed(b, d) => GatePasses(d)

=============================================================================
