------------------------------ MODULE GroupChat ------------------------------
(***************************************************************************)
(* One request to group_chat in metis/swarm/hub.py, in the three modes of  *)
(* a group: the members work in parallel, in a relay, or on the tasks that *)
(* a coordinator lays out with their dependencies                          *)
(* (TaskDecomposition.topological_sort and the layers computed from it).   *)
(* While agents run, other requests may delete an agent for good, so that  *)
(* its manifest is gone when its turn comes.                               *)
(*                                                                         *)
(* A task is its index; in the parallel and serial modes there is one per  *)
(* member.  The order in which tasks that become ready together enter the  *)
(* queue follows the code's lists; here it is any order.                   *)
(***************************************************************************)
EXTENDS Integers, Sequences

CONSTANTS
    Agents,         \* agents of the registry
    Groups,         \* member lists with only active agents, each a sequence of Agents
    Decompositions, \* [needs, agent]: the TaskDecompositions a coordinator may answer
    MaxTasks,       \* bound: the most tasks of a request
    Nobody          \* agent_id None, or one that the registry does not have

Modes == {"parallel", "serial", "coordinator"}
ASSUME TaskAssumption == MaxTasks \in Nat
ASSUME AgentAssumption == Nobody \notin Agents
ASSUME GroupAssumption == \A g \in Groups : \E n \in 1..MaxTasks : g \in [1..n -> Agents]

\* What TaskDecomposition admits: the indices are those of other tasks.
IsDecomposition(d) ==
    \E n \in 0..MaxTasks :
        /\ d.needs \in [1..n -> SUBSET (1..n)]
        /\ d.agent \in [1..n -> Agents \cup {Nobody}]
        /\ \A t \in 1..n : t \notin d.needs[t]

ASSUME DecompositionAssumption == \A d \in Decompositions : IsDecomposition(d)

VARIABLES
    phase,      \* where group_chat stands
    mode,       \* group.mode
    lost,       \* agents whose manifest is gone
    known,      \* parallel: agents whose manifest was there when the request came
    needs,      \* task |-> its prerequisites
    agent,      \* task |-> agent_id
    left,       \* in_degree: the prerequisites not taken from the queue yet
    queue,      \* the order in which tasks become ready
    front,      \* tasks taken from the queue
    layer,      \* task |-> layer
    level,      \* the layer being executed
    state,      \* task |-> how far it is
    shared      \* SharedContext: agent |-> the task whose result it holds, or 0

planVars == <<needs, agent>>
sortVars == <<left, queue, front, layer>>
vars == <<phase, mode, lost, known, needs, agent, left, queue, front, layer, level,
          state, shared>>

Tasks == DOMAIN needs
Ends == {"ok", "error", "skipped"}
Waiting == {t \in Tasks : state[t] = "waiting"}
Over == phase \in {"done", "rejected"}

(* The ways to line up the members of a set of tasks. *)
Orders(S) ==
    {q \in UNION {[1..n -> S] : n \in 0..MaxTasks} :
        /\ \A t \in S : \E i \in DOMAIN q : q[i] = t
        /\ \A i, j \in DOMAIN q : q[i] = q[j] => i = j}

Init ==
    /\ phase = "idle" /\ mode \in Modes /\ lost = {} /\ known = {}
    /\ needs = <<>> /\ agent = <<>>
    /\ left = <<>> /\ queue = <<>> /\ front = 0 /\ layer = <<>>
    /\ level = 0 /\ state = <<>> /\ shared = [a \in Agents |-> 0]

-----------------------------------------------------------------------------
(* The parallel mode reads all manifests at once and starts everyone; the  *)
(* serial mode goes through the members, which are its layers.             *)
AskMembers(g) ==
    /\ phase = "idle" /\ mode # "coordinator"
    /\ agent' = g
    /\ needs' = [t \in DOMAIN g |-> IF mode = "serial" /\ t > 1 THEN {t - 1} ELSE {}]
    /\ layer' = [t \in DOMAIN g |-> IF mode = "serial" THEN t - 1 ELSE 0]
    /\ state' = [t \in DOMAIN g |-> "waiting"]
    /\ known' = Agents \ lost
    /\ phase' = "working"
    /\ UNCHANGED <<mode, lost, left, queue, front, level, shared>>

(* The first member is the coordinator; without its manifest: 500. *)
AskCoordinator(g) ==
    /\ phase = "idle" /\ mode = "coordinator"
    /\ phase' = IF g[1] \in lost THEN "rejected" ELSE "decompose"
    /\ UNCHANGED <<mode, lost, known, planVars, sortVars, level, state, shared>>

CoordinatorFails ==
    /\ phase = "decompose"
    /\ phase' = "rejected"
    /\ UNCHANGED <<mode, lost, known, planVars, sortVars, level, state, shared>>

(* The answer is parsed as JSON with validated indices, or line by line as *)
(* one task per member; topological_sort and the layering start from the   *)
(* tasks without prerequisites.                                            *)
CoordinatorAnswers ==
    /\ phase = "decompose"
    /\ \E d \in Decompositions :
        /\ needs' = d.needs /\ agent' = d.agent
        /\ left' = d.needs
        /\ queue' \in Orders({t \in DOMAIN d.needs : d.needs[t] = {}})
        /\ layer' = [t \in DOMAIN d.needs |-> 0]
        /\ state' = [t \in DOMAIN d.needs |-> "waiting"]
        /\ phase' = IF d.needs = <<>> THEN "synthesis" ELSE "sorting"
    /\ front' = 0
    /\ UNCHANGED <<mode, lost, known, level, shared>>

(* Mutants of the loop over the queue: it takes the task that came last,   *)
(* or it does not advance.                                                 *)
TakeNewest ==
    /\ phase = "sorting" /\ front < Len(queue)
    /\ LET node == queue[Len(queue)]
           ready == {t \in Tasks : left[t] = {node}}
       IN /\ left' = [t \in Tasks |-> left[t] \ {node}]
          /\ layer' = [t \in Tasks |-> IF t \in ready THEN layer[node] + 1 ELSE layer[t]]
          /\ \E order \in Orders(ready) :
               queue' = SubSeq(queue, 1, front) \o <<node>>
                        \o SubSeq(queue, front + 1, Len(queue) - 1) \o order
    /\ front' = front + 1
    /\ UNCHANGED <<phase, mode, lost, known, planVars, level, state, shared>>
TakeNextAgain ==
    /\ phase = "sorting" /\ front < Len(queue)
    /\ UNCHANGED vars

(* The next task is taken from the queue; the tasks that needed only it    *)
(* any more become ready, one layer further.                               *)
TakeNext ==
    /\ phase = "sorting" /\ front < Len(queue)
    /\ LET node == queue[front + 1]
           ready == {t \in Tasks : left[t] = {node}}
       IN /\ left' = [t \in Tasks |-> left[t] \ {node}]
          /\ layer' = [t \in Tasks |-> IF t \in ready THEN layer[node] + 1 ELSE layer[t]]
          /\ \E order \in Orders(ready) : queue' = queue \o order
    /\ front' = front + 1
    /\ UNCHANGED <<phase, mode, lost, known, planVars, level, state, shared>>

(* Every task has come through the queue, or there is a cycle: 400. *)
Sorted ==
    /\ phase = "sorting" /\ front = Len(queue)
    /\ phase' = IF \A t \in Tasks : left[t] = {} THEN "working" ELSE "rejected"
    /\ UNCHANGED <<mode, lost, known, planVars, sortVars, level, state, shared>>

-----------------------------------------------------------------------------
HasManifest(t) ==
    IF mode = "parallel" THEN agent[t] \in known ELSE agent[t] \in Agents \ lost

StartTask(t) ==
    /\ phase = "working"
    /\ state[t] = "waiting" /\ layer[t] = level
    /\ state' = [state EXCEPT ![t] =
          IF HasManifest(t) THEN "running" ELSE IF mode = "serial" THEN "skipped" ELSE "error"]
    /\ UNCHANGED <<phase, mode, lost, known, planVars, sortVars, level, shared>>

(* Mutant: the shared context is written whatever came of the run. *)
EndTaskShared(t) ==
    /\ state[t] = "running"
    /\ \E s \in {"ok", "error"} : state' = [state EXCEPT ![t] = s]
    /\ shared' = IF mode = "coordinator" THEN [shared EXCEPT ![agent[t]] = t] ELSE shared
    /\ UNCHANGED <<phase, mode, lost, known, planVars, sortVars, level>>

(* run_agent_turn returns or raises; only a result goes into the context. *)
EndTask(t) ==
    /\ state[t] = "running"
    /\ \E s \in {"ok", "error"} :
        /\ state' = [state EXCEPT ![t] = s]
        /\ shared' = IF mode = "coordinator" /\ s = "ok"
                     THEN [shared EXCEPT ![agent[t]] = t] ELSE shared
    /\ UNCHANGED <<phase, mode, lost, known, planVars, sortVars, level>>

LayerEnded == \A t \in Tasks : layer[t] = level => state[t] \in Ends
RelayBroken == mode = "serial" /\ \E t \in Tasks : state[t] = "error"

(* Mutants: the layers end one too early, and a layer is not awaited. *)
NextLayerShort ==
    /\ phase = "working" /\ LayerEnded
    /\ IF Waiting = {} \/ RelayBroken \/ level > 0
       THEN /\ phase' = IF mode = "coordinator" THEN "synthesis" ELSE "done"
            /\ UNCHANGED level
       ELSE /\ level' \in {layer[t] : t \in Waiting}
            /\ \A t \in Waiting : level' <= layer[t]
            /\ UNCHANGED phase
    /\ UNCHANGED <<mode, lost, known, planVars, sortVars, state, shared>>

NextLayerEager ==
    /\ phase = "working"
    /\ IF Waiting = {} \/ RelayBroken
       THEN /\ phase' = IF mode = "coordinator" THEN "synthesis" ELSE "done"
            /\ UNCHANGED level
       ELSE /\ level' \in {layer[t] : t \in Waiting}
            /\ \A t \in Waiting : level' <= layer[t]
            /\ UNCHANGED phase
    /\ UNCHANGED <<mode, lost, known, planVars, sortVars, state, shared>>

(* gather has every result of the layer: on to the lowest layer left.      *)
(* An agent that raises ends a relay.                                      *)
NextLayer ==
    /\ phase = "working" /\ LayerEnded
    /\ IF Waiting = {} \/ RelayBroken
       THEN /\ phase' = IF mode = "coordinator" THEN "synthesis" ELSE "done"
            /\ UNCHANGED level
       ELSE /\ level' \in {layer[t] : t \in Waiting}
            /\ \A t \in Waiting : level' <= layer[t]
            /\ UNCHANGED phase
    /\ UNCHANGED <<mode, lost, known, planVars, sortVars, state, shared>>

(* The coordinator's second run; when it raises, final_response is None. *)
Synthesize ==
    /\ phase = "synthesis"
    /\ phase' = "done"
    /\ UNCHANGED <<mode, lost, known, planVars, sortVars, level, state, shared>>

(* permanently_delete by another request. *)
LoseManifest(a) ==
    /\ a \notin lost /\ ~Over
    /\ lost' = lost \cup {a}
    /\ UNCHANGED <<phase, mode, known, planVars, sortVars, level, state, shared>>

Terminated == Over /\ UNCHANGED vars

ChatStep ==
    \/ \E g \in Groups : AskMembers(g) \/ AskCoordinator(g)
    \/ CoordinatorFails \/ CoordinatorAnswers
    \/ TakeNext \/ Sorted
    \/ \E t \in Tasks : StartTask(t) \/ EndTask(t)
    \/ NextLayer \/ Synthesize

Next == ChatStep \/ (\E a \in Agents : LoseManifest(a)) \/ Terminated

Spec == Init /\ [][Next]_vars

(* The handler is driven by the event loop, and runs of agents end         *)
(* (AgentLoop!RunEnds).                                                    *)
FairSpec == Spec /\ WF_vars(ChatStep)

-----------------------------------------------------------------------------
(* Type invariant. *)
TypeOK ==
    /\ phase \in {"idle", "decompose", "sorting", "working", "synthesis", "done", "rejected"}
    /\ mode \in Modes /\ lost \subseteq Agents /\ known \subseteq Agents
    /\ \E n \in 0..MaxTasks :
        /\ needs \in [1..n -> SUBSET (1..n)]
        /\ agent \in [1..n -> Agents \cup {Nobody}]
        /\ state \in [1..n -> Ends \cup {"waiting", "running"}]
        /\ layer \in [1..n -> Nat]
        /\ shared \in [Agents -> 0..n]
        /\ queue \in Seq(1..n)
        /\ phase = "sorting" => left \in [1..n -> SUBSET (1..n)]
    /\ front \in 0..Len(queue)
    /\ level \in Nat

(* However a coordinator's dependencies are entangled, no task is begun    *)
(* before every prerequisite has come to its end: the layers computed with *)
(* the queue respect all of them, not just the last one decremented.       *)
PrerequisitesFirst ==
    \A t \in Tasks : state[t] # "waiting" => \A d \in needs[t] : state[d] \in Ends

(* Tasks that can run in parallel do: a task is in layer 0 or right after  *)
(* the layer of one of its prerequisites.                                  *)
NoNeedlessWait ==
    phase = "working" =>
        \A t \in Tasks : layer[t] # 0 => \E d \in needs[t] : layer[t] = layer[d] + 1

(* The synthesis sees the outcome of every task.                           *)
SynthesisIsComplete ==
    mode = "coordinator" /\ phase \in {"synthesis", "done"} =>
        \A t \in Tasks : state[t] \in Ends

(* The shared context has something for exactly the agents that delivered, *)
(* and it is the result of a task of theirs.                               *)
SharedHoldsResults ==
    mode = "coordinator" =>
        \A a \in Agents :
            /\ shared[a] # 0 => state[shared[a]] = "ok" /\ agent[shared[a]] = a
            /\ shared[a] = 0 => \A t \in Tasks : agent[t] = a => state[t] # "ok"

(* A request is always answered, by a result or by an HTTP error.          *)
ChatEnds == phase # "idle" ~> Over

(* The orchestration keeps what TaskSchedule promises.                     *)
ChatPlans ==
    {d.needs : d \in Decompositions}
    \cup {[t \in DOMAIN g |-> IF t > 1 THEN {t - 1} ELSE {}] : g \in Groups}
    \cup {[t \in DOMAIN g |-> {}] : g \in Groups}
Schedule == INSTANCE TaskSchedule WITH Plans <- ChatPlans
KeepsSchedule == Schedule!Spec
=============================================================================
