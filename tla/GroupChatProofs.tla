--------------------------- MODULE GroupChatProofs ---------------------------
(***************************************************************************)
(* TLAPS proofs about GroupChat, for every group, every decomposition and  *)
(* every number of tasks: the layers that the loop over the queue computes *)
(* respect all dependencies, execution by layers respects them too, and    *)
(* the orchestration implements TaskSchedule.                              *)
(***************************************************************************)
EXTENDS GroupChat, TLAPS

States == Ends \cup {"waiting", "running"}
Before == {"idle", "decompose"}
After == {"working", "synthesis", "done"}

(* The shape of the plan and of what is kept per task. *)
Shape ==
    /\ \E n \in 0..MaxTasks : Tasks = 1..n
    /\ needs \in [Tasks -> SUBSET Tasks]
    /\ agent \in [Tasks -> Agents \cup {Nobody}]
    /\ state \in [Tasks -> States]
    /\ layer \in [Tasks -> Nat]
    /\ shared \in [Agents -> Tasks \cup {0}]

Control ==
    /\ phase \in Before \cup After \cup {"sorting", "rejected"}
    /\ mode \in Modes /\ lost \subseteq Agents /\ known \subseteq Agents
    /\ level \in Nat

QueueShape ==
    /\ queue \in Seq(Tasks)
    /\ front \in 0..Len(queue)
    /\ phase = "sorting" => left \in [Tasks -> SUBSET Tasks]

(* Before a plan is there, nothing is. *)
FreshInv ==
    phase \in Before =>
        /\ needs = <<>> /\ state = <<>> /\ queue = <<>> /\ front = 0 /\ level = 0
        /\ shared = [a \in Agents |-> 0]

Place(q, t) == \E i \in 1..Len(q) : q[i] = t
Taken(q, k, t) == \E i \in 1..k : q[i] = t

(* The loop over the queue.  left is what the taken tasks leave of the     *)
(* prerequisites; a task is in the queue as soon as nothing is left; along *)
(* the queue layers grow, and by at most one beyond the task taken next.   *)
QueueInv ==
    /\ \A i, j \in 1..Len(queue) : queue[i] = queue[j] => i = j
    /\ \A t \in Tasks : left[t] = {d \in needs[t] : ~Taken(queue, front, d)}
    /\ \A t \in Tasks : left[t] = {} <=> Place(queue, t)
LayerInv ==
    /\ \A i, j \in 1..Len(queue) : i < j => layer[queue[i]] <= layer[queue[j]]
    /\ front < Len(queue) =>
           \A j \in 1..Len(queue) : layer[queue[j]] <= layer[queue[front + 1]] + 1
    /\ \A t \in Tasks : left[t] = {} => \A d \in needs[t] : layer[d] < layer[t]
    /\ \A t \in Tasks : layer[t] # 0 =>
           left[t] = {} /\ \E d \in needs[t] : layer[t] = layer[d] + 1
SortInv == phase = "sorting" => level = 0 /\ QueueInv /\ LayerInv

(* Once layers are executed: they respect the dependencies, what is below  *)
(* the level has ended and what is above has not begun.                    *)
Layered ==
    \A t \in Tasks :
        /\ \A d \in needs[t] : layer[d] < layer[t]
        /\ layer[t] # 0 => \E d \in needs[t] : layer[t] = layer[d] + 1
WorkInv ==
    phase \in After =>
        /\ Layered
        /\ \A t \in Tasks : /\ layer[t] < level => state[t] \in Ends
                            /\ layer[t] > level => state[t] = "waiting"
RunInv ==
    /\ phase \notin After => \A t \in Tasks : state[t] = "waiting"
    /\ \A t \in Tasks : state[t] = "running" => phase = "working"
    /\ \A t \in Tasks : state[t] \in {"running", "ok"} => agent[t] \in Agents

ChatInv ==
    /\ Shape /\ Control /\ QueueShape /\ FreshInv /\ SortInv /\ WorkInv /\ RunInv
    /\ SynthesisIsComplete /\ SharedHoldsResults

-----------------------------------------------------------------------------
LEMMA ChatInit == Init => ChatInv
<1> SUFFICES ASSUME Init PROVE ChatInv
  OBVIOUS
<1>1. Tasks = 1..0 /\ Tasks = {} /\ 0 \in 0..MaxTasks
  BY TaskAssumption DEF Init, Tasks
<1>2. /\ phase = "idle" /\ mode \in Modes /\ lost = {} /\ known = {} /\ needs = <<>>
      /\ agent = <<>> /\ queue = <<>> /\ front = 0 /\ layer = <<>> /\ level = 0
      /\ state = <<>> /\ shared = [a \in Agents |-> 0]
  BY Zenon DEF Init
<1>3. Shape
  BY <1>1, <1>2 DEF Shape
<1>4. Control /\ QueueShape /\ FreshInv
  BY <1>1, <1>2 DEF Control, QueueShape, FreshInv, Before, After
<1>5. SortInv /\ WorkInv /\ RunInv
  BY <1>1, <1>2 DEF SortInv, WorkInv, RunInv, After
<1>6. SynthesisIsComplete /\ SharedHoldsResults
  BY <1>1, <1>2 DEF SynthesisIsComplete, SharedHoldsResults
<1> QED BY <1>3, <1>4, <1>5, <1>6 DEF ChatInv

(* A plan is fixed: by the members, or by the coordinator's answer. *)
LEMMA MembersStep ==
    ASSUME ChatInv, NEW g \in Groups, AskMembers(g)
    PROVE  ChatInv'
<1>1. PICK n \in 1..MaxTasks : g \in [1..n -> Agents]
  BY GroupAssumption
<1>2. /\ DOMAIN g = 1..n /\ n \in 0..MaxTasks /\ n \in Nat
  BY <1>1, TaskAssumption
<1>3. /\ phase = "idle" /\ phase' = "working" /\ mode # "coordinator" /\ agent' = g
      /\ needs' = [t \in 1..n |-> IF mode = "serial" /\ t > 1 THEN {t - 1} ELSE {}]
      /\ layer' = [t \in 1..n |-> IF mode = "serial" THEN t - 1 ELSE 0]
      /\ state' = [t \in 1..n |-> "waiting"]
      /\ known' = Agents \ lost
      /\ UNCHANGED <<mode, lost, left, queue, front, level, shared>>
  BY <1>2 DEF AskMembers
<1>4. /\ queue = <<>> /\ front = 0 /\ level = 0 /\ shared = [a \in Agents |-> 0]
  BY <1>3 DEF ChatInv, FreshInv, Before
<1>5. Tasks' = 1..n
  BY <1>3 DEF Tasks
<1>6. Shape'
  <2>1. needs' \in [1..n -> SUBSET (1..n)]
    BY <1>2, <1>3
  <2>2. layer' \in [1..n -> Nat]
    BY <1>2, <1>3
  <2>3. agent' \in [1..n -> Agents \cup {Nobody}]
    BY <1>1, <1>3
  <2>4. state' \in [1..n -> States] /\ shared' \in [Agents -> (1..n) \cup {0}]
    BY <1>3, <1>4 DEF States
  <2> QED BY <1>2, <1>5, <2>1, <2>2, <2>3, <2>4 DEF Shape
<1>7. Control' /\ QueueShape' /\ FreshInv' /\ SortInv'
  BY <1>3, <1>4 DEF ChatInv, Control, QueueShape, FreshInv, SortInv, Before, After
<1>8. Layered'
  BY <1>2, <1>3, <1>5 DEF Layered
<1>9. WorkInv' /\ RunInv'
  BY <1>2, <1>3, <1>4, <1>5, <1>8 DEF WorkInv, RunInv, After
<1>10. SynthesisIsComplete' /\ SharedHoldsResults'
  BY <1>3 DEF SynthesisIsComplete, SharedHoldsResults
<1> QED BY <1>6, <1>7, <1>9, <1>10 DEF ChatInv

LEMMA AnswerStep ==
    ASSUME ChatInv, CoordinatorAnswers
    PROVE  ChatInv'
<1>1. PICK d \in Decompositions :
        /\ needs' = d.needs /\ agent' = d.agent /\ left' = d.needs
        /\ queue' \in Orders({t \in DOMAIN d.needs : d.needs[t] = {}})
        /\ layer' = [t \in DOMAIN d.needs |-> 0]
        /\ state' = [t \in DOMAIN d.needs |-> "waiting"]
        /\ phase' = IF d.needs = <<>> THEN "synthesis" ELSE "sorting"
  BY DEF CoordinatorAnswers
<1>2. PICK n \in 0..MaxTasks :
        /\ d.needs \in [1..n -> SUBSET (1..n)]
        /\ d.agent \in [1..n -> Agents \cup {Nobody}]
  BY DecompositionAssumption DEF IsDecomposition
<1>3. /\ phase = "decompose" /\ front' = 0 /\ UNCHANGED <<mode, lost, known, level, shared>>
  BY DEF CoordinatorAnswers
<1>4. level = 0 /\ shared = [a \in Agents |-> 0]
  BY <1>3 DEF ChatInv, FreshInv, Before
<1>5. Tasks' = 1..n /\ DOMAIN d.needs = 1..n /\ n \in Nat
  BY <1>1, <1>2, TaskAssumption DEF Tasks
<1> DEFINE S == {t \in 1..n : d.needs[t] = {}}
<1>6. /\ queue' \in Seq(1..n)
      /\ \A i \in 1..Len(queue') : queue'[i] \in S
      /\ \A t \in S : \E i \in 1..Len(queue') : queue'[i] = t
      /\ \A i, j \in 1..Len(queue') : queue'[i] = queue'[j] => i = j
  <2>1. queue' \in Orders(S)
    BY <1>1, <1>5
  <2>2. PICK m \in 0..MaxTasks : queue' \in [1..m -> S]
    BY <2>1 DEF Orders
  <2>3. DOMAIN queue' = 1..m /\ m \in Nat
    BY <2>2, TaskAssumption
  <2>4. queue' \in Seq(S) /\ Len(queue') = m
    BY <2>2, <2>3
  <2>5. S \subseteq 1..n
    OBVIOUS
  <2>6. queue' \in Seq(1..n)
    BY <2>4, <2>5
  <2>7. /\ \A t \in S : \E i \in DOMAIN queue' : queue'[i] = t
        /\ \A i, j \in DOMAIN queue' : queue'[i] = queue'[j] => i = j
    BY <2>1 DEF Orders
  <2> HIDE DEF S
  <2> QED BY <2>2, <2>3, <2>4, <2>6, <2>7
<1>7. Shape'
  <2>1. /\ layer' \in [1..n -> Nat] /\ state' \in [1..n -> States]
        /\ shared' \in [Agents -> (1..n) \cup {0}]
    BY <1>1, <1>3, <1>4, <1>5 DEF States
  <2> QED BY <1>1, <1>2, <1>5, <2>1 DEF Shape
<1>8. Control'
  BY <1>1, <1>3 DEF ChatInv, Control, After
<1>9. QueueShape' /\ FreshInv'
  BY <1>1, <1>2, <1>3, <1>5, <1>6 DEF QueueShape, FreshInv, Before
<1>10. QueueInv'
  <2>1. \A t \in 1..n : needs'[t] = {e \in needs'[t] : ~Taken(queue', front', e)}
    BY <1>1, <1>2, <1>3 DEF Taken
  <2>2. \A t \in 1..n : d.needs[t] = {} <=> Place(queue', t)
    BY <1>6 DEF Place
  <2> QED BY <1>1, <1>5, <1>6, <2>1, <2>2 DEF QueueInv
<1>11. LayerInv'
  <2>1. \A t \in 1..n : layer'[t] = 0
    BY <1>1, <1>5
  <2>2. \A i \in 1..Len(queue') : layer'[queue'[i]] = 0
    BY <1>6, <2>1
  <2>3. \A t \in 1..n : left'[t] = {} => needs'[t] = {}
    BY <1>1
  <2>4. front' < Len(queue') => layer'[queue'[front' + 1]] = 0
    BY <1>3, <1>6, <2>2
  <2> QED BY <1>5, <2>1, <2>2, <2>3, <2>4 DEF LayerInv
<1>12. SortInv'
  BY <1>3, <1>4, <1>10, <1>11 DEF SortInv
<1>13. WorkInv' /\ RunInv' /\ SynthesisIsComplete'
  <2>1. phase' \in After => 1..n = {}
    BY <1>1, <1>5 DEF After
  <2>2. \A t \in 1..n : state'[t] = "waiting"
    BY <1>1, <1>5
  <2> QED BY <1>1, <1>5, <2>1, <2>2
          DEF WorkInv, Layered, RunInv, SynthesisIsComplete, After, Ends
<1>14. SharedHoldsResults'
  BY <1>1, <1>3, <1>4, <1>5 DEF SharedHoldsResults
<1> QED BY <1>7, <1>8, <1>9, <1>12, <1>13, <1>14 DEF ChatInv

ReadyBy(node) == {t \in Tasks : left[t] = {node}}

(* One turn of the loop over the queue.  node is the task taken, the new   *)
(* part of the queue lines up the tasks that needed only it any more.      *)
LEMMA TakeFacts ==
    ASSUME ChatInv, TakeNext
    PROVE  \E node \in Tasks, order \in Seq(Tasks) :
             /\ phase = "sorting" /\ front < Len(queue) /\ front' = front + 1
             /\ node = queue[front + 1] /\ queue' = queue \o order
             /\ left' = [t \in Tasks |-> left[t] \ {node}]
             /\ layer' = [t \in Tasks |->
                            IF t \in ReadyBy(node) THEN layer[node] + 1 ELSE layer[t]]
             /\ \A i \in 1..Len(order) : order[i] \in ReadyBy(node)
             /\ \A t \in ReadyBy(node) : \E i \in 1..Len(order) : order[i] = t
             /\ \A i, j \in 1..Len(order) : order[i] = order[j] => i = j
<1> DEFINE node == queue[front + 1]
           ready == ReadyBy(node)
<1>1. /\ phase = "sorting" /\ front < Len(queue) /\ front' = front + 1
      /\ left' = [t \in Tasks |-> left[t] \ {node}]
      /\ layer' = [t \in Tasks |-> IF t \in ready THEN layer[node] + 1 ELSE layer[t]]
      /\ \E order \in Orders(ready) : queue' = queue \o order
  BY DEF TakeNext, ReadyBy
<1>2. PICK order \in Orders(ready) : queue' = queue \o order
  BY <1>1
<1>3. queue \in Seq(Tasks) /\ front \in 0..Len(queue)
  BY DEF ChatInv, QueueShape
<1>4. node \in Tasks
  BY <1>1, <1>3
<1>5. ready \subseteq Tasks
  BY DEF ReadyBy
<1> HIDE DEF ready
<1>6. PICK m \in 0..MaxTasks : order \in [1..m -> ready]
  BY <1>2 DEF Orders
<1>7. /\ \A t \in ready : \E i \in DOMAIN order : order[i] = t
      /\ \A i, j \in DOMAIN order : order[i] = order[j] => i = j
  BY <1>2 DEF Orders
<1>8. DOMAIN order = 1..m /\ m \in Nat
  BY <1>6, TaskAssumption
<1>9. order \in Seq(ready) /\ Len(order) = m
  BY <1>6, <1>8
<1>10. order \in Seq(Tasks)
  BY <1>5, <1>9
<1>11. /\ \A i \in 1..Len(order) : order[i] \in ready
       /\ \A t \in ready : \E i \in 1..Len(order) : order[i] = t
       /\ \A i, j \in 1..Len(order) : order[i] = order[j] => i = j
  BY <1>6, <1>7, <1>8, <1>9
<1> QED BY <1>1, <1>2, <1>4, <1>10, <1>11 DEF ready

(* The loop over the queue keeps its invariant. *)
LEMMA TakeStep ==
    ASSUME ChatInv, TakeNext
    PROVE  ChatInv'
<1>1. PICK node \in Tasks, order \in Seq(Tasks) :
             /\ phase = "sorting" /\ front < Len(queue) /\ front' = front + 1
             /\ node = queue[front + 1] /\ queue' = queue \o order
             /\ left' = [t \in Tasks |-> left[t] \ {node}]
             /\ layer' = [t \in Tasks |->
                            IF t \in ReadyBy(node) THEN layer[node] + 1 ELSE layer[t]]
             /\ \A i \in 1..Len(order) : order[i] \in ReadyBy(node)
             /\ \A t \in ReadyBy(node) : \E i \in 1..Len(order) : order[i] = t
             /\ \A i, j \in 1..Len(order) : order[i] = order[j] => i = j
  BY TakeFacts
<1> DEFINE ready == ReadyBy(node)
           L == Len(queue)
           M == Len(order)
<1>2. /\ phase = "sorting" /\ front < L /\ front' = front + 1
      /\ node = queue[front + 1] /\ queue' = queue \o order
      /\ left' = [t \in Tasks |-> left[t] \ {node}]
      /\ layer' = [t \in Tasks |-> IF t \in ready THEN layer[node] + 1 ELSE layer[t]]
      /\ \A i \in 1..M : order[i] \in ready
      /\ \A t \in ready : \E i \in 1..M : order[i] = t
      /\ \A i, j \in 1..M : order[i] = order[j] => i = j
  BY <1>1
<1>3. /\ UNCHANGED <<phase, mode, lost, known, needs, agent, level, state, shared>>
      /\ Tasks' = Tasks
  BY DEF TakeNext, planVars, Tasks
<1>4. /\ needs \in [Tasks -> SUBSET Tasks] /\ layer \in [Tasks -> Nat]
      /\ left \in [Tasks -> SUBSET Tasks]
      /\ queue \in Seq(Tasks) /\ front \in 0..L /\ L \in Nat /\ M \in Nat
  <2>1. Shape /\ QueueShape /\ phase = "sorting"
    BY <1>2 DEF ChatInv
  <2>2. L \in Nat /\ M \in Nat
    BY <2>1 DEF QueueShape
  <2>3. needs \in [Tasks -> SUBSET Tasks] /\ layer \in [Tasks -> Nat]
    BY <2>1 DEF Shape
  <2> QED BY <2>1, <2>2, <2>3 DEF QueueShape
<1>5. level = 0 /\ QueueInv /\ LayerInv
  BY <1>2 DEF ChatInv, SortInv
<1>6. /\ queue' \in Seq(Tasks) /\ Len(queue') = L + M
      /\ \A i \in 1..L : queue'[i] = queue[i]
      /\ \A i \in 1..(L + M) : i > L => i - L \in 1..M /\ queue'[i] = order[i - L]
      /\ \A i \in 1..M : L + i \in 1..(L + M) /\ queue'[L + i] = order[i]
  <2>1. queue' = queue \o order /\ queue \in Seq(Tasks)
    BY <1>2, <1>4
  <2>2. queue' \in Seq(Tasks) /\ Len(queue') = Len(queue) + Len(order)
    BY <2>1
  <2>3. \A i \in 1..Len(queue) : queue'[i] = queue[i]
    BY <2>1
  <2>4. ASSUME NEW i \in 1..(L + M), i > L
        PROVE  i - L \in 1..M /\ queue'[i] = order[i - L]
    BY <2>1, <2>4
  <2>5. ASSUME NEW i \in 1..M
        PROVE  L + i \in 1..(L + M) /\ queue'[L + i] = order[i]
    BY <2>1
  <2> HIDE DEF L, M
  <2> QED BY <2>2, <2>3, <2>4, <2>5 DEF L, M
<1>7. ready \subseteq Tasks /\ \A t \in Tasks : t \in ready <=> left[t] = {node}
  BY DEF ReadyBy
<1>8. \A i \in 1..L : queue[i] \in Tasks /\ left[queue[i]] = {} /\ queue[i] \notin ready
  <2> SUFFICES ASSUME NEW i \in 1..L
               PROVE  queue[i] \in Tasks /\ left[queue[i]] = {} /\ queue[i] \notin ready
    OBVIOUS
  <2>1. queue[i] \in Tasks
    BY <1>4
  <2>2. Place(queue, queue[i])
    BY DEF Place
  <2>3. left[queue[i]] = {}
    BY <1>5, <2>1, <2>2 DEF QueueInv
  <2> HIDE DEF ready
  <2> QED BY <1>7, <2>1, <2>3
<1>9. /\ \A t \in Tasks : left'[t] = left[t] \ {node}
      /\ \A t \in Tasks : layer'[t] = IF t \in ready THEN layer[node] + 1 ELSE layer[t]
      /\ left' \in [Tasks -> SUBSET Tasks] /\ layer' \in [Tasks -> Nat]
  <2>1. layer[node] + 1 \in Nat
    BY <1>4
  <2> HIDE DEF ready
  <2>2. /\ \A t \in Tasks : left'[t] = left[t] \ {node}
        /\ \A t \in Tasks : layer'[t] = IF t \in ready THEN layer[node] + 1 ELSE layer[t]
    BY <1>2
  <2>3. left' \in [Tasks -> SUBSET Tasks]
    BY <1>2, <1>4
  <2>4. layer' \in [Tasks -> Nat]
    BY <1>2, <1>4, <2>1
  <2> QED BY <2>2, <2>3, <2>4
<1>10. Shape' /\ Control' /\ FreshInv' /\ WorkInv' /\ RunInv'
  <2>1. Shape'
    BY <1>3, <1>9 DEF ChatInv, Shape
  <2>2. Control' /\ FreshInv' /\ WorkInv' /\ RunInv'
    BY <1>2, <1>3 DEF ChatInv, Control, FreshInv, WorkInv, RunInv, Before, After
  <2> QED BY <2>1, <2>2
<1>11. SynthesisIsComplete' /\ SharedHoldsResults'
  BY <1>2, <1>3 DEF ChatInv, SynthesisIsComplete, SharedHoldsResults
<1> HIDE DEF ready, L, M
<1>12. QueueShape'
  BY <1>2, <1>3, <1>4, <1>6, <1>9 DEF QueueShape
<1>13. \A d \in Tasks : Taken(queue', front', d) <=> Taken(queue, front, d) \/ d = node
  <2>1. \A i \in 1..front' : queue'[i] = queue[i]
    BY <1>2, <1>4, <1>6
  <2>2. \A d : Taken(queue', front', d) <=> Taken(queue, front + 1, d)
    BY <1>2, <2>1 DEF Taken
  <2>3. \A d : Taken(queue, front + 1, d) <=> Taken(queue, front, d) \/ d = queue[front + 1]
    BY <1>4 DEF Taken
  <2> QED BY <1>2, <2>2, <2>3
<1>14. \A t \in Tasks : Place(queue', t) <=> Place(queue, t) \/ t \in ready
  <2> SUFFICES ASSUME NEW t \in Tasks
               PROVE  Place(queue', t) <=> Place(queue, t) \/ t \in ready
    OBVIOUS
  <2>1. Place(queue', t) => Place(queue, t) \/ t \in ready
    <3> SUFFICES ASSUME NEW i \in 1..(L + M), queue'[i] = t PROVE Place(queue, t) \/ t \in ready
      BY <1>6 DEF Place
    <3>1. CASE i <= L
      <4>1. i \in 1..L
        BY <1>4, <3>1
      <4>2. queue[i] = t
        BY <1>6, <4>1
      <4> QED BY <4>1, <4>2 DEF Place, L
    <3>2. CASE i > L
      BY <1>2, <1>6, <3>2
    <3> QED BY <1>4, <3>1, <3>2
  <2>2. Place(queue, t) => Place(queue', t)
    BY <1>4, <1>6 DEF Place, L
  <2>3. t \in ready => Place(queue', t)
    <3> SUFFICES ASSUME t \in ready PROVE Place(queue', t)
      OBVIOUS
    <3>1. PICK i \in 1..M : order[i] = t
      BY <1>2
    <3> QED BY <1>6, <3>1 DEF Place
  <2> QED BY <2>1, <2>2, <2>3
<1>15. QueueInv'
  <2>1. ASSUME NEW i \in 1..(L + M), NEW j \in 1..(L + M), queue'[i] = queue'[j]
        PROVE  i = j
    <3>1. CASE i <= L /\ j <= L
      BY <1>4, <1>5, <1>6, <2>1, <3>1 DEF QueueInv, L
    <3>2. CASE i > L /\ j > L
      <4>1. /\ i - L \in 1..M /\ queue'[i] = order[i - L]
            /\ j - L \in 1..M /\ queue'[j] = order[j - L]
        BY <1>6, <3>2
      <4>2. i - L = j - L
        BY <1>2, <2>1, <4>1
      <4> QED BY <1>4, <4>2
    <3>3. \A k \in 1..(L + M) : k <= L => queue'[k] \notin ready
      <4> SUFFICES ASSUME NEW k \in 1..(L + M), k <= L PROVE queue'[k] \notin ready
        OBVIOUS
      <4>1. k \in 1..L
        BY <1>4
      <4> QED BY <1>6, <1>8, <4>1
    <3>4. \A k \in 1..(L + M) : k > L => queue'[k] \in ready
      BY <1>2, <1>6
    <3>5. (i <= L /\ j > L) \/ (i > L /\ j <= L) => FALSE
      BY <2>1, <3>3, <3>4
    <3> QED BY <1>4, <3>1, <3>2, <3>5
  <2>2. \A t \in Tasks : left'[t] = {d \in needs[t] : ~Taken(queue', front', d)}
    <3> SUFFICES ASSUME NEW t \in Tasks
                 PROVE  left'[t] = {d \in needs[t] : ~Taken(queue', front', d)}
      OBVIOUS
    <3>1. left[t] = {d \in needs[t] : ~Taken(queue, front, d)} /\ needs[t] \subseteq Tasks
      BY <1>4, <1>5 DEF QueueInv
    <3>2. left'[t] = left[t] \ {node}
      BY <1>9
    <3> QED BY <1>13, <3>1, <3>2
  <2>3. \A t \in Tasks : left'[t] = {} <=> Place(queue', t)
    <3>1. \A t \in Tasks : left[t] = {} <=> Place(queue, t)
      BY <1>5 DEF QueueInv
    <3>2. \A t \in Tasks : left'[t] = {} <=> left[t] = {} \/ left[t] = {node}
      BY <1>9
    <3> QED BY <1>7, <1>14, <3>1, <3>2
  <2> QED BY <1>3, <1>6, <2>1, <2>2, <2>3 DEF QueueInv
<1>16. /\ \A i \in 1..L : layer'[queue'[i]] = layer[queue[i]] /\ layer[queue[i]] \in Nat
       /\ \A i \in 1..(L + M) : i > L => layer'[queue'[i]] = layer[node] + 1
       /\ layer[node] \in Nat
  <2>1. \A i \in 1..L : layer'[queue'[i]] = layer[queue[i]] /\ layer[queue[i]] \in Nat
    BY <1>4, <1>6, <1>8, <1>9
  <2>2. \A t \in ready : t \in Tasks
    BY <1>7
  <2>3. \A i \in 1..(L + M) : i > L => queue'[i] \in ready
    BY <1>2, <1>6
  <2> QED BY <1>4, <1>9, <2>1, <2>2, <2>3
<1>17. /\ \A i, j \in 1..L : i < j => layer[queue[i]] <= layer[queue[j]]
       /\ \A j \in 1..L : layer[queue[j]] <= layer[node] + 1
       /\ front + 1 \in 1..L
  BY <1>2, <1>4, <1>5 DEF LayerInv, L
<1>18. ASSUME NEW t \in Tasks, left'[t] = {}, NEW d \in needs[t]
       PROVE  layer'[d] = layer[d] /\ layer'[d] < layer'[t]
  <2>1. d \in Tasks
    BY <1>4
  <2>2. Taken(queue, front, d) \/ d = node
    <3>1. d \notin {e \in needs[t] : ~Taken(queue', front', e)}
      BY <1>3, <1>15, <1>18 DEF QueueInv
    <3> QED BY <1>13, <1>18, <2>1, <3>1
  <2>3. PICK i \in 1..(front + 1) : d = queue[i]
    BY <1>2, <1>4, <2>2 DEF Taken
  <2>4. i \in 1..L /\ d \notin ready /\ layer'[d] = layer[d] /\ layer[d] \in Nat
    BY <1>4, <1>8, <1>9, <1>17, <2>1, <2>3
  <2>5. layer[d] <= layer[node]
    BY <1>2, <1>4, <1>16, <1>17, <2>3, <2>4
  <2>6. CASE t \in ready
    BY <1>9, <1>16, <2>4, <2>5, <2>6
  <2>7. CASE t \notin ready
    <3>1. left[t] = {}
      BY <1>7, <1>9, <1>18, <2>7
    <3>2. layer[d] < layer[t] /\ layer'[t] = layer[t]
      BY <1>5, <1>9, <2>7, <3>1 DEF LayerInv
    <3> QED BY <2>4, <3>2
  <2> QED BY <2>6, <2>7
<1>19. ASSUME NEW t \in Tasks, layer'[t] # 0
       PROVE  left'[t] = {} /\ \E d \in needs[t] : layer'[t] = layer'[d] + 1
  <2>1. CASE t \in ready
    <3>1. left[t] = {node} /\ left'[t] = {}
      BY <1>7, <1>9, <2>1
    <3>2. node \in needs[t]
      BY <1>5, <3>1 DEF QueueInv
    <3>3. layer'[node] = layer[node]
      BY <1>18, <3>1, <3>2
    <3> QED BY <1>9, <2>1, <3>1, <3>2, <3>3
  <2>2. CASE t \notin ready
    <3>1. layer'[t] = layer[t] /\ layer[t] # 0
      BY <1>9, <1>19, <2>2
    <3>2. left[t] = {} /\ \E d \in needs[t] : layer[t] = layer[d] + 1
      BY <1>5, <3>1 DEF LayerInv
    <3>3. left'[t] = {}
      BY <1>9, <3>2
    <3> QED BY <1>18, <3>1, <3>2, <3>3
  <2> QED BY <2>1, <2>2
<1>20. LayerInv'
  <2>1. ASSUME NEW i \in 1..(L + M), NEW j \in 1..(L + M), i < j
        PROVE  layer'[queue'[i]] <= layer'[queue'[j]]
    <3>1. CASE j <= L
      BY <1>4, <1>16, <1>17, <2>1, <3>1
    <3>2. CASE i <= L /\ j > L
      BY <1>4, <1>16, <1>17, <3>2
    <3>3. CASE i > L /\ j > L
      BY <1>4, <1>16, <3>3
    <3> QED BY <1>4, <2>1, <3>1, <3>2, <3>3
  <2>2. ASSUME front' < L + M, NEW j \in 1..(L + M)
        PROVE  layer'[queue'[j]] <= layer'[queue'[front' + 1]] + 1
    <3>1. front' + 1 \in 1..(L + M) /\ front' + 1 = front + 2
      BY <1>2, <1>4, <2>2
    <3>2. layer'[queue'[j]] <= layer[node] + 1 /\ layer'[queue'[j]] \in Nat
      <4>1. CASE j <= L
        <5>1. j \in 1..L
          BY <1>4, <4>1
        <5> QED BY <1>16, <1>17, <5>1
      <4>2. CASE j > L
        BY <1>16, <4>2
      <4> QED BY <1>4, <4>1, <4>2
    <3>3. layer'[queue'[front' + 1]] >= layer[node] /\ layer'[queue'[front' + 1]] \in Nat
      <4>1. CASE front + 2 <= L
        <5>1. front + 2 \in 1..L /\ front + 1 < front + 2
          BY <1>4, <4>1
        <5>2. layer[queue[front + 1]] <= layer[queue[front + 2]]
          BY <1>17, <5>1
        <5>3. layer'[queue'[front + 2]] = layer[queue[front + 2]] /\ layer[queue[front + 2]] \in Nat
          BY <1>16, <5>1
        <5>4. front' + 1 = front + 2 /\ node = queue[front + 1] /\ layer[node] \in Nat
          BY <1>2, <1>16, <3>1
        <5> QED BY <5>2, <5>3, <5>4
      <4>2. CASE front + 2 > L
        BY <1>16, <3>1, <4>2
      <4> QED BY <1>4, <4>1, <4>2
    <3> QED BY <1>16, <3>2, <3>3
  <2> QED BY <1>3, <1>6, <1>18, <1>19, <2>1, <2>2 DEF LayerInv
<1>21. SortInv'
  BY <1>3, <1>5, <1>15, <1>20 DEF SortInv
<1> QED BY <1>10, <1>11, <1>12, <1>21 DEF ChatInv

-----------------------------------------------------------------------------
(* Steps that leave the plan, the queue and the tasks alone. *)
Still == UNCHANGED <<mode, needs, agent, left, queue, front, layer, level, state, shared>>

LEMMA StillShape ==
    ASSUME ChatInv, Still
    PROVE  /\ Shape' /\ Tasks' = Tasks /\ SharedHoldsResults'
           /\ QueueInv' <=> QueueInv
           /\ LayerInv' <=> LayerInv
           /\ Layered' <=> Layered
<1>1. Tasks' = Tasks
  BY DEF Still, Tasks
<1>2. Shape' /\ SharedHoldsResults'
  BY <1>1 DEF ChatInv, Still, Shape, SharedHoldsResults
<1>3. QueueInv' <=> QueueInv
  BY <1>1 DEF Still, QueueInv, Taken, Place
<1>4. LayerInv' <=> LayerInv
  BY <1>1 DEF Still, LayerInv
<1>5. Layered' <=> Layered
  BY <1>1 DEF Still, Layered
<1> QED BY <1>1, <1>2, <1>3, <1>4, <1>5

(* The end of the loop over the queue: all tasks came through, and their   *)
(* layers respect the dependencies.                                        *)
LEMMA SortedStep ==
    ASSUME ChatInv, Sorted
    PROVE  ChatInv'
<1>1. /\ phase = "sorting" /\ Still /\ UNCHANGED <<lost, known>>
      /\ phase' = IF \A t \in Tasks : left[t] = {} THEN "working" ELSE "rejected"
  BY DEF Sorted, Still, planVars, sortVars
<1>2. level = 0 /\ LayerInv
  BY <1>1 DEF ChatInv, SortInv
<1>3. /\ layer \in [Tasks -> Nat] /\ \A t \in Tasks : state[t] = "waiting"
  BY <1>1 DEF ChatInv, Shape, RunInv, After
<1>4. phase' = "working" => Layered
  BY <1>1, <1>2 DEF Layered, LayerInv
<1>5. Shape' /\ Tasks' = Tasks /\ SharedHoldsResults' /\ (Layered' <=> Layered)
  BY <1>1, StillShape
<1>6. Control' /\ QueueShape' /\ FreshInv' /\ SortInv'
  BY <1>1, <1>5 DEF ChatInv, Still, Control, QueueShape, FreshInv, SortInv, Before, After
<1>7. WorkInv'
  BY <1>1, <1>2, <1>3, <1>4, <1>5 DEF WorkInv, Still, After
<1>8. RunInv' /\ SynthesisIsComplete'
  BY <1>1, <1>3, <1>5 DEF RunInv, Still, SynthesisIsComplete
<1> QED BY <1>5, <1>6, <1>7, <1>8 DEF ChatInv

(* Requests to the coordinator, its failure, the synthesis, a deletion.    *)
LEMMA QuietStep ==
    ASSUME ChatInv, Still, lost' \subseteq Agents, known' = known,
           \/ phase' = phase
           \/ phase = "idle" /\ phase' \in {"rejected", "decompose"}
           \/ phase = "decompose" /\ phase' = "rejected"
           \/ phase = "synthesis" /\ phase' = "done"
    PROVE  ChatInv'
<1>1. Shape' /\ Tasks' = Tasks /\ SharedHoldsResults'
  BY StillShape
<1>2. (QueueInv' <=> QueueInv) /\ (LayerInv' <=> LayerInv) /\ (Layered' <=> Layered)
  BY StillShape
<1>3. Control'
  BY DEF ChatInv, Still, Control, Before, After
<1>4. QueueShape'
  BY <1>1 DEF ChatInv, Still, QueueShape
<1>5. FreshInv'
  BY DEF ChatInv, Still, FreshInv, Before
<1>6. SortInv'
  BY <1>2 DEF ChatInv, Still, SortInv
<1>7. WorkInv'
  BY <1>1, <1>2 DEF ChatInv, Still, WorkInv, After
<1>8. RunInv'
  BY <1>1 DEF ChatInv, Still, RunInv, After
<1>9. SynthesisIsComplete'
  BY <1>1 DEF ChatInv, Still, SynthesisIsComplete
<1> QED BY <1>1, <1>3, <1>4, <1>5, <1>6, <1>7, <1>8, <1>9 DEF ChatInv

-----------------------------------------------------------------------------
(* Steps of the execution by layers. *)
LEMMA StartStep ==
    ASSUME ChatInv, NEW t \in Tasks, StartTask(t)
    PROVE  ChatInv'
<1>1. /\ phase = "working" /\ state[t] = "waiting" /\ layer[t] = level
      /\ UNCHANGED <<phase, mode, lost, known, needs, agent, left, queue, front, layer, level, shared>>
      /\ Tasks' = Tasks
  BY DEF StartTask, planVars, sortVars, Tasks
<1>2. PICK s \in {"running", "error", "skipped"} :
         state' = [state EXCEPT ![t] = s] /\ (s = "running" => HasManifest(t))
  BY DEF StartTask
<1>3. /\ state \in [Tasks -> States] /\ shared \in [Agents -> Tasks \cup {0}]
      /\ layer \in [Tasks -> Nat] /\ level \in Nat /\ known \subseteq Agents
  BY DEF ChatInv, Shape, Control
<1>4. /\ state'[t] = s /\ \A u \in Tasks : u # t => state'[u] = state[u]
      /\ state' \in [Tasks -> States]
  BY <1>2, <1>3 DEF States, Ends
<1>5. Shape'
  BY <1>1, <1>4 DEF ChatInv, Shape
<1>6. Control' /\ QueueShape' /\ FreshInv' /\ SortInv'
  BY <1>1 DEF ChatInv, Control, QueueShape, FreshInv, SortInv, Before, After
<1>7. WorkInv'
  <2>1. Layered' /\ WorkInv
    BY <1>1 DEF ChatInv, WorkInv, Layered, After
  <2> QED BY <1>1, <1>3, <1>4, <2>1 DEF WorkInv, After
<1>8. RunInv'
  <2>1. s = "running" => agent[t] \in Agents
    BY <1>2, <1>3 DEF HasManifest
  <2> QED BY <1>1, <1>4, <2>1 DEF ChatInv, RunInv, After
<1>9. SynthesisIsComplete'
  BY <1>1 DEF SynthesisIsComplete
<1>10. SharedHoldsResults'
  BY <1>1, <1>3, <1>4 DEF ChatInv, SharedHoldsResults
<1> QED BY <1>5, <1>6, <1>7, <1>8, <1>9, <1>10 DEF ChatInv

LEMMA EndStep ==
    ASSUME ChatInv, NEW t \in Tasks, EndTask(t)
    PROVE  ChatInv'
<1>1. PICK s \in {"ok", "error"} :
        /\ state' = [state EXCEPT ![t] = s]
        /\ shared' = IF mode = "coordinator" /\ s = "ok"
                     THEN [shared EXCEPT ![agent[t]] = t] ELSE shared
  BY DEF EndTask
<1>2. /\ state[t] = "running"
      /\ UNCHANGED <<phase, mode, lost, known, needs, agent, left, queue, front, layer, level>>
      /\ Tasks' = Tasks
  BY DEF EndTask, planVars, sortVars, Tasks
<1>3. /\ state \in [Tasks -> States] /\ shared \in [Agents -> Tasks \cup {0}]
      /\ layer \in [Tasks -> Nat] /\ level \in Nat
  BY DEF ChatInv, Shape, Control
<1>4. phase = "working" /\ agent[t] \in Agents
  BY <1>2 DEF ChatInv, RunInv
<1>5. /\ state'[t] = s /\ \A u \in Tasks : u # t => state'[u] = state[u]
      /\ state' \in [Tasks -> States]
  BY <1>1, <1>3 DEF States, Ends
<1>6. shared' \in [Agents -> Tasks \cup {0}]
  BY <1>1, <1>3
<1>7. Shape'
  BY <1>2, <1>5, <1>6 DEF ChatInv, Shape
<1>8. Control' /\ QueueShape' /\ FreshInv' /\ SortInv'
  BY <1>2, <1>4 DEF ChatInv, Control, QueueShape, FreshInv, SortInv, Before, After
<1>9. WorkInv'
  <2>1. Layered' /\ WorkInv
    BY <1>2, <1>4 DEF ChatInv, WorkInv, Layered, After
  <2>2. s \in Ends
    BY DEF Ends
  <2> QED BY <1>2, <1>4, <1>5, <2>1, <2>2 DEF WorkInv, After
<1>10. RunInv'
  BY <1>2, <1>4, <1>5 DEF ChatInv, RunInv, After
<1>11. SynthesisIsComplete'
  BY <1>2, <1>4 DEF SynthesisIsComplete
<1>12. SharedHoldsResults'
  <2> SUFFICES ASSUME mode = "coordinator", NEW x \in Agents
               PROVE  /\ shared'[x] # 0 => state'[shared'[x]] = "ok" /\ agent[shared'[x]] = x
                      /\ shared'[x] = 0 =>
                            \A u \in Tasks : agent[u] = x => state'[u] # "ok"
    BY <1>2 DEF SharedHoldsResults
  <2>1. /\ shared[x] # 0 => state[shared[x]] = "ok" /\ agent[shared[x]] = x
        /\ shared[x] = 0 => \A u \in Tasks : agent[u] = x => state[u] # "ok"
    BY DEF ChatInv, SharedHoldsResults
  <2>2. t # 0
    BY DEF ChatInv, Shape
  <2>3. CASE s = "ok" /\ x = agent[t]
    <3>1. shared'[x] = t
      BY <1>1, <1>3, <1>4, <2>3
    <3> QED BY <1>5, <2>2, <2>3, <3>1
  <2>4. CASE ~(s = "ok" /\ x = agent[t])
    <3>1. shared'[x] = shared[x]
      BY <1>1, <1>3, <2>4
    <3> QED BY <1>2, <1>3, <1>5, <2>1, <2>4, <3>1
  <2> QED BY <2>3, <2>4
<1> QED BY <1>7, <1>8, <1>9, <1>10, <1>11, <1>12 DEF ChatInv

LEMMA LayerStep ==
    ASSUME ChatInv, NextLayer
    PROVE  ChatInv'
<1>1. /\ phase = "working" /\ LayerEnded
      /\ UNCHANGED <<mode, lost, known, needs, agent, left, queue, front, layer, state, shared>>
      /\ Tasks' = Tasks
  BY DEF NextLayer, planVars, sortVars, Tasks
<1>2. /\ state \in [Tasks -> States] /\ layer \in [Tasks -> Nat] /\ level \in Nat
  BY DEF ChatInv, Shape, Control
<1>3. /\ Layered
      /\ \A t \in Tasks : /\ layer[t] <= level => state[t] \in Ends
                          /\ layer[t] > level => state[t] = "waiting"
  BY <1>1, <1>2 DEF ChatInv, WorkInv, After, LayerEnded
<1>4. Shape' /\ SharedHoldsResults' /\ Layered'
  <2>1. Shape'
    BY <1>1 DEF ChatInv, Shape
  <2>2. SharedHoldsResults'
    BY <1>1 DEF ChatInv, SharedHoldsResults
  <2>3. Layered'
    BY <1>1, <1>3 DEF Layered
  <2> QED BY <2>1, <2>2, <2>3
<1>5. \A t \in Tasks : state[t] # "running"
  BY <1>2, <1>3 DEF Ends
<1>6. CASE Waiting = {} \/ RelayBroken
  <2>1. phase' = (IF mode = "coordinator" THEN "synthesis" ELSE "done") /\ level' = level
    BY <1>6 DEF NextLayer
  <2>2. Control' /\ QueueShape' /\ FreshInv' /\ SortInv'
    BY <1>1, <2>1 DEF ChatInv, Control, QueueShape, FreshInv, SortInv, Before, After
  <2>3. WorkInv' /\ RunInv'
    BY <1>1, <1>2, <1>3, <1>4, <1>5, <2>1 DEF ChatInv, WorkInv, RunInv, After
  <2>4. mode = "coordinator" => \A t \in Tasks : state[t] \in Ends
    BY <1>2, <1>5, <1>6 DEF Waiting, RelayBroken, States
  <2>5. SynthesisIsComplete'
    BY <1>1, <2>4 DEF SynthesisIsComplete
  <2> QED BY <1>4, <2>2, <2>3, <2>5 DEF ChatInv
<1>7. CASE ~(Waiting = {} \/ RelayBroken)
  <2>1. /\ level' \in {layer[t] : t \in Waiting} /\ phase' = phase
        /\ \A t \in Waiting : level' <= layer[t]
    BY <1>7 DEF NextLayer
  <2>2. PICK w \in Waiting : level' = layer[w]
    BY <2>1
  <2>3. w \in Tasks /\ state[w] = "waiting"
    BY DEF Waiting
  <2>4. level' \in Nat /\ level' > level
    BY <1>2, <1>3, <2>2, <2>3 DEF Ends
  <2>5. Control' /\ QueueShape' /\ FreshInv' /\ SortInv'
    BY <1>1, <2>1, <2>4 DEF ChatInv, Control, QueueShape, FreshInv, SortInv, Before, After
  <2>6. ASSUME NEW t \in Tasks
        PROVE  /\ layer[t] < level' => state[t] \in Ends
               /\ layer[t] > level' => state[t] = "waiting"
    <3>1. layer[t] < level' => t \notin Waiting
      BY <1>2, <2>1, <2>4
    <3>2. layer[t] <= level \/ layer[t] > level
      BY <1>2
    <3>3. layer[t] < level' => state[t] \in Ends
      BY <1>3, <3>1, <3>2 DEF Waiting
    <3>4. layer[t] > level' => layer[t] > level
      BY <1>2, <2>4
    <3> QED BY <1>3, <3>3, <3>4
  <2>7. WorkInv' /\ RunInv'
    BY <1>1, <1>4, <1>5, <2>1, <2>6 DEF ChatInv, WorkInv, RunInv, After
  <2>8. SynthesisIsComplete'
    BY <1>1, <2>1 DEF SynthesisIsComplete
  <2> QED BY <1>4, <2>5, <2>7, <2>8 DEF ChatInv
<1> QED BY <1>6, <1>7

LEMMA ChatNext == ChatInv /\ [Next]_vars => ChatInv'
<1> SUFFICES ASSUME ChatInv, [Next]_vars PROVE ChatInv'
  OBVIOUS
<1>1. lost \subseteq Agents
  BY DEF ChatInv, Control
<1>2. ASSUME NEW g \in Groups, AskMembers(g) PROVE ChatInv'
  BY <1>2, MembersStep
<1>3. ASSUME NEW g \in Groups, AskCoordinator(g) PROVE ChatInv'
  <2>1. Still /\ lost' = lost /\ known' = known /\ phase = "idle"
        /\ phase' \in {"rejected", "decompose"}
    BY <1>3 DEF AskCoordinator, Still, planVars, sortVars
  <2> QED BY <1>1, <2>1, QuietStep
<1>4. CASE CoordinatorFails
  <2>1. Still /\ lost' = lost /\ known' = known /\ phase = "decompose" /\ phase' = "rejected"
    BY <1>4 DEF CoordinatorFails, Still, planVars, sortVars
  <2> QED BY <1>1, <2>1, QuietStep
<1>5. CASE Synthesize
  <2>1. Still /\ lost' = lost /\ known' = known /\ phase = "synthesis" /\ phase' = "done"
    BY <1>5 DEF Synthesize, Still, planVars, sortVars
  <2> QED BY <1>1, <2>1, QuietStep
<1>6. ASSUME NEW a \in Agents, LoseManifest(a) PROVE ChatInv'
  <2>1. Still /\ lost' \subseteq Agents /\ known' = known /\ phase' = phase
    BY <1>1, <1>6 DEF LoseManifest, Still, planVars, sortVars
  <2> QED BY <2>1, QuietStep
<1>7. CASE UNCHANGED vars
  <2>1. Still /\ lost' = lost /\ known' = known /\ phase' = phase
    BY <1>7 DEF vars, Still
  <2> QED BY <1>1, <2>1, QuietStep
<1>8. CASE Terminated
  BY <1>7, <1>8 DEF Terminated
<1>9. CASE ChatStep
  BY <1>2, <1>3, <1>4, <1>5, <1>9, AnswerStep, TakeStep, SortedStep, StartStep, EndStep,
     LayerStep DEF ChatStep
<1> QED BY <1>6, <1>7, <1>8, <1>9 DEF Next

(* The inductive invariant holds in every reachable state. *)
THEOREM ChatInvariant == Spec => []ChatInv
  BY ChatInit, ChatNext, PTL DEF Spec

(* Every variable keeps its type. *)
THEOREM TypeCorrect == Spec => []TypeOK
<1>1. ASSUME ChatInv PROVE TypeOK
  <2>1. Shape /\ Control /\ QueueShape
    BY <1>1 DEF ChatInv
  <2>2. PICK n \in 0..MaxTasks : Tasks = 1..n
    BY <2>1 DEF Shape
  <2>3. n \in Nat /\ (1..n) \cup {0} = 0..n
    BY TaskAssumption
  <2>4. /\ needs \in [1..n -> SUBSET (1..n)]
        /\ agent \in [1..n -> Agents \cup {Nobody}]
        /\ layer \in [1..n -> Nat]
    BY <2>1, <2>2 DEF Shape
  <2>5. state \in [1..n -> Ends \cup {"waiting", "running"}]
    BY <2>1, <2>2 DEF Shape, States
  <2>6. shared \in [Agents -> 0..n]
    BY <2>1, <2>2, <2>3 DEF Shape
  <2>7. queue \in Seq(1..n) /\ (phase = "sorting" => left \in [1..n -> SUBSET (1..n)])
    BY <2>1, <2>2 DEF QueueShape
  <2>8. front \in 0..Len(queue)
    BY <2>1 DEF QueueShape
  <2>9. /\ phase \in {"idle", "decompose", "sorting", "working", "synthesis", "done", "rejected"}
        /\ mode \in Modes /\ lost \subseteq Agents /\ known \subseteq Agents /\ level \in Nat
    BY <2>1 DEF Control, Before, After
  <2> QED BY <2>4, <2>5, <2>6, <2>7, <2>8, <2>9 DEF TypeOK
<1> QED BY <1>1, ChatInvariant, PTL

(* A prerequisite's layer is lower, so while a task is being worked on, or *)
(* later, it has ended.                                                    *)
LEMMA NeedsEnded ==
    ASSUME ChatInv, phase \in After, NEW t \in Tasks, layer[t] <= level, NEW d \in needs[t]
    PROVE  d \in Tasks /\ state[d] \in Ends
<1>1. /\ needs \in [Tasks -> SUBSET Tasks] /\ layer \in [Tasks -> Nat] /\ level \in Nat
  BY DEF ChatInv, Shape, Control
<1>2. d \in Tasks
  BY <1>1
<1>3. layer[d] < layer[t]
  BY DEF ChatInv, WorkInv, Layered
<1>4. layer[d] < level
  BY <1>1, <1>2, <1>3
<1> QED BY <1>2, <1>4 DEF ChatInv, WorkInv

(* No task is begun before every prerequisite has come to its end. *)
THEOREM DependenciesRespected == Spec => []PrerequisitesFirst
<1>1. ASSUME ChatInv PROVE PrerequisitesFirst
  <2> SUFFICES ASSUME NEW t \in Tasks, state[t] # "waiting", NEW d \in needs[t]
               PROVE  state[d] \in Ends
    BY DEF PrerequisitesFirst
  <2>1. phase \in After
    BY <1>1 DEF ChatInv, RunInv
  <2>2. layer[t] \in Nat /\ level \in Nat
    BY <1>1 DEF ChatInv, Shape, Control
  <2>3. layer[t] <= level
    BY <1>1, <2>1, <2>2 DEF ChatInv, WorkInv
  <2> QED BY <1>1, <2>1, <2>3, NeedsEnded
<1> QED BY <1>1, ChatInvariant, PTL

(* Layers are as low as the dependencies allow. *)
THEOREM LayersTight == Spec => []NoNeedlessWait
<1>1. ChatInv => NoNeedlessWait
  BY DEF ChatInv, WorkInv, Layered, NoNeedlessWait, After
<1> QED BY <1>1, ChatInvariant, PTL

(* The synthesis sees the outcome of every task. *)
THEOREM SynthesisSeesAll == Spec => []SynthesisIsComplete
<1>1. ChatInv => SynthesisIsComplete
  BY DEF ChatInv
<1> QED BY <1>1, ChatInvariant, PTL

(* The shared context holds results, each under the agent it came from. *)
THEOREM SharedHolds == Spec => []SharedHoldsResults
<1>1. ChatInv => SharedHoldsResults
  BY DEF ChatInv
<1> QED BY <1>1, ChatInvariant, PTL

-----------------------------------------------------------------------------
(* The orchestration implements TaskSchedule: a plan is fixed by the       *)
(* members or the coordinator's answer, StartTask begins and EndTask ends  *)
(* a task, and every other step leaves the schedule alone.                 *)
LEMMA MembersFix ==
    ASSUME ChatInv, NEW g \in Groups, AskMembers(g)
    PROVE  Schedule!Fix
<1>1. /\ phase = "idle" /\ mode \in Modes
      /\ needs' = [t \in DOMAIN g |-> IF mode = "serial" /\ t > 1 THEN {t - 1} ELSE {}]
      /\ state' = [t \in DOMAIN g |-> "waiting"]
  BY DEF AskMembers, ChatInv, Control
<1>2. needs = <<>> /\ state = <<>>
  BY <1>1 DEF ChatInv, FreshInv, Before
<1>3. needs' \in ChatPlans
  <2>1. CASE mode = "serial"
    <3>1. needs' = [t \in DOMAIN g |-> IF t > 1 THEN {t - 1} ELSE {}]
      BY <1>1, <2>1
    <3> QED BY <3>1 DEF ChatPlans
  <2>2. CASE mode # "serial"
    <3>1. needs' = [t \in DOMAIN g |-> {}]
      BY <1>1, <2>2
    <3> QED BY <3>1 DEF ChatPlans
  <2> QED BY <2>1, <2>2
<1>4. DOMAIN needs' = DOMAIN g
  BY <1>1
<1> QED BY <1>1, <1>2, <1>3, <1>4 DEF Schedule!Fix

LEMMA AnswerFix ==
    ASSUME ChatInv, CoordinatorAnswers
    PROVE  Schedule!Fix
<1>1. PICK d \in Decompositions :
        needs' = d.needs /\ state' = [t \in DOMAIN d.needs |-> "waiting"]
  BY DEF CoordinatorAnswers
<1>2. needs = <<>> /\ state = <<>>
  BY DEF CoordinatorAnswers, ChatInv, FreshInv, Before
<1>3. needs' \in ChatPlans
  BY <1>1 DEF ChatPlans
<1> QED BY <1>1, <1>2, <1>3 DEF Schedule!Fix

LEMMA StartBegins ==
    ASSUME ChatInv, NEW t \in Tasks, StartTask(t)
    PROVE  Schedule!Begin(t)
<1>1. /\ phase = "working" /\ state[t] = "waiting" /\ layer[t] = level /\ needs' = needs
      /\ \E s \in {"running", "error", "skipped"} : state' = [state EXCEPT ![t] = s]
  BY DEF StartTask, planVars
<1>2. layer[t] <= level
  BY <1>1 DEF ChatInv, Control
<1>3. \A d \in needs[t] : state[d] \in Ends
  BY <1>1, <1>2, NeedsEnded DEF After
<1> QED BY <1>1, <1>3 DEF Schedule!Begin, Schedule!Ready, Schedule!Ends, Ends

LEMMA EndEnds ==
    ASSUME NEW t \in Tasks, EndTask(t)
    PROVE  Schedule!End(t)
  BY DEF EndTask, planVars, Schedule!End

LEMMA ScheduleStep == ChatInv /\ [Next]_vars => [Schedule!Next]_<<needs, state>>
<1> SUFFICES ASSUME ChatInv, [Next]_vars PROVE [Schedule!Next]_<<needs, state>>
  OBVIOUS
<1>1. ASSUME NEW g \in Groups, AskMembers(g) PROVE Schedule!Next
  BY <1>1, MembersFix DEF Schedule!Next
<1>2. CASE CoordinatorAnswers
  BY <1>2, AnswerFix DEF Schedule!Next
<1>3. ASSUME NEW t \in Tasks, StartTask(t) \/ EndTask(t) PROVE Schedule!Next
  BY <1>3, StartBegins, EndEnds DEF Schedule!Next, Tasks
<1>4. ASSUME NEW g \in Groups, AskCoordinator(g) PROVE UNCHANGED <<needs, state>>
  BY <1>4 DEF AskCoordinator, planVars
<1>5. CASE CoordinatorFails \/ TakeNext \/ Sorted \/ NextLayer \/ Synthesize
  BY <1>5 DEF CoordinatorFails, TakeNext, Sorted, NextLayer, Synthesize, planVars
<1>6. ASSUME NEW a \in Agents, LoseManifest(a) PROVE UNCHANGED <<needs, state>>
  BY <1>6 DEF LoseManifest, planVars
<1>7. CASE Terminated \/ UNCHANGED vars
  BY <1>7 DEF Terminated, vars
<1>8. CASE ChatStep
  BY <1>1, <1>2, <1>3, <1>4, <1>5, <1>8 DEF ChatStep
<1> QED BY <1>6, <1>7, <1>8 DEF Next

(* Whatever the mode, the group and the dependencies, the orchestration    *)
(* begins and ends tasks as TaskSchedule allows.                           *)
THEOREM ChatKeepsSchedule == Spec => KeepsSchedule
<1>1. Init => Schedule!Init
  BY DEF Init, Schedule!Init
<1> QED BY <1>1, ScheduleStep, ChatInvariant, PTL DEF Spec, KeepsSchedule, Schedule!Spec

=============================================================================
