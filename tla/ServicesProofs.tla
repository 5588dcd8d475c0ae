--------------------------- MODULE ServicesProofs ---------------------------
(***************************************************************************)
(* What four of the services guarantee for any number of requests,         *)
(* providers, processes, keys and runs: the router's failover, the         *)
(* destruction of agent directories and their entries in the registry, the *)
(* rate limits, and the gate and the comparison of evaluation runs.  The   *)
(* modules share no variable; each part of this one is about one of them.  *)
(*   The last part is about all services together: what Services composes  *)
(* behaves like each of its components, those of TurnsProofs and           *)
(* StorageProofs among them, so what is proved of a component holds where  *)
(* the runs check it.                                                      *)
(***************************************************************************)
EXTENDS Services, TurnsProofs, StorageProofs

-----------------------------------------------------------------------------
(* The router.                                                             *)

\* Every step of the router keeps its variables in their types.
LEMMA RoutingTypeStep ==
    ASSUME RoutingTypeOK, [RoutingNext]_routingVars
    PROVE  RoutingTypeOK'
<1> USE RoutingAssumption DEF RoutingTypeOK
<1>1. ASSUME NEW r \in Requests, TryNext(r)
      PROVE  /\ phase' \in [Requests -> Phases]
             /\ asked' \in [Requests -> Providers \cup {NoProvider}]
             /\ untried' \in [Requests -> SUBSET Providers]
             /\ seen' \in [Requests -> SUBSET BOOLEAN]
  <2>1. CASE untried[r] = {}
             /\ phase' = [phase EXCEPT ![r] = "failed"]
             /\ UNCHANGED <<asked, untried, seen>>
    BY <2>1 DEF Phases
  <2>2. CASE \E p \in untried[r] :
                /\ Ask(r, p)
                /\ untried' = [untried EXCEPT ![r] = @ \ {p}]
    <3>1. PICK p \in untried[r] :
                /\ Ask(r, p)
                /\ untried' = [untried EXCEPT ![r] = @ \ {p}]
      BY <2>2
    <3>2. p \in Providers
      OBVIOUS
    <3> QED
      BY <3>1, <3>2 DEF Ask, Phases
  <2> QED
    BY <1>1, <2>1, <2>2 DEF TryNext
<1>2. ASSUME NEW record \in Record, NEW ok \in BOOLEAN
      PROVE  Checked(record, ok) \in Record
  BY <1>2 DEF Checked, Record
<1>3. ASSUME NEW r \in Requests, RequestComes(r)
      PROVE  RoutingTypeOK'
  <2>1. PICK p \in Providers :
            /\ Ask(r, p)
            /\ untried' = [untried EXCEPT ![r] = Providers \ {p}]
    BY <1>3 DEF RequestComes
  <2> QED
    BY <1>3, <2>1 DEF RequestComes, Ask, Phases
<1>4. ASSUME NEW r \in Requests, Answers(r)
      PROVE  RoutingTypeOK'
  BY <1>4 DEF Answers, Phases
<1>5. ASSUME NEW r \in Requests, AttemptFails(r)
      PROVE  RoutingTypeOK'
  <2>1. CASE TryNext(r)
    BY <1>5, <1>1, <2>1 DEF AttemptFails
  <2>2. CASE ~TryNext(r)
    BY <1>5, <2>2 DEF AttemptFails, Phases
  <2> QED
    BY <2>1, <2>2
<1>6. ASSUME NEW r \in Requests, NEW ok \in BOOLEAN, FailoverCheckEnds(r, ok)
      PROVE  RoutingTypeOK'
  <2>1. health' \in [Providers -> Record]
    BY <1>6, <1>2 DEF FailoverCheckEnds
  <2> QED
    BY <1>6, <1>1, <2>1 DEF FailoverCheckEnds
<1>7. ASSUME NEW r \in Requests, Cancelled(r)
      PROVE  RoutingTypeOK'
  BY <1>7 DEF Cancelled, Phases
<1>8. ASSUME NEW s \in Sweeps, SweepStep(s)
      PROVE  RoutingTypeOK'
  <2>1. ASSUME NEW p \in Providers, NEW ok \in BOOLEAN, SweepChecks(s, p, ok)
        PROVE  RoutingTypeOK'
    <3>1. health' \in [Providers -> Record]
      BY <2>1, <1>2 DEF SweepChecks
    <3> QED
      BY <2>1, <3>1 DEF SweepChecks
  <2>2. CASE SweepBegins(s)
    BY <2>2 DEF SweepBegins
  <2>3. CASE SweepStops(s)
    BY <2>3 DEF SweepStops
  <2> QED
    BY <1>8, <2>1, <2>2, <2>3 DEF SweepStep
<1>9. ASSUME NEW p \in Providers, Swing(p)
      PROVE  RoutingTypeOK'
  <2>1. up' \subseteq Providers
    BY <1>9 DEF Swing
  <2>2. seen' \in [Requests -> SUBSET BOOLEAN]
    BY <1>9 DEF Swing
  <2>3. swings' \in 0..MaxSwings
    BY <1>9 DEF Swing
  <2> QED
    BY <1>9, <2>1, <2>2, <2>3 DEF Swing
<1>10. CASE UNCHANGED routingVars
  BY <1>10 DEF routingVars
<1> QED
  BY <1>3, <1>4, <1>5, <1>6, <1>7, <1>8, <1>9, <1>10 DEF RoutingNext, RequestStep

\* A provider that was up ever since the request came is still to be tried, or it
\* is the one being asked, and then it was never seen down.
StillReachable(r) ==
    /\ steady[r] \subseteq up
    /\ phase[r] \in {"asking", "checking"} => steady[r] \subseteq untried[r] \cup {asked[r]}
    /\ phase[r] = "asking" /\ asked[r] \in steady[r] => FALSE \notin seen[r]
    /\ phase[r] = "checking" => asked[r] \notin steady[r]
    /\ setup.failover /\ phase[r] = "failed" => steady[r] = {}

RoutingInv == RoutingTypeOK /\ \A r \in Requests : StillReachable(r)

\* Giving up a provider that was not up all the time and trying the next one.
LEMMA TryNextReaches ==
    ASSUME RoutingTypeOK, NEW r \in Requests, StillReachable(r), TryNext(r),
           phase[r] \in {"asking", "checking"}, asked[r] \notin steady[r],
           UNCHANGED <<setup, up, steady>>
    PROVE  StillReachable(r)'
<1> USE DEF RoutingTypeOK, StillReachable
<1>1. steady[r] \subseteq untried[r]
  OBVIOUS
<1>2. CASE untried[r] = {} /\ phase' = [phase EXCEPT ![r] = "failed"]
  BY <1>1, <1>2
<1>3. CASE \E p \in untried[r] :
              /\ Ask(r, p)
              /\ untried' = [untried EXCEPT ![r] = @ \ {p}]
  <2>1. PICK p \in untried[r] :
              /\ Ask(r, p)
              /\ untried' = [untried EXCEPT ![r] = @ \ {p}]
    BY <1>3
  <2>2. phase'[r] = "asking" /\ asked'[r] = p /\ untried'[r] = untried[r] \ {p}
    BY <2>1 DEF Ask
  <2>3. p \in up => FALSE \notin seen'[r]
    BY <2>1 DEF Ask
  <2> QED
    BY <1>1, <2>2, <2>3
<1> QED
  BY <1>2, <1>3 DEF TryNext

\* A request's own step keeps what its providers are owed.
LEMMA RequestStepReaches ==
    ASSUME RoutingInv, NEW r \in Requests, RequestStep(r)
    PROVE  StillReachable(r)'
<1> USE DEF RoutingInv
<1>1. CASE RequestComes(r)
  <2>1. PICK p \in Providers :
            /\ Ask(r, p)
            /\ untried' = [untried EXCEPT ![r] = Providers \ {p}]
    BY <1>1 DEF RequestComes
  <2>2. phase'[r] = "asking" /\ asked'[r] = p /\ untried'[r] = Providers \ {p}
    BY <2>1 DEF Ask, RoutingTypeOK
  <2>3. p \in up => FALSE \notin seen'[r]
    BY <2>1 DEF Ask, RoutingTypeOK
  <2>4. steady'[r] = up /\ up' = up
    BY <1>1 DEF RequestComes, RoutingTypeOK
  <2> QED
    BY <2>2, <2>3, <2>4 DEF StillReachable, RoutingTypeOK
<1>2. CASE Answers(r) \/ Cancelled(r)
  BY <1>2 DEF Answers, Cancelled, StillReachable, RoutingTypeOK
<1>3. CASE AttemptFails(r)
  <2>1. asked[r] \notin steady[r] /\ phase[r] = "asking"
    BY <1>3 DEF AttemptFails, StillReachable
  <2>2. CASE TryNext(r)
    BY <1>3, <2>1, <2>2, TryNextReaches DEF AttemptFails
  <2>3. CASE ~TryNext(r)
    BY <1>3, <2>1, <2>3 DEF AttemptFails, StillReachable, RoutingTypeOK
  <2> QED
    BY <2>2, <2>3
<1>4. ASSUME NEW ok \in BOOLEAN, FailoverCheckEnds(r, ok)
      PROVE  StillReachable(r)'
  <2>1. asked[r] \notin steady[r] /\ phase[r] = "checking"
    BY <1>4 DEF FailoverCheckEnds, StillReachable
  <2> QED
    BY <1>4, <2>1, TryNextReaches DEF FailoverCheckEnds
<1> QED
  BY <1>1, <1>2, <1>3, <1>4 DEF RequestStep

\* ... and leaves every other request alone.
LEMMA RequestStepFrame ==
    ASSUME RoutingTypeOK, NEW r \in Requests, NEW q \in Requests, q # r, RequestStep(r)
    PROVE  /\ UNCHANGED <<setup, up>>
           /\ phase'[q] = phase[q] /\ asked'[q] = asked[q] /\ untried'[q] = untried[q]
           /\ seen'[q] = seen[q] /\ steady'[q] = steady[q]
<1>1. /\ phase \in [Requests -> Phases] /\ asked \in [Requests -> Providers \cup {NoProvider}]
      /\ untried \in [Requests -> SUBSET Providers] /\ seen \in [Requests -> SUBSET BOOLEAN]
      /\ steady \in [Requests -> SUBSET Providers]
  BY DEF RoutingTypeOK
<1>2. ASSUME NEW p, Ask(r, p)
      PROVE  phase'[q] = phase[q] /\ asked'[q] = asked[q] /\ seen'[q] = seen[q]
  BY <1>1, <1>2 DEF Ask
<1>3. TryNext(r) => /\ phase'[q] = phase[q] /\ asked'[q] = asked[q] /\ untried'[q] = untried[q]
                    /\ seen'[q] = seen[q]
  BY <1>1, <1>2 DEF TryNext
<1>4. CASE RequestComes(r)
  BY <1>1, <1>2, <1>4 DEF RequestComes
<1>5. CASE Answers(r) \/ Cancelled(r)
  BY <1>1, <1>5 DEF Answers, Cancelled
<1>6. CASE AttemptFails(r)
  BY <1>1, <1>3, <1>6 DEF AttemptFails
<1>7. ASSUME NEW ok \in BOOLEAN, FailoverCheckEnds(r, ok)
      PROVE  /\ UNCHANGED <<setup, up>>
             /\ phase'[q] = phase[q] /\ asked'[q] = asked[q] /\ untried'[q] = untried[q]
             /\ seen'[q] = seen[q] /\ steady'[q] = steady[q]
  BY <1>3, <1>7 DEF FailoverCheckEnds
<1> QED
  BY <1>4, <1>5, <1>6, <1>7 DEF RequestStep

\* The strengthened invariant of the router is kept by every step.
LEMMA RoutingInvStep ==
    ASSUME RoutingInv, [RoutingNext]_routingVars
    PROVE  RoutingInv'
<1>1. RoutingTypeOK'
  BY RoutingTypeStep DEF RoutingInv
<1>2. ASSUME NEW q \in Requests
      PROVE  StillReachable(q)'
  <2>1. ASSUME NEW r \in Requests, RequestStep(r)
        PROVE  StillReachable(q)'
    <3>1. CASE q = r
      BY <2>1, <3>1, RequestStepReaches
    <3>2. CASE q # r
      BY <2>1, <3>2, RequestStepFrame DEF StillReachable, RoutingInv
    <3> QED
      BY <3>1, <3>2
  <2>2. ASSUME NEW s \in Sweeps, SweepStep(s)
        PROVE  StillReachable(q)'
    BY <2>2 DEF SweepStep, SweepBegins, SweepChecks, SweepStops, StillReachable, RoutingInv
  <2>3. ASSUME NEW p \in Providers, Swing(p)
        PROVE  StillReachable(q)'
    <3>1. steady'[q] = steady[q] \ {p}
      BY <2>3 DEF Swing, RoutingTypeOK, RoutingInv
    <3>2. steady'[q] \subseteq up'
      BY <2>3, <3>1 DEF Swing, StillReachable, RoutingInv
    <3>3. asked[q] # p => seen'[q] = seen[q]
      BY <2>3 DEF Swing, RoutingTypeOK, RoutingInv
    <3> QED
      BY <2>3, <3>1, <3>2, <3>3 DEF Swing, StillReachable, RoutingInv
  <2>4. CASE UNCHANGED routingVars
    BY <2>4 DEF routingVars, StillReachable, RoutingInv
  <2> QED
    BY <2>1, <2>2, <2>3, <2>4 DEF RoutingNext
<1> QED
  BY <1>1, <1>2 DEF RoutingInv

\* No request has come.
LEMMA RoutingInitHolds == RoutingInit => RoutingInv
<1> SUFFICES ASSUME RoutingInit PROVE RoutingInv
  OBVIOUS
<1>1. RoutingTypeOK
  BY RoutingAssumption DEF RoutingInit, RoutingTypeOK, Phases, Record
<1> QED
  BY <1>1 DEF RoutingInit, RoutingInv, StillReachable

\* routing/router.py complete with failover: whatever number of requests, sweeps and
\* checks interleave and however stale the health table is, a request fails only when
\* no provider was up during the whole of it.
THEOREM UpProviderIsReached == RoutingSpec => []UpProviderAnswers
<1>1. RoutingInv /\ [RoutingNext]_routingVars => RoutingInv'
  BY RoutingInvStep
<1>2. RoutingInv => UpProviderAnswers
  BY DEF RoutingInv, StillReachable, UpProviderAnswers
<1> QED
  BY RoutingInitHolds, <1>1, <1>2, PTL DEF RoutingSpec

-----------------------------------------------------------------------------
(* The swarm registry.                                                     *)

\* A copy of the registry whose trashed entries name a place in the trash.
SoundTable(t) ==
    /\ t \in [Agents -> Entry]
    /\ \A i \in Agents : t[i].status = "trashed" => t[i].path \in TrashTops

RegistryInv ==
    /\ RegistryTypeOK
    /\ SoundTable(onDisk)
    /\ \A p \in Hubs : SoundTable(memory[p])

\* What a step may do to the directories.
KeptOrTrash == \A d \in Placed : d \in Placed' \/ InTrash(d)

\* Where the places are, for the steps that move directories.
LEMMA PlacesKnown ==
    /\ HomePlaces \subseteq Places
    /\ WorkPlaces \subseteq Places
    /\ Tops \subseteq Places
    /\ \A pl \in Tops, n \in Nested : Inner(pl, n) \in Places
    /\ \A pl \in TrashTops, q \in Places : Under(q, pl) => q \in TrashPlaces
    /\ \A i \in Agents, s \in 0..MaxClock : Trash(i, s) \in TrashTops /\ Trash(i, s) \in Tops
    /\ \A s \in 0..MaxClock, c \in 0..MaxCopies : Work(s, c) \in Tops
BY DEF Places, HomePlaces, TrashPlaces, WorkPlaces, AndInner, Tops, HomeTops, TrashTops, WorkTops,
       Under

\* Nothing lies in no place.
LEMMA NothingNowhere == \A q \in Places : ~Under(q, Nowhere)
<1>1. Nowhere \notin Tops
  BY DEF Nowhere, Tops, HomeTops, TrashTops, WorkTops, Home, Trash, Work
<1>2. Nowhere \notin Places
  BY <1>1 DEF Places, AndInner, Nowhere, Inner
<1>3. ASSUME NEW n \in Nested, Inner(Nowhere, n) \in Places
      PROVE  FALSE
  <2>1. Inner(Nowhere, n) \notin Tops
    BY DEF Inner, Tops, HomeTops, TrashTops, WorkTops, Home, Trash, Work
  <2>2. PICK pl \in Tops, m \in Nested : Inner(Nowhere, n) = Inner(pl, m)
    BY <1>3, <2>1 DEF Places, AndInner
  <2>3. pl = Nowhere
    BY <2>2 DEF Inner
  <2> QED
    BY <1>1, <2>2, <2>3
<1> QED
  BY <1>2, <1>3 DEF Under

\* What is inside a directory that moves stays inside it.
LEMMA MovedWithin ==
    ASSUME NEW q \in Places, NEW from, NEW to \in Tops, NEW into,
           into = to \/ \E n \in Nested : into = Inner(to, n)
    PROVE  /\ Moved(q, from, into) \in Places
           /\ ~Under(q, from) => Moved(q, from, into) = q
           /\ Under(q, from) => Under(Moved(q, from, into), to)
           /\ q = from => Moved(q, from, into) = into
<1>1. into \in Places /\ Under(into, to)
  BY PlacesKnown DEF Under
<1>2. CASE Under(q, from) /\ q # from /\ into \in Tops
  <2>1. PICK n \in Nested : q = Inner(from, n)
    BY <1>2 DEF Under
  <2>2. q[3] = n
    BY <2>1 DEF Inner
  <2>3. into = to
    <3>1. \A n1 \in Nested : Inner(to, n1) \notin Tops
      BY DEF Inner, Tops, HomeTops, TrashTops, WorkTops, Home, Trash, Work
    <3> QED
      BY <1>2, <3>1
  <2>4. Moved(q, from, into) = Inner(to, n)
    BY <1>2, <2>2, <2>3 DEF Moved
  <2> QED
    BY <1>2, <2>4, PlacesKnown DEF Under
<1>3. CASE ~(Under(q, from) /\ q # from /\ into \in Tops)
  BY <1>1, <1>3 DEF Moved, Under
<1> QED
  BY <1>2, <1>3

\* The entries the operations make.
LEMMA EntriesSound ==
    /\ Absent \in Entry /\ Absent.status = "absent"
    /\ SoundTable(NoAgents)
    /\ \A pl \in Places : NewEntry(pl) \in Entry /\ NewEntry(pl).status = "active"
<1>1. Absent \in Entry /\ Absent.status = "absent"
  BY RegistryAssumption DEF Absent, Entry, Statuses
<1>2. SoundTable(NoAgents)
  BY <1>1 DEF SoundTable, NoAgents
<1>3. ASSUME NEW pl \in Places
      PROVE  NewEntry(pl) \in Entry /\ NewEntry(pl).status = "active"
  BY RegistryAssumption DEF NewEntry, Entry, Statuses
<1> QED
  BY <1>1, <1>2, <1>3

\* Putting one sound entry into a sound copy.
LEMMA EntryPlaced ==
    ASSUME NEW t, SoundTable(t), NEW i \in Agents, NEW e \in Entry,
           e.status = "trashed" => e.path \in TrashTops
    PROVE  SoundTable([t EXCEPT ![i] = e])
BY DEF SoundTable

\* A process that changes its copy to a sound one.
LEMMA ChangeSound ==
    ASSUME RegistryInv, NEW p \in Hubs, NEW t, SoundTable(t), Change(p, t)
    PROVE  /\ memory' \in [Hubs -> [Agents -> Entry]]
           /\ \A q \in Hubs : SoundTable(memory'[q])
           /\ unsaved' \subseteq Hubs
BY DEF RegistryInv, RegistryTypeOK, Change, SoundTable

\* A move within the places loses no directory.
LEMMA MoveKeepsTable ==
    ASSUME dirAt \in [Places -> SUBSET Dirs], carried \subseteq Dirs, NEW from, NEW to \in Tops,
           MoveIfThere(from, to)
    PROVE  /\ dirAt' \in [Places -> SUBSET Dirs]
           /\ carried' \subseteq Dirs
           /\ Placed \subseteq Placed'
<1>1. CASE from \in Places /\ PathExists(from)
  <2>1. PICK into : /\ into = to \/ \E n \in Nested : into = Inner(to, n)
                    /\ Move(from, into)
    BY <1>1 DEF MoveIfThere
  <2>2. \A pl \in Places :
            dirAt'[pl] = UNION {dirAt[q] : q \in {r \in Places : Moved(r, from, into) = pl}}
    BY <2>1 DEF Move
  <2>3. \A pl \in Places : dirAt'[pl] \subseteq Dirs
    BY <2>2
  <2>4. dirAt' \in [Places -> SUBSET Dirs]
    BY <2>1, <2>3 DEF Move
  <2>5. ASSUME NEW d \in Placed
        PROVE  d \in Placed'
    <3>1. PICK pl \in Places : d \in dirAt[pl]
      BY <2>5 DEF Placed
    <3>2. Moved(pl, from, into) \in Places
      BY <2>1, MovedWithin
    <3>3. d \in dirAt'[Moved(pl, from, into)]
      BY <2>2, <3>1, <3>2
    <3> QED
      BY <3>2, <3>3 DEF Placed
  <2>6. carried' \subseteq Dirs
    <3>1. \A S \in SUBSET Places : UNION {dirAt[q] : q \in S} \subseteq Dirs
      OBVIOUS
    <3>2. UNION {dirAt[q] : q \in {r \in Places : Under(r, from) /\ r # from}} \subseteq Dirs
      BY <3>1
    <3>3. dirAt[from] \subseteq Dirs
      BY <1>1
    <3> QED
      BY <2>1, <3>2, <3>3 DEF Move
  <2> QED
    BY <2>4, <2>5, <2>6
<1>2. CASE ~(from \in Places /\ PathExists(from))
  BY <1>2 DEF MoveIfThere, Placed
<1> QED
  BY <1>1, <1>2

\* permanently_delete and the cleanup empty at most one directory of the trash.
LEMMA RemoveSound ==
    ASSUME RegistryInv, NEW p \in Hubs, NEW i \in Agents, Remove(p, i)
    PROVE  /\ memory' \in [Hubs -> [Agents -> Entry]]
           /\ \A q \in Hubs : SoundTable(memory'[q])
           /\ unsaved' \subseteq Hubs
           /\ dirAt' \in [Places -> SUBSET Dirs]
           /\ KeptOrTrash
<1> DEFINE path == memory[p][i].path
           e == [status |-> "deleted", path |-> memory[p][i].path,
                 stamp |-> memory[p][i].stamp, restored |-> memory[p][i].restored]
<1>1. path \in TrashTops
  BY DEF RegistryInv, SoundTable, Remove
<1>2. memory[p][i] \in Entry
  BY DEF RegistryInv, SoundTable
<1>3. e \in Entry /\ e.status = "deleted"
  BY <1>2 DEF Entry, Statuses
<1>4. SoundTable([memory[p] EXCEPT ![i] = e])
  BY <1>3, EntryPlaced DEF RegistryInv
<1>5. Change(p, [memory[p] EXCEPT ![i] = e])
  BY DEF Remove
<1>6. dirAt \in [Places -> SUBSET Dirs]
  BY DEF RegistryInv, RegistryTypeOK
<1>7. PICK gone \in SUBSET {q \in Places : Under(q, path)} :
          dirAt' = [q \in Places |-> IF q \in gone THEN {} ELSE dirAt[q]]
  BY DEF Remove
<1> HIDE DEF path, e
<1>8. dirAt' \in [Places -> SUBSET Dirs]
  BY <1>6, <1>7
<1>9. ASSUME NEW d \in Placed
      PROVE  d \in Placed' \/ InTrash(d)
  <2>1. PICK pl \in Places : d \in dirAt[pl]
    BY <1>9 DEF Placed
  <2>2. CASE pl \in gone
    <3>1. pl \in TrashPlaces
      BY <1>1, <1>7, <2>2, PlacesKnown
    <3> QED
      BY <2>1, <3>1 DEF InTrash
  <2>3. CASE pl \notin gone
    BY <1>6, <1>7, <2>1, <2>3 DEF Placed
  <2> QED
    BY <2>2, <2>3
<1> QED
  BY <1>4, <1>5, <1>8, <1>9, ChangeSound DEF KeptOrTrash

\* What is left to show of a step that changes the copies soundly.
LEMMA StepSound ==
    ASSUME RegistryInv,
           memory' \in [Hubs -> [Agents -> Entry]],
           \A q \in Hubs : SoundTable(memory'[q]),
           SoundTable(onDisk'),
           running' \subseteq Hubs, unsaved' \subseteq Hubs,
           doomed' \in [Hubs -> SUBSET Agents],
           dirAt' \in [Places -> SUBSET Dirs],
           issued' \subseteq Agents, clock' \in 0..MaxClock, calls' \in 0..MaxCalls,
           known' \subseteq Dirs, carried' \subseteq Dirs, undisturbed' \in BOOLEAN
    PROVE  RegistryInv'
BY DEF RegistryInv, RegistryTypeOK, SoundTable

\* A directory that nobody moved or destroyed is kept.
LEMMA StillKept ==
    ASSUME UNCHANGED dirAt
    PROVE  KeptOrTrash
BY DEF KeptOrTrash, Placed

\* Requests count up to their bound.
LEMMA CalledBound ==
    ASSUME RegistryInv, NEW p, Called(p)
    PROVE  calls' \in 0..MaxCalls
BY RegistryAssumption DEF Called, RegistryInv, RegistryTypeOK

LEMMA CreateSound ==
    ASSUME RegistryInv, NEW p \in Hubs, NEW i \in Agents, NEW pl \in HomePlaces,
           CreateAgent(p, i, pl)
    PROVE  RegistryInv' /\ KeptOrTrash
<1>1. pl \in Places
  BY PlacesKnown
<1>2. PICK new \in {{d} : d \in Dirs \ (Placed \cup known)} \cup {{}} :
          dirAt' = [dirAt EXCEPT ![pl] = @ \cup new]
  BY DEF CreateAgent
<1>3. new \subseteq Dirs
  BY <1>2
<1>4. dirAt \in [Places -> SUBSET Dirs]
  BY DEF RegistryInv, RegistryTypeOK
<1>5. dirAt' \in [Places -> SUBSET Dirs]
  BY <1>2, <1>3, <1>4
<1>6. Placed \subseteq Placed'
  BY <1>2, <1>4, <1>5 DEF Placed
<1>7. SoundTable([memory[p] EXCEPT ![i] = NewEntry(pl)])
  BY <1>1, EntriesSound, EntryPlaced DEF RegistryInv
<1>8. Change(p, [memory[p] EXCEPT ![i] = NewEntry(pl)])
  BY DEF CreateAgent
<1>9. RegistryInv'
  BY <1>1, <1>5, <1>7, <1>8, ChangeSound, CalledBound, StepSound
     DEF CreateAgent, RegistryInv, RegistryTypeOK
<1> QED
  BY <1>6, <1>9 DEF KeptOrTrash

LEMMA ScanSound ==
    ASSUME RegistryInv, NEW p \in Hubs, NEW root \in Roots, Scan(p, root)
    PROVE  RegistryInv' /\ KeptOrTrash
<1>1. Unclaimed(p, root) \subseteq Places
  BY PlacesKnown DEF Unclaimed, Roots
<1>2. PICK ids \in [Unclaimed(p, root) -> Agents \ issued] :
          /\ issued' = issued \cup {ids[pl] : pl \in Unclaimed(p, root)}
          /\ Change(p, [i \in Agents |->
                IF \E pl \in Unclaimed(p, root) : ids[pl] = i
                THEN NewEntry(CHOOSE pl \in Unclaimed(p, root) : ids[pl] = i)
                ELSE memory[p][i]])
  BY DEF Scan
<1> DEFINE Scanned(i) == CHOOSE pl \in Unclaimed(p, root) : ids[pl] = i
           table == [i \in Agents |->
                IF \E pl \in Unclaimed(p, root) : ids[pl] = i
                THEN NewEntry(Scanned(i)) ELSE memory[p][i]]
<1>3. SoundTable(table)
  <2>1. ASSUME NEW i \in Agents
        PROVE  table[i] \in Entry /\ (table[i].status = "trashed" => table[i].path \in TrashTops)
    <3>1. CASE \E pl \in Unclaimed(p, root) : ids[pl] = i
      <4>1. Scanned(i) \in Unclaimed(p, root)
        BY <3>1
      <4>2. Scanned(i) \in Places
        BY <1>1, <4>1
      <4>3. table[i] = NewEntry(Scanned(i))
        BY <3>1
      <4> HIDE DEF Scanned, table
      <4> QED
        BY <4>2, <4>3, EntriesSound
    <3>2. CASE ~\E pl \in Unclaimed(p, root) : ids[pl] = i
      BY <3>2 DEF RegistryInv, SoundTable
    <3> QED
      BY <3>1, <3>2
  <2> QED
    BY <2>1 DEF SoundTable
<1>4. Change(p, table)
  BY <1>2
<1> HIDE DEF table
<1>5. issued' \subseteq Agents
  BY <1>2 DEF RegistryInv, RegistryTypeOK
<1>6. UNION {dirAt[pl] : pl \in Unclaimed(p, root)} \subseteq Dirs
  BY <1>1 DEF RegistryInv, RegistryTypeOK
<1>7. known' \subseteq Dirs
  BY <1>6 DEF Scan, RegistryInv, RegistryTypeOK
<1>8. RegistryInv'
  BY <1>3, <1>4, <1>5, <1>7, ChangeSound, CalledBound, StepSound
     DEF Scan, RegistryInv, RegistryTypeOK
<1> QED
  BY <1>8, StillKept DEF Scan

LEMMA TrashSound ==
    ASSUME RegistryInv, NEW p \in Hubs, NEW i \in Agents, TrashAgent(p, i)
    PROVE  RegistryInv' /\ KeptOrTrash
<1> DEFINE e == [status |-> "trashed", path |-> Trash(i, clock), stamp |-> clock,
                 restored |-> memory[p][i].restored]
<1>1. /\ clock \in 0..MaxClock /\ Trash(i, clock) \in TrashTops
      /\ Trash(i, clock) \in Tops /\ Trash(i, clock) \in Places
  BY PlacesKnown DEF RegistryInv, RegistryTypeOK
<1>2. memory[p][i].restored \in BOOLEAN
  BY DEF RegistryInv, SoundTable, Entry
<1>3. e \in Entry
  BY <1>1, <1>2 DEF Entry, Statuses
<1>4. e.path \in TrashTops
  BY <1>1
<1>5. Change(p, [memory[p] EXCEPT ![i] = e])
  BY DEF TrashAgent
<1> HIDE DEF e
<1>6. SoundTable([memory[p] EXCEPT ![i] = e])
  BY <1>3, <1>4, EntryPlaced DEF RegistryInv
<1>7. dirAt' \in [Places -> SUBSET Dirs] /\ carried' \subseteq Dirs /\ Placed \subseteq Placed'
  BY <1>1, MoveKeepsTable DEF TrashAgent, RegistryInv, RegistryTypeOK
<1>8. RegistryInv'
  BY <1>5, <1>6, <1>7, ChangeSound, CalledBound, StepSound
     DEF TrashAgent, RegistryInv, RegistryTypeOK
<1> QED
  BY <1>7, <1>8 DEF KeptOrTrash

LEMMA RestoreSound ==
    ASSUME RegistryInv, NEW p \in Hubs, NEW i \in Agents, RestoreAgent(p, i)
    PROVE  RegistryInv' /\ KeptOrTrash
<1>1. PICK c \in 0..MaxCopies :
        /\ MoveIfThere(memory[p][i].path, Work(memory[p][i].stamp, c))
        /\ Change(p, [memory[p] EXCEPT ![i] =
               [status |-> "active", path |-> Work(memory[p][i].stamp, c),
                stamp |-> memory[p][i].stamp, restored |-> TRUE]])
  BY DEF RestoreAgent
<1> DEFINE e == [status |-> "active", path |-> Work(memory[p][i].stamp, c),
                 stamp |-> memory[p][i].stamp, restored |-> TRUE]
<1>2. memory[p][i].stamp \in 0..MaxClock
  BY DEF RegistryInv, SoundTable, Entry
<1>3. Work(memory[p][i].stamp, c) \in Places /\ Work(memory[p][i].stamp, c) \in Tops
  BY <1>2, PlacesKnown
<1>4. e \in Entry /\ e.status = "active"
  BY <1>2, <1>3 DEF Entry, Statuses
<1>5. Change(p, [memory[p] EXCEPT ![i] = e])
  BY <1>1
<1> HIDE DEF e
<1>6. SoundTable([memory[p] EXCEPT ![i] = e])
  BY <1>4, EntryPlaced DEF RegistryInv
<1>7. dirAt' \in [Places -> SUBSET Dirs] /\ carried' \subseteq Dirs /\ Placed \subseteq Placed'
  BY <1>1, <1>3, MoveKeepsTable DEF RegistryInv, RegistryTypeOK
<1>8. RegistryInv'
  BY <1>5, <1>6, <1>7, ChangeSound, CalledBound, StepSound
     DEF RestoreAgent, RegistryInv, RegistryTypeOK
<1> QED
  BY <1>7, <1>8 DEF KeptOrTrash

\* Deletions on request and by the cleanup of a starting process.
LEMMA DeletionSound ==
    ASSUME RegistryInv, NEW p \in Hubs, NEW i \in Agents,
           DeletePermanently(p, i) \/ CleanupTrash(p, i)
    PROVE  RegistryInv' /\ KeptOrTrash
<1>1. Remove(p, i)
  BY DEF DeletePermanently, CleanupTrash
<1>2. calls' \in 0..MaxCalls
  BY CalledBound DEF DeletePermanently, CleanupTrash, RegistryInv, RegistryTypeOK
<1>3. doomed' \in [Hubs -> SUBSET Agents]
  BY DEF DeletePermanently, CleanupTrash, RegistryInv, RegistryTypeOK
<1>4. UNCHANGED <<onDisk, running, issued, clock, known, carried, undisturbed>>
  BY DEF DeletePermanently, CleanupTrash, Remove
<1>5. /\ SoundTable(onDisk') /\ running' \subseteq Hubs /\ issued' \subseteq Agents
      /\ clock' \in 0..MaxClock /\ known' \subseteq Dirs /\ carried' \subseteq Dirs
      /\ undisturbed' \in BOOLEAN
  BY <1>4 DEF RegistryInv, RegistryTypeOK
<1>6. /\ memory' \in [Hubs -> [Agents -> Entry]]
      /\ \A q \in Hubs : SoundTable(memory'[q])
      /\ unsaved' \subseteq Hubs
      /\ dirAt' \in [Places -> SUBSET Dirs]
      /\ KeptOrTrash
  BY <1>1, RemoveSound
<1>7. RegistryInv'
  BY <1>2, <1>3, <1>5, <1>6, StepSound
<1> QED
  BY <1>6, <1>7

\* Saving, starting, dying: the file and the copies are sound tables of each other,
\* or empty.
LEMMA ProcessSound ==
    ASSUME RegistryInv, NEW p \in Hubs,
           Resave(p) \/ SaveRegistry(p) \/ StartHub(p) \/ HubDies(p)
    PROVE  RegistryInv' /\ KeptOrTrash
<1>1. UNCHANGED dirAt
  BY DEF Resave, SaveRegistry, StartHub, HubDies
<1>2. CASE Resave(p)
  <2>1. Change(p, memory[p]) /\ SoundTable(memory[p])
    BY <1>2 DEF Resave, RegistryInv
  <2>2. RegistryInv'
    BY <1>2, <2>1, ChangeSound, CalledBound, StepSound DEF Resave, RegistryInv, RegistryTypeOK
  <2> QED
    BY <1>1, <2>2, StillKept
<1>3. CASE SaveRegistry(p)
  <2>1. SoundTable(onDisk')
    BY <1>3 DEF SaveRegistry, RegistryInv
  <2>2. RegistryInv'
    BY <1>3, <2>1, StepSound DEF SaveRegistry, RegistryInv, RegistryTypeOK
  <2> QED
    BY <1>1, <2>2, StillKept
<1>4. CASE StartHub(p)
  <2>1. memory' \in [Hubs -> [Agents -> Entry]] /\ \A q \in Hubs : SoundTable(memory'[q])
    BY <1>4 DEF StartHub, RegistryInv, RegistryTypeOK
  <2>2. doomed' \in [Hubs -> SUBSET Agents]
    BY <1>4 DEF StartHub, Expired, RegistryInv, RegistryTypeOK
  <2>3. undisturbed' \in BOOLEAN
    BY <1>4 DEF StartHub, RegistryInv, RegistryTypeOK
  <2> QED
    BY <1>1, <1>4, <2>1, <2>2, <2>3, StepSound, StillKept DEF StartHub, RegistryInv, RegistryTypeOK
<1>5. CASE HubDies(p)
  <2>1. memory' \in [Hubs -> [Agents -> Entry]] /\ \A q \in Hubs : SoundTable(memory'[q])
    <3>1. SoundTable(NoAgents) /\ NoAgents \in [Agents -> Entry]
      BY EntriesSound DEF SoundTable
    <3> QED
      BY <1>5, <3>1 DEF HubDies, RegistryInv, RegistryTypeOK
  <2>2. SoundTable(onDisk')
    BY <1>5, EntriesSound DEF HubDies, RegistryInv
  <2>3. doomed' \in [Hubs -> SUBSET Agents]
    BY <1>5 DEF HubDies, RegistryInv, RegistryTypeOK
  <2>4. undisturbed' \in BOOLEAN
    BY <1>5 DEF HubDies, RegistryInv, RegistryTypeOK
  <2> QED
    BY <1>1, <1>5, <2>1, <2>2, <2>3, <2>4, StepSound, StillKept DEF HubDies, RegistryInv, RegistryTypeOK
<1> QED
  BY <1>1, <1>2, <1>3, <1>4, <1>5, StillKept

\* Every step of the registry.
LEMMA RegistryStep ==
    ASSUME RegistryInv, [RegistryNext]_registryVars
    PROVE  RegistryInv' /\ KeptOrTrash
<1>1. CASE ClockTicks
  <2>1. clock' \in 0..MaxClock
    BY <1>1, RegistryAssumption DEF ClockTicks, RegistryInv, RegistryTypeOK
  <2> QED
    BY <1>1, <2>1, StepSound, StillKept DEF ClockTicks, RegistryInv, RegistryTypeOK
<1>2. CASE UNCHANGED registryVars
  BY <1>2, StepSound, StillKept DEF registryVars, RegistryInv, RegistryTypeOK
<1>3. ASSUME NEW p \in Hubs, HubStep(p)
      PROVE  RegistryInv' /\ KeptOrTrash
  BY <1>3, CreateSound, ScanSound, TrashSound, RestoreSound, DeletionSound, ProcessSound
     DEF HubStep
<1> QED
  BY <1>1, <1>2, <1>3 DEF RegistryNext

\* The first registry is sound.
LEMMA RegistryInitSound == RegistryInit => RegistryInv
<1> SUFFICES ASSUME RegistryInit PROVE RegistryInv
  OBVIOUS
<1>1. SoundTable(NoAgents) /\ NoAgents \in [Agents -> Entry]
  BY EntriesSound DEF SoundTable
<1>2. dirAt \in [Places -> SUBSET Dirs]
  <2>1. PICK start \in [HomePlaces -> {{}} \cup {{d} : d \in Dirs}] :
            dirAt = [pl \in Places |-> IF pl \in HomePlaces THEN start[pl] ELSE {}]
    BY DEF RegistryInit
  <2>2. \A pl \in HomePlaces : start[pl] \subseteq Dirs
    BY <2>1
  <2> QED
    BY <2>1, <2>2
<1> QED
  BY <1>1, <1>2, RegistryAssumption DEF RegistryInit, RegistryInv, RegistryTypeOK

\* swarm/registry.py, however many processes share the file, die over it or leave it
\* half written: permanently_delete and the cleanup remove a directory only from the
\* trash, never from a place where an agent works.
THEOREM TrashedBeforeDestroyed == RegistrySpec => DestroyedOnlyFromTrash
<1>1. RegistryInv /\ [RegistryNext]_registryVars => RegistryInv'
  BY RegistryStep
<1>2. RegistryInv /\ [RegistryNext]_registryVars
        => [\A d \in Placed : d \in Placed' \/ InTrash(d)]_registryVars
  BY RegistryStep DEF KeptOrTrash
<1> QED
  BY RegistryInitSound, <1>1, <1>2, PTL DEF RegistrySpec, DestroyedOnlyFromTrash

-----------------------------------------------------------------------------
(* No agent is lost.                                                       *)

\* Every directory of K is where an entry of t says it is, or one of cs that lies inside
\* such a place; dirs gives the directories.
Claimed(t, K, dirs, cs) ==
    \A d \in K, pl \in Places :
        d \in dirs[pl] =>
            \E i \in Agents : t[i].path = pl \/ (d \in cs /\ Under(pl, t[i].path))

\* A directory is at one place only.
Apart(dirs) == \A a, b \in Places : a # b => dirs[a] \cap dirs[b] = {}

\* No copy has an entry under an id that was not handed out.
Unused(t) == \A i \in Agents \ issued : t[i] = Absent

\* What the copy that counts has to do with the file and with the directories, as long
\* as nobody died over an operation and no two processes ran at once.
Orderly ==
    /\ \A p, q \in running : p = q
    /\ \A p \in running \ unsaved : memory[p] = onDisk
    /\ running = {} => Claimed(onDisk, known, dirAt, carried)
    /\ \A p \in running : Claimed(memory[p], known, dirAt, carried)

LossInv ==
    /\ RegistryInv
    /\ Apart(dirAt)
    /\ Unused(onDisk) /\ \A p \in Hubs : Unused(memory[p])
    /\ undisturbed => Orderly

\* The places that a step of one process leaves in order: it changes its own copy, which
\* claims all that is known afterwards.
LEMMA ChangeOrderly ==
    ASSUME LossInv, RegistryInv', NEW p \in running, NEW t, Change(p, t),
           UNCHANGED <<running, onDisk, undisturbed>>,
           Apart(dirAt'), issued \subseteq issued',
           \A i \in Agents \ issued' : t[i] = Absent,
           undisturbed => Claimed(t, known', dirAt', carried')
    PROVE  LossInv'
<1>1. p \in Hubs /\ memory \in [Hubs -> [Agents -> Entry]]
  BY DEF LossInv, RegistryInv, RegistryTypeOK
<1>2. memory' = [memory EXCEPT ![p] = t] /\ unsaved' = unsaved \cup {p}
  BY DEF Change
<1>3. memory'[p] = t /\ \A q \in Hubs \ {p} : memory'[q] = memory[q]
  BY <1>1, <1>2
<1>4. Unused(onDisk)' /\ \A q \in Hubs : Unused(memory[q])'
  BY <1>3 DEF LossInv, Unused
<1>5. ASSUME undisturbed
      PROVE  Orderly'
  <2>1. \A q \in running : q = p
    BY <1>5 DEF LossInv, Orderly
  <2>2. running' \ unsaved' = {}
    BY <1>2, <2>1
  <2> QED
    BY <1>3, <1>5, <2>1, <2>2 DEF Orderly
<1> QED
  BY <1>4, <1>5 DEF LossInv

\* A new entry e in a copy that claims what is known: each directory is where e says, or
\* carried to inside that place, or it stayed where the entries that are left claim it.
LEMMA PutClaims ==
    ASSUME NEW t \in [Agents -> Entry], NEW i \in Agents, NEW e, NEW K,
           NEW dirs, NEW to, NEW cs, NEW cs2,
           Claimed(t, K, dirs, cs),
           \A d \in K, pl \in Places :
               d \in to[pl] =>
                   \/ pl = e.path
                   \/ d \in cs2 /\ Under(pl, e.path)
                   \/ /\ d \in dirs[pl]
                      /\ d \in cs => d \in cs2
                      /\ ~Under(pl, t[i].path) \/ t[i].path = e.path
    PROVE  Claimed([t EXCEPT ![i] = e], K, to, cs2)
<1> DEFINE u == [t EXCEPT ![i] = e]
<1>1. u[i] = e /\ \A j \in Agents \ {i} : u[j] = t[j]
  OBVIOUS
<1> HIDE DEF u
<1>2. ASSUME NEW d \in K, NEW pl \in Places, d \in to[pl]
      PROVE  \E j \in Agents : u[j].path = pl \/ (d \in cs2 /\ Under(pl, u[j].path))
  <2>1. CASE pl = e.path \/ (d \in cs2 /\ Under(pl, e.path))
    BY <1>1, <2>1
  <2>2. CASE /\ d \in dirs[pl]
             /\ d \in cs => d \in cs2
             /\ ~Under(pl, t[i].path) \/ t[i].path = e.path
    <3>1. PICK j \in Agents : t[j].path = pl \/ (d \in cs /\ Under(pl, t[j].path))
      BY <2>2 DEF Claimed
    <3>2. CASE j = i
      <4>1. Under(pl, t[i].path)
        BY <3>1, <3>2 DEF Under
      <4> QED
        BY <1>1, <2>2, <3>1, <3>2, <4>1
    <3>3. CASE j # i
      BY <1>1, <2>2, <3>1, <3>3
    <3> QED
      BY <3>2, <3>3
  <2> QED
    BY <1>2, <2>1, <2>2
<1> QED
  BY <1>2 DEF Claimed, u

\* What a move does to the directories: each one is now where the entry moved along
\* says, or inside that place, carried; or it was elsewhere and stayed there.
LEMMA MoveApart ==
    ASSUME dirAt \in [Places -> SUBSET Dirs], Apart(dirAt),
           NEW from \in Places \cup {Nowhere}, NEW to \in Tops, MoveIfThere(from, to)
    PROVE  /\ Apart(dirAt')
           /\ \A d \in Dirs, pl \in Places :
                  d \in dirAt'[pl] =>
                      \/ pl = to
                      \/ d \in carried' /\ Under(pl, to)
                      \/ /\ d \in dirAt[pl]
                         /\ d \in carried => d \in carried'
                         /\ ~Under(pl, from)
<1>1. CASE from \in Places /\ PathExists(from)
  <2>1. PICK into : /\ into = to \/ \E n \in Nested : into = Inner(to, n)
                    /\ Move(from, into)
    BY <1>1 DEF MoveIfThere
  <2>2. \A pl \in Places : \A d \in dirAt'[pl] :
            \E q \in Places : Moved(q, from, into) = pl /\ d \in dirAt[q]
    BY <2>1 DEF Move
  <2>3. Apart(dirAt')
    <3>1. ASSUME NEW a \in Places, NEW b \in Places, NEW d \in dirAt'[a], d \in dirAt'[b]
          PROVE  a = b
      <4>1. PICK q \in Places : Moved(q, from, into) = a /\ d \in dirAt[q]
        BY <2>2, <3>1
      <4>2. PICK r \in Places : Moved(r, from, into) = b /\ d \in dirAt[r]
        BY <2>2, <3>1
      <4>3. q = r
        BY <4>1, <4>2 DEF Apart
      <4> QED
        BY <4>1, <4>2, <4>3
    <3> QED
      BY <3>1 DEF Apart
  <2>4. ASSUME NEW d \in Dirs, NEW pl \in Places, d \in dirAt'[pl]
        PROVE  \/ pl = to
               \/ d \in carried' /\ Under(pl, to)
               \/ /\ d \in dirAt[pl]
                  /\ d \in carried => d \in carried'
                  /\ ~Under(pl, from)
    <3> DEFINE inside == UNION {dirAt[q] : q \in {r \in Places : Under(r, from) /\ r # from}}
    <3>1. PICK q \in Places : Moved(q, from, into) = pl /\ d \in dirAt[q]
      BY <2>2, <2>4
    <3>2. carried' = IF into \in Tops THEN (carried \ dirAt[from]) \cup inside
                     ELSE carried \cup dirAt[from] \cup inside
      BY <2>1 DEF Move
    <3>3. CASE ~Under(q, from)
      <4>1. pl = q
        BY <2>1, <3>1, <3>3, MovedWithin
      <4>2. q # from
        BY <3>3 DEF Under
      <4>3. d \notin dirAt[from]
        BY <1>1, <3>1, <4>2 DEF Apart
      <4> HIDE DEF inside
      <4> QED
        BY <3>1, <3>2, <3>3, <4>1, <4>3
    <3>4. CASE Under(q, from) /\ q # from
      <4>1. d \in inside
        BY <3>1, <3>4
      <4> HIDE DEF inside
      <4>2. d \in carried'
        BY <3>2, <4>1
      <4> QED
        BY <2>1, <3>1, <3>4, <4>2, MovedWithin
    <3>5. CASE q = from
      <4>1. pl = into
        BY <2>1, <3>1, <3>5, MovedWithin
      <4>2. CASE into = to
        BY <4>1, <4>2
      <4>3. CASE \E n \in Nested : into = Inner(to, n)
        <5>1. into \notin Tops
          BY <4>3 DEF Inner, Tops, HomeTops, TrashTops, WorkTops, Home, Trash, Work
        <5> HIDE DEF inside
        <5>2. d \in carried'
          BY <3>1, <3>2, <3>5, <5>1
        <5> QED
          BY <4>1, <4>3, <5>2 DEF Under
      <4> QED
        BY <2>1, <4>2, <4>3
    <3> QED
      BY <3>3, <3>4, <3>5
  <2> QED
    BY <2>3, <2>4
<1>2. CASE ~(from \in Places /\ PathExists(from))
  <2>1. dirAt' = dirAt /\ carried' = carried
    BY <1>2 DEF MoveIfThere
  <2>2. ASSUME NEW d \in Dirs, NEW pl \in Places, d \in dirAt[pl]
        PROVE  ~Under(pl, from)
    BY <1>2, <2>2, NothingNowhere DEF PathExists
  <2> QED
    BY <2>1, <2>2
<1> QED
  BY <1>1, <1>2

\* A registered process is called only when it is up.
LEMMA CalledRuns ==
    ASSUME NEW p, Called(p)
    PROVE  p \in running
BY DEF Called, Ready

LEMMA CreateKeeps ==
    ASSUME LossInv, RegistryInv', NEW p \in Hubs, NEW i \in Agents, NEW pl \in HomePlaces,
           CreateAgent(p, i, pl)
    PROVE  LossInv'
<1> DEFINE t == [memory[p] EXCEPT ![i] = NewEntry(pl)]
<1>1. p \in running /\ Change(p, t)
  BY CalledRuns DEF CreateAgent
<1>2. memory[p] \in [Agents -> Entry] /\ dirAt \in [Places -> SUBSET Dirs] /\ pl \in Places
  BY PlacesKnown DEF LossInv, RegistryInv, RegistryTypeOK
<1>3. i \notin issued /\ issued' = issued \cup {i} /\ known' = known \cup dirAt'[pl]
  BY DEF CreateAgent
<1>4. PICK new \in {{d} : d \in Dirs \ (Placed \cup known)} \cup {{}} :
          /\ (new = {}) <=> (dirAt[pl] # {})
          /\ dirAt' = [dirAt EXCEPT ![pl] = @ \cup new]
  BY DEF CreateAgent
<1>5. dirAt'[pl] = dirAt[pl] \cup new /\ \A q \in Places \ {pl} : dirAt'[q] = dirAt[q]
  BY <1>2, <1>4
<1>6. Apart(dirAt')
  <2>1. \A q \in Places : new \cap dirAt[q] = {}
    BY <1>4 DEF Placed
  <2> QED
    BY <1>5, <2>1 DEF LossInv, Apart
<1>7. \A j \in Agents \ issued' : t[j] = Absent
  BY <1>2, <1>3 DEF LossInv, Unused
<1>8. \A q \in Places : ~Under(q, memory[p][i].path)
  <2>1. memory[p][i] = Absent
    BY <1>3 DEF LossInv, Unused
  <2> QED
    BY <2>1, NothingNowhere DEF Absent
<1>9. ASSUME undisturbed
      PROVE  Claimed(t, known', dirAt', carried')
  <2>1. Claimed(memory[p], known, dirAt, carried)
    BY <1>1, <1>9 DEF LossInv, Orderly
  <2>2. carried' = carried
    BY DEF CreateAgent
  <2>3. NewEntry(pl).path = pl
    BY DEF NewEntry
  <2>4. \A d \in known, q \in Places : d \in dirAt'[q] => q = pl \/ d \in dirAt[q]
    BY <1>5
  <2>5. Claimed(t, known, dirAt', carried')
    BY <1>2, <1>8, <2>1, <2>2, <2>3, <2>4, PutClaims
  <2>6. t[i].path = pl
    BY <1>2, <2>3
  <2>7. Claimed(t, dirAt'[pl], dirAt', carried')
    BY <1>2, <1>6, <2>6 DEF Claimed, Apart
  <2> HIDE DEF t
  <2> QED
    BY <1>3, <2>5, <2>7 DEF Claimed
<1> HIDE DEF t
<1> QED
  BY <1>1, <1>3, <1>6, <1>7, <1>9, ChangeOrderly DEF CreateAgent

LEMMA ScanKeeps ==
    ASSUME LossInv, RegistryInv', NEW p \in Hubs, NEW root \in Roots, Scan(p, root)
    PROVE  LossInv'
<1> DEFINE U == Unclaimed(p, root)
<1>1. U \subseteq Places
  BY PlacesKnown DEF Unclaimed, Roots
<1>2. PICK ids \in [U -> Agents \ issued] :
          /\ \A x, y \in U : ids[x] = ids[y] => x = y
          /\ issued' = issued \cup {ids[pl] : pl \in U}
          /\ Change(p, [i \in Agents |->
                IF \E pl \in U : ids[pl] = i
                THEN NewEntry(CHOOSE pl \in U : ids[pl] = i)
                ELSE memory[p][i]])
  BY DEF Scan
<1> DEFINE t == [i \in Agents |->
                IF \E pl \in U : ids[pl] = i
                THEN NewEntry(CHOOSE pl \in U : ids[pl] = i) ELSE memory[p][i]]
<1>3. p \in running /\ Change(p, t)
  BY <1>2, CalledRuns DEF Scan
<1>4. /\ dirAt' = dirAt /\ carried' = carried
      /\ known' = known \cup UNION {dirAt[pl] : pl \in U}
  BY DEF Scan
<1> HIDE DEF U
<1>5. \A pl \in U : ids[pl] \in Agents /\ t[ids[pl]] = NewEntry(pl)
  BY <1>2
<1>6. \A j \in issued \cap Agents : t[j] = memory[p][j]
  BY <1>2
<1>7. \A j \in Agents \ issued' : t[j] = Absent
  BY <1>2 DEF LossInv, Unused
<1> HIDE DEF t
<1>8. ASSUME undisturbed
      PROVE  Claimed(t, known', dirAt', carried')
  <2>1. Claimed(memory[p], known, dirAt, carried)
    BY <1>3, <1>8 DEF LossInv, Orderly
  <2>2. ASSUME NEW d \in known', NEW pl \in Places, d \in dirAt[pl], pl \notin U
        PROVE  \E j \in Agents : t[j].path = pl \/ (d \in carried /\ Under(pl, t[j].path))
    <3>1. d \in known
      BY <1>1, <1>4, <2>2 DEF LossInv, Apart
    <3>2. PICK j \in Agents :
              memory[p][j].path = pl \/ (d \in carried /\ Under(pl, memory[p][j].path))
      BY <2>1, <2>2, <3>1 DEF Claimed
    <3>3. j \in issued
      <4>1. Under(pl, memory[p][j].path)
        BY <3>2 DEF Under
      <4>2. memory[p][j] # Absent
        BY <4>1, NothingNowhere DEF Absent
      <4> QED
        BY <4>2 DEF LossInv, Unused
    <3> QED
      BY <1>6, <3>2, <3>3
  <2>3. ASSUME NEW pl \in U
        PROVE  \E j \in Agents : t[j].path = pl
    <3>1. ids[pl] \in Agents /\ t[ids[pl]] = NewEntry(pl)
      BY <1>5
    <3>2. NewEntry(pl).path = pl
      BY DEF NewEntry
    <3> QED
      BY <3>1, <3>2
  <2> QED
    BY <1>4, <2>2, <2>3 DEF Claimed
<1> QED
  BY <1>2, <1>3, <1>4, <1>7, <1>8, ChangeOrderly DEF Scan, LossInv

\* trash_agent and restore_agent: the entry goes along with the directory.
LEMMA MoveAlong ==
    ASSUME LossInv, RegistryInv', NEW p \in Hubs, NEW i \in Agents, NEW e \in Entry,
           p \in running, i \in issued, e.path \in Tops,
           MoveIfThere(memory[p][i].path, e.path),
           Change(p, [memory[p] EXCEPT ![i] = e]),
           UNCHANGED <<onDisk, running, issued, known, undisturbed>>
    PROVE  LossInv'
<1> DEFINE t == [memory[p] EXCEPT ![i] = e]
<1>1. memory[p] \in [Agents -> Entry] /\ dirAt \in [Places -> SUBSET Dirs]
  BY DEF LossInv, RegistryInv, RegistryTypeOK
<1>2. memory[p][i].path \in Places \cup {Nowhere} /\ known \subseteq Dirs
  BY <1>1 DEF Entry, LossInv, RegistryInv, RegistryTypeOK
<1>3. /\ Apart(dirAt')
      /\ \A d \in Dirs, pl \in Places :
             d \in dirAt'[pl] =>
                 \/ pl = e.path
                 \/ d \in carried' /\ Under(pl, e.path)
                 \/ /\ d \in dirAt[pl]
                    /\ d \in carried => d \in carried'
                    /\ ~Under(pl, memory[p][i].path)
  BY <1>1, <1>2, MoveApart DEF LossInv
<1>4. \A j \in Agents \ issued' : t[j] = Absent
  BY <1>1 DEF LossInv, Unused
<1>5. ASSUME undisturbed
      PROVE  Claimed(t, known', dirAt', carried')
  <2>1. Claimed(memory[p], known, dirAt, carried)
    BY <1>5 DEF LossInv, Orderly
  <2> HIDE DEF t
  <2> QED
    BY <1>1, <1>2, <1>3, <2>1, PutClaims DEF t
<1> HIDE DEF t
<1> QED
  BY <1>3, <1>4, <1>5, ChangeOrderly DEF t

LEMMA TrashKeeps ==
    ASSUME LossInv, RegistryInv', NEW p \in Hubs, NEW i \in Agents, TrashAgent(p, i)
    PROVE  LossInv'
<1> DEFINE e == [status |-> "trashed", path |-> Trash(i, clock), stamp |-> clock,
                 restored |-> memory[p][i].restored]
<1>1. clock \in 0..MaxClock /\ Trash(i, clock) \in Tops /\ Trash(i, clock) \in Places
  BY PlacesKnown DEF LossInv, RegistryInv, RegistryTypeOK
<1>2. memory[p][i].restored \in BOOLEAN
  BY DEF LossInv, RegistryInv, SoundTable, Entry
<1>3. e \in Entry /\ e.path = Trash(i, clock)
  BY <1>1, <1>2 DEF Entry, Statuses
<1>4. Change(p, [memory[p] EXCEPT ![i] = e])
  BY DEF TrashAgent
<1> HIDE DEF e
<1>5. i \in issued
  BY DEF TrashAgent, LossInv, Unused, Absent
<1> QED
  BY <1>1, <1>3, <1>4, <1>5, CalledRuns, MoveAlong DEF TrashAgent

LEMMA RestoreKeeps ==
    ASSUME LossInv, RegistryInv', NEW p \in Hubs, NEW i \in Agents, RestoreAgent(p, i)
    PROVE  LossInv'
<1>1. PICK c \in 0..MaxCopies :
        /\ MoveIfThere(memory[p][i].path, Work(memory[p][i].stamp, c))
        /\ Change(p, [memory[p] EXCEPT ![i] =
               [status |-> "active", path |-> Work(memory[p][i].stamp, c),
                stamp |-> memory[p][i].stamp, restored |-> TRUE]])
  BY DEF RestoreAgent
<1> DEFINE e == [status |-> "active", path |-> Work(memory[p][i].stamp, c),
                 stamp |-> memory[p][i].stamp, restored |-> TRUE]
<1>2. memory[p][i].stamp \in 0..MaxClock
  BY DEF LossInv, RegistryInv, SoundTable, Entry
<1>3. Work(memory[p][i].stamp, c) \in Tops /\ Work(memory[p][i].stamp, c) \in Places
  BY <1>2, PlacesKnown
<1>4. e \in Entry /\ e.path = Work(memory[p][i].stamp, c)
  BY <1>2, <1>3 DEF Entry, Statuses
<1>5. Change(p, [memory[p] EXCEPT ![i] = e])
  BY <1>1
<1> HIDE DEF e
<1>6. i \in issued
  BY DEF RestoreAgent, LossInv, Unused, Absent
<1> QED
  BY <1>1, <1>3, <1>4, <1>5, <1>6, CalledRuns, MoveAlong DEF RestoreAgent

\* permanently_delete and the cleanup: the entry stays where it is.
LEMMA RemoveKeeps ==
    ASSUME LossInv, RegistryInv', NEW p \in Hubs, NEW i \in Agents,
           DeletePermanently(p, i) \/ CleanupTrash(p, i)
    PROVE  LossInv'
<1>1. Remove(p, i) /\ UNCHANGED <<onDisk, running, issued, known, undisturbed>>
  BY DEF DeletePermanently, CleanupTrash
<1> DEFINE path == memory[p][i].path
           e == [status |-> "deleted", path |-> memory[p][i].path,
                 stamp |-> memory[p][i].stamp, restored |-> memory[p][i].restored]
           t == [memory[p] EXCEPT ![i] = e]
<1>2. p \in running /\ Change(p, t)
  BY CalledRuns DEF DeletePermanently, CleanupTrash, Remove
<1>3. memory[p] \in [Agents -> Entry] /\ dirAt \in [Places -> SUBSET Dirs]
  BY DEF LossInv, RegistryInv, RegistryTypeOK
<1>4. carried' = carried /\ \A pl \in Places : dirAt'[pl] \subseteq dirAt[pl]
  BY <1>1, <1>3 DEF Remove
<1>5. Apart(dirAt')
  BY <1>4 DEF LossInv, Apart
<1>6. i \in issued
  BY <1>1 DEF Remove, LossInv, Unused, Absent
<1>7. \A j \in Agents \ issued' : t[j] = Absent
  BY <1>1, <1>3, <1>6 DEF LossInv, Unused
<1>8. e.path = path
  OBVIOUS
<1>9. ASSUME undisturbed
      PROVE  Claimed(t, known', dirAt', carried')
  <2>1. Claimed(memory[p], known, dirAt, carried)
    BY <1>2, <1>9 DEF LossInv, Orderly
  <2> HIDE DEF e
  <2> QED
    BY <1>1, <1>3, <1>4, <1>8, <2>1, PutClaims
<1> HIDE DEF t
<1> QED
  BY <1>1, <1>2, <1>5, <1>7, <1>9, ChangeOrderly

\* Saving, starting and dying change no directory; the copy that counts stays the same.
LEMMA ProcessKeeps ==
    ASSUME LossInv, RegistryInv', NEW p \in Hubs,
           Resave(p) \/ SaveRegistry(p) \/ StartHub(p) \/ HubDies(p)
    PROVE  LossInv'
<1>1. memory \in [Hubs -> [Agents -> Entry]] /\ running \subseteq Hubs
  BY DEF LossInv, RegistryInv, RegistryTypeOK
<1>2. CASE Resave(p)
  <2>1. p \in running /\ Change(p, memory[p])
    BY <1>2, CalledRuns DEF Resave
  <2>2. \A j \in Agents \ issued : memory[p][j] = Absent
    BY DEF LossInv, Unused
  <2>3. undisturbed => Claimed(memory[p], known, dirAt, carried)
    BY <2>1 DEF LossInv, Orderly
  <2> QED
    BY <1>2, <2>1, <2>2, <2>3, ChangeOrderly DEF Resave, LossInv
<1>3. CASE SaveRegistry(p)
  <2>1. Unused(onDisk)' /\ \A q \in Hubs : Unused(memory[q])'
    BY <1>3 DEF SaveRegistry, LossInv, Unused
  <2>2. undisturbed => Orderly'
    BY <1>3 DEF SaveRegistry, LossInv, Orderly
  <2> QED
    BY <1>3, <2>1, <2>2 DEF SaveRegistry, LossInv
<1>4. CASE StartHub(p)
  <2>1. \A q \in Hubs : memory'[q] = IF q = p THEN onDisk ELSE memory[q]
    BY <1>1, <1>4 DEF StartHub
  <2>2. Unused(onDisk)' /\ \A q \in Hubs : Unused(memory[q])'
    BY <1>4, <2>1 DEF StartHub, LossInv, Unused
  <2>3. undisturbed' => Orderly'
    BY <1>4, <2>1 DEF StartHub, LossInv, Orderly
  <2> QED
    BY <1>4, <2>2, <2>3 DEF StartHub, LossInv
<1>5. CASE HubDies(p)
  <2>1. \A q \in Hubs : memory'[q] = IF q = p THEN NoAgents ELSE memory[q]
    BY <1>1, <1>5 DEF HubDies
  <2>2. Unused(onDisk)' /\ \A q \in Hubs : Unused(memory[q])'
    BY <1>5, <2>1 DEF HubDies, LossInv, Unused, NoAgents
  <2>3. ASSUME undisturbed'
        PROVE  Orderly'
    <3>1. undisturbed /\ p \in running \ unsaved /\ onDisk' = onDisk
      BY <1>5, <2>3 DEF HubDies
    <3>2. Orderly
      BY <3>1 DEF LossInv
    <3>3. running' = {} /\ known' = known /\ dirAt' = dirAt /\ carried' = carried
      BY <1>5, <3>1, <3>2 DEF HubDies, Orderly
    <3>4. Claimed(onDisk, known, dirAt, carried)
      BY <3>1, <3>2 DEF Orderly
    <3> QED
      BY <3>1, <3>3, <3>4 DEF Orderly
  <2> QED
    BY <1>5, <2>2, <2>3 DEF HubDies, LossInv
<1> QED
  BY <1>2, <1>3, <1>4, <1>5

\* Every step of the registry keeps what it knows of the directories.
LEMMA LossInvStep ==
    ASSUME LossInv, [RegistryNext]_registryVars
    PROVE  LossInv'
<1>1. RegistryInv'
  BY RegistryStep DEF LossInv
<1>2. CASE ClockTicks \/ UNCHANGED registryVars
  BY <1>1, <1>2 DEF ClockTicks, registryVars, LossInv, Orderly, Unused
<1>3. ASSUME NEW p \in Hubs, HubStep(p)
      PROVE  LossInv'
  BY <1>1, <1>3, CreateKeeps, ScanKeeps, TrashKeeps, RestoreKeeps, RemoveKeeps, ProcessKeeps
     DEF HubStep
<1> QED
  BY <1>2, <1>3 DEF RegistryNext

LEMMA LossInitHolds == RegistryInit => LossInv
<1> SUFFICES ASSUME RegistryInit PROVE LossInv
  OBVIOUS
<1>1. PICK start \in [HomePlaces -> {{}} \cup {{d} : d \in Dirs}] :
        /\ \A x, y \in HomePlaces : x # y => start[x] \cap start[y] = {}
        /\ dirAt = [pl \in Places |-> IF pl \in HomePlaces THEN start[pl] ELSE {}]
  BY DEF RegistryInit
<1>2. Apart(dirAt)
  BY <1>1 DEF Apart
<1> QED
  BY <1>2, RegistryInitSound
     DEF RegistryInit, LossInv, Orderly, Unused, Claimed, NoAgents

\* swarm/registry.py: whatever is created, scanned, trashed, restored and deleted, and
\* however often the process is started anew, an agent's directory that was ever
\* registered is where an entry of the registry says, or was carried along inside a
\* directory that an entry names, as long as nobody died over an operation and no two
\* processes ran at once.
THEOREM AgentsAreFound == RegistrySpec => []NothingLost
<1>1. LossInv => NothingLost
  <2> SUFFICES ASSUME LossInv, undisturbed
               PROVE  Claimed(Current, known, dirAt, carried)
    BY DEF NothingLost, Claimed
  <2>1. running # {} => (CHOOSE p \in running : TRUE) \in running
    OBVIOUS
  <2> QED
    BY <2>1 DEF LossInv, Orderly, Current
<1>2. LossInv /\ [RegistryNext]_registryVars => LossInv'
  BY LossInvStep
<1> QED
  BY LossInitHolds, <1>1, <1>2, PTL DEF RegistrySpec

-----------------------------------------------------------------------------
(* The rate limits.                                                        *)

\* Requests are named in the order they come in, each at its time.
Numbered ==
    /\ \A s \in Stores, k \in Keys : served[s][k] \subseteq 1..made /\ hits[s][k] \subseteq 1..made
    /\ \A i \in 1..made : at[i] <= now

\* The table forgets no recent request it let through, but those it had no room for.
Remembered(s, k) ==
    k \notin evicted[s] => \A i \in served[s][k] : Recent(i) => i \in hits[s][k]

RateInv ==
    /\ RateLimitTypeOK
    /\ Numbered
    /\ \A s \in Stores, k \in Keys : Remembered(s, k)
    /\ ServedWithinLimit

\* What a table keeps of a key that is not among the dropped ones.
LEMMA KeptHits ==
    ASSUME RateInv, NEW s \in Stores, NEW E
    PROVE  /\ Pruned(s, E) \in [Keys -> SUBSET (1..made)]
           /\ \A k \in Keys \ E : Pruned(s, E)[k] = {i \in hits[s][k] : Recent(i)}
BY DEF RateInv, Numbered, RateLimitTypeOK, Pruned, Kept

\* The parts of a check: the request counts, whether it is let through or not.
LEMMA CheckParts ==
    ASSUME RateInv, NEW s \in Stores, NEW k \in Keys, NEW E \in SUBSET Keys,
           NEW times, times = Pruned(s, E)[k] \cup {made + 1},
           made < MaxHits, made' = made + 1,
           at' = [at EXCEPT ![made + 1] = now],
           hits' = [hits EXCEPT ![s] = [Pruned(s, E) EXCEPT ![k] = times]],
           evicted' = [evicted EXCEPT ![s] = @ \cup E],
           served' = IF Cardinality(times) > Limit[s] THEN served
                     ELSE [served EXCEPT ![s][k] = @ \cup {made + 1}],
           now' = now
    PROVE  RateInv'
<1> USE DEF Hits
<1>1. /\ made \in Nat /\ MaxHits \in Nat /\ made + 1 \in 1..MaxHits
      /\ 1..made \subseteq 1..MaxHits /\ made + 1 \notin 1..made
      /\ 1..(made + 1) = (1..made) \cup {made + 1}
  BY RateLimitAssumption DEF RateInv, RateLimitTypeOK
<1>2. now \in Nat /\ now \in 0..MaxTime /\ Window \in Nat /\ MaxTime \in Nat
  BY RateLimitAssumption DEF RateInv, RateLimitTypeOK
<1>3. at \in [1..MaxHits -> 0..MaxTime]
  BY DEF RateInv, RateLimitTypeOK
<1>4. /\ at' \in [1..MaxHits -> 0..MaxTime]
      /\ at'[made + 1] = now
      /\ \A i \in 1..made : at'[i] = at[i]
  BY <1>1, <1>2, <1>3
<1>5. /\ Pruned(s, E) \in [Keys -> SUBSET (1..made)]
      /\ \A j \in Keys \ E : Pruned(s, E)[j] = {i \in hits[s][j] : Recent(i)}
  BY KeptHits
<1>6. times \subseteq 1..(made + 1)
  BY <1>1, <1>5
<1>7. IsFiniteSet(times)
  <2>1. 1 \in Int /\ made + 1 \in Int
    BY <1>1
  <2>2. IsFiniteSet(1..(made + 1))
    BY <2>1, FS_Interval
  <2>3. times \in SUBSET (1..(made + 1))
    BY <1>6
  <2> QED
    BY <2>2, <2>3, FS_Subset
<1>8. /\ hits \in [Stores -> [Keys -> SUBSET (1..MaxHits)]]
      /\ served \in [Stores -> [Keys -> SUBSET (1..MaxHits)]]
      /\ evicted \in [Stores -> SUBSET Keys]
  BY DEF RateInv, RateLimitTypeOK
<1>9. \A q \in Stores, j \in Keys : served[q][j] \subseteq 1..made /\ hits[q][j] \subseteq 1..made
  BY DEF RateInv, Numbered
<1>10. /\ hits' \in [Stores -> [Keys -> SUBSET (1..MaxHits)]]
      /\ \A q \in Stores, j \in Keys : hits'[q][j] \subseteq 1..(made + 1)
  <2>1. [Pruned(s, E) EXCEPT ![k] = times] \in [Keys -> SUBSET (1..(made + 1))]
    BY <1>1, <1>5, <1>6
  <2>2. 1..(made + 1) \subseteq 1..MaxHits
    BY <1>1
  <2>3. [Pruned(s, E) EXCEPT ![k] = times] \in [Keys -> SUBSET (1..MaxHits)]
    BY <2>1, <2>2
  <2> QED
    BY <1>1, <1>8, <1>9, <2>1, <2>3
<1>11. /\ served' \in [Stores -> [Keys -> SUBSET (1..MaxHits)]]
       /\ \A q \in Stores, j \in Keys : served'[q][j] \subseteq 1..(made + 1)
       /\ \A q \in Stores, j \in Keys : <<q, j>> # <<s, k>> => served'[q][j] = served[q][j]
       /\ served'[s][k] \subseteq served[s][k] \cup {made + 1}
       /\ made + 1 \in served'[s][k] => Cardinality(times) <= Limit[s]
  <2>1. CASE Cardinality(times) > Limit[s]
    BY <1>1, <1>8, <1>9, <2>1
  <2>2. CASE ~(Cardinality(times) > Limit[s])
    <3>1. Limit[s] \in Nat /\ Cardinality(times) \in Nat
      <4>1. Cardinality(times) \in Nat
        BY <1>7, FS_CardinalityType
      <4>2. Limit[s] \in Nat
        BY RateLimitAssumption
      <4> QED
        BY <4>1, <4>2
    <3>2. Cardinality(times) <= Limit[s]
      BY <2>2, <3>1
    <3>3. served' = [served EXCEPT ![s] = [served[s] EXCEPT ![k] = served[s][k] \cup {made + 1}]]
      BY <2>2
    <3>4. served[s][k] \cup {made + 1} \in SUBSET (1..MaxHits)
      BY <1>1, <1>8
    <3> QED
      BY <1>1, <1>8, <1>9, <3>2, <3>3, <3>4
  <2> QED
    BY <2>1, <2>2
<1>12. RateLimitTypeOK'
  <2>1. evicted' \in [Stores -> SUBSET Keys]
    BY <1>8
  <2> QED
    BY <1>1, <1>2, <1>4, <1>10, <1>11, <2>1 DEF RateLimitTypeOK
<1>13. Numbered'
  <2>1. \A i \in 1..made : at[i] <= now
    BY DEF RateInv, Numbered
  <2>2. \A i \in 1..(made + 1) : at'[i] <= now
    BY <1>1, <1>2, <1>4, <2>1
  <2> QED
    BY <1>10, <1>11, <2>2 DEF Numbered
<1>14. ASSUME NEW q \in Stores, NEW j \in Keys
       PROVE  Remembered(q, j)'
  <2> SUFFICES ASSUME j \notin evicted'[q], NEW i \in served'[q][j], now - at'[i] < Window
               PROVE  i \in hits'[q][j]
    BY DEF Remembered, Recent
  <2>1. CASE i = made + 1
    <3>1. q = s /\ j = k
      BY <1>1, <1>9, <1>11, <2>1
    <3> QED
      BY <1>5, <1>8, <2>1, <3>1
  <2>2. CASE i # made + 1
    <3>1. i \in served[q][j] /\ i \in 1..made
      BY <1>1, <1>9, <1>11, <2>2
    <3>2. Recent(i) /\ j \notin evicted[q]
      BY <1>4, <1>8, <3>1 DEF Recent
    <3>3. i \in hits[q][j]
      BY <3>1, <3>2 DEF RateInv, Remembered
    <3>4. CASE q # s
      BY <1>8, <3>3, <3>4
    <3>5. CASE q = s
      <4>1. j \notin E
        BY <1>8, <3>5
      <4>2. i \in Pruned(s, E)[j]
        BY <1>5, <3>2, <3>3, <3>5, <4>1
      <4> QED
        BY <1>5, <1>8, <3>5, <4>2
    <3> QED
      BY <3>4, <3>5
  <2> QED
    BY <2>1, <2>2
<1>15. ServedWithinLimit'
  <2> SUFFICES ASSUME NEW q \in Stores, NEW j \in Keys, NEW from \in 0..MaxTime,
                      j \notin evicted'[q]
               PROVE  Cardinality({i \in served'[q][j] : at'[i] >= from /\ at'[i] < from + Window})
                        <= Limit[q]
    BY DEF ServedWithinLimit, ServedIn
  <2> DEFINE Earlier == {i \in served[q][j] : at[i] >= from /\ at[i] < from + Window}
             After  == {i \in served'[q][j] : at'[i] >= from /\ at'[i] < from + Window}
  <2>1. j \notin evicted[q]
    BY <1>8
  <2>2. Cardinality(Earlier) <= Limit[q]
    BY <2>1 DEF RateInv, ServedWithinLimit, ServedIn
  <2>3. CASE made + 1 \notin After
    <3>1. \A i \in served[q][j] : at'[i] = at[i]
      BY <1>4, <1>9
    <3>2. After \subseteq Earlier
      BY <1>11, <2>3, <3>1
    <3>3. IsFiniteSet(Earlier)
      <4>1. Earlier \in SUBSET (1..made)
        BY <1>9
      <4>2. IsFiniteSet(1..made)
        <5>1. 1 \in Int /\ made \in Int
          BY <1>1
        <5> QED
          BY <5>1, FS_Interval
      <4> HIDE DEF Earlier
      <4> QED
        BY <4>1, <4>2, FS_Subset
    <3>4. Cardinality(After) <= Cardinality(Earlier) /\ IsFiniteSet(After)
      BY <3>2, <3>3, FS_Subset
    <3>5. Cardinality(After) \in Nat /\ Cardinality(Earlier) \in Nat /\ Limit[q] \in Nat
      BY <3>3, <3>4, FS_CardinalityType, RateLimitAssumption
    <3> HIDE DEF Earlier, After
    <3>6. Cardinality(After) <= Limit[q]
      BY <2>2, <3>4, <3>5
    <3> QED
      BY <3>6 DEF After
  <2>4. CASE made + 1 \in After
    <3>1. q = s /\ j = k /\ Cardinality(times) <= Limit[s]
      BY <1>1, <1>9, <1>11, <2>4
    <3>2. now >= from /\ now < from + Window
      BY <1>4, <2>4
    <3>3. j \notin E
      BY <1>8, <3>1
    <3>4. ASSUME NEW i \in After
          PROVE  i \in times
      <4>1. CASE i = made + 1
        BY <4>1
      <4>2. CASE i # made + 1
        <5>1. i \in served[q][j] /\ i \in 1..made
          BY <1>1, <1>9, <1>11, <3>1, <4>2
        <5>2. at[i] >= from /\ at[i] \in Nat
          BY <1>1, <1>3, <1>4, <5>1
        <5>3. Recent(i)
          BY <1>2, <3>2, <5>2 DEF Recent
        <5>4. i \in hits[q][j]
          BY <2>1, <5>1, <5>3 DEF RateInv, Remembered
        <5> QED
          BY <1>5, <3>1, <3>3, <5>3, <5>4
      <4> QED
        BY <4>1, <4>2
    <3>5. IsFiniteSet(times)
      BY <1>7
    <3>6. Cardinality(After) <= Cardinality(times) /\ IsFiniteSet(After)
      BY <3>4, <3>5, FS_Subset
    <3>7. Cardinality(After) \in Nat /\ Cardinality(times) \in Nat /\ Limit[q] \in Nat
      BY <3>5, <3>6, FS_CardinalityType, RateLimitAssumption
    <3> HIDE DEF After
    <3>8. Cardinality(After) <= Limit[q]
      BY <3>1, <3>6, <3>7
    <3> QED
      BY <3>8 DEF After
  <2> QED
    BY <2>3, <2>4
<1> QED
  BY <1>12, <1>13, <1>14, <1>15 DEF RateInv

\* The background task.
LEMMA CleanupKeeps ==
    ASSUME RateInv, NEW s \in Stores, Cleanup(s)
    PROVE  RateInv'
<1>1. PICK E \in SUBSET Keys :
        /\ hits' = [hits EXCEPT ![s] = Pruned(s, E)]
        /\ evicted' = [evicted EXCEPT ![s] = @ \cup E]
  BY DEF Cleanup
<1>2. made' = made /\ at' = at /\ served' = served /\ now' = now
  BY DEF Cleanup
<1>3. /\ Pruned(s, E) \in [Keys -> SUBSET (1..made)]
      /\ \A j \in Keys \ E : Pruned(s, E)[j] = {i \in hits[s][j] : Recent(i)}
  BY KeptHits
<1>4. 1..made \subseteq 1..MaxHits
  BY RateLimitAssumption DEF RateInv, RateLimitTypeOK
<1>5. Pruned(s, E) \in [Keys -> SUBSET (1..MaxHits)]
  BY <1>3, <1>4
<1>6. hits' \in [Stores -> [Keys -> SUBSET (1..MaxHits)]]
  BY <1>1, <1>5 DEF RateInv, RateLimitTypeOK, Hits
<1>7. evicted' \in [Stores -> SUBSET Keys]
  BY <1>1 DEF RateInv, RateLimitTypeOK
<1>8. RateLimitTypeOK'
  BY <1>2, <1>6, <1>7 DEF RateInv, RateLimitTypeOK, Hits
<1>9. Numbered'
  <2>1. \A q \in Stores, k \in Keys : hits'[q][k] \subseteq 1..made
    BY <1>1, <1>3 DEF RateInv, RateLimitTypeOK, Numbered
  <2> QED
    BY <1>2, <2>1 DEF RateInv, Numbered
<1>10. ASSUME NEW q \in Stores, NEW j \in Keys
       PROVE  Remembered(q, j)'
  <2>1. CASE q # s
    BY <1>1, <1>2, <2>1 DEF RateInv, RateLimitTypeOK, Remembered, Recent
  <2>2. CASE q = s
    BY <1>1, <1>2, <1>3, <2>2 DEF RateInv, RateLimitTypeOK, Remembered, Recent
  <2> QED
    BY <2>1, <2>2
<1>11. ServedWithinLimit'
  BY <1>1, <1>2 DEF RateInv, RateLimitTypeOK, ServedWithinLimit, ServedIn
<1> QED
  BY <1>8, <1>9, <1>10, <1>11 DEF RateInv

\* Requests only get older.
LEMMA TimeKeeps ==
    ASSUME RateInv, TimePasses
    PROVE  RateInv'
<1>1. now \in Nat /\ now' = now + 1 /\ now' \in 0..MaxTime
  BY RateLimitAssumption DEF RateInv, RateLimitTypeOK, TimePasses
<1>2. /\ hits' = hits /\ made' = made /\ at' = at
      /\ served' = served /\ evicted' = evicted
  BY DEF TimePasses
<1>3. \A i \in Hits : at[i] \in Nat
  BY RateLimitAssumption DEF RateInv, RateLimitTypeOK
<1>4. RateLimitTypeOK'
  BY <1>1, <1>2 DEF RateInv, RateLimitTypeOK
<1>5. Numbered'
  <2>1. 1..made \subseteq Hits
    BY RateLimitAssumption DEF RateInv, RateLimitTypeOK, Hits
  <2> QED
    BY <1>1, <1>2, <1>3, <2>1 DEF RateInv, Numbered
<1>6. ASSUME NEW s \in Stores, NEW k \in Keys
      PROVE  Remembered(s, k)'
  <2>1. \A i \in served[s][k] : i \in Hits
    BY DEF RateInv, RateLimitTypeOK
  <2>2. \A i \in Hits : now' - at[i] < Window => now - at[i] < Window
    BY <1>1, <1>3, RateLimitAssumption
  <2>3. Remembered(s, k)
    BY DEF RateInv
  <2> QED
    BY <1>2, <2>1, <2>2, <2>3 DEF Remembered, Recent
<1>7. ServedWithinLimit'
  BY <1>2 DEF RateInv, ServedWithinLimit, ServedIn
<1> QED
  BY <1>4, <1>5, <1>6, <1>7 DEF RateInv

\* Nothing is served at first.
LEMMA RateInitHolds == RateLimitInit => RateInv
<1> SUFFICES ASSUME RateLimitInit PROVE RateInv
  OBVIOUS
<1>1. RateLimitTypeOK
  BY RateLimitAssumption DEF RateLimitInit, RateLimitTypeOK, NoHits
<1>2. \A s \in Stores, k \in Keys : served[s][k] = {} /\ hits[s][k] = {}
  BY DEF RateLimitInit, NoHits
<1>3. made = 0
  BY DEF RateLimitInit
<1>4. Numbered /\ \A s \in Stores, k \in Keys : Remembered(s, k)
  BY <1>2, <1>3 DEF Numbered, Remembered
<1>5. ServedWithinLimit
  <2>1. ASSUME NEW s \in Stores, NEW k \in Keys, NEW from \in 0..MaxTime
        PROVE  Cardinality(ServedIn(s, k, from)) <= Limit[s]
    <3>1. ServedIn(s, k, from) = {}
      BY <1>2 DEF ServedIn
    <3>2. Limit[s] \in Nat
      BY RateLimitAssumption
    <3> QED
      BY <3>1, <3>2, FS_EmptySet
  <2> QED
    BY <2>1 DEF ServedWithinLimit
<1> QED
  BY <1>1, <1>4, <1>5 DEF RateInv

\* Every step of the application, and of time.
LEMMA RateInvStep ==
    ASSUME RateInv, [RateLimitNext]_rateVars
    PROVE  RateInv'
<1>1. ASSUME NEW s \in Stores, NEW k \in Keys, Check(s, k)
      PROVE  RateInv'
  <2>1. PICK E \in SUBSET Keys :
          LET times == Pruned(s, E)[k] \cup {made + 1} IN
          /\ hits' = [hits EXCEPT ![s] = [Pruned(s, E) EXCEPT ![k] = times]]
          /\ evicted' = [evicted EXCEPT ![s] = @ \cup E]
          /\ served' = IF Cardinality(times) > Limit[s] THEN served
                       ELSE [served EXCEPT ![s][k] = @ \cup {made + 1}]
    BY <1>1 DEF Check
  <2> QED
    BY <1>1, <2>1, CheckParts DEF Check
<1>2. ASSUME NEW s \in Stores, Cleanup(s)
      PROVE  RateInv'
  BY <1>2, CleanupKeeps
<1>3. CASE TimePasses
  BY <1>3, TimeKeeps
<1>4. CASE UNCHANGED rateVars
  BY <1>4 DEF rateVars, RateInv, RateLimitTypeOK, Numbered, Remembered, Recent,
             ServedWithinLimit, ServedIn
<1> QED
  BY <1>1, <1>2, <1>3, <1>4 DEF RateLimitNext

\* app/web.py _check_rate_limit: in no window of time, wherever it starts, are more
\* requests of a key let through than the limit allows, whatever the checks and
\* cleanups of other keys do; but for a key whose times were dropped from a full table.
THEOREM LimitIsKept == RateLimitSpec => []ServedWithinLimit
<1>1. RateInv /\ [RateLimitNext]_rateVars => RateInv'
  BY RateInvStep
<1>2. RateInv => ServedWithinLimit
  BY DEF RateInv
<1> QED
  BY RateInitHolds, <1>1, <1>2, PTL DEF RateLimitSpec

-----------------------------------------------------------------------------
(* Evaluation runs.                                                        *)

\* The steps after which an execution has written a file and is still at work.
WrittenBy(f) ==
    {"manifest", "attested", "published"}
        \cup (IF f = "manifest" THEN {} ELSE {"failures"})
        \cup (IF f \in {"manifest", "failures"} THEN {} ELSE {"specs"})
        \cup (IF f \in {"manifest", "failures", "specs"} THEN {} ELSE {"report"})
        \cup (IF f = "contract" THEN {"contract", "ran"} ELSE {})

Undivided(d) == d \notin overlapped

\* Nobody else is at work in an undivided directory, ...
OneAtWork ==
    \A e, o \in Executions :
        Active(e) /\ Active(o) /\ runDir[e] = runDir[o] /\ Undivided(runDir[e]) => e = o

\* ... so that what an execution wrote there is there,
WorkInPlace(e) ==
    /\ Active(e) => runDir[e] \in RunDirs
    /\ Active(e) /\ Undivided(runDir[e]) =>
          \A f \in Artifacts : progress[e] \in WrittenBy(f) => file[runDir[e]][f] = e

\* and the contract that its manifest found is its own.
OwnEvidence(e) == Undivided(runDir[e]) => evidence[e] \in {Missing, e}

Beginning(e) ==
    /\ progress[e] = "new" => evidence[e] = Missing
                              /\ \A d \in RunDirs, f \in Files : file[d][f] # e
    /\ progress[e] # "new" => agreed[e] \in Suites
    /\ executed[e] \in Suites => outcome[e] \in OutcomesOf[executed[e]]

\* A directory has the files of executions that ran in it, and an attestation names
\* the files of one.
OwnFiles(d) ==
    /\ \A f \in Files : file[d][f] \in Executions => runDir[file[d][f]] = d
    /\ attested[d]["manifest"] \in Executions /\ Undivided(d) =>
          \A f \in Artifacts : attested[d][f] = attested[d]["manifest"]

EvalInv ==
    /\ EvalTypeOK
    /\ OneAtWork
    /\ \A e \in Executions : WorkInPlace(e) /\ OwnEvidence(e) /\ Beginning(e)
    /\ \A d \in RunDirs : OwnFiles(d)

\* What the parts of the invariant depend on.
LEMMA FilesKnown ==
    /\ Artifacts \subseteq Files
    /\ {"contract", "report", "specs", "failures", "manifest"} \subseteq Files
    /\ Executions \subseteq Writers /\ Missing \in Writers /\ Torn \in Writers
    /\ Missing \notin Executions /\ Torn \notin Executions
    /\ \A f \in Verdicts : f \in Files /\ f \notin Artifacts
BY WritersAssumption DEF Artifacts, Files, Verdicts, Writers

LEMMA SuitesKnown == 0 \notin Suites /\ Versions \subseteq Suites /\ BuiltinSuite \in Suites
BY EvalAssumption DEF Suites, Versions, BuiltinSuite

\* An execution starts: another one at work in the directory divides it.
LEMMA ContractsKeep ==
    ASSUME EvalInv, NEW e \in Executions, NEW d \in RunDirs, NEW s \in Suites,
           Contracts(e, d, s)
    PROVE  EvalInv'
<1> USE FilesKnown
<1>1. /\ progress[e] = "new"
      /\ progress' = [progress EXCEPT ![e] = "contract"]
      /\ runDir' = [runDir EXCEPT ![e] = d]
      /\ agreed' = [agreed EXCEPT ![e] = s]
      /\ file' = [file EXCEPT ![d]["contract"] = e]
      /\ overlapped \subseteq overlapped'
      /\ d \notin overlapped' => \A o \in Executions : Active(o) => runDir[o] # d
      /\ overlapped' \subseteq RunDirs
      /\ UNCHANGED <<suite, executed, outcome, evidence, attested, latest>>
  BY DEF Contracts, Advance, EvalInv, EvalTypeOK
<1>2. /\ \A o \in Executions \ {e} : progress'[o] = progress[o] /\ runDir'[o] = runDir[o]
                                      /\ agreed'[o] = agreed[o]
      /\ progress'[e] = "contract" /\ runDir'[e] = d /\ agreed'[e] = s
  BY <1>1 DEF EvalInv, EvalTypeOK
<1>3. /\ file' \in [RunDirs -> Snapshots]
      /\ file'[d]["contract"] = e
      /\ \A x \in RunDirs, f \in Files : <<x, f>> # <<d, "contract">> => file'[x][f] = file[x][f]
  BY <1>1 DEF EvalInv, EvalTypeOK, Snapshots
<1>4. EvalTypeOK'
  BY <1>1, <1>3 DEF EvalInv, EvalTypeOK, Steps
<1>5. OneAtWork'
  BY <1>1, <1>2 DEF EvalInv, OneAtWork, Active, Undivided
<1>6. ASSUME NEW o \in Executions
      PROVE  (WorkInPlace(o) /\ OwnEvidence(o) /\ Beginning(o))'
  <2>1. CASE o = e
    <3>1. WorkInPlace(e)'
      BY <1>2, <1>3 DEF WorkInPlace, WrittenBy, Artifacts
    <3>2. OwnEvidence(e)' /\ Beginning(e)'
      BY <1>1, <1>2 DEF EvalInv, Beginning, OwnEvidence
    <3> QED
      BY <2>1, <3>1, <3>2
  <2>2. CASE o # e
    <3>1. WorkInPlace(o)'
      BY <1>1, <1>2, <1>3, <2>2 DEF EvalInv, WorkInPlace, Undivided, Active
    <3>2. OwnEvidence(o)' /\ Beginning(o)'
      BY <1>1, <1>2, <1>3, <2>2 DEF EvalInv, Beginning, OwnEvidence, Undivided
    <3> QED
      BY <3>1, <3>2
  <2> QED
    BY <2>1, <2>2
<1>7. ASSUME NEW x \in RunDirs
      PROVE  OwnFiles(x)'
  <2>1. \A y \in RunDirs, f \in Files : file[y][f] # e
    BY <1>1 DEF EvalInv, Beginning
  <2> QED
    BY <1>1, <1>2, <1>3, <2>1 DEF EvalInv, OwnFiles, Undivided
<1> QED
  BY <1>4, <1>5, <1>6, <1>7 DEF EvalInv

\* The suite is run.
LEMMA RunsKeep ==
    ASSUME EvalInv, NEW e \in Executions, NEW s \in Suites, Runs(e, s)
    PROVE  EvalInv'
<1> USE FilesKnown
<1>1. PICK o \in OutcomesOf[s] : outcome' = [outcome EXCEPT ![e] = o]
  BY DEF Runs
<1>2. /\ progress[e] = "contract"
      /\ progress' = [progress EXCEPT ![e] = "ran"]
      /\ executed' = [executed EXCEPT ![e] = s]
      /\ UNCHANGED <<suite, runDir, agreed, evidence, file, attested, latest, overlapped>>
  BY DEF Runs, Advance
<1>3. o \in Outcomes
  BY DEF Outcomes
<1>4. EvalTypeOK'
  BY <1>1, <1>2, <1>3 DEF EvalInv, EvalTypeOK, Steps
<1>5. /\ progress'[e] = "ran" /\ executed'[e] = s /\ outcome'[e] = o
      /\ \A q \in Executions \ {e} : progress'[q] = progress[q] /\ executed'[q] = executed[q]
                                      /\ outcome'[q] = outcome[q]
  BY <1>1, <1>2 DEF EvalInv, EvalTypeOK
<1>6. \A q \in Executions : Active(q)' <=> Active(q)
  BY <1>2, <1>5 DEF Active
<1>7. OneAtWork'
  BY <1>2, <1>6 DEF EvalInv, OneAtWork, Undivided
<1>8. ASSUME NEW q \in Executions
      PROVE  (WorkInPlace(q) /\ OwnEvidence(q) /\ Beginning(q))'
  <2>1. \A f : progress'[q] \in WrittenBy(f) => progress[q] \in WrittenBy(f)
    BY <1>2, <1>5 DEF WrittenBy
  <2>2. WorkInPlace(q)'
    BY <1>2, <1>6, <2>1 DEF EvalInv, WorkInPlace, Undivided
  <2>3. OwnEvidence(q)'
    BY <1>2 DEF EvalInv, OwnEvidence, Undivided
  <2>4. Beginning(q)'
    BY <1>1, <1>2, <1>5 DEF EvalInv, Beginning
  <2> QED
    BY <2>2, <2>3, <2>4
<1>9. ASSUME NEW x \in RunDirs
      PROVE  OwnFiles(x)'
  BY <1>2 DEF EvalInv, OwnFiles, Undivided
<1> QED
  BY <1>4, <1>7, <1>8, <1>9 DEF EvalInv

\* An execution writes its next artifact.
LEMMA WritesKeep ==
    ASSUME EvalInv, NEW e \in Executions, NEW from \in {"ran", "report", "specs", "failures"},
           NEW to \in Artifacts, Advance(e, from, to), Writes(e, to),
           \A f \in Artifacts : to \in WrittenBy(f) => f = to \/ from \in WrittenBy(f),
           \/ UNCHANGED evidence
           \/ from \in WrittenBy("contract")
              /\ evidence' = [evidence EXCEPT ![e] = file[runDir[e]]["contract"]],
           to # "contract",
           UNCHANGED <<suite, runDir, agreed, executed, outcome, attested, latest, overlapped>>
    PROVE  EvalInv'
<1> USE FilesKnown
<1>1. /\ progress[e] = from
      /\ progress' = [progress EXCEPT ![e] = to]
      /\ Active(e) /\ Active(e)'
  BY DEF Advance, Active, Artifacts, EvalInv, EvalTypeOK
<1>2. runDir[e] \in RunDirs
  BY <1>1 DEF EvalInv, WorkInPlace
<1>3. /\ file' \in [RunDirs -> Snapshots]
      /\ file'[runDir[e]][to] = e
      /\ \A x \in RunDirs, f \in Files : <<x, f>> # <<runDir[e], to>> => file'[x][f] = file[x][f]
  BY <1>2 DEF Writes, EvalInv, EvalTypeOK, Snapshots
<1>4. /\ progress'[e] = to
      /\ \A q \in Executions \ {e} : progress'[q] = progress[q] /\ evidence'[q] = evidence[q]
      /\ \A q \in Executions : Active(q)' <=> Active(q)
  BY <1>1 DEF EvalInv, EvalTypeOK, Active
<1>5. evidence' \in [Executions -> Writers]
  BY <1>2 DEF EvalInv, EvalTypeOK, Snapshots
<1>6. EvalTypeOK'
  BY <1>1, <1>3, <1>5 DEF EvalInv, EvalTypeOK, Steps, Artifacts
<1>7. OneAtWork'
  BY <1>4 DEF EvalInv, OneAtWork, Undivided
<1>8. ASSUME NEW q \in Executions
      PROVE  (WorkInPlace(q) /\ OwnEvidence(q) /\ Beginning(q))'
  <2>1. WorkInPlace(q)'
    <3>1. CASE q = e
      BY <1>1, <1>2, <1>3, <1>4, <3>1 DEF EvalInv, WorkInPlace, Undivided
    <3>2. CASE q # e
      <4>1. Active(q) /\ Undivided(runDir[q]) => runDir[q] # runDir[e]
        BY <1>1, <3>2 DEF EvalInv, OneAtWork
      <4> QED
        BY <1>3, <1>4, <3>2, <4>1 DEF EvalInv, WorkInPlace, Undivided
    <3> QED
      BY <3>1, <3>2
  <2>2. OwnEvidence(q)'
    <3>1. Undivided(runDir[e]) /\ from \in WrittenBy("contract")
            => file[runDir[e]]["contract"] = e
      BY <1>1 DEF EvalInv, WorkInPlace, Artifacts
    <3>2. Undivided(runDir[q])' <=> Undivided(runDir[q])
      BY DEF Undivided
    <3>3. OwnEvidence(q)
      BY DEF EvalInv
    <3>4. CASE q = e
      BY <3>1, <3>2, <3>3, <3>4 DEF OwnEvidence, EvalInv, EvalTypeOK
    <3>5. CASE q # e
      BY <1>4, <3>2, <3>3, <3>5 DEF OwnEvidence
    <3> QED
      BY <3>4, <3>5
  <2>3. Beginning(q)'
    BY <1>1, <1>3, <1>4 DEF EvalInv, Beginning, Artifacts
  <2> QED
    BY <2>1, <2>2, <2>3
<1>9. ASSUME NEW x \in RunDirs
      PROVE  OwnFiles(x)'
  BY <1>2, <1>3 DEF EvalInv, OwnFiles, Undivided
<1> QED
  BY <1>6, <1>7, <1>8, <1>9 DEF EvalInv

\* Attesting, publishing, judging: no artifact is written.
LEMMA ClosingKeeps ==
    ASSUME EvalInv, NEW e \in Executions,
           WriteAttestation(e) \/ Points(e) \/ Judge(e)
    PROVE  EvalInv'
<1> USE FilesKnown
<1>1. PICK to \in {"attested", "published", "closed"} :
        /\ progress' = [progress EXCEPT ![e] = to]
        /\ UNCHANGED <<suite, runDir, agreed, executed, outcome, evidence, overlapped>>
  BY DEF WriteAttestation, Points, Judge, Advance
<1>2. progress[e] \in {"manifest", "attested", "published"} /\ Active(e)
  BY DEF WriteAttestation, Points, Judge, Advance, Active
<1>3. runDir[e] \in RunDirs
  BY <1>2 DEF EvalInv, WorkInPlace
<1>4. /\ file' \in [RunDirs -> Snapshots]
      /\ \A x \in RunDirs, f \in Artifacts : file'[x][f] = file[x][f]
      /\ \A x \in RunDirs, f \in Files :
            file'[x][f] = file[x][f] \/ (file'[x][f] = e /\ x = runDir[e])
  <2>1. CASE Judge(e)
    <3>1. PICK V \in SUBSET Verdicts :
            file' = [file EXCEPT ![runDir[e]] =
                       [f \in Files |-> IF f \in V THEN e ELSE file[runDir[e]][f]]]
      BY <2>1 DEF Judge
    <3>2. [f \in Files |-> IF f \in V THEN e ELSE file[runDir[e]][f]] \in Snapshots
      BY <1>3 DEF EvalInv, EvalTypeOK, Snapshots
    <3>3. /\ file' \in [RunDirs -> Snapshots]
          /\ \A f \in Files : file'[runDir[e]][f] = IF f \in V THEN e ELSE file[runDir[e]][f]
          /\ \A x \in RunDirs \ {runDir[e]} : file'[x] = file[x]
      BY <1>3, <3>1, <3>2 DEF EvalInv, EvalTypeOK
    <3> QED
      BY <1>3, <3>3
  <2>2. CASE ~Judge(e)
    BY <2>2 DEF WriteAttestation, Points, EvalInv, EvalTypeOK
  <2> QED
    BY <2>1, <2>2
<1>5. /\ attested' \in [RunDirs -> Snapshots]
      /\ \A x \in RunDirs : attested'[x] = attested[x]
                             \/ (x = runDir[e] /\ progress[e] = "manifest" /\ attested'[x] = file[x])
  BY <1>3 DEF WriteAttestation, Points, Judge, Advance, EvalInv, EvalTypeOK
<1>6. /\ progress'[e] = to
      /\ \A q \in Executions \ {e} : progress'[q] = progress[q]
      /\ \A q \in Executions : Active(q)' => Active(q)
  BY <1>1, <1>2 DEF EvalInv, EvalTypeOK, Active
<1>7. EvalTypeOK'
  <2>1. latest' \in RunDirs \cup {Nil}
    BY <1>3 DEF WriteAttestation, Points, Judge, EvalInv, EvalTypeOK
  <2> QED
    BY <1>1, <1>4, <1>5, <2>1 DEF EvalInv, EvalTypeOK, Steps
<1>8. OneAtWork'
  BY <1>1, <1>6 DEF EvalInv, OneAtWork, Undivided
<1>9. ASSUME NEW q \in Executions
      PROVE  (WorkInPlace(q) /\ OwnEvidence(q) /\ Beginning(q))'
  <2>1. Active(q)' => \A f \in Artifacts : progress'[q] \in WrittenBy(f) => progress[q] \in WrittenBy(f)
    BY <1>2, <1>6 DEF WrittenBy
  <2>2. WorkInPlace(q)'
    BY <1>1, <1>4, <1>6, <2>1 DEF EvalInv, WorkInPlace, Undivided
  <2>3. OwnEvidence(q)'
    BY <1>1 DEF EvalInv, OwnEvidence, Undivided
  <2>4. Beginning(q)'
    BY <1>1, <1>2, <1>4, <1>6 DEF EvalInv, Beginning
  <2> QED
    BY <2>2, <2>3, <2>4
<1>10. ASSUME NEW x \in RunDirs
       PROVE  OwnFiles(x)'
  <2>1. \A f \in Files : file'[x][f] \in Executions => runDir'[file'[x][f]] = x
    BY <1>1, <1>3, <1>4 DEF EvalInv, OwnFiles
  <2>2. CASE attested'[x] = attested[x]
    BY <1>1, <2>1, <2>2 DEF EvalInv, OwnFiles, Undivided
  <2>3. CASE x = runDir[e] /\ progress[e] = "manifest" /\ attested'[x] = file[x]
    <3>1. Undivided(x) => \A f \in Artifacts : file[x][f] = e
      BY <1>2, <2>3 DEF EvalInv, WorkInPlace, WrittenBy
    <3>2. "manifest" \in Artifacts
      BY DEF Artifacts
    <3> QED
      BY <1>1, <2>1, <2>3, <3>1, <3>2 DEF OwnFiles, Undivided
  <2> QED
    BY <1>5, <2>2, <2>3
<1> QED
  BY <1>7, <1>8, <1>9, <1>10 DEF EvalInv

\* An execution that dies is at work no more, and leaves at most a torn file.
LEMMA DeathKeeps ==
    ASSUME EvalInv, NEW e \in Executions, ExecutionDies(e)
    PROVE  EvalInv'
<1> USE FilesKnown
<1>1. /\ Active(e)
      /\ progress' = [progress EXCEPT ![e] = "dead"]
      /\ UNCHANGED <<suite, runDir, agreed, executed, outcome, evidence, latest, overlapped>>
  BY DEF ExecutionDies
<1>2. runDir[e] \in RunDirs
  BY <1>1 DEF EvalInv, WorkInPlace
<1>3. /\ file' \in [RunDirs -> Snapshots]
      /\ \A x \in RunDirs, f \in Files :
            file'[x][f] = file[x][f] \/ (file'[x][f] = Torn /\ x = runDir[e])
  <2>1. CASE UNCHANGED file
    BY <2>1 DEF EvalInv, EvalTypeOK
  <2>2. CASE progress[e] \in Artifacts /\ file' = [file EXCEPT ![runDir[e]][progress[e]] = Torn]
    <3> DEFINE torn == progress[e]
    <3>1. torn \in Files
      BY <2>2
    <3>2. file' = [file EXCEPT ![runDir[e]][torn] = Torn]
      BY <2>2
    <3> HIDE DEF torn
    <3> QED
      BY <1>2, <3>1, <3>2 DEF EvalInv, EvalTypeOK, Snapshots
  <2> QED
    BY <2>1, <2>2 DEF ExecutionDies
<1>4. /\ attested' \in [RunDirs -> Snapshots]
      /\ \A x \in RunDirs : attested'[x] = attested[x] \/ attested'[x]["manifest"] = Torn
  <2>1. TornAttestation \in Snapshots /\ TornAttestation["manifest"] = Torn
    BY DEF TornAttestation, Snapshots
  <2> QED
    BY <1>2, <2>1 DEF ExecutionDies, EvalInv, EvalTypeOK
<1>5. /\ progress'[e] = "dead"
      /\ \A q \in Executions \ {e} : progress'[q] = progress[q]
      /\ \A q \in Executions : Active(q)' => Active(q) /\ q # e
  BY <1>1 DEF EvalInv, EvalTypeOK, Active
<1>6. EvalTypeOK'
  BY <1>1, <1>3, <1>4 DEF EvalInv, EvalTypeOK, Steps
<1>7. OneAtWork'
  BY <1>1, <1>5 DEF EvalInv, OneAtWork, Undivided
<1>8. ASSUME NEW q \in Executions
      PROVE  (WorkInPlace(q) /\ OwnEvidence(q) /\ Beginning(q))'
  <2>1. WorkInPlace(q)'
    <3>1. Active(q)' /\ Undivided(runDir[q]) => runDir[q] # runDir[e]
      BY <1>1, <1>5 DEF EvalInv, OneAtWork
    <3> QED
      BY <1>1, <1>3, <1>5, <3>1 DEF EvalInv, WorkInPlace, Undivided
  <2>2. OwnEvidence(q)'
    BY <1>1 DEF EvalInv, OwnEvidence, Undivided
  <2>3. progress[e] # "new"
    BY <1>1 DEF Active
  <2>4. Beginning(q)'
    BY <1>1, <1>3, <1>5, <2>3 DEF EvalInv, Beginning
  <2> QED
    BY <2>1, <2>2, <2>4
<1>9. ASSUME NEW x \in RunDirs
      PROVE  OwnFiles(x)'
  BY <1>1, <1>3, <1>4 DEF EvalInv, OwnFiles, Undivided
<1> QED
  BY <1>6, <1>7, <1>8, <1>9 DEF EvalInv

\* Every step of the commands and of their user.
LEMMA EvalInvStep ==
    ASSUME EvalInv, [EvalNext]_evalVars
    PROVE  EvalInv'
<1>1. ASSUME NEW e \in Executions, NEW d \in RunDirs, StartRun(e, d) \/ StartBuiltin(e, d)
      PROVE  EvalInv'
  <2>1. suite \in Suites
    BY SuitesKnown DEF EvalInv, EvalTypeOK
  <2> QED
    BY <1>1, <2>1, SuitesKnown, ContractsKeep DEF StartRun, StartBuiltin
<1>2. ASSUME NEW e \in Executions, RunSuite(e) \/ RunBuiltin(e)
      PROVE  EvalInv'
  <2>1. suite \in Suites
    BY SuitesKnown DEF EvalInv, EvalTypeOK
  <2> QED
    BY <1>2, <2>1, SuitesKnown, RunsKeep DEF RunSuite, RunBuiltin
<1>3. ASSUME NEW e \in Executions, WriteReport(e)
      PROVE  EvalInv'
  <2>1. PICK from \in {"ran", "report", "specs", "failures"}, to \in Artifacts :
          /\ Advance(e, from, to)
          /\ Writes(e, to)
          /\ <<from, to>> \in {<<"ran", "report">>, <<"report", "specs">>, <<"specs", "failures">>}
    BY <1>3 DEF WriteReport, Artifacts
  <2>2. \A f \in Artifacts : to \in WrittenBy(f) => f = to \/ from \in WrittenBy(f)
    BY <2>1 DEF WrittenBy, Artifacts
  <2> QED
    BY <1>3, <2>1, <2>2, WritesKeep DEF WriteReport
<1>4. ASSUME NEW e \in Executions, WriteManifest(e) \/ WriteBuiltinManifest(e)
      PROVE  EvalInv'
  <2>1. \A f \in Artifacts : "manifest" \in WrittenBy(f) => f = "manifest" \/ "failures" \in WrittenBy(f)
    BY DEF WrittenBy, Artifacts
  <2>2. "failures" \in WrittenBy("contract") /\ "manifest" \in Artifacts
    BY DEF WrittenBy, Artifacts
  <2>3. Manifests(e)
    BY <1>4 DEF WriteManifest, WriteBuiltinManifest
  <2> QED
    BY <2>1, <2>2, <2>3, WritesKeep DEF Manifests, ContractIn
<1>5. CASE SuiteEdited
  <2>1. suite' \in Versions
    BY <1>5, EvalAssumption DEF SuiteEdited, EvalInv, EvalTypeOK, Versions
  <2> QED
    BY <1>5, <2>1 DEF SuiteEdited, EvalInv, EvalTypeOK, OneAtWork, WorkInPlace, OwnEvidence, Beginning,
                OwnFiles, Undivided, Active
<1>6. CASE UNCHANGED evalVars
  BY <1>6 DEF evalVars, EvalInv, EvalTypeOK, OneAtWork, WorkInPlace, OwnEvidence, Beginning,
              OwnFiles, Undivided, Active
<1>7. ASSUME NEW e \in Executions, WriteAttestation(e) \/ PointLatest(e) \/ PointBuiltin(e) \/ Judge(e)
      PROVE  EvalInv'
  BY <1>7, ClosingKeeps DEF PointLatest, PointBuiltin
<1> QED
  BY <1>1, <1>2, <1>3, <1>4, <1>5, <1>6, <1>7, DeathKeeps DEF EvalNext

\* Nothing has run.
LEMMA EvalInitHolds == EvalInit => EvalInv
<1> SUFFICES ASSUME EvalInit PROVE EvalInv
  OBVIOUS
<1> USE FilesKnown
<1>1. /\ \A d \in RunDirs, f \in Files : file[d][f] = Missing /\ attested[d][f] = Missing
      /\ \A e \in Executions : progress[e] = "new" /\ executed[e] = 0 /\ evidence[e] = Missing
  BY DEF EvalInit, NoAttestation
<1>2. EvalTypeOK
  BY EvalAssumption DEF EvalInit, EvalTypeOK, NoAttestation, Snapshots, Steps, Versions
<1>3. OneAtWork /\ \A e \in Executions : ~Active(e)
  BY <1>1 DEF OneAtWork, Active
<1>4. \A e \in Executions : WorkInPlace(e) /\ OwnEvidence(e) /\ Beginning(e)
  BY <1>1, <1>3, SuitesKnown DEF WorkInPlace, OwnEvidence, Beginning
<1>5. \A d \in RunDirs : OwnFiles(d)
  BY <1>1 DEF OwnFiles
<1> QED
  BY <1>2, <1>3, <1>4, <1>5 DEF EvalInv

\* A verified attestation speaks of the execution that wrote the manifest.
LEMMA VerifiedIsOne ==
    ASSUME EvalInv, NEW d \in RunDirs, Undivided(d), Loadable(d), Verified(d)
    PROVE  /\ file[d]["manifest"] \in Executions
           /\ file[d]["contract"] = file[d]["manifest"]
           /\ \A f \in Artifacts : SameText(f, file[d][f], file[d]["manifest"])
<1> USE FilesKnown
<1> DEFINE m == file[d]["manifest"]
<1>1. m \in Executions
  BY DEF Loadable
<1>2. attested[d]["manifest"] # Missing
        => SameText("manifest", file[d]["manifest"], attested[d]["manifest"])
  BY DEF Verified
<1>3. attested[d]["manifest"] = m
  BY <1>2 DEF Verified, SameText
<1>4. \A f \in Artifacts : attested[d][f] = m
  BY <1>1, <1>3 DEF EvalInv, OwnFiles
<1>5. \A f \in Artifacts : SameText(f, file[d][f], m)
  BY <1>1, <1>4 DEF Verified
<1>6. file[d]["contract"] = m
  BY <1>5 DEF SameText, Artifacts
<1> QED
  BY <1>1, <1>5, <1>6

\* The manifest's own evidence is the contract that its execution wrote.
LEMMA ManifestOwns ==
    ASSUME EvalInv, NEW d \in RunDirs, Undivided(d), ContractHolds(d),
           file[d]["manifest"] \in Executions
    PROVE  /\ file[d]["contract"] = file[d]["manifest"]
           /\ agreed[file[d]["manifest"]] = executed[file[d]["manifest"]]
<1> USE FilesKnown
<1>1. runDir[file[d]["manifest"]] = d
  BY DEF EvalInv, OwnFiles
<1>2. evidence[file[d]["manifest"]] \in {Missing, file[d]["manifest"]}
  BY <1>1 DEF EvalInv, OwnEvidence
<1> QED
  BY <1>2 DEF ContractHolds, Provenance

\* evals/gate.py: a directory that passes the gate shows one execution, whoever died in
\* it before or began to write there again, unless two executions wrote there at once.
THEOREM GateAdmitsOneRun == EvalSpec => []GatedRunIsOne
<1>1. EvalInv /\ [EvalNext]_evalVars => EvalInv'
  BY EvalInvStep
<1>2. EvalInv => GatedRunIsOne
  BY VerifiedIsOne, ManifestOwns DEF GatedRunIsOne, GatePasses, Undivided
<1> QED
  BY EvalInitHolds, <1>1, <1>2, PTL DEF EvalSpec

\* The report of a gated directory is about the suite that its provenance names.
LEMMA ReportIsOfSuite ==
    ASSUME EvalInv, NEW d \in RunDirs, Undivided(d), Loadable(d), Verified(d), ContractHolds(d)
    PROVE  /\ Provenance(d) \in Suites
           /\ Reported(d) \in OutcomesOf[Provenance(d)]
<1> USE FilesKnown
<1> DEFINE m == file[d]["manifest"]
<1>1. /\ m \in Executions
      /\ SameText("report", file[d]["report"], m)
      /\ agreed[m] = executed[m]
  BY VerifiedIsOne, ManifestOwns DEF Artifacts
<1>2. Reported(d) = outcome[m]
  BY <1>1 DEF SameText, Reported
<1>3. agreed[m] \in Suites /\ (executed[m] \in Suites => outcome[m] \in OutcomesOf[executed[m]])
  BY <1>1 DEF EvalInv, Beginning
<1> QED
  BY <1>1, <1>2, <1>3 DEF Provenance

\* A subset has no more elements, in the numbers the thresholds are about.
LEMMA NoMore ==
    ASSUME NEW S, IsFiniteSet(S), NEW T, T \subseteq S
    PROVE  Cardinality(T) <= Cardinality(S) /\ Cardinality(T) \in Nat /\ Cardinality(S) \in Nat
BY FS_Subset, FS_CardinalityType

\* The thresholds: each of them counts a set that the comparison lets only shrink,
\* or, for the tasks that passed, only grow.
LEMMA ThresholdsKept ==
    ASSUME NEW b \in RunDirs, NEW d \in RunDirs, NEW v \in Suites,
           Reported(b) \in OutcomesOf[v], Reported(d) \in OutcomesOf[v],
           WithinThresholds(b), NoneNewlyFailed(b, d), NoMoreFaults(b, d), ClustersNoWorse(b, d)
    PROVE  WithinThresholds(d)
<1>1. /\ IsFiniteSet(Tasks(b)) /\ Tasks(d) = Tasks(b)
      /\ Reported(b) \in [Tasks(b) -> Result] /\ Reported(d) \in [Tasks(b) -> Result]
  BY OutcomesAssumption DEF Tasks
<1>2. Passed(b) \subseteq Passed(d) /\ Passed(d) \subseteq Tasks(b)
  BY <1>1 DEF Passed, Failed, NoneNewlyFailed
<1>3. IsFiniteSet(Passed(d)) /\ IsFiniteSet(Failed(b))
  BY <1>1, <1>2, FS_Subset DEF Failed
<1>4. /\ Cardinality(Passed(b)) <= Cardinality(Passed(d))
      /\ Cardinality(Passed(b)) \in Nat /\ Cardinality(Passed(d)) \in Nat
  BY <1>2, <1>3, NoMore
<1>5. /\ Cardinality(Failed(d)) <= Cardinality(Failed(b))
      /\ Cardinality(Failed(b)) \in Nat /\ Cardinality(Failed(d)) \in Nat
  <2>1. Failed(d) \subseteq Failed(b)
    BY <1>1, <1>2 DEF Failed
  <2> QED
    BY <1>3, <2>1, NoMore
<1>6. /\ Cardinality(Faults(d)) <= Cardinality(Faults(b))
      /\ Cardinality(Faults(b)) \in Nat /\ Cardinality(Faults(d)) \in Nat
  <2>1. \A t \in Tasks(b) : /\ Reported(b)[t].faults \in Nat /\ Reported(d)[t].faults \in Nat
                            /\ Reported(d)[t].faults <= Reported(b)[t].faults
    BY <1>1, EvalAssumption DEF Result, NoMoreFaults
  <2>2. Faults(d) \subseteq Faults(b)
    <3> SUFFICES ASSUME NEW x \in Tasks(b) \X (1..MostFaults), x[2] <= Reported(d)[x[1]].faults
                 PROVE  x[2] <= Reported(b)[x[1]].faults
      BY <1>1 DEF Faults
    <3>1. x[1] \in Tasks(b) /\ x[2] \in Nat
      BY EvalAssumption
    <3> QED
      BY <2>1, <3>1
  <2>3. IsFiniteSet(Faults(b))
    <3>1. 1 \in Int /\ MostFaults \in Int
      BY EvalAssumption
    <3>2. IsFiniteSet(1..MostFaults)
      BY <3>1, FS_Interval
    <3>3. IsFiniteSet(Tasks(b) \X (1..MostFaults))
      BY <1>1, <3>2, FS_Product
    <3>4. Faults(b) \in SUBSET (Tasks(b) \X (1..MostFaults))
      BY DEF Faults
    <3> QED
      BY <3>3, <3>4, FS_Subset
  <2> QED
    BY <2>2, <2>3, NoMore
<1>7. IsFiniteSet(ClustersOf(b)) /\ IsFiniteSet(CriticalOf(b))
  <2>1. ClustersOf(b) \in SUBSET Clusters /\ CriticalOf(b) \in SUBSET Clusters
    BY DEF ClustersOf, CriticalOf
  <2> QED
    BY <2>1, EvalAssumption, FS_Subset
<1>8. /\ Cardinality(ClustersOf(d)) <= Cardinality(ClustersOf(b))
      /\ Cardinality(ClustersOf(b)) \in Nat /\ Cardinality(ClustersOf(d)) \in Nat
  BY <1>7, NoMore DEF ClustersNoWorse
<1>9. /\ Cardinality(CriticalOf(d)) <= Cardinality(CriticalOf(b))
      /\ Cardinality(CriticalOf(b)) \in Nat
      /\ Cardinality(CriticalOf(d)) \in Nat
  <2>1. CriticalOf(d) \subseteq CriticalOf(b)
    BY DEF ClustersNoWorse, CriticalOf
  <2> QED
    BY <1>7, <2>1, NoMore
<1>10. {MinRate, MaxFailed, MaxFaults, MaxClusters, MaxCritical} \subseteq Nat
  BY EvalAssumption
<1>11. /\ 100 * Cardinality(Passed(b)) >= MinRate * Cardinality(Tasks(b))
       /\ Cardinality(Failed(b)) <= MaxFailed
       /\ Cardinality(Faults(b)) <= MaxFaults
       /\ Cardinality(ClustersOf(b)) <= MaxClusters
       /\ Cardinality(CriticalOf(b)) <= MaxCritical
  BY DEF WithinThresholds
<1>12. 100 * Cardinality(Passed(d)) >= MinRate * Cardinality(Tasks(d))
  <2>1. MinRate * Cardinality(Tasks(b)) \in Nat
    BY <1>1, <1>10, FS_CardinalityType
  <2>2. 100 * Cardinality(Passed(d)) >= 100 * Cardinality(Passed(b))
    BY <1>4
  <2> QED
    BY <1>1, <1>4, <1>11, <2>1, <2>2
<1> QED
  BY <1>5, <1>6, <1>8, <1>9, <1>10, <1>11, <1>12 DEF WithinThresholds

\* evals/compare.py: a run in which the strict comparison finds no regression from a run
\* that passes the gate passes it too, whatever the thresholds are.
THEOREM ComparisonGuardsGate == EvalSpec => []NoRegressionKeepsGate
<1>1. EvalInv /\ [EvalNext]_evalVars => EvalInv'
  BY EvalInvStep
<1>2. EvalInv => NoRegressionKeepsGate
  <2> SUFFICES ASSUME EvalInv, NEW b \in RunDirs, NEW d \in RunDirs,
                      Undivided(b), Undivided(d), GatePasses(b), Unregressed(b, d)
               PROVE  GatePasses(d)
    BY DEF NoRegressionKeepsGate, Undivided
  <2>1. Loadable(b) /\ Verified(b) /\ ContractHolds(b) /\ WithinThresholds(b)
    BY DEF GatePasses
  <2>2. Loadable(d) /\ ProvenanceHolds(b, d) /\ NoneNewlyFailed(b, d) /\ NoMoreFaults(b, d)
        /\ ClustersNoWorse(b, d) /\ AttestationsHold(b, d)
    BY DEF Unregressed
  <2>3. Verified(d)
    <3>1. attested[b] # NoAttestation
      BY <2>1, FilesKnown DEF Verified, NoAttestation
    <3> QED
      BY <2>2, <3>1 DEF AttestationsHold
  <2>4. ContractHolds(d)
    BY <2>2, <2>3, VerifiedIsOne DEF ProvenanceHolds, Mismatched
  <2>5. Provenance(d) = Provenance(b)
    BY <2>2 DEF ProvenanceHolds
  <2>6. /\ Provenance(b) \in Suites
        /\ Reported(b) \in OutcomesOf[Provenance(b)]
        /\ Reported(d) \in OutcomesOf[Provenance(b)]
    BY <2>1, <2>2, <2>3, <2>4, <2>5, ReportIsOfSuite
  <2>7. WithinThresholds(d)
    BY <2>1, <2>2, <2>6, ThresholdsKept
  <2> QED
    BY <2>2, <2>3, <2>4, <2>7 DEF GatePasses
<1> QED
  BY EvalInitHolds, <1>1, <1>2, PTL DEF EvalSpec

-----------------------------------------------------------------------------
(* The MCP client.                                                         *)

\* Every message that the server answers carries the id of a request.
McpInv ==
    /\ McpTypeOK
    /\ \A k \in DOMAIN inbox : inbox[k].kind # "initialized" => inbox[k].id # 0

\* A request, at the end of what the server has still to read.
LEMMA RequestSent ==
    ASSUME McpInv, lastId < MaxIds, NEW k \in MessageKinds
    PROVE  /\ lastId + 1 \in Ids /\ Request(k) \in Message
           /\ Append(inbox, Request(k)) \in Seq(Message)
           /\ \A n \in DOMAIN Append(inbox, Request(k)) :
                Append(inbox, Request(k))[n].kind # "initialized"
                  => Append(inbox, Request(k))[n].id # 0
<1>1. lastId + 1 \in Ids /\ lastId + 1 \in 0..MaxIds
  BY McpAssumption DEF McpInv, McpTypeOK, Ids
<1>2. Request(k) \in Message /\ Request(k).id # 0
  BY <1>1, McpAssumption DEF Request, Message, McpInv, McpTypeOK
<1> QED
  BY <1>1, <1>2 DEF McpInv, McpTypeOK

\* What a request gets for the first response in the buffer.
LEMMA ResponseTaken ==
    ASSUME McpTypeOK, buffer # <<>>, NEW i \in 0..MaxIds
    PROVE  Taken(i) \in [Ids -> Answer] /\ Tail(buffer) \in Seq(Response)
<1>1. Head(buffer) \in Response
  BY DEF McpTypeOK
<1>2. Head(buffer).id \in 0..MaxIds
  BY <1>1, McpAssumption DEF Response, Ids
<1>3. Unanswered("raised") \in Answer /\ [state |-> "returned", to |-> Head(buffer).id] \in Answer
  BY <1>2, McpAssumption DEF Answer, Unanswered
<1> DEFINE a == IF Head(buffer).error THEN Unanswered("raised")
                ELSE [state |-> "returned", to |-> Head(buffer).id]
<1>4. a \in Answer
  BY <1>3
<1>5. Taken(i) = [answers EXCEPT ![i] = a]
  BY DEF Taken
<1> HIDE DEF a
<1>6. answers \in [Ids -> Answer] /\ Tail(buffer) \in Seq(Response)
  BY DEF McpTypeOK
<1>7. [answers EXCEPT ![i] = a] \in [Ids -> Answer]
  BY <1>4, <1>6
<1> QED
  BY <1>5, <1>6, <1>7

\* How a request stands that has no response.
LEMMA UnansweredKnown ==
    \A st \in {"none", "waiting", "raised"} : Unanswered(st) \in Answer
BY McpAssumption DEF Answer, Unanswered

\* The end of a connection.
LEMMA TerminateKeeps ==
    ASSUME McpInv, Terminate, answers' \in [Ids -> Answer], UNCHANGED <<initialized, lastId>>
    PROVE  McpInv'
BY McpAssumption DEF McpInv, McpTypeOK, Terminate

\* The steps of the loop that made the connection.
LEMMA ConnectionKeeps ==
    ASSUME McpInv, Connect \/ Handshake \/ HandshakeFails \/ CloseClient \/ LoopReads
    PROVE  McpInv'
<1> USE McpAssumption
<1>1. CASE Connect
  <2>1. CASE link' = "initializing" /\ server' = "running" /\ NextId
             /\ inbox' = <<Request("initialize")>> /\ listing' = lastId + 1
             /\ answers' = [answers EXCEPT ![lastId + 1] = Unanswered("waiting")]
    <3>1. lastId + 1 \in Ids /\ Request("initialize") \in Message
      BY <1>1, RequestSent DEF Connect, MessageKinds
    <3>2. Request("initialize").id # 0
      BY <3>1 DEF Request, Ids
    <3>3. answers' \in [Ids -> Answer]
      BY <2>1, UnansweredKnown DEF McpInv, McpTypeOK
    <3>4. inbox' \in Seq(Message) /\ \A n \in DOMAIN inbox' : inbox'[n].id # 0
      BY <2>1, <3>1, <3>2
    <3>5. lastId' \in 0..MaxIds /\ listing' \in 0..MaxIds
      BY <2>1, <3>1 DEF NextId, Ids
    <3> QED
      BY <1>1, <2>1, <3>3, <3>4, <3>5 DEF Connect, McpInv, McpTypeOK
  <2>2. CASE link' = "closed" /\ UNCHANGED <<server, lastId, inbox, listing, answers>>
    BY <1>1, <2>2 DEF Connect, McpInv, McpTypeOK
  <2> QED
    BY <1>1, <2>1, <2>2 DEF Connect
<1>2. CASE Handshake
  <2>1. answers' \in [Ids -> Answer] /\ Tail(buffer) \in Seq(Response)
    BY <1>2, ResponseTaken DEF Handshake, McpInv, McpTypeOK
  <2>2. CASE Terminate
    BY <1>2, <2>1, <2>2, TerminateKeeps DEF Handshake
  <2>3. CASE link' = "connected" /\ inbox' = Append(inbox, [id |-> 0, kind |-> "initialized"])
             /\ buffer' = Tail(buffer) /\ listing' = 0 /\ UNCHANGED <<server, replies>>
    <3> DEFINE m == [id |-> 0, kind |-> "initialized"]
    <3>1. m \in Message /\ m.kind = "initialized"
      BY DEF Message, MessageKinds
    <3> HIDE DEF m
    <3>2. inbox' = Append(inbox, m)
      BY <2>3 DEF m
    <3>3. inbox' \in Seq(Message)
          /\ \A n \in DOMAIN inbox' : inbox'[n].kind # "initialized" => inbox'[n].id # 0
      BY <3>1, <3>2 DEF McpInv, McpTypeOK
    <3> QED
      BY <1>2, <2>1, <2>3, <3>3 DEF Handshake, McpInv, McpTypeOK
  <2> QED
    BY <1>2, <2>2, <2>3 DEF Handshake
<1>3. CASE HandshakeFails
  <2>1. answers' \in [Ids -> Answer]
    BY <1>3, UnansweredKnown DEF HandshakeFails, McpInv, McpTypeOK
  <2> QED
    BY <1>3, <2>1, TerminateKeeps DEF HandshakeFails
<1>4. CASE CloseClient
  <2>1. answers' \in [Ids -> Answer]
    BY <1>4, UnansweredKnown DEF CloseClient, McpInv, McpTypeOK
  <2> QED
    BY <1>4, <2>1, TerminateKeeps DEF CloseClient
<1>5. CASE LoopReads
  <2>1. buffer' \in Seq(Response) /\ replies' \in Seq(Response)
    BY <1>5 DEF LoopReads, McpInv, McpTypeOK
  <2> QED
    BY <1>5, <2>1 DEF LoopReads, McpInv, McpTypeOK
<1> QED
  BY <1>1, <1>2, <1>3, <1>4, <1>5

\* The listing of the tools and their calls.
LEMMA ToolsKeep ==
    ASSUME McpInv, ListTools \/ ToolsListed \/ CallTool
    PROVE  McpInv'
<1> USE McpAssumption
<1>1. CASE ListTools
  <2>1. lastId + 1 \in Ids /\ inbox' \in Seq(Message)
        /\ \A n \in DOMAIN inbox' : inbox'[n].kind # "initialized" => inbox'[n].id # 0
    BY <1>1, RequestSent DEF ListTools, MessageKinds
  <2>2. answers' \in [Ids -> Answer]
    BY <1>1, UnansweredKnown DEF ListTools, McpInv, McpTypeOK
  <2>3. lastId' \in 0..MaxIds /\ listing' \in 0..MaxIds
    BY <1>1, <2>1 DEF ListTools, NextId, Ids
  <2> QED
    BY <1>1, <2>1, <2>2, <2>3 DEF ListTools, McpInv, McpTypeOK
<1>2. CASE ToolsListed
  <2>1. answers' \in [Ids -> Answer] /\ buffer' \in Seq(Response)
    <3>1. CASE buffer # <<>> /\ answers' = Taken(listing) /\ buffer' = Tail(buffer)
      BY <3>1, ResponseTaken DEF McpInv, McpTypeOK
    <3>2. CASE answers' = [answers EXCEPT ![listing] = Unanswered("raised")] /\ UNCHANGED buffer
      BY <3>2, UnansweredKnown DEF McpInv, McpTypeOK
    <3> QED
      BY <1>2, <3>1, <3>2 DEF ToolsListed
  <2> QED
    BY <1>2, <2>1 DEF ToolsListed, McpInv, McpTypeOK
<1>3. CASE CallTool
  <2>1. lastId < MaxIds
    BY <1>3 DEF CallTool, McpInv, McpTypeOK
  <2>2. lastId + 1 \in Ids /\ inbox' \in Seq(Message)
        /\ \A n \in DOMAIN inbox' : inbox'[n].kind # "initialized" => inbox'[n].id # 0
    <3>1. CASE server = "running"
      BY <1>3, <2>1, <3>1, RequestSent DEF CallTool, MessageKinds
    <3>2. CASE server # "running"
      BY <1>3, <2>1, <3>2 DEF CallTool, McpInv, McpTypeOK, Ids
    <3> QED
      BY <3>1, <3>2
  <2>3. lastId' \in 0..MaxIds /\ lastId + 1 \in 0..MaxIds
    BY <1>3, <2>2 DEF CallTool, NextId, Ids
  <2>4. answers' \in [Ids -> Answer] /\ buffer' \in Seq(Response)
    <3>1. CASE buffer # <<>> /\ answers' = Taken(lastId + 1) /\ buffer' = Tail(buffer)
      BY <2>3, <3>1, ResponseTaken DEF McpInv
    <3>2. CASE answers' = [answers EXCEPT ![lastId + 1] = Unanswered("raised")] /\ UNCHANGED buffer
      BY <3>2, UnansweredKnown DEF McpInv, McpTypeOK
    <3> QED
      BY <1>3, <3>1, <3>2 DEF CallTool
  <2> QED
    BY <1>3, <2>2, <2>3, <2>4 DEF CallTool, McpInv, McpTypeOK
<1> QED
  BY <1>1, <1>2, <1>3

\* The server: what it answers had an id.
LEMMA ServerKeeps ==
    ASSUME McpInv, ServerHandles \/ ServerDies
    PROVE  McpInv'
<1>1. CASE ServerHandles
  <2>1. /\ Head(inbox) = inbox[1] /\ inbox[1] \in Message /\ 1 \in DOMAIN inbox
        /\ Tail(inbox) \in Seq(Message)
        /\ \A n \in DOMAIN Tail(inbox) : n + 1 \in DOMAIN inbox /\ Tail(inbox)[n] = inbox[n + 1]
    BY <1>1 DEF ServerHandles, McpInv, McpTypeOK
  <2>2. inbox' \in Seq(Message)
        /\ \A n \in DOMAIN inbox' : inbox'[n].kind # "initialized" => inbox'[n].id # 0
    BY <1>1, <2>1 DEF ServerHandles, McpInv
  <2>3. initialized' \in BOOLEAN
    BY <1>1 DEF ServerHandles, McpInv, McpTypeOK
  <2>4. replies' \in Seq(Response)
    <3>1. CASE UNCHANGED replies
      BY <3>1 DEF McpInv, McpTypeOK
    <3>2. CASE Head(inbox).kind # "initialized"
               /\ \E e \in BOOLEAN : replies' = Append(replies, [id |-> Head(inbox).id, error |-> e])
      <4>1. PICK e \in BOOLEAN : replies' = Append(replies, [id |-> Head(inbox).id, error |-> e])
        BY <3>2
      <4>2. Head(inbox).id \in 0..MaxIds /\ Head(inbox).id # 0
        BY <2>1, <3>2 DEF Message, McpInv
      <4>3. [id |-> Head(inbox).id, error |-> e] \in Response
        BY <4>2, McpAssumption DEF Response, Ids
      <4> QED
        BY <4>1, <4>3 DEF McpInv, McpTypeOK
    <3> QED
      BY <1>1, <3>1, <3>2 DEF ServerHandles
  <2> QED
    BY <1>1, <2>2, <2>3, <2>4 DEF ServerHandles, McpInv, McpTypeOK
<1>2. CASE ServerDies
  BY <1>2 DEF ServerDies, McpInv, McpTypeOK
<1> QED
  BY <1>1, <1>2

\* Every step of the client and the server.
LEMMA McpInvStep ==
    ASSUME McpInv, [McpNext]_mcpVars
    PROVE  McpInv'
<1>1. CASE UNCHANGED mcpVars
  BY <1>1 DEF mcpVars, McpInv, McpTypeOK
<1> QED
  BY <1>1, ConnectionKeeps, ToolsKeep, ServerKeeps DEF McpNext

\* There is no connection.
LEMMA McpInitHolds == McpInit => McpInv
<1> SUFFICES ASSUME McpInit PROVE McpInv
  OBVIOUS
<1>1. answers \in [Ids -> Answer]
  <2>1. Unanswered("none") \in Answer
    BY UnansweredKnown
  <2> QED
    BY <2>1 DEF McpInit
<1>2. 0 \in 0..MaxIds
  BY McpAssumption
<1>3. inbox = <<>> /\ inbox \in Seq(Message) /\ replies \in Seq(Response) /\ buffer \in Seq(Response)
  BY DEF McpInit
<1>4. \A k \in DOMAIN inbox : FALSE
  BY <1>3
<1>5. McpTypeOK
  BY <1>1, <1>2, <1>3 DEF McpInit, McpTypeOK
<1> QED
  BY <1>4, <1>5 DEF McpInv

-----------------------------------------------------------------------------
(* The services together.                                                  *)

\* A behaviour of the services is one of each of them, so whatever is proved of a
\* component is true of the composition, where the runs check it.
THEOREM ServicesAreTheirParts ==
    ServicesSpec => /\ RegistrySpec /\ RoutingSpec /\ McpSpec /\ RateLimitSpec
                    /\ ChatSpec /\ EvalSpec /\ RepairSpec /\ JudgedSpec
                    /\ ContextSpec /\ ProviderSpec /\ StoredSpec /\ FilesSpec
<1>1. ServicesInit => /\ RegistryInit /\ RoutingInit /\ McpInit /\ RateLimitInit
                      /\ ChatInit /\ EvalInit /\ RepairInit /\ JudgedInit
                      /\ ContextInit /\ ProviderInit /\ StoredInit /\ FilesInit
  BY DEF ServicesInit
<1>2. [ServicesNext]_servicesVars =>
        /\ [RegistryNext]_registryVars /\ [RoutingNext]_routingVars /\ [McpNext]_mcpVars
        /\ [RateLimitNext]_rateVars /\ [ChatNext]_chatVars /\ [EvalNext]_evalVars
        /\ [RepairNext]_repairVars /\ [JudgedNext]_judgedVars /\ [ContextNext]_contextVars
        /\ [ProviderNext]_providerVars /\ [StoredNext]_storedVars /\ [FilesNext]_filesVars
  BY DEF ServicesNext, servicesVars
<1> QED
  BY <1>1, <1>2, PTL DEF ServicesSpec, RegistrySpec, RoutingSpec, McpSpec, RateLimitSpec,
     ChatSpec, EvalSpec, RepairSpec, JudgedSpec, ContextSpec, ProviderSpec, StoredSpec, FilesSpec

\* Every variable of every service keeps its type.
THEOREM ServicesTyped == ServicesSpec => []ServicesTypeOK
<1>1. ServicesInit => component \in Components
  BY DEF ServicesInit
<1>2. component \in Components /\ [ServicesNext]_servicesVars => (component \in Components)'
  BY DEF ServicesNext, servicesVars
<1>3. RegistryInv => RegistryTypeOK
  BY DEF RegistryInv
<1>4. RoutingInv => RoutingTypeOK
  BY DEF RoutingInv
<1>5. McpInv => McpTypeOK
  BY DEF McpInv
<1>6. RateInv => RateLimitTypeOK
  BY DEF RateInv
<1>7. EvalInv => EvalTypeOK
  BY DEF EvalInv
<1>8. RegistryInv /\ [RegistryNext]_registryVars => RegistryInv'
  BY RegistryStep
<1>9. RoutingInv /\ [RoutingNext]_routingVars => RoutingInv'
  BY RoutingInvStep
<1>10. McpInv /\ [McpNext]_mcpVars => McpInv'
  BY McpInvStep
<1>11. RateInv /\ [RateLimitNext]_rateVars => RateInv'
  BY RateInvStep
<1>12. EvalInv /\ [EvalNext]_evalVars => EvalInv'
  BY EvalInvStep
<1>13. RegistrySpec => []RegistryTypeOK
  BY <1>3, <1>8, RegistryInitSound, PTL DEF RegistrySpec
<1>14. RoutingSpec => []RoutingTypeOK
  BY <1>4, <1>9, RoutingInitHolds, PTL DEF RoutingSpec
<1>15. McpSpec => []McpTypeOK
  BY <1>5, <1>10, McpInitHolds, PTL DEF McpSpec
<1>16. RateLimitSpec => []RateLimitTypeOK
  BY <1>6, <1>11, RateInitHolds, PTL DEF RateLimitSpec
<1>17. EvalSpec => []EvalTypeOK
  BY <1>7, <1>12, EvalInitHolds, PTL DEF EvalSpec
<1>18. ServicesSpec => [](component \in Components)
  BY <1>1, <1>2, PTL DEF ServicesSpec
<1>19. component \in Components /\ RegistryTypeOK /\ RoutingTypeOK /\ McpTypeOK /\ RateLimitTypeOK
       /\ ChatTypeOK /\ EvalTypeOK /\ RepairTypeOK /\ JudgedTypeOK /\ ContextTypeOK
       /\ ProviderTypeOK /\ StoredTypeOK /\ FilesTypeOK => ServicesTypeOK
  BY DEF ServicesTypeOK
<1> QED
  BY <1>13, <1>14, <1>15, <1>16, <1>17, <1>18, <1>19, ServicesAreTheirParts, ChatTyped, RepairsTyped,
     RunsTyped, ContextTyped, CallsTyped, StoredType, FilesType, PTL

=============================================================================
