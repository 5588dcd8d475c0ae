--------------------------- MODULE SwarmRegistry ---------------------------
(***************************************************************************)
(* The registry of agents of the swarm hub (swarm/registry.py): every      *)
(* process keeps a copy of registry.json in memory, operations move or     *)
(* remove an agent's directory first and write the whole copy back         *)
(* afterwards.  Processes can be killed in between, and two of them can    *)
(* run side by side, each with its own copy.                               *)
(* Names carry the component, so that the module can be EXTENDed beside    *)
(* others.                                                                 *)
(***************************************************************************)
EXTENDS Naturals, FiniteSets

CONSTANTS Hubs,       \* processes that may hold an AgentRegistry
          Agents,     \* ids that uuid4 hands out
          Dirs,       \* agent directories
          Homes,      \* places a user keeps agents at
          Nested,     \* names of directories inside a place that hold an agent of their own
          TrashTTL,   \* TRASH_TTL_SECONDS
          MaxClock,   \* bound on time
          MaxCopies,  \* bound on the collision counter of restore
          MaxCalls    \* bound on the operations requested

ASSUME RegistryAssumption ==
    /\ Nested # {}
    /\ TrashTTL \in Nat
    /\ MaxClock \in Nat
    /\ MaxCopies \in Nat
    /\ MaxCalls \in Nat

VARIABLES onDisk,      \* the entries in registry.json
          memory,      \* a process's copy of them
          running,     \* the processes that are up
          unsaved,     \* processes about to write their copy
          doomed,      \* expired entries a starting process has still to delete
          dirAt,       \* the agent directories at a place of the file system
          issued,      \* ids handed out
          clock,
          calls,       \* operations requested so far
          known,       \* directories that some entry pointed to (history)
          carried,     \* directories moved along with another one, or into one, and not
                       \* for themselves since (history)
          undisturbed  \* no process died over an operation, no two ran at once (history)

registryVars == <<onDisk, memory, running, unsaved, doomed, dirAt, issued,
                  clock, calls, known, carried, undisturbed>>

-----------------------------------------------------------------------------
Home(h)     == <<"home", h>>
Trash(i, s) == <<"trash", i, s>>         \* TRASH_DIR / f"{id}_{seconds}"
Work(s, c)  == <<"work", s, c>>          \* cwd / "metis-agents" / seconds [_c]

HomeTops  == {Home(h) : h \in Homes}
TrashTops == {Trash(i, s) : i \in Agents, s \in 0..MaxClock}
WorkTops  == {Work(s, c) : s \in 0..MaxClock, c \in 0..MaxCopies}
Tops      == HomeTops \cup TrashTops \cup WorkTops

\* An agent can be created, and is found by the recursive scan, inside the directory of
\* another one.  One level is told apart.
Inner(pl, n) == <<"inner", pl, n>>
AndInner(S)  == S \cup {Inner(pl, n) : pl \in S, n \in Nested}

HomePlaces  == AndInner(HomeTops)
TrashPlaces == AndInner(TrashTops)
WorkPlaces  == AndInner(WorkTops)
Places      == AndInner(Tops)

Statuses == {"absent", "active", "trashed", "deleted"}
Nowhere  == <<"nowhere">>

Entry == [status : Statuses, path : Places \cup {Nowhere},
          stamp : 0..MaxClock, restored : BOOLEAN]

Absent == [status |-> "absent", path |-> Nowhere, stamp |-> 0, restored |-> FALSE]
NewEntry(pl) == [status |-> "active", path |-> pl, stamp |-> 0, restored |-> FALSE]

NoAgents == [i \in Agents |-> Absent]

RegistryTypeOK ==
    /\ onDisk \in [Agents -> Entry]
    /\ memory \in [Hubs -> [Agents -> Entry]]
    /\ running \subseteq Hubs
    /\ unsaved \subseteq Hubs
    /\ doomed \in [Hubs -> SUBSET Agents]
    /\ dirAt \in [Places -> SUBSET Dirs]
    /\ issued \subseteq Agents
    /\ clock \in 0..MaxClock
    /\ calls \in 0..MaxCalls
    /\ known \subseteq Dirs
    /\ carried \subseteq Dirs
    /\ undisturbed \in BOOLEAN

\* Some homes hold an agent that nobody registered yet.
RegistryInit ==
    /\ onDisk = NoAgents
    /\ memory = [p \in Hubs |-> NoAgents]
    /\ running = {}
    /\ unsaved = {}
    /\ doomed = [p \in Hubs |-> {}]
    /\ \E at \in [HomePlaces -> {{}} \cup {{d} : d \in Dirs}] :
        /\ \A x, y \in HomePlaces : x # y => at[x] \cap at[y] = {}
        /\ dirAt = [pl \in Places |-> IF pl \in HomePlaces THEN at[pl] ELSE {}]
    /\ issued = {}
    /\ clock = 0
    /\ calls = 0
    /\ known = {}
    /\ carried = {}
    /\ undisturbed = TRUE

Placed == UNION {dirAt[pl] : pl \in Places}

-----------------------------------------------------------------------------
\* The pieces of the operations.

Ready(p) == p \in running /\ p \notin unsaved /\ doomed[p] = {}

\* A request reaches p (a bound of the model, the code has none).
Called(p) ==
    /\ Ready(p)
    /\ calls < MaxCalls
    /\ calls' = calls + 1

\* The copy of p is changed and will be written by the same call.
Change(p, entries) ==
    /\ memory' = [memory EXCEPT ![p] = entries]
    /\ unsaved' = unsaved \cup {p}

Under(q, pl) == q = pl \/ \E n \in Nested : q = Inner(pl, n)
PathExists(pl) == \E q \in Places : Under(q, pl) /\ dirAt[q] # {}

\* What was at q once the directory "from" has become "into", with all that is in it.
Moved(q, from, into) ==
    IF ~Under(q, from) THEN q
    ELSE IF q = from \/ into \notin Tops THEN into ELSE Inner(into, q[3])

Move(from, into) ==
    /\ dirAt' = [pl \in Places |->
                   UNION {dirAt[q] : q \in {r \in Places : Moved(r, from, into) = pl}}]
    /\ carried' =
           LET inside == UNION {dirAt[q] : q \in {r \in Places : Under(r, from) /\ r # from}}
           IN IF into \in Tops THEN (carried \ dirAt[from]) \cup inside
              ELSE carried \cup dirAt[from] \cup inside

\* shutil.move of "from", if it exists at all: into the target, under its own name, when
\* the target exists.
MoveIfThere(from, to) ==
    IF from \in Places /\ PathExists(from)
    THEN \E into \in IF PathExists(to) THEN {Inner(to, n) : n \in Nested} ELSE {to} :
            ~PathExists(into) /\ Move(from, into)
    ELSE UNCHANGED <<dirAt, carried>>

Expired(entries) ==
    {i \in Agents : entries[i].status = "trashed" /\ clock - entries[i].stamp > TrashTTL}

-----------------------------------------------------------------------------
\* create_agent: no test whether another entry has this path already.
CreateAgent(p, i, pl) ==
    /\ Called(p)
    /\ i \notin issued
    /\ \E made \in {{d} : d \in Dirs \ (Placed \cup known)} \cup {{}} :
        /\ (made = {}) <=> (dirAt[pl] # {})
        /\ dirAt' = [dirAt EXCEPT ![pl] = @ \cup made]
    /\ known' = known \cup dirAt'[pl]
    /\ issued' = issued \cup {i}
    /\ Change(p, [memory[p] EXCEPT ![i] = NewEntry(pl)])
    /\ UNCHANGED <<onDisk, running, doomed, clock, carried, undisturbed>>

Unclaimed(p, root) ==
    {pl \in root : dirAt[pl] # {}
                   /\ ~\E i \in Agents : memory[p][i].status = "active" /\ memory[p][i].path = pl}

\* scan: every manifest below root that no active entry claims gets an entry.
Scan(p, root) ==
    /\ Called(p)
    /\ \E ids \in [Unclaimed(p, root) -> Agents \ issued] :
        /\ \A x, y \in Unclaimed(p, root) : ids[x] = ids[y] => x = y
        /\ issued' = issued \cup {ids[pl] : pl \in Unclaimed(p, root)}
        /\ Change(p, [i \in Agents |->
                        IF \E pl \in Unclaimed(p, root) : ids[pl] = i
                        THEN NewEntry(CHOOSE pl \in Unclaimed(p, root) : ids[pl] = i)
                        ELSE memory[p][i]])
    /\ known' = known \cup UNION {dirAt[pl] : pl \in Unclaimed(p, root)}
    /\ UNCHANGED <<onDisk, running, doomed, dirAt, clock, carried, undisturbed>>

\* A mutant: the entry goes on naming the place the directory was moved from.
TrashAgentKeepingPath(p, i) ==
    /\ Called(p)
    /\ memory[p][i].status = "active"
    /\ MoveIfThere(memory[p][i].path, Trash(i, clock))
    /\ Change(p, [memory[p] EXCEPT ![i].status = "trashed", ![i].stamp = clock])
    /\ UNCHANGED <<onDisk, running, doomed, issued, clock, known, undisturbed>>

\* Nothing changes when the move fails: into itself, or over what is there already.
TrashAgent(p, i) ==
    /\ Called(p)
    /\ memory[p][i].status = "active"
    /\ memory[p][i].path # Trash(i, clock)
    /\ MoveIfThere(memory[p][i].path, Trash(i, clock))
    /\ Change(p, [memory[p] EXCEPT ![i] =
           [status |-> "trashed", path |-> Trash(i, clock), stamp |-> clock,
            restored |-> memory[p][i].restored]])
    /\ UNCHANGED <<onDisk, running, doomed, issued, clock, known, undisturbed>>

\* The first free name in the workspace for a directory trashed at second s.
FreeCopy(s, c) ==
    /\ ~PathExists(Work(s, c))
    /\ \A b \in 0..MaxCopies : b < c => PathExists(Work(s, b))

RestoreAgent(p, i) ==
    /\ Called(p)
    /\ memory[p][i].status = "trashed"
    /\ ~memory[p][i].restored
    /\ \E c \in 0..MaxCopies :
        /\ FreeCopy(memory[p][i].stamp, c)
        /\ MoveIfThere(memory[p][i].path, Work(memory[p][i].stamp, c))
        /\ Change(p, [memory[p] EXCEPT ![i] =
               [status |-> "active", path |-> Work(memory[p][i].stamp, c),
                stamp |-> memory[p][i].stamp, restored |-> TRUE]])
    /\ UNCHANGED <<onDisk, running, doomed, issued, clock, known, undisturbed>>

\* A mutant: any agent can be deleted, not only a trashed one.
RemoveAny(p, i) ==
    /\ memory[p][i].status \notin {"absent", "deleted"}
    /\ dirAt' = [dirAt EXCEPT ![memory[p][i].path] = {}]
    /\ Change(p, [memory[p] EXCEPT ![i].status = "deleted"])
    /\ UNCHANGED carried

\* permanently_delete: rmtree takes what is inside along; it may fail, at any point of
\* its way, which is ignored.
Remove(p, i) ==
    /\ memory[p][i].status = "trashed"
    /\ \E gone \in SUBSET {q \in Places : Under(q, memory[p][i].path)} :
          dirAt' = [q \in Places |-> IF q \in gone THEN {} ELSE dirAt[q]]
    /\ UNCHANGED carried
    /\ Change(p, [memory[p] EXCEPT ![i] =
           [status |-> "deleted", path |-> memory[p][i].path, stamp |-> memory[p][i].stamp,
            restored |-> memory[p][i].restored]])

DeletePermanently(p, i) ==
    /\ Called(p)
    /\ Remove(p, i)
    /\ UNCHANGED <<onDisk, running, doomed, issued, clock, known, undisturbed>>

\* update_agent_manifest and the operations on groups: paths and statuses stay,
\* the whole copy is written again.
Resave(p) ==
    /\ Called(p)
    /\ Change(p, memory[p])
    /\ UNCHANGED <<onDisk, running, doomed, dirAt, issued, clock, known, carried, undisturbed>>

-----------------------------------------------------------------------------
SaveRegistry(p) ==
    /\ p \in running
    /\ p \in unsaved
    /\ onDisk' = memory[p]
    /\ unsaved' = unsaved \ {p}
    /\ UNCHANGED <<memory, running, doomed, dirAt, issued, clock, calls, known, carried,
                   undisturbed>>

\* AgentRegistry(): load the file, then clean the trash.
StartHub(p) ==
    /\ p \notin running
    /\ running' = running \cup {p}
    /\ memory' = [memory EXCEPT ![p] = onDisk]
    /\ doomed' = [doomed EXCEPT ![p] = Expired(onDisk)]
    /\ undisturbed' = (undisturbed /\ running = {})
    /\ UNCHANGED <<onDisk, unsaved, dirAt, issued, clock, calls, known, carried>>

CleanupTrash(p, i) ==
    /\ p \in running
    /\ p \notin unsaved
    /\ i \in doomed[p]
    /\ Remove(p, i)
    /\ doomed' = [doomed EXCEPT ![p] = @ \ {i}]
    /\ UNCHANGED <<onDisk, running, issued, clock, calls, known, undisturbed>>

\* The process ends or is killed.  A file it was writing is left as it was, or
\* half written: _load_registry takes an unreadable file for an empty registry.
HubDies(p) ==
    /\ p \in running
    /\ running' = running \ {p}
    /\ unsaved' = unsaved \ {p}
    /\ doomed' = [doomed EXCEPT ![p] = {}]
    /\ memory' = [memory EXCEPT ![p] = NoAgents]
    /\ \/ UNCHANGED onDisk
       \/ p \in unsaved /\ onDisk' = NoAgents
    /\ undisturbed' = (undisturbed /\ p \notin unsaved)
    /\ UNCHANGED <<dirAt, issued, clock, calls, known, carried>>

ClockTicks ==
    /\ clock < MaxClock
    /\ clock' = clock + 1
    /\ UNCHANGED <<onDisk, memory, running, unsaved, doomed, dirAt, issued, calls, known,
                   carried, undisturbed>>

\* A root is the users' own places, or a directory that the trash is below too.
Roots == {HomePlaces \cup WorkPlaces, Places}

HubStep(p) ==
    \/ \E i \in Agents, pl \in HomePlaces : CreateAgent(p, i, pl)
    \/ \E root \in Roots : Scan(p, root)
    \/ \E i \in Agents : TrashAgent(p, i)
    \/ \E i \in Agents : RestoreAgent(p, i)
    \/ \E i \in Agents : DeletePermanently(p, i)
    \/ Resave(p)
    \/ SaveRegistry(p)
    \/ StartHub(p)
    \/ \E i \in Agents : CleanupTrash(p, i)
    \/ HubDies(p)

RegistryNext == ClockTicks \/ \E p \in Hubs : HubStep(p)

RegistrySpec == RegistryInit /\ [][RegistryNext]_registryVars

-----------------------------------------------------------------------------
InTrash(d) == \E pl \in TrashPlaces : d \in dirAt[pl]

\* A directory is destroyed only in the trash, where trash_agent put it: no mix of
\* deaths, half written files, processes with an old copy, duplicate entries and
\* scans of the trash makes permanently_delete or the cleanup remove a directory
\* from a place where an agent works.
DestroyedOnlyFromTrash ==
    [][\A d \in Placed : d \in Placed' \/ InTrash(d)]_registryVars

Current == IF running = {} THEN onDisk ELSE memory[CHOOSE p \in running : TRUE]

\* As long as no process died over an operation and no two ran at once, every
\* directory that was ever registered is where an entry says it is, until it is
\* destroyed: no sequence of operations, restarts and expiries loses an agent.  One
\* that lay inside another agent's directory goes wherever that one is moved, its own
\* entry keeping the old path: it is then at least inside a place that an entry names.
NothingLost ==
    undisturbed =>
        \A d \in known, pl \in Places :
            d \in dirAt[pl] =>
                \E i \in Agents :
                    Current[i].path = pl \/ (d \in carried /\ Under(pl, Current[i].path))

=============================================================================
