---------------------------- MODULE StorageProofs ----------------------------
(***************************************************************************)
(* TLAPS proofs about what is left in files and in the database: FileTools *)
(* (for any number of workers and paths), StoredRuns (any number of runs,  *)
(* sessions, plan steps and ids of calls) and RepairPlan (any number of    *)
(* directories, tasks, processes and attempts).                            *)
(*   Files: a call that nobody disturbed (quiet) has its file and its      *)
(* backup for itself, so that what it read and opened is still what it     *)
(* will copy and fill (WriteInv); a step of another worker that touches    *)
(* one of the two ends the quiet, any other leaves both alone (Frame).     *)
(*   Runs: what the database says is true because rows are only added,     *)
(* because a run stores a reply after the record of its call (OpenInv,     *)
(* RecordInv), and because the last checkpoint of a run comes when nothing *)
(* is open any more (EndInv).                                              *)
(*   Repair plans: a plan on disk and a plan being written are accounted   *)
(* for (Accounted), and what a preflight found is so (StillReady) until    *)
(* somebody rewrites the plan, which disturbs the process (RepairKept).    *)
(***************************************************************************)
EXTENDS FileTools, StoredRuns, RepairPlan, FiniteSetTheorems, SequenceTheorems,
        WellFoundedInduction, TLAPS

(* An open file is there: it cannot be added to when it is not.            *)
HandleAt(w) == handle[w] # NoPath => There(handle[w])

WriteInv(w) ==
    /\ todo[w] \in {"begin", "add"} => ~quiet[w]
    /\ quiet[w] =>
         /\ target[w] \in DOMAIN BackupOf
         /\ todo[w] \in {"read", "open backup", "back up", "open"} => disk[target[w]] = was[w]
         /\ todo[w] \in {"open backup", "back up"} => toWrite[w] = was[w] \ {Undecodable}
         /\ todo[w] = "back up" => handle[w] = BackupOf[target[w]]
         /\ todo[w] = "fill" => handle[w] = target[w]
         /\ todo[w] \in {"read", "open backup", "back up"} => ~kept[w]
         /\ kept[w] => disk[BackupOf[target[w]]] = was[w] \ {Undecodable}
    /\ todo[w] = "begin" => ~kept[w]
    /\ todo[w] \in {"read", "open backup", "back up"} => target[w] \in DOMAIN BackupOf
    /\ todo[w] = "open" => target[w] \in Paths

FilesInv == FilesTypeOK /\ \A w \in Workers : HandleAt(w) /\ WriteInv(w)

-----------------------------------------------------------------------------
LEMMA FilesInvInit == FilesInit => FilesInv
<1> SUFFICES ASSUME FilesInit PROVE FilesInv
  OBVIOUS
<1>1. FilesTypeOK
  BY DEF FilesInit, FilesTypeOK, Todo, Pieces
<1>2. \A w \in Workers : HandleAt(w) /\ WriteInv(w)
  BY DEF FilesInit, HandleAt, WriteInv
<1> QED BY <1>1, <1>2 DEF FilesInv

Contents == (SUBSET Pieces) \cup {NoText}

(* What a change of files does: their contents, and who is disturbed.      *)
Changed(w, files, new) ==
    /\ disk' \in [Paths -> (SUBSET Pieces) \cup {NoText}]
    /\ quiet' \in [Workers -> BOOLEAN]
    /\ quiet'[w] = quiet[w]
    /\ \A f \in files : disk'[f] = new[f]
    /\ \A f \in Paths \ files : disk'[f] = disk[f]
    /\ \A v \in Workers \ {w} : quiet'[v] =>
         quiet[v] /\ Concern(target[v]) \cap files = {}

LEMMA ChangeFacts ==
    ASSUME FilesTypeOK, NEW w \in Workers, NEW files \in SUBSET Paths, NEW new,
           \A f \in files : new[f] \in Contents,
           ChangeFiles(w, files, new)
    PROVE  Changed(w, files, new)
<1>1. disk' = [f \in Paths |-> IF f \in files THEN new[f] ELSE disk[f]]
  BY DEF ChangeFiles
<1>2. quiet' = [v \in Workers |->
                  quiet[v] /\ (v # w => Concern(target[v]) \cap files = {})]
  BY DEF ChangeFiles
<1>3. quiet' \in [Workers -> BOOLEAN] /\ quiet'[w] = quiet[w]
      /\ \A v \in Workers \ {w} : quiet'[v] =>
                quiet[v] /\ Concern(target[v]) \cap files = {}
  BY <1>2, Zenon DEF FilesTypeOK
<1> QED BY <1>1, <1>3 DEF FilesTypeOK, Changed, Contents

LEMMA PutFacts ==
    ASSUME FilesTypeOK, NEW w \in Workers, NEW f \in Paths,
           NEW new \in (SUBSET Pieces) \cup {NoText}, PutText(w, f, new)
    PROVE  /\ disk' \in [Paths -> (SUBSET Pieces) \cup {NoText}]
           /\ quiet' \in [Workers -> BOOLEAN]
           /\ quiet'[w] = quiet[w]
           /\ disk'[f] = new
           /\ \A g \in Paths \ {f} : disk'[g] = disk[g]
           /\ \A v \in Workers \ {w} : quiet'[v] => quiet[v] /\ f \notin Concern(target[v])
<1> DEFINE n == [g \in {f} |-> new]
<1>1. n[f] = new
  OBVIOUS
<1>2. ChangeFiles(w, {f}, n)
  BY DEF PutText
<1> HIDE DEF n
<1>3. \A g \in {f} : n[g] \in (SUBSET Pieces) \cup {NoText}
  BY <1>1
<1> DEFINE files == {f}
<1>4. files \in SUBSET Paths /\ f \in files /\ ChangeFiles(w, files, n)
      /\ \A g \in files : g = f /\ n[g] \in Contents
  BY <1>2, <1>3 DEF Contents
<1> HIDE DEF files
<1>5. Changed(w, files, n)
  BY <1>4, ChangeFacts
<1> QED BY <1>1, <1>4, <1>5 DEF Changed

(* A worker keeps its part of the invariant through another one's step     *)
(* that disturbs it or leaves its file, its backup and its handle alone.   *)
LEMMA Frame ==
    ASSUME FilesInv, NEW w \in Workers,
           todo'[w] = todo[w], target'[w] = target[w], toWrite'[w] = toWrite[w],
           kept'[w] = kept[w], was'[w] = was[w],
           quiet'[w] => /\ quiet[w]
                        /\ \A g \in Concern(target[w]) :
                             disk'[g] = disk[g] /\ (handle[w] = g => handle'[w] = g)
    PROVE  WriteInv(w)'
<1>1. quiet'[w] => target[w] \in DOMAIN BackupOf
  BY DEF FilesInv, WriteInv
<1>2. quiet'[w] => Concern(target[w]) = {target[w], BackupOf[target[w]]}
  BY <1>1 DEF Concern
<1>3. CASE ~quiet'[w]
  BY <1>3 DEF FilesInv, WriteInv
<1>4. CASE quiet'[w]
  <2>1. /\ quiet[w] /\ target[w] \in DOMAIN BackupOf
        /\ disk'[target[w]] = disk[target[w]]
        /\ disk'[BackupOf[target[w]]] = disk[BackupOf[target[w]]]
        /\ handle[w] \in {target[w], BackupOf[target[w]]} => handle'[w] = handle[w]
    BY <1>1, <1>2, <1>4
  <2> QED BY <2>1 DEF FilesInv, WriteInv
<1> QED BY <1>3, <1>4

-----------------------------------------------------------------------------
(* A step of w changes what is w's own.                                    *)
OwnStep(w) ==
    \A v \in Workers \ {w} :
        /\ todo'[v] = todo[v] /\ target'[v] = target[v] /\ toWrite'[v] = toWrite[v]
        /\ kept'[v] = kept[v] /\ was'[v] = was[v]

HandlesStay(w) == \A v \in Workers \ {w} : handle'[v] = handle[v]

LEMMA OthersKept ==
    ASSUME FilesInv, NEW w \in Workers, OwnStep(w), HandlesStay(w),
           disk' = disk, \A v \in Workers \ {w} : quiet'[v] = quiet[v],
           NEW v \in Workers \ {w}
    PROVE  WriteInv(v)' /\ HandleAt(v)'
<1>1. WriteInv(v)'
  BY Frame DEF OwnStep, HandlesStay
<1>2. HandleAt(v)'
  BY DEF FilesInv, HandleAt, HandlesStay, There
<1> QED BY <1>1, <1>2

LEMMA OthersPut ==
    ASSUME FilesInv, NEW w \in Workers, OwnStep(w), HandlesStay(w),
           NEW f \in Paths, NEW new \in SUBSET Pieces, PutText(w, f, new),
           NEW v \in Workers \ {w}
    PROVE  WriteInv(v)' /\ HandleAt(v)'
<1>1. /\ disk'[f] = new
      /\ \A g \in Paths \ {f} : disk'[g] = disk[g]
      /\ quiet'[v] => quiet[v] /\ f \notin Concern(target[v])
  BY PutFacts DEF FilesInv
<1>2. quiet'[v] => Concern(target[v]) \subseteq Paths
  BY <1>1, FilesAssumption DEF FilesInv, WriteInv, Concern
<1>3. WriteInv(v)'
  BY <1>1, <1>2, Frame DEF OwnStep, HandlesStay
<1>4. new # NoText
  BY FilesAssumption DEF NoText
<1>5. handle'[v] # NoPath => handle[v] \in Paths /\ There(handle[v])
  BY DEF FilesInv, FilesTypeOK, HandleAt, HandlesStay
<1>6. HandleAt(v)'
  BY <1>1, <1>4, <1>5 DEF HandlesStay, There, HandleAt
<1> QED BY <1>3, <1>6

(* The frame of a step, from what the steps below prove of worker w.       *)
LEMMA Together ==
    ASSUME NEW w \in Workers, FilesTypeOK', WriteInv(w)',
           HandleAt(w)',
           \A v \in Workers \ {w} :
               WriteInv(v)' /\ HandleAt(v)'
    PROVE  FilesInv'
BY DEF FilesInv, HandleAt

-----------------------------------------------------------------------------
LEMMA WriteFileKeeps ==
    ASSUME FilesInv, NEW w \in Workers, NEW f \in Paths, WriteFile(w, f)
    PROVE  FilesInv'
<1> USE DEF WriteFile, Step
<1>1. FilesTypeOK'
  BY DEF FilesInv, FilesTypeOK, Pieces, Todo
<1>2. WriteInv(w)'
  <2>1. todo'[w] \in {"read", "open"} /\ quiet'[w] /\ target'[w] = f /\ ~kept'[w]
        /\ was'[w] = disk'[f]
    BY DEF FilesInv, FilesTypeOK, WriteInv
  <2> QED BY <2>1 DEF WriteInv
<1>3. HandleAt(w)'
  BY DEF FilesInv, HandleAt, There
<1>4. \A v \in Workers \ {w} : quiet'[v] = quiet[v]
  BY DEF FilesInv, FilesTypeOK
<1>5. OwnStep(w) /\ HandlesStay(w)
  BY DEF OwnStep, HandlesStay, FilesInv, FilesTypeOK
<1> HIDE DEF WriteFile
<1>6. disk' = disk
  BY DEF WriteFile
<1> QED BY <1>1, <1>2, <1>3, <1>4, <1>5, <1>6, OthersKept, Together

LEMMA ReadOldKeeps ==
    ASSUME FilesInv, NEW w \in Workers, ReadOld(w)
    PROVE  FilesInv'
<1>1. /\ todo[w] = "read"
      /\ \/ /\ There(target[w])
            /\ toWrite' = [toWrite EXCEPT ![w] = disk[target[w]] \ {Undecodable}]
            /\ todo' = [todo EXCEPT ![w] = "open backup"]
         \/ todo' = [todo EXCEPT ![w] = "open"] /\ toWrite' = toWrite
      /\ UNCHANGED <<disk, target, handle, kept, was, quiet>>
  BY DEF ReadOld, Step
<1>2. target[w] \in Paths
  BY <1>1, FilesAssumption DEF FilesInv, WriteInv
<1>3. There(target[w]) => disk[target[w]] \in SUBSET Pieces
  BY <1>2 DEF FilesInv, FilesTypeOK, There, HandleAt
<1>4. FilesTypeOK'
  <2>1. todo' \in [Workers -> Todo]
    BY <1>1 DEF FilesInv, FilesTypeOK, Todo
  <2>2. toWrite' \in [Workers -> SUBSET Pieces]
    <3>1. toWrite \in [Workers -> SUBSET Pieces]
      BY DEF FilesInv, FilesTypeOK
    <3>2. CASE There(target[w]) /\ toWrite' = [toWrite EXCEPT ![w] = disk[target[w]] \ {Undecodable}]
      <4>1. disk[target[w]] \ {Undecodable} \in SUBSET Pieces
        BY <1>3, <3>2
      <4> QED
        BY <3>1, <3>2, <4>1
    <3> QED
      BY <1>1, <3>1, <3>2
  <2> QED
    BY <1>1, <2>1, <2>2 DEF FilesInv, FilesTypeOK
<1>5. WriteInv(w)'
  <2>1. toWrite \in [Workers -> SUBSET Pieces] /\ todo \in [Workers -> Todo] /\ WriteInv(w)
    BY DEF FilesInv, FilesTypeOK
  <2>2. CASE /\ toWrite' = [toWrite EXCEPT ![w] = disk[target[w]] \ {Undecodable}]
             /\ todo' = [todo EXCEPT ![w] = "open backup"]
    <3>1. toWrite'[w] = disk[target[w]] \ {Undecodable} /\ todo'[w] = "open backup"
      BY <2>1, <2>2
    <3> QED
      BY <1>1, <2>1, <3>1 DEF WriteInv
  <2>3. CASE todo' = [todo EXCEPT ![w] = "open"] /\ toWrite' = toWrite
    <3>1. todo'[w] = "open"
      BY <2>1, <2>3
    <3> QED
      BY <1>1, <1>2, <2>1, <2>3, <3>1 DEF WriteInv
  <2> QED
    BY <1>1, <2>2, <2>3
<1>6. OwnStep(w) /\ HandlesStay(w) /\ \A v \in Workers \ {w} : quiet'[v] = quiet[v]
  BY <1>1 DEF OwnStep, HandlesStay, FilesInv, FilesTypeOK
<1>7. HandleAt(w)'
  BY <1>1 DEF FilesInv, HandleAt, There
<1> QED BY <1>1, <1>4, <1>5, <1>6, <1>7, OthersKept, Together

LEMMA OpenBackupKeeps ==
    ASSUME FilesInv, NEW w \in Workers, OpenBackup(w)
    PROVE  FilesInv'
<1> DEFINE b == BackupOf[target[w]]
<1>1. /\ todo[w] = "open backup" /\ todo' = [todo EXCEPT ![w] = todo'[w]]
      /\ UNCHANGED <<target, kept, was>>
  BY DEF OpenBackup, Step, FilesInv, FilesTypeOK
<1>2. target[w] \in Paths /\ b \in Paths /\ b # target[w] /\ b # NoPath
  BY <1>1, FilesAssumption DEF FilesInv, WriteInv
<1>3. CASE /\ PutText(w, b, {})
           /\ handle' = [handle EXCEPT ![w] = b]
           /\ todo' = [todo EXCEPT ![w] = "back up"]
           /\ toWrite' = toWrite
  <2>0. \A f \in Paths : PutText(w, f, {}) =>
          /\ disk' \in [Paths -> (SUBSET Pieces) \cup {NoText}]
          /\ quiet' \in [Workers -> BOOLEAN] /\ quiet'[w] = quiet[w]
          /\ disk'[f] = {} /\ \A g \in Paths \ {f} : disk'[g] = disk[g]
    BY PutFacts DEF FilesInv
  <2> HIDE DEF b
  <2>1. /\ disk' \in [Paths -> (SUBSET Pieces) \cup {NoText}]
        /\ quiet' \in [Workers -> BOOLEAN] /\ quiet'[w] = quiet[w]
        /\ disk'[b] = {} /\ \A g \in Paths \ {b} : disk'[g] = disk[g]
    BY <1>2, <1>3, <2>0
  <2>2. FilesTypeOK'
    BY <1>1, <1>2, <1>3, <2>1 DEF FilesInv, FilesTypeOK, Todo
  <2>3. WriteInv(w)'
    BY <1>1, <1>2, <1>3, <2>1 DEF FilesInv, FilesTypeOK, WriteInv, b
  <2>4. OwnStep(w) /\ HandlesStay(w)
    BY <1>1, <1>3 DEF OwnStep, HandlesStay, FilesInv, FilesTypeOK
  <2>5. HandleAt(w)'
    BY <1>2, <1>3, <2>1 DEF FilesInv, FilesTypeOK, There, HandleAt, NoText
  <2>6. {} \in SUBSET Pieces
    OBVIOUS
  <2> QED BY <1>2, <1>3, <2>2, <2>3, <2>4, <2>5, <2>6, OthersPut, Together
<1>4. CASE /\ todo' = [todo EXCEPT ![w] = "open"]
           /\ toWrite' = [toWrite EXCEPT ![w] = {w}]
           /\ UNCHANGED <<disk, handle, quiet>>
  <2>1. FilesTypeOK'
    BY <1>1, <1>4 DEF FilesInv, FilesTypeOK, Todo, Pieces
  <2>2. WriteInv(w)'
    BY <1>1, <1>2, <1>4 DEF FilesInv, FilesTypeOK, WriteInv
  <2>3. OwnStep(w) /\ HandlesStay(w) /\ \A v \in Workers \ {w} : quiet'[v] = quiet[v]
    BY <1>1, <1>4 DEF OwnStep, HandlesStay, FilesInv, FilesTypeOK
  <2>4. HandleAt(w)'
    BY <1>4 DEF FilesInv, HandleAt, There
  <2> QED BY <1>4, <2>1, <2>2, <2>3, <2>4, OthersKept, Together
<1> QED BY <1>3, <1>4 DEF OpenBackup, Step

-----------------------------------------------------------------------------
(* Three steps write what a worker has open, or do not, and close it.      *)
LEMMA CloseFacts ==
    ASSUME FilesInv, NEW w \in Workers, NEW new \in SUBSET Pieces,
           \/ handle[w] # NoPath /\ PutText(w, handle[w], new)
           \/ UNCHANGED <<disk, quiet>>,
           OwnStep(w), handle' = [handle EXCEPT ![w] = NoPath]
    PROVE  /\ disk' \in [Paths -> (SUBSET Pieces) \cup {NoText}]
           /\ quiet' \in [Workers -> BOOLEAN]
           /\ handle' \in [Workers -> Paths \cup {NoPath}]
           /\ quiet'[w] = quiet[w]
           /\ handle'[w] = NoPath
           /\ \A g \in Paths \ {handle[w]} : disk'[g] = disk[g]
           /\ \A v \in Workers \ {w} :
                 WriteInv(v)' /\ HandleAt(v)'
<1>1. HandlesStay(w) /\ handle'[w] = NoPath /\ handle' \in [Workers -> Paths \cup {NoPath}]
  BY DEF HandlesStay, FilesInv, FilesTypeOK
<1>2. CASE handle[w] # NoPath /\ PutText(w, handle[w], new)
  <2>1. handle[w] \in Paths
    BY <1>2 DEF FilesInv, FilesTypeOK
  <2> QED BY <1>1, <1>2, <2>1, PutFacts, OthersPut DEF FilesInv
<1>3. CASE UNCHANGED <<disk, quiet>>
  <2>1. \A v \in Workers \ {w} : quiet'[v] = quiet[v]
    BY <1>3
  <2> QED BY <1>1, <1>3, <2>1, OthersKept DEF FilesInv, FilesTypeOK
<1> QED BY <1>2, <1>3

LEMMA BackUpKeeps ==
    ASSUME FilesInv, NEW w \in Workers, BackUp(w)
    PROVE  FilesInv'
<1>1. /\ todo[w] = "back up" /\ todo' = [todo EXCEPT ![w] = "open"]
      /\ toWrite' = [toWrite EXCEPT ![w] = {w}]
      /\ handle' = [handle EXCEPT ![w] = NoPath]
      /\ UNCHANGED <<target, was>>
  BY DEF BackUp, Step
<1>2. OwnStep(w)
  BY <1>1 DEF BackUp, OwnStep, FilesInv, FilesTypeOK
<1>3. toWrite[w] \in SUBSET Pieces /\ kept' \in [Workers -> BOOLEAN]
  BY DEF BackUp, FilesInv, FilesTypeOK
<1>4. \/ handle[w] # NoPath /\ PutText(w, handle[w], toWrite[w])
      \/ UNCHANGED <<disk, quiet>>
  BY DEF BackUp
<1>5. /\ disk' \in [Paths -> (SUBSET Pieces) \cup {NoText}]
      /\ quiet' \in [Workers -> BOOLEAN]
      /\ handle' \in [Workers -> Paths \cup {NoPath}]
      /\ quiet'[w] = quiet[w] /\ handle'[w] = NoPath
      /\ \A g \in Paths \ {handle[w]} : disk'[g] = disk[g]
      /\ \A v \in Workers \ {w} :
            WriteInv(v)' /\ HandleAt(v)'
  BY <1>1, <1>2, <1>3, <1>4, CloseFacts
<1>6. FilesTypeOK'
  BY <1>1, <1>3, <1>5 DEF FilesInv, FilesTypeOK, Todo, Pieces
<1>7. WriteInv(w)'
  <2> DEFINE b == BackupOf[target[w]]
  <2>1. b \in Paths /\ target[w] \in Paths \ {b} /\ b # NoPath /\ target[w] \in DOMAIN BackupOf
    BY <1>1, FilesAssumption DEF FilesInv, WriteInv
  <2>2. todo'[w] = "open" /\ target'[w] = target[w] /\ was'[w] = was[w]
    BY <1>1 DEF FilesInv, FilesTypeOK
  <2>3. quiet[w] => /\ disk[target[w]] = was[w] /\ toWrite[w] = was[w] \ {Undecodable}
                    /\ handle[w] = b /\ ~kept[w]
    BY <1>1 DEF FilesInv, WriteInv
  <2>4. quiet[w] => disk'[target[w]] = was[w]
    BY <1>5, <2>1, <2>3
  <2>5. quiet[w] /\ kept'[w] => disk'[b] = toWrite[w]
    <3>1. handle[w] # NoPath /\ PutText(w, handle[w], toWrite[w]) /\ handle[w] \in Paths
             => disk'[handle[w]] = toWrite[w]
      BY <1>3, PutFacts DEF FilesInv
    <3>2. quiet[w] /\ kept' = kept => ~kept'[w]
      BY <2>3
    <3>3. quiet[w] /\ kept' # kept => PutText(w, handle[w], toWrite[w])
      BY <2>1, <2>3 DEF BackUp
    <3> QED BY <2>1, <2>3, <3>1, <3>2, <3>3
  <2> QED BY <1>5, <2>1, <2>2, <2>3, <2>4, <2>5 DEF WriteInv
<1> QED BY <1>5, <1>6, <1>7, Together DEF HandleAt

LEMMA FillKeeps ==
    ASSUME FilesInv, NEW w \in Workers, Fill(w)
    PROVE  FilesInv'
<1>1. /\ todo[w] = "fill" /\ todo' = [todo EXCEPT ![w] = "end"]
      /\ handle' = [handle EXCEPT ![w] = NoPath]
      /\ UNCHANGED <<target, toWrite, kept, was>>
  BY DEF Fill, Step
<1>2. OwnStep(w) /\ toWrite[w] \in SUBSET Pieces
  BY <1>1 DEF OwnStep, FilesInv, FilesTypeOK
<1>3. \/ handle[w] # NoPath /\ PutText(w, handle[w], toWrite[w])
      \/ UNCHANGED <<disk, quiet>>
  BY DEF Fill
<1>4. /\ disk' \in [Paths -> (SUBSET Pieces) \cup {NoText}]
      /\ quiet' \in [Workers -> BOOLEAN]
      /\ handle' \in [Workers -> Paths \cup {NoPath}]
      /\ quiet'[w] = quiet[w] /\ handle'[w] = NoPath
      /\ \A g \in Paths \ {handle[w]} : disk'[g] = disk[g]
      /\ \A v \in Workers \ {w} :
            WriteInv(v)' /\ HandleAt(v)'
  BY <1>1, <1>2, <1>3, CloseFacts
<1>5. FilesTypeOK'
  BY <1>1, <1>4 DEF FilesInv, FilesTypeOK, Todo
<1>6. WriteInv(w)'
  <2>1. quiet[w] => /\ target[w] \in DOMAIN BackupOf /\ handle[w] = target[w]
                    /\ BackupOf[target[w]] \in Paths \ {target[w]}
    BY <1>1, FilesAssumption DEF FilesInv, WriteInv
  <2>2. quiet[w] => disk'[BackupOf[target[w]]] = disk[BackupOf[target[w]]]
    BY <1>4, <2>1
  <2> QED BY <1>1, <1>4, <2>1, <2>2 DEF FilesInv, FilesTypeOK, WriteInv
<1> QED BY <1>4, <1>5, <1>6, Together DEF HandleAt

LEMMA AddKeeps ==
    ASSUME FilesInv, NEW w \in Workers, Add(w)
    PROVE  FilesInv'
<1> DEFINE new == IF handle[w] = NoPath THEN {} ELSE disk[handle[w]] \cup {w}
<1>1. /\ todo[w] = "add" /\ todo' = [todo EXCEPT ![w] = "end"]
      /\ handle' = [handle EXCEPT ![w] = NoPath]
      /\ UNCHANGED <<target, toWrite, kept, was>>
  BY DEF Add, Step
<1>2. OwnStep(w)
  BY <1>1 DEF OwnStep, FilesInv, FilesTypeOK
<1>3. new \in SUBSET Pieces
  BY DEF FilesInv, FilesTypeOK, HandleAt, There, Pieces
<1>4. \/ handle[w] # NoPath /\ PutText(w, handle[w], new)
      \/ UNCHANGED <<disk, quiet>>
  BY DEF Add
<1> HIDE DEF new
<1>5. /\ disk' \in [Paths -> (SUBSET Pieces) \cup {NoText}]
      /\ quiet' \in [Workers -> BOOLEAN]
      /\ handle' \in [Workers -> Paths \cup {NoPath}]
      /\ quiet'[w] = quiet[w] /\ handle'[w] = NoPath
      /\ \A v \in Workers \ {w} :
            WriteInv(v)' /\ HandleAt(v)'
  BY <1>1, <1>2, <1>3, <1>4, CloseFacts
<1>6. FilesTypeOK'
  BY <1>1, <1>5 DEF FilesInv, FilesTypeOK, Todo
<1>7. WriteInv(w)'
  BY <1>1, <1>5 DEF FilesInv, FilesTypeOK, WriteInv
<1> QED BY <1>5, <1>6, <1>7, Together DEF HandleAt

LEMMA OpenKeeps ==
    ASSUME FilesInv, NEW w \in Workers, Open(w)
    PROVE  FilesInv'
<1>1. /\ todo[w] = "open" /\ todo' = [todo EXCEPT ![w] = "fill"]
      /\ handle' = [handle EXCEPT ![w] = target[w]]
      /\ PutText(w, target[w], {})
      /\ UNCHANGED <<target, toWrite, kept, was>>
  BY DEF Open, Step
<1>2. target[w] \in Paths
  BY <1>1 DEF FilesInv, WriteInv
<1>3. OwnStep(w) /\ HandlesStay(w)
  BY <1>1 DEF OwnStep, HandlesStay, FilesInv, FilesTypeOK
<1>4. /\ disk' \in [Paths -> (SUBSET Pieces) \cup {NoText}]
      /\ quiet' \in [Workers -> BOOLEAN] /\ quiet'[w] = quiet[w]
      /\ disk'[target[w]] = {} /\ \A g \in Paths \ {target[w]} : disk'[g] = disk[g]
  BY <1>1, <1>2, PutFacts DEF FilesInv
<1>5. FilesTypeOK'
  BY <1>1, <1>2, <1>4 DEF FilesInv, FilesTypeOK, Todo
<1>6. WriteInv(w)'
  <2>1. quiet[w] => BackupOf[target[w]] \in Paths \ {target[w]}
    BY FilesAssumption DEF FilesInv, WriteInv
  <2>2. quiet[w] => disk'[BackupOf[target[w]]] = disk[BackupOf[target[w]]]
    BY <1>4, <2>1
  <2> QED BY <1>1, <1>2, <1>4, <2>2 DEF FilesInv, FilesTypeOK, WriteInv
<1>7. HandleAt(w)'
  BY <1>1, <1>4 DEF FilesInv, FilesTypeOK, There, HandleAt, NoText
<1> QED BY <1>1, <1>2, <1>3, <1>5, <1>6, <1>7, OthersPut, Together

-----------------------------------------------------------------------------
LEMMA EditFileKeeps ==
    ASSUME FilesInv, NEW w \in Workers, NEW f \in Paths, EditFile(w, f)
    PROVE  FilesInv'
<1>1. disk[f] \in SUBSET Pieces
  BY DEF EditFile, There, HandleAt, FilesInv, FilesTypeOK
<1>2. /\ todo[w] = "begin" /\ todo' = [todo EXCEPT ![w] = "open"]
      /\ target' = [target EXCEPT ![w] = f]
      /\ UNCHANGED <<disk, handle, kept, was, quiet>>
  BY DEF EditFile, Step
<1>3. PICK old \in disk[f] : toWrite' = [toWrite EXCEPT ![w] = (disk[f] \ {old}) \cup {w}]
  BY DEF EditFile
<1>4. FilesTypeOK'
  BY <1>1, <1>2, <1>3 DEF FilesInv, FilesTypeOK, Todo, Pieces
<1>5. WriteInv(w)'
  BY <1>2 DEF FilesInv, FilesTypeOK, WriteInv
<1>6. OwnStep(w) /\ HandlesStay(w) /\ \A v \in Workers \ {w} : quiet'[v] = quiet[v]
  BY <1>2, <1>3 DEF OwnStep, HandlesStay, FilesInv, FilesTypeOK
<1>7. HandleAt(w)'
  BY <1>2 DEF FilesInv, HandleAt, There
<1> QED BY <1>2, <1>4, <1>5, <1>6, <1>7, OthersKept, Together

LEMMA AppendFileKeeps ==
    ASSUME FilesInv, NEW w \in Workers, NEW f \in Paths, AppendFile(w, f)
    PROVE  FilesInv'
<1>1. /\ todo[w] = "begin" /\ todo' = [todo EXCEPT ![w] = "add"]
      /\ handle' = [handle EXCEPT ![w] = f]
      /\ UNCHANGED <<target, toWrite, kept, was>>
  BY DEF AppendFile, Step
<1>2. OwnStep(w) /\ HandlesStay(w)
  BY <1>1 DEF OwnStep, HandlesStay, FilesInv, FilesTypeOK
<1>3. ~quiet[w]
  BY <1>1 DEF FilesInv, WriteInv
<1>4. CASE There(f) /\ UNCHANGED <<disk, quiet>>
  <2>1. FilesTypeOK'
    BY <1>1, <1>4 DEF FilesInv, FilesTypeOK, Todo
  <2>2. WriteInv(w)' /\ HandleAt(w)'
    BY <1>1, <1>3, <1>4 DEF FilesInv, FilesTypeOK, WriteInv, There, HandleAt
  <2>3. \A v \in Workers \ {w} : quiet'[v] = quiet[v]
    BY <1>4
  <2> QED BY <1>2, <1>4, <2>1, <2>2, <2>3, OthersKept, Together
<1>5. CASE PutText(w, f, {})
  <2>1. /\ disk' \in [Paths -> (SUBSET Pieces) \cup {NoText}]
        /\ quiet' \in [Workers -> BOOLEAN] /\ ~quiet'[w] /\ disk'[f] = {}
    BY <1>3, <1>5, PutFacts DEF FilesInv
  <2>2. FilesTypeOK'
    BY <1>1, <2>1 DEF FilesInv, FilesTypeOK, Todo
  <2>3. WriteInv(w)' /\ HandleAt(w)'
    BY <1>1, <2>1 DEF FilesInv, FilesTypeOK, WriteInv, There, HandleAt, NoText
  <2> QED BY <1>2, <1>5, <2>2, <2>3, OthersPut, Together
<1> QED BY <1>4, <1>5 DEF AppendFile

LEMMA CopyFileKeeps ==
    ASSUME FilesInv, NEW w \in Workers, NEW f \in Paths, NEW g \in Paths, CopyFile(w, f, g)
    PROVE  FilesInv'
<1>1. /\ todo[w] = "begin" /\ todo' = [todo EXCEPT ![w] = "fill"]
      /\ toWrite' = [toWrite EXCEPT ![w] = disk[f]]
      /\ handle' = [handle EXCEPT ![w] = g]
      /\ PutText(w, g, {}) /\ There(f)
      /\ UNCHANGED <<target, kept, was>>
  BY DEF CopyFile, Step
<1>2. OwnStep(w) /\ HandlesStay(w) /\ ~quiet[w] /\ disk[f] \in SUBSET Pieces
  BY <1>1 DEF OwnStep, HandlesStay, FilesInv, FilesTypeOK, WriteInv, There, HandleAt
<1>3. /\ disk' \in [Paths -> (SUBSET Pieces) \cup {NoText}]
      /\ quiet' \in [Workers -> BOOLEAN] /\ ~quiet'[w] /\ disk'[g] = {}
  BY <1>1, <1>2, PutFacts DEF FilesInv
<1>4. FilesTypeOK'
  BY <1>1, <1>2, <1>3 DEF FilesInv, FilesTypeOK, Todo
<1>5. WriteInv(w)' /\ HandleAt(w)'
  BY <1>1, <1>3 DEF FilesInv, FilesTypeOK, WriteInv, There, HandleAt, NoText
<1> QED BY <1>1, <1>2, <1>4, <1>5, OthersPut, Together

(* Renaming and deleting take handles of others along, or away.            *)
Moves(w, files, new) ==
    /\ todo[w] = "begin" /\ todo' = [todo EXCEPT ![w] = "end"]
    /\ UNCHANGED <<target, toWrite, kept, was>>
    /\ \A f \in files : new[f] \in Contents
    /\ ChangeFiles(w, files, new)
    /\ handle' \in [Workers -> Paths \cup {NoPath}]
    /\ \A v \in Workers : handle[v] \notin files => handle'[v] = handle[v]
    /\ \A v \in Workers : handle[v] \in files /\ handle'[v] # NoPath =>
         handle'[v] \in files /\ new[handle'[v]] # NoText

LEMMA MoveKeeps ==
    ASSUME FilesInv, NEW w \in Workers, NEW files \in SUBSET Paths, NEW new,
           Moves(w, files, new)
    PROVE  FilesInv'
<1> USE DEF Moves
<1>0. FilesTypeOK
  BY DEF FilesInv
<1>1. /\ disk' \in [Paths -> (SUBSET Pieces) \cup {NoText}]
      /\ quiet' \in [Workers -> BOOLEAN]
      /\ quiet'[w] = quiet[w]
      /\ \A f \in files : disk'[f] = new[f]
      /\ \A f \in Paths \ files : disk'[f] = disk[f]
      /\ \A v \in Workers \ {w} : quiet'[v] =>
           quiet[v] /\ Concern(target[v]) \cap files = {}
  <2>1. Changed(w, files, new)
    BY <1>0, ChangeFacts
  <2> QED BY <2>1 DEF Changed
<1>2. FilesTypeOK'
  BY <1>1 DEF FilesInv, FilesTypeOK, Todo
<1>3. ~quiet[w] /\ WriteInv(w)'
  BY <1>1 DEF FilesInv, FilesTypeOK, WriteInv
<1>4. \A v \in Workers : HandleAt(v)'
  <2> SUFFICES ASSUME NEW v \in Workers, handle'[v] # NoPath PROVE HandleAt(v)'
    BY DEF HandleAt
  <2>1. CASE handle[v] \in files
    BY <1>1, <2>1 DEF There, HandleAt
  <2>2. CASE handle[v] \notin files
    <3>1. handle'[v] = handle[v] /\ handle[v] \in Paths \ files /\ There(handle[v])
      BY <2>2 DEF FilesInv, FilesTypeOK, HandleAt
    <3> QED BY <1>1, <3>1 DEF There, HandleAt
  <2> QED BY <2>1, <2>2
<1>5. ASSUME NEW v \in Workers \ {w} PROVE WriteInv(v)'
  <2>0. quiet'[v] => quiet[v]
    BY <1>1
  <2>1. quiet'[v] => Concern(target[v]) \subseteq Paths
    BY <2>0, FilesAssumption DEF FilesInv, WriteInv, Concern
  <2>2. quiet'[v] => /\ quiet[v]
                     /\ \A g \in Concern(target[v]) :
                          disk'[g] = disk[g] /\ (handle[v] = g => handle'[v] = g)
    BY <1>1, <2>1
  <2>3. todo'[v] = todo[v]
    BY DEF FilesInv, FilesTypeOK
  <2> QED BY <2>2, <2>3, Frame
<1> QED BY <1>2, <1>3, <1>4, <1>5, Together

LEMMA RenameFileKeeps ==
    ASSUME FilesInv, NEW w \in Workers, NEW f \in Paths, NEW g \in Paths, RenameFile(w, f, g)
    PROVE  FilesInv'
<1> DEFINE new == [x \in {f, g} |-> IF x = f THEN NoText ELSE disk[f]]
<1>1. f # g /\ There(f) /\ disk[f] \in SUBSET Pieces
  BY DEF RenameFile, There, HandleAt, FilesInv, FilesTypeOK
<1>2. new[f] = NoText /\ new[g] = disk[f]
  BY <1>1
<1>3. ChangeFiles(w, {f, g}, new)
  BY DEF RenameFile
<1>4. /\ todo[w] = "begin" /\ todo' = [todo EXCEPT ![w] = "end"]
      /\ UNCHANGED <<target, toWrite, kept, was>>
      /\ handle' = [v \in Workers |-> CASE handle[v] = f -> g
                                        [] handle[v] = g -> NoPath
                                        [] OTHER -> handle[v]]
  BY DEF RenameFile, Step
<1> HIDE DEF new
<1>5. /\ handle' \in [Workers -> Paths \cup {NoPath}]
      /\ \A v \in Workers : handle[v] \notin {f, g} => handle'[v] = handle[v]
      /\ \A v \in Workers : handle[v] \in {f, g} /\ handle'[v] # NoPath => handle'[v] = g
  BY <1>1, <1>4 DEF FilesInv, FilesTypeOK
<1>6. \A x \in {f, g} : new[x] \in (SUBSET Pieces) \cup {NoText}
  BY <1>1, <1>2
<1>7. new[g] # NoText
  BY <1>1, <1>2 DEF There, HandleAt
<1>8. Moves(w, {f, g}, new)
  BY <1>3, <1>4, <1>5, <1>6, <1>7 DEF Moves, Contents
<1> QED BY <1>8, MoveKeeps

LEMMA DeleteFileKeeps ==
    ASSUME FilesInv, NEW w \in Workers, NEW f \in Paths, DeleteFile(w, f)
    PROVE  FilesInv'
<1> DEFINE new == [g \in {f} |-> NoText]
<1>1. new[f] = NoText
  OBVIOUS
<1>2. ChangeFiles(w, {f}, new)
  BY DEF DeleteFile, PutText
<1>3. /\ todo[w] = "begin" /\ todo' = [todo EXCEPT ![w] = "end"]
      /\ UNCHANGED <<target, toWrite, kept, was>>
      /\ handle' = [v \in Workers |-> IF handle[v] = f THEN NoPath ELSE handle[v]]
  BY DEF DeleteFile, Step
<1> HIDE DEF new
<1>4. /\ handle' \in [Workers -> Paths \cup {NoPath}]
      /\ \A v \in Workers : handle[v] \notin {f} => handle'[v] = handle[v]
      /\ \A v \in Workers : handle[v] \in {f} => handle'[v] = NoPath
  BY <1>3 DEF FilesInv, FilesTypeOK
<1>5. Moves(w, {f}, new)
  BY <1>1, <1>2, <1>3, <1>4 DEF Moves, Contents
<1> QED BY <1>5, MoveKeeps

LEMMA FilesStep == FilesInv /\ [FilesNext]_filesVars => FilesInv'
<1> SUFFICES ASSUME FilesInv, [FilesNext]_filesVars PROVE FilesInv'
  OBVIOUS
<1>1. CASE UNCHANGED filesVars
  BY <1>1 DEF filesVars, FilesInv, FilesTypeOK, HandleAt, There, WriteInv
<1>2. CASE FilesNext
  <2>1. PICK w \in Workers :
        \/ \E f \in Paths :
             WriteFile(w, f) \/ EditFile(w, f) \/ AppendFile(w, f) \/ DeleteFile(w, f)
        \/ \E f, g \in Paths : RenameFile(w, f, g) \/ CopyFile(w, f, g)
        \/ ReadOld(w) \/ OpenBackup(w) \/ BackUp(w) \/ Open(w) \/ Fill(w) \/ Add(w)
    BY <1>2 DEF FilesNext
  <2> QED
    BY <2>1, WriteFileKeeps, EditFileKeeps, AppendFileKeeps, DeleteFileKeeps,
       RenameFileKeeps, CopyFileKeeps, ReadOldKeeps, OpenBackupKeeps, BackUpKeeps,
       OpenKeeps, FillKeeps, AddKeeps
<1> QED BY <1>1, <1>2

-----------------------------------------------------------------------------
(* The files, the handles and what workers are about to write have their   *)
(* types: no tool adds to a file that is not there (tools/builtin.py).     *)
THEOREM FilesType == FilesSpec => []FilesTypeOK
<1>1. FilesInv => FilesTypeOK
  BY DEF FilesInv
<1> QED BY FilesInvInit, FilesStep, <1>1, PTL DEF FilesSpec

(* The backup of write_file, however many workers run and whichever of     *)
(* them are abandoned: the text that a call replaces is in the file or, if *)
(* a backup was made, in the backup, unless another call worked on one of  *)
(* the two since.                                                          *)
THEOREM BackupsHold == FilesSpec => []BackupHolds
<1>1. FilesInv => BackupHolds
  BY DEF FilesInv, WriteInv, BackupHolds
<1> QED BY FilesInvInit, FilesStep, <1>1, PTL DEF FilesSpec

-----------------------------------------------------------------------------
Over == {"returned", "closed", "died"}

SessionOf(r) == assigned[r].session

Backed(s, call) == \E t \in toolCalls : t.session = s /\ t.call = call

(* The calls that a run has not answered yet.                              *)
OpenInv ==
    \A r \in StoredRunners : \A c \in open[r] :
        /\ reached[r] = "turn"
        /\ c.call[1] = r
        /\ c.recorded => Backed(SessionOf(r), c.call)

(* A call that was dispatched has its reply stored, or the reply is about  *)
(* to be stored, or the run is over.                                       *)
RecordInv ==
    \A t \in toolCalls : t.dispatched =>
        LET r == t.call[1] IN
        /\ t.session = SessionOf(r)
        /\ reached[r] \in Over \cup {"turn"}
        /\ reached[r] = "turn" =>
             \/ Replied(t.call, story[t.session])
             \/ \E c \in open[r] : c.call = t.call /\ c.recorded

Last(m) == m.phase \in {"shutdown", "finalization"}

(* A run whose last checkpoint is stored left no reply out.                *)
EndInv ==
    \A s \in Sessions : \A m \in marks[s] : Last(m) =>
        /\ reached[m.by] \in Over
        /\ \A t \in toolCalls : t.dispatched /\ t.session = s /\ t.call[1] = m.by =>
             Replied(t.call, story[s])

PriorInv == \A r \in StoredRunners : \A q \in ended[r] : reached[q] \in Over

ResultInv ==
    \A r \in StoredRunners :
        /\ result[r] # "none" => reached[r] \in Over
        /\ reached[r] = "returned" => assigned[r].kind = "step"

LinksInv == OpenInv /\ RecordInv /\ EndInv /\ PriorInv /\ ResultInv

StoredInv == StoredTypeOK /\ LinksInv /\ RepliesAreRecorded /\ ResumedKnowsWork /\ StepsHaveRuns

-----------------------------------------------------------------------------
LEMMA StoredInvInit == StoredInit => StoredInv
<1> SUFFICES ASSUME StoredInit PROVE StoredInv
  OBVIOUS
<1>1. StoredTypeOK
  BY StoredAssumption DEF StoredInit, StoredTypeOK, RunStages, Results
<1>2. LinksInv
  BY DEF StoredInit, LinksInv, OpenInv, RecordInv, EndInv, PriorInv, ResultInv
<1>3. RepliesAreRecorded /\ ResumedKnowsWork /\ StepsHaveRuns
  BY DEF StoredInit, RepliesAreRecorded, ResumedKnowsWork, StepsHaveRuns
<1> QED BY <1>1, <1>2, <1>3 DEF StoredInv

-----------------------------------------------------------------------------
(* Types.                                                                  *)

LEMMA AppendType ==
    ASSUME StoredTypeOK, NEW r \in StoredRunners, NEW call \in Call \cup {NoReply},
           NEW role \in {"system", "user", "assistant", "tool"},
           append_message(r, role, call)
    PROVE  story' \in [Sessions -> Seq(Row)]
<1>1. assigned[r].session \in Sessions
  BY DEF StoredTypeOK, Jobs
<1>2. [by |-> r, role |-> role, call |-> call] \in Row
  BY DEF Row
<1> QED BY <1>1, <1>2 DEF append_message, StoredTypeOK

LEMMA MarkType ==
    ASSUME StoredTypeOK, NEW r \in StoredRunners,
           NEW phase \in {"start", "resume", "shutdown", "finalization"},
           record_checkpoint(r, phase)
    PROVE  marks' \in [Sessions -> SUBSET Mark]
<1>1. assigned[r].session \in Sessions
  BY DEF StoredTypeOK, Jobs
<1>2. [by |-> r, phase |-> phase] \in Mark
  BY DEF Mark
<1> QED BY <1>1, <1>2 DEF record_checkpoint, StoredTypeOK

LEMMA RecordType ==
    ASSUME StoredTypeOK, NEW r \in StoredRunners, NEW c \in open[r], NEW d \in BOOLEAN,
           record_tool_call(r, c, d)
    PROVE  toolCalls' \subseteq ToolRow
<1>1. assigned[r].session \in Sessions /\ c.call \in Call /\ c.id \in CallIds
  BY DEF StoredTypeOK, Jobs, Pending
<1>2. ToolRowOf(r, c, d) \in ToolRow
  BY <1>1 DEF ToolRowOf, ToolRow, KeyOf
<1> QED BY <1>2 DEF record_tool_call, InsertCall, StoredTypeOK

LEMMA ReturnsType ==
    ASSUME StoredTypeOK, NEW r \in StoredRunners, NEW v \in Results, Returns(r, v)
    PROVE  /\ reached' \in [StoredRunners -> RunStages]
           /\ spent' \in [StoredRunners -> Nat]
           /\ open' \in [StoredRunners -> SUBSET Pending]
           /\ result' \in [StoredRunners -> Results]
BY DEF Returns, Forget, StoredTypeOK, RunStages

(* The steps of a run, by name.                                            *)
RunnerStep(r) ==
    \/ RunStep(r) \/ ReadStory(r) \/ AddInstruction(r) \/ BeginRun(r) \/ StoreInitial(r)
    \/ TakeCalls(r) \/ LoseTurn(r)
    \/ \E c \in open[r] : RecordCall(r, c) \/ StoreReply(r, c) \/ AnswerShort(r, c)
    \/ ShutDown(r) \/ Finalize(r) \/ RefuseAnswer(r) \/ RunOut(r)
    \/ Dies(r) \/ CloseStep(r)

LEMMA StoredTypeStep ==
    ASSUME StoredTypeOK, NEW r \in StoredRunners, RunnerStep(r)
    PROVE  StoredTypeOK'
<1> USE DEF RunStages, Results
<1>0. NoReply \in Call \cup {NoReply} /\ assigned[r].session \in Sessions
      /\ assigned[r].step \in PlanSteps
  BY DEF StoredTypeOK, Jobs
<1>1. CASE RunStep(r)
  BY <1>1 DEF RunStep, StoredTypeOK
<1>2. CASE ReadStory(r)
  <2>1. Finished(assigned[r].session) \subseteq StoredRunners
    BY <1>0 DEF Finished, list_checkpoints, StoredTypeOK, Mark
  <2> QED BY <1>0, <1>2, <2>1 DEF ReadStory, list_messages, StoredTypeOK
<1>3. CASE AddInstruction(r)
  <2>1. story' \in [Sessions -> Seq(Row)]
    BY <1>0, <1>3, AppendType DEF AddInstruction
  <2> QED BY <1>3, <2>1 DEF AddInstruction, StoredTypeOK
<1>4. CASE BeginRun(r)
  <2>1. marks' \in [Sessions -> SUBSET Mark]
    BY <1>4, MarkType DEF BeginRun
  <2> QED BY <1>4, <2>1 DEF BeginRun, StoredTypeOK
<1>5. CASE StoreInitial(r)
  <2>1. story' \in [Sessions -> Seq(Row)]
    BY <1>0, <1>5, AppendType DEF StoreInitial
  <2> QED BY <1>5, <2>1 DEF StoreInitial, StoredTypeOK
<1>6. CASE TakeCalls(r)
  <2>1. story' \in [Sessions -> Seq(Row)]
    BY <1>0, <1>6, AppendType DEF TakeCalls
  <2>a. PICK n \in 1..MaxBatch : \E ids \in [1..n -> CallIds] :
         open' = [open EXCEPT ![r] = {[call |-> <<r, spent[r] + 1, k>>, id |-> ids[k],
                                      recorded |-> FALSE] : k \in 1..n}]
    BY <1>6 DEF TakeCalls
  <2>2. PICK ids \in [1..n -> CallIds] :
         open' = [open EXCEPT ![r] = {[call |-> <<r, spent[r] + 1, k>>, id |-> ids[k],
                                      recorded |-> FALSE] : k \in 1..n}]
    BY <2>a
  <2>3. spent[r] \in Nat /\ MaxTurns[r] \in Nat /\ spent[r] < MaxTurns[r] /\ MaxBatch \in Nat
    BY <1>6, StoredAssumption DEF TakeCalls, InTurn, StoredTypeOK
  <2>4. ASSUME NEW k \in 1..n
        PROVE  [call |-> <<r, spent[r] + 1, k>>, id |-> ids[k], recorded |-> FALSE] \in Pending
    <3>1. k \in 1..MaxBatch /\ spent[r] + 1 \in Nat \ {0} /\ spent[r] + 1 <= MaxTurns[r]
      BY <2>2, <2>3
    <3>2. <<r, spent[r] + 1, k>> \in Call
      BY <3>1 DEF Call
    <3> QED BY <3>2 DEF Pending
  <2>5. open' \in [StoredRunners -> SUBSET Pending]
    BY <2>2, <2>4 DEF StoredTypeOK
  <2>6. spent' \in [StoredRunners -> Nat]
    BY <1>6, <2>3 DEF TakeCalls, StoredTypeOK
  <2> QED BY <1>6, <2>1, <2>5, <2>6 DEF TakeCalls, StoredTypeOK
<1>7. CASE LoseTurn(r)
  BY <1>7 DEF LoseTurn, StoredTypeOK
<1>8. ASSUME NEW c \in open[r], RecordCall(r, c) PROVE StoredTypeOK'
  <2>1. toolCalls' \subseteq ToolRow
    BY <1>8, RecordType DEF RecordCall
  <2>2. c \in Pending /\ [call |-> c.call, id |-> c.id, recorded |-> TRUE] \in Pending
    BY DEF StoredTypeOK, Pending
  <2> QED BY <1>8, <2>1, <2>2 DEF RecordCall, StoredTypeOK
<1>9. ASSUME NEW c \in open[r], StoreReply(r, c) PROVE StoredTypeOK'
  <2>1. c.call \in Call
    BY DEF StoredTypeOK, Pending
  <2>2. story' \in [Sessions -> Seq(Row)]
    BY <1>9, <2>1, AppendType DEF StoreReply
  <2> QED BY <1>9, <2>2 DEF StoreReply, StoredTypeOK
<1>10. ASSUME NEW c \in open[r], AnswerShort(r, c) PROVE StoredTypeOK'
  <2>1. toolCalls' \subseteq ToolRow
    BY <1>10, RecordType DEF AnswerShort
  <2> QED BY <1>10, <2>1 DEF AnswerShort, StoredTypeOK
<1>11. CASE ShutDown(r)
  <2>1. marks' \in [Sessions -> SUBSET Mark]
    BY <1>11, MarkType DEF ShutDown
  <2> QED BY <1>11, <2>1, ReturnsType DEF ShutDown, StoredTypeOK
<1>12. CASE Finalize(r)
  <2>1. story' \in [Sessions -> Seq(Row)]
    BY <1>0, <1>12, AppendType DEF Finalize
  <2>2. marks' \in [Sessions -> SUBSET Mark]
    BY <1>12, MarkType DEF Finalize, StoredTypeOK
  <2>3. PICK v \in {"final", "blocked", "failed"} : Returns(r, v)
    BY <1>12 DEF Finalize
  <2> QED BY <1>12, <2>1, <2>2, <2>3, ReturnsType DEF Finalize, StoredTypeOK
<1>13. CASE RefuseAnswer(r)
  <2>1. marks' \in [Sessions -> SUBSET Mark]
    BY <1>13, MarkType DEF RefuseAnswer, StoredTypeOK
  <2> QED BY <1>13, <2>1, ReturnsType DEF RefuseAnswer, StoredTypeOK
<1>14. CASE RunOut(r)
  BY <1>14, ReturnsType DEF RunOut, StoredTypeOK
<1>15. CASE Dies(r)
  BY <1>15 DEF Dies, Forget, StoredTypeOK
<1>16. CASE CloseStep(r)
  <2>1. stepStatus' \in [PlanSteps -> {"pending", "running", "done", "blocked", "failed"}]
    BY <1>0, <1>16 DEF CloseStep, StoredTypeOK
  <2> QED BY <1>16, <2>1 DEF CloseStep, StoredTypeOK
<1> QED
  BY <1>1, <1>2, <1>3, <1>4, <1>5, <1>6, <1>7, <1>8, <1>9, <1>10, <1>11, <1>12, <1>13,
     <1>14, <1>15, <1>16 DEF RunnerStep

-----------------------------------------------------------------------------
(* The shapes of steps: what of them the invariants depend on.             *)

BeforeTurns == {"new", "begun", "system", "question"}

OthersStay(r) ==
    /\ assigned' = assigned
    /\ \A q \in StoredRunners \ {r} :
         /\ reached'[q] = reached[q] /\ open'[q] = open[q] /\ result'[q] = result[q]
         /\ prior'[q] = prior[q] /\ ended'[q] = ended[q]

NoToolRow(r) ==
    story' = story \/ \E role \in {"system", "user", "assistant"} : append_message(r, role, NoReply)

Prepares(r) ==
    /\ reached[r] \in BeforeTurns /\ reached'[r] \in BeforeTurns \cup {"turn", "refused"}
    /\ UNCHANGED <<open, result, toolCalls>>
    /\ NoToolRow(r)
    /\ marks' = marks \/ \E phase \in {"start", "resume"} : record_checkpoint(r, phase)
    /\ UNCHANGED <<prior, ended>> \/ ReadStory(r)
    /\ assigned[r].kind = "step" => reached'[r] \notin {"new", "refused"}
    /\ stepStatus' = stepStatus \/ RunStep(r)

Works(r) ==
    /\ reached[r] = "turn"
    /\ UNCHANGED <<reached, result, marks, prior, ended, stepStatus>>
    /\ \/ TakeCalls(r) \/ LoseTurn(r)
       \/ \E c \in open[r] : RecordCall(r, c) \/ StoreReply(r, c) \/ AnswerShort(r, c)

RunEnds(r) ==
    /\ reached[r] = "turn" /\ reached'[r] \in {"returned", "closed"}
    /\ reached'[r] = "returned" <=> assigned[r].kind = "step"
    /\ open'[r] = {}
    /\ UNCHANGED <<toolCalls, prior, ended, stepStatus>>
    /\ NoToolRow(r)
    /\ \/ marks' = marks
       \/ open[r] = {} /\ \E phase \in {"shutdown", "finalization"} : record_checkpoint(r, phase)

RunStops(r) ==
    /\ reached[r] # "closed" /\ reached'[r] = "died" /\ open'[r] = {}
    /\ UNCHANGED <<result, story, toolCalls, marks, prior, ended, stepStatus>>

Closes(r) ==
    /\ reached'[r] = "closed"
    /\ UNCHANGED <<open, result, story, toolCalls, marks, prior, ended>>
    /\ CloseStep(r)

LEMMA ReturnsShape ==
    ASSUME StoredTypeOK, NEW r \in StoredRunners, NEW v \in Results, Returns(r, v),
           UNCHANGED <<assigned, prior, ended>>
    PROVE  /\ OthersStay(r) /\ reached'[r] \in {"returned", "closed"} /\ open'[r] = {}
           /\ reached'[r] = "returned" <=> assigned[r].kind = "step"
BY DEF Returns, Forget, StoredTypeOK, OthersStay

LEMMA StepShapes ==
    ASSUME StoredTypeOK, NEW r \in StoredRunners, RunnerStep(r)
    PROVE  /\ OthersStay(r)
           /\ Prepares(r) \/ Works(r) \/ RunEnds(r) \/ RunStops(r) \/ Closes(r)
<1> USE DEF Results
<1>1. CASE RunStep(r)
  BY <1>1 DEF RunStep, StoredTypeOK, OthersStay, Prepares, NoToolRow, BeforeTurns
<1>2. CASE ReadStory(r)
  BY <1>2 DEF ReadStory, StoredTypeOK, OthersStay, Prepares, NoToolRow, BeforeTurns
<1>3. CASE AddInstruction(r)
  BY <1>3 DEF AddInstruction, StoredTypeOK, OthersStay, Prepares, NoToolRow, BeforeTurns
<1>4. CASE BeginRun(r)
  BY <1>4 DEF BeginRun, StoredTypeOK, OthersStay, Prepares, NoToolRow, BeforeTurns
<1>5. CASE StoreInitial(r)
  BY <1>5 DEF StoreInitial, StoredTypeOK, OthersStay, Prepares, NoToolRow, BeforeTurns
<1>6. CASE TakeCalls(r)
  <2>1. OthersStay(r)
    BY <1>6 DEF TakeCalls, StoredTypeOK, OthersStay
  <2> QED BY <1>6, <2>1 DEF TakeCalls, InTurn, Works
<1>7. CASE LoseTurn(r)
  BY <1>7 DEF LoseTurn, InTurn, OthersStay, Works
<1>8. ASSUME NEW c \in open[r], RecordCall(r, c) \/ StoreReply(r, c) \/ AnswerShort(r, c)
      PROVE  OthersStay(r) /\ Works(r)
  BY <1>8 DEF RecordCall, StoreReply, AnswerShort, StoredTypeOK, OthersStay, Works
<1>9. CASE ShutDown(r)
  <2>1. Returns(r, "failed") /\ UNCHANGED <<assigned, prior, ended>>
    BY <1>9 DEF ShutDown
  <2> QED BY <1>9, <2>1, ReturnsShape DEF ShutDown, InTurn, RunEnds, NoToolRow
<1>10. CASE Finalize(r)
  <2>1. PICK v \in {"final", "blocked", "failed"} : Returns(r, v)
    BY <1>10 DEF Finalize
  <2>2. OthersStay(r) /\ reached'[r] \in {"returned", "closed"} /\ open'[r] = {}
        /\ (reached'[r] = "returned" <=> assigned[r].kind = "step")
    BY <1>10, <2>1, ReturnsShape DEF Finalize
  <2> QED BY <1>10, <2>2 DEF Finalize, InTurn, RunEnds, NoToolRow
<1>11. CASE RefuseAnswer(r)
  <2>1. Returns(r, "blocked") /\ UNCHANGED <<assigned, prior, ended>>
    BY <1>11 DEF RefuseAnswer
  <2> QED BY <1>11, <2>1, ReturnsShape DEF RefuseAnswer, InTurn, RunEnds, NoToolRow
<1>12. CASE RunOut(r)
  <2>1. PICK v \in {"blocked", "failed"} : Returns(r, v)
    BY <1>12 DEF RunOut
  <2>2. OthersStay(r) /\ reached'[r] \in {"returned", "closed"} /\ open'[r] = {}
        /\ (reached'[r] = "returned" <=> assigned[r].kind = "step")
    BY <1>12, <2>1, ReturnsShape DEF RunOut
  <2> QED BY <1>12, <2>2 DEF RunOut, RunEnds, NoToolRow
<1>13. CASE Dies(r)
  BY <1>13 DEF Dies, Forget, StoredTypeOK, OthersStay, RunStops
<1>14. CASE CloseStep(r)
  BY <1>14 DEF CloseStep, StoredTypeOK, OthersStay, Closes
<1> QED
  BY <1>1, <1>2, <1>3, <1>4, <1>5, <1>6, <1>7, <1>8, <1>9, <1>10, <1>11, <1>12, <1>13, <1>14
     DEF RunnerStep

-----------------------------------------------------------------------------
(* Rows are only added.                                                    *)

LEMMA RepliedAppend ==
    ASSUME NEW rows \in Seq(Row), NEW row \in Row, NEW call
    PROVE  /\ Replied(call, rows) => Replied(call, Append(rows, row))
           /\ row.role = "tool" => Replied(row.call, Append(rows, row))
           /\ \A i \in DOMAIN Append(rows, row) :
                Append(rows, row)[i] = row \/ (i \in DOMAIN rows /\ Append(rows, row)[i] = rows[i])
<1>1. DOMAIN rows = 1..Len(rows) /\ DOMAIN Append(rows, row) = 1..(Len(rows) + 1)
      /\ Len(rows) \in Nat
  OBVIOUS
<1>2. /\ \A i \in DOMAIN rows : i \in DOMAIN Append(rows, row) /\ Append(rows, row)[i] = rows[i]
      /\ Append(rows, row)[Len(rows) + 1] = row /\ Len(rows) + 1 \in DOMAIN Append(rows, row)
  BY <1>1
<1> QED BY <1>1, <1>2 DEF Replied

LEMMA StoryGrows ==
    ASSUME StoredTypeOK, NEW r \in StoredRunners, RunnerStep(r),
           NEW s \in Sessions, NEW call, Replied(call, story[s])
    PROVE  Replied(call, story'[s])
<1>1. CASE story' = story
  BY <1>1
<1>2. ASSUME NEW role \in {"system", "user", "assistant", "tool"}, NEW x \in Call \cup {NoReply},
             append_message(r, role, x)
      PROVE  Replied(call, story'[s])
  <2>1. [by |-> r, role |-> role, call |-> x] \in Row /\ story[s] \in Seq(Row)
    BY DEF Row, StoredTypeOK
  <2>2. story'[s] = story[s] \/ story'[s] = Append(story[s], [by |-> r, role |-> role, call |-> x])
    BY <1>2 DEF append_message, StoredTypeOK
  <2> QED BY <2>1, <2>2, RepliedAppend
<1>3. NoToolRow(r) => Replied(call, story'[s])
  BY <1>1, <1>2 DEF NoToolRow
<1>4. ASSUME NEW c \in open[r], StoreReply(r, c) PROVE Replied(call, story'[s])
  <2>1. c.call \in Call
    BY DEF StoredTypeOK, Pending
  <2> QED BY <1>2, <1>4, <2>1 DEF StoreReply
<1>5. TakeCalls(r) => Replied(call, story'[s])
  BY <1>2 DEF TakeCalls
<1>6. LoseTurn(r) \/ (\E c \in open[r] : RecordCall(r, c) \/ AnswerShort(r, c))
         => Replied(call, story'[s])
  BY <1>1 DEF LoseTurn, RecordCall, AnswerShort
<1>7. Works(r) => Replied(call, story'[s])
  BY <1>4, <1>5, <1>6 DEF Works
<1> QED BY <1>1, <1>3, <1>7, StepShapes DEF Prepares, RunEnds, RunStops, Closes

LEMMA NewRecords ==
    ASSUME StoredTypeOK, OpenInv, NEW r \in StoredRunners, RunnerStep(r)
    PROVE  /\ toolCalls \subseteq toolCalls'
           /\ \A t \in toolCalls' \ toolCalls :
                /\ t.session = SessionOf(r) /\ t.call[1] = r
                /\ reached[r] = "turn" /\ reached' = reached
                /\ t.dispatched => \E c \in open'[r] : c.call = t.call /\ c.recorded
<1>1. toolCalls' = toolCalls \/ \E c \in open[r] : RecordCall(r, c) \/ AnswerShort(r, c)
  <2>1. Works(r) => toolCalls' = toolCalls \/ \E c \in open[r] : RecordCall(r, c) \/ AnswerShort(r, c)
    BY DEF Works, TakeCalls, LoseTurn, StoreReply
  <2> QED BY <2>1, StepShapes DEF Prepares, RunEnds, RunStops, Closes
<1>2. CASE toolCalls' = toolCalls
  BY <1>2
<1>3. ASSUME NEW c \in open[r], RecordCall(r, c) \/ AnswerShort(r, c)
      PROVE  /\ toolCalls \subseteq toolCalls'
             /\ \A t \in toolCalls' \ toolCalls :
                  /\ t.session = SessionOf(r) /\ t.call[1] = r
                  /\ reached[r] = "turn" /\ reached' = reached
                  /\ t.dispatched => \E b \in open'[r] : b.call = t.call /\ b.recorded
  <2>1. c.call[1] = r /\ reached[r] = "turn" /\ reached' = reached
    BY <1>3 DEF OpenInv, RecordCall, AnswerShort
  <2>2. CASE RecordCall(r, c)
    <3>1. toolCalls' = toolCalls \cup {ToolRowOf(r, c, TRUE)}
      BY <2>2 DEF RecordCall, record_tool_call, InsertCall
    <3>2. [call |-> c.call, id |-> c.id, recorded |-> TRUE] \in open'[r]
      BY <2>2 DEF RecordCall, StoredTypeOK
    <3> QED BY <2>1, <3>1, <3>2 DEF ToolRowOf, SessionOf
  <2>3. CASE AnswerShort(r, c)
    <3>1. toolCalls' = toolCalls \cup {ToolRowOf(r, c, FALSE)}
      BY <2>3 DEF AnswerShort, record_tool_call, InsertCall
    <3> QED BY <2>1, <3>1 DEF ToolRowOf, SessionOf
  <2> QED BY <1>3, <2>2, <2>3
<1> QED BY <1>1, <1>2, <1>3

LEMMA NewMarks ==
    ASSUME StoredTypeOK, NEW r \in StoredRunners, RunnerStep(r),
           NEW s \in Sessions, NEW m \in marks'[s] \ marks[s], Last(m)
    PROVE  /\ m.by = r /\ s = SessionOf(r) /\ RunEnds(r) /\ open[r] = {}
<1>1. ASSUME NEW phase, record_checkpoint(r, phase)
      PROVE  m = [by |-> r, phase |-> phase] /\ s = SessionOf(r)
  BY <1>1 DEF record_checkpoint, StoredTypeOK, SessionOf
<1>2. ~Prepares(r)
  BY <1>1 DEF Prepares, Last
<1>3. RunEnds(r) /\ open[r] = {} /\ \E phase \in {"shutdown", "finalization"} : record_checkpoint(r, phase)
  BY <1>2, StepShapes DEF Works, RunEnds, RunStops, Closes
<1> QED BY <1>1, <1>3

-----------------------------------------------------------------------------
(* A run that is over stays so, and one in its turns stays there or ends.  *)
LEMMA OverStays ==
    ASSUME StoredTypeOK, NEW r \in StoredRunners, RunnerStep(r), NEW q \in StoredRunners
    PROVE  /\ assigned' = assigned
           /\ reached[q] \in Over => reached'[q] \in Over
           /\ reached[q] = "turn" => reached'[q] \in Over \cup {"turn"}
BY StepShapes DEF OthersStay, Prepares, Works, RunEnds, RunStops, Closes, CloseStep, Over, BeforeTurns

LEMMA BackedGrows ==
    ASSUME StoredTypeOK, OpenInv, NEW r \in StoredRunners, RunnerStep(r), NEW s, NEW call,
           Backed(s, call)
    PROVE  Backed(s, call)'
BY NewRecords DEF Backed

LEMMA OpenStep ==
    ASSUME StoredTypeOK, OpenInv, NEW r \in StoredRunners, RunnerStep(r)
    PROVE  OpenInv'
<1>1. assigned' = assigned
  BY OverStays
<1> SUFFICES ASSUME NEW q \in StoredRunners, NEW c \in open'[q]
             PROVE  /\ reached'[q] = "turn" /\ c.call[1] = q
                    /\ c.recorded => Backed(SessionOf(q), c.call)'
  BY <1>1 DEF OpenInv, SessionOf
<1>2. ASSUME c \in open[q], reached'[q] = reached[q]
      PROVE  /\ reached'[q] = "turn" /\ c.call[1] = q
             /\ c.recorded => Backed(SessionOf(q), c.call)'
  BY <1>1, <1>2, BackedGrows DEF OpenInv, SessionOf
<1>3. CASE q # r
  BY <1>2, <1>3, StepShapes DEF OthersStay
<1>4. CASE q = r /\ Works(r)
  <2>1. reached'[r] = "turn"
    BY <1>4 DEF Works
  <2>2. CASE TakeCalls(r)
    <3>1. c.call[1] = r /\ ~c.recorded
      BY <1>4, <2>2 DEF TakeCalls, StoredTypeOK
    <3> QED BY <1>4, <2>1, <3>1
  <2>3. ASSUME NEW d \in open[r], RecordCall(r, d)
        PROVE  c.call[1] = q /\ (c.recorded => Backed(SessionOf(q), c.call)')
    <3>1. c \in open[r] \/ c = [call |-> d.call, id |-> d.id, recorded |-> TRUE]
      BY <1>4, <2>3 DEF RecordCall, StoredTypeOK
    <3>2. ToolRowOf(r, d, TRUE) \in toolCalls'
      BY <2>3 DEF RecordCall, record_tool_call, InsertCall
    <3>3. Backed(SessionOf(r), d.call)' /\ d.call[1] = r
      BY <1>1, <3>2 DEF Backed, SessionOf, ToolRowOf, OpenInv
    <3>4. CASE c = [call |-> d.call, id |-> d.id, recorded |-> TRUE]
      BY <1>4, <3>3, <3>4
    <3> QED BY <1>2, <1>4, <2>1, <3>1, <3>4 DEF Works
  <2>4. ASSUME LoseTurn(r) \/ \E d \in open[r] : StoreReply(r, d) \/ AnswerShort(r, d)
        PROVE  c \in open[r]
    BY <1>4, <2>4 DEF LoseTurn, StoreReply, AnswerShort, StoredTypeOK
  <2> QED BY <1>2, <1>4, <2>1, <2>2, <2>3, <2>4 DEF Works
<1>5. CASE q = r /\ Prepares(r)
  BY <1>5 DEF Prepares, OpenInv, BeforeTurns
<1>6. CASE q = r /\ Closes(r)
  BY <1>6 DEF Closes, CloseStep, OpenInv
<1>7. CASE q = r /\ (RunEnds(r) \/ RunStops(r))
  BY <1>7 DEF RunEnds, RunStops
<1> QED BY <1>3, <1>4, <1>5, <1>6, <1>7, StepShapes

LEMMA RecordStep ==
    ASSUME StoredTypeOK, OpenInv, RecordInv, NEW r \in StoredRunners, RunnerStep(r)
    PROVE  RecordInv'
<1>1. assigned' = assigned
  BY OverStays
<1> SUFFICES ASSUME NEW t \in toolCalls', t.dispatched
             PROVE  /\ t.session = SessionOf(t.call[1])'
                    /\ reached'[t.call[1]] \in Over \cup {"turn"}
                    /\ reached'[t.call[1]] = "turn" =>
                         \/ Replied(t.call, story'[t.session])
                         \/ \E c \in open'[t.call[1]] : c.call = t.call /\ c.recorded
  BY DEF RecordInv
<1>2. CASE t \notin toolCalls
  BY <1>1, <1>2, NewRecords DEF SessionOf
<1>3. CASE t \in toolCalls
  <2> DEFINE q == t.call[1]
  <2>1. t.session \in Sessions /\ q \in StoredRunners
    BY <1>3 DEF StoredTypeOK, ToolRow, Call
  <2>2. /\ t.session = SessionOf(q) /\ reached[q] \in Over \cup {"turn"}
        /\ reached[q] = "turn" => \/ Replied(t.call, story[t.session])
                                  \/ \E c \in open[q] : c.call = t.call /\ c.recorded
    BY <1>3 DEF RecordInv
  <2>3. reached'[q] \in Over \cup {"turn"} /\ (reached'[q] = "turn" => reached[q] = "turn")
    BY <2>1, <2>2, OverStays DEF Over
  <2>4. Replied(t.call, story[t.session]) => Replied(t.call, story'[t.session])
    BY <2>1, StoryGrows
  <2>5. ASSUME reached'[q] = "turn", NEW c \in open[q], c.call = t.call, c.recorded
        PROVE  c \in open'[q] \/ Replied(t.call, story'[t.session])
    <3>1. CASE q # r
      BY <2>1, <2>5, <3>1, StepShapes DEF OthersStay
    <3>2. CASE q = r /\ Works(r)
      <4>1. ~TakeCalls(r) /\ ~LoseTurn(r)
        BY <2>5, <3>2 DEF TakeCalls, LoseTurn, InTurn
      <4>2. PICK d \in open[r] : RecordCall(r, d) \/ StoreReply(r, d) \/ AnswerShort(r, d)
        BY <3>2, <4>1 DEF Works
      <4>3. ~RecordCall(r, d) /\ ~AnswerShort(r, d)
        BY <2>5, <3>2 DEF RecordCall, AnswerShort, Settled
      <4>4. CASE d # c
        BY <2>5, <3>2, <4>2, <4>3, <4>4 DEF StoreReply, StoredTypeOK
      <4>5. CASE d = c
        <5>1. c.call \in Call
          BY <2>5, <3>2 DEF StoredTypeOK, Pending
        <5>2. story' = [story EXCEPT ![SessionOf(r)] =
                          Append(@, [by |-> r, role |-> "tool", call |-> c.call])]
          BY <4>2, <4>3, <4>5 DEF StoreReply, append_message, SessionOf
        <5>3. [by |-> r, role |-> "tool", call |-> c.call] \in Row /\ story[t.session] \in Seq(Row)
          BY <2>1, <5>1 DEF Row, StoredTypeOK
        <5>4. story'[t.session] = Append(story[t.session], [by |-> r, role |-> "tool", call |-> c.call])
          BY <2>1, <2>2, <3>2, <5>2 DEF StoredTypeOK
        <5> QED BY <2>5, <5>3, <5>4, RepliedAppend
      <4> QED BY <4>4, <4>5
    <3>3. CASE q = r /\ ~Works(r)
      BY <2>3, <2>5, <3>3, StepShapes DEF Prepares, RunEnds, RunStops, Closes, BeforeTurns
    <3> QED BY <3>1, <3>2, <3>3
  <2> QED BY <1>1, <2>2, <2>3, <2>4, <2>5 DEF SessionOf
<1> QED BY <1>2, <1>3

LEMMA EndStep ==
    ASSUME StoredTypeOK, OpenInv, RecordInv, EndInv, NEW r \in StoredRunners, RunnerStep(r)
    PROVE  EndInv'
<1> SUFFICES ASSUME NEW s \in Sessions, NEW m \in marks'[s], Last(m)
             PROVE  /\ reached'[m.by] \in Over
                    /\ \A t \in toolCalls' : t.dispatched /\ t.session = s /\ t.call[1] = m.by =>
                         Replied(t.call, story'[s])
  BY DEF EndInv
<1>1. CASE m \in marks[s]
  <2>1. m.by \in StoredRunners /\ reached[m.by] \in Over
    BY <1>1 DEF EndInv, StoredTypeOK, Mark
  <2>2. reached'[m.by] \in Over
    BY <2>1, OverStays
  <2>3. ASSUME NEW t \in toolCalls', t.dispatched, t.session = s, t.call[1] = m.by
        PROVE  Replied(t.call, story'[s])
    <3>1. t \in toolCalls
      BY <2>1, <2>3, NewRecords DEF Over
    <3>2. Replied(t.call, story[s])
      BY <1>1, <2>3, <3>1 DEF EndInv
    <3> QED BY <3>2, StoryGrows
  <2> QED BY <2>2, <2>3
<1>2. CASE m \notin marks[s]
  <2>1. m.by = r /\ s = SessionOf(r) /\ RunEnds(r) /\ open[r] = {}
    BY <1>2, NewMarks
  <2>2. reached[r] = "turn" /\ reached'[r] \in Over /\ toolCalls' = toolCalls
    BY <2>1 DEF RunEnds, Over
  <2>3. ASSUME NEW t \in toolCalls', t.dispatched, t.session = s, t.call[1] = r
        PROVE  Replied(t.call, story'[s])
    <3>1. Replied(t.call, story[s])
      BY <2>1, <2>2, <2>3 DEF RecordInv
    <3> QED BY <3>1, StoryGrows
  <2> QED BY <2>1, <2>2, <2>3
<1> QED BY <1>1, <1>2

(* What a resumed run has read: the rows of its session, and who had       *)
(* stored a last checkpoint.                                               *)
LEMMA PriorFacts ==
    ASSUME StoredTypeOK, EndInv, NEW r \in StoredRunners, RunnerStep(r), NEW x \in StoredRunners
    PROVE  \/ prior'[x] = prior[x] /\ ended'[x] = ended[x]
           \/ /\ x = r /\ toolCalls' = toolCalls
              /\ prior'[x] = story[SessionOf(x)]
              /\ \A q \in ended'[x] : \E m \in marks[SessionOf(x)] : m.by = q /\ Last(m)
<1>1. CASE ReadStory(r)
  <2>1. CASE x # r
    BY <2>1, StepShapes DEF OthersStay
  <2>2. CASE x = r
    <3>1. /\ toolCalls' = toolCalls /\ prior'[x] = story[SessionOf(x)]
          /\ ended'[x] = Finished(SessionOf(x))
      BY <1>1, <2>2 DEF ReadStory, StoredTypeOK, list_messages, SessionOf
    <3> QED BY <2>2, <3>1 DEF Finished, list_checkpoints, Last
  <2> QED BY <2>1, <2>2
<1>2. CASE ~ReadStory(r)
  BY <1>2, StepShapes DEF OthersStay, Prepares, Works, RunEnds, RunStops, Closes
<1> QED BY <1>1, <1>2

LEMMA PriorStep ==
    ASSUME StoredTypeOK, EndInv, PriorInv, NEW r \in StoredRunners, RunnerStep(r)
    PROVE  PriorInv'
<1> SUFFICES ASSUME NEW x \in StoredRunners, NEW q \in ended'[x] PROVE reached'[q] \in Over
  BY DEF PriorInv
<1>1. SessionOf(x) \in Sessions
  BY DEF StoredTypeOK, Jobs, SessionOf
<1>2. q \in StoredRunners
  <2>1. \A m \in marks[SessionOf(x)] : m.by \in StoredRunners
    BY <1>1 DEF StoredTypeOK, Mark
  <2>2. CASE ended'[x] = ended[x]
    BY <2>2 DEF StoredTypeOK
  <2>3. CASE \A k \in ended'[x] : \E m \in marks[SessionOf(x)] : m.by = k /\ Last(m)
    BY <2>1, <2>3
  <2> QED BY <2>2, <2>3, PriorFacts
<1>3. reached[q] \in Over
  BY <1>1, PriorFacts DEF PriorInv, EndInv
<1> QED BY <1>2, <1>3, OverStays

LEMMA ResumedStep ==
    ASSUME StoredTypeOK, OpenInv, EndInv, PriorInv, ResumedKnowsWork,
           NEW r \in StoredRunners, RunnerStep(r)
    PROVE  ResumedKnowsWork'
<1>1. assigned' = assigned
  BY OverStays
<1> SUFFICES ASSUME NEW x \in StoredRunners, prior'[x] # <<>>, NEW t \in toolCalls',
                    t.dispatched, t.session = SessionOf(x), t.call[1] \in ended'[x]
             PROVE  Replied(t.call, prior'[x])
  BY <1>1 DEF ResumedKnowsWork, SessionOf
<1>2. CASE prior'[x] = prior[x] /\ ended'[x] = ended[x]
  <2>1. reached[t.call[1]] \in Over
    BY <1>2 DEF PriorInv
  <2>2. t \in toolCalls
    BY <2>1, NewRecords DEF Over
  <2> QED BY <1>2, <2>2 DEF ResumedKnowsWork, SessionOf
<1>3. CASE /\ x = r /\ toolCalls' = toolCalls
           /\ prior'[x] = story[SessionOf(x)]
           /\ \A q \in ended'[x] : \E m \in marks[SessionOf(x)] : m.by = q /\ Last(m)
  <2>1. SessionOf(x) \in Sessions
    BY DEF StoredTypeOK, Jobs, SessionOf
  <2>2. PICK m \in marks[SessionOf(x)] : m.by = t.call[1] /\ Last(m)
    BY <1>3
  <2> QED BY <1>3, <2>1, <2>2 DEF EndInv
<1> QED BY <1>2, <1>3, PriorFacts

LEMMA ResultStep ==
    ASSUME StoredTypeOK, ResultInv, NEW r \in StoredRunners, RunnerStep(r)
    PROVE  /\ ResultInv'
           /\ \A q \in StoredRunners : result[q] # "none" => result'[q] = result[q]
<1>1. \A q \in StoredRunners \ {r} : result'[q] = result[q] /\ reached'[q] = reached[q]
  BY StepShapes DEF OthersStay
<1>2. result'[r] = result[r] \/ RunEnds(r)
  BY StepShapes DEF Prepares, Works, RunStops, Closes
<1>3. RunEnds(r) => result[r] = "none" /\ reached'[r] \in Over
  BY DEF RunEnds, ResultInv, Over
<1>4. assigned' = assigned /\ (reached[r] \in Over => reached'[r] \in Over)
  BY OverStays
<1>5. reached'[r] = "returned" => assigned[r].kind = "step"
  BY StepShapes DEF Prepares, Works, RunEnds, RunStops, Closes, BeforeTurns
<1> QED BY <1>1, <1>2, <1>3, <1>4, <1>5 DEF ResultInv

-----------------------------------------------------------------------------
LEMMA RepliesStep ==
    ASSUME StoredTypeOK, OpenInv, RepliesAreRecorded, NEW r \in StoredRunners, RunnerStep(r)
    PROVE  RepliesAreRecorded'
<1> SUFFICES ASSUME NEW s \in Sessions, NEW i \in DOMAIN story'[s], story'[s][i].role = "tool"
             PROVE  \E t \in toolCalls' : t.session = s /\ t.call = story'[s][i].call
  BY DEF RepliesAreRecorded
<1> DEFINE BackedNow == \E t \in toolCalls' : t.session = s /\ t.call = story'[s][i].call
<1>1. ASSUME i \in DOMAIN story[s], story'[s][i] = story[s][i]
      PROVE  BackedNow
  <2>1. Backed(s, story[s][i].call)
    BY <1>1 DEF RepliesAreRecorded, Backed
  <2> QED BY <1>1, <2>1, NewRecords DEF Backed
<1>2. ASSUME NEW role \in {"system", "user", "assistant", "tool"}, NEW x \in Call \cup {NoReply},
             append_message(r, role, x)
      PROVE  \/ i \in DOMAIN story[s] /\ story'[s][i] = story[s][i]
             \/ s = SessionOf(r) /\ story'[s][i] = [by |-> r, role |-> role, call |-> x]
  <2>1. [by |-> r, role |-> role, call |-> x] \in Row /\ story[s] \in Seq(Row)
    BY DEF Row, StoredTypeOK
  <2>2. \/ s # SessionOf(r) /\ story'[s] = story[s]
        \/ s = SessionOf(r)
           /\ story'[s] = Append(story[s], [by |-> r, role |-> role, call |-> x])
    BY <1>2 DEF append_message, StoredTypeOK, SessionOf
  <2> QED BY <2>1, <2>2, RepliedAppend
<1>3. CASE story' = story
  BY <1>1, <1>3
<1>4. ASSUME NoToolRow(r) PROVE BackedNow
  <2>1. ASSUME NEW role \in {"system", "user", "assistant"}, append_message(r, role, NoReply)
        PROVE  i \in DOMAIN story[s] /\ story'[s][i] = story[s][i]
    <3>1. \/ i \in DOMAIN story[s] /\ story'[s][i] = story[s][i]
          \/ story'[s][i] = [by |-> r, role |-> role, call |-> NoReply]
      BY <1>2, <2>1
    <3>2. [by |-> r, role |-> role, call |-> NoReply].role # "tool"
      BY <2>1
    <3> QED BY <3>1, <3>2
  <2> QED BY <1>1, <1>3, <1>4, <2>1 DEF NoToolRow
<1>5. ASSUME NEW c \in open[r], StoreReply(r, c) PROVE BackedNow
  <2>1. c.call \in Call /\ c.recorded /\ append_message(r, "tool", c.call) /\ toolCalls' = toolCalls
    BY <1>5 DEF StoredTypeOK, Pending, StoreReply
  <2>2. Backed(SessionOf(r), c.call)
    BY <2>1 DEF OpenInv
  <2>3. s = SessionOf(r) /\ story'[s][i].call = c.call => BackedNow
    BY <2>1, <2>2 DEF Backed
  <2>4. \/ i \in DOMAIN story[s] /\ story'[s][i] = story[s][i]
        \/ s = SessionOf(r) /\ story'[s][i] = [by |-> r, role |-> "tool", call |-> c.call]
    BY <1>2, <2>1
  <2>5. CASE i \in DOMAIN story[s] /\ story'[s][i] = story[s][i]
    BY <1>1, <2>5
  <2>6. CASE s = SessionOf(r) /\ story'[s][i] = [by |-> r, role |-> "tool", call |-> c.call]
    BY <2>3, <2>6
  <2> QED BY <2>4, <2>5, <2>6
<1> HIDE DEF BackedNow
<1>6. story' = story \/ NoToolRow(r) \/ \E c \in open[r] : StoreReply(r, c)
  <2>1. TakeCalls(r) => NoToolRow(r)
    BY DEF TakeCalls, NoToolRow
  <2>2. LoseTurn(r) \/ (\E c \in open[r] : RecordCall(r, c) \/ AnswerShort(r, c)) => story' = story
    BY DEF LoseTurn, RecordCall, AnswerShort
  <2>3. Works(r) => story' = story \/ NoToolRow(r) \/ \E c \in open[r] : StoreReply(r, c)
    BY <2>1, <2>2 DEF Works
  <2> QED BY <2>3, StepShapes DEF Prepares, RunEnds, RunStops, Closes
<1>7. ASSUME \E c \in open[r] : StoreReply(r, c) PROVE BackedNow
  BY <1>5, <1>7
<1> QED BY <1>3, <1>4, <1>6, <1>7 DEF BackedNow

LEMMA StepsStep ==
    ASSUME StoredTypeOK, ResultInv, StepsHaveRuns, NEW r \in StoredRunners, RunnerStep(r)
    PROVE  StepsHaveRuns'
<1>1. assigned' = assigned
  BY OverStays
<1> DEFINE Its(p) == {q \in StoredRunners : assigned[q].kind = "step" /\ assigned[q].step = p}
           AtRest == {"new", "closed", "refused"}
<1> SUFFICES ASSUME NEW p \in PlanSteps
             PROVE  /\ stepStatus'[p] = "running" => \E q \in Its(p) : reached'[q] \notin AtRest
                    /\ stepStatus'[p] = "done" => \E q \in Its(p) : result'[q] = "final"
  BY <1>1 DEF StepsHaveRuns
<1>2. /\ stepStatus[p] = "running" => \E q \in Its(p) : reached[q] \notin AtRest
      /\ stepStatus[p] = "done" => \E q \in Its(p) : result[q] = "final"
  BY DEF StepsHaveRuns
<1>3. ASSUME stepStatus'[p] = "done", stepStatus[p] = "done"
      PROVE  \E q \in Its(p) : result'[q] = "final"
  BY <1>2, <1>3, ResultStep
<1>4. CASE RunStep(r)
  <2>1. /\ assigned[r].kind = "step" /\ reached'[r] = "begun"
        /\ stepStatus'[p] = stepStatus[p] \/ (r \in Its(p) /\ stepStatus'[p] = "running")
    BY <1>4 DEF RunStep, StoredTypeOK
  <2>2. \A q \in Its(p) \ {r} : reached'[q] = reached[q]
    BY StepShapes DEF OthersStay
  <2> QED BY <1>2, <1>3, <2>1, <2>2
<1>5. CASE Closes(r)
  <2>1. /\ assigned[r].step # p => stepStatus'[p] = stepStatus[p]
        /\ assigned[r].step = p =>
             /\ stepStatus'[p] # "running"
             /\ stepStatus'[p] = "done" => result[r] = "final"
    BY <1>5 DEF Closes, CloseStep, StoredTypeOK
  <2>2. result' = result /\ reached[r] = "returned"
    BY <1>5 DEF Closes, CloseStep
  <2>3. \A q \in Its(p) \ {r} : reached'[q] = reached[q]
    BY StepShapes DEF OthersStay
  <2>4. CASE assigned[r].step # p
    BY <1>2, <2>1, <2>2, <2>3, <2>4
  <2>5. CASE assigned[r].step = p
    <3>1. r \in Its(p)
      BY <2>2, <2>5 DEF ResultInv
    <3> QED BY <2>1, <2>2, <2>5, <3>1
  <2> QED BY <2>4, <2>5
<1>6. CASE ~RunStep(r) /\ ~Closes(r)
  <2>1. stepStatus' = stepStatus
    BY <1>6, StepShapes DEF Prepares, Works, RunEnds, RunStops
  <2>2. \A q \in Its(p) : reached[q] \notin AtRest => reached'[q] \notin AtRest
    BY <1>6, StepShapes DEF OthersStay, Prepares, Works, RunEnds, RunStops, BeforeTurns
  <2> QED BY <1>2, <1>3, <2>1, <2>2
<1> QED BY <1>4, <1>5, <1>6

-----------------------------------------------------------------------------
LEMMA StoredInvStep == StoredInv /\ [StoredNext]_storedVars => StoredInv'
<1> SUFFICES ASSUME StoredInv, [StoredNext]_storedVars PROVE StoredInv'
  OBVIOUS
<1>1. CASE UNCHANGED storedVars
  BY <1>1 DEF storedVars, StoredInv, StoredTypeOK, LinksInv, OpenInv, RecordInv, EndInv,
              PriorInv, ResultInv, RepliesAreRecorded, ResumedKnowsWork, StepsHaveRuns,
              Backed, SessionOf
<1>2. CASE StoredNext
  <2>1. PICK r \in StoredRunners : RunnerStep(r)
    BY <1>2 DEF StoredNext, RunnerStep
  <2>2. LinksInv'
    BY <2>1, OpenStep, RecordStep, EndStep, PriorStep, ResultStep DEF StoredInv, LinksInv
  <2> QED BY <2>1, <2>2, StoredTypeStep, RepliesStep, ResumedStep, StepsStep
          DEF StoredInv, LinksInv
<1> QED BY <1>1, <1>2

(* The runs' own state and the tables of the database have their types.    *)
THEOREM StoredType == StoredSpec => []StoredTypeOK
<1>1. StoredInv => StoredTypeOK
  BY DEF StoredInv
<1> QED BY StoredInvInit, StoredInvStep, <1>1, PTL DEF StoredSpec

(* What the database says is true (state/sqlite_store.py as runtime/loop.py *)
(* and the execution controller use it), for any number of runs, however    *)
(* they overlap and wherever they die: replies have records, a resumed run  *)
(* knows the work of the runs that left their last checkpoint, and plan     *)
(* steps have the runs that their status speaks of.                         *)
THEOREM StoreIsTrue == StoredSpec => []StoreTellsTrue
<1>1. StoredInv => StoreTellsTrue
  BY DEF StoredInv, StoreTellsTrue
<1> QED BY StoredInvInit, StoredInvStep, <1>1, PTL DEF StoredSpec

-----------------------------------------------------------------------------
(* Repair plans: what a log of attempts comes to.                          *)

\* Among the first n numbers there is a last one: the intervals from such a number on are
\* finite sets, and inclusion is well-founded on these.
LEMMA LastNat ==
    ASSUME NEW n \in Nat, NEW T \in SUBSET (1..n), T # {}
    PROVE  \E x \in T : \A y \in T : y <= x
<1> DEFINE U == {x..n : x \in T}
<1>1. IsWellFoundedOn(StrictSubsetOrdering(Nat), FiniteSubsetsOf(Nat))
  BY FS_StrictSubsetOrderingWellFounded
<1>2. U \subseteq FiniteSubsetsOf(Nat) /\ U # {}
  <2>1. ASSUME NEW x \in T PROVE IsFiniteSet(x..n) /\ x..n \subseteq Nat
    <3>1. x \in Int /\ n \in Int
      OBVIOUS
    <3>2. IsFiniteSet(x..n)
      BY <3>1, FS_Interval
    <3> QED
      BY <3>2
  <2>2. U # {}
    OBVIOUS
  <2> QED
    BY <2>1, <2>2 DEF FiniteSubsetsOf
<1>3. PICK u \in U : \A v \in U : ~ (<<v, u>> \in StrictSubsetOrdering(Nat))
  <2> HIDE DEF U
  <2> QED
    BY <1>1, <1>2, WFMin
<1>4. PICK x \in T : u = x..n
  OBVIOUS
<1>5. ASSUME NEW y \in T, x < y PROVE FALSE
  <2>1. y..n \subseteq x..n /\ y..n # x..n /\ x..n \subseteq Nat
    <3>1. x \in x..n /\ x \notin y..n
      BY <1>5
    <3> QED
      BY <1>5, <3>1
  <2>2. y..n \in U
    OBVIOUS
  <2>3. ~(<<y..n, u>> \in StrictSubsetOrdering(Nat))
    BY <1>3, <2>2
  <2> QED
    BY <1>4, <2>1, <2>3 DEF StrictSubsetOrdering
<1>6. \A y \in T : y <= x
  BY <1>5
<1> QED
  BY <1>6

\* The plans, the texts of files and the attestations that there can be.
PlansOf(T) == [file : {"plan"}, status : [T -> TaskStatuses], log : Seq(Attempt)]
RepairPlans == UNION {PlansOf(T) : T \in SUBSET RepairTasks}
Texts == {NoFile, Partial} \cup RepairPlans
Snaps == [file : {"subjects"}, json : Texts, md : Texts]

PageRecord == [json : Texts, md : Texts, att : {NoFile, Partial} \cup Snaps]
JobRecord  == [stage : RepairStages, from : PlanDirs \cup {"nil"}, to : PlanDirs \cup {"nil"},
               asked : PhaseIds \cup {"nil"}, sound : BOOLEAN, ready : BOOLEAN,
               verdict : {"complete", "blocked", "nil"}, draft : {NoPlan} \cup RepairPlans,
               subjects : {NoFile} \cup Snaps]

RepairShape ==
    /\ page \in [PlanDirs -> PageRecord]
    /\ job \in [Repairers -> JobRecord]
    /\ disturbed \subseteq Repairers

\* What an attempt found: the preconditions of its phase were done, the phase was not.
FoundReady(T, found, ph) ==
    /\ \E t \in Members(ph, T) : found[t] \notin Done
    /\ \A h \in Hard : Before(h, ph) => \A t \in Members(h, T) : found[t] \in Done

\* What AttemptsAccountForPlan says of an attempt a on the statuses found, when the plans of D
\* were rewritten under them.
Justified(a, T, found, D) ==
    \/ a.by \in D
    \/ ~a.ready /\ a.status = "blocked"
    \/ a.ready /\ FoundReady(T, found, a.phase)

\* AttemptsAccountForPlan for one plan.
Accounted(p, D) ==
    /\ p.status = StatusesAfter(DOMAIN p.status, p.log, Len(p.log))
    /\ \A i \in DOMAIN p.log :
         Justified(p.log[i], DOMAIN p.status, StatusesAfter(DOMAIN p.status, p.log, i - 1), D)

\* What the preflight found is still so.
StillReady(x) ==
    /\ HasPlan(job[x].from)
    /\ Executable(page[job[x].from].json.status, job[x].asked)

\* Where a process is goes with what it knows; and as long as nobody rewrote the plan, what
\* the preflight found is still so.
JobFits(x) ==
    /\ job[x].stage \in {"verified", "checked", "ran"} => job[x].from \in PlanDirs
    /\ job[x].stage \in {"checked", "ran"} =>
         /\ job[x].asked \in PhaseIds
         /\ x \notin disturbed /\ job[x].ready => StillReady(x)
    /\ job[x].verdict = "complete" => job[x].ready
    /\ job[x].stage \in {"new", "verified"} => job[x].verdict = "nil"
    /\ job[x].stage \in {"json", "md", "digests", "attestation"} => job[x].to \in PlanDirs
    /\ job[x].stage \in {"json", "md"} => job[x].draft \in RepairPlans
    /\ job[x].draft # NoPlan => Accounted(job[x].draft, disturbed)

RepairInv ==
    /\ RepairShape
    /\ \A d \in PlanDirs : HasPlan(d) => Accounted(page[d].json, disturbed)
    /\ \A x \in Repairers : JobFits(x)

LEMMA PlanKnown ==
    ASSUME NEW p \in RepairPlans
    PROVE  /\ p.file = "plan" /\ p # NoFile /\ p # Partial /\ p # NoPlan
           /\ DOMAIN p.status \subseteq RepairTasks
           /\ p.status \in [DOMAIN p.status -> TaskStatuses]
           /\ p.log \in Seq(Attempt)
           /\ IsPlan(p)
<1>1. PICK T \in SUBSET RepairTasks : p \in PlansOf(T)
  BY DEF RepairPlans
<1>2. p.file = "plan" /\ p.status \in [T -> TaskStatuses] /\ p.log \in Seq(Attempt)
  BY <1>1 DEF PlansOf
<1>3. DOMAIN p.status = T
  BY <1>2
<1>4. p # NoFile /\ p # Partial /\ p # NoPlan
  <2>1. NoFile.file = "none" /\ Partial.file = "partial" /\ NoPlan.file = "no plan"
    BY DEF NoFile, Partial, NoPlan
  <2> QED
    BY <1>2, <2>1
<1> QED
  BY <1>2, <1>3, <1>4 DEF IsPlan

\* The members of a phase are tasks of the plan.
LEMMA MembersOf ==
    ASSUME NEW T, NEW ph \in PhaseIds
    PROVE  Members(ph, T) \subseteq T
<1>1. ph \in {"trust", "hygiene", "blockers", "evals", "owners"}
  BY DEF PhaseIds, PlanPhases
<1> QED
  BY <1>1 DEF Members

\* One more attempt changes nothing about those before.
LEMMA AttemptsBefore ==
    ASSUME NEW T, NEW log \in Seq(Attempt), NEW a \in Attempt, NEW i \in 0..Len(log)
    PROVE  /\ \A t \in T : Touching(T, Append(log, a), i, t) = Touching(T, log, i, t)
           /\ StatusesAfter(T, Append(log, a), i) = StatusesAfter(T, log, i)
<1> DEFINE L == Append(log, a)
<1>1. \A j \in 1..i : L[j] = log[j]
  OBVIOUS
<1> HIDE DEF L
<1>2. ASSUME NEW t \in T PROVE Touching(T, L, i, t) = Touching(T, log, i, t)
  BY <1>1 DEF Touching
<1>3. ASSUME NEW t \in T
      PROVE  StatusesAfter(T, L, i)[t] = StatusesAfter(T, log, i)[t]
  <2> DEFINE W == Touching(T, log, i, t)
             j == CHOOSE m \in W : \A k \in W : k <= m
  <2>1. W \in SUBSET (1..i) /\ i \in Nat
    BY DEF Touching
  <2>2. CASE W = {}
    BY <1>2, <2>2 DEF StatusesAfter
  <2>3. CASE W # {}
    <3>1. \E m \in W : \A k \in W : k <= m
      <4> HIDE DEF W
      <4> QED
        BY <2>1, <2>3, LastNat
    <3>2. j \in W
      <4> HIDE DEF W
      <4> QED
        BY <3>1
    <3>3. j \in 1..i
      BY <2>1, <3>2
    <3>4. StatusesAfter(T, L, i)[t] = L[j].status /\ StatusesAfter(T, log, i)[t] = log[j].status
      BY <1>2, <2>3 DEF StatusesAfter
    <3> QED
      BY <1>1, <3>3, <3>4
  <2> QED
    BY <2>2, <2>3
<1>4. StatusesAfter(T, L, i) = StatusesAfter(T, log, i)
  BY <1>3 DEF StatusesAfter
<1> QED
  BY <1>2, <1>4 DEF L

\* The last attempt sets the statuses of its phase.
LEMMA LastAttempt ==
    ASSUME NEW T, NEW log \in Seq(Attempt), NEW a \in Attempt
    PROVE  StatusesAfter(T, Append(log, a), Len(log) + 1) =
             [t \in T |-> IF t \in Members(a.phase, T) THEN a.status
                          ELSE StatusesAfter(T, log, Len(log))[t]]
<1> DEFINE L == Append(log, a)
<1> PICK n \in Nat : n = Len(log)
  OBVIOUS
<1>1. L[n + 1] = a /\ \A j \in 1..n : L[j] = log[j]
  OBVIOUS
<1>2. \A t \in T : Touching(T, L, n, t) = Touching(T, log, n, t)
  BY AttemptsBefore
<1>3. StatusesAfter(T, L, n) = StatusesAfter(T, log, n)
  BY AttemptsBefore
<1> HIDE DEF L
<1>4. ASSUME NEW t \in T, t \notin Members(a.phase, T)
      PROVE  StatusesAfter(T, L, n + 1)[t] = StatusesAfter(T, log, n)[t]
  <2>1. Touching(T, L, n + 1, t) = Touching(T, L, n, t)
    BY <1>1, <1>4 DEF Touching
  <2> DEFINE Says(W) == IF W = {} THEN "open"
                        ELSE L[CHOOSE j \in W : \A k \in W : k <= j].status
  <2>2. /\ StatusesAfter(T, L, n + 1)[t] = Says(Touching(T, L, n + 1, t))
        /\ StatusesAfter(T, L, n)[t] = Says(Touching(T, L, n, t))
    BY DEF StatusesAfter
  <2> HIDE DEF Says
  <2> QED
    BY <1>3, <2>1, <2>2
<1>5. ASSUME NEW t \in T, t \in Members(a.phase, T)
      PROVE  StatusesAfter(T, L, n + 1)[t] = a.status
  <2> DEFINE W == Touching(T, L, n + 1, t)
             j == CHOOSE m \in W : \A k \in W : k <= m
  <2>1. n + 1 \in W /\ W \subseteq 1..(n + 1)
    BY <1>1, <1>5 DEF Touching
  <2>2. j = n + 1
    <3> HIDE DEF W
    <3>1. \A k \in W : k <= n + 1
      BY <2>1
    <3>2. j \in W /\ \A k \in W : k <= j
      BY <2>1, <3>1
    <3> HIDE DEF j
    <3>3. n + 1 <= j /\ j \in 1..(n + 1)
      BY <2>1, <3>2
    <3> QED
      BY <3>3
  <2>3. StatusesAfter(T, L, n + 1)[t] = L[j].status
    BY <2>1 DEF StatusesAfter
  <2> QED
    BY <1>1, <2>2, <2>3
<1>6. \A t \in T : StatusesAfter(T, L, n + 1)[t] =
                     IF t \in Members(a.phase, T) THEN a.status ELSE StatusesAfter(T, log, n)[t]
  BY <1>4, <1>5
<1>7. StatusesAfter(T, L, n + 1) =
        [t \in T |-> IF t \in Members(a.phase, T) THEN a.status ELSE StatusesAfter(T, log, n)[t]]
  BY <1>6 DEF StatusesAfter
<1> QED
  BY <1>7 DEF L

\* Before the first attempt every task is open.
LEMMA NoAttempts ==
    ASSUME NEW T \in SUBSET RepairTasks, NEW D
    PROVE  Fresh(T) \in RepairPlans /\ Accounted(Fresh(T), D)
<1>1. Fresh(T) \in PlansOf(T)
  BY DEF Fresh, PlansOf, TaskStatuses
<1>2. Fresh(T) \in RepairPlans
  BY <1>1 DEF RepairPlans
<1>3. Fresh(T).status = [t \in T |-> "open"] /\ Fresh(T).log = << >> /\ DOMAIN Fresh(T).status = T
  BY DEF Fresh
<1>4. \A t \in T : Touching(T, << >>, 0, t) = {}
  BY DEF Touching
<1>5. StatusesAfter(T, << >>, 0) = [t \in T |-> "open"]
  BY <1>4 DEF StatusesAfter
<1>6. Len(Fresh(T).log) = 0 /\ DOMAIN Fresh(T).log = {}
  BY <1>3
<1> QED
  BY <1>2, <1>3, <1>5, <1>6 DEF Accounted

\* Trust comes before every other phase, hygiene before those that are not preconditions.
LEMMA PreconditionsBefore ==
    ASSUME NEW ph \in PhaseIds
    PROVE  /\ Before("trust", ph) => ph # "trust"
           /\ Before("hygiene", ph) => ph \notin Hard
<1>1. DOMAIN PlanPhases = 1..5
  BY DEF PlanPhases
<1>2. /\ PlanPhases[1] = "trust" /\ PlanPhases[2] = "hygiene" /\ PlanPhases[3] = "blockers"
      /\ PlanPhases[4] = "evals" /\ PlanPhases[5] = "owners"
  BY DEF PlanPhases
<1>3. ASSUME NEW i \in 1..5, NEW j \in 1..5, i < j, PlanPhases[i] = "trust"
      PROVE  PlanPhases[j] # "trust"
  BY <1>2, <1>3
<1>4. ASSUME NEW i \in 1..5, NEW j \in 1..5, i < j, PlanPhases[i] = "hygiene"
      PROVE  PlanPhases[j] \notin Hard
  BY <1>2, <1>4 DEF Hard
<1> QED
  BY <1>1, <1>3, <1>4 DEF Before

\* A phase whose status is a done one has only tasks that are done.
LEMMA DoneMeansDone ==
    ASSUME NEW s, NEW ph, BaseStatus(s, ph) \in Done
    PROVE  \A t \in Members(ph, DOMAIN s) : s[t] \in Done
<1> DEFINE here == {s[t] : t \in Members(ph, DOMAIN s)}
<1>1. here \subseteq Done
  BY DEF BaseStatus, Done
<1> QED
  BY <1>1

\* What the list of executable phases promises.
LEMMA ExecutableIsReady ==
    ASSUME NEW s, NEW ph \in PhaseIds, Executable(s, ph)
    PROVE  FoundReady(DOMAIN s, s, ph)
<1>1. BlockedBy(s, ph) = {}
  BY DEF Executable
<1>2. BaseStatus(s, ph) \in {"open", "in_progress"}
  BY <1>1 DEF Executable, PhaseStatus
<1>3. \E t \in Members(ph, DOMAIN s) : s[t] \notin Done
  <2> DEFINE here == {s[t] : t \in Members(ph, DOMAIN s)}
  <2>1. ~(here \subseteq Done)
    BY <1>2 DEF BaseStatus, Done
  <2> QED
    BY <2>1
<1>4. ASSUME NEW h \in Hard, ~Present(s, h) \/ BaseStatus(s, h) \in Done
      PROVE  \A t \in Members(h, DOMAIN s) : s[t] \in Done
  <2>1. CASE ~Present(s, h)
    BY <2>1 DEF Present
  <2>2. CASE BaseStatus(s, h) \in Done
    BY <2>2, DoneMeansDone
  <2> QED
    BY <1>4, <2>1, <2>2
<1>5. ph = "trust" \/ ~Present(s, "trust") \/ BaseStatus(s, "trust") \in Done
  BY <1>1 DEF BlockedBy
<1>6. ph \in Hard \/ ~Present(s, "hygiene") \/ BaseStatus(s, "hygiene") \in Done
  BY <1>1 DEF BlockedBy
<1>7. ASSUME NEW h \in Hard, Before(h, ph)
      PROVE  \A t \in Members(h, DOMAIN s) : s[t] \in Done
  <2>1. h = "trust" \/ h = "hygiene"
    BY DEF Hard
  <2>2. CASE h = "trust"
    BY <1>4, <1>5, <1>7, <2>2, PreconditionsBefore
  <2>3. CASE h = "hygiene"
    BY <1>4, <1>6, <1>7, <2>3, PreconditionsBefore
  <2> QED
    BY <2>1, <2>2, <2>3
<1> QED
  BY <1>3, <1>7 DEF FoundReady

\* An attempt that is justified keeps the plan accounted for.
LEMMA AttemptAccounted ==
    ASSUME NEW D, NEW p \in RepairPlans, Accounted(p, D), NEW a \in Attempt,
           a.status \in TaskStatuses,
           Justified(a, DOMAIN p.status, p.status, D)
    PROVE  WithAttempt(p, a) \in RepairPlans /\ Accounted(WithAttempt(p, a), D)
<1> DEFINE T == DOMAIN p.status
           q == WithAttempt(p, a)
<1>1. T \in SUBSET RepairTasks /\ p.status \in [T -> TaskStatuses] /\ p.log \in Seq(Attempt)
  BY PlanKnown
<1>2. PICK n \in Nat : n = Len(p.log)
  BY <1>1
<1>3. /\ q.log = Append(p.log, a)
      /\ q.status = [t \in T |-> IF t \in Members(a.phase, T) THEN a.status ELSE p.status[t]]
      /\ q.file = "plan" /\ DOMAIN q.status = T
  BY DEF WithAttempt
<1>4. q.log \in Seq(Attempt) /\ Len(q.log) = n + 1 /\ DOMAIN q.log = 1..(n + 1)
  BY <1>1, <1>2, <1>3
<1>5. q \in RepairPlans
  <2>1. q.status \in [T -> TaskStatuses]
    BY <1>1, <1>3
  <2>2. q \in PlansOf(T)
    BY <1>3, <1>4, <2>1 DEF PlansOf, WithAttempt
  <2> QED
    BY <1>1, <2>2 DEF RepairPlans
<1>6. p.status = StatusesAfter(T, p.log, n)
  BY <1>2 DEF Accounted
<1> HIDE DEF q
<1>7. q.status = StatusesAfter(T, q.log, n + 1)
  <2>1. StatusesAfter(T, Append(p.log, a), Len(p.log) + 1) =
             [t \in T |-> IF t \in Members(a.phase, T) THEN a.status
                          ELSE StatusesAfter(T, p.log, Len(p.log))[t]]
    <3> HIDE DEF T
    <3> QED
      BY <1>1, LastAttempt
  <2> QED
    BY <1>2, <1>3, <1>6, <2>1
<1>8. ASSUME NEW i \in 1..(n + 1)
      PROVE  Justified(q.log[i], T, StatusesAfter(T, q.log, i - 1), D)
  <2>1. i - 1 \in 0..Len(p.log)
    BY <1>2
  <2>2. StatusesAfter(T, q.log, i - 1) = StatusesAfter(T, p.log, i - 1)
    <3> HIDE DEF T
    <3>1. p.log \in Seq(Attempt)
      BY <1>1
    <3>2. StatusesAfter(T, Append(p.log, a), i - 1) = StatusesAfter(T, p.log, i - 1)
      BY <2>1, <3>1, AttemptsBefore
    <3> QED
      BY <1>3, <3>2
  <2>3. CASE i = n + 1
    <3>1. q.log[i] = a /\ i - 1 = n
      BY <1>1, <1>2, <1>3, <2>3
    <3> QED
      BY <1>6, <2>2, <3>1
  <2>4. CASE i # n + 1
    <3>1. i \in DOMAIN p.log /\ q.log[i] = p.log[i]
      BY <1>1, <1>2, <1>3, <2>4
    <3>2. Justified(p.log[i], T, StatusesAfter(T, p.log, i - 1), D)
      BY <3>1 DEF Accounted
    <3> QED
      BY <2>2, <3>1, <3>2
  <2> QED
    BY <2>3, <2>4
<1>9. Accounted(q, D)
  BY <1>3, <1>4, <1>7, <1>8 DEF Accounted
<1> QED
  BY <1>5, <1>9 DEF q

\* Processes that are disturbed too excuse nothing that was justified.
LEMMA AccountedStill ==
    ASSUME NEW D, NEW E, D \subseteq E, NEW p, Accounted(p, D)
    PROVE  Accounted(p, E)
BY DEF Accounted, Justified

-----------------------------------------------------------------------------
(* Repair plans: the steps.                                                *)

LEMMA TextKnown ==
    /\ \A v \in Texts : v \notin {NoFile, Partial} => v \in RepairPlans
    /\ \A v \in Texts : IsText(v)
    /\ \A v \in Snaps : IsSnapshot(v)
    /\ NoFile \in Texts /\ Partial \in Texts
<1>1. \A v \in Texts : v \notin {NoFile, Partial} => v \in RepairPlans
  BY DEF Texts
<1>2. \A v \in Texts : IsText(v)
  BY PlanKnown DEF Texts, IsText
<1>3. \A v \in Snaps : IsSnapshot(v)
  BY <1>2 DEF Snaps, IsSnapshot
<1> QED
  BY <1>1, <1>2, <1>3 DEF Texts

LEMMA RepairTyped == RepairInv => RepairTypeOK
<1> SUFFICES ASSUME RepairInv PROVE RepairTypeOK
  OBVIOUS
<1>0. RepairShape
  BY DEF RepairInv
<1>1. DOMAIN page = PlanDirs /\ DOMAIN job = Repairers /\ disturbed \subseteq Repairers
  BY <1>0 DEF RepairShape
<1>2. ASSUME NEW d \in PlanDirs
      PROVE  /\ IsText(page[d].json)
             /\ IsText(page[d].md)
             /\ page[d].att \in {NoFile, Partial} \/ IsSnapshot(page[d].att)
  <2>1. page[d] \in PageRecord
    BY <1>0 DEF RepairShape
  <2>2. page[d].json \in Texts /\ page[d].md \in Texts /\ page[d].att \in {NoFile, Partial} \cup Snaps
    BY <2>1 DEF PageRecord
  <2> QED
    BY <2>2, TextKnown
<1>3. ASSUME NEW x \in Repairers
      PROVE  /\ job[x].stage \in RepairStages
             /\ {job[x].from, job[x].to} \subseteq PlanDirs \cup {"nil"}
             /\ job[x].asked \in PhaseIds \cup {"nil"}
             /\ {job[x].sound, job[x].ready} \subseteq BOOLEAN
             /\ job[x].verdict \in {"complete", "blocked", "nil"}
             /\ job[x].draft = NoPlan \/ IsPlan(job[x].draft)
             /\ job[x].subjects = NoFile \/ IsSnapshot(job[x].subjects)
  <2>1. job[x] \in JobRecord
    BY <1>0 DEF RepairShape
  <2>2. /\ job[x].stage \in RepairStages
        /\ {job[x].from, job[x].to} \subseteq PlanDirs \cup {"nil"}
        /\ job[x].asked \in PhaseIds \cup {"nil"}
        /\ {job[x].sound, job[x].ready} \subseteq BOOLEAN
        /\ job[x].verdict \in {"complete", "blocked", "nil"}
    BY <2>1 DEF JobRecord
  <2>3. job[x].draft \in {NoPlan} \cup RepairPlans /\ job[x].subjects \in {NoFile} \cup Snaps
    BY <2>1 DEF JobRecord
  <2> QED
    BY <2>2, <2>3, PlanKnown, TextKnown
<1> QED
  BY <1>1, <1>2, <1>3 DEF RepairTypeOK

LEMMA RepairAccounts == RepairInv => AttemptsAccountForPlan
BY DEF RepairInv, Accounted, Justified, FoundReady, AttemptsAccountForPlan

\* A plan of which nothing is being written.
LEMMA PlanThere ==
    ASSUME RepairInv, NEW d \in PlanDirs
    PROVE  /\ page[d] \in PageRecord /\ page[d].json \in Texts
           /\ HasPlan(d) => page[d].json \in RepairPlans
<1>1. page[d] \in PageRecord
  BY DEF RepairInv, RepairShape
<1>2. page[d].json \in Texts
  BY <1>1 DEF PageRecord
<1> QED
  BY <1>1, <1>2, TextKnown DEF HasPlan

\* Process x steps: when all files are accounted for, when who loses the plan it has
\* checked is disturbed, and when x fits, then all is well.
LEMMA RepairKept ==
    ASSUME RepairInv, NEW x \in Repairers, NEW r \in JobRecord,
           job' = [job EXCEPT ![x] = r],
           page' \in [PlanDirs -> PageRecord],
           disturbed \subseteq disturbed', disturbed' \subseteq Repairers,
           \A d \in PlanDirs : page'[d].json # page[d].json => Reading(d) \ {x} \subseteq disturbed',
           \A d \in PlanDirs : page'[d].json \in {page[d].json, NoFile, Partial}
                                  \/ Accounted(page'[d].json, disturbed'),
           JobFits(x)'
    PROVE  RepairInv'
<1>1. RepairShape'
  BY DEF RepairInv, RepairShape
<1>2. ASSUME NEW d \in PlanDirs, HasPlan(d)'
      PROVE  Accounted(page[d].json, disturbed)'
  <2>1. page'[d].json \notin {NoFile, Partial}
    BY <1>2 DEF HasPlan
  <2>2. CASE page'[d].json = page[d].json
    <3>1. Accounted(page[d].json, disturbed)
      BY <2>1, <2>2 DEF RepairInv, HasPlan
    <3>2. Accounted(page[d].json, disturbed')
      BY <3>1, AccountedStill
    <3> QED
      BY <2>2, <3>2
  <2>3. CASE page'[d].json # page[d].json
    BY <2>1, <2>3
  <2> QED
    BY <2>2, <2>3
<1>3. ASSUME NEW y \in Repairers, y # x
      PROVE  JobFits(y)'
  <2>1. job'[y] = job[y] /\ JobFits(y)
    BY <1>3 DEF RepairInv, RepairShape
  <2>2. ASSUME job[y].stage \in {"checked", "ran"}, y \notin disturbed', job[y].ready
        PROVE  StillReady(y)'
    <3>1. job[y].from \in PlanDirs /\ StillReady(y)
      BY <2>1, <2>2 DEF JobFits
    <3>2. y \in Reading(job[y].from) \ {x}
      BY <1>3, <2>2 DEF Reading
    <3>3. page'[job[y].from].json = page[job[y].from].json
      BY <2>2, <3>1, <3>2
    <3> QED
      BY <2>1, <3>1, <3>3 DEF StillReady, HasPlan
  <2>3. job[y].draft # NoPlan => Accounted(job[y].draft, disturbed')
    BY <2>1, AccountedStill DEF JobFits
  <2> QED
    BY <2>1, <2>2, <2>3 DEF JobFits
<1> QED
  BY <1>1, <1>2, <1>3 DEF RepairInv

\* A process has the fields of its record.
LEMMA JobKnown ==
    ASSUME RepairInv, NEW x \in Repairers
    PROVE  /\ job \in [Repairers -> JobRecord]
           /\ job[x] \in JobRecord /\ JobFits(x)
           /\ Idle \in JobRecord
           /\ [Idle EXCEPT !.stage = "ended"] \in JobRecord
BY DEF RepairInv, RepairShape, JobRecord, Idle, RepairStages

LEMMA EndsKept ==
    ASSUME RepairInv, NEW x \in Repairers, Ends(x),
           page' \in [PlanDirs -> PageRecord],
           disturbed \subseteq disturbed', disturbed' \subseteq Repairers,
           \A d \in PlanDirs : page'[d].json = page[d].json
    PROVE  RepairInv'
<1> DEFINE r == [Idle EXCEPT !.stage = "ended"]
<1>1. r \in JobRecord /\ job \in [Repairers -> JobRecord]
  BY JobKnown
<1>2. job' = [job EXCEPT ![x] = r]
  BY DEF Ends
<1>3. job'[x] = r
  BY <1>1, <1>2
<1>4. JobFits(x)'
  BY <1>3 DEF JobFits, Idle
<1> HIDE DEF r
<1> QED
  BY <1>1, <1>2, <1>4, RepairKept

LEMMA PlanRepairsKept ==
    ASSUME RepairInv, NEW x \in Repairers, NEW d \in PlanDirs, PlanRepairs(x, d), RepairAssumption
    PROVE  RepairInv'
<1>1. PICK T \in Diagnoses :
         job' = [job EXCEPT ![x].stage = "json", ![x].to = d, ![x].draft = Fresh(T)]
  BY DEF PlanRepairs
<1>2. T \in SUBSET RepairTasks
  BY DEF RepairAssumption
<1>3. Fresh(T) \in RepairPlans /\ Accounted(Fresh(T), disturbed')
  BY <1>2, NoAttempts
<1> DEFINE r == [job[x] EXCEPT !.stage = "json", !.to = d, !.draft = Fresh(T)]
<1>4. job[x] \in JobRecord /\ job \in [Repairers -> JobRecord] /\ JobFits(x)
  BY JobKnown
<1>5. r \in JobRecord
  BY <1>3, <1>4 DEF JobRecord, RepairStages
<1>6. job' = [job EXCEPT ![x] = r]
  BY <1>1, <1>4
<1>7. job'[x] = r
  BY <1>4, <1>6
<1>8. JobFits(x)'
  <2>1. job[x].verdict = "nil"
    BY <1>4 DEF JobFits, PlanRepairs, At
  <2>2. r.stage = "json" /\ r.to = d /\ r.draft = Fresh(T) /\ r.verdict = "nil"
    BY <1>4, <2>1 DEF JobRecord
  <2> HIDE DEF r
  <2> QED
    BY <1>3, <1>7, <2>2 DEF JobFits
<1>9. page' = [page EXCEPT ![d].json = Partial] /\ disturbed' = disturbed \cup Reading(d)
  BY DEF PlanRepairs
<1>10. page \in [PlanDirs -> PageRecord]
  BY DEF RepairInv, RepairShape
<1>11. page' \in [PlanDirs -> PageRecord]
  BY <1>9, <1>10 DEF PageRecord, Texts
<1>12. \A e \in PlanDirs : page'[e].json = IF e = d THEN Partial ELSE page[e].json
  BY <1>9, <1>10 DEF PageRecord
<1>13. disturbed \subseteq disturbed' /\ disturbed' \subseteq Repairers
  BY <1>9 DEF RepairInv, RepairShape, Reading
<1> HIDE DEF r
<1> QED
  BY <1>5, <1>6, <1>8, <1>9, <1>11, <1>12, <1>13, RepairKept

LEMMA StartPreflightKept ==
    ASSUME RepairInv, NEW x \in Repairers, NEW d \in PlanDirs, StartPreflight(x, d)
    PROVE  RepairInv'
<1> DEFINE r == [Idle EXCEPT !.stage = "verified", !.from = d, !.sound = Attested(d)]
<1>1. job' = [job EXCEPT ![x] = r]
  BY DEF StartPreflight
<1>2. job \in [Repairers -> JobRecord]
  BY JobKnown
<1>3. r \in JobRecord
  BY DEF JobRecord, Idle, RepairStages, Attested
<1>4. job'[x] = r
  BY <1>1, <1>2
<1>5. JobFits(x)'
  BY <1>4 DEF JobFits, Idle
<1>6. page' = page /\ disturbed' = disturbed
  BY DEF StartPreflight
<1>7. page \in [PlanDirs -> PageRecord] /\ disturbed \subseteq Repairers
  BY DEF RepairInv, RepairShape
<1> HIDE DEF r
<1> QED
  BY <1>1, <1>3, <1>5, <1>6, <1>7, RepairKept

LEMMA EndPreflightKept ==
    ASSUME RepairInv, NEW x \in Repairers, NEW ph \in PhaseIds, EndPreflight(x, ph)
    PROVE  RepairInv'
<1>1. PICK artifacts \in BOOLEAN :
         job' = [job EXCEPT ![x].stage = "checked", ![x].asked = ph,
                   ![x].ready = /\ job[x].sound /\ artifacts /\ HasPlan(job[x].from)
                                /\ Executable(page[job[x].from].json.status, ph)]
  BY DEF EndPreflight
<1> DEFINE ok == /\ job[x].sound /\ artifacts /\ HasPlan(job[x].from)
                 /\ Executable(page[job[x].from].json.status, ph)
           r == [job[x] EXCEPT !.stage = "checked", !.asked = ph, !.ready = ok]
<1>2. job[x] \in JobRecord /\ job \in [Repairers -> JobRecord] /\ JobFits(x)
  BY JobKnown
<1>3. r \in JobRecord
  <2>1. ok \in BOOLEAN
    OBVIOUS
  <2> HIDE DEF ok
  <2> QED
    BY <1>2, <2>1 DEF JobRecord, RepairStages
<1>4. job' = [job EXCEPT ![x] = r]
  BY <1>1, <1>2
<1>5. job'[x] = r
  BY <1>2, <1>4
<1>6. page' = page /\ disturbed' = disturbed
  BY DEF EndPreflight
<1>7. page \in [PlanDirs -> PageRecord] /\ disturbed \subseteq Repairers
  BY DEF RepairInv, RepairShape
<1>8. JobFits(x)'
  <2>1. job[x].verdict = "nil" /\ job[x].from \in PlanDirs
    BY <1>2 DEF JobFits, EndPreflight, At
  <2>2. /\ r.stage = "checked" /\ r.asked = ph /\ r.ready = ok /\ r.verdict = "nil"
        /\ r.from = job[x].from /\ r.draft = job[x].draft
    BY <1>2, <2>1 DEF JobRecord
  <2> HIDE DEF r
  <2>3. ok => StillReady(x)'
    BY <1>5, <1>6, <2>2 DEF StillReady, HasPlan
  <2>4. job[x].draft # NoPlan => Accounted(job[x].draft, disturbed')
    BY <1>2, <1>6 DEF JobFits
  <2> HIDE DEF ok
  <2> QED
    BY <1>5, <2>1, <2>2, <2>3, <2>4 DEF JobFits
<1> HIDE DEF r
<1> QED
  BY <1>3, <1>4, <1>6, <1>7, <1>8, RepairKept

LEMMA RunCommandsKept ==
    ASSUME RepairInv, NEW x \in Repairers, RunCommands(x)
    PROVE  RepairInv'
<1>1. PICK v \in {"complete", "blocked"} :
         /\ v = "complete" => job[x].ready
         /\ job' = [job EXCEPT ![x].stage = "ran", ![x].verdict = v]
  BY DEF RunCommands
<1> DEFINE r == [job[x] EXCEPT !.stage = "ran", !.verdict = v]
<1>2. job[x] \in JobRecord /\ job \in [Repairers -> JobRecord] /\ JobFits(x)
  BY JobKnown
<1>3. r \in JobRecord
  BY <1>2 DEF JobRecord, RepairStages
<1>4. job' = [job EXCEPT ![x] = r]
  BY <1>1, <1>2
<1>5. job'[x] = r
  BY <1>2, <1>4
<1>6. page' = page /\ disturbed' = disturbed
  BY DEF RunCommands
<1>7. page \in [PlanDirs -> PageRecord] /\ disturbed \subseteq Repairers
  BY DEF RepairInv, RepairShape
<1>8. JobFits(x)'
  <2>1. job[x].stage = "checked"
    BY DEF RunCommands, At
  <2>2. /\ r.stage = "ran" /\ r.asked = job[x].asked /\ r.ready = job[x].ready /\ r.verdict = v
        /\ r.from = job[x].from /\ r.draft = job[x].draft
    BY <1>2 DEF JobRecord
  <2> HIDE DEF r
  <2>3. StillReady(x) => StillReady(x)'
    BY <1>5, <1>6, <2>2 DEF StillReady, HasPlan
  <2>4. job[x].draft # NoPlan => Accounted(job[x].draft, disturbed')
    BY <1>2, <1>6 DEF JobFits
  <2> QED
    BY <1>1, <1>2, <1>5, <1>6, <2>1, <2>2, <2>3, <2>4 DEF JobFits
<1> HIDE DEF r
<1> QED
  BY <1>3, <1>4, <1>6, <1>7, <1>8, RepairKept

\* What is recorded of a ready attempt is what its preflight saw in the plan.
LEMMA RecordAttemptKept ==
    ASSUME RepairInv, NEW x \in Repairers, NEW o \in PlanDirs, RecordAttempt(x, o),
           RepairAssumption
    PROVE  RepairInv'
<1> DEFINE plan == page[job[x].from].json
           Rec(s) == [by |-> x, phase |-> job[x].asked, status |-> s, ready |-> job[x].ready]
<1>1. PICK s \in Recorded(x) :
         job' = [job EXCEPT ![x] = [Idle EXCEPT !.stage = "json", !.to = o,
                                              !.draft = WithAttempt(plan, Rec(s))]]
  BY DEF RecordAttempt
<1> DEFINE a == Rec(s)
           r == [Idle EXCEPT !.stage = "json", !.to = o, !.draft = WithAttempt(plan, a)]
<1>2. job[x] \in JobRecord /\ job \in [Repairers -> JobRecord] /\ JobFits(x) /\ Idle \in JobRecord
  BY JobKnown
<1>3. job[x].stage \in {"checked", "ran"} /\ HasPlan(job[x].from)
  BY DEF RecordAttempt, At
<1>4. job[x].from \in PlanDirs /\ job[x].asked \in PhaseIds /\ job[x].ready \in BOOLEAN
  BY <1>2, <1>3 DEF JobFits, JobRecord
<1>5. plan \in RepairPlans /\ Accounted(plan, disturbed)
  BY <1>3, <1>4, PlanThere DEF RepairInv
<1>6. disturbed' = disturbed \cup (Reading(o) \ {x}) /\ page' = [page EXCEPT ![o].json = Partial]
  BY DEF RecordAttempt
<1>7. disturbed \subseteq disturbed' /\ disturbed' \subseteq Repairers
  BY <1>6 DEF RepairInv, RepairShape, Reading
<1>8. s \in Recordable \cup {"complete", "blocked"} /\ s \in TaskStatuses
      /\ (~job[x].ready => s = "blocked")
  <2>1. job[x].verdict \in {"complete", "blocked", "nil"}
        /\ (job[x].verdict = "complete" => job[x].ready)
    BY <1>2 DEF JobRecord, JobFits
  <2>2. Recordable \subseteq TaskStatuses
    BY DEF RepairAssumption, TaskStatuses
  <2> QED
    BY <2>1, <2>2 DEF Recorded, TaskStatuses
<1>9. a \in Attempt /\ a.status = s /\ a.by = x /\ a.ready = job[x].ready /\ a.phase = job[x].asked
  BY <1>4, <1>8 DEF Attempt
<1>10. Justified(a, DOMAIN plan.status, plan.status, disturbed')
  <2>1. CASE x \in disturbed
    BY <1>7, <1>9, <2>1 DEF Justified
  <2>2. CASE ~job[x].ready
    BY <1>8, <1>9, <2>2 DEF Justified
  <2>3. CASE x \notin disturbed /\ job[x].ready
    <3>1. Executable(plan.status, job[x].asked)
      BY <1>2, <1>3, <2>3 DEF JobFits, StillReady
    <3>2. FoundReady(DOMAIN plan.status, plan.status, job[x].asked)
      <4> HIDE DEF plan
      <4> QED
        BY <1>4, <3>1, ExecutableIsReady
    <3> QED
      BY <1>9, <2>3, <3>2 DEF Justified
  <2> QED
    BY <2>1, <2>2, <2>3
<1>11. WithAttempt(plan, a) \in RepairPlans /\ Accounted(WithAttempt(plan, a), disturbed')
  <2>1. Accounted(plan, disturbed')
    BY <1>5, <1>7, AccountedStill
  <2>2. a \in Attempt /\ a.status \in TaskStatuses
    BY <1>8, <1>9
  <2> HIDE DEF plan, a
  <2> QED
    BY <1>5, <1>10, <2>1, <2>2, AttemptAccounted
<1>12. r \in JobRecord
  <2> HIDE DEF plan, a
  <2> QED
    BY <1>2, <1>11 DEF JobRecord, Idle, RepairStages
<1>13. job' = [job EXCEPT ![x] = r]
  BY <1>1
<1>14. job'[x] = r
  BY <1>2, <1>13
<1>15. JobFits(x)'
  <2>1. r.stage = "json" /\ r.to = o /\ r.draft = WithAttempt(plan, a) /\ r.verdict = "nil"
    BY DEF Idle
  <2> HIDE DEF r, a, plan
  <2> QED
    BY <1>11, <1>14, <2>1 DEF JobFits
<1>16. page \in [PlanDirs -> PageRecord]
  BY DEF RepairInv, RepairShape
<1>17. page' \in [PlanDirs -> PageRecord]
  BY <1>6, <1>16 DEF PageRecord, Texts
<1>18. \A e \in PlanDirs : page'[e].json = IF e = o THEN Partial ELSE page[e].json
  BY <1>6, <1>16 DEF PageRecord
<1> HIDE DEF r
<1> QED
  BY <1>6, <1>7, <1>12, <1>13, <1>15, <1>17, <1>18, RepairKept

LEMMA WritePlanKept ==
    ASSUME RepairInv, NEW x \in Repairers, WritePlan(x)
    PROVE  RepairInv'
<1> DEFINE d == job[x].to
<1>1. job[x] \in JobRecord /\ job \in [Repairers -> JobRecord] /\ JobFits(x)
  BY JobKnown
<1>2. job[x].stage \in {"json", "md", "digests", "attestation"}
  BY DEF WritePlan, At
<1>3. d \in PlanDirs
  BY <1>1, <1>2 DEF JobFits
<1>4. page \in [PlanDirs -> PageRecord] /\ page[d] \in PageRecord
  BY <1>3 DEF RepairInv, RepairShape
<1>5. disturbed' = disturbed \cup Reading(d)
  BY DEF WritePlan
<1>6. disturbed \subseteq disturbed' /\ disturbed' \subseteq Repairers
  BY <1>5 DEF RepairInv, RepairShape, Reading
<1>7. job[x].draft # NoPlan => Accounted(job[x].draft, disturbed')
  BY <1>1, <1>6, AccountedStill DEF JobFits
<1>8. ASSUME NEW r \in JobRecord, job' = [job EXCEPT ![x] = r],
             r.stage \in {"md", "digests", "attestation"}, r.to = d, r.verdict = job[x].verdict,
             r.ready = job[x].ready, r.draft \in {NoPlan, job[x].draft},
             r.stage = "md" => r.draft \in RepairPlans
      PROVE  JobFits(x)'
  <2>1. job'[x] = r
    BY <1>1, <1>8
  <2>2. r.verdict = "complete" => r.ready
    BY <1>1, <1>8 DEF JobFits
  <2> QED
    BY <1>3, <1>7, <1>8, <2>1, <2>2 DEF JobFits
<1>9. CASE At(x, "json")
  <2> DEFINE r == [job[x] EXCEPT !.stage = "md"]
  <2>1. page' = [page EXCEPT ![d].json = job[x].draft, ![d].md = Partial]
        /\ job' = [job EXCEPT ![x].stage = "md"]
    BY <1>9 DEF WritePlan, At
  <2>2. job[x].draft \in RepairPlans
    BY <1>1, <1>9 DEF JobFits, At
  <2>3. r \in JobRecord /\ job' = [job EXCEPT ![x] = r]
    BY <1>1, <2>1 DEF JobRecord, RepairStages
  <2>4. /\ r.stage = "md" /\ r.to = d /\ r.verdict = job[x].verdict /\ r.ready = job[x].ready
        /\ r.draft = job[x].draft
    BY <1>1 DEF JobRecord
  <2> HIDE DEF r
  <2>5. JobFits(x)'
    BY <1>8, <2>2, <2>3, <2>4
  <2>6. page' \in [PlanDirs -> PageRecord]
    BY <1>3, <1>4, <2>1, <2>2 DEF PageRecord, Texts
  <2>7. \A e \in PlanDirs : page'[e].json = IF e = d THEN job[x].draft ELSE page[e].json
    BY <1>3, <1>4, <2>1 DEF PageRecord
  <2>8. Accounted(job[x].draft, disturbed')
    BY <1>7, <2>2, PlanKnown
  <2> QED
    BY <1>5, <1>6, <2>3, <2>5, <2>6, <2>7, <2>8, RepairKept
<1>10. CASE At(x, "md")
  <2> DEFINE r == [job[x] EXCEPT !.stage = "digests", !.draft = NoPlan]
  <2>1. page' = [page EXCEPT ![d].md = job[x].draft]
        /\ job' = [job EXCEPT ![x].stage = "digests", ![x].draft = NoPlan]
    BY <1>10 DEF WritePlan, At
  <2>2. job[x].draft \in RepairPlans
    BY <1>1, <1>10 DEF JobFits, At
  <2>3. r \in JobRecord /\ job' = [job EXCEPT ![x] = r]
    BY <1>1, <2>1 DEF JobRecord, RepairStages
  <2>4. /\ r.stage = "digests" /\ r.to = d /\ r.verdict = job[x].verdict /\ r.ready = job[x].ready
        /\ r.draft = NoPlan
    BY <1>1 DEF JobRecord
  <2> HIDE DEF r
  <2>5. JobFits(x)'
    BY <1>8, <2>3, <2>4
  <2>6. page' \in [PlanDirs -> PageRecord]
    BY <1>3, <1>4, <2>1, <2>2 DEF PageRecord, Texts
  <2>7. \A e \in PlanDirs : page'[e].json = page[e].json
    BY <1>3, <1>4, <2>1 DEF PageRecord
  <2> QED
    BY <1>6, <2>3, <2>5, <2>6, <2>7, RepairKept
<1>11. CASE At(x, "digests")
  <2> DEFINE r == [job[x] EXCEPT !.stage = "attestation",
                     !.subjects = [file |-> "subjects", json |-> page[d].json, md |-> page[d].md]]
  <2>1. page' = [page EXCEPT ![d].att = Partial]
        /\ job' = [job EXCEPT ![x].stage = "attestation",
                 ![x].subjects = [file |-> "subjects", json |-> page[d].json, md |-> page[d].md]]
    BY <1>11 DEF WritePlan, At
  <2>2. [file |-> "subjects", json |-> page[d].json, md |-> page[d].md] \in Snaps
    BY <1>4 DEF PageRecord, Snaps
  <2>3. r \in JobRecord /\ job' = [job EXCEPT ![x] = r]
    BY <1>1, <2>1, <2>2 DEF JobRecord, RepairStages
  <2>4. /\ r.stage = "attestation" /\ r.to = d /\ r.verdict = job[x].verdict
        /\ r.ready = job[x].ready /\ r.draft = job[x].draft
    BY <1>1 DEF JobRecord
  <2> HIDE DEF r
  <2>5. JobFits(x)'
    BY <1>8, <2>3, <2>4
  <2>6. page' \in [PlanDirs -> PageRecord]
    BY <1>3, <1>4, <2>1 DEF PageRecord
  <2>7. \A e \in PlanDirs : page'[e].json = page[e].json
    BY <1>3, <1>4, <2>1 DEF PageRecord
  <2> QED
    BY <1>6, <2>3, <2>5, <2>6, <2>7, RepairKept
<1>12. CASE At(x, "attestation")
  <2>1. page' = [page EXCEPT ![d].att = job[x].subjects] /\ Ends(x)
    BY <1>12 DEF WritePlan, At
  <2>2. job[x].subjects \in {NoFile, Partial} \cup Snaps
    BY <1>1 DEF JobRecord
  <2>3. page' \in [PlanDirs -> PageRecord]
    BY <1>3, <1>4, <2>1, <2>2 DEF PageRecord
  <2>4. \A e \in PlanDirs : page'[e].json = page[e].json
    BY <1>3, <1>4, <2>1 DEF PageRecord
  <2> QED
    BY <1>6, <2>1, <2>3, <2>4, EndsKept
<1> QED
  BY <1>2, <1>9, <1>10, <1>11, <1>12 DEF At

LEMMA StopsKept ==
    ASSUME RepairInv, NEW x \in Repairers, Stops(x)
    PROVE  RepairInv'
<1>1. page' = page /\ disturbed' = disturbed /\ Ends(x)
  BY DEF Stops
<1>2. page \in [PlanDirs -> PageRecord] /\ disturbed \subseteq Repairers
  BY DEF RepairInv, RepairShape
<1> QED
  BY <1>1, <1>2, EndsKept

LEMMA RepairStarts ==
    ASSUME RepairInit, RepairAssumption PROVE RepairInv
<1>1. PICK T \in Diagnoses : \E D \in SUBSET PlanDirs :
         page = [d \in PlanDirs |-> IF d \in D THEN Written(Fresh(T))
                                   ELSE [json |-> NoFile, md |-> NoFile, att |-> NoFile]]
  BY DEF RepairInit
<1>2. T \in SUBSET RepairTasks
  BY DEF RepairAssumption
<1>3. Fresh(T) \in RepairPlans /\ Accounted(Fresh(T), disturbed)
  BY <1>2, NoAttempts
<1> DEFINE p == Fresh(T)
<1>4. ASSUME NEW d \in PlanDirs
      PROVE  page[d] \in PageRecord /\ page[d].json \in {p, NoFile}
  <2>1. page[d] \in {Written(p), [json |-> NoFile, md |-> NoFile, att |-> NoFile]}
    BY <1>1
  <2> HIDE DEF p
  <2>2. p \in RepairPlans
    BY <1>3 DEF p
  <2>3. Written(p) \in PageRecord /\ Written(p).json = p
    BY <2>2 DEF Written, PageRecord, Snaps, Texts
  <2>4. [json |-> NoFile, md |-> NoFile, att |-> NoFile] \in PageRecord
    BY DEF PageRecord, Texts
  <2> QED
    BY <2>1, <2>3, <2>4
<1>5. job = [x \in Repairers |-> Idle] /\ disturbed = {}
  BY DEF RepairInit
<1>6. DOMAIN page = PlanDirs /\ page = [d \in PlanDirs |-> page[d]]
  BY <1>1
<1>7. Idle \in JobRecord
  BY DEF JobRecord, Idle, RepairStages
<1>8. RepairShape
  BY <1>4, <1>5, <1>6, <1>7 DEF RepairShape
<1>9. ASSUME NEW x \in Repairers PROVE JobFits(x)
  BY <1>5 DEF JobFits, Idle
<1> QED
  BY <1>3, <1>4, <1>8, <1>9 DEF RepairInv, HasPlan

LEMMA RepairSteps ==
    ASSUME RepairInv, [RepairNext]_repairVars, RepairAssumption PROVE RepairInv'
<1>1. CASE UNCHANGED repairVars
  <2>1. page' = page /\ job' = job /\ disturbed' = disturbed
    BY <1>1 DEF repairVars
  <2> QED
    BY <2>1 DEF RepairInv, RepairShape, JobFits, StillReady, HasPlan
<1>2. CASE RepairNext
  <2>1. PICK x \in Repairers :
          \/ \E d \in PlanDirs : PlanRepairs(x, d)
          \/ \E d \in PlanDirs : StartPreflight(x, d)
          \/ \E ph \in PhaseIds : EndPreflight(x, ph)
          \/ RunCommands(x)
          \/ \E o \in PlanDirs : RecordAttempt(x, o)
          \/ WritePlan(x)
          \/ Stops(x)
    BY <1>2 DEF RepairNext
  <2> QED
    BY <2>1, PlanRepairsKept, StartPreflightKept, EndPreflightKept, RunCommandsKept,
       RecordAttemptKept, WritePlanKept, StopsKept
<1> QED
  BY <1>1, <1>2

LEMMA RepairAlways == RepairSpec => []RepairInv
BY RepairStarts, RepairSteps, RepairAssumption, PTL DEF RepairSpec

\* The files of repair plans and the processes that write them keep their types.
THEOREM RepairsTyped == RepairSpec => []RepairTypeOK
BY RepairAlways, RepairTyped, PTL

\* Every plan that can be loaded is what its attempts lead to, and every attempt had the right
\* to be made, for any number of directories, tasks, processes and attempts.
THEOREM AttemptsAreJustified == RepairSpec => []AttemptsAccountForPlan
BY RepairAlways, RepairAccounts, PTL

=============================================================================
