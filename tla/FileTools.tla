------------------------------ MODULE FileTools ------------------------------
(***************************************************************************)
(* The tools that change files of the workspace (tools/builtin.py): a call *)
(* is a worker that reads, truncates and fills files in several steps.     *)
(* The dispatcher gives up on a slow worker but cannot stop it, and chats  *)
(* share a workspace, so that workers overlap; and the process can end     *)
(* between any two steps, which leaves the files as they are.              *)
(***************************************************************************)
EXTENDS Naturals

CONSTANTS Workers,     \* calls of the tools
          Paths,       \* paths of the workspace
          BackupOf,    \* the path with ".bak" appended, of what write_file is used on
          OldText,     \* what the files hold at first
          Undecodable  \* bytes among it that are not UTF-8

\* A file holds pieces of text, each by the worker that wrote it.
Pieces  == Workers \cup {OldText, Undecodable}
NoText  == {"absent"}
NoPath == "nowhere"

ASSUME FilesAssumption ==
    /\ DOMAIN BackupOf \subseteq Paths
    /\ \A f \in DOMAIN BackupOf : BackupOf[f] \in Paths \ {f}
    /\ NoPath \notin Paths
    /\ "absent" \notin Pieces

VARIABLES disk,    \* what a path holds
          target,  \* the path that a worker changes
          todo,    \* its next step
          handle,  \* where the file that it has open is
          toWrite,  \* what it is going to write
          kept,    \* has write_file kept a backup?
          was,     \* what the file held when write_file began (history)
          quiet    \* nobody else changed the file or its backup since (history)

filesVars == <<disk, target, todo, handle, toWrite, kept, was, quiet>>

Todo == {"begin", "read", "open backup", "back up", "open", "fill", "add", "end"}

FilesTypeOK ==
    /\ disk \in [Paths -> (SUBSET Pieces) \cup {NoText}]
    /\ target \in [Workers -> Paths \cup {NoPath}]
    /\ todo \in [Workers -> Todo]
    /\ handle \in [Workers -> Paths \cup {NoPath}]
    /\ toWrite \in [Workers -> SUBSET Pieces]
    /\ kept \in [Workers -> BOOLEAN]
    /\ was \in [Workers -> (SUBSET Pieces) \cup {NoText}]
    /\ quiet \in [Workers -> BOOLEAN]

FilesInit ==
    /\ disk \in [Paths -> {NoText, {OldText}, {OldText, Undecodable}}]
    /\ target = [w \in Workers |-> NoPath]
    /\ todo = [w \in Workers |-> "begin"]
    /\ handle = [w \in Workers |-> NoPath]
    /\ toWrite = [w \in Workers |-> {}]
    /\ kept = [w \in Workers |-> FALSE]
    /\ was = [w \in Workers |-> NoText]
    /\ quiet = [w \in Workers |-> FALSE]

There(f) == disk[f] # NoText

Step(w, step) == todo' = [todo EXCEPT ![w] = step]

Concern(f) == IF f \in DOMAIN BackupOf THEN {f, BackupOf[f]} ELSE {f}

\* Worker w puts something else into files; that disturbs who works on one of them.
ChangeFiles(w, files, new) ==
    /\ disk' = [f \in Paths |-> IF f \in files THEN new[f] ELSE disk[f]]
    /\ quiet' = [v \in Workers |->
          quiet[v] /\ (v # w => Concern(target[v]) \cap files = {})]

PutText(w, f, new) == ChangeFiles(w, {f}, [g \in {f} |-> new])

----------------------------------------------------------------------------
(* write_file: a backup comes first, if there is something to back up.     *)

WriteFile(w, f) ==
    /\ todo[w] = "begin" /\ f \in DOMAIN BackupOf
    /\ target' = [target EXCEPT ![w] = f]
    /\ toWrite' = [toWrite EXCEPT ![w] = {w}]
    /\ was' = [was EXCEPT ![w] = disk[f]]
    /\ quiet' = [quiet EXCEPT ![w] = TRUE]
    /\ Step(w, IF There(f) THEN "read" ELSE "open")
    /\ UNCHANGED <<disk, handle, kept>>

\* What cannot be decoded is left out of the copy.  On an error the file is written
\* without a backup.
ReadOld(w) ==
    LET f == target[w] IN
    /\ todo[w] = "read"
    /\ \/ /\ There(f)
          /\ toWrite' = [toWrite EXCEPT ![w] = disk[f] \ {Undecodable}]
          /\ Step(w, "open backup")
       \/ Step(w, "open") /\ UNCHANGED toWrite
    /\ UNCHANGED <<disk, target, handle, kept, was, quiet>>

OpenBackup(w) ==
    LET b == BackupOf[target[w]] IN
    /\ todo[w] = "open backup"
    /\ \/ /\ PutText(w, b, {})
          /\ handle' = [handle EXCEPT ![w] = b]
          /\ Step(w, "back up")
          /\ UNCHANGED toWrite
       \/ /\ Step(w, "open")
          /\ toWrite' = [toWrite EXCEPT ![w] = {w}]
          /\ UNCHANGED <<disk, handle, quiet>>
    /\ UNCHANGED <<target, kept, was>>

(* Mutant: the backup is taken from the file after its new text is there. *)
BackUpLate(w) ==
    /\ todo[w] = "back up"
    /\ IF handle[w] = NoPath THEN UNCHANGED <<disk, quiet>>
       ELSE ChangeFiles(w, {target[w], handle[w]}, [f \in {target[w], handle[w]} |-> {w}])
    /\ kept' = [kept EXCEPT ![w] = TRUE]
    /\ toWrite' = [toWrite EXCEPT ![w] = {w}]
    /\ handle' = [handle EXCEPT ![w] = NoPath]
    /\ Step(w, "end")
    /\ UNCHANGED <<target, was>>

BackUp(w) ==
    /\ todo[w] = "back up"
    /\ \/ /\ IF handle[w] = NoPath THEN UNCHANGED <<disk, quiet>>
             ELSE PutText(w, handle[w], toWrite[w])
          /\ kept' = [kept EXCEPT ![w] = TRUE]
       \/ UNCHANGED <<disk, kept, quiet>>
    /\ toWrite' = [toWrite EXCEPT ![w] = {w}]
    /\ handle' = [handle EXCEPT ![w] = NoPath]
    /\ Step(w, "open")
    /\ UNCHANGED <<target, was>>

----------------------------------------------------------------------------
(* edit_file reads the file, replaces a text that is in it once, and       *)
(* writes it; it keeps no backup.                                          *)
EditFile(w, f) ==
    /\ todo[w] = "begin"
    /\ There(f) /\ Undecodable \notin disk[f]
    /\ \E old \in disk[f] : toWrite' = [toWrite EXCEPT ![w] = (disk[f] \ {old}) \cup {w}]
    /\ target' = [target EXCEPT ![w] = f]
    /\ Step(w, "open")
    /\ UNCHANGED <<disk, handle, kept, was, quiet>>

\* Opening a file to write empties it; the text is there when it is closed.
Open(w) ==
    /\ todo[w] = "open"
    /\ PutText(w, target[w], {})
    /\ handle' = [handle EXCEPT ![w] = target[w]]
    /\ Step(w, "fill")
    /\ UNCHANGED <<target, toWrite, kept, was>>

\* An error leaves it empty; and a file that was removed takes the text with it.
Fill(w) ==
    /\ todo[w] = "fill"
    /\ \/ handle[w] # NoPath /\ PutText(w, handle[w], toWrite[w])
       \/ UNCHANGED <<disk, quiet>>
    /\ handle' = [handle EXCEPT ![w] = NoPath]
    /\ Step(w, "end")
    /\ UNCHANGED <<target, toWrite, kept, was>>

AppendFile(w, f) ==
    /\ todo[w] = "begin"
    /\ IF There(f) THEN UNCHANGED <<disk, quiet>> ELSE PutText(w, f, {})
    /\ handle' = [handle EXCEPT ![w] = f]
    /\ Step(w, "add")
    /\ UNCHANGED <<target, toWrite, kept, was>>

Add(w) ==
    /\ todo[w] = "add"
    /\ IF handle[w] = NoPath THEN UNCHANGED <<disk, quiet>>
       ELSE PutText(w, handle[w], disk[handle[w]] \cup {w})
    /\ handle' = [handle EXCEPT ![w] = NoPath]
    /\ Step(w, "end")
    /\ UNCHANGED <<target, toWrite, kept, was>>

\* Open files move with their names; one whose name is taken or removed has none.
RenameFile(w, f, g) ==
    /\ todo[w] = "begin" /\ f # g /\ There(f)
    /\ ChangeFiles(w, {f, g}, [x \in {f, g} |-> IF x = f THEN NoText ELSE disk[f]])
    /\ handle' = [v \in Workers |-> CASE handle[v] = f -> g
                                      [] handle[v] = g -> NoPath
                                      [] OTHER -> handle[v]]
    /\ Step(w, "end")
    /\ UNCHANGED <<target, toWrite, kept, was>>

DeleteFile(w, f) ==
    /\ todo[w] = "begin" /\ There(f)
    /\ PutText(w, f, NoText)
    /\ handle' = [v \in Workers |-> IF handle[v] = f THEN NoPath ELSE handle[v]]
    /\ Step(w, "end")
    /\ UNCHANGED <<target, toWrite, kept, was>>

\* shutil.copy2 empties the copy when it has opened the source.
CopyFile(w, f, g) ==
    /\ todo[w] = "begin" /\ f # g /\ There(f)
    /\ toWrite' = [toWrite EXCEPT ![w] = disk[f]]
    /\ PutText(w, g, {})
    /\ handle' = [handle EXCEPT ![w] = g]
    /\ Step(w, "fill")
    /\ UNCHANGED <<target, kept, was>>

FilesNext ==
    \E w \in Workers :
        \/ \E f \in Paths :
             WriteFile(w, f) \/ EditFile(w, f) \/ AppendFile(w, f) \/ DeleteFile(w, f)
        \/ \E f, g \in Paths : RenameFile(w, f, g) \/ CopyFile(w, f, g)
        \/ ReadOld(w) \/ OpenBackup(w) \/ BackUp(w) \/ Open(w) \/ Fill(w) \/ Add(w)

FilesSpec == FilesInit /\ [][FilesNext]_filesVars

----------------------------------------------------------------------------
(* Properties *)

(* At no moment of a write_file, nor after it, is the text that it         *)
(* replaces in nobody's hands: until the file is opened it is there, and   *)
(* then the backup has it if one could be made, unless another call worked *)
(* on the same file or on its backup since this one began.                 *)
BackupHolds ==
    \A w \in Workers : quiet[w] =>
        LET f == target[w] IN
        IF todo[w] \in {"read", "open backup", "back up", "open"} THEN disk[f] = was[w]
        ELSE kept[w] => disk[BackupOf[f]] = was[w] \ {Undecodable}

=============================================================================
