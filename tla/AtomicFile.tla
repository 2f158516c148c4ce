------------------------------ MODULE AtomicFile ------------------------------
(***************************************************************************)
(* The durable write every store of the agent uses                         *)
(* (internal/atomicfile): a sibling temporary file, fsync, rename, fsync   *)
(* of the directory.  The temporary file has one fixed name, so whether    *)
(* the promise holds depends on the callers keeping their writes apart:    *)
(* some hold a mutex, others (last-play.json) do not.                      *)
(*                                                                         *)
(* The disk below it is what the package's comment assumes: written data   *)
(* and directory changes reach the flash in any order and at any time,     *)
(* unless they are synced.  A file is what its inode holds in the page     *)
(* cache; a loss of power leaves what the flash has of it.                 *)
(***************************************************************************)
EXTENDS Integers, FiniteSets

CONSTANTS
  Writer,       \* callers that write the file
  Serialized,   \* whether the callers' writes exclude each other
  MaxWrites,    \* bound on the number of writes
  Value,        \* what they write
  First,        \* the file before the first write
  Empty,        \* zero bytes
  Torn,         \* part of a write, or of two
  NoFile

ASSUME FileAssumption ==
  /\ Serialized \in BOOLEAN /\ MaxWrites \in Nat
  /\ First \in Value /\ Empty \notin Value /\ Torn \notin Value
  /\ NoFile \notin Int

Content == Value \cup {Empty, Torn}
Inode == 0 .. MaxWrites      \* one more for each write that creates a file
Directories == [path : Inode, tmp : Inode \cup {NoFile}]

VARIABLES
  cache,     \* what the page cache has of an inode
  disk,      \* what the flash has of it
  dir,       \* the directory: the file and its temporary sibling
  crashDirs, \* the directories a loss of power may leave
  created,   \* number of inodes created
  writes,    \* number of writes begun
  pc, fd, data, \* of a writer: where it is, its open file, its value
  alone      \* (history) the writer that has had the temporary file to itself

disks == <<cache, disk>>
dirs  == <<dir, crashDirs>>
calls == <<pc, fd, data, alone>>
vars  == <<disks, dirs, created, writes, calls>>

Init ==
  /\ cache = [i \in Inode |-> IF i = 0 THEN First ELSE Empty] /\ disk = cache
  /\ dir = [path |-> 0, tmp |-> NoFile] /\ crashDirs = {dir}
  /\ created = 0 /\ writes = 0
  /\ pc = [w \in Writer |-> "idle"] /\ fd = [w \in Writer |-> 0]
  /\ data = [w \in Writer |-> First] /\ alone = {}

-----------------------------------------------------------------------------
Goto(w, l) == pc' = [pc EXCEPT ![w] = l]

\* A change of the directory, which a loss of power may undo.
SetDir(d) == dir' = d /\ crashDirs' = crashDirs \cup {d}

\* Nobody else has the temporary file open at w's Open, or, later, opens it.
NoteAlone(w) ==
  alone' = IF \A v \in Writer \ {w} : pc[v] \in {"idle", "renamed"} THEN {w} ELSE {}

\* Mutant: the file itself is opened and truncated.
Open_InPlace(w, v) ==
  /\ pc[w] = "idle" /\ writes < MaxWrites
  /\ Serialized => \A u \in Writer : pc[u] = "idle"
  /\ writes' = writes + 1
  /\ data' = [data EXCEPT ![w] = v]
  /\ fd' = [fd EXCEPT ![w] = dir.path]
  /\ cache' = [cache EXCEPT ![dir.path] = Empty]
  /\ Goto(w, "opened") /\ NoteAlone(w)
  /\ UNCHANGED <<disk, dirs, created>>

\* Mutant: a temporary file left by another, or by a crash, keeps its content.
Open_NoTruncate(w, v) ==
  /\ pc[w] = "idle" /\ writes < MaxWrites
  /\ Serialized => \A u \in Writer : pc[u] = "idle"
  /\ writes' = writes + 1
  /\ data' = [data EXCEPT ![w] = v]
  /\ IF dir.tmp = NoFile
     THEN /\ created' = created + 1
          /\ SetDir([dir EXCEPT !.tmp = created + 1])
     ELSE UNCHANGED <<created, dirs>>
  /\ fd' = [fd EXCEPT ![w] = dir'.tmp]
  /\ Goto(w, "opened") /\ NoteAlone(w)
  /\ UNCHANGED disks

\* OpenFile(tmp, O_CREATE|O_WRONLY|O_TRUNC): whoever's file has that name.
Open(w, v) ==
  /\ pc[w] = "idle" /\ writes < MaxWrites
  /\ Serialized => \A u \in Writer : pc[u] = "idle"
  /\ writes' = writes + 1
  /\ data' = [data EXCEPT ![w] = v]
  /\ IF dir.tmp = NoFile
     THEN /\ created' = created + 1
          /\ SetDir([dir EXCEPT !.tmp = created + 1])
     ELSE UNCHANGED <<created, dirs>>
  /\ fd' = [fd EXCEPT ![w] = dir'.tmp]
  /\ cache' = [cache EXCEPT ![dir'.tmp] = Empty]
  /\ Goto(w, "opened") /\ NoteAlone(w)
  /\ UNCHANGED disk

\* Two writers of one inode overlay each other, byte for byte; a short write tears it.
Write(w) ==
  /\ pc[w] = "opened"
  /\ \/ /\ Goto(w, "written")
        /\ \/ cache' = [cache EXCEPT ![fd[w]] = data[w]]
           \/ /\ cache[fd[w]] \notin {Empty, data[w]}
              /\ cache' = [cache EXCEPT ![fd[w]] = Torn]
     \/ /\ Goto(w, "failed")
        /\ IF cache[fd[w]] = data[w] THEN UNCHANGED cache
                                     ELSE cache' = [cache EXCEPT ![fd[w]] = Torn]
  /\ UNCHANGED <<disk, dirs, created, writes, fd, data, alone>>

\* Mutant: the data is not synced before the rename.
Sync_Nothing(w) ==
  /\ pc[w] = "written"
  /\ Goto(w, "synced")
  /\ UNCHANGED <<disks, dirs, created, writes, fd, data, alone>>

\* f.Sync, then f.Close.
Sync(w) ==
  /\ pc[w] = "written"
  /\ \/ Goto(w, "synced") /\ disk' = [disk EXCEPT ![fd[w]] = cache[fd[w]]]
     \/ Goto(w, "failed") /\ UNCHANGED disk
  /\ UNCHANGED <<cache, dirs, created, writes, fd, data, alone>>

\* Mutant: the old file is removed before the rename.
Rename_RemovesFirst(w) ==
  /\ pc[w] = "synced"
  /\ \/ dir.path # NoFile /\ SetDir([dir EXCEPT !.path = NoFile]) /\ UNCHANGED pc
     \/ /\ dir.path = NoFile /\ dir.tmp # NoFile
        /\ SetDir([path |-> dir.tmp, tmp |-> NoFile])
        /\ Goto(w, "renamed")
  /\ UNCHANGED <<disks, created, writes, fd, data, alone>>

Rename(w) ==
  /\ pc[w] = "synced"
  /\ \/ /\ dir.tmp # NoFile
        /\ SetDir([path |-> dir.tmp, tmp |-> NoFile])
        /\ Goto(w, "renamed")
     \/ Goto(w, "failed") /\ UNCHANGED dirs
  /\ UNCHANGED <<disks, created, writes, fd, data, alone>>

\* os.Remove(tmp) on every error path.
Remove(w) ==
  /\ pc[w] = "failed"
  /\ SetDir([dir EXCEPT !.tmp = NoFile])
  /\ Goto(w, "idle")
  /\ UNCHANGED <<disks, created, writes, fd, data, alone>>

\* Mutant: the directory is not synced.
SyncDir_Nothing(w) ==
  /\ pc[w] = "renamed"
  /\ Goto(w, "idle")
  /\ UNCHANGED <<disks, dirs, created, writes, fd, data, alone>>

\* The fsync of the directory, which the filesystem of the box allows; the write
\* then returns.
SyncDir(w) ==
  /\ pc[w] = "renamed"
  /\ crashDirs' = {dir}
  /\ Goto(w, "idle")
  /\ UNCHANGED <<disks, dir, created, writes, fd, data, alone>>

\* The kernel writes an inode back on its own.
WriteBack(i) ==
  /\ disk[i] # cache[i]
  /\ disk' = [disk EXCEPT ![i] = cache[i]]
  /\ UNCHANGED <<cache, dirs, created, writes, calls>>

\* What a loss of power may leave of inode i.
Survives(i) == IF disk[i] = cache[i] THEN {disk[i]}
                                     ELSE {disk[i], cache[i], Empty, Torn}

\* The speaker cuts its power; the agent starts again on what is left.
PowerLoss ==
  /\ dir' \in crashDirs /\ crashDirs' = {dir'}
  /\ \E left \in [{dir'.path, dir'.tmp} \ {NoFile} -> Content] :
       /\ \A i \in DOMAIN left : left[i] \in Survives(i)
       /\ cache' = [i \in Inode |-> IF i \in DOMAIN left THEN left[i] ELSE Empty]
  /\ disk' = cache'
  /\ pc' = [w \in Writer |-> "idle"] /\ alone' = {}
  /\ UNCHANGED <<created, writes, fd, data>>

-----------------------------------------------------------------------------
Next ==
  \/ \E w \in Writer : (\E v \in Value : Open(w, v)) \/ Write(w) \/ Sync(w) \/ Rename(w) \/ Remove(w) \/ SyncDir(w)
  \/ \E i \in Inode : WriteBack(i)
  \/ PowerLoss

Spec == Init /\ [][Next]_vars

-----------------------------------------------------------------------------
(* Properties. *)

\* The type of every variable.
TypeOK ==
  /\ cache \in [Inode -> Content] /\ disk \in [Inode -> Content]
  /\ dir \in Directories /\ crashDirs \subseteq Directories
  /\ created \in Nat /\ writes \in Nat
  /\ pc \in [Writer -> {"idle", "opened", "written", "synced", "renamed", "failed"}]
  /\ fd \in [Writer -> Inode] /\ data \in [Writer -> Value]
  /\ alone \subseteq Writer

\* At every moment a reader finds one whole value in the file, and so does the
\* next boot after a loss of power at that moment, in the middle of a write too.
NeverTorn ==
  /\ cache[dir.path] \in Value
  /\ \A d \in crashDirs : Survives(d.path) \subseteq Value

\* Once a write has returned with its directory synced, only that value or that
\* of a later write comes back.
ReturnedIsSafe ==
  (\A w \in Writer : pc[w] = "idle") =>
    \A d \in crashDirs, v \in Value :
      v \in Survives(d.path) => v = cache[dir.path]

\* Overlapping writes spoil no other: a write nobody overlapped puts its own value,
\* whole and synced, in place of the file, whatever was left of the temporary one.
LoneWriteLands ==
  [][\A w \in alone : pc[w] = "synced" /\ pc'[w] = "renamed" =>
       cache'[dir'.path] = data[w] /\ disk'[dir'.path] = data[w]]_vars

\* What a loss of power may bring back.
MayReturn == UNION {Survives(d.path) : d \in crashDirs}

\* A reader and a loss of power see a cell that changes in one step.
Cell == INSTANCE DurableCell WITH
  Value <- Value, cell <- cache[dir.path], may <- MayReturn

ImplementsDurableCell == Cell!Spec

\* atomicfile.go:1: "writes a file durably, so an unclean shutdown cannot leave it
\* empty or torn", said of callers that do not exclude each other.
NeverEmptyOrTorn == cache[dir.path] \in Value
=============================================================================
