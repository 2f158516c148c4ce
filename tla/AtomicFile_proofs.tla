-------------------------- MODULE AtomicFile_proofs --------------------------
(***************************************************************************)
(* The durable write keeps its promise to callers that exclude each other: *)
(* the file, and every file a loss of power may leave, is whole and        *)
(* synced.  The argument: the one writer works on an inode no directory    *)
(* calls the file, until the rename, and then that inode is synced.        *)
(***************************************************************************)
EXTENDS AtomicFile, TLAPS

OneWriter == \A v, w \in Writer : pc[v] # "idle" /\ pc[w] # "idle" => v = w

\* Every directory a loss of power may leave has a whole, synced file, which is
\* never the temporary one.
FilesSafe ==
  /\ dir \in crashDirs
  /\ \A d \in crashDirs : /\ cache[d.path] \in Value /\ disk[d.path] = cache[d.path]
                          /\ d.path # d.tmp

\* Inodes beyond `created` are not in use.
FreshInodes ==
  /\ created <= writes /\ writes <= MaxWrites
  /\ \A d \in crashDirs : d.path <= created /\ (d.tmp # NoFile => d.tmp <= created)

\* Only between its rename and the sync of the directory is there a directory
\* with another file.
SameFile ==
  (\A w \in Writer : pc[w] # "renamed") => \A d \in crashDirs : d.path = dir.path

\* The writer works on the temporary file, and how far it is with it.
WriterInv ==
  \A w \in Writer :
    /\ pc[w] \in {"opened", "written", "synced", "failed"} => dir.tmp = fd[w]
    /\ pc[w] = "opened" => cache[fd[w]] = Empty
    /\ pc[w] \in {"written", "synced"} => cache[fd[w]] \in Value
    /\ pc[w] = "synced" => disk[fd[w]] = cache[fd[w]]

IInv == TypeOK /\ OneWriter /\ FilesSafe /\ FreshInodes /\ SameFile /\ WriterInv

-----------------------------------------------------------------------------
(* The initial state. *)
LEMMA InitIInv == Init => IInv
BY FileAssumption DEF Init, IInv, TypeOK, OneWriter, FilesSafe, FreshInodes,
  SameFile, WriterInv, Content, Inode, Directories

(* The inode of a temporary file is the file of no directory a loss of power   *)
(* may leave, unless a rename waits for its sync.                              *)
LEMMA TemporaryApart ==
  ASSUME IInv, \A w \in Writer : pc[w] # "renamed"
  PROVE  \A d \in crashDirs : d.path # dir.tmp
BY DEF IInv, FilesSafe, SameFile

(* A writer at work has an inode of its own. *)
LEMMA WorkingFile ==
  ASSUME IInv, NEW w \in Writer, pc[w] \in {"opened", "written", "synced", "failed"}
  PROVE  /\ \A v \in Writer : pc[v] # "renamed" /\ (v # w => pc[v] = "idle")
         /\ fd[w] \in Inode /\ dir.tmp = fd[w]
         /\ \A d \in crashDirs : d.path # fd[w]
<1>1. \A v \in Writer : pc[v] # "renamed" /\ (v # w => pc[v] = "idle")
  BY DEF IInv, OneWriter
<1>2. fd[w] \in Inode /\ dir.tmp = fd[w]
  BY DEF IInv, TypeOK, WriterInv
<1>. QED
  BY <1>1, <1>2, TemporaryApart

(* Opening the temporary file, which no other writer has open. *)
LEMMA OpenStep ==
  ASSUME IInv, NEW w \in Writer, NEW v \in Value, Open(w, v), \A u \in Writer : pc[u] = "idle"
  PROVE  IInv'
<1>. USE FileAssumption
     DEF Open, IInv, TypeOK, OneWriter, FilesSafe, FreshInodes, SameFile, WriterInv,
         Content, Inode, Directories, Goto, NoteAlone, SetDir, dirs
<1>1. \A u \in Writer : pc[u] = "idle"
  OBVIOUS
<1>2. \A d \in crashDirs : d.path = dir.path /\ d.path # dir.tmp
  BY <1>1
<1>3. /\ dir' \in Directories /\ dir'.path = dir.path /\ dir'.tmp \in Inode
      /\ crashDirs' = crashDirs \cup {dir'}
      /\ created' \in Nat /\ created' <= writes' /\ dir'.tmp <= created'
      /\ created <= created'
  <2>1. CASE dir.tmp = NoFile
    <3>1. created \in Nat /\ created + 1 \in Inode /\ dir.path \in Inode
      OBVIOUS
    <3>2. /\ dir' = [path |-> dir.path, tmp |-> created + 1] /\ created' = created + 1
          /\ crashDirs' = crashDirs \cup {dir'}
      BY <2>1
    <3>. QED
      BY <3>1, <3>2
  <2>2. CASE dir.tmp # NoFile
    BY <2>2
  <2>. QED
    BY <2>1, <2>2
<1>4. \A d \in crashDirs : d.path # dir'.tmp
  <2>1. CASE dir.tmp = NoFile
    BY <2>1
  <2>2. CASE dir.tmp # NoFile
    BY <1>2, <2>2
  <2>. QED
    BY <2>1, <2>2
<1>5. /\ cache' = [cache EXCEPT ![dir'.tmp] = Empty] /\ disk' = disk
      /\ \A u \in Writer : pc'[u] = IF u = w THEN "opened" ELSE "idle"
      /\ fd'[w] = dir'.tmp
  BY <1>1
<1>6. TypeOK'
  BY <1>3
<1>7. OneWriter'
  BY <1>5
<1>8. FilesSafe'
  BY <1>2, <1>3, <1>4, <1>5
<1>9. FreshInodes'
  BY <1>3
<1>10. SameFile'
  BY <1>2, <1>3
<1>11. WriterInv'
  BY <1>3, <1>5
<1>. QED
  BY <1>6, <1>7, <1>8, <1>9, <1>10, <1>11 DEF IInv

(* Writing it touches no file a loss of power may leave. *)
LEMMA WriteStep ==
  ASSUME IInv, NEW w \in Writer, Write(w)
  PROVE  IInv'
<1>. USE FileAssumption DEF Write, IInv, Content, Goto, dirs
<1>1. /\ \A v \in Writer : pc[v] # "renamed" /\ (v # w => pc[v] = "idle")
      /\ fd[w] \in Inode /\ dir.tmp = fd[w]
      /\ \A d \in crashDirs : d.path # fd[w]
  BY WorkingFile
<1>2. cache[fd[w]] = Empty /\ data[w] \in Value
  BY DEF WriterInv, TypeOK
<1>3. /\ pc' \in [Writer -> {"idle", "written", "failed"}]
      /\ \A v \in Writer : v # w => pc'[v] = "idle"
      /\ cache' \in [Inode -> Content]
      /\ \A i \in Inode : i # fd[w] => cache'[i] = cache[i]
      /\ pc'[w] = "written" => cache'[fd[w]] = data[w]
  BY <1>1, <1>2 DEF TypeOK
<1>4. TypeOK'
  BY <1>3 DEF TypeOK
<1>5. OneWriter'
  BY <1>3 DEF OneWriter
<1>6. FilesSafe'
  BY <1>1, <1>3 DEF FilesSafe, TypeOK, Directories
<1>7. FreshInodes'
  BY DEF FreshInodes
<1>8. SameFile'
  BY <1>1 DEF SameFile
<1>9. WriterInv'
  BY <1>1, <1>2, <1>3 DEF WriterInv
<1>. QED
  BY <1>4, <1>5, <1>6, <1>7, <1>8, <1>9

(* So does syncing it. *)
LEMMA SyncStep ==
  ASSUME IInv, NEW w \in Writer, Sync(w)
  PROVE  IInv'
<1>. USE DEF Sync, IInv, Goto, dirs
<1>1. /\ \A v \in Writer : pc[v] # "renamed" /\ (v # w => pc[v] = "idle")
      /\ fd[w] \in Inode /\ dir.tmp = fd[w]
      /\ \A d \in crashDirs : d.path # fd[w]
  BY WorkingFile
<1>2. /\ pc' \in [Writer -> {"idle", "synced", "failed"}]
      /\ \A v \in Writer : v # w => pc'[v] = "idle"
      /\ disk' \in [Inode -> Content]
      /\ \A i \in Inode : i # fd[w] => disk'[i] = disk[i]
      /\ pc'[w] = "synced" => disk'[fd[w]] = cache[fd[w]]
  BY <1>1 DEF TypeOK
<1>3. TypeOK'
  BY <1>2 DEF TypeOK
<1>4. OneWriter'
  BY <1>2 DEF OneWriter
<1>5. FilesSafe'
  BY <1>1, <1>2 DEF FilesSafe, TypeOK, Directories
<1>6. FreshInodes'
  BY DEF FreshInodes
<1>7. SameFile'
  BY <1>1 DEF SameFile
<1>8. WriterInv'
  BY <1>1, <1>2 DEF WriterInv
<1>. QED
  BY <1>3, <1>4, <1>5, <1>6, <1>7, <1>8

(* The rename makes a whole and synced inode the file. *)
LEMMA RenameStep ==
  ASSUME IInv, NEW w \in Writer, Rename(w)
  PROVE  IInv'
<1>. USE DEF Rename, IInv, Goto, SetDir, disks, dirs
<1>1. /\ \A v \in Writer : pc[v] # "renamed" /\ (v # w => pc[v] = "idle")
      /\ fd[w] \in Inode /\ dir.tmp = fd[w]
      /\ \A d \in crashDirs : d.path # fd[w]
  BY WorkingFile
<1>2. cache[fd[w]] \in Value /\ disk[fd[w]] = cache[fd[w]]
  BY DEF WriterInv
<1>3. /\ pc' \in [Writer -> {"idle", "renamed", "failed"}]
      /\ \A v \in Writer : v # w => pc'[v] = "idle"
  BY <1>1 DEF TypeOK
<1>4. CASE UNCHANGED dirs /\ pc'[w] = "failed"
  BY <1>1, <1>2, <1>3, <1>4
     DEF TypeOK, OneWriter, FilesSafe, FreshInodes, SameFile, WriterInv
<1>5. CASE /\ dir' = [path |-> fd[w], tmp |-> NoFile] /\ crashDirs' = crashDirs \cup {dir'}
           /\ pc'[w] = "renamed"
  <2>1. fd[w] # NoFile /\ fd[w] <= created
    BY <1>1, FileAssumption DEF FreshInodes, FilesSafe, Inode
  <2>2. TypeOK'
    BY <1>1, <1>3, <1>5 DEF TypeOK, Directories
  <2>3. OneWriter'
    BY <1>3 DEF OneWriter
  <2>4. FilesSafe'
    BY <1>1, <1>2, <1>5, <2>1 DEF FilesSafe
  <2>5. FreshInodes'
    BY <1>1, <1>5, <2>1 DEF FreshInodes
  <2>6. SameFile'
    BY <1>5 DEF SameFile
  <2>7. WriterInv'
    BY <1>3, <1>5 DEF WriterInv
  <2>. QED
    BY <2>2, <2>3, <2>4, <2>5, <2>6, <2>7
<1>. QED
  BY <1>1, <1>4, <1>5 DEF TypeOK

(* Removing it leaves the file alone. *)
LEMMA RemoveStep ==
  ASSUME IInv, NEW w \in Writer, Remove(w)
  PROVE  IInv'
<1>. USE FileAssumption DEF Remove, IInv, Goto, SetDir, disks, Inode
<1>1. \A v \in Writer : pc[v] # "renamed" /\ (v # w => pc[v] = "idle")
  BY WorkingFile
<1>2. /\ dir' = [path |-> dir.path, tmp |-> NoFile] /\ dir.path \in Inode
      /\ crashDirs' = crashDirs \cup {dir'} /\ dir \in crashDirs
  BY DEF TypeOK, Directories, FilesSafe
<1>3. /\ pc' \in [Writer -> {"idle"}]
  BY <1>1 DEF TypeOK
<1>4. TypeOK'
  BY <1>2, <1>3 DEF TypeOK, Directories
<1>5. OneWriter' /\ WriterInv'
  BY <1>3 DEF OneWriter, WriterInv
<1>6. FilesSafe'
  <2>1. dir.path # NoFile /\ UNCHANGED disks
    BY <1>2
  <2>. QED
    BY <1>2, <2>1 DEF FilesSafe
<1>7. FreshInodes'
  BY <1>2 DEF FreshInodes
<1>8. SameFile'
  BY <1>1, <1>2 DEF SameFile
<1>. QED
  BY <1>4, <1>5, <1>6, <1>7, <1>8

(* What the opening writes, and from where. *)
LEMMA Begins ==
  ASSUME TypeOK, NEW w \in Writer, NEW v \in Value, Open(w, v)
  PROVE  pc[w] = "idle" /\ pc'[w] = "opened" /\ data'[w] = v
BY DEF TypeOK, Open, Goto

(* Every step preserves the invariant, if a write begins when no other is under way. *)
Opening == \E w \in Writer : pc[w] = "idle" /\ pc'[w] = "opened"
LEMMA StepIInv ==
  ASSUME IInv, [Next]_vars, Opening => \A u \in Writer : pc[u] = "idle"
  PROVE  IInv'
<1>. USE FileAssumption
     DEF IInv, TypeOK, OneWriter, FilesSafe, FreshInodes, SameFile, WriterInv,
         Content, Inode, Directories, disks, dirs, calls, Goto, SetDir
<1>1. ASSUME NEW w \in Writer, NEW v \in Value, Open(w, v) PROVE IInv'
  BY <1>1, OpenStep, Begins DEF Opening
<1>2. ASSUME NEW w \in Writer, Write(w) PROVE IInv'
  BY <1>2, WriteStep
<1>3. ASSUME NEW w \in Writer, Sync(w) PROVE IInv'
  BY <1>3, SyncStep
<1>4. ASSUME NEW w \in Writer, Rename(w) PROVE IInv'
  BY <1>4, RenameStep
<1>5. ASSUME NEW w \in Writer, Remove(w) PROVE IInv'
  BY <1>5, RemoveStep
<1>6. ASSUME NEW w \in Writer, SyncDir(w) PROVE IInv'
  BY <1>6 DEF SyncDir
<1>7. ASSUME NEW i \in Inode, WriteBack(i) PROVE IInv'
  BY <1>7 DEF WriteBack
<1>8. CASE PowerLoss
  BY <1>8 DEF PowerLoss, Survives
<1>9. CASE UNCHANGED vars
  BY <1>9 DEF vars
<1>. QED
  BY <1>1, <1>2, <1>3, <1>4, <1>5, <1>6, <1>7, <1>8, <1>9 DEF Next

-----------------------------------------------------------------------------
(* Callers that exclude each other: the invariant holds in every state.        *)
THEOREM Invariant == Serialized /\ Spec => []IInv
<1>. SUFFICES ASSUME Serialized PROVE Spec => []IInv
  OBVIOUS
<1>1. Init => IInv
  BY InitIInv
<1>2. IInv /\ [Next]_vars => IInv'
  <2>. SUFFICES ASSUME IInv, [Next]_vars, NEW w \in Writer, pc[w] = "idle", pc'[w] = "opened"
                PROVE  \A u \in Writer : pc[u] = "idle"
    BY StepIInv DEF Opening
  <2>. QED
    BY DEF IInv, TypeOK, Next, Open, Write, Sync, Rename, Remove, SyncDir, WriteBack, PowerLoss, vars, calls, Goto
<1>. QED
  BY <1>1, <1>2, PTL DEF Spec

(* Every variable has its type in every state (AtomicFile!TypeOK).             *)
THEOREM TypeCorrect == Serialized /\ Spec => []TypeOK
<1>1. IInv => TypeOK
  BY DEF IInv
<1>. QED
  BY <1>1, Invariant, PTL

(* At no moment can a reader, or a loss of power, find a file that is empty or *)
(* torn (AtomicFile!NeverTorn).                                                *)
THEOREM FileNeverTorn == Serialized /\ Spec => []NeverTorn
<1>1. IInv => NeverTorn
  BY DEF IInv, FilesSafe, NeverTorn, Survives
<1>. QED
  BY <1>1, Invariant, PTL

(* A write that has returned is what a loss of power brings back               *)
(* (AtomicFile!ReturnedIsSafe).                                                *)
THEOREM WriteReturnsSafe == Serialized /\ Spec => []ReturnedIsSafe
<1>1. IInv => ReturnedIsSafe
  BY DEF IInv, FilesSafe, SameFile, ReturnedIsSafe, Survives
<1>. QED
  BY <1>1, Invariant, PTL

-----------------------------------------------------------------------------
(* A loss of power brings back the file of one of the directories.             *)
LEMMA MayReturnIsFiles ==
  ASSUME IInv
  PROVE  MayReturn = {cache[d.path] : d \in crashDirs}
<1>1. \A d \in crashDirs : Survives(d.path) = {cache[d.path]}
  BY DEF IInv, FilesSafe, Survives
<1>. QED
  BY <1>1 DEF MayReturn

(* A step that keeps the directories and the files they name changes nothing   *)
(* in the abstract cell.                                                       *)
LEMMA KeepsCell ==
  ASSUME IInv, IInv',
         {d.path : d \in crashDirs'} = {d.path : d \in crashDirs},
         dir'.path = dir.path,
         \A d \in crashDirs : cache'[d.path] = cache[d.path]
  PROVE  cache'[dir'.path] = cache[dir.path] /\ MayReturn' = MayReturn
<1>1. cache'[dir'.path] = cache[dir.path]
  BY DEF IInv, FilesSafe
<1>2. MayReturn = {cache[d.path] : d \in crashDirs}
  BY MayReturnIsFiles
<1>3. MayReturn' = {cache'[d.path] : d \in crashDirs'}
  <2>1. \A d \in crashDirs' : Survives(d.path)' = {cache'[d.path]}
    BY DEF IInv, FilesSafe, Survives
  <2>. QED
    BY <2>1 DEF MayReturn
<1>4. \A v : v \in MayReturn' <=> v \in MayReturn
  BY <1>2, <1>3
<1>. QED
  BY <1>1, <1>4
(* Every step of the file is a step of the cell, or none.                      *)
LEMMA StepImplementsCell ==
  ASSUME Serialized, IInv, IInv', [Next]_vars
  PROVE  [Cell!Next]_(Cell!vars)
<1>. USE DEF disks, dirs, calls, Goto, SetDir
<1>. DEFINE Stutters == cache'[dir'.path] = cache[dir.path] /\ MayReturn' = MayReturn
<1>a. Stutters => UNCHANGED Cell!vars
  BY DEF Cell!vars
<1>b. MayReturn = {cache[d.path] : d \in crashDirs}
  BY MayReturnIsFiles
<1>c. MayReturn' = {cache'[d.path] : d \in crashDirs'}
  <2>1. \A d \in crashDirs' : Survives(d.path)' = {cache'[d.path]}
    BY DEF IInv, FilesSafe, Survives
  <2>. QED
    BY <2>1 DEF MayReturn
<1>1. ASSUME NEW w \in Writer, NEW v \in Value, Open(w, v) PROVE Stutters
  <2>1. \A d \in crashDirs' : d.path = dir.path /\ d.path # dir'.tmp
    BY <1>1 DEF Open, IInv, FilesSafe, SameFile
  <2>2. dir \in crashDirs /\ crashDirs \subseteq crashDirs' /\ dir' \in crashDirs'
    BY <1>1 DEF Open, IInv, FilesSafe
  <2>3. \A d \in crashDirs' : cache'[d.path] = cache[dir.path]
    BY <1>1, <2>1 DEF Open, IInv, TypeOK, Directories
  <2>. QED
    BY <2>1, <2>2, <2>3, <1>b, <1>c
<1>2. ASSUME NEW w \in Writer, Write(w) PROVE Stutters
  <2>1. \A d \in crashDirs : d.path # fd[w]
    BY <1>2, WorkingFile DEF Write
  <2>2. \A d \in crashDirs : cache'[d.path] = cache[d.path]
    BY <1>2, <2>1 DEF Write, IInv, TypeOK, Directories
  <2>. QED
    BY <1>2, <2>2, KeepsCell DEF Write
<1>3. ASSUME NEW w \in Writer, Sync(w) PROVE Stutters
  BY <1>3, KeepsCell DEF Sync
<1>4. ASSUME NEW w \in Writer, Rename(w) PROVE Cell!Replace \/ Stutters
  <2>1. CASE UNCHANGED dirs
    BY <1>4, <2>1, KeepsCell DEF Rename
  <2>2. CASE dir' = [path |-> dir.tmp, tmp |-> NoFile] /\ crashDirs' = crashDirs \cup {dir'}
    <3>1. cache' = cache /\ cache'[dir'.path] \in Value
      BY <1>4 DEF Rename, IInv, FilesSafe
    <3>2. MayReturn' = MayReturn \cup {cache'[dir'.path]}
      BY <2>2, <3>1, <1>b, <1>c
    <3>. QED
      BY <3>1, <3>2 DEF Cell!Replace
  <2>. QED
    BY <1>4, <2>1, <2>2 DEF Rename
<1>5. ASSUME NEW w \in Writer, Remove(w) PROVE Stutters
  <2>1. dir'.path = dir.path /\ crashDirs' = crashDirs \cup {dir'} /\ cache' = cache
    BY <1>5 DEF Remove, IInv, TypeOK, Directories
  <2>2. dir \in crashDirs
    BY DEF IInv, FilesSafe
  <2>. QED
    BY <2>1, <2>2, <1>b, <1>c
<1>6. ASSUME NEW w \in Writer, SyncDir(w) PROVE Cell!Settle
  BY <1>6, <1>c DEF SyncDir, Cell!Settle
<1>7. ASSUME NEW i \in Inode, WriteBack(i) PROVE Stutters
  BY <1>7, KeepsCell DEF WriteBack
<1>8. CASE PowerLoss
  <2>1. dir' \in crashDirs /\ crashDirs' = {dir'}
    BY <1>8 DEF PowerLoss
  <2>2. cache'[dir'.path] \in Survives(dir'.path)
    BY <1>8, FileAssumption DEF PowerLoss, IInv, TypeOK, Directories, Inode
  <2>3. Survives(dir'.path) = {cache[dir'.path]}
    BY <2>1 DEF IInv, FilesSafe, Survives
  <2>. QED
    BY <2>1, <2>2, <2>3, <1>b, <1>c DEF Cell!PowerLoss, Cell!Next
<1>9. CASE UNCHANGED vars
  BY <1>9 DEF vars, MayReturn, Survives, Cell!vars
<1>. QED
  BY <1>a, <1>1, <1>2, <1>3, <1>4, <1>5, <1>6, <1>7, <1>8, <1>9 DEF Next, Cell!Next

(* The file implements the cell: readers and losses of power see a value that  *)
(* a write replaces in one step (AtomicFile!ImplementsDurableCell).            *)
THEOREM RefinesDurableCell == Serialized /\ Spec => ImplementsDurableCell
<1>. SUFFICES ASSUME Serialized PROVE Spec => Cell!Spec
  BY DEF ImplementsDurableCell
<1>1. Init => Cell!Init
  BY FileAssumption
     DEF Init, Cell!Init, MayReturn, Survives, Inode
<1>2. IInv /\ IInv' /\ [Next]_vars => [Cell!Next]_(Cell!vars)
  BY StepImplementsCell
<1>3. Spec => []IInv
  BY Invariant
<1>. QED
  BY <1>1, <1>2, <1>3, PTL DEF Spec, Cell!Spec
-----------------------------------------------------------------------------
(* Callers that may overlap. *)

\* What holds whoever overlaps: inodes are drawn in order, and no directory calls one
\* inode both its file and its temporary file, nor one the temporary file of now.
Base ==
  /\ TypeOK /\ FreshInodes /\ dir \in crashDirs
  /\ \A d \in crashDirs : d.path # d.tmp /\ d.path # dir.tmp

\* A writer that has had the temporary file to itself: the others are between writes or
\* wait for the directory, and how far it is.
LoneInv ==
  \A w \in alone :
    /\ alone = {w}
    /\ \A v \in Writer : v # w => pc[v] \in {"idle", "renamed"}
    /\ pc[w] \in {"opened", "written", "synced", "failed"} => dir.tmp = fd[w]
    /\ pc[w] = "opened" => cache[fd[w]] = Empty
    /\ pc[w] \in {"written", "synced"} => cache[fd[w]] = data[w]
    /\ pc[w] = "synced" => disk[fd[w]] = data[w]
    /\ pc[w] = "renamed" => cache[dir.path] = data[w] /\ disk[dir.path] = data[w]

LEMMA InitLone == Init => Base /\ LoneInv
BY FileAssumption DEF Init, Base, LoneInv, TypeOK, FreshInodes, Content, Inode, Directories

\* What the opening of the temporary file does, whoever has it open.
LEMMA Opened ==
  ASSUME Base, NEW w \in Writer, NEW v \in Value, Open(w, v)
  PROVE  /\ dir' \in Directories /\ dir'.path = dir.path /\ dir'.tmp \in Inode
         /\ crashDirs' = crashDirs \cup {dir'}
         /\ created' \in Nat /\ created <= created' /\ created' <= writes' /\ writes' <= MaxWrites
         /\ dir'.tmp <= created'
         /\ \A d \in crashDirs : d.path # dir'.tmp
         /\ dir.tmp # NoFile => dir' = dir
<1>. USE FileAssumption DEF Open, Base, TypeOK, FreshInodes, Inode, Directories, SetDir, dirs
<1>1. CASE dir.tmp = NoFile
  <2>1. created \in Nat /\ created + 1 \in Inode /\ dir.path \in Inode
    OBVIOUS
  <2>2. /\ dir' = [path |-> dir.path, tmp |-> created + 1] /\ created' = created + 1
        /\ crashDirs' = crashDirs \cup {dir'}
    BY <1>1
  <2>. QED
    BY <1>1, <2>1, <2>2
<1>2. CASE dir.tmp # NoFile
  BY <1>2
<1>. QED
  BY <1>1, <1>2

\* No step breaks it, ...
LEMMA BaseStep ==
  ASSUME Base, [Next]_vars
  PROVE  Base'
<1>. USE FileAssumption
     DEF Base, TypeOK, FreshInodes, Content, Inode, Directories, disks, dirs, calls, Goto, SetDir
<1>1. ASSUME NEW w \in Writer, NEW v \in Value, Open(w, v) PROVE Base'
  <2>1. /\ dir' \in Directories /\ dir'.path = dir.path /\ dir'.tmp \in Inode
        /\ crashDirs' = crashDirs \cup {dir'}
        /\ created' \in Nat /\ created <= created' /\ created' <= writes' /\ writes' <= MaxWrites
        /\ dir'.tmp <= created'
        /\ \A d \in crashDirs : d.path # dir'.tmp
    BY <1>1, Opened
  <2>2. TypeOK'
    BY <1>1, <2>1 DEF Open, NoteAlone
  <2>. QED
    BY <1>1, <2>1, <2>2 DEF Open
<1>2. ASSUME NEW w \in Writer, Write(w) PROVE Base'
  BY <1>2 DEF Write
<1>3. ASSUME NEW w \in Writer, Sync(w) PROVE Base'
  BY <1>3 DEF Sync
<1>4. ASSUME NEW w \in Writer, Rename(w) PROVE Base'
  <2>1. CASE UNCHANGED dirs
    BY <1>4, <2>1 DEF Rename
  <2>2. CASE /\ dir.tmp # NoFile /\ dir' = [path |-> dir.tmp, tmp |-> NoFile]
             /\ crashDirs' = crashDirs \cup {dir'}
    <3>1. /\ dir.tmp \in Inode /\ dir'.path = dir.tmp /\ dir'.tmp = NoFile /\ dir' \in Directories
          /\ dir.tmp # NoFile /\ dir.tmp <= created
      BY <2>2
    <3>2. TypeOK'
      BY <1>4, <2>2, <3>1 DEF Rename
    <3>3. UNCHANGED <<created, writes>>
      BY <1>4 DEF Rename
    <3>. QED
      BY <2>2, <3>1, <3>2, <3>3
  <2>. QED
    BY <1>4, <2>1, <2>2 DEF Rename
<1>5. ASSUME NEW w \in Writer, Remove(w) PROVE Base'
  <2>1. dir' = [path |-> dir.path, tmp |-> NoFile] /\ crashDirs' = crashDirs \cup {dir'}
    BY <1>5 DEF Remove
  <2>. QED
    BY <1>5, <2>1 DEF Remove
<1>6. ASSUME NEW w \in Writer, SyncDir(w) PROVE Base'
  BY <1>6 DEF SyncDir
<1>7. ASSUME NEW i \in Inode, WriteBack(i) PROVE Base'
  BY <1>7 DEF WriteBack
<1>8. CASE PowerLoss
  BY <1>8 DEF PowerLoss, Survives
<1>9. CASE UNCHANGED vars
  BY <1>9 DEF vars
<1>. QED
  BY <1>1, <1>2, <1>3, <1>4, <1>5, <1>6, <1>7, <1>8, <1>9 DEF Next

\* ... nor what a lone writer has reached.
LEMMA LoneStep ==
  ASSUME Base, LoneInv, [Next]_vars
  PROVE  LoneInv'
<1>. USE FileAssumption
     DEF Base, TypeOK, LoneInv, Content, Inode, Directories, disks, dirs, calls, Goto, SetDir
<1>1. ASSUME NEW w \in Writer, NEW v \in Value, Open(w, v) PROVE LoneInv'
  <2>1. dir'.tmp \in Inode
    BY <1>1, Opened
  <2>. QED
    BY <1>1, <2>1 DEF Open, NoteAlone
<1>2. ASSUME NEW w \in Writer, Write(w) PROVE LoneInv'
  BY <1>2 DEF Write
<1>3. ASSUME NEW w \in Writer, Sync(w) PROVE LoneInv'
  BY <1>3 DEF Sync
<1>4. ASSUME NEW w \in Writer, Rename(w) PROVE LoneInv'
  BY <1>4 DEF Rename
<1>5. ASSUME NEW w \in Writer, Remove(w) PROVE LoneInv'
  BY <1>5 DEF Remove
<1>6. ASSUME NEW w \in Writer, SyncDir(w) PROVE LoneInv'
  BY <1>6 DEF SyncDir
<1>7. ASSUME NEW i \in Inode, WriteBack(i) PROVE LoneInv'
  BY <1>7 DEF WriteBack
<1>8. CASE PowerLoss
  BY <1>8 DEF PowerLoss
<1>9. CASE UNCHANGED vars
  BY <1>9 DEF vars
<1>. QED
  BY <1>1, <1>2, <1>3, <1>4, <1>5, <1>6, <1>7, <1>8, <1>9 DEF Next

\* The write of a lone writer puts its value in place.
LEMMA LoneStepLands ==
  ASSUME Base, LoneInv, [Next]_vars, NEW w \in alone, pc[w] = "synced", pc'[w] = "renamed"
  PROVE  cache'[dir'.path] = data[w] /\ disk'[dir'.path] = data[w]
<1>. USE DEF Base, TypeOK, LoneInv, disks, dirs, calls, Goto, SetDir
<1>1. w \in Writer
  OBVIOUS
<1>2. Rename(w)
  BY <1>1 DEF Next, Open, Write, Sync, Rename, Remove, SyncDir, WriteBack, PowerLoss, vars
<1>. QED
  BY <1>1, <1>2 DEF Rename

(* Whatever overlapping callers have left, a write that nobody overlapped puts its own *)
(* value, whole and synced, in place of the file (AtomicFile!LoneWriteLands).          *)
THEOREM LoneLands == Spec => LoneWriteLands
<1>1. Init => Base /\ LoneInv
  BY InitLone
<1>2. Base /\ LoneInv /\ [Next]_vars => (Base /\ LoneInv)'
  BY BaseStep, LoneStep
<1>3. Base /\ LoneInv /\ [Next]_vars =>
        [\A w \in alone : pc[w] = "synced" /\ pc'[w] = "renamed" =>
           cache'[dir'.path] = data[w] /\ disk'[dir'.path] = data[w]]_vars
  BY LoneStepLands
<1>. QED
  BY <1>1, <1>2, <1>3, PTL DEF Spec, LoneWriteLands

-----------------------------------------------------------------------------
(* What two callers do to each other, for the stores that let them overlap. *)

\* A write begins beside lone writers only, and with a value of C.
Joining(C) == \A w \in Writer : pc[w] = "idle" /\ pc'[w] = "opened" =>
  data'[w] \in C /\ \A u \in Writer : pc[u] # "idle" => u \in alone

\* All content is of C: what a loss of power may leave, and what the writers make of it.
Within(C) ==
  /\ \A d \in crashDirs : cache[d.path] \in C /\ disk[d.path] \in C
  /\ \A w \in Writer : pc[w] # "idle" => data[w] \in C
  /\ \A w \in Writer : pc[w] \in {"opened", "written", "synced", "failed"} =>
       cache[fd[w]] \in C /\ dir.tmp \in {fd[w], NoFile}
  /\ \A w \in Writer : pc[w] = "synced" => disk[fd[w]] \in C

LEMMA WithinStep ==
  ASSUME NEW C, {Empty, Torn} \subseteq C, Base, LoneInv, Within(C), [Next]_vars, Joining(C)
  PROVE  Within(C)'
<1>. USE FileAssumption
     DEF Base, TypeOK, Within, Content, Inode, Directories, disks, dirs, calls, Goto, SetDir
<1>1. ASSUME NEW w \in Writer, NEW v \in Value, Open(w, v) PROVE Within(C)'
  <2>1. /\ dir'.path = dir.path /\ dir'.tmp \in Inode /\ crashDirs' = crashDirs \cup {dir'}
        /\ \A d \in crashDirs : d.path # dir'.tmp
        /\ dir.tmp # NoFile => dir' = dir
    BY <1>1, Opened
  <2>2. /\ v \in C
        /\ \A u \in Writer : pc[u] \in {"opened", "written", "synced", "failed"} => dir'.tmp = fd[u]
    BY <1>1, <2>1, Begins DEF Joining, LoneInv
  <2>3. \A d \in crashDirs' : cache'[d.path] \in C /\ disk'[d.path] \in C
    BY <1>1, <2>1 DEF Open
  <2>. QED
    BY <1>1, <2>1, <2>2, <2>3 DEF Open
<1>2. ASSUME NEW w \in Writer, Write(w) PROVE Within(C)'
  <2>1. /\ \A i \in Inode : cache'[i] = cache[i] \/ (i = fd[w] /\ cache'[i] \in {data[w], Torn})
        /\ \A u \in Writer : pc'[u] = pc[u] \/ (u = w /\ pc'[u] \in {"written", "failed"})
        /\ data[w] \in C /\ fd \in [Writer -> Inode]
    <3>1. /\ cache' = cache \/ cache' = [cache EXCEPT ![fd[w]] = data[w]] \/ cache' = [cache EXCEPT ![fd[w]] = Torn]
          /\ pc' = [pc EXCEPT ![w] = "written"] \/ pc' = [pc EXCEPT ![w] = "failed"]
          /\ pc[w] = "opened"
      BY <1>2 DEF Write
    <3>2. \A i \in Inode : cache'[i] = cache[i] \/ (i = fd[w] /\ cache'[i] \in {data[w], Torn})
      BY <3>1
    <3>3. \A u \in Writer : pc'[u] = pc[u] \/ (u = w /\ pc'[u] \in {"written", "failed"})
      BY <3>1
    <3>. QED
      BY <3>1, <3>2, <3>3
  <2>2. UNCHANGED <<disk, dir, crashDirs, fd, data>> /\ pc[w] = "opened"
    BY <1>2 DEF Write
  <2>3. \A d \in crashDirs : cache'[d.path] \in C
    BY <2>1
  <2>4. \A u \in Writer : pc'[u] \in {"opened", "written", "synced", "failed"} =>
          cache'[fd[u]] \in C /\ dir.tmp \in {fd[u], NoFile}
    BY <2>1, <2>2
  <2>. QED
    BY <2>1, <2>2, <2>3, <2>4
<1>3. ASSUME NEW w \in Writer, Sync(w) PROVE Within(C)'
  BY <1>3, ZenonT(60) DEF Sync
<1>4. ASSUME NEW w \in Writer, Rename(w) PROVE Within(C)'
  <2>1. CASE UNCHANGED dirs
    BY <1>4, <2>1 DEF Rename
  <2>2. CASE /\ dir.tmp # NoFile /\ dir' = [path |-> dir.tmp, tmp |-> NoFile]
             /\ crashDirs' = crashDirs \cup {dir'}
    <3>1. dir'.path = fd[w] /\ dir'.tmp = NoFile
      BY <1>4, <2>2 DEF Rename
    <3>2. \A d \in crashDirs' : cache'[d.path] \in C /\ disk'[d.path] \in C
      BY <1>4, <2>2, <3>1 DEF Rename
    <3>. QED
      BY <1>4, <2>2, <3>1, <3>2 DEF Rename
  <2>. QED
    BY <1>4, <2>1, <2>2 DEF Rename
<1>5. ASSUME NEW w \in Writer, Remove(w) PROVE Within(C)'
  <2>1. dir'.path = dir.path /\ dir'.tmp = NoFile /\ crashDirs' = crashDirs \cup {dir'}
    BY <1>5 DEF Remove
  <2>2. \A d \in crashDirs' : cache'[d.path] \in C /\ disk'[d.path] \in C
    BY <1>5, <2>1 DEF Remove
  <2>. QED
    BY <1>5, <2>1, <2>2 DEF Remove
<1>6. ASSUME NEW w \in Writer, SyncDir(w) PROVE Within(C)'
  BY <1>6 DEF SyncDir
<1>7. ASSUME NEW i \in Inode, WriteBack(i) PROVE Within(C)'
  BY <1>7 DEF WriteBack
<1>8. CASE PowerLoss
  <2>1. dir' \in crashDirs /\ crashDirs' = {dir'} /\ disk' = cache' /\ \A w \in Writer : pc'[w] = "idle"
    BY <1>8 DEF PowerLoss
  <2>2. cache'[dir'.path] \in Survives(dir'.path)
    BY <1>8 DEF PowerLoss
  <2>. QED
    BY <2>1, <2>2 DEF Survives
<1>9. CASE UNCHANGED vars
  BY <1>9 DEF vars
<1>. QED
  BY <1>1, <1>2, <1>3, <1>4, <1>5, <1>6, <1>7, <1>8, <1>9 DEF Next

\* Of two writers of one temporary file, neither of which had it to itself, one renames it
\* and the other finds it gone.
Pairs ==
  \A u, w \in Writer : u # w /\ pc[u] # "idle" /\ pc[w] # "idle" =>
    \/ u \in alone \/ w \in alone
    \/ ~(pc[u] = "renamed" /\ pc[w] = "renamed") /\ (pc[u] = "renamed" => dir.tmp = NoFile)

LEMMA PairsStep ==
  ASSUME NEW C, Base, LoneInv, Pairs, [Next]_vars, Joining(C)
  PROVE  Pairs'
<1>. USE DEF Base, TypeOK, Pairs, disks, dirs, calls, Goto, SetDir
<1>1. ASSUME NEW w \in Writer, NEW v \in Value, Open(w, v) PROVE Pairs'
  <2>1. \A u \in Writer : pc[u] # "idle" => alone = {u}
    BY <1>1, Begins DEF Joining, LoneInv
  <2>2. pc'[w] = "opened" /\ \A u \in Writer : u # w => pc'[u] = pc[u]
    BY <1>1 DEF Open
  <2>3. w \in alone' \/ \E u \in Writer \ {w} : pc[u] \notin {"idle", "renamed"}
    BY <1>1 DEF Open, NoteAlone
  <2>. QED
    BY <2>1, <2>2, <2>3
<1>2. ASSUME NEW w \in Writer, Write(w) PROVE Pairs'
  BY <1>2 DEF Write
<1>3. ASSUME NEW w \in Writer, Sync(w) PROVE Pairs'
  BY <1>3 DEF Sync
<1>4. ASSUME NEW w \in Writer, Rename(w) PROVE Pairs'
  BY <1>4 DEF Rename
<1>5. ASSUME NEW w \in Writer, Remove(w) PROVE Pairs'
  BY <1>5 DEF Remove
<1>6. ASSUME NEW w \in Writer, SyncDir(w) PROVE Pairs'
  BY <1>6 DEF SyncDir
<1>7. ASSUME NEW i \in Inode, WriteBack(i) PROVE Pairs'
  BY <1>7 DEF WriteBack
<1>8. CASE PowerLoss
  BY <1>8 DEF PowerLoss
<1>9. CASE UNCHANGED vars
  BY <1>9 DEF vars
<1>. QED
  BY <1>1, <1>2, <1>3, <1>4, <1>5, <1>6, <1>7, <1>8, <1>9 DEF Next

\* The last of them is alone, or has seen a whole file in place, or finds its own gone.
Escapes(w) ==
  \/ w \in alone
  \/ pc[w] = "renamed" /\ IInv
  \/ pc[w] \notin {"idle", "renamed"} /\ dir.tmp = NoFile
Only(w) == \A u \in Writer : u # w => pc[u] = "idle"

LEMMA EscapesStep ==
  ASSUME Base, LoneInv, NEW w \in Writer, Escapes(w), Only(w), ~Opening, [Next]_vars, pc'[w] # "idle", pc[w] # "idle"
  PROVE  Escapes(w)' /\ Only(w)'
<1>. USE DEF Base, TypeOK, disks, dirs, calls, Goto, SetDir
<1>0. \A v \in Writer, x \in Value : ~Open(v, x)
  BY Begins DEF Opening
<1>1. CASE IInv
  <2>1. IInv'
    BY <1>1, StepIInv
  <2>. QED
    BY <1>0, <2>1 DEF Next, Write, Sync, Rename, Remove, SyncDir, WriteBack, PowerLoss, vars, Escapes, Only
<1>2. CASE ~IInv
  BY <1>0, <1>2 DEF Next, Write, Sync, Rename, Remove, SyncDir, WriteBack, PowerLoss, vars, Escapes, Only
<1>. QED
  BY <1>1, <1>2

\* A lone writer's value is in the file when its directory is synced.
LEMMA LoneSyncs ==
  ASSUME Base, LoneInv, NEW w \in alone, SyncDir(w)
  PROVE  crashDirs' = {dir'} /\ cache'[dir'.path] = data[w] /\ disk'[dir'.path] = data[w]
BY DEF Base, TypeOK, LoneInv, SyncDir, disks

\* A file nobody writes, and that no loss of power brings back otherwise, is safe.
LEMMA Settled ==
  ASSUME Base, \A w \in Writer : pc[w] = "idle",
         \A d \in crashDirs : d.path = dir.path,
         cache[dir.path] \in Value, disk[dir.path] = cache[dir.path]
  PROVE  IInv
BY DEF Base, IInv, OneWriter, FilesSafe, SameFile, WriterInv

LEMMA EscapesLand ==
  ASSUME Base, LoneInv, NEW w \in Writer, Escapes(w), Only(w), SyncDir(w)
  PROVE  IInv'
<1>. USE DEF SyncDir, Goto
<1>1. CASE w \in alone
  <2>1. crashDirs' = {dir'} /\ cache'[dir'.path] = data[w] /\ disk'[dir'.path] = data[w]
    BY <1>1, LoneSyncs
  <2>2. Base'
    BY BaseStep DEF Next
  <2>3. data[w] \in Value /\ \A u \in Writer : pc'[u] = "idle"
    BY DEF Base, TypeOK, Only
  <2>. QED
    BY <2>1, <2>2, <2>3 DEF Base, IInv, OneWriter, FilesSafe, SameFile, WriterInv
<1>2. CASE IInv
  BY <1>2, StepIInv DEF Next, Opening, Open, Base, TypeOK
<1>. QED
  BY <1>1, <1>2 DEF Escapes

\* When the first of two syncs the directory, the other one escapes.
LEMMA OtherEscapes ==
  ASSUME Base, LoneInv, Pairs, NEW u \in Writer, NEW w \in Writer, u # w, SyncDir(u), pc[w] # "idle",
         \A v \in Writer : pc[v] # "idle" => v \in {u, w}
  PROVE  Escapes(w)' /\ Only(w)'
<1>. USE DEF Base, TypeOK, SyncDir, Goto, disks
<1>1. Only(w)'
  BY DEF Only
<1>2. CASE w \in alone
  BY <1>1, <1>2 DEF Escapes
<1>3. CASE u \in alone
  <2>1. crashDirs' = {dir'} /\ cache'[dir'.path] = data[u] /\ disk'[dir'.path] = data[u]
    BY <1>3, LoneSyncs
  <2>2. pc[w] = "renamed" /\ pc'[w] = "renamed"
    BY <1>3 DEF LoneInv
  <2>3. Base'
    BY BaseStep DEF Next
  <2>4. IInv'
    BY <1>1, <2>1, <2>2, <2>3 DEF Only, IInv, OneWriter, FilesSafe, SameFile, WriterInv
  <2>. QED
    BY <1>1, <2>2, <2>4 DEF Escapes
<1>4. CASE u \notin alone /\ w \notin alone
  <2>1. pc[w] # "renamed" /\ dir.tmp = NoFile
    BY <1>4 DEF Pairs
  <2>. QED
    BY <1>1, <2>1 DEF Escapes
<1>. QED
  BY <1>2, <1>3, <1>4

\* While lone writers write only m, a file that holds m holds it.
Holds(m) == \A d \in crashDirs : cache[d.path] = m

LEMMA HoldsStep ==
  ASSUME NEW m \in Value, IInv, Base, LoneInv, Holds(m), [Next]_vars,
         Opening => \A u \in Writer : pc[u] = "idle",
         \A w \in Writer : pc[w] # "idle" => w \in alone /\ data[w] = m
  PROVE  Holds(m)'
<1>. USE FileAssumption
     DEF IInv, TypeOK, FilesSafe, Holds, Content, Inode, Directories, disks, dirs, calls, Goto, SetDir
<1>1. ASSUME NEW w \in Writer, NEW v \in Value, Open(w, v) PROVE Holds(m)'
  <2>1. /\ dir'.path = dir.path /\ dir'.tmp \in Inode /\ crashDirs' = crashDirs \cup {dir'}
        /\ \A d \in crashDirs : d.path # dir'.tmp
    BY <1>1, Opened
  <2>2. cache' = [cache EXCEPT ![dir'.tmp] = Empty]
    BY <1>1 DEF Open
  <2>. QED
    BY <2>1, <2>2
<1>2. ASSUME NEW w \in Writer, Write(w) PROVE Holds(m)'
  BY <1>2, WorkingFile DEF Write
<1>3. ASSUME NEW w \in Writer, Sync(w) PROVE Holds(m)'
  BY <1>3 DEF Sync
<1>4. ASSUME NEW w \in Writer, Rename(w) PROVE Holds(m)'
  <2>1. dir.tmp = fd[w] /\ cache[fd[w]] = m
    BY <1>4 DEF LoneInv, Rename
  <2>. QED
    BY <1>4, <2>1 DEF Rename
<1>5. ASSUME NEW w \in Writer, Remove(w) PROVE Holds(m)'
  <2>1. dir'.path = dir.path /\ crashDirs' = crashDirs \cup {dir'}
    BY <1>5 DEF Remove
  <2>. QED
    BY <1>5, <2>1 DEF Remove
<1>6. ASSUME NEW w \in Writer, SyncDir(w) PROVE Holds(m)'
  BY <1>6 DEF SyncDir
<1>7. ASSUME NEW i \in Inode, WriteBack(i) PROVE Holds(m)'
  BY <1>7 DEF WriteBack
<1>8. CASE PowerLoss
  <2>1. dir' \in crashDirs /\ crashDirs' = {dir'}
    BY <1>8 DEF PowerLoss
  <2>2. cache'[dir'.path] \in Survives(dir'.path)
    BY <1>8 DEF PowerLoss
  <2>. QED
    BY <2>1, <2>2 DEF Survives
<1>9. CASE UNCHANGED vars
  BY <1>9 DEF vars
<1>. QED
  BY <1>1, <1>2, <1>3, <1>4, <1>5, <1>6, <1>7, <1>8, <1>9 DEF Next

\* A value that has landed stays until another write begins, or the power is lost.
Landed(m) == crashDirs = {dir} /\ cache[dir.path] = m /\ disk[dir.path] = m

LEMMA LandedStep ==
  ASSUME Base, LoneInv, NEW m, Landed(m), [Next]_vars, NEW w \in alone, w \in alone',
         pc[w] = "idle", pc'[w] = "idle"
  PROVE  Landed(m)'
<1>. USE DEF Base, TypeOK, Landed, Directories, disks, dirs, calls, Goto, SetDir
<1>0. \A v \in Writer : pc[v] \in {"idle", "renamed"}
  BY DEF LoneInv
<1>1. ASSUME NEW u \in Writer, NEW v \in Value, Open(u, v) PROVE FALSE
  BY <1>1 DEF Open, NoteAlone
<1>2. ASSUME NEW u \in Writer, SyncDir(u) PROVE Landed(m)'
  BY <1>2 DEF SyncDir
<1>3. ASSUME NEW i \in Inode, WriteBack(i) PROVE Landed(m)'
  BY <1>3 DEF WriteBack
<1>. QED
  BY <1>0, <1>1, <1>2, <1>3 DEF Next, Write, Sync, Rename, Remove, PowerLoss, vars
=============================================================================
