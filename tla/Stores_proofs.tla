------------------------------ MODULE Stores_proofs ------------------------------
(***************************************************************************)
(* What the agent keeps on NAND, for any number of savers, presets, cards  *)
(* and writes (StoresInv and LoneSaveLands of MCStores).                   *)
(*                                                                         *)
(* The presets.  Saves may overlap on the one temporary file, so the safe  *)
(* file of AtomicFile_proofs is lost at times.  The argument counts who    *)
(* joined whom: two saves beside each other spoil presets.json or its      *)
(* backup, never both, since while both are at one file the other is safe, *)
(* and the last of them to leave presets.json escapes what the first did   *)
(* to it (OneIsSafe).  A save that had both files to itself leaves both    *)
(* safe again, whatever was before (HealStep).                             *)
(*                                                                         *)
(* The ring of recently played cards.  Rows are neat where they are kept,  *)
(* marshalled and written; a clean ring is in the one write under way, or  *)
(* in the file.                                                            *)
(***************************************************************************)
EXTENDS MCStores, TLAPS, SequenceTheorems, WellFoundedInduction

\* presets.json, as a file of callers that may overlap.
PF == INSTANCE AtomicFile_proofs WITH
  Serialized <- FALSE, MaxWrites <- MaxPresetWrites, Value <- SUBSET Slot, First <- Slot,
  cache <- pCache, disk <- pDisk, dir <- pDir, crashDirs <- pCrashDirs,
  created <- pCreated, writes <- pWrites, pc <- pPc, fd <- pFd, data <- pData, alone <- pAlone

\* Its backup.
BF == INSTANCE AtomicFile_proofs WITH
  Serialized <- FALSE, MaxWrites <- MaxPresetWrites, Value <- SUBSET Slot, First <- Slot,
  cache <- bCache, disk <- bDisk, dir <- bDir, crashDirs <- bCrashDirs,
  created <- bCreated, writes <- bWrites, pc <- bPc, fd <- bFd, data <- bData, alone <- bAlone

\* The steps of the store on presets.json are those of AtomicFile.
LEMMA PrimaryActions ==
  ASSUME NEW w, NEW v
  PROVE  /\ Presets!P!Open(w, v) => PF!Open(w, v)
         /\ Presets!P!Write(w) => PF!Write(w)
         /\ Presets!P!Sync(w) => PF!Sync(w)
         /\ Presets!P!Rename(w) => PF!Rename(w)
         /\ Presets!P!Remove(w) => PF!Remove(w)
         /\ Presets!P!SyncDir(w) => PF!SyncDir(w)
         /\ Presets!P!WriteBack(w) => PF!WriteBack(w)
         /\ Presets!P!PowerLoss => PF!PowerLoss
<1>. USE DEF Presets!P!Goto, Presets!P!SetDir, Presets!P!NoteAlone, Presets!P!Survives,
             Presets!P!disks, Presets!P!dirs, Presets!P!calls, Presets!P!Inode, Presets!P!Content,
             PF!Goto, PF!SetDir, PF!NoteAlone, PF!Survives, PF!disks, PF!dirs, PF!calls, PF!Inode, PF!Content
<1>1. Presets!P!Open(w, v) => PF!Open(w, v) BY DEF Presets!P!Open, PF!Open
<1>2. Presets!P!Write(w) => PF!Write(w) BY DEF Presets!P!Write, PF!Write
<1>3. Presets!P!Sync(w) => PF!Sync(w) BY DEF Presets!P!Sync, PF!Sync
<1>4. Presets!P!Rename(w) => PF!Rename(w) BY DEF Presets!P!Rename, PF!Rename
<1>5. Presets!P!Remove(w) => PF!Remove(w) BY DEF Presets!P!Remove, PF!Remove
<1>6. Presets!P!SyncDir(w) => PF!SyncDir(w) BY DEF Presets!P!SyncDir, PF!SyncDir
<1>7. Presets!P!WriteBack(w) => PF!WriteBack(w) BY DEF Presets!P!WriteBack, PF!WriteBack
<1>8. Presets!P!PowerLoss => PF!PowerLoss BY DEF Presets!P!PowerLoss, PF!PowerLoss
<1>. QED BY <1>1, <1>2, <1>3, <1>4, <1>5, <1>6, <1>7, <1>8

\* ... and those on its backup.
LEMMA BackupActions ==
  ASSUME NEW w, NEW v
  PROVE  /\ Presets!B!Open(w, v) => BF!Open(w, v)
         /\ Presets!B!Write(w) => BF!Write(w)
         /\ Presets!B!Sync(w) => BF!Sync(w)
         /\ Presets!B!Rename(w) => BF!Rename(w)
         /\ Presets!B!Remove(w) => BF!Remove(w)
         /\ Presets!B!SyncDir(w) => BF!SyncDir(w)
         /\ Presets!B!WriteBack(w) => BF!WriteBack(w)
         /\ Presets!B!PowerLoss => BF!PowerLoss
<1>. USE DEF Presets!B!Goto, Presets!B!SetDir, Presets!B!NoteAlone, Presets!B!Survives,
             Presets!B!disks, Presets!B!dirs, Presets!B!calls, Presets!B!Inode, Presets!B!Content,
             BF!Goto, BF!SetDir, BF!NoteAlone, BF!Survives, BF!disks, BF!dirs, BF!calls, BF!Inode, BF!Content
<1>1. Presets!B!Open(w, v) => BF!Open(w, v) BY DEF Presets!B!Open, BF!Open
<1>2. Presets!B!Write(w) => BF!Write(w) BY DEF Presets!B!Write, BF!Write
<1>3. Presets!B!Sync(w) => BF!Sync(w) BY DEF Presets!B!Sync, BF!Sync
<1>4. Presets!B!Rename(w) => BF!Rename(w) BY DEF Presets!B!Rename, BF!Rename
<1>5. Presets!B!Remove(w) => BF!Remove(w) BY DEF Presets!B!Remove, BF!Remove
<1>6. Presets!B!SyncDir(w) => BF!SyncDir(w) BY DEF Presets!B!SyncDir, BF!SyncDir
<1>7. Presets!B!WriteBack(w) => BF!WriteBack(w) BY DEF Presets!B!WriteBack, BF!WriteBack
<1>8. Presets!B!PowerLoss => BF!PowerLoss BY DEF Presets!B!PowerLoss, BF!PowerLoss
<1>. QED BY <1>1, <1>2, <1>3, <1>4, <1>5, <1>6, <1>7, <1>8

-----------------------------------------------------------------------------
(* The inductive invariant. *)

\* Who is at presets.json, and who at its backup.
InP(w) == saverAt[w] \in {"primary", "restoring"}
InB(w) == saverAt[w] \in {"backup", "backing"}

\* The types of the store.
StoreTypes ==
  /\ mem \in SUBSET Slot /\ changes \in 0 .. MaxChanges /\ cleared \in BOOLEAN /\ joins \in 0 .. 2
  /\ promised \in {{}} \cup {{m} : m \in SUBSET Slot}
  /\ saverAt \in [Writer -> {"idle", "changed", "primary", "backup", "backing", "load", "restoring"}]

\* What holds of the two files whoever overlaps.
Files == PF!Base /\ PF!LoneInv /\ BF!Base /\ BF!LoneInv

\* Who saves is at work on one of the files, with the presets of now, which nobody changes
\* meanwhile.
Stations ==
  \A w \in Writer :
    /\ InP(w) <=> pPc[w] # "idle"
    /\ saverAt[w] = "backing" <=> bPc[w] # "idle"
    /\ pPc[w] # "idle" => pData[w] = mem
    /\ bPc[w] # "idle" => bData[w] = mem
    /\ InB(w) => mem # {}
    /\ saverAt[w] \in {"load", "restoring"} => \A v \in Writer : v # w => saverAt[v] = "idle"

\* The presets of a save that had presets.json to itself have landed there.
Lands == \A w \in Writer : w \in pAlone /\ InB(w) => PF!Landed(mem)

\* joins counts who saves beside another.
Counted ==
  /\ joins = 0 => \A u, v \in Presets!Saving : u = v
  /\ joins = 1 => \A u, v, w \in Presets!Saving : u = v \/ v = w \/ u = w

\* Who had not its file to itself has joined another, or been joined.
Beside ==
  \A u \in Writer :
    /\ pPc[u] # "idle" /\ u \notin pAlone => joins = 1
    /\ bPc[u] # "idle" /\ u \notin bAlone => joins = 1 /\ \A v \in Presets!Saving : saverAt[v] = "backing"
    /\ joins = 0 /\ InB(u) => u \in pAlone

\* Two saves spoil presets.json or its backup, never both: the backup is safe while they
\* both are, or one is, at presets.json, and this one is when both have come to the backup.
OneIsSafe ==
  /\ PF!IInv \/ BF!IInv
  /\ joins = 0 => PF!IInv /\ BF!IInv
  /\ \A u, v \in Writer : u # v /\ InB(u) /\ InB(v) => PF!IInv
  /\ \A u, v \in Presets!Saving : u # v /\ InP(u) => BF!IInv
  /\ \A u, w \in Writer : InB(u) /\ InP(w) => PF!Escapes(w)

\* Nothing is empty but what the user has emptied.
Some == {Empty, Torn} \cup ((SUBSET Slot) \ {{}})
Values == ~cleared => mem # {} /\ PF!Within(Some) /\ BF!Within(Some)

\* All this as long as at most one save has joined another.
FewInv == joins <= 1 => Counted /\ Beside /\ OneIsSafe /\ PF!Pairs /\ Values

\* What was acknowledged is in presets.json.
Kept == joins = 0 => \A m \in promised : m = mem /\ PF!Holds(m)

PInv == StoreTypes /\ Files /\ Stations /\ Lands /\ FewInv /\ Kept

-----------------------------------------------------------------------------
(* The files. *)

\* What AtomicFile supposes of its constants.
LEMMA PresetFiles == PF!FileAssumption /\ BF!FileAssumption
BY StoresAssumption, FileAssumption DEF PF!FileAssumption, BF!FileAssumption

\* A step of the store is one of each file, or none.
LEMMA FileSteps ==
  ASSUME StoreTypes, Presets!Next
  PROVE  [PF!Next]_(PF!vars) /\ [BF!Next]_(BF!vars)
<1>. USE DEF PF!Next, BF!Next, StoreTypes
<1>a. UNCHANGED Presets!pVars => UNCHANGED PF!vars
  BY DEF Presets!pVars, PF!vars, PF!disks, PF!dirs, PF!calls
<1>b. UNCHANGED Presets!bVars => UNCHANGED BF!vars
  BY DEF Presets!bVars, BF!vars, BF!disks, BF!dirs, BF!calls
<1>1. ASSUME NEW w \in Writer, Presets!Change(w) PROVE UNCHANGED PF!vars /\ UNCHANGED BF!vars
  BY <1>1, <1>a, <1>b DEF Presets!Change
<1>2. ASSUME NEW w \in Writer, Presets!Save(w) PROVE [PF!Next]_(PF!vars) /\ UNCHANGED BF!vars
  BY <1>2, <1>a, <1>b, PrimaryActions DEF Presets!Save
<1>3. ASSUME NEW w \in Writer, Presets!WritePrimary(w) PROVE PF!Next /\ UNCHANGED BF!vars
  BY <1>3, <1>b, PrimaryActions DEF Presets!WritePrimary
<1>4. ASSUME NEW w \in Writer, Presets!PrimaryFailed(w) PROVE PF!Next /\ UNCHANGED BF!vars
  BY <1>4, <1>b, PrimaryActions DEF Presets!PrimaryFailed
<1>5. ASSUME NEW w \in Writer, Presets!PrimaryWritten(w) PROVE PF!Next /\ UNCHANGED BF!vars
  BY <1>5, <1>b, PrimaryActions DEF Presets!PrimaryWritten
<1>6. ASSUME NEW w \in Writer, Presets!Backup(w) PROVE UNCHANGED PF!vars /\ BF!Next
  BY <1>6, <1>a, BackupActions DEF Presets!Backup
<1>7. ASSUME NEW w \in Writer, Presets!WriteBackup(w) PROVE UNCHANGED PF!vars /\ BF!Next
  BY <1>7, <1>a, BackupActions DEF Presets!WriteBackup
<1>8. ASSUME NEW w \in Writer, Presets!BackupDone(w) PROVE UNCHANGED PF!vars /\ [BF!Next]_(BF!vars)
  BY <1>8, <1>a, <1>b, BackupActions DEF Presets!BackupDone
<1>9. ASSUME NEW w \in Writer, Presets!Restore(w) PROVE [PF!Next]_(PF!vars) /\ UNCHANGED BF!vars
  BY <1>9, <1>a, <1>b, PrimaryActions DEF Presets!Restore
<1>10. CASE Presets!WriteBack
  BY <1>10, <1>a, <1>b, PrimaryActions, BackupActions DEF Presets!WriteBack, Presets!P!Inode, PF!Inode, BF!Inode
<1>11. CASE Presets!PowerLoss
  BY <1>11, PrimaryActions, BackupActions DEF Presets!PowerLoss
<1>. QED
  BY <1>1, <1>2, <1>3, <1>4, <1>5, <1>6, <1>7, <1>8, <1>9, <1>10, <1>11 DEF Presets!Next

\* So it keeps what holds of every such file.
LEMMA FilesStep ==
  ASSUME StoreTypes, Files, Presets!Next
  PROVE  Files'
<1>1. [PF!Next]_(PF!vars) /\ [BF!Next]_(BF!vars)
  BY FileSteps
<1>2. PF!Base /\ PF!LoneInv /\ BF!Base /\ BF!LoneInv
  BY DEF Files
<1>3. PF!Base'
  BY <1>1, <1>2, PresetFiles, PF!BaseStep
<1>4. PF!LoneInv'
  BY <1>1, <1>2, PresetFiles, PF!LoneStep
<1>5. BF!Base'
  BY <1>1, <1>2, PresetFiles, BF!BaseStep
<1>6. BF!LoneInv'
  BY <1>1, <1>2, PresetFiles, BF!LoneStep
<1>. QED
  BY <1>3, <1>4, <1>5, <1>6 DEF Files

-----------------------------------------------------------------------------
(* The parts of the invariant. *)

\* The contents of the files are presets, or nothing, or torn.
LEMMA Contents ==
  ASSUME Files'
  PROVE  pCache'[pDir'.path] \in (SUBSET Slot) \cup {Empty, Torn} /\ bCache'[bDir'.path] \in (SUBSET Slot) \cup {Empty, Torn}
<1>1. pCache' \in [PF!Inode -> PF!Content] /\ pDir'.path \in PF!Inode
  BY DEF Files, PF!Base, PF!TypeOK, PF!Directories
<1>2. bCache' \in [BF!Inode -> BF!Content] /\ bDir'.path \in BF!Inode
  BY DEF Files, BF!Base, BF!TypeOK, BF!Directories
<1>3. PF!Content = (SUBSET Slot) \cup {Empty, Torn} /\ BF!Content = (SUBSET Slot) \cup {Empty, Torn}
  BY DEF PF!Content, BF!Content
<1>. QED
  BY <1>1, <1>2, <1>3

\* Load makes presets of what it finds.
LEMMA LoadedTyped ==
  ASSUME NEW p \in (SUBSET Slot) \cup {Empty, Torn}, NEW b \in (SUBSET Slot) \cup {Empty, Torn}
  PROVE  Presets!Loaded(p, b) \in SUBSET Slot
BY DEF Presets!Loaded, Presets!Parses

\* No step leaves the types of the store.
LEMMA StoreTypesStep ==
  ASSUME StoreTypes, Files', Presets!Next
  PROVE  StoreTypes'
<1>. USE StoresAssumption DEF StoreTypes, Presets!Goto
<1>1. ASSUME NEW w \in Writer, Presets!Change(w) PROVE StoreTypes'
  BY <1>1 DEF Presets!Change
<1>2. ASSUME NEW w \in Writer, Presets!Save(w) PROVE StoreTypes'
  BY <1>2 DEF Presets!Save, Presets!store
<1>3. ASSUME NEW w \in Writer, Presets!WritePrimary(w) PROVE StoreTypes'
  BY <1>3 DEF Presets!WritePrimary, Presets!store
<1>4. ASSUME NEW w \in Writer, Presets!PrimaryFailed(w) PROVE StoreTypes'
  BY <1>4 DEF Presets!PrimaryFailed, Presets!store
<1>5. ASSUME NEW w \in Writer, Presets!PrimaryWritten(w) PROVE StoreTypes'
  BY <1>5 DEF Presets!PrimaryWritten
<1>6. ASSUME NEW w \in Writer, Presets!Backup(w) PROVE StoreTypes'
  BY <1>6 DEF Presets!Backup, Presets!store
<1>7. ASSUME NEW w \in Writer, Presets!WriteBackup(w) PROVE StoreTypes'
  BY <1>7 DEF Presets!WriteBackup, Presets!store
<1>8. ASSUME NEW w \in Writer, Presets!BackupDone(w) PROVE StoreTypes'
  BY <1>8 DEF Presets!BackupDone
<1>9. ASSUME NEW w \in Writer, Presets!Restore(w) PROVE StoreTypes'
  BY <1>9 DEF Presets!Restore, Presets!store
<1>10. CASE Presets!WriteBack
  BY <1>10 DEF Presets!WriteBack, Presets!store
<1>11. CASE Presets!PowerLoss
  <2>1. pCache'[pDir'.path] \in (SUBSET Slot) \cup {Empty, Torn} /\ bCache'[bDir'.path] \in (SUBSET Slot) \cup {Empty, Torn}
    BY Contents
  <2>3. mem' = Presets!Loaded(pCache'[pDir'.path], bCache'[bDir'.path]) /\ UNCHANGED <<changes, cleared, promised, joins>>
    BY <1>11 DEF Presets!PowerLoss
  <2>4. mem' \in SUBSET Slot
    BY <2>1, <2>3, LoadedTyped
  <2>5. saverAt' \in [Writer -> {"idle", "load"}]
    BY <1>11 DEF Presets!PowerLoss
  <2>. QED
    BY <2>3, <2>4, <2>5
<1>. QED
  BY <1>1, <1>2, <1>3, <1>4, <1>5, <1>6, <1>7, <1>8, <1>9, <1>10, <1>11 DEF Presets!Next

\* The types of the files' variables that the store's steps read.
FileTypes ==
  /\ pPc \in [Writer -> {"idle", "opened", "written", "synced", "renamed", "failed"}]
  /\ bPc \in [Writer -> {"idle", "opened", "written", "synced", "renamed", "failed"}]
  /\ pData \in [Writer -> SUBSET Slot] /\ bData \in [Writer -> SUBSET Slot]
  /\ pWrites \in Nat /\ bWrites \in Nat /\ pAlone \subseteq Writer /\ bAlone \subseteq Writer

\* They have them.
LEMMA FilesTyped == ASSUME Files PROVE FileTypes
BY DEF Files, PF!Base, BF!Base, PF!TypeOK, BF!TypeOK, FileTypes

\* No step takes a saver where its file does not follow, or changes the presets under it.
LEMMA StationsStep ==
  ASSUME StoreTypes, FileTypes, Stations, Presets!Next
  PROVE  Stations'
<1>. USE DEF StoreTypes, FileTypes, Stations, InP, InB, Presets!Goto, Presets!Saving,
             Presets!P!Goto, Presets!B!Goto, Presets!store, Presets!pVars, Presets!bVars
<1>1. ASSUME NEW w \in Writer, Presets!Change(w) PROVE Stations'
  BY <1>1 DEF Presets!Change
<1>2. ASSUME NEW w \in Writer, Presets!Save(w) PROVE Stations'
  BY <1>2 DEF Presets!Save, Presets!P!Open
<1>3. ASSUME NEW w \in Writer, Presets!WritePrimary(w) PROVE Stations'
  BY <1>3 DEF Presets!WritePrimary, Presets!P!Write, Presets!P!Sync, Presets!P!Rename
<1>4. ASSUME NEW w \in Writer, Presets!PrimaryFailed(w) PROVE Stations'
  BY <1>4 DEF Presets!PrimaryFailed, Presets!P!Remove
<1>5. ASSUME NEW w \in Writer, Presets!PrimaryWritten(w) PROVE Stations'
  BY <1>5 DEF Presets!PrimaryWritten, Presets!P!SyncDir
<1>6. ASSUME NEW w \in Writer, Presets!Backup(w) PROVE Stations'
  BY <1>6 DEF Presets!Backup, Presets!B!Open
<1>7. ASSUME NEW w \in Writer, Presets!WriteBackup(w) PROVE Stations'
  BY <1>7 DEF Presets!WriteBackup, Presets!B!Write, Presets!B!Sync, Presets!B!Rename
<1>8. ASSUME NEW w \in Writer, Presets!BackupDone(w) PROVE Stations'
  BY <1>8 DEF Presets!BackupDone, Presets!B!SyncDir, Presets!B!Remove
<1>9. ASSUME NEW w \in Writer, Presets!Restore(w) PROVE Stations'
  BY <1>9 DEF Presets!Restore, Presets!P!Open
<1>10. CASE Presets!WriteBack
  BY <1>10 DEF Presets!WriteBack, Presets!P!WriteBack, Presets!B!WriteBack, Presets!P!calls, Presets!B!calls
<1>11. CASE Presets!PowerLoss
  BY <1>11 DEF Presets!PowerLoss, Presets!P!PowerLoss, Presets!B!PowerLoss
<1>. QED
  BY <1>1, <1>2, <1>3, <1>4, <1>5, <1>6, <1>7, <1>8, <1>9, <1>10, <1>11 DEF Presets!Next

\* joins keeps counting who saves beside whom, ...
LEMMA CountedStep ==
  ASSUME StoreTypes, FileTypes, Stations, Counted, Presets!Next, joins <= 1, joins' <= 1
  PROVE  Counted'
<1>. USE DEF StoreTypes, FileTypes, Stations, InP, InB, Presets!Goto, Presets!Saving,
             Presets!P!Goto, Presets!B!Goto, Presets!store, Presets!pVars, Presets!bVars, Counted
<1>1. ASSUME NEW w \in Writer, Presets!Change(w) PROVE Counted'
  BY <1>1 DEF Presets!Change
<1>2. ASSUME NEW w \in Writer, Presets!Save(w) PROVE Counted'
  BY <1>2 DEF Presets!Save, Presets!P!Open
<1>3. ASSUME NEW w \in Writer, Presets!WritePrimary(w) PROVE Counted'
  BY <1>3 DEF Presets!WritePrimary, Presets!P!Write, Presets!P!Sync, Presets!P!Rename
<1>4. ASSUME NEW w \in Writer, Presets!PrimaryFailed(w) PROVE Counted'
  BY <1>4 DEF Presets!PrimaryFailed, Presets!P!Remove
<1>5. ASSUME NEW w \in Writer, Presets!PrimaryWritten(w) PROVE Counted'
  BY <1>5 DEF Presets!PrimaryWritten, Presets!P!SyncDir
<1>6. ASSUME NEW w \in Writer, Presets!Backup(w) PROVE Counted'
  BY <1>6 DEF Presets!Backup, Presets!B!Open
<1>7. ASSUME NEW w \in Writer, Presets!WriteBackup(w) PROVE Counted'
  BY <1>7 DEF Presets!WriteBackup, Presets!B!Write, Presets!B!Sync, Presets!B!Rename
<1>8. ASSUME NEW w \in Writer, Presets!BackupDone(w) PROVE Counted'
  BY <1>8 DEF Presets!BackupDone, Presets!B!SyncDir, Presets!B!Remove
<1>9. ASSUME NEW w \in Writer, Presets!Restore(w) PROVE Counted'
  BY <1>9 DEF Presets!Restore, Presets!P!Open
<1>10. CASE Presets!WriteBack
  BY <1>10 DEF Presets!WriteBack, Presets!P!WriteBack, Presets!B!WriteBack, Presets!P!calls, Presets!B!calls
<1>11. CASE Presets!PowerLoss
  BY <1>11 DEF Presets!PowerLoss, Presets!P!PowerLoss, Presets!B!PowerLoss
<1>. QED
  BY <1>1, <1>2, <1>3, <1>4, <1>5, <1>6, <1>7, <1>8, <1>9, <1>10, <1>11 DEF Presets!Next

\* ... and why a save had not its file to itself.
LEMMA BesideStep ==
  ASSUME StoreTypes, FileTypes, Stations, Counted, Beside, Presets!Next, joins <= 1, joins' <= 1
  PROVE  Beside'
<1>. USE DEF StoreTypes, FileTypes, Stations, InP, InB, Presets!Goto, Presets!Saving,
             Presets!P!Goto, Presets!B!Goto, Presets!store, Presets!pVars, Presets!bVars, Counted, Beside
<1>1. ASSUME NEW w \in Writer, Presets!Change(w) PROVE Beside'
  BY <1>1 DEF Presets!Change
<1>2. ASSUME NEW w \in Writer, Presets!Save(w) PROVE Beside'
  BY <1>2 DEF Presets!Save, Presets!P!Open, Presets!P!NoteAlone
<1>3. ASSUME NEW w \in Writer, Presets!WritePrimary(w) PROVE Beside'
  BY <1>3 DEF Presets!WritePrimary, Presets!P!Write, Presets!P!Sync, Presets!P!Rename
<1>4. ASSUME NEW w \in Writer, Presets!PrimaryFailed(w) PROVE Beside'
  BY <1>4 DEF Presets!PrimaryFailed, Presets!P!Remove
<1>5. ASSUME NEW w \in Writer, Presets!PrimaryWritten(w) PROVE Beside'
  BY <1>5 DEF Presets!PrimaryWritten, Presets!P!SyncDir
<1>6. ASSUME NEW w \in Writer, Presets!Backup(w) PROVE Beside'
  BY <1>6 DEF Presets!Backup, Presets!B!Open, Presets!B!NoteAlone
<1>7. ASSUME NEW w \in Writer, Presets!WriteBackup(w) PROVE Beside'
  BY <1>7 DEF Presets!WriteBackup, Presets!B!Write, Presets!B!Sync, Presets!B!Rename
<1>8. ASSUME NEW w \in Writer, Presets!BackupDone(w) PROVE Beside'
  BY <1>8 DEF Presets!BackupDone, Presets!B!SyncDir, Presets!B!Remove
<1>9. ASSUME NEW w \in Writer, Presets!Restore(w) PROVE Beside'
  BY <1>9 DEF Presets!Restore, Presets!P!Open, Presets!P!NoteAlone
<1>10. CASE Presets!WriteBack
  BY <1>10 DEF Presets!WriteBack, Presets!P!WriteBack, Presets!B!WriteBack, Presets!P!calls, Presets!B!calls
<1>11. CASE Presets!PowerLoss
  BY <1>11 DEF Presets!PowerLoss, Presets!P!PowerLoss, Presets!B!PowerLoss
<1>. QED
  BY <1>1, <1>2, <1>3, <1>4, <1>5, <1>6, <1>7, <1>8, <1>9, <1>10, <1>11 DEF Presets!Next


\* A file that is safe stays so, if no write of it begins beside another.
LEMMA PrimaryKept ==
  ASSUME StoreTypes, Presets!Next, PF!IInv, PF!Opening => \A u \in Writer : pPc[u] = "idle"
  PROVE  PF!IInv'
<1>1. [PF!Next]_(PF!vars)
  BY FileSteps
<1>. QED
  BY <1>1, PresetFiles, PF!StepIInv

\* The backup as well.
LEMMA BackupKept ==
  ASSUME StoreTypes, Presets!Next, BF!IInv, BF!Opening => \A u \in Writer : bPc[u] = "idle"
  PROVE  BF!IInv'
<1>1. [BF!Next]_(BF!vars)
  BY FileSteps
<1>. QED
  BY <1>1, PresetFiles, BF!StepIInv

\* Who is at presets.json while another is at the backup escapes, whatever step is taken but a Save.
LEMMA EscapesKept ==
  ASSUME StoreTypes, Files, Stations, Stations', Counted, Presets!Next, joins <= 1, ~PF!Opening,
         NEW u \in Writer, NEW w \in Writer, InB(u), InP(w), InP(w)', PF!Escapes(w)
  PROVE  PF!Escapes(w)'
<1>1. [PF!Next]_(PF!vars)
  BY FileSteps
<1>2. joins \in {0, 1} /\ u \in Presets!Saving /\ w \in Presets!Saving /\ u # w
  BY DEF StoreTypes, InB, InP, Presets!Saving
<1>3. PF!Only(w)
  <2>. SUFFICES ASSUME NEW v \in Writer, v # w, pPc[v] # "idle" PROVE FALSE
    BY DEF PF!Only
  <2>1. v \in Presets!Saving /\ v # u
    BY DEF Stations, InP, InB, Presets!Saving
  <2>. QED
    BY <1>2, <2>1 DEF Counted
<1>4. pPc[w] # "idle" /\ pPc'[w] # "idle"
  BY DEF Stations
<1>. QED
  BY <1>1, <1>3, <1>4, PresetFiles, PF!EscapesStep DEF Files

\* A step by which nobody begins a write or comes to the backup leaves one of them safe.
LEMMA QuietStep ==
  ASSUME StoreTypes, Files, Stations, Stations', Counted, OneIsSafe, Presets!Next, joins <= 1,
         ~PF!Opening, ~BF!Opening, joins' = joins,
         \A w \in Writer : (InP(w)' => InP(w)) /\ (InB(w)' => InB(w)),
         Presets!Saving' \subseteq Presets!Saving
  PROVE  OneIsSafe'
<1>1. PF!IInv => PF!IInv'
  BY PrimaryKept
<1>2. BF!IInv => BF!IInv'
  BY BackupKept
<1>3. ASSUME NEW u \in Writer, NEW w \in Writer, InB(u)', InP(w)' PROVE PF!Escapes(w)'
  BY <1>3, EscapesKept DEF OneIsSafe
<1>4. Presets!Saving \subseteq Writer
  BY DEF Presets!Saving
<1>. QED
  BY <1>1, <1>2, <1>3, <1>4 DEF OneIsSafe

\* A write of presets.json returns.
LEMMA WrittenStep ==
  ASSUME StoreTypes, Files, FileTypes, Stations, Stations', Counted, OneIsSafe, PF!Pairs, Presets!Next, joins <= 1,
         NEW w \in Writer, Presets!PrimaryWritten(w)
  PROVE  OneIsSafe'
<1>0. /\ InP(w) /\ saverAt' \in [Writer -> {"idle", "changed", "primary", "backup", "backing", "load", "restoring"}]
      /\ \A v \in Writer : v # w => saverAt'[v] = saverAt[v]
      /\ saverAt'[w] \in {"backup", "idle"} /\ joins' = joins
      /\ pPc[w] = "renamed" /\ pPc' = [pPc EXCEPT ![w] = "idle"] /\ bPc' = bPc
  BY DEF Presets!PrimaryWritten, Presets!P!SyncDir, Presets!Goto, Presets!P!Goto, StoreTypes, FileTypes, Stations, Presets!bVars
<1>1. ~PF!Opening /\ ~BF!Opening
  BY <1>0 DEF PF!Opening, BF!Opening, FileTypes
<1>2. PF!IInv => PF!IInv'
  BY <1>1, PrimaryKept
<1>3. BF!IInv => BF!IInv'
  BY <1>1, BackupKept
<1>4. PF!SyncDir(w)
  BY PrimaryActions DEF Presets!PrimaryWritten
<1>5. \A v \in Writer : v # w => (InP(v)' <=> InP(v)) /\ (InB(v)' <=> InB(v))
  BY <1>0 DEF InP, InB
<1>6. /\ Presets!Saving' \subseteq Presets!Saving /\ Presets!Saving \subseteq Writer /\ w \in Presets!Saving
      /\ \A v \in Writer : InP(v) \/ InB(v) => v \in Presets!Saving
  BY <1>0 DEF Presets!Saving, InP, InB
<1>7. ASSUME NEW u \in Writer, u # w, InB(u)', InB(w)' PROVE PF!IInv'
  <2>1. InB(u) /\ PF!Escapes(w)
    BY <1>0, <1>5, <1>7 DEF OneIsSafe
  <2>2. PF!Only(w)
    <3>. SUFFICES ASSUME NEW v \in Writer, v # w, pPc[v] # "idle" PROVE FALSE
      BY DEF PF!Only
    <3>1. v \in Presets!Saving /\ v # u
      BY <2>1 DEF Stations, InP, InB, Presets!Saving
    <3>. QED
      BY <1>6, <1>7, <2>1, <3>1 DEF Counted, StoreTypes
  <2>. QED
    BY <1>4, <2>1, <2>2, PresetFiles, PF!EscapesLand DEF Files
<1>8. ASSUME NEW u \in Writer, NEW v \in Writer, u # v, InB(u)', InB(v)' PROVE PF!IInv'
  <2>1. CASE u # w /\ v # w
    BY <1>2, <1>5, <1>8, <2>1 DEF OneIsSafe
  <2>. QED
    BY <1>7, <1>8, <2>1
<1>9. ASSUME NEW u \in Presets!Saving', NEW v \in Presets!Saving', u # v, InP(u)' PROVE BF!IInv'
  BY <1>0, <1>3, <1>5, <1>6, <1>9 DEF OneIsSafe, InP
<1>10. ASSUME NEW u \in Writer, NEW v \in Writer, InB(u)', InP(v)' PROVE PF!Escapes(v)'
  <2>1. v # w /\ InP(v)
    BY <1>0, <1>5, <1>10 DEF InP
  <2>2. CASE u = w
    <3>1. \A x \in Writer : pPc[x] # "idle" => x \in {w, v}
      <4>. SUFFICES ASSUME NEW x \in Writer, pPc[x] # "idle", x # w, x # v PROVE FALSE
        OBVIOUS
      <4>1. x \in Presets!Saving /\ v \in Presets!Saving
        BY <2>1 DEF Stations, InP, InB, Presets!Saving
      <4>. QED
        BY <1>6, <2>1, <4>1 DEF Counted, StoreTypes
    <3>2. pPc[v] # "idle"
      BY <2>1 DEF Stations
    <3>. QED
      BY <1>4, <2>1, <3>1, <3>2, PresetFiles, PF!OtherEscapes DEF Files
  <2>3. CASE u # w
    <3>1. InB(u) /\ PF!Escapes(v)
      BY <1>5, <1>10, <2>1, <2>3 DEF OneIsSafe
    <3>. QED
      BY <1>1, <1>10, <2>1, <3>1, EscapesKept
  <2>. QED
    BY <2>2, <2>3
<1>. QED
  BY <1>0, <1>2, <1>3, <1>8, <1>9, <1>10 DEF OneIsSafe

\* A save begins: alone, or beside another while both files are safe.
LEMMA SaveStep ==
  ASSUME StoreTypes, Files, FileTypes, Stations, Stations', Counted, OneIsSafe, Presets!Next, joins <= 1, joins' <= 1,
         NEW w \in Writer, Presets!Save(w)
  PROVE  OneIsSafe'
<1>0. /\ \A v \in Writer : v # w => saverAt'[v] = saverAt[v]
      /\ saverAt[w] = "changed" /\ saverAt'[w] \in {"primary", "idle"} /\ bPc' = bPc
  BY DEF Presets!Save, Presets!Goto, StoreTypes, Presets!bVars
<1>1. CASE saverAt'[w] = "idle"
  <2>1. pPc' = pPc /\ joins' = joins
    BY <1>1 DEF Presets!Save, Presets!Goto, StoreTypes, Presets!pVars
  <2>. QED
    BY <1>0, <1>1, <2>1, QuietStep DEF PF!Opening, BF!Opening, InP, InB, Presets!Saving
<1>2. CASE saverAt'[w] = "primary"
  <2>1. Presets!P!Open(w, mem) /\ joins' = IF Presets!Saving = {} THEN joins ELSE IF joins = 0 THEN 1 ELSE 2
    BY <1>2 DEF Presets!Save, Presets!Goto, StoreTypes
  <2>2. BF!IInv => BF!IInv'
    BY <1>0, BackupKept DEF BF!Opening
  <2>3. CASE Presets!Saving = {}
    <3>1. \A v \in Writer : v # w => ~InP(v)' /\ ~InB(v)' /\ v \notin Presets!Saving'
      BY <1>0, <2>3 DEF Presets!Saving, InP, InB
    <3>2. \A v \in Writer : pPc[v] = "idle"
      BY <2>3 DEF Presets!Saving, Stations, InP
    <3>3. PF!IInv => PF!IInv'
      BY <3>2, PrimaryKept
    <3>4. Presets!Saving' \subseteq {w} /\ ~InB(w)'
      BY <1>2, <3>1 DEF Presets!Saving, InB
    <3>. QED
      BY <2>1, <2>2, <2>3, <3>1, <3>3, <3>4 DEF OneIsSafe
  <2>4. CASE Presets!Saving # {}
    <3>1. joins = 0 /\ joins' = 1
      BY <2>1, <2>4 DEF StoreTypes
    <3>2. BF!IInv'
      BY <2>2, <3>1 DEF OneIsSafe
    <3>3. \A u, v \in Writer : InB(u)' /\ InB(v)' => u = v
      BY <1>0, <1>2, <3>1 DEF Counted, Presets!Saving, InB
    <3>4. ASSUME NEW u \in Writer, NEW v \in Writer, InB(u)', InP(v)' PROVE PF!Escapes(v)'
      <4>1. InB(u) /\ u # w
        BY <1>0, <1>2, <3>4 DEF InB
      <4>2. \A x \in Writer : pPc[x] = "idle"
        BY <3>1, <4>1 DEF Counted, Presets!Saving, Stations, InP, InB
      <4>3. v = w
        BY <1>0, <4>2, <3>4 DEF Stations, InP
      <4>4. pAlone' = {w}
        BY <2>1, <4>2 DEF Presets!P!Open, Presets!P!NoteAlone
      <4>. QED
        BY <4>3, <4>4 DEF PF!Escapes
    <3>. QED
      BY <3>1, <3>2, <3>3, <3>4 DEF OneIsSafe
  <2>. QED
    BY <2>3, <2>4
<1>. QED
  BY <1>0, <1>1, <1>2

\* The backup begins, beside another only when presets.json is safe.
LEMMA BackupStep ==
  ASSUME StoreTypes, Files, FileTypes, Stations, Stations', Counted, OneIsSafe, Presets!Next, joins <= 1,
         NEW w \in Writer, Presets!Backup(w)
  PROVE  OneIsSafe'
<1>0. /\ \A v \in Writer : v # w => saverAt'[v] = saverAt[v]
      /\ saverAt[w] = "backup" /\ saverAt'[w] = "backing" /\ pPc' = pPc /\ joins' = joins
  BY DEF Presets!Backup, Presets!Goto, StoreTypes, Presets!pVars
<1>1. ~PF!Opening
  BY <1>0 DEF PF!Opening
<1>2. PF!IInv => PF!IInv'
  BY <1>1, PrimaryKept
<1>3. /\ \A v \in Writer : (InP(v)' <=> InP(v)) /\ (InB(v)' <=> InB(v))
      /\ Presets!Saving' = Presets!Saving /\ Presets!Saving \subseteq Writer
  BY <1>0 DEF InP, InB, Presets!Saving
<1>4. CASE \A v \in Writer : bPc[v] = "idle"
  <2>1. BF!IInv => BF!IInv'
    BY <1>4, BackupKept
  <2>2. ASSUME NEW u \in Writer, NEW v \in Writer, InB(u)', InP(v)' PROVE PF!Escapes(v)'
    BY <1>1, <1>3, <2>2, EscapesKept DEF OneIsSafe
  <2>. QED
    BY <1>0, <1>2, <1>3, <2>1, <2>2 DEF OneIsSafe
<1>5. ASSUME NEW u \in Writer, bPc[u] # "idle" PROVE OneIsSafe'
  <2>1. u # w /\ InB(u) /\ InB(w) /\ u \in Presets!Saving /\ w \in Presets!Saving
    BY <1>0, <1>5 DEF Stations, InB, Presets!Saving
  <2>2. PF!IInv' /\ joins' # 0
    BY <1>0, <1>2, <2>1 DEF OneIsSafe, Counted
  <2>3. \A v \in Presets!Saving : ~InP(v)
    BY <2>1 DEF Counted, StoreTypes, InP, InB
  <2>4. \A v \in Writer : InP(v) => v \in Presets!Saving
    BY DEF InP, Presets!Saving
  <2>. QED
    BY <1>3, <2>2, <2>3, <2>4 DEF OneIsSafe
<1>. QED
  BY <1>4, <1>5

\* No step but the last of a save that had both files to itself forgets who joined whom.
LEMMA Joins ==
  ASSUME StoreTypes, Presets!Next, joins' < joins
  PROVE  \E w \in Writer : /\ Presets!BackupDone(w) /\ Presets!B!SyncDir(w)
                           /\ Presets!Saving = {w} /\ w \in pAlone \cap bAlone /\ joins' = 0
<1>. USE DEF StoreTypes, Presets!store, Presets!Save, Presets!Restore
<1>1. ASSUME NEW w \in Writer, Presets!Save(w) PROVE FALSE
  BY <1>1
<1>2. ASSUME joins' = joins PROVE FALSE
  BY <1>2
<1>3. ASSUME NEW w \in Writer, Presets!BackupDone(w)
      PROVE  /\ Presets!B!SyncDir(w)
             /\ Presets!Saving = {w} /\ w \in pAlone \cap bAlone /\ joins' = 0
  BY <1>3, <1>2 DEF Presets!BackupDone
<1>. QED
  BY <1>1, <1>2, <1>3 DEF Presets!Next, Presets!Change, Presets!WritePrimary, Presets!PrimaryFailed,
    Presets!PrimaryWritten, Presets!Backup, Presets!WriteBackup, Presets!WriteBack, Presets!PowerLoss

\* No other step leaves both files unsafe.
LEMMA OneIsSafeStep ==
  ASSUME StoreTypes, StoreTypes', Files, FileTypes, Stations, Stations', Counted, OneIsSafe, PF!Pairs,
         Presets!Next, joins <= joins', joins' <= 1
  PROVE  OneIsSafe'
<1>. DEFINE Quiet == /\ ~PF!Opening /\ ~BF!Opening /\ joins' = joins
                     /\ \A w \in Writer : (InP(w)' => InP(w)) /\ (InB(w)' => InB(w))
                     /\ Presets!Saving' \subseteq Presets!Saving
<1>. USE DEF StoreTypes, FileTypes, Presets!Goto, Presets!store, Presets!pVars, Presets!bVars,
             Presets!P!Goto, Presets!B!Goto, PF!Opening, BF!Opening, InP, InB, Presets!Saving
<1>0. joins <= 1
  OBVIOUS
<1>a. Quiet => OneIsSafe'
  BY <1>0, QuietStep
<1>1. ASSUME NEW w \in Writer, Presets!Change(w) PROVE Quiet
  BY <1>1 DEF Presets!Change
<1>2. ASSUME NEW w \in Writer, Presets!Save(w) PROVE OneIsSafe'
  BY <1>0, <1>2, SaveStep
<1>3. ASSUME NEW w \in Writer, Presets!WritePrimary(w) PROVE Quiet
  BY <1>3 DEF Presets!WritePrimary, Presets!P!Write, Presets!P!Sync, Presets!P!Rename
<1>4. ASSUME NEW w \in Writer, Presets!PrimaryFailed(w) PROVE Quiet
  BY <1>4 DEF Presets!PrimaryFailed, Presets!P!Remove
<1>5. ASSUME NEW w \in Writer, Presets!PrimaryWritten(w) PROVE OneIsSafe'
  BY <1>0, <1>5, WrittenStep
<1>6. ASSUME NEW w \in Writer, Presets!Backup(w) PROVE OneIsSafe'
  BY <1>0, <1>6, BackupStep
<1>7. ASSUME NEW w \in Writer, Presets!WriteBackup(w) PROVE Quiet
  BY <1>7 DEF Presets!WriteBackup, Presets!B!Write, Presets!B!Sync, Presets!B!Rename
<1>8. ASSUME NEW w \in Writer, Presets!BackupDone(w) PROVE Quiet
  BY <1>8 DEF Presets!BackupDone, Presets!B!SyncDir, Presets!B!Remove
<1>9. ASSUME NEW w \in Writer, Presets!Restore(w) PROVE OneIsSafe'
  <2>1. CASE UNCHANGED Presets!pVars /\ saverAt'[w] = "idle"
    BY <1>9, <1>a, <2>1 DEF Presets!Restore
  <2>2. CASE saverAt'[w] = "restoring"
    <3>1. \A v \in Writer : pPc[v] = "idle" /\ bPc[v] = "idle"
      BY <1>9 DEF Stations, Presets!Restore
    <3>2. (PF!IInv => PF!IInv') /\ (BF!IInv => BF!IInv')
      BY <3>1, PrimaryKept, BackupKept
    <3>3. joins' = joins /\ \A v \in Writer : v # w => saverAt'[v] = "idle"
      BY <1>9 DEF Stations, Presets!Restore
    <3>. QED
      BY <2>2, <3>2, <3>3 DEF OneIsSafe
  <2>. QED
    BY <1>9, <2>1, <2>2 DEF Presets!Restore
<1>10. CASE Presets!WriteBack
  <2>1. UNCHANGED <<joins, saverAt, pPc, bPc>>
    BY <1>10 DEF Presets!WriteBack, Presets!P!WriteBack, Presets!B!WriteBack, Presets!P!calls, Presets!B!calls
  <2>2. ~PF!Opening /\ ~BF!Opening
    BY <2>1
  <2>3. Quiet
    BY <2>1, <2>2
  <2>. QED
    BY <1>a, <2>3
<1>11. CASE Presets!PowerLoss
  <2>1. /\ \A v \in Writer : pPc'[v] = "idle" /\ bPc'[v] = "idle"
        /\ joins' = joins
        /\ \A u, v \in Presets!Saving' : u = v
        /\ \A v \in Writer : ~InP(v)' /\ ~InB(v)'
    BY <1>11 DEF Presets!PowerLoss, Presets!P!PowerLoss, Presets!B!PowerLoss
  <2>2. (PF!IInv => PF!IInv') /\ (BF!IInv => BF!IInv')
    BY <2>1, PrimaryKept, BackupKept
  <2>. QED
    BY <2>1, <2>2 DEF OneIsSafe
<1>. QED
  BY <1>a, <1>1, <1>2, <1>3, <1>4, <1>5, <1>6, <1>7, <1>8, <1>9, <1>10, <1>11 DEF Presets!Next

\* Who begins a write beside others begins it beside lone ones, and writes the presets of now.
LEMMA JoinsLone ==
  ASSUME StoreTypes, StoreTypes', FileTypes, Stations, Beside, Presets!Next, joins <= 1, joins' <= 1,
         NEW C, mem \in C
  PROVE  PF!Joining(C) /\ BF!Joining(C)
<1>. DEFINE Lone == PF!Joining(C) /\ BF!Joining(C)
<1>. USE DEF StoreTypes, FileTypes, Presets!store, Presets!pVars, Presets!bVars, Presets!Goto,
             Presets!P!Goto, Presets!B!Goto, PF!Joining, BF!Joining
<1>1. ASSUME NEW w \in Writer, Presets!Change(w) PROVE Lone
  BY <1>1 DEF Presets!Change
<1>2. ASSUME NEW w \in Writer, Presets!Save(w) PROVE Lone
  <2>1. CASE Presets!P!Open(w, mem) /\ joins' = IF Presets!Saving = {} THEN joins ELSE IF joins = 0 THEN 1 ELSE 2
    <3>1. \A u \in Writer : pPc[u] # "idle" => u \in Presets!Saving
      BY DEF Stations, InP, Presets!Saving
    <3>2. \A u \in Writer : pPc[u] # "idle" => u \in pAlone
      BY <2>1, <3>1 DEF Beside
    <3>3. pData' = [pData EXCEPT ![w] = mem] /\ pPc' = [pPc EXCEPT ![w] = "opened"] /\ bPc' = bPc
      BY <1>2, <2>1 DEF Presets!Save, Presets!P!Open
    <3>. QED
      BY <3>2, <3>3
  <2>2. CASE UNCHANGED Presets!pVars
    BY <1>2, <2>2 DEF Presets!Save
  <2>. QED
    BY <1>2, <2>1, <2>2 DEF Presets!Save
<1>3. ASSUME NEW w \in Writer, Presets!WritePrimary(w) PROVE Lone
  BY <1>3 DEF Presets!WritePrimary, Presets!P!Write, Presets!P!Sync, Presets!P!Rename
<1>4. ASSUME NEW w \in Writer, Presets!PrimaryFailed(w) PROVE Lone
  BY <1>4 DEF Presets!PrimaryFailed, Presets!P!Remove
<1>5. ASSUME NEW w \in Writer, Presets!PrimaryWritten(w) PROVE Lone
  BY <1>5 DEF Presets!PrimaryWritten, Presets!P!SyncDir
<1>6. ASSUME NEW w \in Writer, Presets!Backup(w) PROVE Lone
  <2>1. saverAt[w] = "backup" /\ w \in Presets!Saving
    BY <1>6 DEF Presets!Backup, Presets!Saving
  <2>2. \A u \in Writer : bPc[u] # "idle" => u \in bAlone
    BY <2>1 DEF Beside
  <2>. QED
    BY <1>6, <2>2 DEF Presets!Backup, Presets!B!Open
<1>7. ASSUME NEW w \in Writer, Presets!WriteBackup(w) PROVE Lone
  BY <1>7 DEF Presets!WriteBackup, Presets!B!Write, Presets!B!Sync, Presets!B!Rename
<1>8. ASSUME NEW w \in Writer, Presets!BackupDone(w) PROVE Lone
  BY <1>8 DEF Presets!BackupDone, Presets!B!SyncDir, Presets!B!Remove
<1>9. ASSUME NEW w \in Writer, Presets!Restore(w) PROVE Lone
  <2>1. \A v \in Writer : pPc[v] = "idle"
    BY <1>9 DEF Stations, InP, Presets!Restore
  <2>. QED
    BY <1>9, <2>1 DEF Presets!Restore, Presets!P!Open
<1>10. CASE Presets!WriteBack
  <2>1. pPc' = pPc /\ bPc' = bPc
    BY <1>10 DEF Presets!WriteBack, Presets!P!WriteBack, Presets!B!WriteBack, Presets!P!calls, Presets!B!calls
  <2>. QED
    BY <2>1
<1>11. CASE Presets!PowerLoss
  BY <1>11 DEF Presets!PowerLoss, Presets!P!PowerLoss, Presets!B!PowerLoss
<1>. QED
  BY <1>1, <1>2, <1>3, <1>4, <1>5, <1>6, <1>7, <1>8, <1>9, <1>10, <1>11 DEF Presets!Next

\* Of two savers at presets.json one renames the temporary file, the other finds it gone.
LEMMA PairsKept ==
  ASSUME StoreTypes, StoreTypes', Files, FileTypes, Stations, Beside, PF!Pairs, Presets!Next, joins <= 1, joins' <= 1
  PROVE  PF!Pairs'
<1>1. PF!Joining({mem}) /\ [PF!Next]_(PF!vars)
  BY JoinsLone, FileSteps
<1>. QED
  BY <1>1, PresetFiles, PF!PairsStep DEF Files

\* What one of the files still has, Load finds.
LEMMA SomeLoaded ==
  ASSUME NEW p \in Some, NEW b \in Some, p \in SUBSET Slot \/ b \in SUBSET Slot
  PROVE  Presets!Loaded(p, b) # {}
BY StoresAssumption DEF Some, Presets!Loaded, Presets!Parses

\* No step empties memory or a file, unless the user empties the presets.
LEMMA ValuesStep ==
  ASSUME StoreTypes, StoreTypes', Files, Files', FileTypes, Stations, Beside, OneIsSafe', Values,
         Presets!Next, joins <= 1, joins' <= 1, ~cleared'
  PROVE  mem' # {} /\ PF!Within(Some)' /\ BF!Within(Some)'
<1>1. ~cleared /\ (mem' = mem \/ mem' # {} \/ Presets!PowerLoss)
  BY DEF StoreTypes, Presets!Next, Presets!Change, Presets!Save, Presets!WritePrimary, Presets!PrimaryFailed,
         Presets!PrimaryWritten, Presets!Backup, Presets!WriteBackup, Presets!BackupDone, Presets!Restore,
         Presets!WriteBack, Presets!PowerLoss, Presets!store
<1>2. mem \in Some /\ mem # {}
  BY <1>1 DEF Values, StoreTypes, Some
<1>3. PF!Joining(Some) /\ BF!Joining(Some) /\ [PF!Next]_(PF!vars) /\ [BF!Next]_(BF!vars)
  BY <1>2, JoinsLone, FileSteps
<1>4. {Empty, Torn} \subseteq Some
  BY DEF Some
<1>5. PF!Within(Some)'
  BY <1>1, <1>3, <1>4, PresetFiles, PF!WithinStep DEF Values, Files
<1>6. BF!Within(Some)'
  BY <1>1, <1>3, <1>4, PresetFiles, BF!WithinStep DEF Values, Files
<1>7. CASE Presets!PowerLoss
  <2>1. pCache'[pDir'.path] \in Some /\ bCache'[bDir'.path] \in Some
    BY <1>5, <1>6 DEF Files, PF!Base, BF!Base, PF!Within, BF!Within
  <2>2. PF!IInv' => pCache'[pDir'.path] \in SUBSET Slot
    BY DEF PF!IInv, PF!FilesSafe
  <2>3. BF!IInv' => bCache'[bDir'.path] \in SUBSET Slot
    BY DEF BF!IInv, BF!FilesSafe
  <2>4. mem' = Presets!Loaded(pCache'[pDir'.path], bCache'[bDir'.path])
    BY <1>7 DEF Presets!PowerLoss
  <2>. QED
    BY <1>5, <1>6, <2>1, <2>2, <2>3, <2>4, SomeLoaded DEF OneIsSafe
<1>. QED
  BY <1>1, <1>2, <1>5, <1>6, <1>7

\* A save that had presets.json to itself has landed there when it comes to the backup.
LEMMA LandsStep ==
  ASSUME StoreTypes, Files, FileTypes, Stations, Stations', Lands, Presets!Next
  PROVE  Lands'
<1>. SUFFICES ASSUME NEW w \in Writer, w \in pAlone', InB(w)' PROVE PF!Landed(mem)'
  BY DEF Lands
<1>. USE DEF StoreTypes, FileTypes, InB, InP, Presets!store, Presets!pVars, Presets!bVars, Presets!Goto,
             Presets!P!Goto, Presets!B!Goto
<1>1. CASE InB(w)
  <2>1. mem' = mem
    BY <1>1 DEF Presets!Next, Presets!Change, Presets!Save, Presets!WritePrimary, Presets!PrimaryFailed,
         Presets!PrimaryWritten, Presets!Backup, Presets!WriteBackup, Presets!BackupDone, Presets!Restore,
         Presets!WriteBack, Presets!PowerLoss, Presets!Saving
  <2>2. pPc[w] = "idle" /\ pPc'[w] = "idle"
    BY <1>1 DEF Stations
  <2>3. [PF!Next]_(PF!vars)
    BY FileSteps
  <2>4. w \in pAlone
    BY <2>2, <2>3 DEF PF!Next, PF!Open, PF!NoteAlone, PF!Write, PF!Sync, PF!Rename, PF!Remove, PF!SyncDir,
         PF!WriteBack, PF!PowerLoss, PF!vars, PF!calls, PF!Goto
  <2>5. PICK m : m = mem
    OBVIOUS
  <2>6. PF!Landed(m)
    BY <1>1, <2>4, <2>5 DEF Lands
  <2>7. PF!Landed(m)'
    BY <2>2, <2>3, <2>4, <2>6, PresetFiles, PF!LandedStep DEF Files
  <2>. QED
    BY <2>1, <2>5, <2>7 DEF PF!Landed
<1>2. CASE ~InB(w)
  <2>1. Presets!PrimaryWritten(w)
    BY <1>2 DEF Presets!Next, Presets!Change, Presets!Save, Presets!WritePrimary, Presets!PrimaryFailed,
         Presets!PrimaryWritten, Presets!Backup, Presets!WriteBackup, Presets!BackupDone, Presets!Restore,
         Presets!WriteBack, Presets!PowerLoss
  <2>2. PF!SyncDir(w) /\ w \in pAlone /\ mem' = mem
    BY <2>1, PrimaryActions DEF Presets!PrimaryWritten, Presets!P!SyncDir
  <2>3. pData[w] = mem
    BY <2>2 DEF Stations, PF!SyncDir
  <2>4. pCrashDirs' = {pDir'} /\ pCache'[pDir'.path] = pData[w] /\ pDisk'[pDir'.path] = pData[w]
    BY <2>2, PresetFiles, PF!LoneSyncs DEF Files
  <2>. QED
    BY <2>2, <2>3, <2>4 DEF PF!Landed
<1>. QED
  BY <1>1, <1>2

\* A save that had both files to itself leaves its presets in both, whatever was before.
LEMMA HealStep ==
  ASSUME StoreTypes, StoreTypes', Files, Files', FileTypes, Stations, Stations', Lands, Presets!Next,
         joins' < joins
  PROVE  FewInv' /\ mem' = mem /\ PF!IInv' /\ PF!Holds(mem)'
<1>. USE DEF StoreTypes, FileTypes
<1>1. PICK w \in Writer : /\ Presets!BackupDone(w) /\ Presets!B!SyncDir(w)
                          /\ Presets!Saving = {w} /\ w \in pAlone \cap bAlone /\ joins' = 0
  BY Joins
<1>2. /\ BF!SyncDir(w) /\ UNCHANGED Presets!pVars /\ mem' = mem
      /\ saverAt' = [saverAt EXCEPT ![w] = "idle"]
  BY <1>1, BackupActions DEF Presets!BackupDone, Presets!Goto, Presets!B!SyncDir
<1>3. /\ Presets!Saving' = {} /\ \A v \in Writer : saverAt'[v] \in {"idle", "changed"}
      /\ \A v \in Writer : v # w => saverAt[v] \in {"idle", "changed"}
  BY <1>1, <1>2 DEF Presets!Saving
<1>4. \A v \in Writer : ~InP(v)' /\ ~InB(v)' /\ pPc'[v] = "idle" /\ bPc'[v] = "idle"
  BY <1>3 DEF Stations, InP, InB
<1>5. bPc[w] = "renamed" /\ InB(w) /\ bData[w] = mem /\ mem # {}
  BY <1>2 DEF BF!SyncDir, Stations, InB
<1>6. PF!Landed(mem)' /\ PF!Landed(mem)
  BY <1>1, <1>2, <1>5 DEF Lands, PF!Landed, Presets!pVars
<1>7. PF!IInv'
  BY <1>2, <1>4, <1>6 DEF Files, PF!Landed, PF!Base, PF!IInv, PF!OneWriter, PF!FilesSafe, PF!SameFile, PF!WriterInv
<1>8. BF!IInv'
  <2>1. BF!Escapes(w)
    BY <1>1 DEF BF!Escapes
  <2>2. BF!Only(w)
    BY <1>3 DEF BF!Only, Stations
  <2>. QED
    BY <1>2, <2>1, <2>2, PresetFiles, BF!EscapesLand DEF Files
<1>9. bCrashDirs' = {bDir'} /\ bCache'[bDir'.path] = mem /\ bDisk'[bDir'.path] = mem
  BY <1>1, <1>2, <1>5, PresetFiles, BF!LoneSyncs DEF Files
<1>10. Counted' /\ Beside' /\ OneIsSafe' /\ PF!Pairs'
  BY <1>1, <1>3, <1>4, <1>7, <1>8 DEF Counted, Beside, OneIsSafe, PF!Pairs
<1>11. mem \in Some
  BY <1>5 DEF Some
<1>12. PF!Within(Some)'
  BY <1>4, <1>2, <1>6, <1>11 DEF PF!Landed, PF!Within, Some
<1>13. BF!Within(Some)'
  BY <1>4, <1>9, <1>11 DEF BF!Within, Some
<1>14. PF!Holds(mem)'
  BY <1>6 DEF PF!Landed, PF!Holds
<1>. QED
  BY <1>2, <1>5, <1>7, <1>10, <1>12, <1>13, <1>14 DEF FewInv, Values

\* So every step keeps what holds while at most one save has joined another.
LEMMA FewStep ==
  ASSUME StoreTypes, StoreTypes', Files, Files', FileTypes, Stations, Stations', Lands, FewInv, Presets!Next
  PROVE  FewInv'
<1>. SUFFICES ASSUME joins' <= 1 PROVE FewInv'
  BY DEF FewInv
<1>1. CASE joins' < joins
  BY <1>1, HealStep
<1>2. CASE joins <= joins'
  <2>1. joins <= 1 /\ Counted /\ Beside /\ OneIsSafe /\ PF!Pairs /\ Values
    BY <1>2 DEF FewInv, StoreTypes
  <2>2. Counted' /\ Beside'
    BY <2>1, CountedStep, BesideStep
  <2>3. OneIsSafe'
    BY <1>2, <2>1, OneIsSafeStep
  <2>4. PF!Pairs'
    BY <2>1, PairsKept
  <2>5. Values'
    BY <2>1, <2>3, ValuesStep DEF Values
  <2>. QED
    BY <2>2, <2>3, <2>4, <2>5 DEF FewInv
<1>. QED
  BY <1>1, <1>2 DEF StoreTypes

\* Where nobody joins, who holds presets.json holds it alone, with the presets of now: what it has of
\* them it keeps.
LEMMA HoldsKept ==
  ASSUME StoreTypes, Files, FileTypes, Stations, FewInv, Presets!Next, joins = 0, joins' = 0,
         NEW m, m = mem, PF!Holds(m)
  PROVE  PF!Holds(m)'
<1>. USE DEF StoreTypes, FileTypes, InP, InB
<1>1. Beside /\ PF!IInv /\ [PF!Next]_(PF!vars)
  BY FileSteps DEF FewInv, OneIsSafe
<1>2. \A w \in Writer : pPc[w] # "idle" => w \in pAlone /\ pData[w] = m
  BY <1>1 DEF Beside, Stations
<1>3. ASSUME NEW w \in Writer, pPc[w] = "idle", pPc'[w] = "opened", NEW u \in Writer PROVE pPc[u] = "idle"
  <2>1. CASE Presets!Save(w)
    <3>1. Presets!Saving = {}
      BY <1>3, <2>1 DEF Presets!Save, Presets!pVars
    <3>. QED
      BY <3>1 DEF Presets!Saving, Stations
  <2>2. CASE Presets!Restore(w)
    BY <2>2 DEF Presets!Restore, Stations
  <2>. QED
    BY <1>3, <2>1, <2>2 DEF Presets!Next, Presets!Change, Presets!Save, Presets!Restore, Presets!WritePrimary,
         Presets!PrimaryFailed, Presets!PrimaryWritten, Presets!Backup, Presets!WriteBackup, Presets!BackupDone,
         Presets!WriteBack, Presets!PowerLoss, Presets!pVars, Presets!P!Open, Presets!P!Write, Presets!P!Sync,
         Presets!P!Rename, Presets!P!Remove, Presets!P!SyncDir, Presets!P!WriteBack, Presets!P!PowerLoss,
         Presets!P!Goto, Presets!P!calls
<1>. QED
  BY <1>1, <1>2, <1>3, PresetFiles, PF!HoldsStep DEF Files, PF!Opening

\* What was acknowledged stays in presets.json, and in memory.
LEMMA KeptStep ==
  ASSUME StoreTypes, StoreTypes', Files, Files', FileTypes, Stations, Stations', Lands, FewInv, Kept, Presets!Next
  PROVE  Kept'
<1>. SUFFICES ASSUME joins' = 0, NEW m \in promised' PROVE m = mem' /\ PF!Holds(m)'
  BY DEF Kept
<1>. USE DEF StoreTypes, FileTypes, InP, InB, Presets!store
<1>1. CASE joins' < joins
  <2>1. promised' = {mem}
    BY <1>1, Joins DEF Presets!BackupDone
  <2>2. mem' = mem /\ PF!Holds(mem)'
    BY <1>1, HealStep
  <2>. QED
    BY <2>1, <2>2 DEF PF!Holds
<1>2. CASE joins = 0
  <2>0. Beside
    BY <1>2 DEF FewInv
  <2>a. ASSUME promised' = promised PROVE m = mem /\ PF!Holds(m)'
    BY <1>2, <2>a, HoldsKept DEF Kept
  <2>1. ASSUME NEW w \in Writer, Presets!Change(w) PROVE FALSE
    BY <2>1 DEF Presets!Change
  <2>2. ASSUME NEW w \in Writer, Presets!PrimaryWritten(w), promised' = {mem} PROVE m = mem' /\ PF!Holds(m)'
    <3>1. PF!SyncDir(w) /\ mem' = mem
      BY <2>2, PrimaryActions DEF Presets!PrimaryWritten
    <3>2. pData[w] = mem /\ w \in pAlone
      BY <1>2, <2>0, <3>1 DEF Stations, PF!SyncDir, Beside
    <3>3. pCrashDirs' = {pDir'} /\ pCache'[pDir'.path] = pData[w]
      BY <3>1, <3>2, PresetFiles, PF!LoneSyncs DEF Files
    <3>. QED
      BY <2>2, <3>1, <3>2, <3>3 DEF PF!Holds
  <2>3. ASSUME NEW w \in Writer, Presets!BackupDone(w) PROVE m = mem' /\ PF!Holds(m)'
    <3>1. UNCHANGED Presets!pVars /\ mem' = mem /\ promised' = {mem}
      BY <2>3 DEF Presets!BackupDone
    <3>2. InB(w)
      BY <2>3 DEF Presets!BackupDone, Presets!B!SyncDir, Presets!B!Remove, Stations
    <3>3. PF!Landed(mem)
      BY <1>2, <2>0, <3>2 DEF Beside, Lands
    <3>. QED
      BY <3>1, <3>3 DEF PF!Landed, PF!Holds, Presets!pVars
  <2>4. CASE Presets!PowerLoss
    <3>1. m = mem /\ PF!Holds(m)'
      BY <2>4, <2>a DEF Presets!PowerLoss
    <3>2. pCache'[pDir'.path] = m /\ m \in SUBSET Slot
      BY <3>1 DEF Files, PF!Base, PF!Holds
    <3>3. mem' = Presets!Loaded(m, bCache'[bDir'.path])
      BY <2>4, <3>2 DEF Presets!PowerLoss
    <3>. QED
      BY <3>1, <3>2, <3>3, StoresAssumption DEF Presets!Loaded, Presets!Parses
  <2>5. CASE promised' = promised /\ mem' = mem
    BY <2>a, <2>5
  <2>. QED
    BY <2>1, <2>2, <2>3, <2>4, <2>5 DEF Presets!Next, Presets!Save, Presets!WritePrimary, Presets!PrimaryFailed,
         Presets!PrimaryWritten, Presets!Backup, Presets!WriteBackup, Presets!Restore, Presets!WriteBack
<1>. QED
  BY <1>1, <1>2

-----------------------------------------------------------------------------
(* The store. *)

\* A speaker set up and saved.
LEMMA InitPInv == Presets!Init => PInv
<1>. SUFFICES ASSUME Presets!Init PROVE PInv
  OBVIOUS
<1>. USE DEF Presets!Init, Presets!FirstPresets
<1>1. PF!Init /\ BF!Init
  BY DEF Presets!P!Init, Presets!B!Init, PF!Init, BF!Init, Presets!P!Inode, PF!Inode, Presets!B!Inode, BF!Inode
<1>2. Files
  BY <1>1, PresetFiles, PF!InitLone, BF!InitLone DEF Files
<1>3. PF!IInv /\ BF!IInv
  BY <1>1, PresetFiles, PF!InitIInv, BF!InitIInv
<1>4. /\ mem = Slot /\ cleared = FALSE /\ promised = {Slot} /\ joins = 0 /\ pAlone = {} /\ bAlone = {}
      /\ \A w \in Writer : pPc[w] = "idle" /\ bPc[w] = "idle" /\ saverAt[w] = "idle"
  BY <1>1 DEF PF!Init, BF!Init
<1>5. StoreTypes
  <2>1. MaxChanges \in Nat /\ 0 \in 0 .. MaxChanges
    BY StoresAssumption
  <2>2. {Slot} \in {{m} : m \in SUBSET Slot}
    OBVIOUS
  <2>3. promised \in {{}} \cup {{m} : m \in SUBSET Slot}
    BY <1>4, <2>2
  <2>4. mem \in SUBSET Slot /\ cleared \in BOOLEAN
    BY <1>4, Zenon
  <2>5. changes \in 0 .. MaxChanges /\ joins \in 0 .. 2
    BY <1>4, <2>1
  <2>6. saverAt \in [Writer -> {"idle", "changed", "primary", "backup", "backing", "load", "restoring"}]
    OBVIOUS
  <2>. QED
    BY <2>3, <2>4, <2>5, <2>6, Zenon DEF StoreTypes
<1>6. Stations /\ Lands /\ Counted /\ Beside /\ OneIsSafe /\ PF!Pairs
  BY <1>3, <1>4 DEF Stations, Lands, Counted, Beside, OneIsSafe, PF!Pairs, InP, InB, Presets!Saving
<1>7. PF!Holds(Slot)
  BY <1>1, PresetFiles DEF PF!Holds, PF!Init, PF!Inode, PF!FileAssumption
<1>8. PF!Within(Some) /\ BF!Within(Some) /\ Slot # {}
  <2>1. Slot \in Some /\ Slot # {}
    BY StoresAssumption DEF Some
  <2>. QED
    BY <1>1, <2>1, PresetFiles
       DEF PF!Init, BF!Init, PF!Within, BF!Within, PF!Inode, BF!Inode, PF!FileAssumption, BF!FileAssumption
<1>. QED
  BY <1>2, <1>4, <1>5, <1>6, <1>7, <1>8 DEF PInv, FewInv, Kept, Values

\* The steps of the other parts leave the presets alone.
LEMMA PInvStutter ==
  ASSUME PInv, UNCHANGED presetVars
  PROVE  PInv'
<1>. USE DEF presetVars, PInv
<1>1. StoreTypes' /\ Stations' /\ Lands'
  BY DEF StoreTypes, Stations, Lands, InP, InB, PF!Landed
<1>2. Files'
  BY DEF Files, PF!Base, PF!TypeOK, PF!FreshInodes, PF!LoneInv, BF!Base, BF!TypeOK, BF!FreshInodes, BF!LoneInv
<1>3. /\ PF!IInv' <=> PF!IInv
      /\ BF!IInv' <=> BF!IInv
      /\ \A w : PF!Escapes(w)' <=> PF!Escapes(w)
  BY DEF PF!IInv, PF!TypeOK, PF!OneWriter, PF!FilesSafe, PF!FreshInodes, PF!SameFile, PF!WriterInv, PF!Escapes,
         BF!IInv, BF!TypeOK, BF!OneWriter, BF!FilesSafe, BF!FreshInodes, BF!SameFile, BF!WriterInv
<1>4. (Counted => Counted') /\ (Beside => Beside') /\ (PF!Pairs => PF!Pairs') /\ (Values => Values')
  BY DEF Counted, Beside, PF!Pairs, Values, PF!Within, BF!Within, Presets!Saving, InB
<1>5. OneIsSafe => OneIsSafe'
  BY <1>3 DEF OneIsSafe, Presets!Saving, InP, InB
<1>6. FewInv'
  BY <1>4, <1>5 DEF FewInv
<1>7. Kept'
  BY DEF Kept, PF!Holds
<1>. QED
  BY <1>1, <1>2, <1>6, <1>7

\* Every step keeps the invariant.
LEMMA PInvStep ==
  ASSUME PInv, [Presets!Next]_presetVars
  PROVE  PInv'
<1>1. CASE Presets!Next
  <2>1. StoreTypes /\ Files /\ Stations /\ Lands /\ FewInv /\ Kept /\ FileTypes
    BY FilesTyped DEF PInv
  <2>2. Files'
    BY <1>1, <2>1, FilesStep
  <2>3. StoreTypes'
    BY <1>1, <2>1, <2>2, StoreTypesStep
  <2>4. Stations'
    BY <1>1, <2>1, StationsStep
  <2>5. Lands'
    BY <1>1, <2>1, <2>4, LandsStep
  <2>6. FewInv'
    BY <1>1, <2>1, <2>2, <2>3, <2>4, FewStep
  <2>7. Kept'
    BY <1>1, <2>1, <2>2, <2>3, <2>4, KeptStep
  <2>. QED
    BY <2>2, <2>3, <2>4, <2>5, <2>6, <2>7 DEF PInv
<1>2. CASE UNCHANGED presetVars
  BY <1>2, PInvStutter
<1>. QED
  BY <1>1, <1>2

-----------------------------------------------------------------------------
(* What the next start finds. *)

\* What a loss of power may leave of each file is among what it is made of, and a safe file is whole.
LEMMA Returns ==
  ASSUME Files, NEW C, {Empty, Torn} \subseteq C
  PROVE  /\ PF!Within(C) => Presets!P!MayReturn \subseteq C
         /\ BF!Within(C) => Presets!B!MayReturn \subseteq C
         /\ PF!IInv => Presets!P!MayReturn \subseteq SUBSET Slot
         /\ BF!IInv => Presets!B!MayReturn \subseteq SUBSET Slot
         /\ Presets!P!MayReturn \subseteq (SUBSET Slot) \cup {Empty, Torn} /\ Presets!P!MayReturn # {}
         /\ Presets!B!MayReturn \subseteq (SUBSET Slot) \cup {Empty, Torn} /\ Presets!B!MayReturn # {}
<1>1. /\ pDir \in pCrashDirs /\ \A d \in pCrashDirs : d.path \in PF!Inode
      /\ pCache \in [PF!Inode -> (SUBSET Slot) \cup {Empty, Torn}] /\ pDisk \in [PF!Inode -> (SUBSET Slot) \cup {Empty, Torn}]
  BY DEF Files, PF!Base, PF!TypeOK, PF!Directories, PF!Content
<1>2. /\ bDir \in bCrashDirs /\ \A d \in bCrashDirs : d.path \in BF!Inode
      /\ bCache \in [BF!Inode -> (SUBSET Slot) \cup {Empty, Torn}] /\ bDisk \in [BF!Inode -> (SUBSET Slot) \cup {Empty, Torn}]
  BY DEF Files, BF!Base, BF!TypeOK, BF!Directories, BF!Content
<1>3. \A x \in Presets!P!MayReturn : \E d \in pCrashDirs :
        /\ x \in {pDisk[d.path], pCache[d.path], Empty, Torn}
        /\ pDisk[d.path] = pCache[d.path] => x = pCache[d.path]
  BY DEF Presets!P!MayReturn, Presets!P!Survives
<1>4. \A x \in Presets!B!MayReturn : \E d \in bCrashDirs :
        /\ x \in {bDisk[d.path], bCache[d.path], Empty, Torn}
        /\ bDisk[d.path] = bCache[d.path] => x = bCache[d.path]
  BY DEF Presets!B!MayReturn, Presets!B!Survives
<1>5. pDisk[pDir.path] \in Presets!P!MayReturn /\ bDisk[bDir.path] \in Presets!B!MayReturn
  BY <1>1, <1>2 DEF Presets!P!MayReturn, Presets!P!Survives, Presets!B!MayReturn, Presets!B!Survives
<1>6. (PF!Within(C) => Presets!P!MayReturn \subseteq C) /\ (BF!Within(C) => Presets!B!MayReturn \subseteq C)
  BY <1>3, <1>4 DEF PF!Within, BF!Within
<1>7. PF!IInv => Presets!P!MayReturn \subseteq SUBSET Slot
  BY <1>3 DEF PF!IInv, PF!FilesSafe
<1>8. BF!IInv => Presets!B!MayReturn \subseteq SUBSET Slot
  BY <1>4 DEF BF!IInv, BF!FilesSafe
<1>. QED
  BY <1>1, <1>2, <1>3, <1>4, <1>5, <1>6, <1>7, <1>8

\* The invariant of the run on the presets (MCStores!StoresInv).
LEMMA PresetsHold == PInv => Presets!TypeOK /\ Presets!NeverWiped /\ Presets!PromisedComesBack
<1>. SUFFICES ASSUME PInv PROVE Presets!TypeOK /\ Presets!NeverWiped /\ Presets!PromisedComesBack
  OBVIOUS
<1>. USE DEF PInv, Presets!NextBoot
<1>1. Presets!TypeOK
  <2>1. Presets!P!TypeOK
    BY DEF Files, PF!Base, PF!TypeOK, PF!Inode, PF!Content, PF!Directories,
           Presets!P!TypeOK, Presets!P!Inode, Presets!P!Content, Presets!P!Directories
  <2>2. Presets!B!TypeOK
    BY DEF Files, BF!Base, BF!TypeOK, BF!Inode, BF!Content, BF!Directories,
           Presets!B!TypeOK, Presets!B!Inode, Presets!B!Content, Presets!B!Directories
  <2>. QED
    BY <2>1, <2>2 DEF StoreTypes, Presets!TypeOK
<1>2. Presets!NeverWiped
  <2>. SUFFICES ASSUME ~cleared, joins <= 1, NEW p \in Presets!P!MayReturn, NEW b \in Presets!B!MayReturn
                PROVE  Presets!Loaded(p, b) # {}
    BY DEF Presets!NeverWiped
  <2>1. PF!Within(Some) /\ BF!Within(Some) /\ (PF!IInv \/ BF!IInv)
    BY DEF FewInv, Values, OneIsSafe
  <2>2. {Empty, Torn} \subseteq Some
    BY DEF Some
  <2>3. p \in Some /\ b \in Some /\ (p \in SUBSET Slot \/ b \in SUBSET Slot)
    BY <2>1, <2>2, Returns
  <2>. QED
    BY <2>3, SomeLoaded
<1>3. Presets!PromisedComesBack
  <2>. SUFFICES ASSUME joins = 0, NEW m \in promised PROVE Presets!NextBoot = {m}
    BY DEF Presets!PromisedComesBack
  <2>1. PF!Holds(m) /\ PF!IInv /\ m = mem
    BY DEF Kept, FewInv, OneIsSafe
  <2>2. Presets!P!MayReturn \subseteq {m}
    BY <2>1 DEF Presets!P!MayReturn, Presets!P!Survives, PF!Holds, PF!IInv, PF!FilesSafe
  <2>3. Presets!P!MayReturn # {} /\ Presets!B!MayReturn # {}
    <3>1. {Empty, Torn} \subseteq {Empty, Torn}
      OBVIOUS
    <3>. QED
      BY <3>1, Returns
  <2>4. ASSUME NEW b PROVE Presets!Loaded(m, b) = m
    BY <2>1, StoresAssumption DEF StoreTypes, Presets!Loaded, Presets!Parses
  <2>. QED
    BY <2>2, <2>3, <2>4
<1>. QED
  BY <1>1, <1>2, <1>3

-----------------------------------------------------------------------------
(* The ring of recently played cards. *)

Untitled == ""
Title == Titles \cup {Untitled}
Row == [card : Cards, title : Title, ts : Nat]

\* No two neighbouring rows tell the same play twice.
Neat(rows) ==
  \A i, j \in 1 .. Len(rows) : j = i + 1 /\ rows[i].card = rows[j].card =>
    rows[i].title # Untitled /\ rows[j].title # Untitled /\ rows[i].title # rows[j].title

\* Rings of the length the cap allows.
Rings == {r \in Seq(Row) : Len(r) <= MaxEntries}

\* What is known of a ring.
LEMMA RingRows ==
  ASSUME NEW rows \in Rings
  PROVE  /\ rows \in Seq(Row) /\ Len(rows) \in Nat /\ Len(rows) <= MaxEntries
         /\ DOMAIN rows = 1 .. Len(rows) /\ \A i \in 1 .. Len(rows) : rows[i] \in Row
<1>1. rows \in Seq(Row) /\ Len(rows) \in Nat /\ Len(rows) <= MaxEntries
  BY DEF Rings
<1>. QED
  BY <1>1, LenProperties, ElementOfSeq

\* The oldest rows make room.
LEMMA CappedRows ==
  ASSUME NEW rows \in Seq(Row)
  PROVE  /\ Capped(rows) \in Rings
         /\ Neat(rows) => Neat(Capped(rows))
         /\ Len(rows) <= MaxEntries => Capped(rows) = rows
<1>1. MaxEntries \in Nat \ {0}
  BY RecentAssumption
<1>2. CASE Len(rows) <= MaxEntries
  BY <1>1, <1>2 DEF Capped, Rings
<1>3. CASE Len(rows) > MaxEntries
  <2>0. PICK n \in Nat : n = Len(rows)
    OBVIOUS
  <2>1. PICK m \in Nat : m = n - MaxEntries + 1
    BY <1>1, <1>3, <2>0
  <2>2. PICK kept : kept = Capped(rows)
    OBVIOUS
  <2>3. kept = SubSeq(rows, m, n)
    BY <1>3, <2>0, <2>1, <2>2 DEF Capped
  <2>4. \A i \in m .. n : rows[i] \in Row
    <3>1. \A i \in m .. n : i \in 1 .. n
      BY <1>1, <1>3, <2>0, <2>1
    <3>. QED
      BY <2>0, <3>1, ElementOfSeq
  <2>5. kept \in Seq(Row) /\ Len(kept) = MaxEntries /\ \A i \in 1 .. MaxEntries : kept[i] = rows[m + i - 1]
    <3>1. /\ SubSeq(rows, m, n) \in Seq(Row)
          /\ Len(SubSeq(rows, m, n)) = IF m <= n THEN n - m + 1 ELSE 0
          /\ \A i \in 1 .. n - m + 1 : SubSeq(rows, m, n)[i] = rows[m + i - 1]
      BY <2>4, SubSeqProperties
    <3>2. m <= n /\ n - m + 1 = MaxEntries
      BY <1>1, <1>3, <2>0, <2>1
    <3>. QED
      BY <2>3, <3>1, <3>2
  <2>6. ASSUME Neat(rows) PROVE Neat(kept)
    <3>. SUFFICES ASSUME NEW i \in 1 .. MaxEntries, NEW j \in 1 .. MaxEntries, j = i + 1, kept[i].card = kept[j].card
                  PROVE  kept[i].title # Untitled /\ kept[j].title # Untitled /\ kept[i].title # kept[j].title
      BY <2>5 DEF Neat
    <3>1. m + i - 1 \in 1 .. n /\ m + j - 1 \in 1 .. n /\ m + j - 1 = (m + i - 1) + 1
      BY <1>1, <1>3, <2>0, <2>1
    <3>2. kept[i] = rows[m + i - 1] /\ kept[j] = rows[m + j - 1]
      BY <2>5
    <3>. QED
      BY <2>0, <2>6, <3>1, <3>2 DEF Neat
  <2>7. kept \in Rings
    BY <1>1, <2>5 DEF Rings
  <2>. QED
    BY <1>3, <2>2, <2>6, <2>7, <1>1
<1>. QED
  BY <1>1, <1>2, <1>3

\* What folds, with the empty title named, ...
LEMMA FoldsNamed ==
  ASSUME NEW last, NEW card, NEW title
  PROVE  Folds(last, card, title) <=>
           last.card = card /\ (last.title = Untitled \/ title = Untitled \/ title = last.title)
BY Zenon DEF Folds, Untitled

\* ... and the refreshed row.
LEMMA RefreshedNamed ==
  ASSUME NEW last \in Row, NEW title \in Title, NEW ts \in Nat
  PROVE  /\ Refreshed(last, title, ts) \in Row /\ Refreshed(last, title, ts).card = last.card
         /\ Refreshed(last, title, ts).title = IF title # Untitled THEN title ELSE last.title
<1>1. Refreshed(last, title, ts) = [last EXCEPT !.ts = ts, !.title = IF title # Untitled THEN title ELSE @]
  BY Zenon DEF Refreshed, Untitled
<1>. QED
  BY <1>1 DEF Row

\* An addition fills in the newest row or makes one of its own.
LEMMA AddedRows ==
  ASSUME NEW rows \in Rings, NEW card \in Cards, NEW title \in Title, NEW ts \in Nat
  PROVE  /\ Added(rows, card, title, ts) \in Rings
         /\ Neat(rows) => Neat(Added(rows, card, title, ts))
<1>. DEFINE new == Added(rows, card, title, ts)
<1>0. PICK n \in Nat : n = Len(rows)
  BY RingRows
<1>1. rows \in Seq(Row) /\ n <= MaxEntries /\ \A i \in 1 .. n : rows[i] \in Row
  BY <1>0, RingRows
<1>2. CASE rows # <<>> /\ Folds(rows[n], card, title)
  <2>0. PICK last : last = Refreshed(rows[n], title, ts)
    OBVIOUS
  <2>1. n \in 1 .. n /\ rows[n] \in Row
    BY <1>0, <1>1, <1>2, LenProperties, EmptySeq
  <2>2. /\ last \in Row /\ last.card = rows[n].card
        /\ last.title = IF title # Untitled THEN title ELSE rows[n].title
    BY <2>0, <2>1, RefreshedNamed
  <2>3. new = [rows EXCEPT ![n] = last]
    BY <1>0, <1>2, <2>0 DEF Added
  <2>4. rows[n].title # Untitled => last.title = rows[n].title
    BY <1>2, <2>2, FoldsNamed
  <2>5. new \in Seq(Row) /\ Len(new) = n /\ \A i \in 1 .. n : new[i] = IF i = n THEN last ELSE rows[i]
    BY <1>0, <1>1, <2>1, <2>2, <2>3, ExceptSeq
  <2>. HIDE DEF new
  <2>6. ASSUME Neat(rows) PROVE Neat(new)
    <3>. SUFFICES ASSUME NEW i \in 1 .. n, NEW j \in 1 .. n, j = i + 1, new[i].card = new[j].card
                  PROVE  new[i].title # Untitled /\ new[j].title # Untitled /\ new[i].title # new[j].title
      BY <2>5 DEF Neat
    <3>1. i # n /\ new[i] = rows[i]
      BY <1>0, <2>5
    <3>2. new[j].card = rows[j].card /\ (rows[j].title # Untitled => new[j].title = rows[j].title)
      BY <2>2, <2>4, <2>5
    <3>. QED
      BY <1>0, <2>6, <3>1, <3>2 DEF Neat
  <2>7. new \in Rings
    BY <1>1, <2>5 DEF Rings
  <2>. QED
    BY <2>6, <2>7 DEF new
<1>3. CASE ~(rows # <<>> /\ Folds(rows[n], card, title))
  <2>0. PICK row : row = [card |-> card, title |-> title, ts |-> ts]
    OBVIOUS
  <2>1. row \in Row /\ row.card = card /\ row.title = title
    BY <2>0 DEF Row
  <2>2. PICK more : more = Append(rows, row)
    OBVIOUS
  <2>3. new = Capped(more)
    BY <1>0, <1>3, <2>0, <2>2 DEF Added
  <2>4. more \in Seq(Row) /\ Len(more) = n + 1 /\ more[n + 1] = row /\ \A i \in 1 .. n : more[i] = rows[i]
    BY <1>0, <1>1, <2>1, <2>2, AppendProperties
  <2>5. ASSUME Neat(rows) PROVE Neat(more)
    <3>. SUFFICES ASSUME NEW i \in 1 .. n + 1, NEW j \in 1 .. n + 1, j = i + 1, more[i].card = more[j].card
                  PROVE  more[i].title # Untitled /\ more[j].title # Untitled /\ more[i].title # more[j].title
      BY <2>4 DEF Neat
    <3>1. i \in 1 .. n /\ more[i] = rows[i]
      BY <1>0, <2>4
    <3>2. CASE j = n + 1
      <4>1. i = n /\ more[j] = row
        BY <1>0, <2>4, <3>2
      <4>2. rows # <<>>
        BY <1>0, <3>1, <4>1, EmptySeq
      <4>. QED
        BY <1>0, <1>3, <2>1, <3>1, <4>1, <4>2, FoldsNamed
    <3>3. CASE j # n + 1
      <4>1. j \in 1 .. n /\ more[j] = rows[j]
        BY <1>0, <2>4, <3>3
      <4>. QED
        BY <1>0, <2>5, <3>1, <4>1 DEF Neat
    <3>. QED
      BY <3>2, <3>3
  <2>. QED
    BY <2>3, <2>4, <2>5, CappedRows
<1>. QED
  BY <1>2, <1>3

\* A set of numbers has a first one, ...
LEMMA FirstOf ==
  ASSUME NEW T, T \subseteq Nat, T # {}
  PROVE  \E x \in T : \A y \in T : x <= y
<1>1. PICK x \in T : \A y \in T : <<y, x>> \notin OpToRel(<, Nat)
  BY WFMin, NatLessThanWellFounded, Zenon
<1>2. \A y \in T : ~(y < x)
  BY <1>1, Zenon DEF OpToRel
<1>. QED
  BY <1>2

\* ... and a last, if it is bounded.
LEMMA LastOf ==
  ASSUME NEW n \in Nat, NEW T, T \subseteq 1 .. n, T # {}
  PROVE  \E x \in T : \A y \in T : y <= x
<1>. DEFINE U == {n - y : y \in T}
<1>1. U \subseteq Nat
  OBVIOUS
<1>0. U # {}
  OBVIOUS
<1>2. PICK u \in U : \A v \in U : u <= v
  BY <1>0, <1>1, FirstOf
<1>3. PICK x \in T : u = n - x
  OBVIOUS
<1>4. ASSUME NEW y \in T PROVE y <= x
  <2>1. n - y \in U /\ n - x <= n - y /\ x \in Int /\ y \in Int
    BY <1>2, <1>3
  <2>. QED
    BY <2>1
<1>. QED
  BY <1>4

\* A deleted run leaves the rows before it and after it.
LEMMA WithoutRunRows ==
  ASSUME NEW rows \in Rings, NEW i \in DOMAIN rows
  PROVE  WithoutRun(rows, i) \in Rings
<1>0. PICK n \in Nat : n = Len(rows)
  BY RingRows
<1>1. rows \in Seq(Row) /\ n <= MaxEntries /\ DOMAIN rows = 1 .. n /\ \A k \in 1 .. n : rows[k] \in Row
  BY <1>0, RingRows
<1>2. Run(rows, i) \subseteq 1 .. n /\ i \in Run(rows, i)
  BY <1>1 DEF Run
<1>3. PICK lo : lo = CHOOSE k \in Run(rows, i) : \A m \in Run(rows, i) : k <= m
  OBVIOUS
<1>4. PICK hi : hi = CHOOSE k \in Run(rows, i) : \A m \in Run(rows, i) : k >= m
  OBVIOUS
<1>5. lo \in Run(rows, i) /\ lo <= i
  <2>1. \E k \in Run(rows, i) : \A m \in Run(rows, i) : k <= m
    BY <1>2, FirstOf
  <2>. QED
    BY <1>2, <1>3, <2>1
<1>6. hi \in Run(rows, i) /\ hi >= i
  <2>1. \E k \in Run(rows, i) : \A m \in Run(rows, i) : k >= m
    <3>1. PICK k \in Run(rows, i) : \A m \in Run(rows, i) : m <= k
      BY <1>2, LastOf
    <3>. QED
      BY <1>2, <3>1
  <2>. QED
    BY <1>2, <1>4, <2>1
<1>7. lo \in 1 .. n /\ hi \in 1 .. n /\ lo <= hi
  BY <1>2, <1>5, <1>6
<1>8. PICK before, after : before = SubSeq(rows, 1, lo - 1) /\ after = SubSeq(rows, hi + 1, n)
  OBVIOUS
<1>9. WithoutRun(rows, i) = before \o after
  BY <1>0, <1>3, <1>4, <1>8, Zenon DEF WithoutRun
<1>10. before \in Seq(Row) /\ Len(before) = lo - 1
  <2>1. 1 \in Int /\ lo - 1 \in Int /\ \A k \in 1 .. lo - 1 : rows[k] \in Row
    BY <1>1, <1>7
  <2>2. before \in Seq(Row) /\ Len(before) = IF 1 <= lo - 1 THEN lo - 1 - 1 + 1 ELSE 0
    BY <1>8, <2>1, SubSeqProperties
  <2>. QED
    BY <1>7, <2>2
<1>11. after \in Seq(Row) /\ Len(after) = n - hi
  <2>1. hi + 1 \in Int /\ n \in Int /\ \A k \in hi + 1 .. n : rows[k] \in Row
    BY <1>1, <1>7
  <2>2. after \in Seq(Row) /\ Len(after) = IF hi + 1 <= n THEN n - (hi + 1) + 1 ELSE 0
    BY <1>8, <2>1, SubSeqProperties
  <2>. QED
    BY <1>7, <2>2
<1>12. before \o after \in Seq(Row) /\ Len(before \o after) = Len(before) + Len(after)
  BY <1>10, <1>11, ConcatProperties
<1>13. MaxEntries \in Nat /\ Len(before) + Len(after) <= MaxEntries
  BY <1>1, <1>7, <1>10, <1>11, RecentAssumption
<1>. QED
  BY <1>9, <1>12, <1>13 DEF Rings


-----------------------------------------------------------------------------
(* The flushes. *)
RingTypes ==
  /\ ring \in Rings /\ onNand \in Rings /\ stamp \in 0 .. MaxStamps
  /\ dirty \in BOOLEAN /\ flushTimer \in BOOLEAN /\ overlap \in BOOLEAN /\ undone \in BOOLEAN /\ cut \in BOOLEAN
  /\ flushes \in [Flushers -> [pc : {"idle", "flush", "write"}, text : Rings]]

\* Whatever was marshalled or written was neat, too: the next start reads it back.
AllNeat == ~cut => Neat(ring) /\ Neat(onNand) /\ \A f \in Flushers : Neat(flushes[f].text)

\* As long as no two writes are under way at once there is at most one, and a clean ring is
\* in it, or in the file.
Writing(f) == flushes[f].pc = "write"
CleanIsWritten ==
  ~overlap =>
    /\ \A f, g \in Flushers : Writing(f) /\ Writing(g) => f = g
    /\ ~dirty => /\ \A f \in Flushers : Writing(f) => flushes[f].text = ring
                 /\ (\A f \in Flushers : ~Writing(f)) => onNand = ring

RingInv == RingTypes /\ AllNeat /\ DirtyIsScheduled /\ CleanIsWritten

\* The empty ring is one.
LEMMA EmptyRing == <<>> \in Rings /\ Neat(<<>>)
<1>1. MaxEntries \in Nat
  BY RecentAssumption
<1>. QED
  BY <1>1, EmptySeq DEF Rings, Neat

\* The agent has played nothing.
LEMMA InitRing == RecentInit => RingInv
<1>. SUFFICES ASSUME RecentInit PROVE RingInv
  OBVIOUS
<1>1. /\ ring = <<>> /\ onNand = <<>> /\ stamp = 0 /\ flushes = [f \in Flushers |-> NoFlush]
      /\ dirty = FALSE /\ flushTimer = FALSE /\ overlap = FALSE /\ undone = FALSE /\ cut = FALSE
  BY DEF RecentInit
<1>2. NoFlush.pc = "idle" /\ NoFlush.text = <<>> /\ NoFlush \in [pc : {"idle", "flush", "write"}, text : Rings]
  BY EmptyRing DEF NoFlush
<1>3. 0 \in 0 .. MaxStamps
  BY RecentAssumption
<1>4. RingTypes
  BY <1>1, <1>2, <1>3, EmptyRing DEF RingTypes
<1>. QED
  BY <1>1, <1>2, <1>4, EmptyRing DEF RingInv, AllNeat, DirtyIsScheduled, CleanIsWritten, Writing

\* A play is added.
LEMMA AddStep ==
  ASSUME RingInv, NEW card \in Cards, NEW title \in Title, Add(card, title)
  PROVE  RingInv'
<1>. USE DEF RingInv, RingTypes
<1>1. /\ stamp' = stamp + 1 /\ stamp' \in 0 .. MaxStamps /\ stamp + 1 \in Nat
      /\ ring' = Added(ring, card, title, stamp + 1) /\ dirty' = TRUE /\ flushTimer' = TRUE /\ undone' = FALSE
      /\ UNCHANGED <<flushes, onNand, overlap, cut>>
  BY RecentAssumption DEF Add, Stamped, MarkDirty
<1>2. ring' \in Rings /\ (Neat(ring) => Neat(ring'))
  BY <1>1, AddedRows
<1>3. RingTypes'
  BY <1>1, <1>2
<1>4. AllNeat'
  BY <1>1, <1>2 DEF AllNeat
<1>5. DirtyIsScheduled' /\ CleanIsWritten'
  BY <1>1 DEF DirtyIsScheduled, CleanIsWritten, Writing
<1>. QED
  BY <1>3, <1>4, <1>5

\* A card is cut out, or the ring emptied.
LEMMA DeleteStep ==
  ASSUME RingInv, Delete
  PROVE  RingInv'
<1>. USE DEF RingInv, RingTypes
<1>1. /\ stamp' = stamp + 1 /\ stamp' \in 0 .. MaxStamps
      /\ dirty' = TRUE /\ flushTimer' = TRUE /\ undone' = FALSE /\ cut' = TRUE
      /\ flushes' = [flushes EXCEPT !["handler"].pc = "flush"]
      /\ UNCHANGED <<onNand, overlap>>
  BY RecentAssumption DEF Delete, Stamped, MarkDirty
<1>2. ring' \in Rings
  BY EmptyRing, WithoutRunRows DEF Delete
<1>3. "handler" \in Flushers
  BY DEF Flushers
<1>4. flushes' \in [Flushers -> [pc : {"idle", "flush", "write"}, text : Rings]]
  BY <1>1, <1>3
<1>5. RingTypes'
  BY <1>1, <1>2, <1>4
<1>6. AllNeat' /\ DirtyIsScheduled'
  BY <1>1 DEF AllNeat, DirtyIsScheduled
<1>7. CleanIsWritten'
  BY <1>1, <1>3 DEF CleanIsWritten, Writing
<1>. QED
  BY <1>5, <1>6, <1>7

\* The timer fires.
LEMMA TimerStep ==
  ASSUME RingInv, TimerFires
  PROVE  RingInv'
<1>. USE DEF RingInv, RingTypes
<1>1. /\ flushTimer' = FALSE /\ flushes["timer"].pc = "idle"
      /\ flushes' = [flushes EXCEPT !["timer"].pc = "flush"]
      /\ UNCHANGED <<ring, dirty, onNand, stamp, overlap, undone, cut>>
  BY DEF TimerFires
<1>2. "timer" \in Flushers
  BY DEF Flushers
<1>3. /\ flushes' \in [Flushers -> [pc : {"idle", "flush", "write"}, text : Rings]]
      /\ flushes'["timer"].pc = "flush" /\ flushes'["timer"].text = flushes["timer"].text
      /\ \A f \in Flushers : f # "timer" => flushes'[f] = flushes[f]
  BY <1>1, <1>2
<1>4. RingTypes'
  BY <1>1, <1>3
<1>5. AllNeat'
  BY <1>1, <1>2, <1>3 DEF AllNeat
<1>6. DirtyIsScheduled'
  BY <1>1, <1>2, <1>3 DEF DirtyIsScheduled
<1>7. CleanIsWritten'
  BY <1>1, <1>2, <1>3 DEF CleanIsWritten, Writing
<1>. QED
  BY <1>4, <1>5, <1>6, <1>7

\* A flush marshals the ring, and calls it clean.
LEMMA MarshalStep ==
  ASSUME RingInv, NEW f \in Flushers, FlushMarshal(f)
  PROVE  RingInv'
<1>. USE DEF RingInv, RingTypes
<1>1. UNCHANGED <<ring, flushTimer, onNand, stamp, undone, cut>> /\ flushes[f].pc = "flush"
  BY DEF FlushMarshal
<1>2. CASE dirty
  <2>. DEFINE text == [pc |-> "write", text |-> ring]
  <2>1. /\ flushes' = [flushes EXCEPT ![f] = text] /\ dirty' = FALSE
        /\ overlap' = (overlap \/ \E g \in Flushers : Writing(g))
    BY <1>2 DEF FlushMarshal, Writing
  <2>2. text \in [pc : {"idle", "flush", "write"}, text : Rings] /\ text.pc = "write" /\ text.text = ring
    OBVIOUS
  <2>. HIDE DEF text
  <2>3. /\ flushes' \in [Flushers -> [pc : {"idle", "flush", "write"}, text : Rings]]
        /\ flushes'[f] = text /\ \A g \in Flushers : g # f => flushes'[g] = flushes[g]
    BY <2>1, <2>2
  <2>4. overlap' \in BOOLEAN
    BY <2>1, Zenon
  <2>5. RingTypes'
    BY <1>1, <2>1, <2>3, <2>4
  <2>6. AllNeat' /\ DirtyIsScheduled'
    BY <1>1, <2>1, <2>2, <2>3 DEF AllNeat, DirtyIsScheduled
  <2>7. CleanIsWritten'
    BY <1>1, <2>1, <2>2, <2>3 DEF CleanIsWritten, Writing
  <2>. QED
    BY <2>5, <2>6, <2>7
<1>3. CASE ~dirty
  <2>1. flushes' = [flushes EXCEPT ![f] = NoFlush] /\ UNCHANGED <<dirty, overlap>>
    BY <1>3 DEF FlushMarshal
  <2>2. NoFlush.pc = "idle" /\ NoFlush.text = <<>> /\ NoFlush \in [pc : {"idle", "flush", "write"}, text : Rings]
    BY EmptyRing DEF NoFlush
  <2>3. /\ flushes' \in [Flushers -> [pc : {"idle", "flush", "write"}, text : Rings]]
        /\ flushes'[f] = NoFlush /\ \A g \in Flushers : g # f => flushes'[g] = flushes[g]
    BY <2>1, <2>2
  <2>4. RingTypes'
    BY <1>1, <2>1, <2>3
  <2>5. AllNeat'
    BY <1>1, <2>1, <2>2, <2>3, EmptyRing DEF AllNeat
  <2>6. DirtyIsScheduled' /\ CleanIsWritten'
    BY <1>1, <1>3, <2>1, <2>2, <2>3 DEF CleanIsWritten, Writing, DirtyIsScheduled
  <2>. QED
    BY <2>4, <2>5, <2>6
<1>. QED
  BY <1>2, <1>3

\* The write of a flush lands or fails.
LEMMA WriteFlushStep ==
  ASSUME RingInv, NEW f \in Flushers, FlushWrite(f)
  PROVE  RingInv'
<1>. USE DEF RingInv, RingTypes
<1>1. /\ flushes[f].pc = "write" /\ flushes' = [flushes EXCEPT ![f] = NoFlush]
      /\ \/ onNand' = flushes[f].text /\ UNCHANGED <<dirty, undone>>
         \/ dirty' = TRUE /\ undone' = TRUE /\ UNCHANGED onNand
      /\ UNCHANGED <<ring, flushTimer, stamp, overlap, cut>>
  BY DEF FlushWrite
<1>2. NoFlush.pc = "idle" /\ NoFlush.text = <<>> /\ NoFlush \in [pc : {"idle", "flush", "write"}, text : Rings]
  BY EmptyRing DEF NoFlush
<1>3. /\ flushes' \in [Flushers -> [pc : {"idle", "flush", "write"}, text : Rings]]
      /\ flushes'[f] = NoFlush /\ \A g \in Flushers : g # f => flushes'[g] = flushes[g]
  BY <1>1, <1>2
<1>4. flushes[f].text \in Rings
  OBVIOUS
<1>5. RingTypes'
  BY <1>1, <1>3, <1>4
<1>6. AllNeat'
  BY <1>1, <1>2, <1>3, EmptyRing DEF AllNeat
<1>7. DirtyIsScheduled'
  BY <1>1, <1>2, <1>3 DEF DirtyIsScheduled
<1>8. CleanIsWritten'
  BY <1>1, <1>2, <1>3 DEF CleanIsWritten, Writing
<1>. QED
  BY <1>5, <1>6, <1>7, <1>8

\* The agent starts again from the file.
LEMMA RebootStep ==
  ASSUME RingInv, RecentReboot
  PROVE  RingInv'
<1>. USE DEF RingInv, RingTypes
<1>1. /\ ring' = Capped(onNand) /\ dirty' = FALSE /\ flushTimer' = FALSE /\ overlap' = FALSE /\ undone' = FALSE
      /\ flushes' = [f \in Flushers |-> NoFlush] /\ UNCHANGED <<onNand, cut>>
      /\ stamp' \in 0 .. MaxStamps
  BY RecentAssumption DEF RecentReboot, Stamped
<1>2. Capped(onNand) = onNand
  BY RingRows, CappedRows
<1>3. NoFlush.pc = "idle" /\ NoFlush.text = <<>> /\ NoFlush \in [pc : {"idle", "flush", "write"}, text : Rings]
  BY EmptyRing DEF NoFlush
<1>4. RingTypes'
  BY <1>1, <1>2, <1>3
<1>. QED
  BY <1>1, <1>2, <1>3, <1>4, EmptyRing DEF AllNeat, DirtyIsScheduled, CleanIsWritten, Writing

\* Every step keeps the invariant.
LEMMA RingStep ==
  ASSUME RingInv, [RecentNext]_recentVars
  PROVE  RingInv'
<1>1. ASSUME NEW card \in Cards, NEW title \in Title, Add(card, title) PROVE RingInv'
  BY <1>1, AddStep
<1>2. ASSUME NEW f \in Flushers, FlushMarshal(f) \/ FlushWrite(f) PROVE RingInv'
  BY <1>2, MarshalStep, WriteFlushStep
<1>3. CASE UNCHANGED recentVars
  BY <1>3 DEF recentVars, RingInv, RingTypes, AllNeat, DirtyIsScheduled, CleanIsWritten, Writing
<1>. QED
  BY <1>1, <1>2, <1>3, DeleteStep, TimerStep, RebootStep, Zenon DEF RecentNext, Title, Untitled

\* What the run checks of the ring.
LEMMA RingHolds == RingInv => RecentInv
<1>. SUFFICES ASSUME RingInv PROVE RecentInv
  OBVIOUS
<1>. USE DEF RingInv
<1>1. \A i \in DOMAIN ring : ring[i].card \in Cards /\ ring[i].title \in Title
  BY RingRows DEF RingTypes, Row
<1>2. Len(ring) <= MaxEntries /\ Len(onNand) <= MaxEntries
  BY RingRows DEF RingTypes
<1>3. RecentTypeOK
  BY <1>1, <1>2, Zenon DEF RecentTypeOK, RingTypes, Title, Untitled
<1>4. NoPlayTwice
  <2>1. ASSUME ~cut, NEW i \in 1 .. (Len(ring) - 1), ring[i].card = ring[i + 1].card
        PROVE  ring[i].title # Untitled /\ ring[i + 1].title # Untitled /\ ring[i].title # ring[i + 1].title
    <3>1. Len(ring) \in Nat
      BY RingRows DEF RingTypes
    <3>2. i \in 1 .. Len(ring) /\ i + 1 \in 1 .. Len(ring)
      BY <3>1
    <3>. QED
      BY <2>1, <3>2 DEF AllNeat, Neat
  <2>. QED
    BY <2>1, Zenon DEF NoPlayTwice, Untitled
<1>5. LoneFlushLands
  BY DEF CleanIsWritten, Writing, LoneFlushLands
<1>. QED
  BY <1>3, <1>4, <1>5 DEF RecentInv


-----------------------------------------------------------------------------
(* The whole run. *)
StoresIInv == PInv /\ RingInv

\* The invariant holds in every state.
LEMMA StoresAlways == StoresSpec => []StoresIInv
<1>1. StoresInit => StoresIInv
  BY InitPInv, InitRing DEF StoresInit, StoresIInv
<1>2. StoresIInv /\ [StoresNext]_<<part, vars, presetVars, recentVars>> => StoresIInv'
  <2>. SUFFICES ASSUME StoresIInv, [StoresNext]_<<part, vars, presetVars, recentVars>> PROVE StoresIInv'
    OBVIOUS
  <2>1. [Presets!Next]_presetVars /\ [RecentNext]_recentVars
    BY DEF StoresNext
  <2>. QED
    BY <2>1, PInvStep, RingStep DEF StoresIInv
<1>. QED
  BY <1>1, <1>2, PTL DEF StoresSpec

(* The presets: unless the user has removed them all, a loss of power at any moment leaves   *)
(* some, as long as at most one save has joined another since the last that had both files   *)
(* to itself; and as long as none has, an acknowledged change is what every later start      *)
(* loads.  The ring: no two neighbouring rows tell one play twice, a dirty ring has a flush  *)
(* coming, and flushes that do not overlap leave the ring in the file (MCStores!StoresInv).  *)
THEOREM StoresInvariant == StoresSpec => []StoresInv
<1>1. StoresIInv => StoresInv
  BY PresetsHold, RingHolds DEF StoresIInv, StoresInv
<1>. QED
  BY <1>1, StoresAlways, PTL

(* Whatever overlapping saves have left in the temporary file of presets.json, a save that   *)
(* no other overlaps puts its own presets, whole, in place (MCStores!LoneSaveLands).         *)
THEOREM SaveLands == StoresSpec => LoneSaveLands
<1>. DEFINE Land == \A w \in pAlone : pPc[w] = "synced" /\ pPc'[w] = "renamed" =>
                      pCache'[pDir'.path] = pData[w] /\ pDisk'[pDir'.path] = pData[w]
<1>1. StoresIInv /\ [StoresNext]_<<part, vars, presetVars, recentVars>> => [Land]_(Presets!P!vars)
  <2>. SUFFICES ASSUME StoresIInv, [StoresNext]_<<part, vars, presetVars, recentVars>> PROVE [Land]_(Presets!P!vars)
    OBVIOUS
  <2>1. Presets!Next \/ UNCHANGED presetVars
    BY DEF StoresNext
  <2>2. CASE UNCHANGED presetVars
    BY <2>2 DEF presetVars, Presets!P!vars, Presets!P!disks, Presets!P!dirs, Presets!P!calls
  <2>3. CASE Presets!Next
    <3>1. [PF!Next]_(PF!vars) /\ PF!Base /\ PF!LoneInv
      BY <2>3, FileSteps DEF StoresIInv, PInv, Files
    <3>. QED
      BY <3>1, PresetFiles, PF!LoneStepLands
  <2>. QED
    BY <2>1, <2>2, <2>3
<1>. QED
  BY <1>1, StoresAlways, PTL DEF StoresSpec, LoneSaveLands, Presets!LoneSaveLands, Presets!P!LoneWriteLands
=============================================================================
