----------------------------- MODULE PresetStore -----------------------------
(***************************************************************************)
(* The presets of the speaker (internal/presets): the set in memory, the   *)
(* file presets.json and its backup presets.json.bak, each written through *)
(* atomicfile.  A change takes the write lock only for the memory; the     *)
(* save that follows takes the read lock, so saves run side by side, with  *)
(* the same data, on the same temporary files.                             *)
(*                                                                         *)
(* The two files are two instances of AtomicFile with callers that do not  *)
(* exclude each other.  They share a directory, whose one sync settles     *)
(* both names; here each settles its own, which promises less.             *)
(***************************************************************************)
EXTENDS Integers, FiniteSets

CONSTANTS
  Saver,                \* goroutines that change the presets
  Slot,                 \* preset slots; a preset is its slot
  MaxWrites,            \* bound on the writes of each file
  MaxChanges,           \* bound on the changes
  Empty, Torn, NoFile   \* of AtomicFile

FirstPresets == Slot    \* a speaker set up and saved

VARIABLES
  mem,       \* Store.data
  pc,        \* of a saver: where SetSlot or RemoveSlot is
  changes,   \* number of changes
  cleared,   \* (history) the user has removed every preset
  promised,  \* (history) the presets a save has last returned nil for, unless
             \* changed since: a set of at most one
  joins,     \* (history) the saves begun beside another, 2 for more than one, since
             \* the last that had both files to itself
  pCache, pDisk, pDir, pCrashDirs, pCreated, pWrites, pPc, pFd, pData, pAlone,
  bCache, bDisk, bDir, bCrashDirs, bCreated, bWrites, bPc, bFd, bData, bAlone

P == INSTANCE AtomicFile WITH       \* presets.json
  Writer <- Saver, Serialized <- FALSE, Value <- SUBSET Slot, First <- FirstPresets,
  cache <- pCache, disk <- pDisk, dir <- pDir, crashDirs <- pCrashDirs,
  created <- pCreated, writes <- pWrites, pc <- pPc, fd <- pFd, data <- pData,
  alone <- pAlone

B == INSTANCE AtomicFile WITH       \* presets.json.bak
  Writer <- Saver, Serialized <- FALSE, Value <- SUBSET Slot, First <- FirstPresets,
  cache <- bCache, disk <- bDisk, dir <- bDir, crashDirs <- bCrashDirs,
  created <- bCreated, writes <- bWrites, pc <- bPc, fd <- bFd, data <- bData,
  alone <- bAlone

pVars  == <<pCache, pDisk, pDir, pCrashDirs, pCreated, pWrites, pPc, pFd, pData, pAlone>>
bVars  == <<bCache, bDisk, bDir, bCrashDirs, bCreated, bWrites, bPc, bFd, bData, bAlone>>
store  == <<mem, changes, cleared, promised>>
vars   == <<store, joins, pc, pVars, bVars>>

Init ==
  /\ mem = FirstPresets /\ changes = 0 /\ cleared = FALSE /\ promised = {FirstPresets}
  /\ pc = [w \in Saver |-> "idle"]
  /\ joins = 0
  /\ P!Init /\ B!Init

-----------------------------------------------------------------------------
Goto(w, l) == pc' = [pc EXCEPT ![w] = l]

\* Who holds the read lock for a save; Load, too, until it returns.
Saving == {w \in Saver : pc[w] \notin {"idle", "changed"}}

\* SetSlot or RemoveSlot under the write lock.
Change(w) ==
  /\ pc[w] = "idle" /\ changes < MaxChanges /\ Saving = {}
  /\ \E s \in Slot : mem' \in {mem \cup {s}, mem \ {s}}
  /\ changes' = changes + 1
  /\ cleared' = (cleared \/ mem' = {})
  /\ promised' = {}
  /\ Goto(w, "changed")
  /\ UNCHANGED <<joins, pVars, bVars>>

\* Save, under the read lock: the write of presets.json begins, or is refused.
Save(w) ==
  /\ pc[w] = "changed"
  /\ \/ /\ P!Open(w, mem) /\ Goto(w, "primary")
        /\ joins' = IF Saving = {} THEN joins ELSE IF joins = 0 THEN 1 ELSE 2
     \/ Goto(w, "idle") /\ UNCHANGED <<pVars, joins>>
  /\ UNCHANGED <<store, bVars>>

\* The middle of a write of presets.json.
WritePrimary(w) ==
  /\ P!Write(w) \/ P!Sync(w) \/ P!Rename(w)
  /\ UNCHANGED <<store, joins, pc, bVars>>

\* WriteFile fails: so does SetSlot, or Load's restoring, which ignores it.
PrimaryFailed(w) ==
  /\ P!Remove(w) /\ Goto(w, "idle")
  /\ UNCHANGED <<store, joins, bVars>>

\* WriteFile returns nil; a set that is not empty is backed up, whatever comes of
\* that.  Load backs nothing up.
PrimaryWritten(w) ==
  /\ P!SyncDir(w)
  /\ IF pc[w] = "primary" /\ mem # {}
     THEN Goto(w, "backup") /\ UNCHANGED promised
     ELSE Goto(w, "idle") /\ promised' = {mem}
  /\ UNCHANGED <<mem, changes, cleared, joins, bVars>>

Backup(w) ==
  /\ pc[w] = "backup" /\ B!Open(w, mem)
  /\ Goto(w, "backing")
  /\ UNCHANGED <<store, joins, pVars>>

WriteBackup(w) ==
  /\ B!Write(w) \/ B!Sync(w) \/ B!Rename(w)
  /\ UNCHANGED <<store, joins, pc, pVars>>

\* The write of the backup has ended, well or not, or never began: SetSlot
\* returns nil.
BackupDone(w) ==
  /\ \/ B!SyncDir(w) /\ joins' = IF Saving = {w} /\ w \in pAlone \cap bAlone THEN 0 ELSE joins
     \/ B!Remove(w) /\ UNCHANGED joins
     \/ pc[w] = "backup" /\ UNCHANGED <<bVars, joins>>
  /\ Goto(w, "idle") /\ promised' = {mem}
  /\ UNCHANGED <<mem, changes, cleared, pVars>>

WriteBack ==
  /\ \/ \E i \in P!Inode : P!WriteBack(i) /\ UNCHANGED bVars
     \/ \E i \in P!Inode : B!WriteBack(i) /\ UNCHANGED pVars
  /\ UNCHANGED <<store, joins, pc>>

-----------------------------------------------------------------------------
\* A file that is not empty and parses.
Parses(content) == content \notin {Empty, Torn}

\* Mutant: the backup is preferred.
Loaded_BackupFirst(primary, backup) ==
  IF Parses(backup) THEN backup
  ELSE IF Parses(primary) THEN primary ELSE {}

\* Mutant: nothing is recovered.
Loaded_NoRecovery(primary, backup) == IF Parses(primary) THEN primary ELSE {}

\* What Load finds in a primary and a backup: the primary if it parses, an empty
\* set too; else the backup, unless that is empty; else nothing.
Loaded(primary, backup) ==
  IF Parses(primary) THEN primary
  ELSE IF Parses(backup) THEN backup ELSE {}

\* Whether Load brings presets.json back from the backup.
Restores(primary, backup) == ~Parses(primary) /\ Parses(backup) /\ backup # {}

\* A loss of power, and the Load of the next start.
PowerLoss ==
  /\ P!PowerLoss /\ B!PowerLoss
  /\ LET primary == pCache'[pDir'.path]
         backup  == bCache'[bDir'.path]
     IN  /\ mem' = Loaded(primary, backup)
         /\ IF Restores(primary, backup)
            THEN \E w \in Saver : pc' = [v \in Saver |-> IF v = w THEN "load" ELSE "idle"]
            ELSE pc' = [v \in Saver |-> "idle"]
  /\ UNCHANGED <<changes, cleared, promised, joins>>

\* Load writes what it found in the backup to presets.json, before anybody else
\* has the store.
Restore(w) ==
  /\ pc[w] = "load"
  /\ \/ P!Open(w, mem) /\ Goto(w, "restoring")
     \/ Goto(w, "idle") /\ UNCHANGED pVars
  /\ UNCHANGED <<store, joins, bVars>>

-----------------------------------------------------------------------------
Next ==
  \/ \E w \in Saver :
       \/ Change(w) \/ Save(w) \/ WritePrimary(w) \/ PrimaryFailed(w)
       \/ PrimaryWritten(w) \/ Backup(w) \/ WriteBackup(w) \/ BackupDone(w) \/ Restore(w)
  \/ WriteBack \/ PowerLoss

Spec == Init /\ [][Next]_vars

-----------------------------------------------------------------------------
(* Properties. *)

TypeOK ==
  /\ mem \in SUBSET Slot /\ changes \in 0 .. MaxChanges
  /\ cleared \in BOOLEAN /\ joins \in 0 .. 2
  /\ promised \in {{}} \cup {{m} : m \in SUBSET Slot}
  /\ pc \in [Saver -> {"idle", "changed", "primary", "backup", "backing", "load", "restoring"}]
  /\ P!TypeOK /\ B!TypeOK

\* What the next start may find.
NextBoot == {Loaded(p, b) : p \in P!MayReturn, b \in B!MayReturn}

\* Unless the user has removed every preset, a loss of power at any moment leaves
\* some, as long as at most one save has joined another since the last that had
\* both files to itself: two may spoil presets.json or its backup, never both.
NeverWiped == ~cleared /\ joins <= 1 => {} \notin NextBoot

\* Whatever overlapping saves have left in the shared temporary file, a save of
\* presets.json that no other overlaps puts its own presets, whole, in place.
LoneSaveLands == P!LoneWriteLands

\* A change that SetSlot or RemoveSlot has returned nil for is what every later
\* start loads, a removal of the last preset too, as long as no save has joined
\* another since then.
PromisedComesBack == joins = 0 => \A m \in promised : NextBoot = {m}
=============================================================================
