------------------------------- MODULE MCStores -------------------------------
(***************************************************************************)
(* What the agent keeps on NAND, on small instances that TLC explores in   *)
(* one run; they share nothing, and `part' says which one a behaviour      *)
(* belongs to:                                                             *)
(*   "file":    AtomicFile for callers that exclude each other;            *)
(*   "presets": PresetStore, on two such files of callers that do not;     *)
(*   "recent":  RecentStore.                                               *)
(* The variables of the parts a behaviour does not belong to stay as they  *)
(* are initially.                                                          *)
(***************************************************************************)
EXTENDS AtomicFile, RecentStore, TLC

CONSTANTS Slot, MaxPresetWrites, MaxChanges   \* of PresetStore

\* A preset slot, and sets of slots that are no empty or torn file.
ASSUME StoresAssumption ==
  /\ {MaxPresetWrites, MaxChanges} \subseteq Nat
  /\ Slot # {} /\ \A m \in SUBSET Slot : m \notin {Empty, Torn}

VARIABLES
  part,
  mem, saverAt, changes, cleared, promised, joins,
  pCache, pDisk, pDir, pCrashDirs, pCreated, pWrites, pPc, pFd, pData, pAlone,
  bCache, bDisk, bDir, bCrashDirs, bCreated, bWrites, bPc, bFd, bData, bAlone

Presets == INSTANCE PresetStore WITH
  Saver <- Writer, MaxWrites <- MaxPresetWrites, pc <- saverAt

presetVars ==
  <<mem, saverAt, changes, cleared, promised, joins,
    pCache, pDisk, pDir, pCrashDirs, pCreated, pWrites, pPc, pFd, pData, pAlone,
    bCache, bDisk, bDir, bCrashDirs, bCreated, bWrites, bPc, bFd, bData, bAlone>>

StoresInit == Init /\ Presets!Init /\ RecentInit /\ part \in {"file", "presets", "recent"}

StoresNext ==
  /\ UNCHANGED part
  /\ \/ part = "file" /\ Next /\ UNCHANGED <<presetVars, recentVars>>
     \/ part = "presets" /\ Presets!Next /\ UNCHANGED <<vars, recentVars>>
     \/ part = "recent" /\ RecentNext /\ UNCHANGED <<vars, presetVars>>

StoresSpec == StoresInit /\ [][StoresNext]_<<part, vars, presetVars, recentVars>>

Symmetry == Permutations(Writer) \cup Permutations(Slot)

-----------------------------------------------------------------------------
(* The properties of PresetStore, by their names there. *)

\* Unless the user has removed every preset, some come back as long as at most one save has joined
\* another since the last that had both files to itself (presets.go:292), and as long as none has
\* every acknowledged change does (presets.go:275); no play of the ring is twice in a row or forgotten
\* by a flush.
StoresInv == Presets!TypeOK /\ Presets!NeverWiped /\ Presets!PromisedComesBack /\ RecentInv

\* A save nobody overlaps lands whole (PresetStore!LoneSaveLands).
LoneSaveLands == Presets!LoneSaveLands
=============================================================================
