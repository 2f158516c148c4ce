------------------------------- MODULE KeySlots -------------------------------
(***************************************************************************)
(* What the hardware keys of the speaker hold, against the presets of the  *)
(* store: the sweep that reconciles the two (cmd/agent/reconcile.go), the  *)
(* native form of a preset and the latch that gives it up                  *)
(* (nativepresets.go), the handlers that save, delete and push presets     *)
(* (internal/webui/presets_http.go, boxpresets_snapshot.go), the recovery  *)
(* of a lost store from the speaker's own list, and the pairing            *)
(* (internal/autopair), whose onboarding wipes the keys.                   *)
(*                                                                         *)
(* A key holds "none", a "upnp" location of this agent or a "native" radio *)
(* station of this agent; items of others are left alone by all of this    *)
(* and left out.  A sweep reads the store and the keys once and writes     *)
(* slot by slot after that.                                                *)
(***************************************************************************)
EXTENDS Naturals, FiniteSets

CONSTANTS KeySlotNumbers,         \* the slots
          Radios, Playlists,      \* what the user saves: stations, and Spotify contexts
          NativeFailureBudget,    \* sweeps that may lose native writes in a row
          NativeDropBudget,       \* native stations the speaker may abandon
          MaxUpsets               \* bound: changes of the user and failed calls, together

ASSUME KeySlotsAssumption ==
  /\ NativeFailureBudget \in Nat \ {0} /\ NativeDropBudget \in Nat \ {0} /\ MaxUpsets \in Nat
  /\ Radios \cap Playlists = {} /\ "none" \notin Radios \cup Playlists

VARIABLES
  store,       \* the preset store
  keys,        \* the speaker's own list
  radioReady,  \* the speaker lists its radio source as READY
  native,      \* nativeReady and nativeDrops: the cached verdict, the latch and its counts
  sweep,       \* the sweep: where it is, what it read, what it has to write
  editor,      \* the handler of the app: where it is and what it writes
  pairing,     \* the pair cycle, what it saw last, and whether the speaker has an account
  seeding,     \* the recovery at start, and what it read
  bootKeys,    \* history: what the speaker listed when the agent started on an empty store, until a change or a failed call
  upsets

keyVars == <<store, keys, radioReady, native, sweep, editor, pairing, seeding, bootKeys, upsets>>

Own == {"upnp", "native"}
Stored(st) == {s \in KeySlotNumbers : st[s] # "none"}
First(slots) == {s \in slots : \A t \in slots : s <= t}
NoSpecs == [s \in KeySlotNumbers |-> "none"]
IdleSweep == [pc |-> "idle", seen |-> NoSpecs, specs |-> NoSpecs, todo |-> {}, ghosts |-> {}]
IdleEditor == [pc |-> "idle", slot |-> 0, what |-> "none", todo |-> {}]

KeyInit ==
  /\ \/ /\ store = NoSpecs /\ keys \in [KeySlotNumbers -> {"none", "upnp"}]
        /\ bootKeys = {s \in KeySlotNumbers : keys[s] = "upnp"}
     \/ /\ \E c \in Radios : store = [s \in KeySlotNumbers |-> IF s = 1 THEN c ELSE "none"]
        /\ keys \in [KeySlotNumbers -> {"none", "upnp"}] /\ bootKeys = {}
  /\ radioReady = TRUE
  /\ native = [stale |-> FALSE, latched |-> FALSE, failures |-> 0, drops |-> 0]
  /\ sweep = IdleSweep /\ editor = IdleEditor
  /\ pairing = [pc |-> "first", last |-> "nil", account |-> TRUE, resync |-> FALSE]
  /\ seeding = [pc |-> "first", list |-> {}] /\ upsets = 0

-----------------------------------------------------------------------------
(***************************************************************************)
(* Writes to the speaker.                                                  *)
(***************************************************************************)
Upset == upsets < MaxUpsets /\ upsets' = upsets + 1 /\ bootKeys' = {}
NoUpset == UNCHANGED <<bootKeys, upsets>>

\* AddPreset: the key takes the UPnP form, or the call fails and it keeps what it has.
AddUpnp(s) ==
  \/ keys' = [keys EXCEPT ![s] = "upnp"] /\ NoUpset
  \/ UNCHANGED keys /\ Upset
\* AddPresetNative: refused, accepted and kept, or accepted while the slot ends up empty.
NativeRefused(s) == UNCHANGED keys
NativeTaken(s) == \E kept \in {"native", "none"} : keys' = [keys EXCEPT ![s] = kept]
\* SyncAllPresets and writeBoxPreset: a native form that was refused is followed by the other.
Write(s, form) == \/ form = "native" /\ NativeTaken(s) /\ NoUpset
                  \/ AddUpnp(s)

\* nativeRadioReady: the verdict is cached for two minutes, so it may be older than the source.
Ready == ~native.latched /\ (radioReady # native.stale)
Storable(c) == c \notin Playlists
Form(c) == IF Storable(c) /\ Ready THEN "native" ELSE "upnp"

ForgetVerdict ==
  /\ native.stale /\ native' = [native EXCEPT !.stale = FALSE]
  /\ UNCHANGED <<store, keys, radioReady, sweep, editor, pairing, seeding, bootKeys, upsets>>

-----------------------------------------------------------------------------
(***************************************************************************)
(* reconcileOnce.                                                          *)
(***************************************************************************)
SweepStart ==
  /\ sweep.pc = "idle" /\ Stored(store) # {}
  /\ sweep' = [IdleSweep EXCEPT !.pc = IF pairing.resync THEN "forced" ELSE "list", !.seen = store]
  /\ pairing' = [pairing EXCEPT !.resync = FALSE]
  /\ native' = IF pairing.resync THEN [native EXCEPT !.stale = FALSE] ELSE native
  /\ UNCHANGED <<store, keys, radioReady, editor, seeding, bootKeys, upsets>>

Ghosts == {s \in KeySlotNumbers : sweep.seen[s] = "none" /\ keys[s] \in Own}
\* The speaker's list is read; a slot is written when it is missing, could be native, may not be
\* native any more, or when everything is.
SweepList ==
  /\ sweep.pc \in {"list", "forced"}
  /\ \/ /\ sweep' = [sweep EXCEPT !.pc = "write", !.seen = NoSpecs, !.ghosts = Ghosts,
                       !.specs = [s \in KeySlotNumbers |-> IF sweep.seen[s] = "none" THEN "none" ELSE Form(sweep.seen[s])],
                       !.todo = {s \in Stored(sweep.seen) :
                                   LET form == Form(sweep.seen[s])
                                   IN \/ sweep.pc = "forced" \/ keys[s] = "none"
                                      \/ form = "native" /\ keys[s] = "upnp"
                                      \/ form = "upnp" /\ keys[s] = "native"}]
        /\ NoUpset
     \/ sweep' = IdleSweep /\ Upset
  /\ UNCHANGED <<store, keys, radioReady, native, editor, pairing, seeding>>

SweepWrite ==
  /\ sweep.pc = "write"
  /\ \/ \E s \in First(sweep.todo) : Write(s, sweep.specs[s])
                              /\ sweep' = [sweep EXCEPT !.todo = @ \ {s},
                                             !.specs[s] = IF @ = "native" THEN "pending" ELSE "none"]
     \/ /\ sweep.todo = {} /\ sweep' = [sweep EXCEPT !.pc = "verify"] /\ UNCHANGED keys /\ NoUpset
  /\ UNCHANGED <<store, radioReady, native, editor, pairing, seeding>>

\* verifyNativeWrites: what is not native is written once more, then put on the UPnP form; a list
\* that cannot be read is no evidence of a loss.
Pending == {s \in KeySlotNumbers : sweep.specs[s] = "pending"}
LostNow == {s \in Pending : keys[s] # "native"}
Landed == native' = [native EXCEPT !.failures = 0]
CountFailure_AfterBudget == native' = [native EXCEPT !.failures = IF @ < NativeFailureBudget THEN @ + 1 ELSE @,
                                                     !.latched = @ \/ native.failures + 1 > NativeFailureBudget]
CountFailure == native' = [native EXCEPT !.failures = IF @ < NativeFailureBudget THEN @ + 1 ELSE @,
                                         !.latched = @ \/ native.failures + 1 >= NativeFailureBudget]

SweepVerify ==
  /\ sweep.pc \in {"verify", "recheck"}
  /\ \/ Pending = {} /\ sweep' = [sweep EXCEPT !.pc = "prune"] /\ UNCHANGED native /\ NoUpset
     \/ Pending # {} /\ LostNow = {} /\ sweep' = [sweep EXCEPT !.pc = "prune"] /\ Landed /\ NoUpset
     \/ /\ LostNow # {} /\ UNCHANGED native /\ NoUpset
        /\ sweep' = [sweep EXCEPT !.pc = IF @ = "verify" THEN "rewrite" ELSE "restore", !.todo = LostNow]
     \/ Pending # {} /\ sweep' = [sweep EXCEPT !.pc = "prune"] /\ Landed /\ Upset
  /\ UNCHANGED <<store, keys, radioReady, editor, pairing, seeding>>

SweepRewrite ==
  /\ sweep.pc = "rewrite"
  /\ \/ \E s \in First(sweep.todo) : (NativeRefused(s) \/ NativeTaken(s)) /\ sweep' = [sweep EXCEPT !.todo = @ \ {s}]
     \/ sweep.todo = {} /\ sweep' = [sweep EXCEPT !.pc = "recheck"] /\ UNCHANGED keys
  /\ UNCHANGED <<store, radioReady, native, editor, pairing, seeding, bootKeys, upsets>>

SweepRestore ==
  /\ sweep.pc = "restore"
  /\ \/ \E s \in First(sweep.todo) : AddUpnp(s) /\ sweep' = [sweep EXCEPT !.todo = @ \ {s}] /\ UNCHANGED native
     \/ sweep.todo = {} /\ sweep' = [sweep EXCEPT !.pc = "prune"] /\ CountFailure /\ UNCHANGED keys /\ NoUpset
  /\ UNCHANGED <<store, radioReady, editor, pairing, seeding>>

\* What the list, as it was read, had of this agent that the store, as it was read, had not.
SweepPrune ==
  /\ sweep.pc = "prune"
  /\ \/ sweep.ghosts = {} /\ sweep' = IdleSweep /\ UNCHANGED keys /\ NoUpset
     \/ \E s \in sweep.ghosts : /\ sweep' = [sweep EXCEPT !.ghosts = @ \ {s}]
                               /\ \/ keys' = [keys EXCEPT ![s] = "none"] /\ NoUpset
                                  \/ UNCHANGED keys /\ Upset
  /\ UNCHANGED <<store, radioReady, native, editor, pairing, seeding>>

\* noteNativeStreamDropped: the speaker leaves a native station it had accepted.
NativeDropped ==
  /\ \E s \in KeySlotNumbers : keys[s] = "native"
  /\ native.drops < NativeDropBudget
  /\ native' = [native EXCEPT !.drops = @ + 1, !.latched = @ \/ native.drops + 1 >= NativeDropBudget]
  /\ UNCHANGED <<store, keys, radioReady, sweep, editor, pairing, seeding, bootKeys, upsets>>

-----------------------------------------------------------------------------
(***************************************************************************)
(* The handlers of the app, one request at a time.                         *)
(***************************************************************************)
Edit == editor.pc = "idle" /\ Upset
EditorGoes(pc) == editor' = [editor EXCEPT !.pc = pc]

Save(s, c) ==
  /\ Edit /\ editor' = [pc |-> "dedup", slot |-> s, what |-> c, todo |-> {}]
  /\ UNCHANGED <<store, keys, radioReady, native, sweep, pairing, seeding>>
\* What is saved leaves every other slot first, in the store and on the speaker.
Twins == {s \in KeySlotNumbers \ {editor.slot} : store[s] = editor.what}
SaveDedup ==
  /\ editor.pc = "dedup"
  /\ IF Twins = {} THEN EditorGoes("set") /\ UNCHANGED <<store, keys>> /\ NoUpset
     ELSE \E s \in Twins : /\ store' = [store EXCEPT ![s] = "none"] /\ UNCHANGED editor
                           /\ \/ keys' = [keys EXCEPT ![s] = "none"] /\ NoUpset
                              \/ UNCHANGED keys /\ Upset
  /\ UNCHANGED <<radioReady, native, sweep, pairing, seeding>>
SaveSet ==
  /\ editor.pc = "set"
  /\ \/ store' = [store EXCEPT ![editor.slot] = editor.what] /\ EditorGoes("box") /\ NoUpset
     \/ UNCHANGED store /\ editor' = IdleEditor /\ Upset
  /\ UNCHANGED <<keys, radioReady, native, sweep, pairing, seeding>>
SaveBox ==
  /\ editor.pc = "box" /\ Write(editor.slot, Form(editor.what)) /\ editor' = IdleEditor
  /\ UNCHANGED <<store, radioReady, native, sweep, pairing, seeding>>

DeletePreset(s) ==
  /\ Edit /\ store' = [store EXCEPT ![s] = "none"]
  /\ editor' = [IdleEditor EXCEPT !.pc = "unbox", !.slot = s]
  /\ UNCHANGED <<keys, radioReady, native, sweep, pairing, seeding>>
DeleteBox ==
  /\ editor.pc = "unbox" /\ editor' = IdleEditor
  /\ \/ keys' = [keys EXCEPT ![editor.slot] = "none"] /\ NoUpset
     \/ UNCHANGED keys /\ Upset
  /\ UNCHANGED <<store, radioReady, native, sweep, pairing, seeding>>

\* handleBoxSyncPresets pushes every slot and asks for the native form whatever the slot holds.
SyncPresets ==
  /\ Edit /\ editor' = [IdleEditor EXCEPT !.pc = "sync", !.todo = Stored(store), !.what = IF Ready THEN "native" ELSE "upnp"]
  /\ UNCHANGED <<store, keys, radioReady, native, sweep, pairing, seeding>>
SyncBox ==
  /\ editor.pc = "sync"
  /\ \/ \E s \in First(editor.todo) : Write(s, editor.what) /\ editor' = [editor EXCEPT !.todo = @ \ {s}]
     \/ editor.todo = {} /\ editor' = IdleEditor /\ UNCHANGED keys /\ NoUpset
  /\ UNCHANGED <<store, radioReady, native, sweep, pairing, seeding>>

-----------------------------------------------------------------------------
(***************************************************************************)
(* Start: the recovery of a lost store, and the pairing behind it.         *)
(***************************************************************************)
\* The first read lets the pairing go on, whatever it read; later ones are retries.
SeedRead ==
  /\ seeding.pc \in {"first", "again"}
  /\ \/ seeding' = [pc |-> "recover", list |-> {s \in KeySlotNumbers : keys[s] \in Own}] /\ NoUpset
     \/ seeding' = [seeding EXCEPT !.pc = "again"] /\ Upset
  /\ UNCHANGED <<store, keys, radioReady, native, sweep, editor, pairing>>
\* Only an empty store is filled; the history is assumed to know every station.
SeedRecover ==
  /\ seeding.pc = "recover" /\ seeding' = [seeding EXCEPT !.pc = "over"]
  /\ \E c \in Radios : store' = IF Stored(store) # {} THEN store
                                ELSE [s \in KeySlotNumbers |-> IF s \in seeding.list THEN c ELSE "none"]
  /\ UNCHANGED <<keys, radioReady, native, sweep, editor, pairing, bootKeys, upsets>>

MayPair_AtOnce == TRUE
MayPair == seeding.pc # "first"
\* A cycle reads the state of the account and records it; a change from unpaired to paired asks
\* for a sync of the keys; the first cycle, and one that found no account, sends the account if the
\* speaker's clock is right.
PairCheck ==
  /\ pairing.pc \in {"first", "idle"} /\ MayPair
  /\ \E clockSane \in BOOLEAN : pairing' = [pairing EXCEPT
       !.pc = IF clockSane /\ (pairing.pc = "first" \/ ~pairing.account) THEN "post" ELSE "idle",
       !.last = IF pairing.account THEN "yes" ELSE "no",
       !.resync = @ \/ (pairing.account /\ pairing.last = "no")]
  /\ UNCHANGED <<store, keys, radioReady, native, sweep, editor, seeding, bootKeys, upsets>>
\* The speaker onboards itself anew, which wipes the presets of its keys, or the call fails.
PairPost ==
  /\ pairing.pc = "post"
  /\ \/ /\ pairing' = [pairing EXCEPT !.pc = "idle", !.account = TRUE] /\ NoUpset
        /\ keys' \in {keys, NoSpecs}
     \/ pairing' = [pairing EXCEPT !.pc = "idle"] /\ UNCHANGED keys /\ Upset
  /\ UNCHANGED <<store, radioReady, native, sweep, editor, seeding>>

LoseAccount ==
  /\ pairing.account /\ Upset /\ pairing' = [pairing EXCEPT !.account = FALSE]
  /\ UNCHANGED <<store, keys, radioReady, native, sweep, editor, seeding>>
RadioSourceChanges ==
  /\ Upset /\ radioReady' = ~radioReady /\ \E old \in {FALSE, ~native.stale} : native' = [native EXCEPT !.stale = old]
  /\ UNCHANGED <<store, keys, sweep, editor, pairing, seeding>>
Sweeping == SweepStart \/ SweepList \/ SweepWrite \/ SweepVerify \/ SweepRewrite \/ SweepRestore \/ SweepPrune
Editing == SaveDedup \/ SaveSet \/ SaveBox \/ DeleteBox \/ SyncBox
Pairing == PairCheck \/ PairPost
Seeding == SeedRead \/ SeedRecover

KeyNext ==
  \/ Sweeping \/ Editing \/ Pairing \/ Seeding
  \/ \E s \in KeySlotNumbers : DeletePreset(s) \/ \E c \in Radios \cup Playlists : Save(s, c)
  \/ SyncPresets \/ ForgetVerdict \/ NativeDropped \/ LoseAccount \/ RadioSourceChanges

-----------------------------------------------------------------------------
KeySlotsTypeOK ==
  /\ \A s \in KeySlotNumbers : keys[s] \in Own \cup {"none"} /\ store[s] \in Radios \cup Playlists \cup {"none"}
  /\ native.failures \in 0..NativeFailureBudget /\ native.drops \in 0..NativeDropBudget
  /\ (native.failures = NativeFailureBudget => native.latched) /\ sweep.todo \cap sweep.ghosts = {}

\* In the end every stored preset has a key, a playlist never a native one, and no key of this
\* agent is left without a preset: lost writes, wipes and edits in the middle of a sweep are made
\* good, and a speaker that never keeps a native item is not tried for ever (nativepresets.go:57-76).
KeysSettle ==
  <>[](\A s \in KeySlotNumbers :
         /\ store[s] \in Radios => keys[s] # "none"
         /\ store[s] \in Playlists => keys[s] \notin {"none", "native"}
         /\ store[s] = "none" /\ Stored(store) # {} => keys[s] \notin Own)

\* "Reading first, then pairing, closes the race" (reconcile.go:667): a store that was lost
\* comes back with every key the speaker listed when the agent started, if the first read worked.
LostStoreReturns ==
  seeding.pc = "over" => bootKeys \subseteq Stored(store)

\* What holds of the store and the keys.
KeySlotsInv == KeySlotsTypeOK /\ LostStoreReturns

\* "isSpotify slots are never native" (options.go:60): the sync of all presets does not ask.
SpotifyNeverNative == \A s \in KeySlotNumbers : store[s] \in Playlists /\ editor.pc = "idle" /\ sweep.pc = "idle" => keys[s] # "native"
=============================================================================
