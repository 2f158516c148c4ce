# Verification of the STR agent

STR keeps Bose SoundTouch speakers alive without the vendor's cloud. An agent (Go,
`src/cmd/agent` and `src/internal`) runs on the speaker itself next to the firmware.
It answers the firmware's calls to the cloud, listens to its events over a WebSocket,
plays presets through the speaker's UPnP transport, and serves an HTTP interface to a
desktop app (`src/desktop-app`) that finds speakers, installs the agent and updates it.

This directory holds TLA+ models of the agent's own decisions, TLC configurations that
check them on small instances, and TLAPS proofs of the most important results for every
instance. `PROJECT.json` says which lines of the source each definition stands for.

To check one configuration: `tlc -config HardwareKeys.cfg MCHardwareKeys`. To check the
proofs of one module: `tlapm HardwareKeys_proofs.tla`.

## 1. The system

### 1.1 How the parts interact

                    events (WebSocket)          pushes, reads, writes
    firmware  -->  boxws  -->  event handlers  -->  UPnP, :8090, CLI  -->  firmware
                                   |    ^
        app, HTTP  -->  webui  <---+    +--- loops: key re-sync, pairing, watchers
                          |
                          +--> stores (presets, last play, zones, recents) --> NAND

* Everything the agent does runs in goroutines. A key press starts one and its verify
  loop; an HTTP request is one; the read loop of `boxws` starts one for most events and
  runs some handlers itself; there are a dozen permanent loops.
* `Server.boxCmdMu` (webui) serialises the commands of the HTTP interface and of the
  automatic resumes to the transport. The hardware keys (`wshandler.go`) do **not** take
  it. `lastPlayMu` guards the last play, its generation and the count of resume attempts;
  `standbyStopMu` the time stamps of the user's stops; `queueMu` the queue. No lock
  spans two of these parts of the state.
* Calls to the speaker take from milliseconds to ten seconds, may fail or time out, and
  may be carried out after the caller has given up. The speaker does other things
  meanwhile: the user presses keys, the firmware drops streams, sleeps, or crashes.
* The speaker loses power without warning, a reboot restarts the agent, and the clock
  has no battery.

### 1.2 Components

For each: the state it keeps, what it does, what is hard about it, and what makes it
correct. The modules in brackets model it; those without brackets are not modelled.

**Arbitration of the transport** [`HardwareRecall`, `PushBudget`] - `wshandler.go`,
`recall.go`, `webui/playback.go`, `recall_verify.go`, parts of `resume_standby.go`.
State: `pressSeq`, `recallGen`, the last play, stamps of the user's plays and stops, the
last rejected source. Operations: a press of a preset key (native, radio or Spotify), its
verify loop (probe, wake, toggle, push again), the repair of a rejected source, plays of
the app with their retries, the clear of the transport after a power-off. Hard: two
families of goroutines push to the same transport without a common lock, and each reads
the speaker for seconds before it pushes. Correct when a play that has been overruled
stops pushing, when no two loops fight, and when every play ends.

**Crash-loop guard** [`ResumeGuard`] - `webui/resume_guard.go` and its callers. State:
the count of attempts and the time of the last, in memory and in `last-play.json`; timers
that clear the count after stable playback. Hard: the stream to resume may crash the
speaker; plays and timers write the same file; durations are measured across reboots.
Correct when a crash loop ends and the guard lets go again.

**Durable file write** [`AtomicFile`, `DurableCell`] - `internal/atomicfile`. State: the
file, its temporary sibling, the directory, in the page cache and on the flash. Correct
when neither a reader nor a loss of power finds an empty or torn file.

**Preset store** [`PresetStore`] - `internal/presets`. State: the presets in memory, the
file and its backup. Hard: a save holds the read lock only. Correct when a change that
was acknowledged comes back after any loss of power, and the presets are never lost.

**Healing of the hardware keys** [`KeyResync`] - `cmd/agent/reconcile.go`, `boxprobe.go`,
`boxcli.SyncAllPresets`. State: one pending ask, the budgets of two kinds of asks, the
permission to write in standby, what the last passes achieved. Hard: asks come from many
goroutines, the source of the speaker is read before it is written, and a write at the
wrong time keeps a sleeping speaker awake or switches a source of the user's. Correct
when keys come back, sleeping speakers sleep, and no ask is silenced by a dropped one.

**Event handlers** [in `HardwareRecall`, `KeyResync` and `AutoResume`] - `wshandler.go`. What they do to
the transport and the keys is modelled; webhooks, zones and logging are not.

**WebSocket client** [`BoxEvents`] - `internal/boxws`. Keeps the last source, the time of
STR's own commands and of the last events, and decides from windows of 0.75 to 4 s
whether a stop came from the user, tears a source down or echoes a command; tells a thumb
from other keys by a settle of 500 ms; reconnects with a growing delay. Hard: frames of a user,
of the firmware and of a command look alike. Correct when no tear-down stands the recoveries
down, a power-off is heard, and a thumb is one.

**Automatic resumes and re-pushes** [`AutoResume`; the guard in `ResumeGuard`] -
`resume_standby.go`. State: the stamps of stops and plays, the last play with its count of
re-pushes, the latch of the re-push, the deferred resume. Six paths push without the user.
Hard: each captures the stream, waits for seconds or for `boxCmdMu`, and then pushes what
it captured. Correct when none overrides a newer play, a stop or a power-off, and none
keeps its latch or the mutex. `HandleEnterStandby`'s decision between a power-off and a
stream the firmware dropped is left open there.

**Play queue** [`QueueOrder`, `QueueLaps`, `PlayQueue`] - `queue.go`, `queueplay.go`,
`position.go`. A list with an index and a generation, a watcher that polls the transport and
advances, skips by the user. Hard: the watcher decides on a poll of seconds ago, and nothing
tells it of the end of a track. Correct when each track is played once, none is cut short, and
a track chosen meanwhile is kept.

**Sleep timer** [`SleepTimer`] - `sleeptimer.go`. A generation, a deadline, a timer. Hard:
cancelling while the callback is under way; the members of a group.

**Pairing** [in `KeySlots`] - `internal/autopair`. Cycles that read the paired state and POST a
pairing, which may wipe the keys; a new pairing asks for the keys to be healed.

**Recently played** [`RecentStore`] - `internal/recent`. A ring in memory and a
debounced flush through `atomicfile`, without a lock around the write.

**Stream proxy** - `internal/streamproxy`. Serves streams to the
speaker, keeps which slots are being fetched; recalls are verified by that record. The
copying, HLS, ICY and MPEG parts are data paths. Not modelled.

**Zones, stereo pairs, mirrors** [`GroupZones`] - `zones_stereo.go`, `zonemirror.go`,
`zonevolume.go`, `internal/zones`. Forms and dissolves groups with one request per
speaker, each of which may fail, while people use the speakers and a round repairs the group.

**Peers** - `cmd/agent/peers.go`. Adopts, expires and persists the other speakers of the
house. Not modelled.

**Native presets latch** [in `KeySlots`] - `nativepresets.go`, `nativeprobe.go`. Presets can
be registered in a native form; lost writes and dropped streams set a latch that falls back to
the UPnP form for good.

**Spotify receiver** [`SpotifyStream`] - `internal/spotify`. Supervises an external engine and
serves its stream. State: the sink, the pump's batch and its latch, windows of recalls, skips
and re-points. Hard: pump, handlers, recalls and switches pause and resume the engine, and take
the sink, without waiting for each other. Correct when an attached speaker gets audio, and one
sent elsewhere is left alone. In `HardwareRecall` a Spotify press is a push and a verify loop
of its own.

**Cloud stub** - `internal/marge`, `internal/bmx`. Fixed documents for the firmware's
requests; next to no state. Not modelled.

**Clock and names at boot** [the clock in `ResumeGuard`, the hosts file in `AgentBoot`] - `clocksync`, `dnsboot`, `hosts`.

**Start-up, bootstrap, system monitor** [`AgentBoot`] - `cmd/agent/main.go`, `usb-stick/run.sh`. The
boot script, two watchdogs, the agent's start and orderly end with its redirect. Hard: both
watchdogs wait between a look and a launch. Correct when one agent serves, and keeps doing so.
The rest of `main.go` is wiring.

**HTTP interface** - the handlers of `internal/webui` that translate one request. Those
with state of their own have components above; the uploads of the agent and of the Spotify
engine are [`AgentUpdate`].

**Clients of the speaker** [in `HardwareRecall` and `KeyResync`] - `boxapi`, `upnp`,
`boxcli`. Single requests; SetURI with Play, the wake that can be aborted and
`SyncAllPresets` are actions of the modules that call them.

**Webhooks, media servers, helpers** - small stores that write through `atomicfile`,
certificates, probes. Not modelled beyond `AtomicFile`.

**Desktop app: updates** [`FleetUpdate`] - `ota.go`, `updateintent.go`, `otajournal.go`,
`boxbusy.go`. One write at a time per speaker, intents that outlive the app, a journal. Hard: the
reply of an upload is lost to its reboot, the window closes. Correct when nothing begun is
forgotten and what the user is told is so.

**Desktop app: installation and removal** [`Installer`] - `install_str.go`, `uninstall_str.go`,
`telnet_*.go`, `usb-stick/install.sh`. Flows of minutes over SSH with reboots. Hard: every step
can be the last. Correct when nothing half done passes for done.

**Desktop app: list of speakers** [`Discovery`] - `app_discovery.go`. Three memories of a speaker.
Correct when none shows what is no longer so, and no speaker is lost.

**Desktop app: interface; preparation of sticks; developer tools** -
requests and views, file operations of one process. Not modelled.

## 2. Plan

| order | module | state machine | builds on | status |
|---|---|---|---|---|
| 1 | `HardwareRecall` | who owns the transport | implements `PushBudget` | done, proved |
| 2 | `ResumeGuard` | counting of automatic resumes | | done, proved |
| 3 | `AtomicFile` | one durable file | implements `DurableCell` | done, proved |
| 4 | `PresetStore` | memory, file and backup | two instances of `AtomicFile` | done, proved |
| 5 | `KeyResync` | asks, budgets and the healing loop | | done, proved |
| 6 | `AutoResume` | resumes, deferred resume, re-push, display | the guard of `ResumeGuard`, left open | done, proved |
| 7 | `RecentStore` | debounced flushes | | done, proved |
| 8 | `SleepTimer` | arm, cancel, fire | | done, proved |
| 9 | `QueueOrder`, `QueueLaps`, `PlayQueue` | order, watcher, skips | | done, proved |
| 10 | `KeySlots` | keys against the store, with pairing and the native latch | | done, proved |
| 11 | `BoxEvents` | windows of `boxws` | | done, proved |
| 12 | `GroupZones` | groups over several speakers | | done, proved |
| 13 | `AgentUpdate`, `AgentBoot` | the binary on the speaker, its boots | | done, proved |
| 14 | `FleetUpdate`, `Discovery`, `Installer` | the desktop app | | done, proved |
| 15 | `SpotifyStream` | the engine's stream | | done, proved |
| 16 | `SlotFetch`, `PeerRegistry`, `StereoPair` | open fetches as evidence, peers, pairs | | not done |

What is proved of each is in section 6. Each component is written so that it can be proved
about: parameters are constants with assumptions, an operation is an action, and no module
declares a recursive operator.

## 3. The modules

Names follow the code. A read and the early return it guards are one step; every call to
the speaker, every write of a shared record and every wait for a lock is a step of its
own, so that any other goroutine may come between. A definition whose name has a suffix
(`SetLastPlay_NoBump`, `Rename_RemovesFirst`) is a plausible mistake in the operation it
stands next to. No specification uses it: each one shows that a property of the runs
notices that mistake.

### 3.1 HardwareRecall, PushBudget

`Press` and `App` are the key presses and the plays of the app, each one goroutine whose
place is `pc[x]`. The variables are the fields of the same names of
`presetWsHandler` (`pressSeq`, `lastUserStop`, `lastSourceReject`) and of `Server`
(`recallGen`, `lastPlay`, `lastUserPlayStart`, `lastUserStop`, `lastStandbyStop`,
`boxCmdMu`), and of the speaker only what the goroutines ask about: whether it is in
standby, and which play its transport holds. Time is the number of stamped events, since
the code only asks whether one stamp is after another.

| actions | code |
|---|---|
| `OnPresetSelected`, `Recall*` | `OnPresetSelected`, `recallPreset`: the press, the check of `pressSeq`, the record, the push, the first wake |
| `Reject*` | `rePushAfterSourceReject` |
| `VerifyTick`, `Nudge*`, `Verify*`, `Spotify*` | `verifyPlayURL`, `verifySpotifyPlaying` |
| `App*` | `handlePlaySlot`, `handlePlay` and `verifyRecall` under `boxCmdMu` |
| `OnUserStop`, `OnPowerOff`, `Clear*`, `OnSourceRejected` | the events and the clear of the transport after a power-off |

Whether the speaker has reached audio is up to the speaker, so a tick of a verify loop may
find either answer. A failed push may or may not have reached the speaker.

`late[x]` counts the pushes of a play that had been overruled (by a newer press, a newer
recorded play or a stop key) when it pushed. `LatePushAtMostOnce` is what the arbitration
is for: every loop checks its gates and then makes a call of seconds, so one late push
cannot be avoided without a lock, and a second would mean a gate is missing.
`ImplementsPushBudget` states the same as a refinement: being overruled is for good, and
each overruled play has one push. A power-off is not part of `Overruled`, for the code does
not keep it: see `PowerOffStandsRecallDown` below.

| run | instance | shows |
|---|---|---|
| `keys` | 2 presses, 2 attempts each, one stop, power-off or rejection | at most one late push |
| `recall_apps` | 1 press, 2 app plays, 2 attempts of the app and of Spotify, fair | one owner; the record is the newest play; refinement of `PushBudget`; every play ends, `boxCmdMu` is released; app retries are overtaken by presses only |

Bounds: attempts are 1 or 2 where the code has 3 or 5. The body of a loop is the same in
each round but for the round that may toggle the power, which `NudgeTry` places within the
bound, so a second round shows all that a fifth can. Two goroutines are enough for each
pairwise race; the theorems cover any number.

### 3.2 ResumeGuard

`Path` are the goroutines of the automatic resumes that can be in flight
(`ResumeLastPlay`, `handleSpontaneousSourceOff`, `RunDeferredResume`). Each asks the guard,
settles, takes `boxCmdMu`, counts (`NoteAttempt`), writes NAND (`PersistAttempt`) and
pushes. `writes` are the records that a play or a timer has prepared under `lastPlayMu` and
not yet written; they land in any order. `timers` are the armed stability timers. A
`Restart` may happen at any step, loses everything but `nand`, and starts a resume. A stamp
keeps the process that took it, its monotonic time and its wall time: `time.Since` uses
the first within a process and the last across processes. `SyncClock` sets a clock that
a reboot has lost. `WriteNand` may leave the file as it was when `NandMayFail`.

One tick is `autoResumeStableAfter` (10 minutes), or a fraction of it; the seconds a path
takes fit into one tick, so paths run without time passing, and `Window` (30 minutes in the code)
is three ticks. `MaxTime`, `MaxBoots`, `MaxPlays` bound the time, restarts and plays of a run.

| run | shows |
|---|---|
| `guard`, instance `crash` | with one path in flight, a NAND that takes its writes and a clock that is right, a crash loop ends one push after the limit; no timer of an old attempt clears a newer count; under fairness a tripped guard is open again a window later, across restarts |
| `guard`, instance `paths` | two paths, a clock that is lost and writes that fail: the count exceeds the limit by at most the number of other paths in flight |

The limit is the code's 3; 2 keeps the instances small, and the theorem covers every limit.
`MCResumeGuard` runs both instances side by side. `GuardHeals` is `HealsItself` in the instance
`crash`, with the bound on time in its premise. `troubled` records whether a write has failed, two
paths have been in flight at once or a reboot has lost the time of day; in `crash` nothing does.
A NAND that refuses every write defeats the guard across restarts, as a count that is
kept nowhere cannot survive: `CrashLoopEnds` assumes that writes succeed, and the bound
of the instance `paths` is on the count, not on the pushes.

### 3.3 AtomicFile, DurableCell

`WriteFile` step by step: `Open` (create or truncate the temporary file), `Write`, `Sync`,
`Rename`, `SyncDir`, and `Remove` when one fails; each may fail. `cache[i]` is what the page
cache has of an inode and `disk[i]` what the flash has; `WriteBack` may copy one to the
other at any time; `crashDirs` are the directories that may be found after a loss of
power, any subset of the unsynced changes being lost. A file that is not synced may come
back old, new, empty or torn. `Serialized` says whether callers exclude each other: most
stores do, `last-play.json` and the recents do not.

| run | shows |
|---|---|
| `stores`, part `file` | serialised callers: after the return only the newest value comes back, and to readers and over losses of power the file is a `DurableCell` |

Two callers and four writes: the temporary file is shared by name, so an overlap takes two
callers, and a further write shows what a failed one leaves behind. What overlapping
callers can rely on is checked on the store of presets: whatever they spoil, the next write that
nobody overlaps lands whole (`LoneSaveLands`).

### 3.4 PresetStore

Two instances of `AtomicFile` that do not serialise, for `presets.json` and its backup, under
the operations of `presets.Store`: `Change` (the memory, under the write lock, which waits
for no save to hold the read lock), `Save` (the primary, then the backup unless the set
is empty), and after `PowerLoss` the `Load` with its recovery from the backup, which
writes the primary again (`Restore`). `promised` is what has been acknowledged, and
`joins` the saves begun beside another since the last that had both files to itself (2 for more
than one): such a save leaves both files as it wants them, whatever was there before.

| run | shows |
|---|---|
| `stores`, part `presets` | three savers, three changes, three writes of each file: unless the user removed them all, some presets come back as long as at most one save has joined another (`joins <= 1`), and a save nobody overlaps lands; as long as none has, exactly what was acknowledged comes back, the removal of the last preset too |

A preset is a member of `Slot`; its name, URL and art are left out, and one slot is
enough to tell a set from the empty one, which is what the recovery looks at.
That two saves overlap, a lone one heals both files and two overlap again takes more saves than
these bounds allow; `Stores_proofs` covers it.

### 3.5 KeyResync

`Asker` are goroutines that handle events: a wake (`OnStandbyExit`), a preset event or a new
pairing, a reconnect, a thumb frame while the speaker sleeps. Each leads to a routine or an
urgent request with its budget (`Refuse`, `Stamp`, `Arm`). The loop is
`periodicPresetReconcile` from the top of a round: take an ask up (`Gate`, `Consume`, `Swap`),
see whether it may write in standby (`Evidence`), probe the source (`Probe`), defer or
proceed, the insurance of every 20 minutes (`Insure`), list `/presets`, write slot by slot
(`AddPreset`), finish (`Done`), and sleep until a tick or an ask (`Poll`, `Slept`). Stamps are
ages against the one window they are compared with: never, recent, old; `TimePasses` makes
them old. The speaker falls asleep, wakes, changes its source and forgets keys at will.

| run | instance | shows |
|---|---|---|
| `keys` | 2 askers, 2 events, 1 failure | at most one pass writes into one standby, at boot and for a user excepted; a routine budget that is spent stands for a heal pending or decided on |
| `keys_live` | 2 standbys, 2 slots, a lost list, 1 failure, fair | a speaker that stays on STR's source gets its keys back; while no call fails the loop always returns to its sleep |

`RoutineStampBacked` leaves out the step `pc = "swap"`, the few instructions between the
clear of the stamp and that of the ask. Not in the module: `initialBoxPresetSync`, a single
sync at boot by another goroutine; the choice between the native and the UPnP form and the
migration between them; the prune of slots that the store no longer has (the store here is
fixed and not empty).

### 3.6 AutoResume

`Path` are the goroutines of the automatic paths, `kind[r]` which one it is and `pc[r]` where
it is; `captured[r]` is the play it read from `lastPlay` and will push.

| `kind` | code | from its event to its push |
|---|---|---|
| `wake` | `ResumeLastPlay` | settle, power-off?, zone, stop?, look at the power, wake, busy?, lock, newer play?, push |
| `reconnect` | `RecoverAfterReconnect` | stops?, settle, zone, look at the source, lock, newer play?, push |
| `drop` | `handleSpontaneousSourceOff` | gap?, settle, stops?, zone, look: push under the lock unless a newer play, or arm the deferred resume |
| `deferred` | `RunDeferredResume` | take the deferred resume, stops?, zone, newer play?, lock, push |
| `rePush` | `HandleStreamDisconnect`, `maybeRePush` | latch, backoff, stops?, the window of a recall waited out, look, count, lock, busy?, push |
| `display` | `HandleStreamTitle`, `setDisplayText` | capture, lock, SetURI |

`userStop`, `standbyStop`, `userPlay` and `spontResume` are the stamps of `Server` as ages, in
ticks of two seconds up to the window they are compared with. A sleep ends on time; a
read of the speaker and a wait for the mutex take any time, and a read that fails ends or
defers the path as in the code. `frames` are the frames of a standby exit that no handler
has seen; `IgnoreFrame` is a handler that stands down at once, for the guard, the opt-out
or an age. `AppStart` to `AppRecord` are the plays of the app under `boxCmdMu`,
`OnPresetSelected` to `PressPush` a press, without it; their retries are in `HardwareRecall`.
`OnPowerOff(recognised)` leaves open whether `HandleEnterStandby` takes the standby for the
user's. The clear of the transport that follows is in `HardwareRecall`.

`AppPlaysKept` compares the order in which plays were recorded (`recorded`) with what the
transport holds when a path pushes over it. It is about the plays of the app only: a press
pushes without the mutex, and a resume between its record and its push is repaired by its
verify loop. `pend[r]` remembers a stop that path `r` is bound to hear of; `StopsAreHeard` says
that it never gets past its sleep with one. `late` are the paths that had looked at the power
when the speaker went off: `SleepersLeftAlone` says that only those switch it on again.

| run | instance | shows |
|---|---|---|
| `resume_pairs` | 2 paths of any kind, 1 play of the app, 1 event | one re-pusher, and the latch exactly while it is there; plays of the app are kept; sleeping speakers are left alone |
| `resume_stops` | 1 path, 1 press, 2 events, fair | stops within the windows are heard; every path ends |

Two paths show every race between two of them, over the mutex, the latch and the deferred
resume; a path's question for stops involves no second path. The window of stops
keeps its three ticks, which is what settles and backoffs are measured against; the windows
of a recall and of the gap between recoveries are shortened, as one is waited out whole and the
other only delays. `MaxRePushes` is 1: the cap is reached, and the longer backoffs
that come with more re-pushes are those that overrun the window (section 4).

### 3.7 QueueOrder, QueueLaps, PlayQueue

`QueueOrder` translates the methods of `playQueue` as operators on a record of its fields: the
order, the position in it (here from 1, 0 for -1), shuffle, repeat. A shuffle is any order that
keeps the current track in front, and `StepForward` reshuffles a wrapped lap by the rotation
of the code. `QueueLaps` runs the methods in any sequence, with the set of tracks played since
the lap began. `PlayQueue` is the queue in the server: `Start*`, `Skip*`, `SinglePlay`,
`UserStop*`, `HandleEnterStandby` and `KeyPush` with `NoteLastPlay` are the handlers, split
where they wait for `boxCmdMu` or push, and `Watcher*`, `Advance*` are `runQueueWatcher` from
its tick to the advance. `deck` is the speaker: what it plays, how far it is, and whether it was
held up; `queueFacts` says whether a length or a position is ever reported, which decides
what the two safety nets can rely on. `stopQueue` clears the list and cancels the watcher in two
steps, as nothing excludes the watcher in between.

Ticks are the polls of the watcher. A track of three ticks, a margin of one and an end of one
keep the order of the code's lengths; two tracks, two commands and two pushes are enough
for a start, an advance, and a command against either.

### 3.8 SleepTimer

One action per step of `armSleep`, `cancelSleep` and `fireSleep`; `callbacks[g]` is the
`AfterFunc` of generation g, which `time.Timer.Stop` no longer reaches once it is `due`. A
request to go to standby may fail, and wakes a speaker that sleeps, as the firmware does.

| run | instance | shows |
|---|---|---|
| `playing` | `PlayQueue`, `QueueLaps` of up to three tracks, `SleepTimer` with three generations and two members, `SpotifyStream` | `PlayingInv`: one live watcher, a lap plays each track, what is reported of the timer is what will happen, `StreamInv`; `NewTrackKept`, `NoTrackCutShort`, and, fair, `MovesOn` |

`MCPlaying` runs four machines that share nothing, and its variable `part` says which one a
behaviour belongs to, so that one run explores the sum of their states and not the
product. `MCStores`, `MCSpeaker` and `MCResumeGuard` do the same.

### 3.9 RecentStore

`Add` folds a play into the newest row of its card or appends one and caps the ring, `Delete`
removes a card's run and flushes at once, `TimerFires`, `FlushMarshal` and `FlushWrite` are the
debounced flush: the text is made under the mutex and written without it, so the flush of the
timer and that of a handler overlap. `RecentReboot` starts again from the file.
`RecentInv` says that neighbouring rows are different plays, that a dirty ring has a flush
coming or a failed write behind it, and that flushes which did not overlap leave the ring as
it is on NAND. It is the part of `StoresInv` that `stores` checks for `part = "recent"`.

### 3.10 AgentUpdate

An upload is named by the binary it carries. `Upload` to `RenameTemp` are the write that agent
and engine share: reclaim, open with truncation, write, rename; `AfterFailure` is what the
handler makes of an error (one remount of a volume that turned read-only, the swap through
RAM when two copies do not fit). `Verify` reads the flash back before the reboot, since the
flash may keep what it had. `Stage`, `Exit` and `Helper*` are the last resort: the agent stages
the binary in RAM and exits, and a detached shell copies it over the live one, checks,
copies again, and reboots or reports `ota-swap-failed`. `Booted` is the boot script, which
installs the agent of an inserted stick. Each step may be followed by a power cut or by the
volume turning read-only.

`MayOverlap` says whether two uploads may be under way. The run `speaker` excludes it, for
with it `PartialNeverLive` fails: that is the run `update_overlap` (section 4).

### 3.11 KeySlots

What the keys hold against what the store holds. `Sweep*` is `reconcileOnce`: it reads the
store and the keys once and writes slot by slot after that, verifies native writes, puts lost
ones back on the UPnP form and prunes keys without a preset. `Save*`, `Delete*` and `Sync*` are
the handlers of the app in the middle of it. `native` is the latch of `nativepresets.go`
with the counts that set it and the cached verdict; `PairCheck` and `PairPost` the pairing,
which may wipe the keys; `SeedRead` and `SeedRecover` the restoration of a lost store.
Items of other sources are left out; the count of failures stops at its budget; the recovery
of all slots is one step, and the history is assumed to know every station.

### 3.12 BoxEvents

`HandleMessage` is `handleMessage` for one frame: the source it reads first, in every kind of
frame, then the stamps, the calls. A stamp in `fresh` is one whose window is open, and
windows end at any time while no frame is under way; `Bursts` are what the speaker sends for a
key, a drop or a power-off, as the comments and tests of `boxws` quote them. `by` names who was
behind a frame, which the code cannot see and the properties ask about. Frames of zones,
groups, the connection, errors and lists of sources are not in it.

| run | instance | shows |
|---|---|---|
| `speaker` | two uploads of the agent, one of the engine, one fault; two slots, one station, one playlist, one upset; three bursts; three agents, three looks, one heal, one accident | `SpeakerInv`, that is `UpdateInv`: no partial binary is live, the hash beside the engine is the engine's; `KeySlotsInv`: a lost store comes back; `BoxInv`: no tear-down is a stop of the user, a thumb is a lone key; `BootInv` (`AgentBoot`): one agent, and its redirect stands. `RebootsIntoUpdate`; `PowerOffSeen`; fair, `SpeakerSettles`, that is `SwapEnds`, `KeysSettle` and `AgentServes` |

Three bursts show every pair of windows that one frame may fall into and a frame after them.
One upset is a lost write, a lost account or an edit, each of which is made good alone.

### 3.13 GroupZones

The master's agent against the speakers of its group. `Form*` is `handleZoneForm` over the
firmware or as a mirror, `Resume*` the stream it brings back, `KickFires` and `Round*` the round
that keeps a mirror playing, `Undo*` the dissolve. What a speaker plays is `[src, n, on]`; a call
to another speaker is a step, may fail, and people act between any two (`UserPlays`,
`MemberActs`). `firm` is what the master's firmware has registered and `joined` what each
follower's own firmware says: they differ. One order is under way at a time; the native
reconcile that a user may opt into, volumes and stereo pairs are not in it.

| run | instance | shows |
|---|---|---|
| `zones` | two followers, two plays, two orders, two acts, fair | `GroupInv`: who is reported as joined did join, who was dropped stays out; `RoundLeavesOthers`; `ResumeIsNewest`; `MirrorComesBack` |

Two orders are a form and a dissolve or two forms against each other; two followers show one
that answers and one that does not.

### 3.14 SpotifyStream

The stream of the Spotify engine. `Header` to `Ended` are `ServeOgg`, split where it writes to the
speaker, takes `m.mu`, waits for a recall to announce itself and resumes the engine; `ReadsPage`,
`Writes`, `PumpPauses` and `Boundary` the pump of `runOnce`, which reads a page, then the sink, then
writes, and pauses the engine when it found no sink; `Recall`, `LoadsContext`, `Resumes` the recall,
`SwitchedAway` and `Leaves` the switch to another source with the push after it, `Hears` and
`Points` the re-point of the speaker on an event of the engine. `windows` are the durations the code
keeps (recalling, hot, the suppression of re-points, the cut of a skip): they end at any moment.
`why` and `excused` are history: who silenced the engine, and which of the races of section 4 has
happened. Calls to the engine succeed, but for the load of a context.

| invariant | says |
|---|---|
| `NewestIsSink` | the newest consumer that is connected is the sink, and no older one is left open |
| `NoSilence` | at rest, a speaker that is attached gets audio, unless the listener paused, the recall failed, or a pause decided for a speaker not there landed on one that was |
| `StaysAway` | a speaker sent elsewhere stays there, but for a re-point or a resume under way before |
| `CutsOldOnly` | what a skip cuts is the track skipped, unless its end went by with no speaker attached |

They are `StreamInv`, part of `PlayingInv` in the run `playing`: two fetches at a time, three moves of
user and speaker (a recall, a switch, a fetch against it).

### 3.15 FleetUpdate

The app brings one speaker to a new agent and its engine. `flows[p]` is one press of a button:
`doBoxUpdate`, `updateAllBoxes` or an update of the engine alone, from its look at the flags
through the upload (`Stage`, `Preflight`, `Post`, over SSH when refused), the poll of the version
that decides, the passes of the engine, to what the user is told. `writer` is
`writesInFlight`, `intent` the record on disk, `otaRunning` the flag that makes the window ask; the
window may close and the app start again at any moment. `speaker` loses a reply to its own
reboot, forgets a write (`unsure`), runs out of space (`room`). More than one in `Presses` shows what fits
between a look at a flag and its setting (section 4); the run has one flow at a time, the theorem
of section 6 any number.

### 3.16 Discovery

The list of speakers. A scan gathers sightings, merges them into the memories of the app (`cache`
by address, `pins` of an update, `known` identities) and drops the second tile of a speaker that
moved; refreshes, probes of one address, an update and an uninstall write the same memories.
Sightings, the probe by which one of two addresses is chosen, and the end of each window are free.
`had` is history: which speakers have had an address. `Races = FALSE` keeps to one scan, refresh
or uninstall at a time, and to uninstalls of a speaker that nothing tells of at another address
(`Elsewhere`), for without that the statements of section 4 fail; `Reuse` lets an address go to
another speaker than the one that has had it.

### 3.17 AgentBoot

`run.sh` with the agent's start and end. The copy from the stick is read back from the page cache
(`flash.seen`) while the flash may hold something else (`flash.disk`); `BinChoices` is the choice of
the binary; `fast` and `slow` are the two watchdogs with their looks, waits and launches; `procs` the
agents, which bind their port, lose it to another, apply the redirect of `hosts` and take it
away when they end in order. `late` says that an agent was without its port after the grace, or
both watchdogs respawned at once: `OneAgent` and `RedirectHeld` are about the rest.

### 3.18 Installer

Install, repair and removal. `flow[f]` is a flow of the app, `script` what runs on the speaker with
its step, `nand` the files, `urls` the three places the cloud URLs are kept, each of which the
injection of the unlock and its reset reach or miss. A power cut, a stick moved and the app closed
come between any two steps; `Torn` is what a copy leaves behind then. `left` says that a restore
failed or never ran, `kept` what an installation told as done vouches for: files and URLs, or the
files alone once another unlock has injected its URLs.

| run | instance | shows |
|---|---|---|
| `app` | one flow at a time, two presses, one reboot and one launch over three sizes of speakers; one speaker at two addresses, one scan, two events; two presses of install, repair or remove, one trouble | `AppInv`: what was begun is on record, one writer, a removed speaker is forgotten, an installation told as done is whole and boots stock URLs, no end leaves the switch injected; `VerdictTrue`; `ListKept`; fair, `UpdateEnds` |
| `update_overlap` | two uploads of the agent, `MayOverlap` | must fail: `PartialNeverLive` |

A second press and a second launch are what finds the remains of a flow before; two addresses are what a
moved speaker has; one trouble falls between any two steps of two flows. `MCApp`, like the other
composed modules, moves one part at a time: TLC reports one disjunct for each part, and
that every action inside was taken was looked up in its detailed coverage.

## 4. Where the code and its comments disagree

One of these is kept as a run that TLC must find violated:

| run | property | what happens |
|---|---|---|
| `update_overlap` | `PartialNeverLive` | two uploads of the agent share the temporary file `dst.new`: one renames what the other has just truncated, and a partial binary is live |

The others are stated in the modules, with the comment they come from. Each
fails when it is put into the configuration named here in place of its properties:

| property | configuration | what happens |
|---|---|---|
| `PowerOffStandsRecallDown` | `HardwareKeys_apps`, one press, one app play, single attempts, one event | a play of the app erases the stamp of a power-off before it draws its own generation: an older key press resumes pushing |
| `NeverEmptyOrTorn` | `Stores`, `Serialized = FALSE` | overlapping callers share the temporary file: a reader finds it empty |
| `OlderNeverOverwritesNewerPress` | `HardwareKeys` | the check of the press and its record are two steps: an older press can record over a newer one |
| `FirstWakeIsNewestIntent` | `HardwareKeys` | the first wake after a push cannot be aborted: a power-off made meanwhile is undone |
| `LoopNeverFightsNewerPlay` | `HardwareKeys_apps` | a play of the app is recorded after its push: until then the loop of an older press pushes over it |
| `CountSurvivesCrash` | `ResumeGuard`, instance `crash` | the late write of a play lands over the count of an attempt, just before its push |
| `EveryResumeCounted` | `ResumeGuard`, instance `crash` | a deferred resume pushes without an attempt on the count |
| `StandsDownAtMax` | `ResumeGuard` | paths that asked the guard before it tripped make one attempt too many |
| `CrashLoopEnds` without its premise | `ResumeGuard`, instance `crash` with `ColdClock <- TRUE`, `MaxBoots <- 6` | a clock synchronised after the boot makes the last attempt look old, and the count starts again |
| `NandHoldsLastPlay` | `ResumeGuard`, `MaxPlays = 2` | two plays write NAND in the other order: an older station is resumed |
| `Presets!PromisedComesBack` without its premise | `Stores` | a save that returned nil is lost with the power, as another save had emptied its file |
| `Presets!NeverWiped` without its bound on `joins` | `Stores` | a second save joins another before one has had both files to itself: the primary and its backup can be empty together |
| `LoopNeverSpins` | `HardwareKeys_live` | a retry held in standby with an ask pending probes without rest |
| `StandbyExitHeals` | `HardwareKeys_live` | off and on again within two minutes of a sweep: the ask of the wake is refused |
| `UrgentReaskHeard` | `HardwareKeys` | an urgent request during the probe of one is refused, then that one is dropped |
| `EvidenceHasItsAsk` | `HardwareKeys` | the permission to write in standby outlives the ask it was given for |
| `ResyncOnlyWhenSafe` | `HardwareKeys` | an ask is carried out on a source of the user's |
| `StopHoldsHoweverLong` | `AutoResume_stops`, `App` and `Press` empty, `MaxRePushes = 4`, `MaxBackoff = 4` | from the fourth re-push on the backoff is longer than the window of a stop: a stop at its beginning is forgotten |
| `StopSurvivesReconnect` | `AutoResume_stops` | the recovery asks for stops before it settles: a stop meanwhile is overridden |
| `NewerPlayCancelsDeferred` | `AutoResume_stops` | the deferred resume looks for a newer play before it waits for the mutex |
| `RePushKeepsNewerPlay` | `AutoResume_stops` | a re-push that has waited for the mutex looks whether the speaker plays, not whether its capture is still the last play |
| `RePushOnlyIfAwake` | `AutoResume_stops` | that second look takes a speaker in standby, or one it cannot read, for one that may be pushed to |
| `SinglePlayKept` | `Playing` | a single play moves no generation of the queue: an advance that waited for the mutex stops it when its queue is over |
| `PauseFreezesTheClock` | `Playing` | the net of the clock goes on during a pause: the track is cut short when it resumes |
| `SleepNeverWakes` | `Playing` | the members of a group are not looked at: a request for standby wakes one that sleeps |
| `SpotifyNeverNative` | `Speaker`, `MaxUpsets = 2` | the sync of all presets asks for the native form whatever a slot holds |
| `DropsAreDrops` | `Speaker` | a key pressed while a native station plays counts as the station dropped |
| `PowerOffSeen` | `Speaker` with `"list"` in `BurstKinds` | the source of the first entry of a list of presets is taken for the speaker's: the power-off after it is not heard |
| `DissolveSilences` | `GroupZones` | a round under way pushes the stream to a member again after it was silenced |
| `StopOutranksGroup` | `GroupZones` | a round that has read a member pushes to it after its user stopped it |
| `HardLock`, `CloseAsks` | `App`, `Presses = {"p", "q"}` | two presses both find the app free between the look at its flag and the setting (`main.js:3525`, `3683`); the flag is one for both, so the first to end takes the question from the window (`updateintent.go:238`) |
| `PartialOnRecord` | `App`, two presses | a batch that finds the engine gone at its end has cleared the record (`main.js:4107`) |
| `RevertedReclassifies` | `App`, one address, one event, `ScansGoOn` as fairness | a speaker that lost STR by other means stays one with STR for as long as scans find it (`app_discovery.go:66`) |
| `Forgotten`, `ListKept` | `App`, `Races = TRUE`, for the second two scans | an uninstall during a scan is undone by its merge, and one of a speaker that is remembered at another address too leaves that trace; two scans drop both addresses of a speaker |
| `InstallInv` | `App`, `Overlap = TRUE`, no troubles | an installation and a removal side by side: nothing claims the speaker for either (`boxbusy.go:6`) |
| `FileRestored` | `App` | the reset of the URLs need not reach the file the SDK boots from, and no later flow mends it |

Three more are visible in the modules as what a property has to leave out:

* `AgentBoot!late`: the watchdogs look for the process, not its port, once the grace is over; two
  agents then run, the loser's orderly end takes the redirect of the winner, and `agent.pid`
  names the loser (`run.sh:4142`, `netutil/listener.go:6`).
* `SpotifyStream!excused` and `why = "crossed"`: the pump's pause, decided for a speaker not there,
  lands after one has attached (`engine.go:572`); the pause of a switch lands on a newer recall, and
  the resume of a recall after the pause of a switch, so that Spotify takes the speaker back
  (`recall.go:212`); a boundary that passes with no sink leaves the cut of a skip armed, which then
  drops the start of the next track (`ogg.go:250`).
* The pump pauses an engine without a speaker once: one that is resumed with no speaker attached
  afterwards plays to nothing (`engine.go:565` "no racing").

All are races or boundaries of seconds; the invariants of section 3 say how far each can go
(one push more, one attempt more, presets of before but never none, as long as at most one save has
joined another since the last that had both files to itself).

## 5. Fairness

`recall_apps`, `guard`, `keys_live`, `resume_stops`, `playing`, `zones`, `speaker` and `app` assume some. Each goroutine that
has begun goes on, as the Go scheduler guarantees: every call to the speaker carries a
timeout (context or client), every sleep and every loop is bounded, and `boxCmdMu` is
released on each path. Time passes. A write prepared for NAND is carried out. Nothing is
assumed of the speaker or of the user: no press, event or answer has to come. For
`boxCmdMu` the fairness in `recall_apps` is weak, per play of the app, which with two plays and
a mutex that is released once per play is enough. In `resume_stops` a path takes the mutex
under strong fairness: Go's mutex is handed to a waiter that has starved for a
millisecond. There a frame is also handled in the end, if only by being ignored. In `playing` a watcher whose
polls are answered again and again is served, and so are its pushes that succeed; in `zones` the
ticker of the rounds goes on and a member that answers again and again is reached. In
`speaker` a swap helper that was started runs on, and sweeps, pairing and handlers do, as do the
boot script, its watchdogs and the agents; that a call succeeds is nowhere assumed but where
upsets are used up. In `app` a flow that was pressed runs on as long as the window is open
(`Flow(p)`): its waits all carry a bound. `ScansGoOn` is assumed for `RevertedReclassifies` only.

## 6. Proofs

All theorems hold for every value of the constants under the named assumptions of the
modules (`ConstantsAssumption`, `GuardAssumption`, `FileAssumption`, `SlotAssumption`,
`BoundsAssumption`, `AutoAssumption`, `GroupZonesAssumption`, `FleetAssumption`,
`DiscoveryAssumption`, `InstallerAssumption`, `StoresAssumption`, `RecentAssumption`,
`QueueAssumption`, `LapTracksAssumption`, `SleepAssumption`, `StreamAssumption`,
`UpdateAssumption`, `KeySlotsAssumption`, `BoxEventsAssumption`, `BootAssumption`), so for any
number of presses, plays, paths, callers, uploads, tracks, speakers and addresses and for any
bound; what more a theorem supposes is in its statement. Each rests on an inductive invariant,
and the proofs have one step per action. Parts that share nothing and are checked in one run are
proved in one module: each has an invariant of its own, and a step of one stutters in the others.

* `HardwareKeys_proofs`, the presses of the keys: `TypeCorrect`, `LateOnce`, `AtMostOneOwner`,
  `RecordNewest`, `RetriesOvertakenByPresses`, `BudgetRefinement`. `IInv` says that generations and
  sequence numbers are drawn in order and by one play each (`SeqInv`, `GenInv`), that no
  stamp is in the future (`ClockInv`), that a play has been late only after it passed a
  gate and will pass none again (`LateInv`: this is what makes a second late push
  impossible), and that `boxCmdMu` is held where the code says (`LockInv`).
* `ResumeGuard_proofs`: `TypeCorrect`, `GuardBounded`, `StabilityForgets`, `CrashLoop`. `CountInv`
  counts the paths that have asked the guard and not yet counted (`Checked`): the count and they
  together stay within the bound. `RecordInv` carries that to the records on their way to NAND, and
  `TimerInv` says when the stable timer may be armed. `LoopInv` relates the clocks over restarts:
  as long as a loop lasts (`Loop`) every attempt on record is dated within the window (`Dated`), is
  counted (`CountHolds`), and was made in the loop (`OwnAttempt`), so the loop ends at the limit.
* `AtomicFile_proofs`: `FileNeverTorn`, `WriteReturnsSafe`, `RefinesDurableCell`, for
  serialised callers. The invariant says that one writer is at work, that all inodes the
  directory may name are whole and synced but the temporary one of the writer, and that
  this one is not yet reachable under the name of the file. For callers that may overlap,
  `LoneLands`: `Base` and `LoneInv` keep what a caller that no other overlaps has found, truncated
  and written itself. The lemmas after it say what two overlapping callers can still do to a file
  (`WithinStep`, `PairsStep`, `EscapesStep`, `HoldsStep`, `LandedStep`), for the store of presets.
* `HardwareKeys_proofs`, the healing of the keys: `ResyncTypeCorrect`, `StampBacked`, `OneNightWrite`.
  `RoutineStampBacked` is inductive with the types. `NightInv` says what a pass may still write given
  the flags of the loop (`PassInv`), and that once a pass has written into this standby nothing is
  left that would let another one through (`SpentInv`).

* `AutoResume_proofs`: `TypeCorrect`, `OneRePusherHolds`, `StopsHeard`, `AppPlaysStay`,
  `SleepersAreLeft`. The invariant has a part per hazard: the latch is up exactly while one goroutine
  re-pushes (`LatchInv`), the mutex is held where the code says (`MutexInv`), plays are numbered as
  they were recorded (`RecordInv`), a path that pushes has captured the newest play it was allowed to
  (`CaptureInv`, `KeepInv`), a stop it is bound for has been seen (`HeardInv`), and a box in standby
  is pushed to only by who looked before it went off (`SleepInv`). The twenty steps of a path are
  taken together: it ends (`Ends`) or goes on (`GoesOn`).
* `Playing_proofs`, the parts of `MCPlaying`: `PlayingSafe`, `NewTrackSafe`, `NoTrackCut`.
  `QueueIInv` says what a watcher of the current generation knows (`Knows`): which push it advances
  from, that the position it saw last is not ahead of the deck, that a frozen position stands for a
  track that has ended or goes on, and that an advance it has decided on while the track plays finds
  the track at its end; with the holder of `boxCmdMu` (`Locks`), the one watcher that can be told to
  end (`LiveIsKnown`), and a track that is as far as time has come (`OnTime`). `LapIInv` says that an
  order plays each track once (`Ordered`), whatever shuffle it was built by, and that the tracks of a
  straight lap are those up to the position (`Played`). `SleepIInv` is the invariant of the run with
  its types. `StreamIInv` says why a consumer that is not the sink is closed or about to be
  (`Consumers`); that an engine silent for no reason that excuses it is resumed by the recall under
  way whenever the handlers leave that to one (`Resumed`); that after a switch away nothing is heard
  that could point the speaker back (`SwitchHolds`); and that the cut of a skip outlasts its track
  only if nobody was there at its end (`CutEnds`).
* `Playing_proofs`, the groups: `GroupHolds`, `RoundLeaves`, `ResumeNewest`. `ZoneIInv` says which
  stream a form, a round or a resume carries (`Streams`), whom the firmware may still list once a form
  has removed members (`Removed`), who has enrolled (`Enlisted`), and that the member a round is about
  to push was idle or on a mirror when it was read (`PushSafe`).
* `Speaker_proofs`, the parts of `MCSpeaker`: `SpeakerSafe`, `RebootsSafe`, `PowerOffSafe`.
  `UpdateIInv`: one upload at a time and none beside the swap of another (`OneUpload`), none that
  outlives the process that took it (`NoneOutlives`), and what an upload has written, checked or
  stamped is still there at the step that relies on it (`Carried`). `KeyIInv`: a slot that the sweep
  prunes is none that it writes (`GhostsApart`), and until the first change or failed call a lost
  store waits for what the keys held (`Recovering`). `BoxIInv`: a stop that is not the user's, and a
  key that is no thumb, are under way only with what tells them apart (`StopsExplained`,
  `KeysExplained`), and while the speaker plays for this agent the client knows, or will once it has
  read what is under way (`LastReport`, `EndsHeard`). `BootIInv`: the process of `agent.pid` is the
  only one, and one watchdog at most waits to start another (`LoneAgent`). `SpeakerSafe` and
  `RebootsSafe` suppose `~MayOverlap`, as the run does: with uploads that overlap `PartialNeverLive`
  fails (section 4). `PowerOffSafe` supposes that the speaker does not list its presets between two
  reports of what it plays (`"list" \notin BurstKinds`): with such a list it fails (section 4).
* `App_proofs`: `AppVerdicts`, `AppLists`, `AppSafe`, with one invariant for each part of `MCApp`, and
  with only the initial conditions of that part's own module. `FleetIInv` is what a flow of an update
  may rely on at each of its stages: the new version runs once the poll has matched, and what was
  taken is on the disk. `ListIInv` says that between its merge and its last phase a scan shows what
  the app remembers; the rest is that of the addresses that show one speaker one always stays, the one
  of the best score with the least address. `RemovalInv` says who has had an address (`Leases`), that
  every tile, pin and identity tells of a speaker that has had its address (`TracesOwned`), and that
  what still tells of a speaker being removed is at the address the removal will drop (`Leaving`),
  nothing afterwards (`Rid`). `InstIInv` follows an installation: when its script ended well, what it
  left on the flash and in the URLs, and where an unlock may have left its injection. `AppLists` supposes
  `~Races`, `AppSafe` also `~Reuse` and `~Overlap`: with races the statements fail (section 4), with
  a second speaker at an address the app cannot tell who was there.

* `Stores_proofs`: `StoresInvariant`, `SaveLands`, on two instances of `AtomicFile_proofs`. Saves
  of the presets overlap on one temporary file, so neither file is always safe. `Counted` and `Beside`
  tie `joins` to who is at which file with whom; `OneIsSafe` says that with one join presets.json
  or its backup is as a serialised caller would leave it: while both saves are at presets.json the
  backup is, and the last to leave presets.json escapes what the first did to it. `HealStep` says
  that a save which had both files to itself makes both safe, `Values` and `Kept` what is in
  them. The ring needs `AllNeat` (rows where they are kept, marshalled and written are no play
  twice in a row) and `CleanIsWritten` (a clean ring is in the one write under way or in the file).
  The first attempt failed for a reason: `NeverWiped` had been stated for any number of overlaps of
  two, which holds in the run only because its writes do not allow a second; it is now stated
  with `joins`.

Every inductive invariant was first checked with TLC as an invariant of its run.

The types of these modules and `NeverTorn` are proved and not run again; every other theorem of
the list in `PROJECT.json` names a property of a run.

Two invariants were not inductive as first stated. That the newest consumer is the sink needs that
no handler is its own predecessor; and the types of the updates need that no upload has the name of
what a file holds before any, which `UpdateAssumption` now says.

Only model-checked: liveness, which is out of the prover's reach (`EveryPlayEnds`, `GuardHeals`,
`KeysComeBack`, `LoopRests`, `PathsEnd`, `MovesOn`, `MirrorComesBack`, `SpeakerSettles`, `UpdateEnds`).
Every safety invariant and every action property of a passing run is stated by a theorem.

## 7. Not modelled

Besides the components of section 1.2 without a module: in `HardwareRecall` the queue,
skips, announcements and the automatic resumes, which push under `boxCmdMu` too and are
`AutoResume`'s; in `AutoResume` the verify loops and the queue, and the limit on how often a title
is pushed; in `ResumeGuard` the classification that starts a path (a path
may start at any time); in `AtomicFile` a directory that cannot be opened, a case in which
the code skips the sync. Further:

* `FleetUpdate`: the gate of uploads over several speakers, the counter of stuck updates, the ages of
  records (14 days, 30 minutes), the journal.
* `Discovery`: names, versions and ports, the probes themselves, what is kept on disk and the seeds
  read at a cold start, several speakers in one instance.
* `AgentBoot`: Wi-Fi, clock and rescue branches, the engine's copy from the stick, a process number used
  again, a second `run.sh` in one boot.
* `Installer`: the settling of the load, the candidates for staging, messages, space on NAND, two
  scripts at once; that every flow ends was not checked, for each of its waits has a bound.
* `SpotifyStream`: the supervision of the engine, accounts, the store of resume points, the volume, the
  pacing, calls to the engine that fail but for a load.

`hazards` in `PROJECT.json` lists, with its line, what a test would
hardly reach in each component, the ones that no property covers yet included.
