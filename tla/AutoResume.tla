------------------------------ MODULE AutoResume ------------------------------
(***************************************************************************)
(* The automatic pushes of internal/webui/resume_standby.go: the resume    *)
(* after a power-on (ResumeLastPlay), the recovery of a lost press after a *)
(* reconnect (RecoverAfterReconnect), of a source the firmware dropped     *)
(* (handleSpontaneousSourceOff) with its deferred half                     *)
(* (RunDeferredResume), the re-push of a stream the box stopped fetching   *)
(* (maybeRePush) and the push of a title to the display (setDisplayText).  *)
(* Each captures a play, sleeps, asks for stops, reads the speaker, waits  *)
(* for boxCmdMu and pushes what it captured; meanwhile the user plays,     *)
(* stops and switches the speaker off and on.                              *)
(*                                                                         *)
(* A tick is two seconds, sleeps and windows are rounded up to it.         *)
(* Stamps are kept as ages up to the window they are compared with, with a *)
(* number for the comparisons by After; sleeps as the ticks that are left. *)
(* A sleep ends on time; a call to the speaker and a wait for the mutex    *)
(* take as long as they take.  Whether the crash-loop guard, the opt-out,  *)
(* a zone or an age limit stands a path down is left open: ResumeGuard has *)
(* the guard.                                                              *)
(***************************************************************************)
EXTENDS Integers, FiniteSets

CONSTANTS
  Path,         \* goroutines of the automatic paths that can be in flight
  App, Press,   \* plays of the app, and of the preset keys
  Old,          \* the play on record when the run begins
  None,
  StopWindow,   \* userStopWindow and standbyBounceWakeWindow (3 ticks)
  OwnsRetry,    \* recallOwnsRetryWindow (6)
  SpontGap,     \* spontResumeMinGap (15)
  MaxBackoff,   \* the longest backoff of maybeRePush (15)
  MaxRePushes,  \* maxRePushes (10)
  MaxEvents     \* bound on the stops, power-offs and power-ons of a run

ASSUME AutoAssumption ==
  /\ IsFiniteSet(Path) /\ App \cap Press = {} /\ Path \cap (App \cup Press) = {}
  /\ {Old, None} \cap (App \cup Press \cup Path) = {} /\ Old # None
  /\ {StopWindow, OwnsRetry, SpontGap, MaxBackoff} \subseteq Nat \ {0}
  /\ MaxRePushes \in Nat /\ MaxEvents \in Nat /\ MaxBackoff <= 16

Play == App \cup Press \cup {Old}

VARIABLES
  clock,          \* number of stamped stops so far
  events,         \* how many events of the user so far
  userStop,       \* Server.lastUserStop
  standbyStop,    \* Server.lastStandbyStop
  userPlay,       \* the age of Server.lastUserPlayStart
  spontResume,    \* the age of Server.lastSpontResume
  lastPlay,       \* Server.lastPlay: the play, its re-pushes, whether it is dead
  rePushInFlight, \* the latch of maybeRePush
  deferred,       \* Server.deferred: the play it captured, or None
  boxCmdMu,       \* who holds Server.boxCmdMu, or None
  power,          \* "on", or "standby"
  playing,        \* whether the box plays, buffers or pauses
  uri,            \* the play whose URI the transport holds
  frames,         \* frames of a standby exit no handler has seen yet
  pc, kind,       \* where a path is, and which it is
  wait,           \* ticks it still sleeps
  captured,       \* the play it captured
  from,           \* the clock when a re-push began to wait out the ownership
  ppc,            \* where a play is
  recorded,       \* (history) the order in which plays were recorded, 0 before
  pend,           \* (history) the stop a path has yet to hear of, "far" if it came
                  \* longer before the end of its sleep than the window
  late            \* (history) paths that had looked when the box last went off

stamps  == <<clock, userStop, standbyStop, userPlay, spontResume>>
server  == <<lastPlay, rePushInFlight, deferred>>
box     == <<power, playing, uri, frames>>
path    == <<pc, kind, wait, captured, from>>
plays   == <<ppc, recorded>>
history == <<pend, late>>
vars == <<stamps, events, server, boxCmdMu, box, path, plays, history>>

Kinds == {"wake", "reconnect", "drop", "deferred", "rePush", "display"}
PCs   == {"idle", "settle", "ownership", "zone", "look", "wake", "busy", "source",
          "claim", "lock", "push"}

Smaller(a, b) == IF a < b THEN a ELSE b

Never == [age |-> StopWindow, n |-> 0]

Init ==
  /\ clock = 0 /\ events = 0 /\ userStop = Never /\ standbyStop = Never
  /\ userPlay = OwnsRetry /\ spontResume = SpontGap
  /\ lastPlay = [by |-> Old, rePushes |-> 0, failed |-> FALSE]
  /\ rePushInFlight = FALSE /\ deferred = None /\ boxCmdMu = None
  /\ power \in {"on", "standby"} /\ playing \in (IF power = "on" THEN BOOLEAN ELSE {FALSE})
  /\ uri = Old /\ frames = {}
  /\ pc = [r \in Path |-> "idle"] /\ kind = [r \in Path |-> "wake"]
  /\ wait = [r \in Path |-> 0] /\ captured = [r \in Path |-> None]
  /\ from = [r \in Path |-> 0]
  /\ ppc = [x \in App \cup Press |-> "idle"]
  /\ recorded = [x \in Play |-> IF x = Old THEN 1 ELSE 0]
  /\ pend = [r \in Path |-> "none"] /\ late = {}

-----------------------------------------------------------------------------
(* What the paths ask. *)

UserStoppedRecently    == userStop.age < StopWindow
StandbyStoppedRecently == standbyStop.age < StopWindow
UserPlayedRecently     == userPlay < OwnsRetry

\* resumeIsStale: another play has been recorded since the capture.
Stale(r) == captured[r] # lastPlay.by

\* The backoff of a stream that has been pushed n times: 2s, 2s, 4s, 8s, 16s, and then 30s.
Doubled(n) == CASE n <= 1 -> 1 [] n = 2 -> 2 [] n = 3 -> 4 [] n = 4 -> 8 [] OTHER -> 16
Backoff(n) == Smaller(Doubled(n), MaxBackoff)

\* Paths that will not look at the power of the box again.
PastLook == {r \in Path : \/ pc[r] \in {"wake", "busy", "claim", "lock", "push"}
                          \/ pc[r] = "zone" /\ kind[r] = "deferred"}

\* Paths whose sleep is followed by a question for the user's stops, ...
Asks(r) == pc[r] = "ownership" \/ (pc[r] = "settle" /\ kind[r] \in {"drop", "rePush"})

\* ... at a time when a stop of now still counts.
Hears(r) == Asks(r) /\ (pc[r] = "settle" => wait[r] < StopWindow)

\* The same for a power-off, which the resume asks for as well.
HearsOff(r) == Hears(r) \/ (pc[r] = "settle" /\ kind[r] = "wake" /\ wait[r] < StopWindow)

-----------------------------------------------------------------------------
(* Steps shared by the paths. *)

Goto(r, l) == pc' = [pc EXCEPT ![r] = l]

\* A path goes on at l.
Continue(r, l) ==
  /\ Goto(r, l)
  /\ UNCHANGED <<kind, wait, captured, from, pend, late>>

\* A path ends; maybeRePush releases its latch.
Finish(r) ==
  /\ Goto(r, "idle") /\ kind' = [kind EXCEPT ![r] = "wake"]
  /\ wait' = [wait EXCEPT ![r] = 0] /\ captured' = [captured EXCEPT ![r] = None]
  /\ from' = [from EXCEPT ![r] = 0] /\ pend' = [pend EXCEPT ![r] = "none"]
  /\ late' = late \ {r}
  /\ rePushInFlight' = (rePushInFlight /\ kind[r] # "rePush")

\* A path begins at l, having captured x, with a sleep after which it hears of
\* what a stamp still within the window then says.
Begin(r, k, l, x, sleep) ==
  /\ pc[r] = "idle"
  /\ Goto(r, l) /\ kind' = [kind EXCEPT ![r] = k]
  /\ captured' = [captured EXCEPT ![r] = x] /\ wait' = [wait EXCEPT ![r] = sleep]
  /\ pend' = [pend EXCEPT ![r] =
       IF k \in {"wake", "drop", "rePush"} /\ standbyStop.age + sleep < StopWindow THEN "off"
       ELSE IF k \in {"drop", "rePush"} /\ userStop.age + sleep < StopWindow THEN "stop"
       ELSE "none"]
  /\ UNCHANGED <<from, late>>

\* The box leaves standby, or stays as it is.
PowerOn(on) ==
  /\ power' = IF on THEN "on" ELSE power
  /\ frames' = IF on /\ power = "standby" THEN {"wake", "exit"} ELSE frames

\* SetAVTransportURI, with Play but for the display: it may fail, it may reach
\* audio, and some firmware leaves standby for it.
SetURI(x) ==
  /\ \E on \in BOOLEAN : PowerOn(on)
  /\ \/ uri' = x /\ playing' \in (IF power' = "on" THEN BOOLEAN ELSE {FALSE})
     \/ UNCHANGED <<uri, playing>>

-----------------------------------------------------------------------------
(* How the paths begin. *)

\* OnPowerWake.
ResumeLastPlay(r) ==
  /\ "wake" \in frames /\ frames' = frames \ {"wake"}
  /\ lastPlay' = [lastPlay EXCEPT !.rePushes = 0, !.failed = FALSE]
  /\ Begin(r, "wake", "settle", lastPlay.by, 1)
  /\ UNCHANGED <<stamps, events, rePushInFlight, deferred, boxCmdMu, power, playing, uri, plays>>

RecoverAfterReconnect(r) ==
  /\ ~UserStoppedRecently /\ ~StandbyStoppedRecently
  /\ Begin(r, "reconnect", "settle", lastPlay.by, 1)
  /\ UNCHANGED <<stamps, events, server, boxCmdMu, box, plays>>

\* HandleEnterStandby takes the end of a source for the firmware's own doing.
HandleSpontaneousSourceOff(r) ==
  /\ ~playing /\ ~UserStoppedRecently /\ ~UserPlayedRecently
  /\ spontResume >= SpontGap /\ spontResume' = 0
  /\ Begin(r, "drop", "settle", lastPlay.by, 2)
  /\ UNCHANGED <<clock, userStop, standbyStop, userPlay, events, server, boxCmdMu, box, plays>>

\* OnStandbyExit: the deferred resume is taken, and dropped after a stop.
RunDeferredResume(r) ==
  /\ "exit" \in frames /\ frames' = frames \ {"exit"}
  /\ deferred # None /\ deferred' = None
  /\ ~UserStoppedRecently /\ ~StandbyStoppedRecently
  /\ Begin(r, "deferred", "zone", deferred, 0)
  /\ UNCHANGED <<stamps, events, lastPlay, rePushInFlight, boxCmdMu, power, playing, uri, plays>>

\* A frame whose handler stands down at once.
IgnoreFrame(f) ==
  /\ f \in frames /\ frames' = frames \ {f}
  /\ deferred' = IF f = "exit" THEN None ELSE deferred
  /\ UNCHANGED <<stamps, events, lastPlay, rePushInFlight, boxCmdMu, power, playing, uri,
                 path, plays, history>>

\* The box has closed a healthy stream, perhaps because it plays another by now.
HandleStreamDisconnect(r) ==
  /\ ~lastPlay.failed /\ ~rePushInFlight
  /\ rePushInFlight' = TRUE
  /\ Begin(r, "rePush", "settle", None, Backoff(lastPlay.rePushes))
  /\ UNCHANGED <<stamps, events, lastPlay, deferred, boxCmdMu, box, plays>>

\* A title for the display, while the box fetches the stream.
HandleStreamTitle(r) ==
  /\ playing
  /\ Begin(r, "display", "lock", lastPlay.by, 0)
  /\ UNCHANGED <<stamps, events, server, boxCmdMu, box, plays>>

-----------------------------------------------------------------------------
(* What they do before they ask for the mutex. *)

\* A zone, a last play too old, a speaker that cannot be read: a path ends.
StandDown(r) ==
  /\ pc[r] \in {"zone", "look", "source"}
  /\ Finish(r)
  /\ UNCHANGED <<stamps, events, lastPlay, deferred, boxCmdMu, box, plays>>

Settled(r) == pc[r] = "settle" /\ wait[r] = 0

\* A path goes on at l, unless it has to stand down.
Unless(stand, r, l) ==
  /\ IF stand THEN Finish(r) ELSE Continue(r, l) /\ UNCHANGED rePushInFlight
  /\ UNCHANGED <<stamps, events, lastPlay, deferred, boxCmdMu, box, plays>>

WakeSettled(r) ==
  Settled(r) /\ kind[r] = "wake" /\ Unless(StandbyStoppedRecently, r, "zone")

\* boxInZone has answered: only now are the user's stops asked for.
WakeZoned(r) ==
  pc[r] = "zone" /\ kind[r] = "wake" /\ Unless(UserStoppedRecently, r, "look")

\* A box in standby was switched off.  Otherwise this is a power-on, which takes
\* the last stop back.
WakeLook(r) ==
  /\ pc[r] = "look" /\ kind[r] = "wake" /\ power = "on"
  /\ userStop' = Never
  /\ pend' = [q \in Path |-> IF pend[q] = "off" THEN "off" ELSE "none"]
  /\ Goto(r, "wake")
  /\ UNCHANGED <<clock, standbyStop, userPlay, spontResume, events, server, boxCmdMu, box,
                 kind, wait, captured, from, plays, late>>

WakeAndWait(r) ==
  /\ pc[r] = "wake"
  /\ \E on \in BOOLEAN : PowerOn(on)
  /\ Continue(r, "busy")
  /\ UNCHANGED <<stamps, events, server, boxCmdMu, playing, uri, plays>>

\* An unreadable box counts as not busy.
WakeBusy(r) ==
  /\ pc[r] = "busy"
  /\ \E busy \in {playing, FALSE} : Unless(busy, r, "lock")

\* boxStuckSelection: awake and idle, on the captured stream or on none.
RecoverSettled(r) ==
  Settled(r) /\ kind[r] = "reconnect" /\ Unless(FALSE, r, "look")

RecoverLook(r) ==
  pc[r] = "look" /\ kind[r] = "reconnect" /\ Unless(power = "standby" \/ playing, r, "lock")

DropSettled(r) ==
  /\ Settled(r) /\ kind[r] = "drop"
  /\ Unless(UserStoppedRecently \/ StandbyStoppedRecently, r, "source")

\* Mutant: the box is woken for the stream it dropped.
DropAwake_Always(r) ==
  pc[r] = "source" /\ Unless(FALSE, r, "lock")

DropAwake(r) ==
  pc[r] = "source" /\ power = "on" /\ Unless(FALSE, r, "lock")

\* armDeferredResume: a box in standby, or one that cannot be read.
DropDefer(r) ==
  /\ pc[r] = "source"
  /\ deferred' = captured[r]
  /\ Finish(r)
  /\ UNCHANGED <<stamps, events, lastPlay, boxCmdMu, box, plays>>

DeferredZoned(r) ==
  pc[r] = "zone" /\ kind[r] = "deferred" /\ Unless(Stale(r), r, "lock")

RePushSettled(r) ==
  /\ Settled(r) /\ kind[r] = "rePush"
  /\ UserStoppedRecently \/ StandbyStoppedRecently \/ ~UserPlayedRecently
  /\ Unless(UserStoppedRecently \/ StandbyStoppedRecently, r, "look")

\* A recall owns the retry: wait out its window, asking for later stops by number.
RePushOwned(r) ==
  /\ Settled(r) /\ kind[r] = "rePush"
  /\ ~UserStoppedRecently /\ ~StandbyStoppedRecently /\ UserPlayedRecently
  /\ Goto(r, "ownership")
  /\ wait' = [wait EXCEPT ![r] = OwnsRetry - userPlay]
  /\ from' = [from EXCEPT ![r] = clock]
  /\ UNCHANGED <<stamps, events, server, boxCmdMu, box, kind, captured, plays, history>>

\* Mutant: after the wait the rolling windows are asked again.
RePushOwnershipEnds_Rolling(r) ==
  /\ pc[r] = "ownership" /\ wait[r] = 0
  /\ Unless(UserPlayedRecently \/ UserStoppedRecently \/ StandbyStoppedRecently, r, "look")

RePushOwnershipEnds(r) ==
  /\ pc[r] = "ownership" /\ wait[r] = 0
  /\ Unless(UserPlayedRecently \/ userStop.n > from[r] \/ standbyStop.n > from[r], r, "look")

RePushLook(r) ==
  /\ pc[r] = "look" /\ kind[r] = "rePush"
  /\ IF power = "standby" \/ playing THEN Finish(r)
                                     ELSE Continue(r, "claim") /\ UNCHANGED rePushInFlight
  /\ lastPlay' = IF playing THEN [lastPlay EXCEPT !.rePushes = 0] ELSE lastPlay
  /\ UNCHANGED <<stamps, events, deferred, boxCmdMu, box, plays>>

\* Mutant: one re-push more than the cap.
RePushClaim_OneMore(r) ==
  /\ pc[r] = "claim" /\ lastPlay.rePushes <= MaxRePushes
  /\ lastPlay' = [lastPlay EXCEPT !.rePushes = @ + 1]
  /\ captured' = [captured EXCEPT ![r] = lastPlay.by]
  /\ Goto(r, "lock")
  /\ UNCHANGED <<stamps, events, rePushInFlight, deferred, boxCmdMu, box, kind, wait, from,
                 plays, history>>

\* The cap: a stream that keeps dropping is dead until it is played again.
RePushGiveUp(r) ==
  /\ pc[r] = "claim" /\ lastPlay.rePushes >= MaxRePushes
  /\ lastPlay' = [lastPlay EXCEPT !.failed = TRUE]
  /\ Finish(r)
  /\ UNCHANGED <<stamps, events, deferred, boxCmdMu, box, plays>>

RePushClaim(r) ==
  /\ pc[r] = "claim" /\ lastPlay.rePushes < MaxRePushes
  /\ lastPlay' = [lastPlay EXCEPT !.rePushes = @ + 1]
  /\ captured' = [captured EXCEPT ![r] = lastPlay.by]
  /\ Goto(r, "lock")
  /\ UNCHANGED <<stamps, events, rePushInFlight, deferred, boxCmdMu, box, kind, wait, from,
                 plays, history>>

-----------------------------------------------------------------------------
(* Under boxCmdMu. *)

\* Mutant: the early return keeps the mutex.
Lock_Leaks(r, stand) ==
  /\ pc[r] = "lock" /\ boxCmdMu = None /\ boxCmdMu' = r
  /\ IF stand THEN Finish(r) ELSE Continue(r, "push") /\ UNCHANGED rePushInFlight
  /\ UNCHANGED <<stamps, events, lastPlay, deferred, box, plays>>

\* boxCmdMu is free, and r takes it for its push unless it has to stand down.
Lock(r, stand) ==
  /\ pc[r] = "lock" /\ boxCmdMu = None
  /\ IF stand THEN Finish(r) /\ UNCHANGED boxCmdMu
              ELSE Continue(r, "push") /\ boxCmdMu' = r /\ UNCHANGED rePushInFlight
  /\ UNCHANGED <<stamps, events, lastPlay, deferred, box, plays>>

\* Mutant: the capture is trusted.
LockResume_Trusting(r) == kind[r] \in {"wake", "reconnect", "drop"} /\ Lock(r, FALSE)

\* The resume, the recovery and the spontaneous one look at the last play again.
LockResume(r) == kind[r] \in {"wake", "reconnect", "drop"} /\ Lock(r, Stale(r))

\* A re-push looks at the box; one that cannot be read counts as not busy.
LockRePush(r) == kind[r] = "rePush" /\ \E busy \in {playing, FALSE} : Lock(r, busy)

LockUnchecked(r) == kind[r] \in {"deferred", "display"} /\ Lock(r, FALSE)

TakeLock(r) == LockResume(r) \/ LockRePush(r) \/ LockUnchecked(r)

Push(r) ==
  /\ pc[r] = "push"
  /\ SetURI(captured[r])
  /\ boxCmdMu' = None
  /\ Finish(r)
  /\ UNCHANGED <<stamps, events, lastPlay, deferred, plays>>

-----------------------------------------------------------------------------
(* The plays of the user. *)

\* NoteUserPlay drops the stops before it.
NoteUserPlay ==
  /\ userPlay' = 0 /\ userStop' = Never /\ standbyStop' = Never
  /\ pend' = [r \in Path |-> "none"]
  /\ UNCHANGED <<clock, spontResume, events>>

\* Mutant: the latch belongs to the play, so a new one starts without it.
SetLastPlay_OwnLatch(x) ==
  /\ lastPlay' = [by |-> x, rePushes |-> 0, failed |-> FALSE]
  /\ recorded' = [recorded EXCEPT ![x] = 1 + Cardinality({y \in Play : recorded[y] # 0})]
  /\ rePushInFlight' = FALSE
  /\ UNCHANGED deferred

\* setLastPlay: a fresh record; the latch and the deferred resume are not touched.
SetLastPlay(x) ==
  /\ lastPlay' = [by |-> x, rePushes |-> 0, failed |-> FALSE]
  /\ recorded' = [recorded EXCEPT ![x] = 1 + Cardinality({y \in Play : recorded[y] # 0})]
  /\ UNCHANGED <<rePushInFlight, deferred>>

PlayAt(x, l, k) == ppc[x] = l /\ ppc' = [ppc EXCEPT ![x] = k]

\* A play of the app takes boxCmdMu, wakes the box, pushes and is recorded.
AppStart(a) ==
  /\ PlayAt(a, "idle", "push") /\ boxCmdMu = None /\ boxCmdMu' = a
  /\ NoteUserPlay
  /\ \E on \in BOOLEAN : PowerOn(on)
  /\ UNCHANGED <<server, playing, uri, path, recorded, late>>

AppPush(a) ==
  /\ PlayAt(a, "push", "record")
  /\ SetURI(a) /\ uri' = a
  /\ UNCHANGED <<stamps, events, server, boxCmdMu, path, recorded, history>>

AppFails(a) ==
  /\ PlayAt(a, "push", "done")
  /\ boxCmdMu' = None
  /\ UNCHANGED <<stamps, events, server, box, path, recorded, history>>

AppRecord(a) ==
  /\ PlayAt(a, "record", "done")
  /\ SetLastPlay(a) /\ boxCmdMu' = None
  /\ UNCHANGED <<stamps, events, box, path, history>>

\* A preset key switches the box on; its goroutine records the play, then pushes,
\* without the mutex.  Which of two presses wins is up to HardwareRecall.
OnPresetSelected(p) ==
  /\ PlayAt(p, "idle", "record")
  /\ NoteUserPlay /\ PowerOn(TRUE)
  /\ UNCHANGED <<server, boxCmdMu, playing, uri, path, recorded, late>>

PressRecord(p) ==
  /\ PlayAt(p, "record", "push")
  /\ SetLastPlay(p)
  /\ UNCHANGED <<stamps, events, boxCmdMu, box, path, history>>

PressPush(p) ==
  /\ PlayAt(p, "push", "done")
  /\ SetURI(p)
  /\ UNCHANGED <<stamps, events, server, boxCmdMu, path, recorded, history>>

-----------------------------------------------------------------------------
(* The user's stops, the power key, the stream and the time. *)

OnUserStop ==
  /\ events < MaxEvents /\ events' = events + 1
  /\ clock' = clock + 1 /\ userStop' = [age |-> 0, n |-> clock + 1]
  /\ playing' = FALSE
  /\ pend' = [r \in Path |-> IF pend[r] = "off" \/ ~Asks(r) THEN pend[r]
                             ELSE IF Hears(r) THEN "stop" ELSE "far"]
  /\ UNCHANGED <<standbyStop, userPlay, spontResume, server, boxCmdMu, power, uri, frames,
                 path, plays, late>>

\* The box goes to standby: HandleEnterStandby takes it for the user's power-off
\* and stamps it, or for something else and stamps nothing.
OnPowerOff(recognised) ==
  /\ events < MaxEvents /\ events' = events + 1
  /\ power = "on" /\ frames = {}
  /\ power' = "standby" /\ playing' = FALSE /\ late' = PastLook
  /\ IF recognised
     THEN /\ clock' = clock + 1
          /\ userStop' = [age |-> 0, n |-> clock + 1] /\ standbyStop' = userStop'
          /\ pend' = [r \in Path |-> IF HearsOff(r) THEN "off" ELSE pend[r]]
     ELSE UNCHANGED <<clock, userStop, standbyStop, pend>>
  /\ UNCHANGED <<userPlay, spontResume, server, boxCmdMu, uri, frames, path, plays>>

\* The user switches the box on, or it bounces back after a power-off.
OnPowerOn ==
  /\ events < MaxEvents /\ events' = events + 1
  /\ power = "standby" /\ PowerOn(TRUE)
  /\ UNCHANGED <<stamps, server, boxCmdMu, playing, uri, path, plays, history>>

StreamEnds ==
  /\ playing /\ playing' = FALSE
  /\ UNCHANGED <<stamps, events, server, boxCmdMu, power, uri, frames, path, plays, history>>

\* Frames are handled at once, and sleeps end on time.
Tick ==
  /\ frames = {} /\ \A r \in Path : pc[r] \in {"settle", "ownership"} => wait[r] > 0
  /\ userStop' = [userStop EXCEPT !.age = Smaller(@ + 1, StopWindow)]
  /\ standbyStop' = [standbyStop EXCEPT !.age = Smaller(@ + 1, StopWindow)]
  /\ userPlay' = Smaller(userPlay + 1, OwnsRetry)
  /\ spontResume' = Smaller(spontResume + 1, SpontGap)
  /\ wait' = [r \in Path |-> IF wait[r] > 0 THEN wait[r] - 1 ELSE 0]
  /\ UNCHANGED <<clock, events, server, boxCmdMu, box, pc, kind, captured, from, plays, history>>

-----------------------------------------------------------------------------
Begins(r) ==
  \/ ResumeLastPlay(r) \/ RecoverAfterReconnect(r) \/ HandleSpontaneousSourceOff(r)
  \/ RunDeferredResume(r) \/ HandleStreamDisconnect(r) \/ HandleStreamTitle(r)

PathStep(r) ==
  \/ StandDown(r) \/ WakeSettled(r) \/ WakeZoned(r) \/ WakeLook(r) \/ WakeAndWait(r)
  \/ WakeBusy(r) \/ RecoverSettled(r) \/ RecoverLook(r) \/ DropSettled(r) \/ DropAwake(r)
  \/ DropDefer(r) \/ DeferredZoned(r) \/ RePushSettled(r) \/ RePushOwned(r)
  \/ RePushOwnershipEnds(r) \/ RePushLook(r) \/ RePushGiveUp(r) \/ RePushClaim(r)
  \/ TakeLock(r) \/ Push(r)

AppStep(a) == AppPush(a) \/ AppFails(a) \/ AppRecord(a)

Next ==
  \/ \E r \in Path : Begins(r) \/ PathStep(r)
  \/ \E a \in App : AppStart(a) \/ AppStep(a)
  \/ \E p \in Press : OnPresetSelected(p) \/ PressRecord(p) \/ PressPush(p)
  \/ \E f \in frames : IgnoreFrame(f)
  \/ OnUserStop \/ (\E b \in BOOLEAN : OnPowerOff(b)) \/ OnPowerOn
  \/ StreamEnds \/ Tick

Spec == Init /\ [][Next]_vars

\* Time passes, frames are handled, goroutines go on, and the mutex is handed to
\* whoever waits for it again and again.
FairSpec ==
  /\ Spec
  /\ WF_vars(Tick) /\ WF_vars(\E f \in frames : IgnoreFrame(f))
  /\ \A r \in Path : WF_vars(PathStep(r)) /\ SF_vars(TakeLock(r))
  /\ \A a \in App : WF_vars(AppStep(a))

-----------------------------------------------------------------------------
(* Properties. *)

\* The type of every variable.
TypeOK ==
  /\ clock \in 0 .. MaxEvents /\ events \in 0 .. MaxEvents
  /\ userStop \in [age : 0 .. StopWindow, n : 0 .. MaxEvents]
  /\ standbyStop \in [age : 0 .. StopWindow, n : 0 .. MaxEvents]
  /\ userPlay \in 0 .. OwnsRetry /\ spontResume \in 0 .. SpontGap
  /\ lastPlay \in [by : Play, rePushes : 0 .. MaxRePushes, failed : BOOLEAN]
  /\ rePushInFlight \in BOOLEAN /\ deferred \in Play \cup {None}
  /\ boxCmdMu \in Path \cup App \cup {None}
  /\ power \in {"on", "standby"} /\ playing \in BOOLEAN /\ uri \in Play
  /\ frames \subseteq {"wake", "exit"}
  /\ pc \in [Path -> PCs] /\ kind \in [Path -> Kinds] /\ wait \in [Path -> Nat]
  /\ captured \in [Path -> Play \cup {None}] /\ from \in [Path -> 0 .. MaxEvents]
  /\ ppc \in [App \cup Press -> {"idle", "push", "record", "done"}]
  /\ recorded \in [Play -> Nat]
  /\ pend \in [Path -> {"none", "stop", "far", "off"}] /\ late \subseteq Path

RePushing == {r \in Path : pc[r] # "idle" /\ kind[r] = "rePush"}

\* One goroutine at a time re-pushes a dropped stream, whatever plays are recorded
\* while it waits, and the latch is up exactly while it is there.
OneRePusher == Cardinality(RePushing) = IF rePushInFlight THEN 1 ELSE 0

\* A path that pushes at this step.
Pushes(r) == pc[r] = "push" /\ pc'[r] = "idle"

\* The resume, the recovery and the spontaneous recovery never replace a play of the
\* app by an older one, however long they have waited and whatever was played,
\* recorded or refused meanwhile.
AppPlaysKept ==
  [][\A r \in Path : Pushes(r) /\ kind[r] \in {"wake", "reconnect", "drop"} /\ uri \in App
       => recorded[uri] # 0 /\ recorded[uri] <= recorded[captured[r]]]_vars

\* A stop or power-off that comes while a path sleeps, or so shortly before that it
\* is within the window when the sleep ends, stands the path down; only a newer
\* play, or for a stop a power-on, takes it back.
StopsAreHeard ==
  \A r \in Path : pend[r] \in {"stop", "off"} => pc[r] \in {"settle", "ownership"}

\* A box that has gone off is switched on again by no automatic path but those that
\* had already looked whether it is on.
SleepersLeftAlone ==
  [][\A r \in Path : PathStep(r) /\ power = "standby" /\ power' = "on" => r \in late]_vars

\* Every automatic path comes to an end, with its latch and the mutex, whoever else
\* plays, pushes or waits.
PathsEnd == \A r \in Path : pc[r] # "idle" ~> pc[r] = "idle"

-----------------------------------------------------------------------------
(* What comments of the code claim and the code does not do. *)

\* A path that takes the mutex to push at this step.
TakesLock(r) == pc[r] = "lock" /\ pc'[r] = "push"

\* resume_standby.go:1337: a deliberate user stop "must hold" against the re-push.
StopHoldsHoweverLong ==
  \A r \in Path : pend[r] # "none" => pc[r] \in {"settle", "ownership"}

\* resume_standby.go:258: "a deliberate user stop must survive a WS reconnect".
StopSurvivesReconnect ==
  [][\A r \in Path : TakesLock(r) /\ kind[r] = "reconnect" => ~UserStoppedRecently]_vars

\* resume_standby.go:1221: "a newer play" cancels the deferred resume.
NewerPlayCancelsDeferred ==
  [][\A r \in Path : TakesLock(r) /\ kind[r] = "deferred" => ~Stale(r)]_vars

\* resume_standby.go:1428: the re-push looks again under the mutex, as "a verify push
\* or app play that held boxCmdMu while we waited may have started the box".
RePushKeepsNewerPlay ==
  [][\A r \in Path : TakesLock(r) /\ kind[r] = "rePush" => ~Stale(r)]_vars

\* resume_standby.go:1582: boxPlayState reports standby for a box it cannot read, so
\* that a re-push "stands down when it cannot confirm the box is awake".
RePushOnlyIfAwake ==
  [][\A r \in Path : TakesLock(r) /\ kind[r] = "rePush" => power = "on" /\ ~playing]_vars
=============================================================================
