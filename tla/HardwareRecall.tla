--------------------------- MODULE HardwareRecall ---------------------------
(***************************************************************************)
(* Who owns the speaker's transport.  Two parts of the agent push streams  *)
(* to the same UPnP transport without a common lock: the hardware preset   *)
(* keys (cmd/agent/wshandler.go, one goroutine per press followed by its   *)
(* verify loop) and the plays of the app (internal/webui/playback.go and   *)
(* recall_verify.go, serialised by boxCmdMu).  They arbitrate with a press *)
(* sequence, a recall generation and the time stamps of the user's stops.  *)
(*                                                                         *)
(* Time is the number of stamped events so far: the code only asks whether *)
(* one stamp is After another.  A read and the return it guards are one    *)
(* step; every call to the box, and every write of a shared record, is a   *)
(* step of its own.  wake() is one step, its abort predicate being read    *)
(* right before the toggle.                                                *)
(***************************************************************************)
EXTENDS Integers, FiniteSets

CONSTANTS
  Press,        \* hardware preset key presses
  App,          \* plays requested by the app
  None,         \* no play
  RadioTries,   \* attempts of verifyPlayURL (5 in the code)
  SpotifyTries, \* attempts of verifySpotifyPlaying (3)
  AppTries,     \* attempts of verifyRecall (3)
  NudgeTry,     \* the attempt that may toggle sys power (3)
  MaxEvents     \* bound on stops, power-offs and rejections of one run

ASSUME ConstantsAssumption ==
  /\ Press \cap App = {} /\ None \notin Press \cup App
  /\ {RadioTries, SpotifyTries, AppTries, NudgeTry} \subseteq Nat \ {0}
  /\ MaxEvents \in Nat

Play == Press \cup App

VARIABLES
  clock,        \* number of stamped events so far
  events,       \* how many of them were stops, power-offs, rejections
  pressSeq,     \* presetWsHandler.pressSeq
  recallGen,    \* Server.recallGen
  lastPlay,     \* Server.lastPlay: the play it was recorded for
  userPlay,     \* Server.lastUserPlayStart
  userStop,     \* presetWsHandler.lastUserStop
  webStop,      \* Server.lastUserStop
  standbyStop,  \* Server.lastStandbyStop
  reject,       \* presetWsHandler.lastSourceReject
  uri,          \* the play whose URI the box's transport holds
  power,        \* "on", or "standby"
  boxCmdMu,     \* the play of the app that holds Server.boxCmdMu
  clear,        \* the transport clear a power-off started: where and when
  pc,           \* where the goroutine of a play is
  kind,         \* what the play is
  at,           \* pressAt of a press, recallStart of an app play
  seq,          \* the press sequence number a press drew
  gen,          \* the recall generation a play drew, 0 before
  attempt,      \* verify attempts begun
  late,         \* history: pushes made while the play was overruled
  offAt         \* history: the last power-off, which no play erases

stamps == <<userPlay, userStop, webStop, standbyStop, reject, offAt>>
record == <<recallGen, lastPlay>>
box    == <<uri, power>>
self   == <<kind, at, seq, attempt>>
context == <<clock, events, pressSeq, stamps, clear>>
vars == <<context, boxCmdMu, record, box, pc, self, gen, late>>

PressKinds == {"radio", "spotify", "native"}
AppKinds   == {"slot", "url"}
PressPCs == {"start", "spotifyPush", "check", "note", "push", "wake", "probe",
             "rejectWake", "rejectGate", "rejectClear", "rejectPush",
             "tick", "nudge", "toggle", "verifyWake", "verifyGate", "verifyPush",
             "spotifyRepoint"}
AppPCs == {"slotWake", "urlNote", "appPush", "appRecord",
           "appTick", "appLock", "appRetry"}

Init ==
  /\ clock = 0 /\ events = 0 /\ pressSeq = 0 /\ recallGen = 0 /\ lastPlay = None
  /\ userPlay = 0 /\ userStop = 0 /\ webStop = 0 /\ standbyStop = 0 /\ reject = 0
  /\ offAt = 0
  /\ uri = None /\ power \in {"on", "standby"}
  /\ boxCmdMu = None
  /\ clear = [pc |-> "idle", armed |-> 0]
  /\ pc = [x \in Play |-> "idle"]
  /\ kind = [x \in Play |-> "none"]
  /\ at = [x \in Play |-> 0] /\ seq = [x \in Play |-> 0]
  /\ gen = [x \in Play |-> 0] /\ attempt = [x \in Play |-> 0]
  /\ late = [x \in Play |-> 0]

-----------------------------------------------------------------------------
(* The stand-down predicates. *)

\* A newer press, or a newer recorded play of any kind.
Superseded(p) == pressSeq # seq[p] \/ (gen[p] # 0 /\ recallGen # gen[p])

PoweredOffSince(p) == standbyStop > at[p]
UserStoppedSince(p) == userStop > at[p]


\* Mutant: a loop that only looks at stops, not at newer plays.
StandDown_StopsOnly(p) == PoweredOffSince(p) \/ UserStoppedSince(p)

\* recallStandDown, consulted before every escalation of a verify loop.
StandDown(p) == Superseded(p) \/ PoweredOffSince(p) \/ UserStoppedSince(p)

\* verifyStandDownReason: the same question for a play of the app.
AppStandDown(a) == recallGen # gen[a] \/ standbyStop > at[a] \/ webStop > at[a]

\* What can never be taken back once it holds: a newer owner, or, for a
\* press, a stop key after it.
Overruled(x) ==
  IF x \in Press THEN seq[x] # 0 /\ (Superseded(x) \/ UserStoppedSince(x))
                 ELSE gen[x] # 0 /\ recallGen # gen[x]

-----------------------------------------------------------------------------
(* Steps shared by the handlers. *)

Goto(x, l) == pc' = [pc EXCEPT ![x] = l]

\* NoteUserPlay: the play is newer intent than any stop, so the webui's stop
\* latches are dropped.
NoteUserPlay(t) ==
  /\ userPlay' = t /\ standbyStop' = 0 /\ webStop' = 0
  /\ UNCHANGED <<userStop, reject, offAt>>


\* Mutant: the generation is drawn once and then reused.
SetLastPlay_NoBump(x) ==
  /\ recallGen' = 1
  /\ lastPlay' = x
  /\ gen' = [gen EXCEPT ![x] = 1]
  /\ UNCHANGED <<box, late>>

\* setLastPlay: the record and the generation change in one critical section.
SetLastPlay(x) ==
  /\ recallGen' = recallGen + 1
  /\ lastPlay' = x
  /\ gen' = [gen EXCEPT ![x] = recallGen + 1]
  /\ UNCHANGED <<box, late>>

\* SetAVTransportURI and Play.  The SOAP call may fail and leave the URI.
PushURI(x) ==
  /\ uri' \in {x, uri}
  /\ late' = [late EXCEPT ![x] = IF Overruled(x) THEN @ + 1 ELSE @]
  /\ UNCHANGED <<power, record, gen>>

\* WakeAndWaitAbort: a sys power toggle if the box reads as standby and the
\* caller has not stood down.  The box may ignore it, and a box whose source
\* cannot be read is toggled too, so one that was on may go off.
Wake(abort) ==
  /\ power' \in IF abort THEN {power} ELSE {"on", "standby"}
  /\ UNCHANGED <<uri, record, gen, late>>

\* A step that touches neither the record nor the box.
HandsOff == UNCHANGED <<record, box, gen, late>>

-----------------------------------------------------------------------------
(* A hardware preset press. *)

OnPresetSelected(p, k) ==
  /\ pc[p] = "idle"
  /\ clock' = clock + 1
  /\ pressSeq' = pressSeq + 1
  /\ NoteUserPlay(clock + 1)
  /\ power' = "on"
  /\ kind' = [kind EXCEPT ![p] = k]
  /\ at' = [at EXCEPT ![p] = clock + 1]
  /\ seq' = [seq EXCEPT ![p] = pressSeq + 1]
  /\ Goto(p, "start")
  /\ UNCHANGED <<boxCmdMu, events, clear, record, uri, attempt, gen, late>>

\* No mapping, an unplayable location, a preset the play queue claimed, or no
\* usable Spotify login: the goroutine returns without touching the box.
RecallDeclined(p) ==
  /\ pc[p] = "start"
  /\ Goto(p, "done")
  /\ HandsOff /\ UNCHANGED <<context, boxCmdMu, self>>


\* Mutant: the native press bumps the generation but is not recorded.
RecallNative_BumpOnly(p) ==
  /\ pc[p] = "start" /\ kind[p] = "native"
  /\ recallGen' = recallGen + 1
  /\ gen' = [gen EXCEPT ![p] = recallGen + 1]
  /\ Goto(p, "done")
  /\ UNCHANGED <<context, boxCmdMu, lastPlay, box, self, late>>

\* A native preset is played by the box; the agent only records it.
RecallNative(p) ==
  /\ pc[p] = "start" /\ kind[p] = "native"
  /\ SetLastPlay(p)
  /\ Goto(p, "done")
  /\ UNCHANGED <<context, boxCmdMu, self>>

RecallStart(p) ==
  /\ pc[p] = "start" /\ kind[p] # "native"
  /\ Goto(p, IF kind[p] = "spotify" THEN "spotifyPush" ELSE "check")
  /\ HandsOff /\ UNCHANGED <<context, boxCmdMu, self>>

\* playSpotifyPreset points the box at the slot before it looks at pressSeq.
SpotifyPush(p) ==
  /\ pc[p] = "spotifyPush"
  /\ PushURI(p)
  /\ Goto(p, "check")
  /\ UNCHANGED <<context, boxCmdMu, self>>

RecallCheck(p) ==
  /\ pc[p] = "check"
  /\ Goto(p, IF pressSeq # seq[p] THEN "done" ELSE "note")
  /\ HandsOff /\ UNCHANGED <<context, boxCmdMu, self>>

RecallNote(p) ==
  /\ pc[p] = "note"
  /\ SetLastPlay(p)
  /\ Goto(p, IF kind[p] = "spotify" THEN "wake" ELSE "push")
  /\ UNCHANGED <<context, boxCmdMu, self>>

RecallPush(p) ==
  /\ pc[p] = "push"
  /\ PushURI(p)
  /\ Goto(p, "wake")
  /\ UNCHANGED <<context, boxCmdMu, self>>

\* The first wake has no abort predicate.
RecallWake(p) ==
  /\ pc[p] = "wake"
  /\ Wake(FALSE)
  /\ Goto(p, IF kind[p] = "spotify" THEN "tick" ELSE "probe")
  /\ UNCHANGED <<context, boxCmdMu, self>>

-----------------------------------------------------------------------------
(* rePushAfterSourceReject: once, before the verify loop. *)

RejectProbe(p) ==
  /\ pc[p] = "probe"
  /\ \/ /\ reject > at[p] /\ ~StandDown(p)
        /\ Goto(p, "rejectWake")
     \/ Goto(p, "tick")      \* not refused, stood down, or playing by now
  /\ HandsOff /\ UNCHANGED <<context, boxCmdMu, self>>

RejectWake(p) ==
  /\ pc[p] = "rejectWake"
  /\ Wake(StandDown(p))
  /\ Goto(p, "rejectGate")
  /\ UNCHANGED <<context, boxCmdMu, self>>

RejectGate(p) ==
  /\ pc[p] = "rejectGate"
  /\ Goto(p, IF StandDown(p) THEN "tick" ELSE "rejectClear")
  /\ HandsOff /\ UNCHANGED <<context, boxCmdMu, self>>

\* clearTransportForRePush: Stop and an empty URI.
RejectClear(p) ==
  /\ pc[p] = "rejectClear"
  /\ uri' \in {None, uri}
  /\ Goto(p, "rejectPush")
  /\ UNCHANGED <<context, boxCmdMu, record, power, self, gen, late>>

RejectPush(p) ==
  /\ pc[p] = "rejectPush"
  /\ PushURI(p)
  /\ Goto(p, "tick")
  /\ UNCHANGED <<context, boxCmdMu, self>>

-----------------------------------------------------------------------------
(* The verify loops of a press.  Whether the box has reached audio is what   *)
(* the box says, so both answers are possible.                               *)

VerifyTick(p) ==
  /\ pc[p] = "tick" /\ kind[p] = "radio"
  /\ attempt' = [attempt EXCEPT ![p] = @ + 1]
  /\ \/ Goto(p, "done")                   \* superseded, playing, or stopped
     \/ /\ ~StandDown(p)
        /\ \/ /\ attempt[p] + 1 = NudgeTry \* the box looks inert
              /\ Goto(p, "nudge")
           \/ Goto(p, "verifyWake")
  /\ HandsOff /\ UNCHANGED <<context, boxCmdMu, kind, at, seq>>

NudgeGate(p) ==
  /\ pc[p] = "nudge"
  /\ Goto(p, IF StandDown(p) THEN "done" ELSE "toggle")
  /\ HandsOff /\ UNCHANGED <<context, boxCmdMu, self>>

\* sys power is a toggle: it switches a box in standby on.
NudgeToggle(p) ==
  /\ pc[p] = "toggle"
  /\ power' \in {"on", "standby"}
  /\ Goto(p, "verifyWake")
  /\ UNCHANGED <<context, boxCmdMu, record, uri, self, gen, late>>

VerifyWake(p) ==
  /\ pc[p] = "verifyWake"
  /\ Wake(StandDown(p))
  /\ Goto(p, "verifyGate")
  /\ UNCHANGED <<context, boxCmdMu, self>>

VerifyGate(p) ==
  /\ pc[p] = "verifyGate"
  /\ Goto(p, IF StandDown(p) THEN "done" ELSE "verifyPush")
  /\ HandsOff /\ UNCHANGED <<context, boxCmdMu, self>>

VerifyPush(p) ==
  /\ pc[p] = "verifyPush"
  /\ PushURI(p)
  /\ Goto(p, IF attempt[p] >= RadioTries THEN "done" ELSE "tick")
  /\ UNCHANGED <<context, boxCmdMu, self>>


\* Mutant: the Spotify loop re-points without asking who owns the transport.
SpotifyTick_NoStandDown(p) ==
  /\ pc[p] = "tick" /\ kind[p] = "spotify"
  /\ attempt' = [attempt EXCEPT ![p] = @ + 1]
  /\ Goto(p, "done") \/ Goto(p, "spotifyRepoint")
  /\ HandsOff /\ UNCHANGED <<context, boxCmdMu, kind, at, seq>>

SpotifyTick(p) ==
  /\ pc[p] = "tick" /\ kind[p] = "spotify"
  /\ attempt' = [attempt EXCEPT ![p] = @ + 1]
  /\ \/ Goto(p, "done")
     \/ ~StandDown(p) /\ Goto(p, "spotifyRepoint")
  /\ HandsOff /\ UNCHANGED <<context, boxCmdMu, kind, at, seq>>

SpotifyRepoint(p) ==
  /\ pc[p] = "spotifyRepoint"
  /\ PushURI(p)
  /\ Goto(p, IF attempt[p] >= SpotifyTries THEN "done" ELSE "tick")
  /\ UNCHANGED <<context, boxCmdMu, self>>

-----------------------------------------------------------------------------
(* A play of the app, under boxCmdMu. *)

\* handlePlaySlot: NoteUserPlay comes before the wake, recallStart after it.
AppSlotStart(a) ==
  /\ pc[a] = "idle" /\ boxCmdMu = None
  /\ boxCmdMu' = a
  /\ clock' = clock + 1
  /\ NoteUserPlay(clock + 1)
  /\ kind' = [kind EXCEPT ![a] = "slot"]
  /\ Goto(a, "slotWake")
  /\ HandsOff /\ UNCHANGED <<events, pressSeq, clear, at, seq, attempt>>

AppSlotWake(a) ==
  /\ pc[a] = "slotWake"
  /\ Wake(FALSE)
  /\ at' = [at EXCEPT ![a] = clock]
  /\ Goto(a, "appPush")
  /\ UNCHANGED <<context, boxCmdMu, kind, seq, attempt>>

\* handlePlay: the wake comes first.
AppUrlStart(a) ==
  /\ pc[a] = "idle" /\ boxCmdMu = None
  /\ boxCmdMu' = a
  /\ Wake(FALSE)
  /\ kind' = [kind EXCEPT ![a] = "url"]
  /\ Goto(a, "urlNote")
  /\ UNCHANGED <<context, at, seq, attempt>>

AppUrlNote(a) ==
  /\ pc[a] = "urlNote"
  /\ clock' = clock + 1
  /\ NoteUserPlay(clock + 1)
  /\ at' = [at EXCEPT ![a] = clock + 1]
  /\ Goto(a, "appPush")
  /\ HandsOff /\ UNCHANGED <<boxCmdMu, events, pressSeq, clear, kind, seq, attempt>>


\* Mutant: the error path forgets to unlock.
AppPush_LeaksLock(a) ==
  /\ pc[a] = "appPush"
  /\ \/ uri' = a /\ Goto(a, "appRecord")
     \/ Goto(a, "done") /\ UNCHANGED uri
  /\ UNCHANGED <<context, boxCmdMu, record, power, self, gen, late>>

\* A refused push ends the play with an error and no record.
AppPush(a) ==
  /\ pc[a] = "appPush"
  /\ UNCHANGED <<context, record, power, self, gen, late>>
  /\ \/ uri' = a /\ Goto(a, "appRecord") /\ UNCHANGED boxCmdMu
     \/ boxCmdMu' = None /\ Goto(a, "done") /\ UNCHANGED uri

\* Only now does the play become the newest one; a slot recall is verified.
AppRecord(a) ==
  /\ pc[a] = "appRecord"
  /\ SetLastPlay(a)
  /\ boxCmdMu' = None
  /\ Goto(a, IF kind[a] = "slot" THEN "appTick" ELSE "done")
  /\ UNCHANGED <<context, self>>

\* verifyRecall decides without the lock, waits for it and decides again.
AppTick(a) ==
  /\ pc[a] = "appTick"
  /\ attempt' = [attempt EXCEPT ![a] = @ + 1]
  /\ \/ Goto(a, "done")
     \/ ~AppStandDown(a) /\ Goto(a, "appLock")
  /\ HandsOff /\ UNCHANGED <<context, boxCmdMu, kind, at, seq>>


\* Mutant: the decision made before the wait for the lock is trusted.
AppRedecide_Trusting(a) ==
  /\ pc[a] = "appLock" /\ boxCmdMu = None
  /\ Goto(a, "appRetry") /\ boxCmdMu' = a
  /\ HandsOff /\ UNCHANGED <<context, self>>

AppRedecide(a) ==
  /\ pc[a] = "appLock" /\ boxCmdMu = None
  /\ IF AppStandDown(a) THEN Goto(a, "done") /\ UNCHANGED boxCmdMu
                        ELSE Goto(a, "appRetry") /\ boxCmdMu' = a
  /\ HandsOff /\ UNCHANGED <<context, self>>

AppRetry(a) ==
  /\ pc[a] = "appRetry"
  /\ PushURI(a)
  /\ boxCmdMu' = None
  /\ Goto(a, IF attempt[a] >= AppTries THEN "done" ELSE "appTick")
  /\ UNCHANGED <<context, self>>

-----------------------------------------------------------------------------
(* What the box and the user do. *)


\* Mutant: the stop is stamped with the time of the event before it.
OnUserStop_Stale ==
  /\ events < MaxEvents
  /\ events' = events + 1 /\ clock' = clock + 1
  /\ userStop' = clock - 1 /\ webStop' = clock - 1
  /\ UNCHANGED <<boxCmdMu, pressSeq, userPlay, standbyStop, reject, offAt, clear,
                 record, box, pc, self, gen, late>>

\* The box reports a deliberate stop: both layers stamp it.
OnUserStop ==
  /\ events < MaxEvents
  /\ events' = events + 1 /\ clock' = clock + 1
  /\ userStop' = clock + 1 /\ webStop' = clock + 1
  /\ HandsOff /\ UNCHANGED <<boxCmdMu, pressSeq, userPlay, standbyStop, reject, offAt, clear, pc, self>>

\* The user powers the box off and HandleEnterStandby recognises it: the
\* latches are stamped and a transport clear is started (at most one at a
\* time here; the code's minimum gap may also suppress it).
OnPowerOff ==
  /\ events < MaxEvents /\ power = "on"
  /\ events' = events + 1 /\ clock' = clock + 1
  /\ power' = "standby"
  /\ standbyStop' = clock + 1 /\ webStop' = clock + 1 /\ offAt' = clock + 1
  /\ \/ clear.pc = "idle" /\ clear' = [pc |-> "stop", armed |-> clock + 1]
     \/ UNCHANGED clear
  /\ UNCHANGED <<boxCmdMu, pressSeq, userPlay, userStop, reject, record, uri, pc, self, gen, late>>

\* staleClear is asked before Stop and again before ClearURI.
ClearStop ==
  /\ clear.pc = "stop"
  /\ clear' = [clear EXCEPT !.pc = IF userPlay > clear.armed THEN "idle" ELSE "again"]
  /\ HandsOff /\ UNCHANGED <<boxCmdMu, clock, events, pressSeq, stamps, pc, self>>

ClearAgain ==
  /\ clear.pc = "again"
  /\ clear' = [clear EXCEPT !.pc = IF userPlay > clear.armed THEN "idle" ELSE "uri"]
  /\ HandsOff /\ UNCHANGED <<boxCmdMu, clock, events, pressSeq, stamps, pc, self>>

ClearURI ==
  /\ clear.pc = "uri"
  /\ uri' \in {None, uri}
  /\ clear' = [clear EXCEPT !.pc = "idle"]
  /\ UNCHANGED <<boxCmdMu, clock, events, pressSeq, stamps, record, power, pc, self, gen, late>>

\* 1036 UpnpRcvdContentItemInWrongState; the box may then give up and drop to
\* standby on its own, which stamps nothing.
OnSourceRejected ==
  /\ events < MaxEvents
  /\ events' = events + 1 /\ clock' = clock + 1
  /\ reject' = clock + 1
  /\ power' \in {power, "standby"}
  /\ UNCHANGED <<boxCmdMu, pressSeq, userPlay, userStop, webStop, standbyStop, offAt, clear, record, uri, pc, self, gen, late>>

-----------------------------------------------------------------------------
PressStep(p) ==
  \/ RecallDeclined(p) \/ RecallNative(p) \/ RecallStart(p)
  \/ SpotifyPush(p) \/ RecallCheck(p) \/ RecallNote(p) \/ RecallPush(p) \/ RecallWake(p)
  \/ RejectProbe(p) \/ RejectWake(p) \/ RejectGate(p) \/ RejectClear(p) \/ RejectPush(p)
  \/ VerifyTick(p) \/ NudgeGate(p) \/ NudgeToggle(p) \/ VerifyWake(p)
  \/ VerifyGate(p) \/ VerifyPush(p) \/ SpotifyTick(p) \/ SpotifyRepoint(p)

AppStep(a) ==
  \/ AppSlotWake(a) \/ AppUrlNote(a) \/ AppPush(a) \/ AppRecord(a)
  \/ AppTick(a) \/ AppRedecide(a) \/ AppRetry(a)

ClearStep == ClearStop \/ ClearAgain \/ ClearURI

Environment ==
  \/ \E p \in Press, k \in PressKinds : OnPresetSelected(p, k)
  \/ \E a \in App : AppSlotStart(a) \/ AppUrlStart(a)
  \/ OnUserStop \/ OnPowerOff \/ OnSourceRejected

Next ==
  \/ Environment
  \/ \E p \in Press : PressStep(p)
  \/ \E a \in App : AppStep(a)
  \/ ClearStep

Spec == Init /\ [][Next]_vars

\* Every goroutine keeps running: its calls to the box carry timeouts.
Fairness ==
  /\ \A p \in Press : WF_vars(PressStep(p))
  /\ \A a \in App : WF_vars(AppStep(a))
  /\ WF_vars(ClearStep)
FairSpec == Spec /\ Fairness

-----------------------------------------------------------------------------
(* Properties. *)

\* The type of every variable.
TypeOK ==
  /\ clock \in Nat /\ events \in Nat /\ pressSeq \in Nat /\ recallGen \in Nat
  /\ userPlay \in Nat /\ userStop \in Nat /\ webStop \in Nat
  /\ standbyStop \in Nat /\ reject \in Nat /\ offAt \in Nat
  /\ lastPlay \in Play \cup {None} /\ uri \in Play \cup {None}
  /\ power \in {"on", "standby"} /\ boxCmdMu \in App \cup {None}
  /\ clear \in [pc : {"idle", "stop", "again", "uri"}, armed : Nat]
  /\ pc \in [Play -> {"idle", "done"} \cup PressPCs \cup AppPCs]
  /\ kind \in [Play -> {"none"} \cup PressKinds \cup AppKinds]
  /\ at \in [Play -> Nat] /\ seq \in [Play -> Nat] /\ gen \in [Play -> Nat]
  /\ attempt \in [Play -> Nat] /\ late \in [Play -> Nat]

\* However its checks interleave with newer presses, newer plays of the app and
\* stop keys, a recall that has lost the transport for good pushes at most once
\* more: the push whose gate it had already passed.
LatePushAtMostOnce == \A x \in Play : late[x] <= 1

\* Of all the loops that drew a recall generation at most one still regards
\* itself as the owner, so two verify loops never keep re-pushing at each other.
OneOwner ==
  \A x, y \in Play :
    gen[x] # 0 /\ gen[y] # 0 /\ ~Overruled(x) /\ ~Overruled(y) => x = y

\* The resume target is the play that drew the newest generation: what the
\* verify loops call the owner is what a resume would bring back.
RecordIsNewest == recallGen # 0 => lastPlay \in Play /\ gen[lastPlay] = recallGen

\* boxCmdMu keeps the plays of the app from fighting each other: a retry of
\* verifyRecall is late only if a hardware press overtook it.
OnlyPressesOvertakeRetries ==
  [][\A a \in App : late'[a] > late[a] => lastPlay \in Press]_vars

\* Every press and every play of the app comes to an end, whatever the box
\* answers and however often it is overtaken; boxCmdMu is never lost.
EveryPlayEnds ==
  /\ \A p \in Press : pc[p] # "idle" ~> pc[p] = "done"
  /\ \A a \in App : pc[a] # "idle" ~> pc[a] = "done"

Budget == INSTANCE PushBudget WITH
  overruled <- {x \in Play : Overruled(x)}

\* The arbitration implements the budget of one late push per play.
ImplementsPushBudget == Budget!Spec

-----------------------------------------------------------------------------
(* What comments of the code claim and the code does not do. *)

\* wshandler.go:584: "never let the older goroutine overwrite the newer press's
\* lastPlay or URL".
OlderNeverOverwritesNewerPress ==
  [][\A p \in Press : /\ lastPlay' = p /\ kind[p] = "radio"
                         /\ lastPlay \in Press /\ lastPlay # p
                         => seq[lastPlay] < seq[p]]_vars

\* playback.go:672: "the stamp cannot expire between two verify ticks, so a
\* power-off mid-recall reliably stands the re-push down for the recall's whole
\* lifetime".
PowerOffStandsRecallDown ==
  [][\A p \in Press : pc[p] = "verifyGate" /\ pc'[p] = "verifyPush"
                         => offAt <= at[p]]_vars

\* wshandler.go:612: the wake of a recall needs no abort because "the press
\* itself is the user's most recent intent".
FirstWakeIsNewestIntent ==
  [][\A p \in Press : pc[p] = "wake" /\ pc'[p] # "wake" /\ power = "standby" /\ power' = "on"
                         => offAt <= at[p]]_vars

\* wshandler.go:280: a newer play of any kind makes the loops of an older recall
\* "stand down on it instead of fighting the newest recall for the transport".
LoopNeverFightsNewerPlay ==
  [][\A p \in Press, a \in App :
       pc[p] = "verifyGate" /\ pc'[p] = "verifyPush" /\ uri = a => at[a] < at[p]]_vars
=============================================================================
