----------------------------- MODULE ResumeGuard -----------------------------
(***************************************************************************)
(* The crash-loop guard of the automatic resumes                           *)
(* (internal/webui/resume_guard.go).  A stream that crashes the box is the *)
(* stream every boot would resume, so each automatic resume is counted,    *)
(* and the count is written to NAND before the push.  The record on NAND   *)
(* is shared with the plays of the user and with a timer that clears the   *)
(* count, none of which agree on who writes last.                          *)
(*                                                                         *)
(* A tick of `now` is StableAfter of the code or a fraction of it: the     *)
(* goroutines, whose waits are seconds, finish within a tick.  The box has *)
(* no battery clock; until it is synchronised it reads the time since the  *)
(* boot, and durations across processes are differences of such readings.  *)
(***************************************************************************)
EXTENDS Integers, FiniteSets

CONSTANTS
  Path,         \* goroutines of the automatic paths that can be in flight
  MaxAttempts,  \* maxAutoResumeAttempts (3)
  Window,       \* autoResumeAttemptWindow, in ticks
  StableAfter,  \* autoResumeStableAfter, in ticks
  Epoch,        \* how far an unsynchronised clock is behind, in ticks
  ColdClock,    \* whether a reboot loses the time of day
  NandMayFail,  \* whether a write to NAND may fail
  MaxTime,      \* bound on now
  MaxBoots,     \* bound on the number of agent processes
  MaxPlays      \* bound on the plays of the user

ASSUME GuardAssumption ==
  /\ IsFiniteSet(Path) /\ Path # {}
  /\ MaxAttempts \in Nat \ {0}
  /\ Window \in Nat \ {0} /\ StableAfter \in 1 .. Window /\ Epoch \in Nat
  /\ ColdClock \in BOOLEAN /\ NandMayFail \in BOOLEAN
  /\ MaxTime \in Nat /\ MaxBoots \in Nat /\ MaxPlays \in Nat

VARIABLES
  now,         \* true time
  up,          \* time since the box booted
  synced,      \* whether the clock of the box is right
  boot,        \* number of the agent process
  plays,       \* number of plays of the user so far
  lastPlay,    \* Server.lastPlay: which play, 0 for none
  attempts,    \* Server.resumeAttempts
  lastAt,      \* Server.lastResumeAt
  nand,        \* last-play.json
  writes,      \* records that plays and timers are about to write to NAND
  timers,      \* the attempts whose stability timer is armed
  deferred,    \* Server.deferred: the play it captured, 0 for none
  boxCmdMu,    \* the path that holds Server.boxCmdMu, or None
  pc,          \* where a path is
  kind,        \* "resume" or "spontaneous"
  captured,    \* the play a path captured
  noted,       \* the record a path is about to write
  streak,      \* history: pushes since the guard last had reason to forget
  lastPush,    \* history: true time of the last automatic push
  troubled     \* history: a write to NAND has failed, a path has started while another was in
               \* flight, or a reboot has lost the time of day

clocks  == <<now, up, synced>>
guard   == <<attempts, lastAt>>
paths   == <<pc, kind, captured, noted>>
history == <<streak, lastPush, troubled>>
vars == <<clocks, boot, plays, lastPlay, guard, nand, writes, timers, deferred,
          boxCmdMu, paths, history>>

None == "none"
Wall == IF synced THEN Epoch + now ELSE up

\* A time stamp: Go's carries the monotonic clock of its process as well.
Stamp == [boot |-> boot, mono |-> now, wall |-> Wall]
Never == [boot |-> 0, mono |-> 0, wall |-> 0]
Stamps == [boot : Nat, mono : Nat, wall : Nat]
Records == [play : Nat, attempts : Nat, at : Stamps]

\* time.Since: monotonic within a process, wall clocks otherwise.
Since(t) == CASE t = Never     -> Window
              [] t.boot = boot -> now - t.mono
              [] OTHER         -> Wall - t.wall

Init ==
  /\ now = 0 /\ up = 0 /\ synced = TRUE
  /\ boot = 1 /\ plays = 0 /\ lastPlay = 0
  /\ attempts = 0 /\ lastAt = Never
  /\ nand = [play |-> 0, attempts |-> 0, at |-> Never]
  /\ writes = {} /\ timers = {} /\ deferred = 0 /\ boxCmdMu = None
  /\ pc = [r \in Path |-> "idle"] /\ kind = [r \in Path |-> "resume"]
  /\ captured = [r \in Path |-> 0]
  /\ noted = [r \in Path |-> [play |-> 0, attempts |-> 0, at |-> Never]]
  /\ streak = 0 /\ lastPush = 0 /\ troubled = FALSE

-----------------------------------------------------------------------------
\* Mutant: the guard never forgets.
Blocked_ForGood == attempts >= MaxAttempts

\* autoResumeBlocked
Blocked == attempts >= MaxAttempts /\ Since(lastAt) < Window

Goto(r, l) == pc' = [pc EXCEPT ![r] = l]

\* atomicfile.WriteFile: the new record, or the old one after a failure.
WriteNand(w) ==
  /\ nand' \in {w} \cup (IF NandMayFail THEN {nand} ELSE {})
  /\ troubled' = (troubled \/ nand' # w)

\* Path r starts, alone or not.
Starts(r) == troubled' = (troubled \/ \E q \in Path \ {r} : pc[q] # "idle")

\* setLastPlay: RAM in one critical section, the write comes after it.
SetLastPlay ==
  /\ plays < MaxPlays
  /\ plays' = plays + 1 /\ lastPlay' = plays + 1
  /\ attempts' = 0 /\ lastAt' = Never
  /\ writes' = writes \cup {[play |-> plays + 1, attempts |-> 0, at |-> Never]}
  /\ streak' = 0
  /\ UNCHANGED <<clocks, boot, nand, timers, deferred, boxCmdMu, paths, lastPush, troubled>>

\* persistLastPlay of a play or of a stability timer; nothing orders these.
PersistLastPlay(w) ==
  /\ w \in writes
  /\ writes' = writes \ {w}
  /\ WriteNand(w)
  /\ streak' = IF nand' = nand THEN streak ELSE 0
  /\ UNCHANGED <<clocks, boot, plays, lastPlay, guard, timers, deferred,
                 boxCmdMu, paths, lastPush>>

\* Mutant: a path that does not look at the guard.
Trigger_Unguarded(r, k) ==
  /\ pc[r] = "idle" /\ lastPlay # 0
  /\ kind' = [kind EXCEPT ![r] = k]
  /\ captured' = [captured EXCEPT ![r] = lastPlay]
  /\ Goto(r, "settle") /\ Starts(r)
  /\ UNCHANGED <<clocks, boot, plays, lastPlay, guard, nand, writes, timers,
                 deferred, boxCmdMu, noted, streak, lastPush>>

\* ResumeLastPlay, RecoverAfterReconnect and handleSpontaneousSourceOff look at
\* the guard and capture the play before they settle.  lastSpontResume keeps
\* the recoveries of spontaneous power-offs apart.
Trigger(r, k) ==
  /\ pc[r] = "idle" /\ ~Blocked /\ lastPlay # 0
  /\ k = "spontaneous" =>
       \A q \in Path : pc[q] = "idle" \/ kind[q] # "spontaneous"
  /\ kind' = [kind EXCEPT ![r] = k]
  /\ captured' = [captured EXCEPT ![r] = lastPlay]
  /\ Goto(r, "settle") /\ Starts(r)
  /\ UNCHANGED <<clocks, boot, plays, lastPlay, guard, nand, writes, timers,
                 deferred, boxCmdMu, noted, streak, lastPush>>

\* A stop, a zone, a box in standby or one that plays: nothing to resume.
StandDown(r) ==
  /\ pc[r] = "settle"
  /\ Goto(r, "idle")
  /\ UNCHANGED <<clocks, boot, plays, lastPlay, guard, nand, writes, timers,
                 deferred, boxCmdMu, kind, captured, noted, history>>

\* The power-on resume and the recovery note the attempt under boxCmdMu, the
\* recovery of a spontaneous power-off before it asks for the lock.
Settled(r) ==
  /\ pc[r] = "settle"
  /\ Goto(r, IF kind[r] = "resume" THEN "lock" ELSE "note")
  /\ UNCHANGED <<clocks, boot, plays, lastPlay, guard, nand, writes, timers,
                 deferred, boxCmdMu, kind, captured, noted, history>>

\* resumeIsStale, under boxCmdMu.
Lock(r) ==
  /\ pc[r] = "lock" /\ boxCmdMu = None
  /\ IF captured[r] # lastPlay
     THEN Goto(r, "idle") /\ UNCHANGED boxCmdMu
     ELSE /\ Goto(r, IF kind[r] = "resume" THEN "note" ELSE "push")
          /\ boxCmdMu' = r
  /\ UNCHANGED <<clocks, boot, plays, lastPlay, guard, nand, writes, timers,
                 deferred, kind, captured, noted, history>>

\* noteAutoResumeAttempt, its critical section.
NoteAttempt(r) ==
  /\ pc[r] = "note"
  /\ attempts' = IF Since(lastAt) >= Window THEN 1 ELSE attempts + 1
  /\ lastAt' = Stamp
  /\ noted' = [noted EXCEPT ![r] =
                 [play |-> lastPlay, attempts |-> attempts', at |-> Stamp]]
  /\ Goto(r, "persist")
  /\ UNCHANGED <<clocks, boot, plays, lastPlay, nand, writes, timers, deferred,
                 boxCmdMu, kind, captured, history>>

\* Mutant: the count is kept in memory only.
PersistAttempt_MemoryOnly(r) ==
  /\ pc[r] = "persist"
  /\ timers' = timers \cup {noted[r].at}
  /\ Goto(r, IF kind[r] = "resume" THEN "push" ELSE "source")
  /\ UNCHANGED <<clocks, boot, plays, lastPlay, guard, nand, writes, deferred,
                 boxCmdMu, kind, captured, noted, history>>

\* The rest of it: the write to NAND, and the stability timer.
PersistAttempt(r) ==
  /\ pc[r] = "persist"
  /\ WriteNand(noted[r])
  /\ timers' = timers \cup {noted[r].at}
  /\ Goto(r, IF kind[r] = "resume" THEN "push" ELSE "source")
  /\ UNCHANGED <<clocks, boot, plays, lastPlay, guard, writes, deferred,
                 boxCmdMu, kind, captured, noted, streak, lastPush>>

\* armDeferredResume: a box in standby is never woken by the agent.
Defer(r) ==
  /\ pc[r] = "source"
  /\ deferred' = captured[r]
  /\ Goto(r, "idle")
  /\ UNCHANGED <<clocks, boot, plays, lastPlay, guard, nand, writes, timers,
                 boxCmdMu, kind, captured, noted, history>>

SourceAwake(r) ==
  /\ pc[r] = "source"
  /\ Goto(r, "lock")
  /\ UNCHANGED <<clocks, boot, plays, lastPlay, guard, nand, writes, timers,
                 deferred, boxCmdMu, kind, captured, noted, history>>

\* Mutant: a push takes its attempt back.
Push_Refunds(r) ==
  /\ pc[r] = "push"
  /\ attempts' = attempts - 1
  /\ boxCmdMu' = None
  /\ Goto(r, "idle")
  /\ UNCHANGED <<clocks, boot, plays, lastPlay, lastAt, nand, writes, timers,
                 deferred, kind, captured, noted, history>>

\* The push of a resume.  Two pushes a window apart are no crash loop.
Push(r) ==
  /\ pc[r] = "push"
  /\ IF kind[r] = "deferred" THEN UNCHANGED history
     ELSE /\ streak' = IF now - lastPush >= Window THEN 1 ELSE streak + 1
          /\ lastPush' = now /\ UNCHANGED troubled
  /\ boxCmdMu' = None
  /\ Goto(r, "idle")
  /\ UNCHANGED <<clocks, boot, plays, lastPlay, guard, nand, writes, timers,
                 deferred, kind, captured, noted>>

\* RunDeferredResume, on the user's own wake: the guard and the stale check
\* come before the lock, and the attempt is not counted.
RunDeferredResume(r) ==
  /\ pc[r] = "idle" /\ deferred # 0
  /\ deferred' = 0
  /\ IF Blocked \/ deferred # lastPlay
     THEN UNCHANGED <<pc, kind, captured, troubled>>
     ELSE /\ captured' = [captured EXCEPT ![r] = deferred]
          /\ kind' = [kind EXCEPT ![r] = "deferred"]
          /\ Goto(r, "deferLock") /\ Starts(r)
  /\ UNCHANGED <<clocks, boot, plays, lastPlay, guard, nand, writes, timers,
                 boxCmdMu, noted, streak, lastPush>>

DeferredLock(r) ==
  /\ pc[r] = "deferLock" /\ boxCmdMu = None
  /\ boxCmdMu' = r
  /\ Goto(r, "push")
  /\ UNCHANGED <<clocks, boot, plays, lastPlay, guard, nand, writes, timers,
                 deferred, kind, captured, noted, history>>

-----------------------------------------------------------------------------
Due(t) == t.mono + StableAfter <= now

\* Mutant: any timer clears the count, whichever attempt armed it.
ClearIfQuiet_AnyTimer(t) ==
  /\ t \in timers /\ Due(t)
  /\ timers' = timers \ {t}
  /\ attempts' = 0 /\ lastAt' = Never
  /\ writes' = writes \cup {[play |-> lastPlay, attempts |-> 0, at |-> Never]}
  /\ streak' = 0
  /\ UNCHANGED <<clocks, boot, plays, lastPlay, nand, deferred, boxCmdMu,
                 paths, lastPush, troubled>>

\* clearResumeAttemptsIfQuiet: the agent outlived the attempt.
ClearIfQuiet(t) ==
  /\ t \in timers /\ Due(t)
  /\ timers' = timers \ {t}
  /\ IF attempts = 0 \/ lastAt # t
     THEN UNCHANGED <<guard, writes, streak>>
     ELSE /\ attempts' = 0 /\ lastAt' = Never
          /\ writes' = writes \cup
               {[play |-> lastPlay, attempts |-> 0, at |-> Never]}
          /\ streak' = 0
  /\ UNCHANGED <<clocks, boot, plays, lastPlay, nand, deferred, boxCmdMu,
                 paths, lastPush, troubled>>

\* A tick is longer than anything a goroutine waits for.
Tick ==
  /\ now < MaxTime
  /\ \A r \in Path : pc[r] = "idle"
  /\ writes = {} /\ \A t \in timers : ~Due(t)
  /\ now' = now + 1 /\ up' = up + 1
  /\ UNCHANGED <<synced, boot, plays, lastPlay, guard, nand, writes, timers,
                 deferred, boxCmdMu, paths, history>>

\* clocksync sets the clock from an HTTP date, whenever the network is there.
SyncClock ==
  /\ ~synced /\ synced' = TRUE
  /\ UNCHANGED <<now, up, boot, plays, lastPlay, guard, nand, writes, timers,
                 deferred, boxCmdMu, paths, history>>

\* The box, or just the agent, dies and comes back: loadLastPlay.
Restart ==
  /\ boot < MaxBoots
  /\ boot' = boot + 1
  /\ \/ UNCHANGED <<up, synced>>
     \/ up' = 0 /\ IF ColdClock THEN synced' = FALSE ELSE UNCHANGED synced
  /\ lastPlay' = nand.play /\ attempts' = nand.attempts /\ lastAt' = nand.at
  /\ writes' = {} /\ timers' = {} /\ deferred' = 0 /\ boxCmdMu' = None
  /\ pc' = [r \in Path |-> "idle"] /\ troubled' = (troubled \/ ~synced')
  /\ UNCHANGED <<now, plays, nand, kind, captured, noted, streak, lastPush>>

-----------------------------------------------------------------------------
PathStep(r) ==
  \/ StandDown(r) \/ Settled(r) \/ Lock(r) \/ NoteAttempt(r) \/ PersistAttempt(r)
  \/ Defer(r) \/ SourceAwake(r) \/ Push(r) \/ DeferredLock(r)

Next ==
  \/ SetLastPlay \/ Tick \/ SyncClock \/ Restart
  \/ \E w \in writes : PersistLastPlay(w)
  \/ \E t \in timers : ClearIfQuiet(t)
  \/ \E r \in Path : \/ \E k \in {"resume", "spontaneous"} : Trigger(r, k)
                     \/ RunDeferredResume(r)
                     \/ PathStep(r)

Spec == Init /\ [][Next]_vars

\* Time passes, goroutines run on, and timers and writes are not held up.
FairSpec ==
  /\ Spec
  /\ WF_vars(Tick)
  /\ \A r \in Path : WF_vars(PathStep(r))
  /\ WF_vars(\E w \in writes : PersistLastPlay(w))
  /\ WF_vars(\E t \in timers : ClearIfQuiet(t))

-----------------------------------------------------------------------------
(* Properties. *)

\* The type of every variable.
TypeOK ==
  /\ now \in Nat /\ up \in Nat /\ synced \in BOOLEAN /\ boot \in Nat
  /\ plays \in Nat /\ lastPlay \in Nat /\ deferred \in Nat
  /\ attempts \in Nat /\ lastAt \in Stamps /\ nand \in Records
  /\ writes \subseteq Records /\ timers \subseteq Stamps
  /\ boxCmdMu \in Path \cup {None}
  /\ pc \in [Path -> {"idle", "settle", "lock", "note", "persist", "source",
                      "push", "deferLock"}]
  /\ kind \in [Path -> {"resume", "spontaneous", "deferred"}]
  /\ captured \in [Path -> Nat] /\ noted \in [Path -> Records]
  /\ streak \in Nat /\ lastPush \in Nat /\ troubled \in BOOLEAN

\* The guard is asked once, seconds before the attempt is counted, so every path
\* in flight may add one attempt after it has tripped, and no more than that,
\* in memory and on NAND, whatever the clock, the NAND and the restarts do.
AttemptsBounded ==
  /\ attempts <= MaxAttempts + Cardinality(Path) - 1
  /\ nand.attempts <= MaxAttempts + Cardinality(Path) - 1

\* A crash loop ends.  As long as one automatic path is in flight at a time, the NAND
\* takes its writes and the clock is right, at most one push more than the limit
\* happens without a play of the user, a stable playback or a quiet window,
\* however often the box reboots.  The one push is that of an attempt whose
\* count is overwritten by the late write of an earlier play.
CrashLoopEnds == ~troubled => streak <= MaxAttempts + 1

\* The count never falls while the last attempt is still on trial, unless the
\* user starts a play: no timer of an earlier attempt clears a later one.
OnlyStabilityForgets ==
  [][ /\ boot' = boot /\ attempts' < attempts /\ plays' = plays
      => Since(lastAt) >= StableAfter ]_vars

\* The guard never blocks the resume for good: a window later it lets one
\* attempt through again.
HealsItself == Blocked /\ now + Window <= MaxTime ~> ~Blocked

-----------------------------------------------------------------------------
(* What comments of the code claim and the code does not do. *)

\* A push by path r is happening.
Pushing(r) == pc[r] = "push" /\ pc'[r] = "idle" /\ boot' = boot

\* resume_standby.go:180: the attempt is persisted before the push, "if this
\* stream crashes the box, the incremented count is what the next boot loads".
CountSurvivesCrash ==
  [][\A r \in Path : Pushing(r) /\ kind[r] = "resume" => nand.attempts >= 1]_vars

\* resume_guard.go:18: "every automatic resume attempt is counted".
EveryResumeCounted ==
  [][\A r \in Path : Pushing(r) /\ kind[r] = "deferred" => attempts >= 1]_vars

\* resume_guard.go:23: "After maxAutoResumeAttempts consecutive attempts that never
\* reached stable playback, the automatic paths stand down".
StandsDownAtMax == attempts <= MaxAttempts

\* playback.go:563: the play is persisted "so the power-on resume survives an
\* agent restart".  Once all writes are done, NAND holds the last play.
NandHoldsLastPlay ==
  writes = {} /\ (\A r \in Path : pc[r] = "idle") => nand.play = lastPlay
=============================================================================
