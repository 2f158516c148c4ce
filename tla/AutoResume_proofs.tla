--------------------------- MODULE AutoResume_proofs ---------------------------
(***************************************************************************)
(* Proofs about AutoResume, for any goroutines, plays, windows and backoff *)
(* and any number of stops.  The invariant has a part per hazard: the      *)
(* latch, the mutex, the order in which plays are recorded and captured,   *)
(* the stops a sleeping path is bound for, and the box in standby.  The    *)
(* twenty steps of a path are taken together: a path ends, or it goes on.  *)
(***************************************************************************)
EXTENDS AutoResume, FiniteSetTheorems, TLAPS

-----------------------------------------------------------------------------
(* The inductive invariant. *)

\* Plays that have been recorded.
Recorded == {y \in Play : recorded[y] # 0}

ClockInv == clock <= events

\* The latch of the re-push is up exactly while one goroutine re-pushes.
LatchInv == IF rePushInFlight THEN \E r \in Path : RePushing = {r} ELSE RePushing = {}

\* boxCmdMu belongs to the play of the app between its push and its record, and
\* to a path that pushes.
MutexInv ==
  /\ \A a \in App : boxCmdMu = a <=> ppc[a] \in {"push", "record"}
  /\ \A r \in Path : boxCmdMu = r <=> pc[r] = "push"

\* Plays are numbered in the order they were recorded, the last play has the highest
\* number, and a play is numbered once it was recorded.
RecordInv ==
  /\ IsFiniteSet(Recorded)
  /\ \A x \in Play : recorded[x] <= Cardinality(Recorded) /\ recorded[x] <= recorded[lastPlay.by]
  /\ recorded[lastPlay.by] # 0
  /\ \A a \in App : ppc[a] # "done" => recorded[a] = 0
  /\ \A p \in Press : ppc[p] \in {"idle", "record"} => recorded[p] = 0

\* What a path has captured was recorded, and so was what the deferred resume holds.
Captures(r) == pc[r] # "idle" /\ (kind[r] = "rePush" => pc[r] \in {"lock", "push"})
CaptureInv ==
  /\ deferred # None => recorded[deferred] # 0
  /\ \A r \in Path :
       /\ pc[r] \in {"zone", "wake", "busy", "source"} => kind[r] # "rePush"
       /\ pc[r] = "claim" => kind[r] = "rePush"
       /\ Captures(r) => captured[r] # None /\ recorded[captured[r]] # 0

\* The transport holds a play of the app only once it was recorded, or is about to be;
\* and a path that pushes has captured no older play than any of the app.
KeepInv ==
  /\ uri \in App => recorded[uri] # 0 \/ ppc[uri] = "record"
  /\ \A r \in Path : pc[r] = "push" /\ kind[r] \in {"wake", "reconnect", "drop"} =>
       \A a \in App : recorded[a] <= recorded[captured[r]]

\* A stop that a path is bound to hear of is still within its window when the sleep
\* ends, or is numbered higher than what the wait began with.
HeardInv ==
  \A r \in Path :
    /\ pend[r] = "stop" => \/ pc[r] = "settle" /\ kind[r] \in {"drop", "rePush"} /\ userStop.age + wait[r] < StopWindow
                           \/ pc[r] = "ownership" /\ userStop.n > from[r]
    /\ pend[r] = "off" => \/ pc[r] = "settle" /\ kind[r] \in {"wake", "drop", "rePush"} /\ standbyStop.age + wait[r] < StopWindow
                          \/ pc[r] = "ownership" /\ standbyStop.n > from[r]
    /\ from[r] <= clock

\* A box in standby plays nothing and has sent no frame of a wake; only the paths that
\* were there when it went off are past their look at it.
SleepInv ==
  power = "standby" => ~playing /\ frames = {} /\ PastLook \subseteq late

IInv == TypeOK /\ ClockInv /\ LatchInv /\ MutexInv /\ RecordInv /\ CaptureInv /\ KeepInv /\ HeardInv /\ SleepInv

-----------------------------------------------------------------------------
\* A step of a path ends it, with the mutex and perhaps a push or a deferred resume, ...
Ends(r) ==
  /\ Finish(r)
  /\ boxCmdMu' = IF pc[r] = "push" THEN None ELSE boxCmdMu
  /\ uri' = uri \/ (pc[r] = "push" /\ uri' = captured[r])
  /\ deferred' = deferred \/ (pc[r] = "source" /\ deferred' = captured[r])

\* ... or takes it on to l, with the mutex when that is the push.
Passes(r, l) ==
  /\ l = "claim" => kind[r] = "rePush"
  /\ l = "busy" => pc[r] = "wake"
  /\ l \in {"zone", "wake", "source"} => kind[r] # "rePush"
  /\ l = "lock" => pc[r] \in {"claim", "busy", "source", "zone"} \/ kind[r] # "rePush"
  /\ l = "push" => /\ pc[r] = "lock" /\ boxCmdMu = None
                   /\ kind[r] \in {"wake", "reconnect", "drop"} => captured[r] = lastPlay.by
GoesOn(r) ==
  /\ pc[r] # "push"
  /\ \E l \in PCs \ {"idle"} : Passes(r, l) /\ Goto(r, l) /\ boxCmdMu' = IF l = "push" THEN r ELSE boxCmdMu
  /\ captured' = IF pc[r] = "claim" THEN [captured EXCEPT ![r] = lastPlay.by] ELSE captured
  /\ UNCHANGED <<kind, rePushInFlight, uri, deferred>>

\* The steps of a path, by what they have in common.
LEMMA PathEffect ==
  ASSUME NEW r \in Path, TypeOK, PathStep(r)
  PROVE  /\ pc[r] # "idle" /\ UNCHANGED plays /\ (lastPlay' = lastPlay \/ lastPlay'.by = lastPlay.by)
         /\ Ends(r) \/ GoesOn(r)
<1> USE DEF Ends, GoesOn, Passes, Goto, PCs, plays, server, box
<1>1. CASE StandDown(r) BY <1>1 DEF StandDown
<1>2. CASE WakeSettled(r) BY <1>2 DEF WakeSettled, Settled, Unless, Continue
<1>3. CASE WakeZoned(r) BY <1>3 DEF WakeZoned, Unless, Continue
<1>4. CASE WakeLook(r) BY <1>4 DEF WakeLook
<1>5. CASE WakeAndWait(r)
  <2>1. Passes(r, "busy") BY <1>5 DEF WakeAndWait
  <2>2. GoesOn(r) BY <1>5, <2>1 DEF WakeAndWait, Continue
  <2> QED BY <1>5, <2>2 DEF WakeAndWait
<1>6. CASE WakeBusy(r) BY <1>6 DEF WakeBusy, Unless, Continue
<1>7. CASE RecoverSettled(r) BY <1>7 DEF RecoverSettled, Settled, Unless, Continue
<1>8. CASE RecoverLook(r) BY <1>8 DEF RecoverLook, Unless, Continue
<1>9. CASE DropSettled(r) BY <1>9 DEF DropSettled, Settled, Unless, Continue
<1>10. CASE DropAwake(r) BY <1>10 DEF DropAwake, Unless, Continue
<1>11. CASE DropDefer(r) BY <1>11 DEF DropDefer
<1>12. CASE DeferredZoned(r) BY <1>12 DEF DeferredZoned, Unless, Continue
<1>13. CASE RePushSettled(r) BY <1>13 DEF RePushSettled, Settled, Unless, Continue
<1>14. CASE RePushOwned(r)
  <2>1. Passes(r, "ownership") OBVIOUS
  <2>2. GoesOn(r) BY <1>14, <2>1 DEF RePushOwned, Settled
  <2> QED BY <1>14, <2>2 DEF RePushOwned, Settled
<1>15. CASE RePushOwnershipEnds(r) BY <1>15 DEF RePushOwnershipEnds, Unless, Continue
<1>16. CASE RePushLook(r) BY <1>16 DEF RePushLook, Continue
<1>17. CASE RePushGiveUp(r) BY <1>17 DEF RePushGiveUp
<1>18. CASE RePushClaim(r)
  <2>1. lastPlay'.by = lastPlay.by BY <1>18 DEF RePushClaim, TypeOK
  <2>2. GoesOn(r)
    <3>1. Passes(r, "lock") BY <1>18 DEF RePushClaim
    <3> QED BY <1>18, <3>1 DEF RePushClaim
  <2> QED BY <1>18, <2>1, <2>2 DEF RePushClaim
<1>19. CASE TakeLock(r) BY <1>19 DEF TakeLock, LockResume, LockRePush, LockUnchecked, Lock, Continue, Stale
<1>20. CASE Push(r) BY <1>20 DEF Push, SetURI
<1> QED BY <1>1, <1>2, <1>3, <1>4, <1>5, <1>6, <1>7, <1>8, <1>9, <1>10, <1>11, <1>12, <1>13, <1>14,
           <1>15, <1>16, <1>17, <1>18, <1>19, <1>20 DEF PathStep

\* No step raises the latch twice or leaves it up behind a re-push that ended.
LEMMA LatchStep ==
  ASSUME TypeOK, LatchInv, [Next]_vars
  PROVE  LatchInv'
<1> USE DEF LatchInv, RePushing
<1>1. ASSUME NEW r \in Path, Begins(r)
      PROVE  LatchInv'
  <2>1. CASE ~HandleStreamDisconnect(r)
    <3>1. UNCHANGED rePushInFlight /\ \E k \in Kinds \ {"rePush"}, l \in PCs : pc[r] = "idle" /\ Goto(r, l) /\ kind' = [kind EXCEPT ![r] = k]
      BY <1>1, <2>1 DEF Begins, ResumeLastPlay, RecoverAfterReconnect, HandleSpontaneousSourceOff, RunDeferredResume,
           HandleStreamTitle, Begin, server, Kinds, PCs
    <3>2. RePushing' = RePushing BY <3>1 DEF Goto, TypeOK
    <3> QED BY <3>1, <3>2
  <2>2. CASE HandleStreamDisconnect(r)
    <3>1. ~rePushInFlight /\ rePushInFlight' /\ pc[r] = "idle" /\ Goto(r, "settle") /\ kind' = [kind EXCEPT ![r] = "rePush"]
      BY <2>2 DEF HandleStreamDisconnect, Begin
    <3>2. RePushing' = {r} BY <3>1 DEF Goto, TypeOK
    <3> QED BY <3>1, <3>2
  <2> QED BY <2>1, <2>2
<1>2. ASSUME NEW r \in Path, PathStep(r)
      PROVE  LatchInv'
  <2>1. CASE Ends(r)
    <3>1. RePushing' = RePushing \ {r} BY <2>1 DEF Ends, Finish, Goto, TypeOK
    <3>2. r \in RePushing <=> kind[r] = "rePush" BY <1>2, PathEffect
    <3>3. rePushInFlight' <=> rePushInFlight /\ kind[r] # "rePush" BY <2>1 DEF Ends, Finish
    <3>4. CASE rePushInFlight
      <4>1. PICK q \in Path : RePushing = {q} BY <3>4
      <4> HIDE DEF RePushing
      <4> QED BY <3>1, <3>2, <3>3, <3>4, <4>1
    <3>5. CASE ~rePushInFlight BY <3>1, <3>3, <3>5
    <3> QED BY <3>4, <3>5
  <2>2. CASE GoesOn(r)
    <3>1. RePushing' = RePushing BY <1>2, <2>2, PathEffect DEF GoesOn, Goto, TypeOK
    <3> QED BY <2>2, <3>1 DEF GoesOn
  <2> QED BY <1>2, <2>1, <2>2, PathEffect
<1>3. CASE UNCHANGED <<pc, kind, rePushInFlight>> BY <1>3
<1>4. ASSUME NEW a \in App, AppStart(a) \/ AppStep(a) PROVE UNCHANGED <<pc, kind, rePushInFlight>>
  BY <1>4 DEF AppStart, AppStep, AppPush, AppFails, AppRecord, SetLastPlay, path, server
<1>5. ASSUME NEW p \in Press, OnPresetSelected(p) \/ PressRecord(p) \/ PressPush(p) PROVE UNCHANGED <<pc, kind, rePushInFlight>>
  BY <1>5 DEF OnPresetSelected, PressRecord, PressPush, SetLastPlay, path, server
<1>6. ASSUME \/ \E f \in frames : IgnoreFrame(f)
             \/ OnUserStop \/ (\E b \in BOOLEAN : OnPowerOff(b)) \/ OnPowerOn \/ StreamEnds \/ Tick
      PROVE  UNCHANGED <<pc, kind, rePushInFlight>>
  BY <1>6 DEF IgnoreFrame, OnUserStop, OnPowerOff, OnPowerOn, StreamEnds, Tick, path, server
<1>7. CASE UNCHANGED vars BY <1>7 DEF vars, path, server
<1> QED BY <1>1, <1>2, <1>3, <1>4, <1>5, <1>6, <1>7 DEF Next

-----------------------------------------------------------------------------
\* What the beginning, an action in its midst and the end of a path leave of the types.
PathTypes ==
  /\ pc \in [Path -> PCs] /\ kind \in [Path -> Kinds] /\ wait \in [Path -> Nat]
  /\ captured \in [Path -> Play \cup {None}] /\ from \in [Path -> 0 .. MaxEvents]
  /\ pend \in [Path -> {"none", "stop", "far", "off"}] /\ late \subseteq Path /\ rePushInFlight \in BOOLEAN

\* The end of a path keeps the types.
LEMMA FinishTypes ==
  ASSUME NEW r \in Path, TypeOK, Finish(r)
  PROVE  PathTypes'
<1>1. rePushInFlight' \in BOOLEAN BY DEF Finish
<1>2. late' \subseteq Path BY DEF Finish, TypeOK
<1>3. /\ pc' \in [Path -> PCs] /\ kind' \in [Path -> Kinds] /\ wait' \in [Path -> Nat]
      /\ captured' \in [Path -> Play \cup {None}] /\ from' \in [Path -> 0 .. MaxEvents]
  BY AutoAssumption DEF TypeOK, Finish, Goto, PCs, Kinds
<1>4. pend' \in [Path -> {"none", "stop", "far", "off"}] BY DEF TypeOK, Finish
<1> QED BY <1>1, <1>2, <1>3, <1>4 DEF PathTypes

\* So does a step that takes it on, ...
LEMMA ContinueTypes ==
  ASSUME NEW r \in Path, NEW l \in PCs, TypeOK, Continue(r, l), UNCHANGED rePushInFlight
  PROVE  PathTypes'
BY DEF TypeOK, Continue, Goto, PathTypes

\* ... and its beginning.
LEMMA BeginTypes ==
  ASSUME NEW r \in Path, NEW l \in PCs, NEW k \in Kinds, NEW x \in Play \cup {None}, NEW n \in Nat,
         TypeOK, Begin(r, k, l, x, n), rePushInFlight' \in BOOLEAN
  PROVE  PathTypes'
<1>1. pend' \in [Path -> {"none", "stop", "far", "off"}]
  <2>1. \E p \in {"none", "stop", "off"} : pend' = [pend EXCEPT ![r] = p]
    BY DEF Begin
  <2> QED BY <2>1 DEF TypeOK
<1>2. /\ pc' \in [Path -> PCs] /\ kind' \in [Path -> Kinds] /\ wait' \in [Path -> Nat]
      /\ captured' \in [Path -> Play \cup {None}]
  BY DEF TypeOK, Begin, Goto
<1> QED BY <1>1, <1>2 DEF TypeOK, Begin, PathTypes

\* The backoff is a number of ticks.
LEMMA BackoffType == ASSUME NEW n \in Nat PROVE Backoff(n) \in Nat
BY AutoAssumption DEF Backoff, Doubled, Smaller

\* A push keeps the types of the box.
LEMMA SetURITypes ==
  ASSUME NEW x \in Play, TypeOK, SetURI(x)
  PROVE  power' \in {"on", "standby"} /\ playing' \in BOOLEAN /\ uri' \in Play /\ frames' \subseteq {"wake", "exit"}
BY DEF TypeOK, SetURI, PowerOn

\* Finitely many plays have been recorded.
LEMMA RecordedFinite ==
  ASSUME RecordInv
  PROVE  Cardinality(Recorded) \in Nat
BY FS_CardinalityType DEF RecordInv

\* Every step keeps the types.
LEMMA TypeStep ==
  ASSUME IInv, [Next]_vars
  PROVE  TypeOK' /\ ClockInv'
<1> USE DEF TypeOK, ClockInv
<1>0. TypeOK /\ ClockInv BY DEF IInv
<1> USE <1>0, AutoAssumption
<1>1. ASSUME NEW r \in Path, Begins(r)
      PROVE  TypeOK' /\ ClockInv'
  <2> USE DEF Kinds, PCs
  <2>1. CASE ResumeLastPlay(r)
    <3>1. PathTypes' BY <2>1, BeginTypes, ZenonT(60) DEF ResumeLastPlay
    <3>2. lastPlay' \in [by : Play, rePushes : 0 .. MaxRePushes, failed : BOOLEAN]
      <4>1. lastPlay' = [by |-> lastPlay.by, rePushes |-> 0, failed |-> FALSE] BY <2>1 DEF ResumeLastPlay
      <4> QED BY <4>1
    <3> QED BY <2>1, <3>1, <3>2 DEF ResumeLastPlay, stamps, plays, PathTypes
  <2>2. CASE RecoverAfterReconnect(r)
    <3>1. PathTypes' BY <2>2, BeginTypes, ZenonT(60) DEF RecoverAfterReconnect, server
    <3> QED BY <2>2, <3>1 DEF RecoverAfterReconnect, stamps, server, box, plays, PathTypes
  <2>3. CASE HandleSpontaneousSourceOff(r)
    <3>1. PathTypes' BY <2>3, BeginTypes, ZenonT(60) DEF HandleSpontaneousSourceOff, server
    <3> QED BY <2>3, <3>1 DEF HandleSpontaneousSourceOff, server, box, plays, PathTypes
  <2>4. CASE RunDeferredResume(r)
    <3>1. PathTypes' BY <2>4, BeginTypes DEF RunDeferredResume
    <3> QED BY <2>4, <3>1 DEF RunDeferredResume, stamps, plays, PathTypes
  <2>5. CASE HandleStreamDisconnect(r)
    <3>1. Backoff(lastPlay.rePushes) \in Nat BY BackoffType
    <3>2. PathTypes' BY <2>5, <3>1, BeginTypes DEF HandleStreamDisconnect
    <3> QED BY <2>5, <3>2 DEF HandleStreamDisconnect, stamps, box, plays, PathTypes
  <2>6. CASE HandleStreamTitle(r)
    <3>1. PathTypes' BY <2>6, BeginTypes DEF HandleStreamTitle, server
    <3> QED BY <2>6, <3>1 DEF HandleStreamTitle, stamps, server, box, plays, PathTypes
  <2> QED BY <1>1, <2>1, <2>2, <2>3, <2>4, <2>5, <2>6 DEF Begins
<1>2. ASSUME NEW r \in Path, PathStep(r)
      PROVE  TypeOK' /\ ClockInv'
  <2> USE DEF stamps, box, plays, PCs
  <2>0. ASSUME NEW stand, NEW l \in PCs, Unless(stand, r, l)
        PROVE  TypeOK' /\ ClockInv'
    <3>1. PathTypes' BY <2>0, FinishTypes, ContinueTypes, ZenonT(60) DEF Unless
    <3> QED BY <2>0, <3>1 DEF Unless, PathTypes
  <2>1. CASE StandDown(r)
    <3>1. PathTypes' BY <2>1, FinishTypes DEF StandDown
    <3> QED BY <2>1, <3>1 DEF StandDown, PathTypes
  <2>2. CASE WakeSettled(r) BY <2>2, <2>0 DEF WakeSettled
  <2>3. CASE WakeZoned(r) BY <2>3, <2>0 DEF WakeZoned
  <2>4. CASE WakeLook(r) BY <2>4 DEF WakeLook, server, Goto, Never
  <2>5. CASE WakeAndWait(r)
    <3>1. PathTypes' BY <2>5, ContinueTypes DEF WakeAndWait, server
    <3> QED BY <2>5, <3>1 DEF WakeAndWait, server, PowerOn, PathTypes
  <2>6. CASE WakeBusy(r)
    <3>1. PICK busy \in {playing, FALSE} : Unless(busy, r, "lock") BY <2>6 DEF WakeBusy
    <3> QED BY <2>0, <3>1
  <2>7. CASE RecoverSettled(r) BY <2>7, <2>0 DEF RecoverSettled
  <2>8. CASE RecoverLook(r) BY <2>8, <2>0 DEF RecoverLook
  <2>9. CASE DropSettled(r) BY <2>9, <2>0 DEF DropSettled
  <2>10. CASE DropAwake(r) BY <2>10, <2>0 DEF DropAwake
  <2>11. CASE DropDefer(r)
    <3>1. PathTypes' BY <2>11, FinishTypes DEF DropDefer
    <3> QED BY <2>11, <3>1 DEF DropDefer, PathTypes
  <2>12. CASE DeferredZoned(r) BY <2>12, <2>0 DEF DeferredZoned
  <2>13. CASE RePushSettled(r) BY <2>13, <2>0 DEF RePushSettled
  <2>14. CASE RePushOwned(r) BY <2>14 DEF RePushOwned, server, Goto, history
  <2>15. CASE RePushOwnershipEnds(r) BY <2>15, <2>0 DEF RePushOwnershipEnds
  <2>16. CASE RePushLook(r)
    <3>1. PathTypes' BY <2>16, FinishTypes, ContinueTypes DEF RePushLook
    <3> QED BY <2>16, <3>1 DEF RePushLook, PathTypes
  <2>17. CASE RePushGiveUp(r)
    <3>1. PathTypes' BY <2>17, FinishTypes DEF RePushGiveUp
    <3> QED BY <2>17, <3>1 DEF RePushGiveUp, PathTypes
  <2>18. CASE RePushClaim(r) BY <2>18 DEF RePushClaim, Goto, history
  <2>19. CASE TakeLock(r)
    <3>1. PICK stand : Lock(r, stand) BY <2>19 DEF TakeLock, LockResume, LockRePush, LockUnchecked
    <3>2. PathTypes' BY <3>1, FinishTypes, ContinueTypes DEF Lock
    <3> QED BY <3>1, <3>2 DEF Lock, PathTypes
  <2>20. CASE Push(r)
    <3>1. PathTypes' BY <2>20, FinishTypes DEF Push
    <3>2. captured[r] \in Play BY <2>20 DEF IInv, CaptureInv, Captures, Push
    <3> QED BY <2>20, <3>1, <3>2, SetURITypes DEF Push, PathTypes
  <2> QED BY <1>2, <2>1, <2>2, <2>3, <2>4, <2>5, <2>6, <2>7, <2>8, <2>9, <2>10, <2>11, <2>12, <2>13, <2>14,
             <2>15, <2>16, <2>17, <2>18, <2>19, <2>20 DEF PathStep
<1>3. Cardinality(Recorded) \in Nat BY RecordedFinite DEF IInv
<1>4. ASSUME NEW a \in App, AppStart(a) \/ AppStep(a)
      PROVE  TypeOK' /\ ClockInv'
  <2> USE DEF stamps, server, path, history
  <2>1. CASE AppStart(a) BY <2>1 DEF AppStart, NoteUserPlay, Never, PowerOn, PlayAt
  <2>2. CASE AppPush(a) BY <2>2, SetURITypes DEF AppPush, PlayAt, Play
  <2>3. CASE AppFails(a) BY <2>3 DEF AppFails, PlayAt, box
  <2>4. CASE AppRecord(a) BY <2>4, <1>3 DEF AppRecord, PlayAt, SetLastPlay, Recorded, Play, box
  <2> QED BY <1>4, <2>1, <2>2, <2>3, <2>4 DEF AppStep
<1>5. ASSUME NEW p \in Press, OnPresetSelected(p) \/ PressRecord(p) \/ PressPush(p)
      PROVE  TypeOK' /\ ClockInv'
  <2> USE DEF stamps, server, path, history
  <2>1. CASE OnPresetSelected(p) BY <2>1 DEF OnPresetSelected, NoteUserPlay, Never, PowerOn, PlayAt
  <2>2. CASE PressRecord(p) BY <2>2, <1>3 DEF PressRecord, PlayAt, SetLastPlay, Recorded, Play, box
  <2>3. CASE PressPush(p) BY <2>3, SetURITypes DEF PressPush, PlayAt, Play
  <2> QED BY <1>5, <2>1, <2>2, <2>3
<1>6. ASSUME NEW f \in frames, IgnoreFrame(f) PROVE TypeOK' /\ ClockInv'
  BY <1>6 DEF IgnoreFrame, stamps, path, plays, history
<1>7. CASE OnUserStop
  <2>1. \A r \in Path : pend'[r] \in {pend[r], "stop", "far"} BY <1>7 DEF OnUserStop
  <2>3. pend' \in [Path -> {"none", "stop", "far", "off"}] BY <1>7, <2>1 DEF OnUserStop
  <2>2. clock + 1 \in 0 .. MaxEvents /\ events' \in 0 .. MaxEvents /\ clock' <= events' BY <1>7 DEF OnUserStop
  <2>4. userStop' \in [age : 0 .. StopWindow, n : 0 .. MaxEvents] /\ clock' = clock + 1 BY <1>7, <2>2 DEF OnUserStop
  <2>5. /\ playing' = FALSE
        /\ UNCHANGED <<standbyStop, userPlay, spontResume, lastPlay, rePushInFlight, deferred, boxCmdMu, power, uri, frames,
                       pc, kind, wait, captured, from, ppc, recorded, late>>
    BY <1>7 DEF OnUserStop, server, path, plays
  <2> QED BY <2>2, <2>3, <2>4, <2>5
<1>8. ASSUME NEW b \in BOOLEAN, OnPowerOff(b) PROVE TypeOK' /\ ClockInv'
  <2>0. /\ power' = "standby" /\ playing' = FALSE /\ events' \in 0 .. MaxEvents /\ events' = events + 1
        /\ UNCHANGED <<userPlay, spontResume, lastPlay, rePushInFlight, deferred, boxCmdMu, uri, frames,
                       pc, kind, wait, captured, from, ppc, recorded>>
    BY <1>8 DEF OnPowerOff, server, path, plays
  <2>1. CASE b
    <3>1. pend' = [r \in Path |-> IF HearsOff(r) THEN "off" ELSE pend[r]] BY <1>8, <2>1 DEF OnPowerOff
    <3>2. pend' \in [Path -> {"none", "stop", "far", "off"}] BY <3>1
    <3>3. clock + 1 \in 0 .. MaxEvents /\ events + 1 \in 0 .. MaxEvents BY <1>8 DEF OnPowerOff
    <3>5. userStop' \in [age : 0 .. StopWindow, n : 0 .. MaxEvents] BY <1>8, <2>1, <3>3 DEF OnPowerOff
    <3>6. standbyStop' \in [age : 0 .. StopWindow, n : 0 .. MaxEvents] BY <1>8, <2>1, <3>5 DEF OnPowerOff
    <3>7. clock' \in 0 .. MaxEvents /\ clock' <= events' BY <1>8, <2>1, <3>3 DEF OnPowerOff
    <3>4. late' \subseteq Path BY <1>8 DEF OnPowerOff, PastLook
    <3> QED BY <2>0, <3>2, <3>3, <3>4, <3>5, <3>6, <3>7
  <2>2. CASE ~b
    <3>1. late' \subseteq Path BY <1>8 DEF OnPowerOff, PastLook
    <3>2. UNCHANGED <<clock, userStop, standbyStop, pend>> /\ clock <= events + 1 BY <1>8, <2>2 DEF OnPowerOff
    <3> QED BY <2>0, <3>1, <3>2
  <2> QED BY <2>1, <2>2
<1>9. CASE OnPowerOn BY <1>9 DEF OnPowerOn, PowerOn, stamps, server, path, plays, history
<1>10. CASE StreamEnds BY <1>10 DEF StreamEnds, stamps, server, path, plays, history
<1>11. CASE Tick BY <1>11 DEF Tick, Smaller, server, box, plays, history
<1>12. CASE UNCHANGED vars BY <1>12 DEF vars, stamps, server, box, path, plays, history
<1> QED BY <1>1, <1>2, <1>4, <1>5, <1>6, <1>7, <1>8, <1>9, <1>10, <1>11, <1>12 DEF Next

-----------------------------------------------------------------------------
\* Every step leaves boxCmdMu with whoever pushes.
LEMMA MutexStep ==
  ASSUME IInv, [Next]_vars
  PROVE  MutexInv'
<1> USE DEF MutexInv
<1>0. /\ MutexInv /\ App \cap Path = {} /\ App \cap Press = {} /\ None \notin App \cup Path
      /\ pc \in [Path -> PCs] /\ DOMAIN ppc = App \cup Press
  BY AutoAssumption DEF IInv, TypeOK
<1>1. ASSUME NEW r \in Path, Begins(r)
      PROVE  MutexInv'
  <2>1. /\ UNCHANGED <<boxCmdMu, ppc>> /\ pc[r] = "idle"
        /\ \E l \in PCs \ {"push"} : Goto(r, l)
    BY <1>1 DEF Begins, ResumeLastPlay, RecoverAfterReconnect, HandleSpontaneousSourceOff, RunDeferredResume,
       HandleStreamDisconnect, HandleStreamTitle, Begin, plays, PCs
  <2> QED BY <1>0, <2>1 DEF Goto
<1>2. ASSUME NEW r \in Path, PathStep(r)
      PROVE  MutexInv'
  <2>0. UNCHANGED ppc /\ (Ends(r) \/ GoesOn(r)) BY <1>2, PathEffect DEF IInv, plays
  <2>1. CASE Ends(r)
    <3>1. pc' = [pc EXCEPT ![r] = "idle"] BY <2>1 DEF Ends, Finish, Goto
    <3>2. boxCmdMu' = IF pc[r] = "push" THEN None ELSE boxCmdMu BY <2>1 DEF Ends
    <3> QED BY <1>0, <2>0, <3>1, <3>2
  <2>2. CASE GoesOn(r)
    <3>1. PICK l \in PCs \ {"idle"} : Passes(r, l) /\ Goto(r, l) /\ boxCmdMu' = IF l = "push" THEN r ELSE boxCmdMu
      BY <2>2 DEF GoesOn
    <3>2. pc' = [pc EXCEPT ![r] = l] /\ pc[r] # "push" /\ l # "idle" BY <2>2, <3>1 DEF GoesOn, Goto
    <3>3. CASE l = "push"
      <4>1. boxCmdMu = None /\ boxCmdMu' = r BY <3>1, <3>3 DEF Passes
      <4> QED BY <1>0, <2>0, <3>2, <3>3, <4>1
    <3>4. CASE l # "push"
      <4>1. boxCmdMu' = boxCmdMu BY <3>1, <3>4
      <4> QED BY <1>0, <2>0, <3>2, <3>4, <4>1
    <3> QED BY <3>3, <3>4
  <2> QED BY <2>0, <2>1, <2>2
<1>3. ASSUME NEW a \in App, AppStart(a) \/ AppStep(a) PROVE MutexInv'
  <2>0. UNCHANGED pc BY <1>3 DEF AppStart, AppStep, AppPush, AppFails, AppRecord, path
  <2>1. CASE AppStart(a) BY <1>0, <2>0, <2>1 DEF AppStart, PlayAt
  <2>2. CASE AppPush(a) BY <1>0, <2>0, <2>2 DEF AppPush, PlayAt
  <2>3. CASE AppFails(a) BY <1>0, <2>0, <2>3 DEF AppFails, PlayAt
  <2>4. CASE AppRecord(a) BY <1>0, <2>0, <2>4 DEF AppRecord, PlayAt
  <2> QED BY <1>3, <2>1, <2>2, <2>3, <2>4 DEF AppStep
<1>4. ASSUME NEW p \in Press, OnPresetSelected(p) \/ PressRecord(p) \/ PressPush(p) PROVE MutexInv'
  <2>1. UNCHANGED <<pc, boxCmdMu>> /\ \E l \in {"record", "push", "done"} : ppc' = [ppc EXCEPT ![p] = l]
    BY <1>4 DEF OnPresetSelected, PressRecord, PressPush, path, PlayAt
  <2> QED BY <1>0, <2>1
<1>5. CASE UNCHANGED <<pc, boxCmdMu, ppc>> BY <1>0, <1>5
<1>6. ASSUME \/ \E f \in frames : IgnoreFrame(f)
             \/ OnUserStop \/ (\E b \in BOOLEAN : OnPowerOff(b)) \/ OnPowerOn \/ StreamEnds \/ Tick \/ UNCHANGED vars
      PROVE  UNCHANGED <<pc, boxCmdMu, ppc>>
  BY <1>6 DEF IgnoreFrame, OnUserStop, OnPowerOff, OnPowerOn, StreamEnds, Tick, path, plays, vars
<1> QED BY <1>1, <1>2, <1>3, <1>4, <1>5, <1>6 DEF Next

-----------------------------------------------------------------------------
\* A play that is recorded gets the highest number.
LEMMA SetLastPlayEffect ==
  ASSUME TypeOK, RecordInv, NEW x \in Play, recorded[x] = 0, SetLastPlay(x)
  PROVE  /\ lastPlay'.by = x /\ recorded' = [recorded EXCEPT ![x] = Cardinality(Recorded) + 1]
         /\ IsFiniteSet(Recorded)' /\ Cardinality(Recorded)' = Cardinality(Recorded) + 1
         /\ Cardinality(Recorded) \in Nat
<1>1. Cardinality(Recorded) \in Nat BY RecordedFinite
<1>2. recorded' = [recorded EXCEPT ![x] = Cardinality(Recorded) + 1] /\ lastPlay'.by = x
  <2>1. recorded' = [recorded EXCEPT ![x] = 1 + Cardinality(Recorded)] BY DEF SetLastPlay, Recorded
  <2>2. 1 + Cardinality(Recorded) = Cardinality(Recorded) + 1 BY <1>1
  <2>3. lastPlay'.by = x BY DEF SetLastPlay
  <2> QED BY <2>1, <2>2, <2>3
<1>3. Recorded' = Recorded \cup {x}
  <2>1. Cardinality(Recorded) + 1 # 0 BY <1>1
  <2>2. \A y \in Play : recorded'[y] = IF y = x THEN Cardinality(Recorded) + 1 ELSE recorded[y] BY <1>2 DEF TypeOK
  <2>3. \A y \in Play : recorded'[y] # 0 <=> (y = x \/ recorded[y] # 0) BY <2>1, <2>2
  <2> QED BY <2>3 DEF Recorded
<1>4. x \notin Recorded BY DEF Recorded
<1> QED BY <1>1, <1>2, <1>3, <1>4, FS_AddElement DEF RecordInv

\* Every step keeps the order of the records.
LEMMA RecordStep ==
  ASSUME IInv, [Next]_vars
  PROVE  RecordInv'
<1>0. TypeOK /\ RecordInv /\ App \cap Press = {} /\ Play = App \cup Press \cup {Old} BY AutoAssumption DEF IInv, Play
<1>1. ASSUME NEW x \in App \cup Press, recorded[x] = 0, SetLastPlay(x), \E l \in {"push", "done"} : ppc' = [ppc EXCEPT ![x] = l],
             x \in App => ppc'[x] = "done"
      PROVE  RecordInv'
  <2>1. x \in Play BY <1>0
  <2>2. /\ lastPlay'.by = x /\ recorded' = [recorded EXCEPT ![x] = Cardinality(Recorded) + 1]
        /\ IsFiniteSet(Recorded)' /\ Cardinality(Recorded)' = Cardinality(Recorded) + 1
        /\ Cardinality(Recorded) \in Nat
    BY <1>0, <1>1, <2>1, SetLastPlayEffect
  <2>3. recorded'[x] = Cardinality(Recorded) + 1 /\ \A y \in Play \ {x} : recorded'[y] = recorded[y]
    BY <1>0, <2>1, <2>2 DEF TypeOK
  <2>4. \A y \in Play : recorded[y] \in Nat /\ recorded[y] <= Cardinality(Recorded) BY <1>0 DEF TypeOK, RecordInv
  <2>5. \A y \in App : ppc'[y] # "done" => recorded'[y] = 0 BY <1>0, <1>1, <2>3 DEF RecordInv, TypeOK
  <2>6. \A y \in Press : ppc'[y] \in {"idle", "record"} => recorded'[y] = 0 BY <1>0, <1>1, <2>3 DEF RecordInv, TypeOK
  <2> QED BY <2>1, <2>2, <2>3, <2>4, <2>5, <2>6 DEF RecordInv
<1>2. ASSUME NEW a \in App, AppRecord(a) PROVE RecordInv'
  <2>1. /\ SetLastPlay(a) /\ ppc' = [ppc EXCEPT ![a] = "done"] /\ recorded[a] = 0
    BY <1>0, <1>2 DEF AppRecord, PlayAt, RecordInv
  <2> QED BY <1>0, <1>1, <2>1 DEF TypeOK
<1>3. ASSUME NEW p \in Press, PressRecord(p) PROVE RecordInv'
  <2>1. /\ SetLastPlay(p) /\ ppc' = [ppc EXCEPT ![p] = "push"] /\ recorded[p] = 0
    BY <1>0, <1>3 DEF PressRecord, PlayAt, RecordInv
  <2> QED BY <1>0, <1>1, <2>1
<1>4. CASE /\ UNCHANGED recorded /\ (lastPlay' = lastPlay \/ lastPlay'.by = lastPlay.by)
           /\ \A a \in App : ppc'[a] # "done" => ppc[a] # "done"
           /\ \A p \in Press : ppc'[p] \in {"idle", "record"} => ppc[p] \in {"idle", "record"}
  BY <1>0, <1>4 DEF RecordInv, Recorded
<1>5. ASSUME NEW a \in App, AppStart(a) \/ AppPush(a) \/ AppFails(a) PROVE RecordInv'
  <2>1. UNCHANGED <<recorded, lastPlay>> /\ \E k, l \in {"idle", "push", "record", "done"} : k # "done" /\ PlayAt(a, k, l)
    BY <1>5 DEF AppStart, AppPush, AppFails, server
  <2> QED BY <1>0, <1>4, <2>1 DEF PlayAt, TypeOK
<1>6. ASSUME NEW p \in Press, OnPresetSelected(p) \/ PressPush(p) PROVE RecordInv'
  <2>1. UNCHANGED <<recorded, lastPlay>> /\ (PlayAt(p, "idle", "record") \/ PlayAt(p, "push", "done"))
    BY <1>6 DEF OnPresetSelected, PressPush, server
  <2> QED BY <1>0, <1>4, <2>1 DEF PlayAt, TypeOK
<1>7. ASSUME NEW r \in Path, PathStep(r) PROVE RecordInv'
  BY <1>0, <1>4, <1>7, PathEffect DEF plays
<1>8. ASSUME NEW r \in Path, Begins(r) PROVE RecordInv'
  <2>1. UNCHANGED plays /\ (lastPlay' = lastPlay \/ lastPlay'.by = lastPlay.by)
    BY <1>0, <1>8 DEF Begins, ResumeLastPlay, RecoverAfterReconnect, HandleSpontaneousSourceOff, RunDeferredResume,
       HandleStreamDisconnect, HandleStreamTitle, server, TypeOK
  <2> QED BY <1>4, <2>1 DEF plays
<1>9. ASSUME \/ \E f \in frames : IgnoreFrame(f)
             \/ OnUserStop \/ (\E b \in BOOLEAN : OnPowerOff(b)) \/ OnPowerOn \/ StreamEnds \/ Tick \/ UNCHANGED vars
      PROVE  RecordInv'
  <2>1. UNCHANGED <<ppc, recorded, lastPlay>>
    BY <1>9 DEF IgnoreFrame, OnUserStop, OnPowerOff, OnPowerOn, StreamEnds, Tick, plays, server, vars
  <2> QED BY <1>4, <2>1
<1> QED BY <1>2, <1>3, <1>5, <1>6, <1>7, <1>8, <1>9 DEF Next, AppStep

-----------------------------------------------------------------------------
\* What the beginning of a path captures was recorded.
LEMMA BeginEffect ==
  ASSUME NEW r \in Path, TypeOK, Begins(r)
  PROVE  /\ pc[r] = "idle" /\ UNCHANGED <<boxCmdMu, uri, ppc, recorded>> /\ deferred' \in {deferred, None}
         /\ \E l \in {"settle", "zone", "lock"}, k \in Kinds, x \in {None, lastPlay.by, deferred} :
              /\ pc' = [pc EXCEPT ![r] = l] /\ kind' = [kind EXCEPT ![r] = k] /\ captured' = [captured EXCEPT ![r] = x]
              /\ (l = "zone" => k = "deferred") /\ (l = "lock" => k = "display") /\ (k # "rePush" => x # None)
<1> USE DEF Goto, Kinds, plays, server, box, Begin
<1>0. lastPlay.by # None BY AutoAssumption DEF TypeOK, Play
<1>1. CASE ResumeLastPlay(r) BY <1>0, <1>1 DEF ResumeLastPlay
<1>2. CASE RecoverAfterReconnect(r) BY <1>0, <1>2 DEF RecoverAfterReconnect
<1>3. CASE HandleSpontaneousSourceOff(r) BY <1>0, <1>3 DEF HandleSpontaneousSourceOff
<1>4. CASE RunDeferredResume(r) BY <1>4 DEF RunDeferredResume
<1>5. CASE HandleStreamDisconnect(r) BY <1>5 DEF HandleStreamDisconnect
<1>6. CASE HandleStreamTitle(r) BY <1>0, <1>6 DEF HandleStreamTitle
<1> QED BY <1>1, <1>2, <1>3, <1>4, <1>5, <1>6 DEF Begins

\* A play that is recorded at this step.
Records(x) == (x \in App /\ AppRecord(x)) \/ (x \in Press /\ PressRecord(x))

\* A play is numbered once, and keeps its number.
LEMMA RecordsKept ==
  ASSUME IInv, [Next]_vars
  PROVE  /\ (\A x \in App \cup Press : ~Records(x)) => UNCHANGED recorded
         /\ \A x \in App \cup Press : Records(x) =>
              /\ recorded[x] = 0 /\ lastPlay'.by = x /\ UNCHANGED <<uri, deferred, pc, kind, captured>>
              /\ recorded'[x] # 0 /\ \A y \in Play \ {x} : recorded'[y] = recorded[y]
<1>1. TypeOK /\ RecordInv /\ Play = App \cup Press \cup {Old} BY DEF IInv, Play
<1>2. ASSUME NEW x \in App \cup Press, recorded[x] = 0, SetLastPlay(x)
      PROVE  recorded'[x] # 0 /\ \A y \in Play \ {x} : recorded'[y] = recorded[y]
  <2>1. recorded' = [recorded EXCEPT ![x] = Cardinality(Recorded) + 1] /\ Cardinality(Recorded) \in Nat
    BY <1>1, <1>2, SetLastPlayEffect
  <2> QED BY <1>1, <2>1 DEF TypeOK
<1>3. ASSUME NEW x \in App \cup Press, Records(x)
      PROVE  recorded[x] = 0 /\ SetLastPlay(x) /\ UNCHANGED <<uri, deferred, pc, kind, captured>>
  BY <1>1, <1>3 DEF Records, AppRecord, PressRecord, PlayAt, RecordInv, SetLastPlay, box, path
<1>5. ASSUME NEW r \in Path, Begins(r) \/ PathStep(r) PROVE UNCHANGED recorded
  BY <1>1, <1>5, PathEffect, BeginEffect DEF plays
<1>6. ASSUME \/ \E a \in App : AppStart(a) \/ AppPush(a) \/ AppFails(a)
             \/ \E p \in Press : OnPresetSelected(p) \/ PressPush(p)
             \/ \E f \in frames : IgnoreFrame(f)
             \/ OnUserStop \/ (\E b \in BOOLEAN : OnPowerOff(b)) \/ OnPowerOn \/ StreamEnds \/ Tick \/ UNCHANGED vars
      PROVE  UNCHANGED recorded
  BY <1>6 DEF AppStart, AppPush, AppFails, OnPresetSelected, PressPush, IgnoreFrame, OnUserStop, OnPowerOff, OnPowerOn,
              StreamEnds, Tick, plays, vars
<1>7. (\A x \in App \cup Press : ~Records(x)) => UNCHANGED recorded BY <1>5, <1>6 DEF Next, AppStep, Records
<1>8. ASSUME NEW x \in App \cup Press, SetLastPlay(x) PROVE lastPlay'.by = x BY <1>8 DEF SetLastPlay
<1> QED BY <1>2, <1>3, <1>7, <1>8

\* Every step keeps what the paths captured among the recorded plays.
LEMMA CaptureStep ==
  ASSUME IInv, [Next]_vars
  PROVE  CaptureInv'
<1>0. /\ TypeOK /\ CaptureInv /\ recorded[lastPlay.by] # 0 /\ lastPlay.by \in Play /\ None \notin Play
  BY AutoAssumption DEF IInv, RecordInv, TypeOK, Play
<1>1. \A y \in Play : recorded[y] # 0 => recorded'[y] # 0
  <2> HIDE DEF IInv
  <2> QED BY RecordsKept
<1>2. ASSUME NEW r \in Path, Begins(r) PROVE CaptureInv'
  <2>1. deferred' \in {deferred, None} /\ UNCHANGED recorded BY <1>0, <1>2, BeginEffect
  <2>2. PICK l \in {"settle", "zone", "lock"}, k \in Kinds, x \in {None, lastPlay.by, deferred} :
              /\ pc' = [pc EXCEPT ![r] = l] /\ kind' = [kind EXCEPT ![r] = k] /\ captured' = [captured EXCEPT ![r] = x]
              /\ (l = "zone" => k = "deferred") /\ (l = "lock" => k = "display") /\ (k # "rePush" => x # None)
    BY <1>0, <1>2, BeginEffect
  <2>3. x # None => recorded[x] # 0 BY <1>0, <2>2 DEF CaptureInv
  <2> QED BY <1>0, <2>1, <2>2, <2>3 DEF CaptureInv, Captures, TypeOK
<1>3. ASSUME NEW r \in Path, PathStep(r) PROVE CaptureInv'
  <2>1. pc[r] # "idle" /\ UNCHANGED recorded /\ (Ends(r) \/ GoesOn(r)) BY <1>0, <1>3, PathEffect DEF plays
  <2>2. CASE Ends(r)
    <3>1. /\ pc' = [pc EXCEPT ![r] = "idle"] /\ kind' = [kind EXCEPT ![r] = "wake"]
          /\ captured' = [captured EXCEPT ![r] = None]
      BY <2>2 DEF Ends, Finish, Goto
    <3>2. deferred' # None => recorded[deferred'] # 0 BY <1>0, <2>2 DEF Ends, CaptureInv, Captures
    <3> QED BY <1>0, <2>1, <3>1, <3>2 DEF CaptureInv, Captures, TypeOK
  <2>3. CASE GoesOn(r)
    <3>1. PICK l \in PCs \ {"idle"} : Passes(r, l) /\ pc' = [pc EXCEPT ![r] = l] BY <2>3 DEF GoesOn, Goto
    <3>2. /\ UNCHANGED <<kind, deferred>>
          /\ captured' = IF pc[r] = "claim" THEN [captured EXCEPT ![r] = lastPlay.by] ELSE captured
      BY <2>3 DEF GoesOn
    <3>3. \A q \in Path \ {r} : pc'[q] = pc[q] /\ captured'[q] = captured[q] BY <1>0, <3>1, <3>2 DEF TypeOK
    <3>4. pc'[r] = l /\ captured'[r] = IF pc[r] = "claim" THEN lastPlay.by ELSE captured[r] BY <1>0, <3>1, <3>2 DEF TypeOK
    <3>5. /\ pc[r] \in {"zone", "wake", "busy", "source"} => kind[r] # "rePush"
          /\ pc[r] = "claim" => kind[r] = "rePush"
          /\ Captures(r) => captured[r] # None /\ recorded[captured[r]] # 0
      BY <1>0 DEF CaptureInv
    <3>6. /\ l \in {"zone", "wake", "busy", "source"} => kind[r] # "rePush"
          /\ l = "claim" => kind[r] = "rePush"
          /\ Captures(r)' => captured'[r] # None /\ recorded[captured'[r]] # 0
      BY <1>0, <2>1, <3>1, <3>2, <3>4, <3>5 DEF Passes, Captures
    <3> QED BY <1>0, <2>1, <3>2, <3>3, <3>4, <3>6 DEF CaptureInv, Captures
  <2> QED BY <2>1, <2>2, <2>3
<1>4. CASE UNCHANGED <<pc, kind, captured>> /\ deferred' \in {deferred, None}
  <2>1. deferred \in Play \cup {None} /\ \A r \in Path : captured[r] \in Play \cup {None} BY <1>0 DEF TypeOK
  <2> QED BY <1>0, <1>1, <1>4, <2>1 DEF CaptureInv, Captures
<1>5. ASSUME \/ \E a \in App : AppStart(a) \/ AppStep(a)
             \/ \E p \in Press : OnPresetSelected(p) \/ PressRecord(p) \/ PressPush(p)
             \/ \E f \in frames : IgnoreFrame(f)
             \/ OnUserStop \/ (\E b \in BOOLEAN : OnPowerOff(b)) \/ OnPowerOn \/ StreamEnds \/ Tick \/ UNCHANGED vars
      PROVE  UNCHANGED <<pc, kind, captured>> /\ deferred' \in {deferred, None}
  BY <1>5 DEF AppStart, AppStep, AppPush, AppFails, AppRecord, OnPresetSelected, PressRecord, PressPush, SetLastPlay,
              IgnoreFrame, OnUserStop, OnPowerOff, OnPowerOn, StreamEnds, Tick, path, server, vars
<1> QED BY <1>2, <1>3, <1>4, <1>5 DEF Next

\* While a resume pushes, no play of the app is recorded: both need boxCmdMu.
LEMMA KeepStep ==
  ASSUME IInv, [Next]_vars
  PROVE  KeepInv'
<1> DEFINE Resumes(r) == pc[r] = "push" /\ kind[r] \in {"wake", "reconnect", "drop"}
           UriKept == uri \in App => recorded[uri] # 0 \/ ppc[uri] = "record"
           NoneNewer(r) == Resumes(r) => \A a \in App : recorded[a] <= recorded[captured[r]]
<1>0. /\ TypeOK /\ RecordInv /\ MutexInv /\ CaptureInv /\ UriKept /\ \A r \in Path : NoneNewer(r)
      /\ App \cap Press = {} /\ App \cap Path = {} /\ App \subseteq Play /\ Press \subseteq Play /\ None \notin Play
  BY AutoAssumption DEF IInv, KeepInv, Play
<1>1. ASSUME NEW r \in Path, Resumes(r)
      PROVE  captured[r] \in Play /\ recorded[captured[r]] # 0 /\ boxCmdMu = r
  BY <1>0, <1>1 DEF CaptureInv, Captures, MutexInv, TypeOK
<1>2. \A x \in App : ppc[x] = "record" => boxCmdMu = x BY <1>0 DEF MutexInv
<1>3. UriKept'
  <2>1. ASSUME NEW x \in App \cup Press, Records(x) PROVE UriKept'
    <3>1. /\ uri' = uri /\ recorded'[x] # 0 /\ \A y \in Play \ {x} : recorded'[y] = recorded[y]
      BY <2>1, RecordsKept
    <3>2. \E l \in {"push", "done"} : ppc' = [ppc EXCEPT ![x] = l] BY <2>1 DEF Records, AppRecord, PressRecord, PlayAt
    <3> QED BY <1>0, <3>1, <3>2 DEF TypeOK
  <2>2. CASE \A x \in App \cup Press : ~Records(x)
    <3>0. UNCHANGED recorded BY <2>2, RecordsKept
    <3>1. ASSUME NEW r \in Path, PathStep(r) PROVE UriKept'
      <4>1. UNCHANGED ppc /\ (uri' = uri \/ (pc[r] = "push" /\ uri' = captured[r]))
        BY <1>0, <3>1, PathEffect DEF plays, Ends, GoesOn
      <4>2. pc[r] = "push" => recorded[captured[r]] # 0 BY <1>0 DEF CaptureInv, Captures
      <4> QED BY <1>0, <3>0, <4>1, <4>2
    <3>2. ASSUME NEW r \in Path, Begins(r) PROVE UriKept'
      BY <1>0, <3>0, <3>2, BeginEffect
    <3>3. ASSUME NEW a \in App, AppStart(a) \/ AppPush(a) \/ AppFails(a) PROVE UriKept'
      <4>1. uri' \in {uri, a} /\ (uri' = a => uri' = uri \/ ppc' = [ppc EXCEPT ![a] = "record"])
        BY <3>3 DEF AppStart, AppPush, AppFails, PlayAt, box
      <4>2. \E k, l \in {"idle", "push", "record", "done"} : k # "record" /\ PlayAt(a, k, l)
        BY <3>3 DEF AppStart, AppPush, AppFails
      <4> QED BY <1>0, <3>0, <4>1, <4>2 DEF PlayAt, TypeOK
    <3>4. ASSUME NEW p \in Press, OnPresetSelected(p) \/ PressPush(p) PROVE UriKept'
      <4>1. uri' \in {uri, p} /\ \E l \in {"record", "done"} : ppc' = [ppc EXCEPT ![p] = l]
        BY <3>4 DEF OnPresetSelected, PressPush, SetURI, PlayAt
      <4> QED BY <1>0, <3>0, <4>1 DEF TypeOK
    <3>6. ASSUME \/ \E f \in frames : IgnoreFrame(f)
                 \/ OnUserStop \/ (\E b \in BOOLEAN : OnPowerOff(b)) \/ OnPowerOn \/ StreamEnds \/ Tick \/ UNCHANGED vars
          PROVE  UriKept'
      <4>1. UNCHANGED <<uri, ppc>>
        BY <3>6 DEF IgnoreFrame, OnUserStop, OnPowerOff, OnPowerOn, StreamEnds, Tick, plays, box, vars
      <4> QED BY <1>0, <3>0, <4>1
    <3> QED BY <2>2, <3>1, <3>2, <3>3, <3>4, <3>6 DEF Next, AppStep, Records
  <2> QED BY <2>1, <2>2
<1>4. ASSUME NEW r \in Path, Resumes(r), UNCHANGED <<pc, kind, captured>> PROVE NoneNewer(r)'
  <2>1. CASE \A x \in App \cup Press : ~Records(x)
    <3>1. UNCHANGED recorded BY <2>1, RecordsKept
    <3> QED BY <1>0, <1>4, <3>1
  <2>2. ASSUME NEW x \in App \cup Press, Records(x) PROVE NoneNewer(r)'
    <3>1. x \notin App
      <4>1. x \in App => ppc[x] = "record" BY <1>0, <2>2 DEF Records, AppRecord, PressRecord, PlayAt
      <4> QED BY <1>0, <1>1, <1>2, <1>4, <4>1
    <3>2. recorded[x] = 0 /\ \A y \in Play \ {x} : recorded'[y] = recorded[y] BY <2>2, RecordsKept
    <3>3. captured[r] \in Play \ {x} BY <1>1, <1>4, <3>2
    <3> QED BY <1>0, <1>4, <3>1, <3>2, <3>3
  <2> QED BY <2>1, <2>2
<1>5. ASSUME NEW r \in Path PROVE NoneNewer(r)'
  <2>1. CASE UNCHANGED <<pc, kind, captured>> BY <1>4, <2>1
  <2>2. ASSUME NEW q \in Path, PathStep(q) PROVE NoneNewer(r)'
    <3>1. /\ UNCHANGED recorded /\ lastPlay'.by = lastPlay.by /\ (Ends(q) \/ GoesOn(q)) BY <1>0, <2>2, PathEffect DEF plays
    <3>2. CASE Ends(q)
      <4>1. /\ pc' = [pc EXCEPT ![q] = "idle"] /\ kind' = [kind EXCEPT ![q] = "wake"] /\ captured' = [captured EXCEPT ![q] = None]
        BY <3>2 DEF Ends, Finish, Goto
      <4> QED BY <1>0, <3>1, <4>1 DEF TypeOK
    <3>3. CASE GoesOn(q)
      <4>1. PICK l \in PCs \ {"idle"} : Passes(q, l) /\ pc' = [pc EXCEPT ![q] = l] BY <3>3 DEF GoesOn, Goto
      <4>2. UNCHANGED kind /\ captured' = IF pc[q] = "claim" THEN [captured EXCEPT ![q] = lastPlay.by] ELSE captured
        BY <3>3 DEF GoesOn
      <4>3. CASE l = "push" /\ r = q
        <5>1. pc[q] # "claim" /\ captured' = captured BY <4>1, <4>2, <4>3 DEF Passes
        <5>2. kind[q] \in {"wake", "reconnect", "drop"} => captured[q] = lastPlay.by BY <4>1, <4>3 DEF Passes
        <5> QED BY <1>0, <3>1, <4>2, <4>3, <5>1, <5>2 DEF RecordInv
      <4>4. CASE l # "push" \/ r # q BY <1>0, <3>1, <4>1, <4>2, <4>4 DEF TypeOK
      <4> QED BY <4>3, <4>4
    <3> QED BY <3>1, <3>2, <3>3
  <2>3. ASSUME NEW q \in Path, Begins(q) PROVE NoneNewer(r)'
    <3>1. pc[q] = "idle" /\ UNCHANGED recorded BY <1>0, <2>3, BeginEffect
    <3>2. \E l \in {"settle", "zone", "lock"}, k \in Kinds, x \in {None, lastPlay.by, deferred} :
              /\ pc' = [pc EXCEPT ![q] = l] /\ kind' = [kind EXCEPT ![q] = k] /\ captured' = [captured EXCEPT ![q] = x]
      BY <1>0, <2>3, BeginEffect
    <3> QED BY <1>0, <3>1, <3>2 DEF TypeOK
  <2>4. ASSUME \/ \E a \in App : AppStart(a) \/ AppStep(a)
               \/ \E p \in Press : OnPresetSelected(p) \/ PressRecord(p) \/ PressPush(p)
               \/ \E f \in frames : IgnoreFrame(f)
               \/ OnUserStop \/ (\E b \in BOOLEAN : OnPowerOff(b)) \/ OnPowerOn \/ StreamEnds \/ Tick \/ UNCHANGED vars
        PROVE  UNCHANGED <<pc, kind, captured>>
    BY <2>4 DEF AppStart, AppStep, AppPush, AppFails, AppRecord, OnPresetSelected, PressRecord, PressPush,
                IgnoreFrame, OnUserStop, OnPowerOff, OnPowerOn, StreamEnds, Tick, path, vars
  <2> QED BY <2>1, <2>2, <2>3, <2>4 DEF Next
<1> QED BY <1>3, <1>5 DEF KeepInv

-----------------------------------------------------------------------------
\* What a step of a path does to the stops that are on their way to it.
LEMMA PathHeard ==
  ASSUME NEW r \in Path, TypeOK, HeardInv, PathStep(r)
  PROVE  \/ WakeLook(r) \/ RePushOwned(r)
         \/ /\ UNCHANGED <<clock, userStop, standbyStop>>
            /\ \/ Finish(r)
               \/ /\ pend[r] \notin {"stop", "off"} /\ UNCHANGED <<kind, wait, from, pend>>
                  /\ \E l \in PCs : Goto(r, l)
<1> USE DEF stamps, history, PCs
<1> DEFINE Unheard == pend[r] \in {"stop", "off"}
           Quiet == /\ UNCHANGED <<clock, userStop, standbyStop>>
                    /\ \/ Finish(r)
                       \/ ~Unheard /\ UNCHANGED <<kind, wait, from, pend>> /\ \E l \in PCs : Goto(r, l)
<1>0. /\ Unheard => pc[r] \in {"settle", "ownership"}
      /\ Unheard /\ pc[r] = "settle" /\ wait[r] = 0 =>
           /\ kind[r] \in {"wake", "drop", "rePush"}
           /\ StandbyStoppedRecently \/ (kind[r] # "wake" /\ UserStoppedRecently)
      /\ Unheard /\ pc[r] = "ownership" => userStop.n > from[r] \/ standbyStop.n > from[r]
  BY AutoAssumption DEF HeardInv, TypeOK, UserStoppedRecently, StandbyStoppedRecently
<1>1. ASSUME NEW stand, NEW l \in PCs, Unless(stand, r, l), ~stand => ~Unheard
      PROVE  Quiet
  BY <1>1 DEF Unless, Continue
<1>2. CASE StandDown(r) BY <1>2 DEF StandDown
<1>3. CASE WakeSettled(r) BY <1>0, <1>1, <1>3 DEF WakeSettled, Settled
<1>4. CASE WakeZoned(r) BY <1>0, <1>1, <1>4 DEF WakeZoned
<1>5. CASE WakeAndWait(r) BY <1>0, <1>5 DEF WakeAndWait, Continue
<1>6. CASE WakeBusy(r)
  <2>1. PICK busy \in {playing, FALSE} : Unless(busy, r, "lock") BY <1>6 DEF WakeBusy
  <2> QED BY <1>0, <1>1, <1>6, <2>1 DEF WakeBusy
<1>7. CASE RecoverSettled(r) BY <1>0, <1>1, <1>7 DEF RecoverSettled, Settled
<1>8. CASE RecoverLook(r) BY <1>0, <1>1, <1>8 DEF RecoverLook
<1>9. CASE DropSettled(r) BY <1>0, <1>1, <1>9 DEF DropSettled, Settled
<1>10. CASE DropAwake(r) BY <1>0, <1>1, <1>10 DEF DropAwake
<1>11. CASE DropDefer(r) BY <1>11 DEF DropDefer
<1>12. CASE DeferredZoned(r) BY <1>0, <1>1, <1>12 DEF DeferredZoned
<1>13. CASE RePushSettled(r) BY <1>0, <1>1, <1>13 DEF RePushSettled, Settled
<1>14. CASE RePushOwnershipEnds(r) BY <1>0, <1>1, <1>14 DEF RePushOwnershipEnds
<1>15. CASE RePushLook(r) BY <1>0, <1>15 DEF RePushLook, Continue
<1>16. CASE RePushGiveUp(r) BY <1>16 DEF RePushGiveUp
<1>17. CASE RePushClaim(r) BY <1>0, <1>17 DEF RePushClaim
<1>18. CASE TakeLock(r)
  <2>1. PICK stand : Lock(r, stand) BY <1>18 DEF TakeLock, LockResume, LockRePush, LockUnchecked
  <2> QED BY <1>0, <2>1 DEF Lock, Continue
<1>19. CASE Push(r) BY <1>19 DEF Push
<1> QED BY <1>2, <1>3, <1>4, <1>5, <1>6, <1>7, <1>8, <1>9, <1>10, <1>11, <1>12, <1>13, <1>14, <1>15, <1>16,
           <1>17, <1>18, <1>19 DEF PathStep

\* Every step keeps the stops within the reach of the paths they are bound for.
LEMMA HeardStep ==
  ASSUME IInv, [Next]_vars
  PROVE  HeardInv'
<1> DEFINE Stop(r) == \/ pc[r] = "settle" /\ kind[r] \in {"drop", "rePush"} /\ userStop.age + wait[r] < StopWindow
                      \/ pc[r] = "ownership" /\ userStop.n > from[r]
           Off(r)  == \/ pc[r] = "settle" /\ kind[r] \in {"wake", "drop", "rePush"} /\ standbyStop.age + wait[r] < StopWindow
                      \/ pc[r] = "ownership" /\ standbyStop.n > from[r]
           Heard(r) == (pend[r] = "stop" => Stop(r)) /\ (pend[r] = "off" => Off(r)) /\ from[r] <= clock
<1>0. /\ TypeOK /\ HeardInv /\ StopWindow \in Nat \ {0} /\ clock \in Nat /\ \A r \in Path : Heard(r) /\ from[r] \in Nat /\ wait[r] \in Nat
  BY AutoAssumption DEF IInv, TypeOK, HeardInv
<1>1. SUFFICES ASSUME NEW q \in Path PROVE Heard(q)'
  BY DEF HeardInv
<1>2. CASE UNCHANGED <<pc, kind, wait, from, pend, clock, userStop, standbyStop>> BY <1>0, <1>2
<1>3. ASSUME NEW r \in Path, Begins(r) PROVE Heard(q)'
  <2>1. UNCHANGED <<clock, userStop, standbyStop>>
    BY <1>3 DEF Begins, ResumeLastPlay, RecoverAfterReconnect, HandleSpontaneousSourceOff, RunDeferredResume,
       HandleStreamDisconnect, HandleStreamTitle, stamps
  <2>2. ASSUME NEW k \in Kinds, NEW l \in PCs, NEW x, NEW n \in Nat, Begin(r, k, l, x, n),
               k \in {"wake", "drop", "rePush"} => l = "settle"
        PROVE  Heard(q)'
    <3>1. CASE q = r
      <4>1. /\ pc'[q] = l /\ kind'[q] = k /\ wait'[q] = n /\ from' = from
            /\ pend'[q] = "off" => k \in {"wake", "drop", "rePush"} /\ standbyStop.age + n < StopWindow
            /\ pend'[q] = "stop" => k \in {"drop", "rePush"} /\ userStop.age + n < StopWindow
        BY <1>0, <2>2, <3>1 DEF Begin, Goto, TypeOK
      <4> QED BY <1>0, <2>1, <2>2, <4>1
    <3>2. CASE q # r
      <4>1. UNCHANGED <<pc[q], kind[q], wait[q], from[q], pend[q]>> BY <1>0, <2>2, <3>2 DEF Begin, Goto, TypeOK
      <4> QED BY <1>0, <2>1, <4>1
    <3> QED BY <3>1, <3>2
  <2> USE DEF Kinds, PCs
  <2>3. CASE ResumeLastPlay(r) BY <2>2, <2>3 DEF ResumeLastPlay
  <2>4. CASE RecoverAfterReconnect(r) BY <2>2, <2>4 DEF RecoverAfterReconnect
  <2>5. CASE HandleSpontaneousSourceOff(r) BY <2>2, <2>5 DEF HandleSpontaneousSourceOff
  <2>6. CASE RunDeferredResume(r) BY <2>2, <2>6 DEF RunDeferredResume
  <2>7. CASE HandleStreamDisconnect(r)
    <3>1. Backoff(lastPlay.rePushes) \in Nat BY <1>0, BackoffType DEF TypeOK
    <3> QED BY <2>2, <2>7, <3>1 DEF HandleStreamDisconnect
  <2>8. CASE HandleStreamTitle(r) BY <2>2, <2>8 DEF HandleStreamTitle
  <2> QED BY <1>3, <2>3, <2>4, <2>5, <2>6, <2>7, <2>8 DEF Begins
<1>4. ASSUME NEW r \in Path, PathStep(r) PROVE Heard(q)'
  <2>1. CASE WakeLook(r)
    <3>1. pc'[q] = pc[q] \/ (q = r /\ pc[q] = "look") BY <1>0, <2>1 DEF WakeLook, Goto, TypeOK
    <3>2. UNCHANGED <<kind, wait, from, standbyStop, clock>> /\ pend'[q] \in (IF pend[q] = "off" THEN {"off"} ELSE {"none"})
      BY <2>1 DEF WakeLook
    <3> QED BY <1>0, <3>1, <3>2
  <2>2. CASE RePushOwned(r)
    <3>1. UNCHANGED <<kind, clock, userStop, standbyStop, pend>> /\ \A p \in Path \ {r} : UNCHANGED <<pc[p], wait[p], from[p]>>
      BY <1>0, <2>2 DEF RePushOwned, Goto, TypeOK, stamps, history
    <3>2. from'[r] = clock BY <1>0, <2>2 DEF RePushOwned, TypeOK
    <3>3. pend[r] \notin {"stop", "off"}
      BY <1>0, <2>2 DEF RePushOwned, Settled, UserStoppedRecently, StandbyStoppedRecently, TypeOK
    <3> QED BY <1>0, <3>1, <3>2, <3>3
  <2>3. CASE UNCHANGED <<clock, userStop, standbyStop>> /\ Finish(r)
    <3>1. /\ q # r => UNCHANGED <<pc[q], kind[q], wait[q], from[q], pend[q]>>
          /\ pend'[r] = "none" /\ from'[r] = 0
      BY <1>0, <2>3 DEF Finish, Goto, TypeOK
    <3> QED BY <1>0, <2>3, <3>1
  <2>4. CASE /\ pend[r] \notin {"stop", "off"} /\ UNCHANGED <<clock, userStop, standbyStop, kind, wait, from, pend>>
             /\ \E l \in PCs : Goto(r, l)
    <3>1. q # r => pc'[q] = pc[q] BY <1>0, <2>4 DEF Goto, TypeOK
    <3> QED BY <1>0, <2>4, <3>1
  <2> QED BY <1>0, <1>4, <2>1, <2>2, <2>3, <2>4, PathHeard
<1>5. CASE NoteUserPlay /\ UNCHANGED <<pc, kind, wait, from>> BY <1>0, <1>5 DEF NoteUserPlay
<1>6. ASSUME NEW a \in App, AppStart(a) \/ AppStep(a) PROVE Heard(q)'
  <2>1. CASE AppStart(a) BY <1>5, <2>1 DEF AppStart, path
  <2>2. CASE AppStep(a) BY <1>2, <2>2 DEF AppStep, AppPush, AppFails, AppRecord, path, stamps, history
  <2> QED BY <1>6, <2>1, <2>2
<1>7. ASSUME NEW p \in Press, OnPresetSelected(p) \/ PressRecord(p) \/ PressPush(p) PROVE Heard(q)'
  <2>1. CASE OnPresetSelected(p) BY <1>5, <2>1 DEF OnPresetSelected, path
  <2>2. CASE PressRecord(p) \/ PressPush(p) BY <1>2, <2>2 DEF PressRecord, PressPush, path, stamps, history
  <2> QED BY <1>7, <2>1, <2>2
<1>8. CASE OnUserStop
  <2>1. /\ UNCHANGED <<pc, kind, wait, from, standbyStop>> /\ clock' = clock + 1 /\ userStop'.age = 0 /\ userStop'.n = clock + 1
        /\ pend'[q] = IF pend[q] = "off" \/ ~Asks(q) THEN pend[q] ELSE IF Hears(q) THEN "stop" ELSE "far"
    BY <1>8 DEF OnUserStop, path
  <2> QED BY <1>0, <2>1 DEF Asks, Hears
<1>9. ASSUME NEW b \in BOOLEAN, OnPowerOff(b) PROVE Heard(q)'
  <2>1. UNCHANGED <<pc, kind, wait, from>> BY <1>9 DEF OnPowerOff, path
  <2>2. CASE b
    <3>1. /\ clock' = clock + 1 /\ userStop'.age = 0 /\ userStop'.n = clock + 1 /\ standbyStop' = userStop'
          /\ pend'[q] = IF HearsOff(q) THEN "off" ELSE pend[q]
      BY <1>9, <2>2 DEF OnPowerOff
    <3>2. standbyStop.age \in Nat /\ userStop.age \in Nat BY <1>0 DEF TypeOK
    <3> QED BY <1>0, <2>1, <3>1, <3>2 DEF HearsOff, Asks, Hears
  <2>3. CASE ~b BY <1>2, <1>9, <2>1, <2>3 DEF OnPowerOff
  <2> QED BY <2>2, <2>3
<1>10. CASE Tick
  <2>1. /\ UNCHANGED <<pc, kind, from, clock, pend>>
        /\ pc[q] \in {"settle", "ownership"} => wait[q] > 0 /\ wait'[q] = wait[q] - 1
    BY <1>10 DEF Tick, history
  <2>2. userStop.age \in Nat /\ standbyStop.age \in Nat BY <1>0 DEF TypeOK
  <2>3. userStop'.n = userStop.n /\ userStop'.age <= userStop.age + 1
    <3>1. userStop' = [age |-> Smaller(userStop.age + 1, StopWindow), n |-> userStop.n] BY <1>0, <1>10 DEF Tick, TypeOK
    <3> QED BY <1>0, <2>2, <3>1 DEF Smaller
  <2>4. standbyStop'.n = standbyStop.n /\ standbyStop'.age <= standbyStop.age + 1
    <3>1. standbyStop' = [age |-> Smaller(standbyStop.age + 1, StopWindow), n |-> standbyStop.n] BY <1>0, <1>10 DEF Tick, TypeOK
    <3> QED BY <1>0, <2>2, <3>1 DEF Smaller
  <2>5. userStop'.age \in Int /\ standbyStop'.age \in Int
    <3>1. userStop' = [age |-> Smaller(userStop.age + 1, StopWindow), n |-> userStop.n] BY <1>0, <1>10 DEF Tick, TypeOK
    <3>2. standbyStop' = [age |-> Smaller(standbyStop.age + 1, StopWindow), n |-> standbyStop.n] BY <1>0, <1>10 DEF Tick, TypeOK
    <3> QED BY <1>0, <2>2, <3>1, <3>2 DEF Smaller
  <2> QED BY <1>0, <2>1, <2>2, <2>3, <2>4, <2>5
<1>11. ASSUME (\E f \in frames : IgnoreFrame(f)) \/ OnPowerOn \/ StreamEnds \/ UNCHANGED vars PROVE Heard(q)'
  BY <1>2, <1>11 DEF IgnoreFrame, OnPowerOn, StreamEnds, path, stamps, history, vars
<1> QED BY <1>3, <1>4, <1>6, <1>7, <1>8, <1>9, <1>10, <1>11 DEF Next

-----------------------------------------------------------------------------
\* A path that finds the box in standby leaves it there, unless it is past its look.
LEMMA PathSleep ==
  ASSUME NEW r \in Path, TypeOK, SleepInv, PathStep(r), power' = "standby"
  PROVE  power = "standby" /\ ~playing' /\ frames' = {} /\ PastLook' \subseteq late'
<1> USE DEF box, PCs
<1> DEFINE Past(l) == l \in {"wake", "busy", "claim", "lock", "push"} \/ (l = "zone" /\ kind[r] = "deferred")
<1>1. power = "standby"
  BY DEF PathStep, StandDown, WakeSettled, WakeZoned, WakeLook, WakeAndWait, WakeBusy, RecoverSettled, RecoverLook, DropSettled,
         DropAwake, DropDefer, DeferredZoned, RePushSettled, RePushOwned, RePushOwnershipEnds, RePushLook, RePushGiveUp,
         RePushClaim, TakeLock, LockResume, LockRePush, LockUnchecked, Lock, Push, Unless, SetURI, PowerOn
<1>2. ~playing /\ frames = {} /\ PastLook \subseteq late BY <1>1 DEF SleepInv
<1>0. SUFFICES ~playing' /\ frames' = {} /\ PastLook' \subseteq late' BY <1>1
<1>3. ASSUME Finish(r) PROVE PastLook' \subseteq late'
  <2>1. late' = late \ {r} /\ pc' = [pc EXCEPT ![r] = "idle"] /\ kind' = [kind EXCEPT ![r] = "wake"] BY <1>3 DEF Finish, Goto
  <2> QED BY <1>2, <2>1 DEF PastLook, TypeOK
<1>4. ASSUME NEW l \in PCs, Goto(r, l), UNCHANGED <<kind, late>>, Past(l) => Past(pc[r])
      PROVE  PastLook' \subseteq late'
  <2>1. \A q \in Path \ {r} : pc'[q] = pc[q] BY <1>4 DEF Goto, TypeOK
  <2>2. pc'[r] = l BY <1>4 DEF Goto, TypeOK
  <2>3. PastLook' \subseteq PastLook BY <1>4, <2>1, <2>2 DEF PastLook
  <2> QED BY <1>2, <1>4, <2>3
<1>5. ASSUME NEW stand, NEW l \in PCs, Unless(stand, r, l), ~stand => (Past(l) => Past(pc[r]))
      PROVE  ~playing' /\ frames' = {} /\ PastLook' \subseteq late'
  BY <1>2, <1>3, <1>4, <1>5 DEF Unless, Continue
<1>6. ASSUME NEW on \in BOOLEAN, PowerOn(on) PROVE frames' = {}
  BY <1>1, <1>2, <1>6 DEF PowerOn
<1>7. CASE StandDown(r) BY <1>2, <1>3, <1>7 DEF StandDown
<1>8. CASE WakeSettled(r) BY <1>5, <1>8 DEF WakeSettled
<1>9. CASE WakeZoned(r) BY <1>5, <1>9 DEF WakeZoned
<1>10. CASE WakeLook(r) BY <1>1, <1>10 DEF WakeLook
<1>11. CASE WakeAndWait(r)
  <2>1. Goto(r, "busy") /\ UNCHANGED <<kind, late, playing>> /\ frames' = {} BY <1>6, <1>11 DEF WakeAndWait, Continue
  <2> QED BY <1>2, <1>4, <1>11, <2>1 DEF WakeAndWait
<1>12. CASE WakeBusy(r)
  <2>1. PICK busy \in {playing, FALSE} : Unless(busy, r, "lock") BY <1>12 DEF WakeBusy
  <2> QED BY <1>1, <1>5, <1>12, <2>1 DEF WakeBusy
<1>13. CASE RecoverSettled(r) BY <1>5, <1>13 DEF RecoverSettled
<1>14. CASE RecoverLook(r) BY <1>1, <1>5, <1>14 DEF RecoverLook
<1>15. CASE DropSettled(r) BY <1>5, <1>15 DEF DropSettled
<1>16. CASE DropAwake(r) BY <1>1, <1>16 DEF DropAwake
<1>17. CASE DropDefer(r) BY <1>2, <1>3, <1>17 DEF DropDefer
<1>18. CASE DeferredZoned(r) BY <1>1, <1>5, <1>18 DEF DeferredZoned
<1>19. CASE RePushSettled(r) BY <1>5, <1>19 DEF RePushSettled
<1>20. CASE RePushOwned(r) BY <1>2, <1>4, <1>20 DEF RePushOwned, history
<1>21. CASE RePushOwnershipEnds(r) BY <1>5, <1>21 DEF RePushOwnershipEnds
<1>22. CASE RePushLook(r) BY <1>1, <1>2, <1>3, <1>22 DEF RePushLook
<1>23. CASE RePushGiveUp(r) BY <1>2, <1>3, <1>23 DEF RePushGiveUp
<1>24. CASE RePushClaim(r) BY <1>2, <1>4, <1>24 DEF RePushClaim, history
<1>25. CASE TakeLock(r)
  <2>1. PICK stand : Lock(r, stand) BY <1>25 DEF TakeLock, LockResume, LockRePush, LockUnchecked
  <2> QED BY <1>2, <1>3, <1>4, <2>1 DEF Lock, Continue
<1>26. CASE Push(r)
  <2>1. Finish(r) /\ SetURI(captured[r]) BY <1>26 DEF Push
  <2>2. frames' = {} BY <1>6, <2>1 DEF SetURI
  <2>3. power' # "on" BY <1>1
  <2>4. playing' = FALSE \/ playing' = playing BY <2>1, <2>3 DEF SetURI
  <2>5. playing = FALSE BY <1>2 DEF TypeOK
  <2>6. ~playing' BY <2>4, <2>5
  <2>7. PastLook' \subseteq late' BY <1>3, <2>1
  <2> QED BY <2>2, <2>6, <2>7
<1> QED BY <1>7, <1>8, <1>9, <1>10, <1>11, <1>12, <1>13, <1>14, <1>15, <1>16, <1>17, <1>18, <1>19, <1>20, <1>21, <1>22,
           <1>23, <1>24, <1>25, <1>26 DEF PathStep

\* No step wakes a box in standby past the look of a path that has yet to look.
LEMMA SleepStep ==
  ASSUME IInv, [Next]_vars
  PROVE  SleepInv'
<1>0. TypeOK /\ SleepInv BY DEF IInv
<1>1. SUFFICES ASSUME power' = "standby" PROVE ~playing' /\ frames' = {} /\ PastLook' \subseteq late'
  BY DEF SleepInv
<1>2. ASSUME NEW r \in Path, PathStep(r) PROVE ~playing' /\ frames' = {} /\ PastLook' \subseteq late'
  BY <1>0, <1>1, <1>2, PathSleep
<1>3. ASSUME power = "standby" PROVE ~playing /\ frames = {} /\ PastLook \subseteq late BY <1>0, <1>3 DEF SleepInv
<1>4. ASSUME NEW r \in Path, Begins(r) PROVE ~playing' /\ frames' = {} /\ PastLook' \subseteq late'
  <2>1. power = "standby"
    BY <1>1, <1>4 DEF Begins, ResumeLastPlay, RecoverAfterReconnect, HandleSpontaneousSourceOff, RunDeferredResume,
       HandleStreamDisconnect, HandleStreamTitle, box
  <2>2. \E k \in Kinds : Goto(r, "settle") /\ kind' = [kind EXCEPT ![r] = k] /\ UNCHANGED <<playing, frames, late>>
    BY <1>3, <1>4, <2>1 DEF Begins, ResumeLastPlay, RecoverAfterReconnect, HandleSpontaneousSourceOff, RunDeferredResume,
       HandleStreamDisconnect, HandleStreamTitle, Begin, box, Kinds
  <2>3. PastLook' \subseteq PastLook BY <1>0, <2>2 DEF PastLook, Goto, TypeOK
  <2> QED BY <1>3, <2>1, <2>2, <2>3
<1>5. CASE UNCHANGED <<pc, kind, late>> /\ power = "standby" /\ ~playing' /\ frames' \subseteq frames
  BY <1>3, <1>5 DEF PastLook
<1>6. ASSUME NEW on \in BOOLEAN, PowerOn(on) PROVE power = "standby" /\ UNCHANGED frames
  BY <1>0, <1>1, <1>6 DEF PowerOn, TypeOK
<1>7. ASSUME NEW x, SetURI(x) PROVE power = "standby" /\ ~playing' /\ UNCHANGED frames
  <2>1. power = "standby" /\ UNCHANGED frames BY <1>6, <1>7 DEF SetURI
  <2>2. power' # "on" BY <1>1
  <2>3. playing' = FALSE \/ playing' = playing BY <1>7, <2>2 DEF SetURI
  <2>4. playing = FALSE BY <1>0, <1>3, <2>1 DEF TypeOK
  <2>5. ~playing' BY <2>3, <2>4
  <2> QED BY <2>1, <2>5
<1>8. ASSUME NEW a \in App, AppStart(a) \/ AppStep(a) PROVE ~playing' /\ frames' = {} /\ PastLook' \subseteq late'
  <2>1. CASE AppStart(a) BY <1>3, <1>5, <1>6, <2>1 DEF AppStart, path
  <2>2. CASE AppPush(a) BY <1>5, <1>7, <2>2 DEF AppPush, path, history
  <2>3. CASE AppFails(a) \/ AppRecord(a) BY <1>1, <1>3, <1>5, <2>3 DEF AppFails, AppRecord, path, history, box
  <2> QED BY <1>8, <2>1, <2>2, <2>3 DEF AppStep
<1>9. ASSUME NEW p \in Press, OnPresetSelected(p) \/ PressRecord(p) \/ PressPush(p)
      PROVE  ~playing' /\ frames' = {} /\ PastLook' \subseteq late'
  <2>1. CASE OnPresetSelected(p) BY <1>3, <1>5, <1>6, <2>1 DEF OnPresetSelected, path
  <2>2. CASE PressRecord(p) BY <1>1, <1>3, <1>5, <2>2 DEF PressRecord, path, history, box
  <2>3. CASE PressPush(p) BY <1>5, <1>7, <2>3 DEF PressPush, path, history
  <2> QED BY <1>9, <2>1, <2>2, <2>3
<1>10. ASSUME NEW f \in frames, IgnoreFrame(f) PROVE ~playing' /\ frames' = {} /\ PastLook' \subseteq late'
  BY <1>1, <1>3, <1>5, <1>10 DEF IgnoreFrame, path, history
<1>11. CASE OnUserStop BY <1>1, <1>3, <1>5, <1>11 DEF OnUserStop, path
<1>12. ASSUME NEW b \in BOOLEAN, OnPowerOff(b) PROVE ~playing' /\ frames' = {} /\ PastLook' \subseteq late'
  BY <1>12 DEF OnPowerOff, PastLook, path
<1>13. CASE OnPowerOn BY <1>1, <1>13 DEF OnPowerOn, PowerOn
<1>14. CASE StreamEnds BY <1>1, <1>3, <1>5, <1>14 DEF StreamEnds, path, history
<1>15. CASE Tick BY <1>1, <1>3, <1>5, <1>15 DEF Tick, box, history
<1>16. CASE UNCHANGED vars BY <1>1, <1>3, <1>5, <1>16 DEF vars, box, path, history
<1> QED BY <1>2, <1>4, <1>8, <1>9, <1>10, <1>11, <1>12, <1>13, <1>14, <1>15, <1>16 DEF Next

-----------------------------------------------------------------------------
(* The theorems. *)

\* The invariant holds when the run begins, ...
LEMMA InitIInv == ASSUME Init PROVE IInv
<1> USE AutoAssumption DEF Init
<1>1. TypeOK
  <2>1. /\ clock \in 0 .. MaxEvents /\ events \in 0 .. MaxEvents /\ Never \in [age : 0 .. StopWindow, n : 0 .. MaxEvents]
        /\ userPlay \in 0 .. OwnsRetry /\ spontResume \in 0 .. SpontGap
    BY DEF Never
  <2>2. /\ lastPlay \in [by : Play, rePushes : 0 .. MaxRePushes, failed : BOOLEAN] /\ uri \in Play
        /\ recorded \in [Play -> Nat]
    BY DEF Play
  <2>3. playing \in BOOLEAN OBVIOUS
  <2>4. /\ pc \in [Path -> PCs] /\ kind \in [Path -> Kinds] /\ wait \in [Path -> Nat]
        /\ captured \in [Path -> Play \cup {None}] /\ from \in [Path -> 0 .. MaxEvents]
        /\ ppc \in [App \cup Press -> {"idle", "push", "record", "done"}]
        /\ pend \in [Path -> {"none", "stop", "far", "off"}]
    BY DEF PCs, Kinds
  <2> QED BY <2>1, <2>2, <2>3, <2>4 DEF TypeOK
<1>2. ClockInv /\ MutexInv BY DEF ClockInv, MutexInv
<1>3. LatchInv BY DEF LatchInv, RePushing
<1>4. RecordInv
  <2>1. Recorded = {Old} BY DEF Recorded, Play
  <2>2. IsFiniteSet(Recorded) /\ Cardinality(Recorded) = 1 BY <2>1, FS_Singleton
  <2> QED BY <2>2 DEF RecordInv, Play
<1>5. CaptureInv /\ KeepInv BY DEF CaptureInv, Captures, KeepInv, Play
<1>6. HeardInv BY DEF HeardInv
<1>7. SleepInv BY DEF SleepInv, PastLook
<1> QED BY <1>1, <1>2, <1>3, <1>4, <1>5, <1>6, <1>7 DEF IInv

\* ... and every step keeps it.
LEMMA StepIInv == ASSUME IInv, [Next]_vars PROVE IInv'
<1>1. TypeOK' /\ ClockInv' BY TypeStep
<1>2. LatchInv' BY LatchStep DEF IInv
<1>3. MutexInv' /\ RecordInv' /\ CaptureInv' /\ KeepInv' BY MutexStep, RecordStep, CaptureStep, KeepStep
<1>4. HeardInv' /\ SleepInv' BY HeardStep, SleepStep
<1> QED BY <1>1, <1>2, <1>3, <1>4 DEF IInv

\* The strengthened invariant holds in every state of every behaviour.
THEOREM Inductive == Spec => []IInv
<1> QED BY InitIInv, StepIInv, PTL DEF Spec

\* Every variable of the automatic resumes keeps its type, whatever the paths, the
\* plays and the windows are.
THEOREM TypeCorrect == Spec => []TypeOK
<1>1. IInv => TypeOK BY DEF IInv
<1> QED BY <1>1, Inductive, PTL

\* maybeRePush: one goroutine at a time re-pushes a dropped stream, and its latch is up
\* exactly while that goroutine is there, for any number of goroutines.
THEOREM OneRePusherHolds == Spec => []OneRePusher
<1>1. ASSUME IInv PROVE OneRePusher
  <2>1. LatchInv BY <1>1 DEF IInv
  <2>2. CASE rePushInFlight
    <3>1. PICK r \in Path : RePushing = {r} BY <2>1, <2>2 DEF LatchInv
    <3>2. Cardinality(RePushing) = 1 BY <3>1, FS_Singleton
    <3> QED BY <2>2, <3>2 DEF OneRePusher
  <2>3. CASE ~rePushInFlight
    <3>1. Cardinality(RePushing) = 0 BY <2>1, <2>3, FS_EmptySet DEF LatchInv
    <3> QED BY <2>3, <3>1 DEF OneRePusher
  <2> QED BY <2>2, <2>3
<1> QED BY <1>1, Inductive, PTL

\* recentlyStopped and stoppedSince: no path that a stop or a power-off is bound for goes
\* past its sleep, whatever the lengths of the windows and of the backoff.
THEOREM StopsHeard == Spec => []StopsAreHeard
<1>1. ASSUME IInv PROVE StopsAreHeard
  <2>1. HeardInv BY <1>1 DEF IInv
  <2> QED BY <2>1 DEF HeardInv, StopsAreHeard
<1> QED BY <1>1, Inductive, PTL

\* resumeIsStale, asked under boxCmdMu: a resume, a recovery or a spontaneous recovery
\* that pushes has captured no older play than the one of the app it replaces.
THEOREM AppPlaysStay == Spec => AppPlaysKept
<1>1. ASSUME IInv, NEW r \in Path, Pushes(r), kind[r] \in {"wake", "reconnect", "drop"}, uri \in App
      PROVE  recorded[uri] # 0 /\ recorded[uri] <= recorded[captured[r]]
  <2>1. boxCmdMu = r BY <1>1 DEF IInv, MutexInv, Pushes
  <2>2. ppc[uri] # "record" BY <1>1, <2>1, AutoAssumption DEF IInv, MutexInv
  <2> QED BY <1>1, <2>2 DEF IInv, KeepInv, Pushes
<1>2. IInv => \A r \in Path : Pushes(r) /\ kind[r] \in {"wake", "reconnect", "drop"} /\ uri \in App
                => recorded[uri] # 0 /\ recorded[uri] <= recorded[captured[r]]
  BY <1>1
<1> QED BY <1>2, Inductive, PTL DEF AppPlaysKept

\* boxPlayState: a box in standby is switched on by no automatic path but those that
\* were past their look at its power when it went off.
THEOREM SleepersAreLeft == Spec => SleepersLeftAlone
<1>1. ASSUME IInv, NEW r \in Path, PathStep(r), power = "standby", power' = "on"
      PROVE  r \in late
  <2>1. pc[r] \in {"wake", "push"}
    BY <1>1 DEF PathStep, StandDown, WakeSettled, WakeZoned, WakeLook, WakeAndWait, WakeBusy, RecoverSettled, RecoverLook, DropSettled,
         DropAwake, DropDefer, DeferredZoned, RePushSettled, RePushOwned, RePushOwnershipEnds, RePushLook, RePushGiveUp,
         RePushClaim, TakeLock, LockResume, LockRePush, LockUnchecked, Lock, Push, Unless, box
  <2> QED BY <1>1, <2>1 DEF IInv, SleepInv, PastLook
<1>2. IInv => \A r \in Path : PathStep(r) /\ power = "standby" /\ power' = "on" => r \in late
  BY <1>1
<1> QED BY <1>2, Inductive, PTL DEF SleepersLeftAlone
=============================================================================
