-------------------------- MODULE ResumeGuard_proofs --------------------------
(***************************************************************************)
(* How far the crash-loop guard can be overrun, for any number of paths.   *)
(* A path counts its attempt seconds after it has asked the guard, so what *)
(* is bounded is the count together with the paths that may still add to   *)
(* it; a count that lapsed is started again by the next of them.  On sound *)
(* hardware, one path at a time, the count covers the pushes but one.      *)
(***************************************************************************)
EXTENDS ResumeGuard, FiniteSetTheorems, TLAPS

Bound == MaxAttempts + Cardinality(Path) - 1

\* The paths that have passed the guard and have not counted their attempt.
Checked == {r \in Path : \/ pc[r] \in {"settle", "note"}
                         \/ pc[r] = "lock" /\ kind[r] = "resume"}

\* The attempts on trial, and those that may still join them.
CountInv ==
  /\ attempts <= Bound
  /\ Since(lastAt) < Window => attempts + Cardinality(Checked) <= Bound

\* What may reach NAND.
RecordInv ==
  /\ nand.attempts <= Bound
  /\ \A w \in writes : w.attempts = 0
  /\ \A r \in Path : pc[r] = "persist" => noted[r].attempts <= Bound

\* Only the recovery of a spontaneous power-off asks for the source of the box, and only a
\* deferred resume has its own wait for the lock.
SourceInv == \A r \in Path : /\ pc[r] = "source" => kind[r] # "resume"
                             /\ pc[r] = "deferLock" => kind[r] = "deferred"

ClockInv == up <= now

IInv == TypeOK /\ ClockInv /\ RecordInv /\ SourceInv /\ CountInv

-----------------------------------------------------------------------------
\* A stability timer, and the attempt that will arm one, are of this process.
TimerInv ==
  /\ boot >= 1
  /\ \A t \in timers : t.boot = boot
  /\ \A r \in Path : pc[r] = "persist" => noted[r].at.boot = boot

\* The pushes of the crash loop: none once a window has passed without one.
Loop == IF now - lastPush >= Window THEN 0 ELSE streak

\* A count of n attempts with the stamp t: the last was after the last push of the loop.
Dated(n, t) ==
  n > 0 => /\ t.boot \in 1 .. boot /\ t.mono <= now /\ t.wall = Epoch + t.mono
           /\ Loop > 0 => lastPush <= t.mono

\* A path that has counted its attempt and not yet pushed; that has also written the count.
Counted(r) ==
  /\ kind[r] # "deferred"
  /\ \/ pc[r] \in {"persist", "source", "push"}
     \/ pc[r] = "lock" /\ kind[r] = "spontaneous"
Written(r) == Counted(r) /\ pc[r] # "persist"

\* Of a count, in memory or on NAND, with the stamp t.
CountHolds(n, t) == n <= MaxAttempts /\ Dated(n, t) /\ Loop <= n + 1

\* A path's own attempt is in the count, which is of this very tick.
OwnAttempt(n, t) == Loop <= n /\ (n > 0 => t.mono = now)

\* What holds while the hardware is sound and one path at a time is in flight.
LoopInv ==
  ~troubled =>
    /\ synced /\ lastPush <= now /\ streak <= MaxAttempts + 1
    /\ \A q, r \in Path : pc[q] # "idle" /\ pc[r] # "idle" => q = r
    /\ CountHolds(attempts, lastAt) /\ CountHolds(nand.attempts, nand.at)
    /\ \A r \in Checked : attempts < MaxAttempts \/ Since(lastAt) >= Window
    /\ \A r \in Path : pc[r] = "persist" =>
         /\ CountHolds(noted[r].attempts, noted[r].at)
         /\ OwnAttempt(noted[r].attempts, noted[r].at)
    /\ \A r \in Path : Counted(r) => OwnAttempt(attempts, lastAt)
    /\ \A r \in Path : Written(r) => OwnAttempt(nand.attempts, nand.at)

-----------------------------------------------------------------------------
(* The number of paths, and of a set of paths, is a natural number. *)
LEMMA PathCard == Cardinality(Path) \in Nat /\ Cardinality(Path) >= 1
<1>1. IsFiniteSet(Path) /\ Path # {}
  BY GuardAssumption
<1>2. Cardinality(Path) \in Nat
  BY <1>1, FS_CardinalityType
<1>3. Cardinality(Path) # 0
  BY <1>1, FS_EmptySet
<1>. QED
  BY <1>2, <1>3

(* Fewer paths, a smaller number. *)
LEMMA SubsetCard ==
  ASSUME NEW S \in SUBSET Path, NEW T \in SUBSET S
  PROVE  /\ Cardinality(S) \in Nat /\ Cardinality(S) <= Cardinality(Path)
         /\ Cardinality(T) \in Nat /\ Cardinality(T) <= Cardinality(S)
<1>1. IsFiniteSet(Path)
  BY GuardAssumption
<1>2. IsFiniteSet(S) /\ Cardinality(S) <= Cardinality(Path)
  BY <1>1, FS_Subset
<1>3. IsFiniteSet(T) /\ Cardinality(T) <= Cardinality(S)
  BY <1>2, FS_Subset
<1>. QED
  BY <1>2, <1>3, FS_CardinalityType

(* A path that leaves the set makes it smaller by one. *)
LEMMA RemoveCard ==
  ASSUME NEW S \in SUBSET Path, NEW r \in S
  PROVE  Cardinality(S \ {r}) = Cardinality(S) - 1
<1>1. IsFiniteSet(Path)
  BY GuardAssumption
<1>2. IsFiniteSet(S)
  BY <1>1, FS_Subset
<1>. QED
  BY <1>2, FS_RemoveElement

(* The paths that passed the guard are paths. *)
LEMMA CheckedPaths == Checked \in SUBSET Path /\ Checked' \in SUBSET Path
BY DEF Checked

-----------------------------------------------------------------------------
(* The initial state. *)
LEMMA InitIInv == Init => IInv /\ TimerInv
<1>. SUFFICES ASSUME Init PROVE IInv /\ TimerInv
  OBVIOUS
<1>0. synced \in BOOLEAN /\ troubled \in BOOLEAN
  BY Zenon DEF Init
<1>1. TypeOK /\ ClockInv
  BY <1>0 DEF Init, TypeOK, ClockInv, Stamps, Records, Never, None
<1>2. RecordInv /\ SourceInv /\ CountInv
  <2>1. Cardinality(Checked) <= Cardinality(Path) /\ Cardinality(Checked) \in Nat
    BY SubsetCard, CheckedPaths
  <2>. QED
    BY <2>1, PathCard, GuardAssumption DEF Init, RecordInv, SourceInv, CountInv, Bound
<1>3. TimerInv
  BY DEF Init, TimerInv
<1>. QED
  BY <1>1, <1>2, <1>3 DEF IInv

(* Types, record by record. *)
LEMMA StepType == IInv /\ [Next]_vars => TypeOK' /\ ClockInv'
<1>. SUFFICES ASSUME IInv, [Next]_vars PROVE TypeOK' /\ ClockInv'
  OBVIOUS
<1>. USE DEF IInv, TypeOK, ClockInv
<1>0. Stamp \in Stamps /\ Never \in Stamps
  BY GuardAssumption DEF Stamp, Never, Stamps, Wall
<1>1. CASE SetLastPlay
  BY <1>0, <1>1 DEF SetLastPlay, clocks, guard, paths, history, Records
<1>2. CASE Tick
  BY <1>2 DEF Tick, clocks, guard, paths, history
<1>3. CASE SyncClock
  BY <1>3 DEF SyncClock, clocks, guard, paths, history
<1>4. CASE Restart
  <2>1. synced' \in BOOLEAN /\ troubled' \in BOOLEAN
    BY <1>4, Zenon DEF Restart
  <2>2. now' \in Nat /\ up' \in Nat /\ up' <= now'
    BY <1>4 DEF Restart
  <2>3. /\ boot' \in Nat /\ plays' \in Nat /\ lastPlay' \in Nat /\ deferred' \in Nat
        /\ attempts' \in Nat /\ lastAt' \in Stamps /\ nand' \in Records
        /\ writes' = {} /\ timers' = {} /\ boxCmdMu' = None
    BY <1>4 DEF Restart, Records
  <2>4. /\ pc' = [r \in Path |-> "idle"]
        /\ UNCHANGED <<kind, captured, noted, streak, lastPush>>
    BY <1>4 DEF Restart, history
  <2>. QED
    BY <2>1, <2>2, <2>3, <2>4
<1>5. ASSUME NEW w \in writes, PersistLastPlay(w) PROVE TypeOK' /\ ClockInv'
  BY <1>5 DEF PersistLastPlay, WriteNand, clocks, guard, paths, history
<1>6. ASSUME NEW t \in timers, ClearIfQuiet(t) PROVE TypeOK' /\ ClockInv'
  BY <1>0, <1>6 DEF ClearIfQuiet, clocks, guard, paths, history, Records
<1>7. ASSUME NEW r \in Path, NEW k \in {"resume", "spontaneous"}, Trigger(r, k)
      PROVE TypeOK' /\ ClockInv'
  <2>1. troubled' \in BOOLEAN
    BY <1>7, Zenon DEF Trigger, Starts
  <2>. QED
    BY <1>7, <2>1 DEF Trigger, Goto, clocks, guard
<1>8. ASSUME NEW r \in Path, RunDeferredResume(r) PROVE TypeOK' /\ ClockInv'
  <2>1. troubled' \in BOOLEAN
    BY <1>8, Zenon DEF RunDeferredResume, Starts
  <2>. QED
    BY <1>8, <2>1 DEF RunDeferredResume, Goto, clocks, guard, paths
<1>9. ASSUME NEW r \in Path, PathStep(r) PROVE TypeOK' /\ ClockInv'
  <2>1. CASE StandDown(r)
    BY <1>9, <2>1 DEF StandDown, Goto, clocks, guard, paths, history
  <2>2. CASE Settled(r)
    BY <1>9, <2>2 DEF Settled, Goto, clocks, guard, paths, history
  <2>3. CASE Lock(r)
    BY <1>9, <2>3 DEF Lock, Goto, clocks, guard, paths, history
  <2>4. CASE NoteAttempt(r)
    BY <1>9, <2>4, <1>0 DEF NoteAttempt, Goto, clocks, guard, paths, history, Records
  <2>5. CASE PersistAttempt(r)
    BY <1>9, <2>5 DEF PersistAttempt, Goto, clocks, guard, paths, history, WriteNand, Records
  <2>6. CASE Defer(r)
    BY <1>9, <2>6 DEF Defer, Goto, clocks, guard, paths, history
  <2>7. CASE SourceAwake(r)
    BY <1>9, <2>7 DEF SourceAwake, Goto, clocks, guard, paths, history
  <2>8. CASE Push(r)
    BY <1>9, <2>8 DEF Push, Goto, clocks, guard, paths, history
  <2>9. CASE DeferredLock(r)
    BY <1>9, <2>9 DEF DeferredLock, Goto, clocks, guard, paths, history
  <2>. QED
    BY <1>9, <2>1, <2>2, <2>3, <2>4, <2>5, <2>6, <2>7, <2>8, <2>9 DEF PathStep
<1>10. CASE UNCHANGED vars
  BY <1>10 DEF vars, clocks, guard, paths, history
<1>. QED
  BY <1>1, <1>2, <1>3, <1>4, <1>5, <1>6, <1>7, <1>8, <1>9, <1>10 DEF Next

-----------------------------------------------------------------------------
(* A step that leaves the guard and the clocks alone and lets no path pass. *)
LEMMA SameGuard ==
  ASSUME IInv, UNCHANGED <<attempts, lastAt, now, up, synced, boot>>,
         Checked' \in SUBSET Checked
  PROVE  CountInv'
<1>1. /\ Cardinality(Checked) \in Nat /\ Cardinality(Checked') \in Nat
      /\ Cardinality(Checked') <= Cardinality(Checked)
  BY SubsetCard, CheckedPaths
<1>2. Since(lastAt)' = Since(lastAt)
  BY DEF Since, Wall
<1>. QED
  BY <1>1, <1>2, PathCard, GuardAssumption DEF IInv, TypeOK, CountInv, Bound

(* A step that clears the count. *)
LEMMA ClearedGuard ==
  ASSUME attempts' = 0
  PROVE  CountInv'
<1>1. Cardinality(Checked') \in Nat /\ Cardinality(Checked') <= Cardinality(Path)
  BY SubsetCard, CheckedPaths
<1>. QED
  BY <1>1, PathCard, GuardAssumption DEF CountInv, Bound

(* Every step keeps the count bounded. *)
LEMMA StepCount == IInv /\ [Next]_vars => CountInv'
<1>. SUFFICES ASSUME IInv, [Next]_vars PROVE CountInv'
  OBVIOUS
<1>0. /\ Cardinality(Checked) \in Nat /\ Cardinality(Checked') \in Nat
      /\ Cardinality(Checked) <= Cardinality(Path)
      /\ Cardinality(Checked') <= Cardinality(Path)
  BY SubsetCard, CheckedPaths
<1>1. CASE SetLastPlay
  BY <1>1, ClearedGuard DEF SetLastPlay
<1>2. CASE Tick \/ SyncClock
  <2>1. Checked' = Checked /\ attempts' = attempts /\ lastAt' = lastAt
    BY <1>2 DEF Tick, SyncClock, Checked, paths, guard
  <2>2. Since(lastAt)' >= Since(lastAt)
    BY <1>2, GuardAssumption
      DEF Tick, SyncClock, guard, IInv, TypeOK, ClockInv, Since, Wall, Never, Stamps
  <2>3. Since(lastAt) \in Int /\ Since(lastAt)' \in Int
    BY <1>2, GuardAssumption
      DEF Tick, SyncClock, guard, IInv, TypeOK, Since, Wall, Never, Stamps
  <2>. QED
    BY <2>1, <2>2, <2>3, GuardAssumption DEF IInv, TypeOK, CountInv, Bound
<1>4. CASE Restart
  <2>1. Checked' = {}
    BY <1>4 DEF Restart, Checked
  <2>2. Cardinality(Checked') = 0
    BY <2>1, FS_EmptySet
  <2>. QED
    BY <1>4, <2>2, PathCard, GuardAssumption
      DEF Restart, IInv, TypeOK, RecordInv, CountInv, Bound, Records
<1>5. ASSUME NEW w \in writes, PersistLastPlay(w) PROVE CountInv'
  BY <1>5, SameGuard DEF PersistLastPlay, clocks, guard, paths, Checked
<1>6. ASSUME NEW t \in timers, ClearIfQuiet(t) PROVE CountInv'
  <2>1. CASE attempts' = 0
    BY <2>1, ClearedGuard
  <2>2. CASE attempts' # 0
    BY <1>6, <2>2, SameGuard DEF ClearIfQuiet, clocks, guard, paths, Checked
  <2>. QED
    BY <2>1, <2>2
<1>7. ASSUME NEW r \in Path, NEW k \in {"resume", "spontaneous"}, Trigger(r, k)
      PROVE CountInv'
  <2>1. Since(lastAt)' = Since(lastAt) /\ attempts' = attempts
    BY <1>7 DEF Trigger, clocks, guard, Since, Wall
  <2>2. attempts < MaxAttempts \/ ~(Since(lastAt) < Window)
    BY <1>7, GuardAssumption DEF Trigger, Blocked, IInv, TypeOK
  <2>. QED
    BY <1>0, <2>1, <2>2, PathCard, GuardAssumption
      DEF IInv, TypeOK, CountInv, Bound
<1>8. ASSUME NEW r \in Path, RunDeferredResume(r) PROVE CountInv'
  <2>1. Checked' \in SUBSET Checked
    BY <1>8 DEF RunDeferredResume, Goto, Checked, IInv, TypeOK
  <2>. QED
    BY <1>8, <2>1, SameGuard DEF RunDeferredResume, clocks, guard
<1>9. ASSUME NEW r \in Path, PathStep(r) PROVE CountInv'
  <2>1. CASE StandDown(r)
    <3>1. Checked' \in SUBSET Checked
      BY <1>9, <2>1 DEF StandDown, Goto, Checked, paths, IInv, TypeOK
    <3>. QED
      BY <2>1, <3>1, SameGuard DEF StandDown, clocks, guard
  <2>2. CASE Settled(r)
    <3>1. Checked' \in SUBSET Checked
      BY <1>9, <2>2 DEF Settled, Goto, Checked, paths, IInv, TypeOK
    <3>. QED
      BY <2>2, <3>1, SameGuard DEF Settled, clocks, guard
  <2>3. CASE Lock(r)
    <3>1. Checked' \in SUBSET Checked
      BY <1>9, <2>3 DEF Lock, Goto, Checked, paths, IInv, TypeOK
    <3>. QED
      BY <2>3, <3>1, SameGuard DEF Lock, clocks, guard
  <2>4. CASE PersistAttempt(r)
    <3>1. Checked' \in SUBSET Checked
      BY <1>9, <2>4 DEF PersistAttempt, Goto, Checked, paths, IInv, TypeOK
    <3>. QED
      BY <2>4, <3>1, SameGuard DEF PersistAttempt, clocks, guard
  <2>5. CASE Defer(r)
    <3>1. Checked' \in SUBSET Checked
      BY <1>9, <2>5 DEF Defer, Goto, Checked, paths, IInv, TypeOK
    <3>. QED
      BY <2>5, <3>1, SameGuard DEF Defer, clocks, guard
  <2>6. CASE SourceAwake(r)
    <3>1. Checked' \in SUBSET Checked
      BY <1>9, <2>6 DEF SourceAwake, Goto, Checked, paths, IInv, TypeOK, SourceInv
    <3>. QED
      BY <2>6, <3>1, SameGuard DEF SourceAwake, clocks, guard
  <2>7. CASE Push(r)
    <3>1. Checked' \in SUBSET Checked
      BY <1>9, <2>7 DEF Push, Goto, Checked, paths, IInv, TypeOK
    <3>. QED
      BY <2>7, <3>1, SameGuard DEF Push, clocks, guard
  <2>8. CASE DeferredLock(r)
    <3>1. Checked' \in SUBSET Checked
      BY <1>9, <2>8 DEF DeferredLock, Goto, Checked, paths, IInv, TypeOK
    <3>. QED
      BY <2>8, <3>1, SameGuard DEF DeferredLock, clocks, guard
  <2>9. CASE NoteAttempt(r)
    <3>1. r \in Checked /\ Checked' = Checked \ {r}
      BY <1>9, <2>9 DEF NoteAttempt, Goto, Checked, IInv, TypeOK
    <3>2. Cardinality(Checked') = Cardinality(Checked) - 1
      BY <3>1, RemoveCard, CheckedPaths
    <3>3. CASE Since(lastAt) >= Window
      <4>1. attempts' = 1
        BY <2>9, <3>3 DEF NoteAttempt
      <4>. QED
        BY <1>0, <3>2, <4>1, PathCard, GuardAssumption DEF CountInv, Bound
    <3>4. CASE ~(Since(lastAt) >= Window)
      <4>1. attempts' = attempts + 1
        BY <2>9, <3>4 DEF NoteAttempt
      <4>2. Since(lastAt) \in Int
        BY GuardAssumption DEF IInv, TypeOK, Since, Wall, Never, Stamps
      <4>3. attempts + Cardinality(Checked) <= Bound
        BY <3>4, <4>2, GuardAssumption DEF IInv, CountInv
      <4>. QED
        BY <1>0, <3>2, <4>1, <4>3, PathCard, GuardAssumption
          DEF IInv, TypeOK, CountInv, Bound
    <3>. QED
      BY <3>3, <3>4
  <2>. QED
    BY <1>9, <2>1, <2>2, <2>3, <2>4, <2>5, <2>6, <2>7, <2>8, <2>9 DEF PathStep
<1>10. CASE UNCHANGED vars
  BY <1>10, SameGuard DEF vars, clocks, guard, paths, Checked
<1>. QED
  BY <1>1, <1>2, <1>4, <1>5, <1>6, <1>7, <1>8, <1>9, <1>10 DEF Next

(* Every step keeps what may reach NAND bounded. *)
LEMMA StepRecord == IInv /\ CountInv' /\ [Next]_vars => RecordInv' /\ SourceInv'
<1>. SUFFICES ASSUME IInv, CountInv', [Next]_vars PROVE RecordInv' /\ SourceInv'
  OBVIOUS
<1>. USE DEF IInv, TypeOK, RecordInv, SourceInv, Bound
<1>0. Bound \in Nat /\ Bound' = Bound
  BY PathCard, GuardAssumption
<1>1. CASE SetLastPlay
  BY <1>1, <1>0 DEF SetLastPlay, guard, paths
<1>2. CASE Tick \/ SyncClock
  BY <1>2 DEF Tick, SyncClock, paths
<1>4. CASE Restart
  BY <1>4 DEF Restart
<1>5. ASSUME NEW w \in writes, PersistLastPlay(w) PROVE RecordInv' /\ SourceInv'
  BY <1>5, <1>0 DEF PersistLastPlay, WriteNand, paths, Records
<1>6. ASSUME NEW t \in timers, ClearIfQuiet(t) PROVE RecordInv' /\ SourceInv'
  BY <1>6 DEF ClearIfQuiet, paths
<1>7. ASSUME NEW r \in Path, NEW k \in {"resume", "spontaneous"}, Trigger(r, k)
      PROVE RecordInv' /\ SourceInv'
  BY <1>7 DEF Trigger, Goto
<1>8. ASSUME NEW r \in Path, RunDeferredResume(r) PROVE RecordInv' /\ SourceInv'
  BY <1>8 DEF RunDeferredResume, Goto, paths
<1>9. ASSUME NEW r \in Path, PathStep(r) PROVE RecordInv' /\ SourceInv'
  <2>1. CASE StandDown(r)
    BY <1>9, <2>1 DEF StandDown, Goto, paths
  <2>2. CASE Settled(r)
    BY <1>9, <2>2 DEF Settled, Goto, paths
  <2>3. CASE Lock(r)
    BY <1>9, <2>3 DEF Lock, Goto, paths
  <2>4. CASE NoteAttempt(r)
    BY <1>9, <2>4 DEF NoteAttempt, Goto, paths, CountInv
  <2>5. CASE PersistAttempt(r)
    BY <1>9, <2>5 DEF PersistAttempt, Goto, paths, WriteNand
  <2>6. CASE Defer(r)
    BY <1>9, <2>6 DEF Defer, Goto, paths
  <2>7. CASE SourceAwake(r)
    BY <1>9, <2>7 DEF SourceAwake, Goto, paths
  <2>8. CASE Push(r)
    BY <1>9, <2>8 DEF Push, Goto, paths
  <2>9. CASE DeferredLock(r)
    BY <1>9, <2>9 DEF DeferredLock, Goto, paths
  <2>. QED
    BY <1>9, <2>1, <2>2, <2>3, <2>4, <2>5, <2>6, <2>7, <2>8, <2>9 DEF PathStep
<1>10. CASE UNCHANGED vars
  BY <1>10 DEF vars, paths
<1>. QED
  BY <1>1, <1>2, <1>4, <1>5, <1>6, <1>7, <1>8, <1>9, <1>10 DEF Next

-----------------------------------------------------------------------------
(* The timers. *)

(* Every step keeps timers and uncounted attempts to the process that made them. *)
LEMMA StepTimer == IInv /\ TimerInv /\ [Next]_vars => TimerInv'
<1>. SUFFICES ASSUME IInv, TimerInv, [Next]_vars PROVE TimerInv'
  OBVIOUS
<1>. USE DEF IInv, TypeOK, TimerInv
<1>1. CASE SetLastPlay \/ Tick \/ SyncClock
  BY <1>1 DEF SetLastPlay, Tick, SyncClock, paths, clocks
<1>2. CASE Restart
  BY <1>2 DEF Restart
<1>3. ASSUME NEW w \in writes, PersistLastPlay(w) PROVE TimerInv'
  BY <1>3 DEF PersistLastPlay, paths
<1>4. ASSUME NEW t \in timers, ClearIfQuiet(t) PROVE TimerInv'
  BY <1>4 DEF ClearIfQuiet, paths
<1>5. ASSUME NEW r \in Path, NEW k \in {"resume", "spontaneous"}, Trigger(r, k) PROVE TimerInv'
  BY <1>5 DEF Trigger, Goto
<1>6. ASSUME NEW r \in Path, RunDeferredResume(r) PROVE TimerInv'
  BY <1>6 DEF RunDeferredResume, Goto, paths
<1>7. ASSUME NEW r \in Path, PathStep(r) PROVE TimerInv'
  <2>1. CASE NoteAttempt(r)
    BY <2>1 DEF NoteAttempt, Goto, Stamp
  <2>2. CASE PersistAttempt(r)
    BY <2>2 DEF PersistAttempt, Goto
  <2>3. CASE StandDown(r) \/ Settled(r) \/ Lock(r)
    BY <2>3 DEF StandDown, Settled, Lock, Goto
  <2>4. CASE Defer(r) \/ SourceAwake(r) \/ Push(r) \/ DeferredLock(r)
    BY <2>4 DEF Defer, SourceAwake, Push, DeferredLock, Goto
  <2>. QED
    BY <1>7, <2>1, <2>2, <2>3, <2>4 DEF PathStep
<1>8. CASE UNCHANGED vars
  BY <1>8 DEF vars, paths
<1>. QED
  BY <1>1, <1>2, <1>3, <1>4, <1>5, <1>6, <1>7, <1>8 DEF Next

(* A step that makes the count fall finds the last attempt old enough. *)
LEMMA StepForgets ==
  IInv /\ TimerInv /\ [Next]_vars =>
    (boot' = boot /\ attempts' < attempts /\ plays' = plays => Since(lastAt) >= StableAfter)
<1>. SUFFICES ASSUME IInv, TimerInv, [Next]_vars, boot' = boot, attempts' < attempts, plays' = plays
              PROVE  Since(lastAt) >= StableAfter
  OBVIOUS
<1>. USE DEF IInv, TypeOK
<1>1. CASE SetLastPlay \/ Restart
  BY <1>1 DEF SetLastPlay, Restart
<1>2. ASSUME NEW t \in timers, ClearIfQuiet(t) PROVE Since(lastAt) >= StableAfter
  <2>1. lastAt = t /\ t.mono + StableAfter <= now
    BY <1>2 DEF ClearIfQuiet, guard, Due
  <2>2. t.boot = boot /\ t # Never
    BY DEF TimerInv, Never
  <2>. QED
    BY <2>1, <2>2, GuardAssumption DEF Since, Stamps
<1>3. ASSUME NEW r \in Path, NoteAttempt(r) PROVE Since(lastAt) >= StableAfter
  <2>1. Since(lastAt) >= Window
    BY <1>3 DEF NoteAttempt
  <2>2. Since(lastAt) \in Int
    BY GuardAssumption DEF Since, Wall, Never, Stamps
  <2>. QED
    BY <2>1, <2>2, GuardAssumption
<1>4. CASE UNCHANGED attempts
  BY <1>4
<1>5. ASSUME NEW r \in Path, PathStep(r), ~NoteAttempt(r) PROVE UNCHANGED attempts
  BY <1>5 DEF PathStep, StandDown, Settled, Lock, PersistAttempt, Defer, SourceAwake, Push, DeferredLock, guard
<1>6. ASSUME NEW r \in Path, (\E k \in {"resume", "spontaneous"} : Trigger(r, k)) \/ RunDeferredResume(r)
      PROVE  UNCHANGED attempts
  BY <1>6 DEF Trigger, RunDeferredResume, guard
<1>7. ASSUME NEW w \in writes, PersistLastPlay(w) PROVE UNCHANGED attempts
  BY <1>7 DEF PersistLastPlay, guard
<1>8. CASE Tick \/ SyncClock \/ UNCHANGED vars
  BY <1>8 DEF Tick, SyncClock, vars, guard
<1>. QED
  BY <1>1, <1>2, <1>3, <1>4, <1>5, <1>6, <1>7, <1>8 DEF Next

-----------------------------------------------------------------------------
(* The crash loop. *)

(* The loop is a number of pushes, and time only makes it shorter. *)
LEMMA LoopType == TypeOK => Loop \in Nat /\ Loop <= streak
BY DEF TypeOK, Loop

(* On sound hardware the age of a counted attempt is the true one, across restarts too. *)
LEMMA AgeTrue ==
  ASSUME TypeOK, synced, NEW n \in Nat, NEW t \in Stamps, Dated(n, t), n > 0
  PROVE  Since(t) = now - t.mono
BY GuardAssumption DEF TypeOK, Dated, Since, Never, Wall, Stamps

(* A count that restarts in the loop, or goes on, covers the pushes of the loop. *)
LEMMA Noting ==
  ASSUME TypeOK, synced, ~(attempts > 0 /\ ~Dated(attempts, lastAt)), Loop <= attempts + 1,
         attempts < MaxAttempts \/ Since(lastAt) >= Window,
         NEW m \in Nat, m = IF Since(lastAt) >= Window THEN 1 ELSE attempts + 1
  PROVE  Loop <= m /\ m <= MaxAttempts
<1>. USE DEF TypeOK
<1>0. Since(lastAt) \in Int
  BY GuardAssumption DEF Since, Wall, Never, Stamps
<1>1. CASE ~(Since(lastAt) >= Window)
  BY <1>0, <1>1, GuardAssumption
<1>2. CASE Since(lastAt) >= Window /\ attempts = 0
  BY <1>2, GuardAssumption
<1>3. CASE Since(lastAt) >= Window /\ attempts > 0
  <2>1. Dated(attempts, lastAt) /\ now - lastAt.mono >= Window
    BY <1>3, AgeTrue
  <2>2. Loop = 0
    BY <1>3, <2>1, GuardAssumption, LoopType DEF Dated, Stamps, Loop
  <2>. QED
    BY <1>3, <2>2, GuardAssumption
<1>. QED
  BY <1>1, <1>2, <1>3, GuardAssumption

(* A step of path r that leaves counts and clocks alone and counts nothing. *)
LEMMA SameLoop ==
  ASSUME IInv, LoopInv, ~troubled, NEW r \in Path, NEW l,
         UNCHANGED <<now, up, synced, boot, attempts, lastAt, nand, noted, streak, lastPush, troubled>>,
         pc' = [pc EXCEPT ![r] = l], \A q \in Path \ {r} : kind'[q] = kind[q],
         pc[r] # "idle" \/ \A q \in Path : pc[q] = "idle",
         r \in Checked' => r \in Checked \/ attempts < MaxAttempts \/ Since(lastAt) >= Window,
         l # "persist", Counted(r)' => Written(r)
  PROVE  LoopInv'
<1>. USE DEF IInv, TypeOK, Loop
<1>1. \A q \in Path : pc'[q] = IF q = r THEN l ELSE pc[q]
  OBVIOUS
<1>2. \A n, t : CountHolds(n, t)' <=> CountHolds(n, t)
  BY DEF CountHolds, Dated
<1>3. Since(lastAt)' = Since(lastAt)
  BY DEF Since, Wall
<1>4. \A q \in Checked' : q # r => q \in Checked
  BY <1>1 DEF Checked
<1>5. \A q \in Path \ {r} : (Counted(q)' => Counted(q)) /\ (Written(q)' => Written(q))
  BY <1>1 DEF Counted, Written
<1>6. Written(r)' => Written(r)
  BY DEF Written
<1>7. Counted(r)' => Counted(r)
  BY DEF Written
<1>8. synced' /\ lastPush' <= now' /\ streak' <= MaxAttempts + 1
  BY DEF LoopInv
<1>9. \A p, q \in Path : pc'[p] # "idle" /\ pc'[q] # "idle" => p = q
  BY <1>1 DEF LoopInv
<1>10. CountHolds(attempts, lastAt)' /\ CountHolds(nand.attempts, nand.at)'
  BY DEF LoopInv, CountHolds, Dated
<1>11. \A q \in Checked' : attempts' < MaxAttempts \/ Since(lastAt)' >= Window
  BY <1>3, <1>4 DEF LoopInv
<1>12. \A q \in Path : pc'[q] = "persist" =>
         CountHolds(noted[q].attempts, noted[q].at)' /\ OwnAttempt(noted[q].attempts, noted[q].at)'
  BY <1>1 DEF LoopInv, CountHolds, Dated, OwnAttempt
<1>13. \A q \in Path : (Counted(q)' => OwnAttempt(attempts, lastAt)')
                    /\ (Written(q)' => OwnAttempt(nand.attempts, nand.at)')
  BY <1>5, <1>6, <1>7 DEF LoopInv, OwnAttempt
<1>. QED
  BY <1>8, <1>9, <1>10, <1>11, <1>12, <1>13 DEF LoopInv

(* Every step keeps the crash loop within the count. *)
LEMMA StepLoop == IInv /\ TimerInv /\ LoopInv /\ [Next]_vars => LoopInv'
<1>. SUFFICES ASSUME IInv, TimerInv, LoopInv, [Next]_vars, ~troubled' PROVE LoopInv'
  BY DEF LoopInv
<1>. USE GuardAssumption DEF IInv, TypeOK, TimerInv, Checked, Counted, Written, Stamps, Records
<1>0. ~troubled
  BY DEF Next, PathStep, vars, history, SetLastPlay, Tick, SyncClock, Restart, PersistLastPlay, WriteNand,
         ClearIfQuiet, Trigger, RunDeferredResume, Starts, StandDown, Settled, Lock, NoteAttempt,
         PersistAttempt, Defer, SourceAwake, Push, DeferredLock
<1>. USE <1>0
<1>1. CASE SetLastPlay
  BY <1>1 DEF LoopInv, CountHolds, OwnAttempt, Dated, Loop, SetLastPlay, clocks, paths
<1>2. CASE Tick
  BY <1>2 DEF LoopInv, CountHolds, OwnAttempt, Dated, Loop, Tick, guard, paths, history
<1>3. CASE SyncClock
  BY <1>3 DEF LoopInv, SyncClock
<1>4. CASE Restart
  <2>1. /\ boot' = boot + 1 /\ attempts' = nand.attempts /\ lastAt' = nand.at /\ synced'
        /\ \A r \in Path : pc'[r] = "idle"
        /\ UNCHANGED <<now, nand, streak, lastPush>>
    BY <1>4 DEF Restart
  <2>2. Loop' = Loop
    BY <2>1 DEF Loop
  <2>3. CountHolds(nand.attempts, nand.at)'
    BY <2>1, <2>2 DEF LoopInv, CountHolds, Dated
  <2>4. CountHolds(attempts, lastAt)'
    BY <2>1, <2>3 DEF CountHolds, Dated, Loop
  <2>. QED
    BY <2>1, <2>3, <2>4 DEF LoopInv
<1>5. ASSUME NEW w \in writes, PersistLastPlay(w) PROVE LoopInv'
  BY <1>5 DEF LoopInv, CountHolds, OwnAttempt, Dated, Loop, PersistLastPlay, WriteNand, clocks, guard, paths, RecordInv, Since, Wall
<1>6. ASSUME NEW t \in timers, ClearIfQuiet(t) PROVE LoopInv'
  BY <1>6 DEF LoopInv, CountHolds, OwnAttempt, Dated, Loop, ClearIfQuiet, clocks, guard, paths, Since, Wall
<1>7. ASSUME NEW r \in Path, NEW k \in {"resume", "spontaneous"}, Trigger(r, k) PROVE LoopInv'
  <2>1. \A q \in Path : pc[q] = "idle"
    BY <1>7 DEF Trigger, Starts
  <2>2. attempts < MaxAttempts \/ Since(lastAt) >= Window
    BY <1>7 DEF Trigger, Blocked, Since, Wall, Never
  <2>3. pc' = [pc EXCEPT ![r] = "settle"] /\ ~Counted(r)'
    BY <1>7 DEF Trigger, Goto
  <2>4. /\ UNCHANGED <<now, up, synced, boot, attempts, lastAt, nand, noted, streak, lastPush, troubled>>
        /\ \A q \in Path \ {r} : kind'[q] = kind[q]
    BY <1>7 DEF Trigger, Starts, clocks, guard
  <2>. QED
    BY <2>1, <2>2, <2>3, <2>4, SameLoop
<1>8. ASSUME NEW r \in Path, RunDeferredResume(r) PROVE LoopInv'
  <2>0. UNCHANGED <<now, up, synced, boot, attempts, lastAt, nand, noted, streak, lastPush, troubled>>
    BY <1>8 DEF RunDeferredResume, Starts, clocks, guard
  <2>1. CASE UNCHANGED <<pc, kind>>
    <3>1. pc' = [pc EXCEPT ![r] = "idle"] /\ ~Counted(r)' /\ r \notin Checked'
      BY <1>8, <2>1 DEF RunDeferredResume
    <3>. QED
      BY <2>0, <2>1, <3>1 DEF LoopInv, CountHolds, OwnAttempt, Dated, Loop, Since, Wall
  <2>2. CASE ~UNCHANGED <<pc, kind>>
    <3>1. pc' = [pc EXCEPT ![r] = "deferLock"] /\ ~Counted(r)' /\ r \notin Checked'
          /\ \A q \in Path \ {r} : kind'[q] = kind[q]
      BY <1>8, <2>2 DEF RunDeferredResume, Goto
    <3>2. \A q \in Path : pc[q] = "idle"
      BY <1>8, <2>2 DEF RunDeferredResume, Starts
    <3>. QED
      BY <2>0, <3>1, <3>2, SameLoop
  <2>. QED
    BY <2>1, <2>2
<1>9. ASSUME NEW r \in Path, PathStep(r) PROVE LoopInv'
  <2>1. CASE StandDown(r) \/ Settled(r) \/ Lock(r)
    <3>0. UNCHANGED <<now, up, synced, boot, attempts, lastAt, nand, noted, streak, lastPush, troubled, kind>>
      BY <2>1 DEF StandDown, Settled, Lock, clocks, guard, history
    <3>1. pc[r] \in {"settle", "lock"}
      BY <2>1 DEF StandDown, Settled, Lock
    <3>2. PICK l \in {"idle", "lock", "note", "push"} :
            /\ pc' = [pc EXCEPT ![r] = l]
            /\ pc[r] = "settle" => l # "push" /\ (l = "lock" => kind[r] = "resume")
            /\ pc[r] = "lock" => (l = "note" /\ kind[r] = "resume") \/ (l = "push" /\ kind[r] # "resume") \/ l = "idle"
      BY <2>1 DEF StandDown, Settled, Lock, Goto
    <3>3. (r \in Checked' => r \in Checked) /\ (Counted(r)' => Written(r))
      BY <3>0, <3>1, <3>2
    <3>. QED
      BY <3>0, <3>1, <3>2, <3>3, SameLoop
  <2>2. CASE Defer(r) \/ SourceAwake(r) \/ DeferredLock(r)
    <3>0. UNCHANGED <<now, up, synced, boot, attempts, lastAt, nand, noted, streak, lastPush, troubled, kind>>
      BY <2>2 DEF Defer, SourceAwake, DeferredLock, clocks, guard, history
    <3>1. pc[r] \in {"source", "deferLock"}
      BY <2>2 DEF Defer, SourceAwake, DeferredLock
    <3>2. PICK l \in {"idle", "lock", "push"} :
            /\ pc' = [pc EXCEPT ![r] = l]
            /\ pc[r] = "source" => l # "push"
            /\ pc[r] = "deferLock" => l = "push"
      BY <2>2 DEF Defer, SourceAwake, DeferredLock, Goto
    <3>3. pc[r] = "source" => kind[r] # "resume"
      BY DEF SourceInv
    <3>4. pc[r] = "deferLock" => kind[r] = "deferred"
      BY DEF SourceInv
    <3>5. (r \in Checked' => r \in Checked) /\ (Counted(r)' => Written(r))
      BY <3>0, <3>1, <3>2, <3>3, <3>4
    <3>. QED
      BY <3>0, <3>1, <3>2, <3>5, SameLoop
  <2>3. CASE NoteAttempt(r)
    <3>0. /\ UNCHANGED <<now, up, synced, boot, nand, streak, lastPush, troubled, kind>>
          /\ pc[r] = "note" /\ pc' = [pc EXCEPT ![r] = "persist"]
          /\ attempts' = (IF Since(lastAt) >= Window THEN 1 ELSE attempts + 1) /\ lastAt' = Stamp
          /\ noted'[r].attempts = attempts' /\ noted'[r].at = Stamp
      BY <2>3 DEF NoteAttempt, Goto, clocks, history
    <3>1. Loop <= attempts' /\ attempts' <= MaxAttempts /\ attempts' \in Nat
      BY <3>0, Noting DEF LoopInv, CountHolds
    <3>2. Loop' = Loop
      BY <3>0 DEF Loop
    <3>3. Stamp.mono = now /\ Stamp.boot = boot /\ Stamp.wall = Epoch + now
      BY DEF Stamp, Wall, LoopInv
    <3>4. CountHolds(attempts, lastAt)' /\ OwnAttempt(attempts, lastAt)'
      BY <3>0, <3>1, <3>2, <3>3, LoopType DEF CountHolds, OwnAttempt, Dated, LoopInv
    <3>5. CountHolds(noted[r].attempts, noted[r].at)' /\ OwnAttempt(noted[r].attempts, noted[r].at)'
      BY <3>0, <3>4 DEF CountHolds, OwnAttempt, Dated
    <3>6. CountHolds(nand.attempts, nand.at)'
      BY <3>0, <3>2 DEF CountHolds, Dated, LoopInv
    <3>7. \A q \in Path \ {r} : pc'[q] = "idle"
      BY <3>0 DEF LoopInv
    <3>. QED
      BY <3>0, <3>4, <3>5, <3>6, <3>7 DEF LoopInv
  <2>4. CASE PersistAttempt(r)
    BY <2>4 DEF LoopInv, CountHolds, OwnAttempt, Dated, Loop, PersistAttempt, WriteNand, Goto, clocks, guard, Since, Wall
  <2>5. CASE Push(r)
    BY <2>5 DEF LoopInv, CountHolds, OwnAttempt, Dated, Loop, Push, Goto, clocks, guard, Since, Wall, history
  <2>. QED
    BY <1>9, <2>1, <2>2, <2>3, <2>4, <2>5 DEF PathStep
<1>10. CASE UNCHANGED vars
  BY <1>10 DEF LoopInv, CountHolds, OwnAttempt, Dated, Loop, vars, clocks, guard, paths, history, Since, Wall
<1>. QED
  BY <1>1, <1>2, <1>3, <1>4, <1>5, <1>6, <1>7, <1>8, <1>9, <1>10 DEF Next

-----------------------------------------------------------------------------
(* IInv is an invariant of the specification. *)
THEOREM Invariant == Spec => [](IInv /\ TimerInv)
<1>1. IInv /\ TimerInv /\ [Next]_vars => IInv' /\ TimerInv'
  BY StepType, StepCount, StepRecord, StepTimer DEF IInv
<1>. QED
  BY <1>1, InitIInv, PTL DEF Spec

(* Every variable of the guard keeps its type. *)
THEOREM TypeCorrect == Spec => []TypeOK
<1>1. IInv => TypeOK
  BY DEF IInv
<1>. QED
  BY <1>1, Invariant, PTL

(* With any number of automatic paths in flight, and whatever the clock, the  *)
(* NAND and the restarts do, the count, in memory and on NAND, exceeds        *)
(* maxAutoResumeAttempts by fewer attempts than there are paths.              *)
THEOREM GuardBounded == Spec => []AttemptsBounded
<1>1. IInv => AttemptsBounded
  BY DEF IInv, CountInv, RecordInv, AttemptsBounded, Bound
<1>. QED
  BY <1>1, Invariant, PTL

(* No timer of an earlier attempt clears the count of a later one: the count  *)
(* of a process falls only with a play of the user, or once the last attempt  *)
(* is autoResumeStableAfter old.                                              *)
THEOREM StabilityForgets == Spec => OnlyStabilityForgets
<1>1. IInv /\ TimerInv /\ [Next]_vars =>
        [boot' = boot /\ attempts' < attempts /\ plays' = plays => Since(lastAt) >= StableAfter]_vars
  BY StepForgets
<1>. QED
  BY <1>1, Invariant, PTL DEF Spec, OnlyStabilityForgets

(* A crash loop ends: while one automatic path is in flight at a time, NAND   *)
(* takes its writes and the clock is right, one push more than the limit is   *)
(* made, however often the speaker reboots.                                   *)
THEOREM CrashLoop == Spec => []CrashLoopEnds
<1>1. Init => LoopInv
  BY GuardAssumption
    DEF Init, LoopInv, CountHolds, Dated, Loop, Checked, Counted, Written
<1>2. LoopInv => CrashLoopEnds
  BY DEF LoopInv, CrashLoopEnds
<1>3. (IInv /\ TimerInv) /\ LoopInv /\ [Next]_vars => LoopInv'
  BY StepLoop
<1>. QED
  BY <1>1, <1>2, <1>3, Invariant, PTL DEF Spec
=============================================================================
